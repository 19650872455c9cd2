------------------------- MODULE ConversionsProofs -------------------------
(***************************************************************************)
(* Theorems about the conversions, for every size of their buffers, every  *)
(* hash function, point and signature: amounts stay in their buffers, the  *)
(* number that is written is that of the bytes on the wire, its text on    *)
(* the screen denotes it, an address is shown with its own checksum, an    *)
(* exported key tells what it can of its point, a signature is read back   *)
(* as it was made.                                                         *)
(***************************************************************************)
EXTENDS Conversions, Uint256Proofs, SequenceTheorems

-----------------------------------------------------------------------------
(* Amounts stay in their buffers *)

\* What may stand in the buffer of the digits.
Characters == HEXDIGITS \cup {Point, Beyond}

\* The sizes of the buffers.
LEMMA SizesAreNumbers ==
    Decimals \in Nat /\ TmpSize \in Nat /\ TmpSize >= 1 /\ OutSizes \subseteq Nat
  BY SizesAssumption

\* Mirroring keeps the characters and their number.
LEMMA MirroredLength ==
    ASSUME NEW s \in Seq(Characters)
    PROVE  stringReverse(s) \in Seq(Characters) /\ Len(stringReverse(s)) = Len(s)
<1> DEFINE t == [i \in 1 .. Len(s) |-> s[Len(s) + 1 - i]]
<1>1. Len(s) \in Nat
  OBVIOUS
<1>2. \A i \in 1 .. Len(s) : s[Len(s) + 1 - i] \in Characters
  BY <1>1
<1>3. t \in [1 .. Len(s) -> Characters]
  BY <1>2
<1>4. t \in Seq(Characters) /\ Len(t) = Len(s)
  BY <1>1, <1>3
<1>5. QED
  BY <1>4 DEF stringReverse

\* The zeroes in front of a short number.
LEMMA ZeroesLength ==
    ASSUME NEW n \in Nat
    PROVE  Zeroes(n) \in Seq(Characters) /\ Len(Zeroes(n)) = n
<1>1. 0 \in Characters
  BY DEF Characters, HEXDIGITS
<1>2. [i \in 1 .. n |-> 0] \in [1 .. n -> Characters]
  BY <1>1
<1>3. [i \in 1 .. n |-> 0] \in Seq(Characters) /\ Len([i \in 1 .. n |-> 0]) = n
  BY <1>2
<1>4. QED
  BY <1>3 DEF Zeroes

\* The space adjustDecimals asks for is enough for what it writes, and the terminator.
LEMMA SpreadFits ==
    ASSUME NEW src \in Seq(Characters)
    PROVE  Spread(src) \in Seq(Characters) /\ Len(Spread(src)) + 1 <= Needed(src)
<1>1. Len(src) \in Nat /\ Decimals \in Nat
  BY SizesAreNumbers
<1>2. 0 \in Characters /\ Point \in Characters
  BY DEF Characters, HEXDIGITS
<1>3. CASE Len(src) <= Decimals
  <2> DEFINE front  == <<0, Point>>
             zeroes == Zeroes(Decimals - Len(src))
  <2>1. zeroes \in Seq(Characters) /\ Len(zeroes) = Decimals - Len(src)
    BY <1>1, <1>3, ZeroesLength
  <2>2. front \in Seq(Characters) /\ Len(front) = 2
    BY <1>2
  <2>3. Spread(src) = (front \o zeroes) \o src
    BY <1>3 DEF Spread
  <2>4. Needed(src) = Len(src) + 1 + 2 + (Decimals - Len(src))
    BY <1>3 DEF Needed
  <2> HIDE DEF front, zeroes
  <2>5. front \o zeroes \in Seq(Characters) /\ Len(front \o zeroes) = Len(front) + Len(zeroes)
    BY <2>1, <2>2, ConcatProperties
  <2>6. /\ (front \o zeroes) \o src \in Seq(Characters)
        /\ Len((front \o zeroes) \o src) = Len(front \o zeroes) + Len(src)
    BY <2>5, ConcatProperties
  <2>7. QED
    BY <1>1, <1>3, <2>1, <2>2, <2>3, <2>4, <2>5, <2>6
<1>4. CASE ~(Len(src) <= Decimals)
  <2> DEFINE whole    == SubSeq(src, 1, Len(src) - Decimals)
             point    == IF Decimals # 0 THEN <<Point>> ELSE <<>>
             fraction == SubSeq(src, Len(src) - Decimals + 1, Len(src))
  <2>1. whole \in Seq(Characters) /\ Len(whole) = Len(src) - Decimals
    BY <1>1, <1>4
  <2>2. fraction \in Seq(Characters) /\ Len(fraction) = Decimals
    BY <1>1, <1>4
  <2>3. point \in Seq(Characters) /\ Len(point) <= 1
    BY <1>2
  <2>4. Spread(src) = (whole \o point) \o fraction
    BY <1>4 DEF Spread
  <2>5. Needed(src) = Len(src) + 1 + 1
    BY <1>4 DEF Needed
  <2> HIDE DEF whole, point, fraction
  <2>6. whole \o point \in Seq(Characters) /\ Len(whole \o point) = Len(whole) + Len(point)
    BY <2>1, <2>3, ConcatProperties
  <2>7. /\ (whole \o point) \o fraction \in Seq(Characters)
        /\ Len((whole \o point) \o fraction) = Len(whole \o point) + Len(fraction)
    BY <2>2, <2>6, ConcatProperties
  <2>8. Len(point) \in Nat
    BY <2>3
  <2>9. QED
    BY <1>1, <1>4, <2>1, <2>2, <2>3, <2>4, <2>5, <2>6, <2>7, <2>8
<1>5. QED
  BY <1>3, <1>4

\* The digits have room in tmp in every turn; a text is shown only after the caller's
\* buffer was found large enough for the digits.
BuffersInv ==
    /\ tmp \in Seq(Characters)
    /\ Len(tmp) <= TmpSize
    /\ phase = "shown" => outSize \in Nat /\ Adjustable(stringReverse(tmp), outSize)

\* At first the buffers are empty.
LEMMA BuffersInit == Init => BuffersInv
  BY SizesAreNumbers DEF Init, Idle, BuffersInv

\* Every action keeps to them.
LEMMA BuffersStep == BuffersInv /\ [Next]_cvars => BuffersInv'
<1> SUFFICES ASSUME BuffersInv, [Next]_cvars
             PROVE  BuffersInv'
  OBVIOUS
<1> USE DEF BuffersInv
<1>1. CASE txGetFormattedAmount
  BY <1>1 DEF txGetFormattedAmount, Write
<1>2. CASE txGetFormattedFee
  BY <1>2 DEF txGetFormattedFee, Write
<1>3. CASE RunOutOfSpace
  BY <1>3 DEF RunOutOfSpace
<1>4. CASE NextDigit
  <2> DEFINE division == divMod256(rDiv, BaseNumber)
             digit    == Digit(division.mod)
  <2>1. digit \in Characters
    BY DEF Digit, Characters
  <2>2. tmp' = Append(tmp, digit) /\ phase' # "shown" /\ Len(tmp) <= TmpSize - 1
    BY <1>4 DEF NextDigit
  <2> HIDE DEF digit
  <2>3. tmp' \in Seq(Characters) /\ Len(tmp') = Len(tmp) + 1
    BY <2>1, <2>2
  <2>4. QED
    BY <2>2, <2>3, SizesAreNumbers
<1>5. CASE Adjust
  <2>1. tmp' = tmp
    BY <1>5 DEF Adjust
  <2>2. PICK size \in OutSizes :
            /\ outSize' = size
            /\ phase' = IF Adjustable(stringReverse(tmp), size) THEN "shown" ELSE "rejected"
    BY <1>5 DEF Adjust
  <2>3. outSize' \in Nat
    BY <2>2, SizesAreNumbers
  <2>4. phase' = "shown" => Adjustable(stringReverse(tmp), outSize')
    BY <2>2
  <2>5. QED
    BY <2>1, <2>3, <2>4
<1>6. CASE Return
  BY <1>6, SizesAreNumbers DEF Return
<1>7. CASE UNCHANGED avars
  BY <1>7 DEF avars
<1>8. CASE UNCHANGED cvars
  BY <1>8 DEF cvars
<1>9. QED
  BY <1>1, <1>2, <1>3, <1>4, <1>5, <1>6, <1>7, <1>8 DEF Next, AmountsNext

\* Enough was asked for.
LEMMA BuffersSuffice == BuffersInv => TextFitsItsBuffer
<1> SUFFICES ASSUME BuffersInv
             PROVE  TextFitsItsBuffer
  OBVIOUS
<1> DEFINE src == stringReverse(tmp)
<1>1. src \in Seq(Characters)
  BY MirroredLength DEF BuffersInv
<1>2. Spread(src) \in Seq(Characters) /\ Len(Spread(src)) + 1 <= Needed(src)
  BY <1>1, SpreadFits
<1>3. Len(Spread(src)) \in Nat /\ Needed(src) \in Nat
  <2>1. Needed(src) \in Int
    BY <1>1, SizesAreNumbers DEF Needed
  <2>2. Len(Spread(src)) \in Nat
    BY <1>2
  <2>3. QED
    BY <1>2, <2>1, <2>2
<1>4. phase = "shown" => 2 <= outSize /\ (src # <<0>> => Len(Spread(src)) + 1 <= outSize)
  <2> SUFFICES ASSUME phase = "shown"
               PROVE  2 <= outSize /\ (src # <<0>> => Len(Spread(src)) + 1 <= outSize)
    OBVIOUS
  <2>1. outSize \in Nat /\ Adjustable(src, outSize)
    BY DEF BuffersInv
  <2>2. outSize > 2 /\ (src = <<0>> \/ outSize > Needed(src))
    BY <2>1 DEF Adjustable
  <2> HIDE DEF src
  <2>3. QED
    BY <1>2, <1>3, <2>1, <2>2
<1>5. QED
  BY <1>4 DEF BuffersInv, TextFitsItsBuffer

\* The digits of every amount and fee stay in tmp, and the text adjustDecimals writes
\* from them, terminator included, in the caller's buffer.
THEOREM TextStaysInItsBuffer == Spec => []TextFitsItsBuffer
<1>1. Init => BuffersInv
  BY BuffersInit
<1>2. BuffersInv /\ [Next]_cvars => BuffersInv'
  BY BuffersStep
<1>3. BuffersInv => TextFitsItsBuffer
  BY BuffersSuffice
<1>4. QED
  BY <1>1, <1>2, <1>3, PTL DEF Spec

-----------------------------------------------------------------------------
(* The checksum of an address is that of its own digits *)

\* addressFormatStr of an address of full length: no byte of the stack is in its checksum.
LEMMA WholeAddressVerifies ==
    ASSUME NEW address \in StoredAddresses, NEW stack \in Stacks,
           address.length = RAW_ADDRESS_SIZE
    PROVE  /\ DigitsOf(addressFormatStr(address, stack)) = address.value
           /\ ChecksumHolds(addressFormatStr(address, stack))
<1> DEFINE digits == address.value
           hash   == Keccak(digits)
           folds(i) == digits[i] >= Letter /\ hash[i] >= Glyphs \div 2
           text   == [i \in Places |-> [digit |-> digits[i], fold |-> folds(i)]]
<1>1. digits \in [Places -> 0 .. Glyphs - 1]
  BY DEF StoredAddresses, Addresses
<1>2. RAW_ADDRESS_SIZE \in Nat
  BY EncodingsAssumption
<1>3. HashedText(address, stack) = digits
  <2>1. \A i \in Places : i <= 2 * address.length
    BY <1>2 DEF Places
  <2>2. HashedText(address, stack) = [i \in Places |-> digits[i]]
    BY <2>1, Zenon DEF HashedText
  <2> HIDE DEF digits
  <2>3. QED
    BY <1>1, <2>2
<1>4. addressFormatStr(address, stack) = text
  BY <1>3, Zenon DEF addressFormatStr
<1>5. \A i \in Places : text[i].digit = digits[i] /\ text[i].fold = folds(i)
  OBVIOUS
<1> HIDE DEF digits, hash, folds, text
<1>6. DigitsOf(text) = digits
  <2>1. DigitsOf(text) = [i \in Places |-> digits[i]]
    BY <1>5 DEF DigitsOf
  <2>2. QED
    BY <1>1, <2>1
<1>7. ChecksumHolds(text)
  <2>1. Keccak(DigitsOf(text)) = hash
    BY <1>6, Zenon DEF hash
  <2> SUFFICES ASSUME NEW i \in Places
               PROVE  text[i].fold <=> text[i].digit >= Letter
                                       /\ Keccak(DigitsOf(text))[i] >= Glyphs \div 2
    BY Zenon DEF ChecksumHolds
  <2>2. text[i].fold <=> digits[i] >= Letter /\ hash[i] >= Glyphs \div 2
    BY <1>5, Zenon DEF folds
  <2>3. QED
    BY <1>5, <2>1, <2>2, Zenon
<1>8. QED
  BY <1>4, <1>6, <1>7, Zenon DEF digits

\* addressFormatStr: the text of a whole address has the checksum of that address,
\* for every hash function and whatever was on the stack.
THEOREM WholeAddressTextVerifies == Spec => []AddressTextVerifies
<1>1. Init => AddressTextVerifies
  BY DEF Init, AddressTextVerifies, Nothing
<1>2. AddressTextVerifies /\ [Next]_cvars => AddressTextVerifies'
  <2> SUFFICES ASSUME AddressTextVerifies, [Next]_cvars
               PROVE  AddressTextVerifies'
    OBVIOUS
  <2>1. CASE FormatAddress
    <3>1. PICK address \in StoredAddresses, stack \in Stacks :
              made' = [kind |-> "address", address |-> address,
                       text |-> addressFormatStr(address, stack)]
      BY <2>1 DEF FormatAddress
    <3>2. made'.address = address /\ made'.text = addressFormatStr(address, stack)
      BY <3>1
    <3>3. address.length = RAW_ADDRESS_SIZE =>
              DigitsOf(made'.text) = address.value /\ ChecksumHolds(made'.text)
      BY <3>2, WholeAddressVerifies
    <3>4. QED
      BY <3>2, <3>3 DEF AddressTextVerifies
  <2>2. CASE GetSignature
    <3>1. made'.kind = "signature"
      BY <2>2 DEF GetSignature
    <3>2. QED
      BY <3>1 DEF AddressTextVerifies
  <2>3. CASE DeriveExtendedPublicKey
    <3>1. made'.kind = "key"
      BY <2>3 DEF DeriveExtendedPublicKey
    <3>2. QED
      BY <3>1 DEF AddressTextVerifies
  <2>4. CASE Use
    BY <2>4 DEF Use, Nothing, AddressTextVerifies
  <2>5. CASE UNCHANGED made
    BY <2>5 DEF AddressTextVerifies, ChecksumHolds, DigitsOf
  <2>6. QED
    BY <2>1, <2>2, <2>3, <2>4, <2>5 DEF Next, EncodingsNext, Make, cvars
<1>3. QED
  BY <1>1, <1>2, PTL DEF Spec

-----------------------------------------------------------------------------
(* What an exported key tells of its point *)

\* A byte has a top bit.
LEMMA BytesHaveTopBits ==
    /\ FieldSize \in Nat /\ FieldSize >= 1
    /\ TopBit \in Nat /\ TopBit >= 1 /\ ByteValues = 2 * TopBit
<1>1. ByteValues \in Nat /\ ByteValues >= 2 /\ ByteValues % 2 = 0
  BY EncodingsAssumption
<1>2. ByteValues \div 2 \in Nat /\ ByteValues \div 2 >= 1 /\ ByteValues = 2 * (ByteValues \div 2)
  BY <1>1
<1>3. QED
  BY <1>2, EncodingsAssumption DEF TopBit

\* A byte loses its top bit modulo TopBit.
LEMMA TopBitClears ==
    ASSUME NEW byte \in Nat, byte < TopBit
    PROVE  byte % TopBit = byte /\ (byte + TopBit) % TopBit = byte
<1>1. TopBit \in Nat /\ TopBit >= 1
  BY BytesHaveTopBits
<1>2. byte % TopBit = byte
  BY <1>1
<1>3. PICK t \in Nat : t = byte + TopBit
  BY <1>1
<1>4. t % TopBit = t - TopBit
  BY <1>1, <1>3
<1>5. QED
  BY <1>1, <1>2, <1>3, <1>4

\* extractRawPublicKey: Y mirrored, with the parity of X in its last top bit.
LEMMA KeyOfPoint ==
    ASSUME NEW X \in Fields, NEW Y \in Fields, NEW i \in 1 .. FieldSize
    PROVE  extractRawPublicKey(Uncompressed(X, Y))[i]
               = IF i = FieldSize /\ X[FieldSize] % 2 = 1
                 THEN SetTopBit(Y[FieldSize + 1 - i]) ELSE Y[FieldSize + 1 - i]
<1>1. FieldSize \in Nat /\ FieldSize >= 1
  BY BytesHaveTopBits
<1>2. X \in Seq(Int) /\ Len(X) = FieldSize /\ Y \in Seq(Int) /\ Len(Y) = FieldSize
  <2>1. X \in [1 .. FieldSize -> Int] /\ Y \in [1 .. FieldSize -> Int]
    BY DEF Fields
  <2>2. QED
    BY <1>1, <2>1
<1>3. DEFINE front == <<4>> \o X
             W     == front \o Y
<1>4. <<4>> \in Seq(Int) /\ Len(<<4>>) = 1
  OBVIOUS
<1>5. /\ front \in Seq(Int) /\ Len(front) = 1 + FieldSize
      /\ \A j \in 1 .. 1 + FieldSize : front[j] = IF j <= 1 THEN 4 ELSE X[j - 1]
  BY <1>2, <1>4, ConcatProperties
<1>6. \A j \in 1 .. 1 + FieldSize + FieldSize :
          W[j] = IF j <= 1 + FieldSize THEN front[j] ELSE Y[j - (1 + FieldSize)]
  <2> HIDE DEF front
  <2>1. \A j \in 1 .. Len(front) + Len(Y) :
            (front \o Y)[j] = IF j <= Len(front) THEN front[j] ELSE Y[j - Len(front)]
    BY <1>2, <1>5, ConcatProperties, Zenon
  <2>2. Len(front) + Len(Y) = 1 + FieldSize + FieldSize
    BY <1>1, <1>2, <1>5
  <2>3. QED
    BY <1>5, <2>1, <2>2, Zenon
<1> HIDE DEF front, W
<1>7. W[FieldSize + 1] = X[FieldSize]
  BY <1>1, <1>5, <1>6
<1>8. W[2 * FieldSize + 2 - i] = Y[FieldSize + 1 - i]
  <2>1. 2 * FieldSize + 2 - i \in 1 .. 1 + FieldSize + FieldSize
    BY <1>1
  <2>2. (2 * FieldSize + 2 - i) - (1 + FieldSize) = FieldSize + 1 - i
    BY <1>1
  <2>3. ~(2 * FieldSize + 2 - i <= 1 + FieldSize)
    BY <1>1
  <2>4. QED
    BY <1>6, <2>1, <2>2, <2>3
<1>9. extractRawPublicKey(W)[i]
          = IF i = FieldSize /\ W[FieldSize + 1] % 2 = 1
            THEN SetTopBit(W[2 * FieldSize + 2 - i]) ELSE W[2 * FieldSize + 2 - i]
  BY Zenon DEF extractRawPublicKey
<1>10. QED
  BY <1>7, <1>8, <1>9, Zenon DEF Uncompressed, W, front

\* What KeyTellsPoint says of one point.
LEMMA PointIsTold ==
    ASSUME NEW X \in Fields, NEW Y \in Fields, NEW bytes,
           bytes = extractRawPublicKey(Uncompressed(X, Y))
    PROVE  IF Y[1] < TopBit
           THEN /\ [i \in 1 .. FieldSize |->
                        [bytes EXCEPT ![FieldSize] = @ % TopBit][FieldSize + 1 - i]] = Y
                /\ bytes[FieldSize] >= TopBit <=> X[FieldSize] % 2 = 1
           ELSE [i \in 1 .. FieldSize |-> bytes[FieldSize + 1 - i]] = Y
<1> DEFINE odd   == X[FieldSize] % 2 = 1
           clear == [bytes EXCEPT ![FieldSize] = @ % TopBit]
<1>1. FieldSize \in Nat /\ FieldSize >= 1 /\ TopBit \in Nat /\ TopBit >= 1
  BY BytesHaveTopBits
<1>2. \A i \in 1 .. FieldSize :
          bytes[i] = IF i = FieldSize /\ odd
                     THEN SetTopBit(Y[FieldSize + 1 - i]) ELSE Y[FieldSize + 1 - i]
  BY KeyOfPoint
<1>3. Y \in [1 .. FieldSize -> Nat]
  BY DEF Fields
<1>4. DOMAIN bytes = 1 .. FieldSize
  BY Zenon DEF extractRawPublicKey
<1>5. \A i \in 1 .. FieldSize :
          FieldSize + 1 - i \in 1 .. FieldSize /\ FieldSize + 1 - (FieldSize + 1 - i) = i
  BY <1>1
<1>6. FieldSize \in 1 .. FieldSize /\ FieldSize + 1 - FieldSize = 1 /\ Y[1] \in Nat
  BY <1>1, <1>3
<1>7. bytes[FieldSize] = IF odd THEN SetTopBit(Y[1]) ELSE Y[1]
  BY <1>2, <1>6
<1> HIDE DEF odd
<1>8. CASE Y[1] < TopBit
  <2>1. SetTopBit(Y[1]) = Y[1] + TopBit
    BY <1>8 DEF SetTopBit
  <2>2. bytes[FieldSize] >= TopBit <=> odd
    BY <1>1, <1>6, <1>7, <1>8, <2>1
  <2>3. bytes[FieldSize] % TopBit = Y[1]
    BY <1>6, <1>7, <1>8, <2>1, TopBitClears
  <2>4. \A j \in 1 .. FieldSize : clear[j] = Y[FieldSize + 1 - j]
    <3> SUFFICES ASSUME NEW j \in 1 .. FieldSize
                 PROVE  clear[j] = Y[FieldSize + 1 - j]
      OBVIOUS
    <3>1. CASE j = FieldSize
      <4>1. clear[FieldSize] = bytes[FieldSize] % TopBit
        BY <1>4, <1>6
      <4>2. QED
        BY <1>6, <2>3, <3>1, <4>1
    <3>2. CASE j # FieldSize
      <4>1. clear[j] = bytes[j]
        BY <1>4, <3>2
      <4>2. QED
        BY <1>2, <3>2, <4>1
    <3>3. QED
      BY <3>1, <3>2
  <2> HIDE DEF clear
  <2>5. [i \in 1 .. FieldSize |-> clear[FieldSize + 1 - i]] = Y
    BY <1>3, <1>5, <2>4
  <2>6. QED
    BY <1>8, <2>2, <2>5 DEF odd, clear
<1>9. CASE ~(Y[1] < TopBit)
  <2>1. SetTopBit(Y[1]) = Y[1]
    BY <1>9 DEF SetTopBit
  <2>2. \A j \in 1 .. FieldSize : bytes[j] = Y[FieldSize + 1 - j]
    BY <1>2, <1>6, <2>1
  <2>3. [i \in 1 .. FieldSize |-> bytes[FieldSize + 1 - i]] = Y
    BY <1>3, <1>5, <2>2
  <2>4. QED
    BY <1>9, <2>3
<1>10. QED
  BY <1>8, <1>9

\* extractRawPublicKey: who clears the top bit of the last byte has the Y of the point
\* and the parity of its X, for the points whose Y has a clear top bit; of the others
\* the bytes are those of Y.
THEOREM ExportedKeyTellsPoint == Spec => []KeyTellsPoint
<1>1. Init => KeyTellsPoint
  BY DEF Init, KeyTellsPoint, Nothing
<1>2. KeyTellsPoint /\ [Next]_cvars => KeyTellsPoint'
  <2> SUFFICES ASSUME KeyTellsPoint, [Next]_cvars
               PROVE  KeyTellsPoint'
    OBVIOUS
  <2>1. CASE DeriveExtendedPublicKey
    <3>1. PICK X \in Fields, Y \in Fields, chainCode \in ChainCodes :
              made' = [kind |-> "key", X |-> X, Y |-> Y, chainCode |-> chainCode,
                       out |-> [length |-> FieldSize,
                                publicKey |-> extractRawPublicKey(Uncompressed(X, Y)),
                                chainCode |-> chainCode]]
      BY <2>1 DEF DeriveExtendedPublicKey
    <3>2. /\ made'.X = X /\ made'.Y = Y
          /\ made'.out.publicKey = extractRawPublicKey(Uncompressed(X, Y))
      BY <3>1
    <3>3. PICK bytes : bytes = made'.out.publicKey
      OBVIOUS
    <3>4. IF Y[1] < TopBit
          THEN /\ [i \in 1 .. FieldSize |->
                       [bytes EXCEPT ![FieldSize] = @ % TopBit][FieldSize + 1 - i]] = Y
               /\ bytes[FieldSize] >= TopBit <=> X[FieldSize] % 2 = 1
          ELSE [i \in 1 .. FieldSize |-> bytes[FieldSize + 1 - i]] = Y
      BY <3>2, <3>3, PointIsTold
    <3>5. QED
      BY <3>2, <3>3, <3>4, Zenon DEF KeyTellsPoint
  <2>2. CASE FormatAddress
    <3>1. made'.kind = "address"
      BY <2>2 DEF FormatAddress
    <3>2. QED
      BY <3>1 DEF KeyTellsPoint
  <2>3. CASE GetSignature
    <3>1. made'.kind = "signature"
      BY <2>3 DEF GetSignature
    <3>2. QED
      BY <3>1 DEF KeyTellsPoint
  <2>4. CASE Use
    BY <2>4 DEF Use, Nothing, KeyTellsPoint
  <2>5. CASE UNCHANGED made
    BY <2>5 DEF KeyTellsPoint
  <2>6. QED
    BY <2>1, <2>2, <2>3, <2>4, <2>5 DEF Next, EncodingsNext, Make, cvars
<1>3. QED
  BY <1>1, <1>2, PTL DEF Spec

-----------------------------------------------------------------------------
(* A signature is decoded *)

\* The length of a number without leading zeroes, and its digits.
Shortest(x) ==
    CHOOSE n \in 1 .. FieldSize :
        x < Power(ByteValues, n) /\ (n = 1 \/ x >= Power(ByteValues, n - 1))

OwnDigits(x, n) == [i \in 1 .. n |-> (x \div Power(ByteValues, n - i)) % ByteValues]

\* The digit of the weight Power(ByteValues, e).
DigitAt(x, e) == (x \div Power(ByteValues, e)) % ByteValues

\* The values of a byte.
LEMMA BytesAre ==
    /\ FieldSize \in Nat /\ FieldSize >= 1
    /\ ByteValues \in Nat /\ ByteValues >= 2
  BY EncodingsAssumption

\* The weights of bytes.
LEMMA Weights ==
    \A e \in Nat : Power(ByteValues, e) \in Nat /\ Power(ByteValues, e) >= 1
  BY BytesAre, PowerIsPositive

\* They do not decrease.
LEMMA WeightsGrow ==
    ASSUME NEW n \in Nat, NEW e \in Nat, n <= e
    PROVE  Power(ByteValues, n) <= Power(ByteValues, e)
<1>1. PICK m \in Nat : e = n + m
  BY e - n \in Nat
<1>2. PICK p \in Nat, q \in Nat :
          p = Power(ByteValues, n) /\ q = Power(ByteValues, m) /\ p >= 1 /\ q >= 1
  BY Weights
<1>3. Power(ByteValues, e) = p * q
  <2>1. ByteValues \in Int
    BY BytesAre
  <2>2. QED
    BY <1>1, <1>2, <2>1, PowerOfSum
<1>4. q * p >= p /\ q * p = p * q
  BY <1>2, ProductGrows
<1>5. QED
  BY <1>2, <1>3, <1>4

\* A byte of a number.
LEMMA DigitsAre ==
    ASSUME NEW x \in Nat, NEW e \in Nat
    PROVE  DigitAt(x, e) \in 0 .. ByteValues - 1
<1>1. PICK w \in Nat : w = Power(ByteValues, e) /\ w >= 1
  BY Weights
<1>2. PICK q \in Int : q = x \div w
  BY <1>1, Divided
<1>3. q % ByteValues \in 0 .. ByteValues - 1
  BY BytesAre
<1>4. QED
  BY <1>1, <1>2, <1>3 DEF DigitAt

\* A number has no digit beyond its length.
LEMMA NoMoreDigits ==
    ASSUME NEW x \in Nat, NEW n \in Nat, NEW e \in Nat, x < Power(ByteValues, n), n <= e
    PROVE  DigitAt(x, e) = 0
<1>1. PICK w \in Nat : w = Power(ByteValues, e) /\ w >= 1
  BY Weights
<1>2. PICK v \in Nat : v = Power(ByteValues, n)
  BY Weights
<1>3. x < w
  BY <1>1, <1>2, WeightsGrow
<1>4. 0 * w + x = x /\ x \in 0 .. w - 1
  BY <1>1, <1>3
<1>5. (0 * w + x) \div w = 0
  BY <1>1, <1>4, QuotientIs
<1>6. 0 % ByteValues = 0
  BY BytesAre
<1>7. QED
  BY <1>1, <1>4, <1>5, <1>6 DEF DigitAt

\* The fewest bytes a number needs.
LEMMA ShortestIs ==
    ASSUME NEW x \in Numbers
    PROVE  /\ x \in Nat
           /\ x < Power(ByteValues, FieldSize)
           /\ Shortest(x) \in 1 .. FieldSize
           /\ x < Power(ByteValues, Shortest(x))
<1>1. PICK w \in Nat : w = Power(ByteValues, FieldSize) /\ w >= 1
  BY BytesAre, Weights
<1>2. x \in Nat /\ x < w
  BY <1>1 DEF Numbers
<1> DEFINE T == {n \in Nat : n >= 1 /\ x < Power(ByteValues, n)}
<1>3. FieldSize \in T
  BY <1>1, <1>2, BytesAre
<1>4. PICK n \in T : \A k \in T : ~(k < n)
  <2>1. T \subseteq Nat /\ T # {}
    BY <1>3
  <2> HIDE DEF T
  <2>2. QED
    BY <2>1, LeastNumber
<1>5. n \in 1 .. FieldSize
  BY <1>3, <1>4, BytesAre
<1>6. n = 1 \/ x >= Power(ByteValues, n - 1)
  <2> SUFFICES ASSUME n # 1
               PROVE  x >= Power(ByteValues, n - 1)
    OBVIOUS
  <2>1. n - 1 \in Nat /\ n - 1 >= 1 /\ n - 1 < n
    BY <1>5
  <2>2. PICK v \in Nat : v = Power(ByteValues, n - 1)
    BY <2>1, Weights
  <2>3. ~(x < v)
    BY <1>4, <2>1, <2>2
  <2>4. QED
    BY <1>2, <2>2, <2>3
<1>7. \E k \in 1 .. FieldSize :
          x < Power(ByteValues, k) /\ (k = 1 \/ x >= Power(ByteValues, k - 1))
  BY <1>4, <1>5, <1>6
<1>8. /\ Shortest(x) \in 1 .. FieldSize
      /\ x < Power(ByteValues, Shortest(x))
  BY <1>7 DEF Shortest
<1>9. QED
  BY <1>1, <1>2, <1>8

\* The encoding has the digits of the number, and perhaps a zero before them.
LEMMA DerHasDigits ==
    ASSUME NEW x \in Numbers
    PROVE  /\ Der(x) \in Seq(0 .. ByteValues - 1)
           /\ Len(Der(x)) \in 1 .. FieldSize + 1
           /\ \A j \in 1 .. Len(Der(x)) : Der(x)[j] = DigitAt(x, Len(Der(x)) - j)
           /\ \A e \in Nat : e >= Len(Der(x)) => DigitAt(x, e) = 0
           /\ x < Power(ByteValues, Len(Der(x)))
<1> DEFINE n == Shortest(x)
           d == OwnDigits(x, n)
<1>1. x \in Nat /\ n \in 1 .. FieldSize /\ x < Power(ByteValues, n)
  BY ShortestIs
<1>2. Der(x) = IF d[1] >= TopBit THEN <<0>> \o d ELSE d
  BY Zenon DEF Der, Shortest, OwnDigits
<1>3. FieldSize \in Nat /\ n \in Nat /\ 1 <= n /\ n <= FieldSize
  BY <1>1, BytesAre
<1> HIDE DEF n
<1>4. \A i \in 1 .. n : DigitAt(x, n - i) \in 0 .. ByteValues - 1
  <2> SUFFICES ASSUME NEW i \in 1 .. n
               PROVE  DigitAt(x, n - i) \in 0 .. ByteValues - 1
    OBVIOUS
  <2>1. n - i \in Nat
    BY <1>3
  <2>2. QED
    BY <1>1, <2>1, DigitsAre
<1>5. d = [i \in 1 .. n |-> DigitAt(x, n - i)]
  BY DEF OwnDigits, DigitAt
<1>6. d \in Seq(0 .. ByteValues - 1) /\ Len(d) = n /\ \A i \in 1 .. n : d[i] = DigitAt(x, n - i)
  <2>1. d \in [1 .. n -> 0 .. ByteValues - 1]
    BY <1>4, <1>5
  <2>2. QED
    BY <1>3, <1>5, <2>1
<1> HIDE DEF d
<1>7. \A e \in Nat : e >= n => DigitAt(x, e) = 0
  BY <1>1, <1>3, NoMoreDigits
<1>8. CASE ~(d[1] >= TopBit)
  <2>1. Der(x) = d
    BY <1>2, <1>8
  <2>2. QED
    BY <1>1, <1>3, <1>6, <1>7, <2>1
<1>9. CASE d[1] >= TopBit
  <2>1. Der(x) = <<0>> \o d
    BY <1>2, <1>9
  <2>2. <<0>> \in Seq(0 .. ByteValues - 1) /\ Len(<<0>>) = 1 /\ <<0>>[1] = 0
    BY BytesAre
  <2>3. PICK zero \in Seq(0 .. ByteValues - 1) : zero = <<0>> /\ Len(zero) = 1 /\ zero[1] = 0
    BY <2>2
  <2>4. /\ zero \o d \in Seq(0 .. ByteValues - 1)
        /\ Len(zero \o d) = 1 + n
        /\ \A j \in 1 .. 1 + n : (zero \o d)[j] = IF j <= 1 THEN zero[j] ELSE d[j - 1]
    <3>1. /\ zero \o d \in Seq(0 .. ByteValues - 1)
          /\ Len(zero \o d) = Len(zero) + Len(d)
          /\ \A j \in 1 .. Len(zero) + Len(d) :
                 (zero \o d)[j] = IF j <= Len(zero) THEN zero[j] ELSE d[j - Len(zero)]
      BY <1>6, <2>3, ConcatProperties
    <3>2. QED
      BY <1>6, <2>3, <3>1
  <2>5. Len(Der(x)) = 1 + n /\ Der(x) \in Seq(0 .. ByteValues - 1)
    BY <2>1, <2>3, <2>4
  <2>6. ASSUME NEW j \in 1 .. 1 + n
        PROVE  Der(x)[j] = DigitAt(x, 1 + n - j)
    <3>1. CASE j = 1
      <4>1. Der(x)[j] = 0
        BY <1>3, <2>1, <2>3, <2>4, <3>1
      <4>2. 1 + n - j = n
        BY <1>3, <3>1
      <4>3. QED
        BY <1>3, <1>7, <4>1, <4>2
    <3>2. CASE j # 1
      <4>1. j - 1 \in 1 .. n /\ n - (j - 1) = 1 + n - j /\ ~(j <= 1)
        BY <1>3, <3>2
      <4>2. Der(x)[j] = d[j - 1]
        BY <2>1, <2>3, <2>4, <4>1
      <4>3. QED
        BY <1>6, <4>1, <4>2
    <3>3. QED
      BY <3>1, <3>2
  <2>7. x < Power(ByteValues, 1 + n)
    <3>1. PICK v \in Nat, w \in Nat : v = Power(ByteValues, n) /\ w = Power(ByteValues, 1 + n)
      BY <1>3, Weights
    <3>2. v <= w
      BY <1>3, <3>1, WeightsGrow
    <3>3. QED
      BY <1>1, <3>1, <3>2
  <2>8. QED
    BY <1>3, <1>7, <2>5, <2>6, <2>7
<1>10. QED
  BY <1>8, <1>9

\* Two sequences joined: the first, then the second.
LEMMA Joined ==
    ASSUME NEW s \in Seq(Nat), NEW t \in Seq(Nat)
    PROVE  /\ s \o t \in Seq(Nat)
           /\ Len(s \o t) = Len(s) + Len(t)
           /\ \A j \in 1 .. Len(s) : (s \o t)[j] = s[j]
           /\ \A j \in 1 .. Len(t) : (s \o t)[Len(s) + j] = t[j]
<1>1. /\ s \o t \in Seq(Nat)
      /\ Len(s \o t) = Len(s) + Len(t)
      /\ \A j \in 1 .. Len(s) + Len(t) :
             (s \o t)[j] = IF j <= Len(s) THEN s[j] ELSE t[j - Len(s)]
  BY ConcatProperties
<1>2. ASSUME NEW j \in 1 .. Len(t)
      PROVE  (s \o t)[Len(s) + j] = t[j]
  <2>1. /\ Len(s) + j \in 1 .. Len(s) + Len(t)
        /\ ~(Len(s) + j <= Len(s)) /\ (Len(s) + j) - Len(s) = j
    OBVIOUS
  <2>2. QED
    BY <1>1, <2>1
<1>3. ASSUME NEW j \in 1 .. Len(s)
      PROVE  (s \o t)[j] = s[j]
  BY <1>1
<1>4. QED
  BY <1>1, <1>2, <1>3

\* Two numbers, as a sequence.
LEMMA PairIs ==
    ASSUME NEW x \in Nat, NEW y \in Nat
    PROVE  <<x, y>> \in Seq(Nat) /\ Len(<<x, y>>) = 2 /\ <<x, y>>[2] = y
OBVIOUS

\* Where the encoded values R and S stand in a signature.
LaidOut(sig, R, S) ==
    /\ Len(sig) = 6 + Len(R) + Len(S)
    /\ sig[4] = Len(R)
    /\ \A j \in 1 .. Len(R) : sig[4 + j] = R[j]
    /\ sig[6 + Len(R)] = Len(S)
    /\ \A j \in 1 .. Len(S) : sig[6 + Len(R) + j] = S[j]

\* The DER encoding, as the decoder counts its bytes.
LEMMA SignatureIsLaidOut ==
    ASSUME NEW R \in Seq(Nat), NEW S \in Seq(Nat), NEW sig, NEW values,
           values = <<2, Len(R)>> \o R \o <<2, Len(S)>> \o S,
           sig = <<48, Len(values)>> \o values
    PROVE  LaidOut(sig, R, S)
<1> DEFINE m == Len(R)
           n == Len(S)
           p == <<2, m>>
           q == <<2, n>>
           a == p \o R
           b == a \o q
           h == <<48, Len(values)>>
<1>1. m \in Nat /\ n \in Nat
  OBVIOUS
<1>2. values = b \o S /\ sig = h \o values
  OBVIOUS
<1> HIDE DEF m, n
<1>3. p \in Seq(Nat) /\ Len(p) = 2 /\ p[2] = m /\ q \in Seq(Nat) /\ Len(q) = 2 /\ q[2] = n
  BY <1>1, PairIs
<1> HIDE DEF p, q
<1>4. /\ a \in Seq(Nat) /\ Len(a) = 2 + m
      /\ \A j \in 1 .. 2 : a[j] = p[j]
      /\ \A j \in 1 .. m : a[2 + j] = R[j]
  <2>1. /\ p \o R \in Seq(Nat)
        /\ Len(p \o R) = Len(p) + Len(R)
        /\ \A j \in 1 .. Len(p) : (p \o R)[j] = p[j]
        /\ \A j \in 1 .. Len(R) : (p \o R)[Len(p) + j] = R[j]
    BY <1>3, Joined, Zenon
  <2>2. Len(R) = m
    BY DEF m
  <2>3. QED
    BY <1>1, <1>3, <2>1, <2>2
<1> HIDE DEF a
<1>5. /\ b \in Seq(Nat) /\ Len(b) = 4 + m
      /\ \A j \in 1 .. 2 + m : b[j] = a[j]
      /\ \A j \in 1 .. 2 : b[2 + m + j] = q[j]
  <2>1. /\ a \o q \in Seq(Nat)
        /\ Len(a \o q) = Len(a) + Len(q)
        /\ \A j \in 1 .. Len(a) : (a \o q)[j] = a[j]
        /\ \A j \in 1 .. Len(q) : (a \o q)[Len(a) + j] = q[j]
    BY <1>3, <1>4, Joined, Zenon
  <2>2. (2 + m) + 2 = 4 + m
    BY <1>1
  <2>3. QED
    BY <1>3, <1>4, <2>1, <2>2
<1> HIDE DEF b
<1>6. /\ values \in Seq(Nat) /\ Len(values) = 4 + m + n
      /\ \A j \in 1 .. 4 + m : values[j] = b[j]
      /\ \A j \in 1 .. n : values[4 + m + j] = S[j]
  <2>1. /\ b \o S \in Seq(Nat)
        /\ Len(b \o S) = Len(b) + Len(S)
        /\ \A j \in 1 .. Len(b) : (b \o S)[j] = b[j]
        /\ \A j \in 1 .. Len(S) : (b \o S)[Len(b) + j] = S[j]
    BY <1>5, Joined, Zenon
  <2>2. Len(S) = n
    BY DEF n
  <2>3. QED
    BY <1>1, <1>2, <1>5, <2>1, <2>2
<1>7. h \in Seq(Nat) /\ Len(h) = 2
  BY <1>6, PairIs
<1> HIDE DEF h
<1>8. /\ Len(sig) = 6 + m + n
      /\ \A j \in 1 .. 4 + m + n : sig[2 + j] = values[j]
  <2>1. /\ h \o values \in Seq(Nat)
        /\ Len(h \o values) = Len(h) + Len(values)
        /\ \A j \in 1 .. Len(h) : (h \o values)[j] = h[j]
        /\ \A j \in 1 .. Len(values) : (h \o values)[Len(h) + j] = values[j]
    BY <1>6, <1>7, Joined, Zenon
  <2>2. 2 + (4 + m + n) = 6 + m + n
    BY <1>1
  <2>3. QED
    BY <1>2, <1>6, <1>7, <2>1, <2>2
<1>9. sig[4] = m
  <2>1. /\ 2 \in 1 .. 4 + m + n /\ 2 \in 1 .. 4 + m /\ 2 \in 1 .. 2 + m /\ 2 \in 1 .. 2
        /\ 2 + 2 = 4
    BY <1>1
  <2>2. sig[2 + 2] = values[2] /\ values[2] = b[2] /\ b[2] = a[2] /\ a[2] = p[2]
    BY <1>4, <1>5, <1>6, <1>8, <2>1
  <2>3. QED
    BY <1>3, <2>1, <2>2
<1>10. ASSUME NEW j \in 1 .. m
       PROVE  sig[4 + j] = R[j]
  <2>1. /\ 2 + j \in 1 .. 4 + m + n /\ 2 + j \in 1 .. 4 + m /\ 2 + j \in 1 .. 2 + m
        /\ 2 + (2 + j) = 4 + j
    BY <1>1
  <2>2. sig[2 + (2 + j)] = values[2 + j]
    BY <1>8, <2>1
  <2>3. values[2 + j] = b[2 + j]
    BY <1>6, <2>1
  <2>4. b[2 + j] = a[2 + j]
    BY <1>5, <2>1
  <2>5. QED
    BY <1>4, <2>1, <2>2, <2>3, <2>4
<1>11. sig[6 + m] = n
  <2>1. /\ 4 + m \in 1 .. 4 + m + n /\ 4 + m \in 1 .. 4 + m /\ 2 + (4 + m) = 6 + m
        /\ 2 + m + 2 = 4 + m /\ 2 \in 1 .. 2
    BY <1>1
  <2>2. sig[2 + (4 + m)] = values[4 + m]
    BY <1>8, <2>1
  <2>3. values[4 + m] = b[4 + m]
    BY <1>6, <2>1
  <2>4. b[2 + m + 2] = q[2]
    BY <1>5, <2>1
  <2>5. QED
    BY <1>3, <2>1, <2>2, <2>3, <2>4
<1>12. ASSUME NEW j \in 1 .. n
       PROVE  sig[6 + m + j] = S[j]
  <2>1. 4 + m + j \in 1 .. 4 + m + n /\ 2 + (4 + m + j) = 6 + m + j
    BY <1>1
  <2>2. sig[2 + (4 + m + j)] = values[4 + m + j]
    BY <1>8, <2>1
  <2>3. QED
    BY <1>6, <2>1, <2>2
<1>13. QED
  BY <1>8, <1>9, <1>10, <1>11, <1>12 DEF m, n, LaidOut

\* What SignatureIsDecoded says of one value.
RightIn(bytes, x, container) ==
    EndsWith(bytes, x) /\ (container = Cleared => BigEndianOf(bytes) = x)

\* A value goes to the right end of its container; before it stands what was there.
LEMMA ValueIsPlaced ==
    ASSUME NEW x \in Numbers, NEW sig, NEW o \in Nat,
           sig[o] = Len(Der(x)), \A j \in 1 .. Len(Der(x)) : sig[o + j] = Der(x)[j],
           NEW container \in {Cleared, Left}
    PROVE  /\ ValueAt(sig, o).length \in 0 .. FieldSize
           /\ ValueAt(sig, o).at + ValueAt(sig, o).length = o + Len(Der(x))
           /\ RightIn(Placed(sig, ValueAt(sig, o), container), x, container)
<1> DEFINE X == Der(x)
           value == ValueAt(sig, o)
           bytes == Placed(sig, value, container)
           free == FieldSize - value.length
<1>1. PICK n \in Nat : n = Len(X) /\ n \in 1 .. FieldSize + 1
  <2>1. Len(X) \in 1 .. FieldSize + 1 /\ FieldSize \in Nat
    BY DerHasDigits, BytesAre
  <2>2. QED
    BY <2>1
<1>2. /\ \A j \in 1 .. n : X[j] = DigitAt(x, n - j)
      /\ \A e \in Nat : e >= n => DigitAt(x, e) = 0
      /\ x < Power(ByteValues, n)
  BY <1>1, DerHasDigits
<1>3. x \in Nat /\ x < Power(ByteValues, FieldSize) /\ FieldSize \in Nat /\ FieldSize >= 1
  BY ShortestIs, BytesAre
<1>4. sig[o] = n /\ \A j \in 1 .. n : sig[o + j] = X[j]
  BY <1>1
<1> HIDE DEF X
<1>5. value = IF n = FieldSize + 1 THEN [at |-> o + 1, length |-> FieldSize]
              ELSE [at |-> o, length |-> n]
  BY <1>4 DEF ValueAt
<1>6. /\ value.length = IF n = FieldSize + 1 THEN FieldSize ELSE n
      /\ value.at = IF n = FieldSize + 1 THEN o + 1 ELSE o
  BY <1>5
<1> HIDE DEF value
<1>7. value.length \in 0 .. FieldSize /\ value.at + value.length = o + n
  BY <1>1, <1>3, <1>6
<1>8. ASSUME NEW i \in 1 .. FieldSize,
             container = Cleared \/ x >= Power(ByteValues, FieldSize - i)
      PROVE  bytes[i] = DigitAt(x, FieldSize - i)
  <2>1. \A j \in 1 .. FieldSize :
            bytes[j] = IF j <= free THEN container[j] ELSE sig[value.at + j - free]
    BY DEF Placed
  <2>2. bytes[i] = DigitAt(x, FieldSize - i)
    <3>1. CASE n = FieldSize + 1
      <4>1. free = 0 /\ value.at = o + 1
        BY <1>3, <1>6, <3>1
      <4>2. ~(i <= free) /\ value.at + i - free = o + (i + 1) /\ i + 1 \in 1 .. n
        <5>1. i \in Nat /\ 1 <= i /\ i <= FieldSize
          BY <1>3
        <5>2. ~(i <= free) /\ value.at + i - free = o + (i + 1)
          <6> HIDE DEF free
          <6>1. QED
            BY <4>1, <5>1
        <5>3. i + 1 \in 1 .. n
          BY <1>3, <3>1, <5>1
        <5>4. QED
          BY <5>2, <5>3
      <4>3. n - (i + 1) = FieldSize - i
        BY <1>3, <3>1
      <4>4. QED
        BY <1>2, <1>4, <2>1, <4>2, <4>3
    <3>2. CASE n # FieldSize + 1 /\ i > free
      <4>1. free = FieldSize - n /\ value.at = o
        BY <1>6, <3>2
      <4>2. ~(i <= free) /\ value.at + i - free = o + (i - free) /\ i - free \in 1 .. n
        BY <1>1, <1>3, <3>2, <4>1
      <4>3. n - (i - free) = FieldSize - i
        BY <1>3, <4>1
      <4>4. QED
        BY <1>2, <1>4, <2>1, <4>2, <4>3
    <3>3. CASE n # FieldSize + 1 /\ ~(i > free)
      <4>1. free = FieldSize - n /\ i <= free
        BY <1>3, <1>6, <3>3
      <4>2. FieldSize - i \in Nat /\ FieldSize - i >= n
        BY <1>3, <4>1
      <4>3. DigitAt(x, FieldSize - i) = 0
        BY <1>2, <4>2
      <4>4. CASE container = Cleared
        <5>1. container[i] = 0
          BY <4>4 DEF Cleared
        <5>2. QED
          BY <2>1, <4>1, <4>3, <5>1
      <4>5. CASE x >= Power(ByteValues, FieldSize - i)
        <5>1. PICK v \in Nat, w \in Nat :
                  v = Power(ByteValues, n) /\ w = Power(ByteValues, FieldSize - i)
          BY <4>2, Weights
        <5>2. n <= FieldSize - i
          BY <4>2
        <5>3. v <= w
          BY <4>2, <5>1, <5>2, WeightsGrow
        <5>4. QED
          BY <1>2, <1>3, <4>5, <5>1, <5>3
      <4>6. QED
        BY <1>8, <4>4, <4>5
    <3>4. QED
      BY <3>1, <3>2, <3>3
  <2>3. QED
    BY <2>2
<1>9. EndsWith(bytes, x)
  BY <1>8, Zenon DEF EndsWith, DigitAt
<1>10. ASSUME container = Cleared
       PROVE  BigEndianOf(bytes) = x
  <2>2. \A i \in 1 .. FieldSize : bytes[i] = DigitAt(x, FieldSize - i)
    BY <1>8, <1>10
  <2>3. Len(bytes) = FieldSize
    <3>1. bytes = [i \in 1 .. FieldSize |-> DigitAt(x, FieldSize - i)]
      BY <2>2 DEF Placed
    <3>2. \A i \in 1 .. FieldSize : DigitAt(x, FieldSize - i) \in 0 .. ByteValues - 1
      <4> SUFFICES ASSUME NEW i \in 1 .. FieldSize
                   PROVE  DigitAt(x, FieldSize - i) \in 0 .. ByteValues - 1
        OBVIOUS
      <4>1. FieldSize - i \in Nat
        BY <1>3
      <4>2. QED
        BY <1>3, <4>1, DigitsAre
    <3>3. [i \in 1 .. FieldSize |-> DigitAt(x, FieldSize - i)]
              \in [1 .. FieldSize -> 0 .. ByteValues - 1]
      BY <3>2
    <3> HIDE DEF bytes
    <3>4. QED
      BY <1>3, <3>1, <3>3
  <2>4. \A i \in 1 .. FieldSize :
            bytes[i] = (x \div Power(ByteValues, FieldSize - i)) % ByteValues
    BY <2>2 DEF DigitAt
  <2> HIDE DEF bytes
  <2>5. Denoted(bytes, ByteValues) = x
    BY <1>3, <2>3, <2>4, BytesAre, OwnDigitsDenote
  <2>6. QED
    BY <2>5 DEF BigEndianOf
<1>11. QED
  BY <1>1, <1>7, <1>9, <1>10 DEF X, value, RightIn

\* The value txGetSignature sends for the two flags.
FlagsOf(odd, xGTn) == 27 + (IF odd THEN 1 ELSE 0) + (IF xGTn THEN 2 ELSE 0)

\* Both flags can be read from the V of a signature.
LEMMA FlagsAreTold ==
    ASSUME NEW odd \in BOOLEAN, NEW xGTn \in BOOLEAN
    PROVE  /\ FlagsOf(odd, xGTn) # 0
           /\ (FlagsOf(odd, xGTn) - 27) % 2 = 1 <=> odd
           /\ FlagsOf(odd, xGTn) - 27 >= 2 <=> xGTn
<1>1. CASE odd /\ xGTn
  BY <1>1 DEF FlagsOf
<1>2. CASE odd /\ ~xGTn
  BY <1>2 DEF FlagsOf
<1>3. CASE ~odd /\ xGTn
  BY <1>3 DEF FlagsOf
<1>4. CASE ~odd /\ ~xGTn
  BY <1>4 DEF FlagsOf
<1>5. QED
  BY <1>1, <1>2, <1>3, <1>4

\* What SignatureIsDecoded says of one signature.
ReadBack(d, r, s, odd, xGTn, container) ==
    /\ d.v = FlagsOf(odd, xGTn)
    /\ RightIn(d.r, r, container)
    /\ RightIn(d.s, s, container)

\* What the decoder returns is what was encoded.
LEMMA SignatureIsRead ==
    ASSUME NEW r \in Numbers, NEW s \in Numbers, NEW odd \in BOOLEAN, NEW xGTn \in BOOLEAN,
           NEW container \in {Cleared, Left}, NEW d,
           d = Decoded(cx_ecdsa_sign(r, s), odd, xGTn, container)
    PROVE  ReadBack(d, r, s, odd, xGTn, container)
<1> DEFINE R   == Der(r)
           S   == Der(s)
           values == <<2, Len(R)>> \o R \o <<2, Len(S)>> \o S
           sig == <<48, Len(values)>> \o values
           rr  == ValueAt(sig, 4)
           ss  == ValueAt(sig, rr.at + rr.length + 2)
<1>1. R \in Seq(Nat) /\ S \in Seq(Nat)
  <2>1. Der(r) \in Seq(0 .. ByteValues - 1) /\ Der(s) \in Seq(0 .. ByteValues - 1)
    BY DerHasDigits
  <2> HIDE DEF R, S
  <2>2. ASSUME NEW q \in Seq(0 .. ByteValues - 1)
        PROVE  q \in Seq(Nat)
    <3>1. 0 .. ByteValues - 1 \subseteq Nat
      BY BytesAre
    <3>2. Len(q) \in Nat /\ q \in [1 .. Len(q) -> 0 .. ByteValues - 1]
      BY LenProperties
    <3>3. q \in [1 .. Len(q) -> Nat]
      BY <3>1, <3>2
    <3>4. QED
      BY <3>2, <3>3
  <2>3. QED
    BY <2>1, <2>2, Zenon DEF R, S
<1>2. sig = cx_ecdsa_sign(r, s)
  BY Zenon DEF cx_ecdsa_sign
<1>3. LaidOut(sig, R, S)
  <2>1. values = <<2, Len(R)>> \o R \o <<2, Len(S)>> \o S
    BY Zenon
  <2>2. sig = <<48, Len(values)>> \o values
    BY Zenon
  <2> HIDE DEF R, S, values, sig
  <2>3. QED
    BY <1>1, <2>1, <2>2, SignatureIsLaidOut, Zenon
<1> HIDE DEF values, sig
<1>4. /\ rr.length \in 0 .. FieldSize
      /\ rr.at + rr.length = 4 + Len(R)
      /\ RightIn(Placed(sig, rr, container), r, container)
  <2>1. 4 \in Nat
    OBVIOUS
  <2>2. QED
    BY <1>3, <2>1, ValueIsPlaced, Zenon DEF LaidOut
<1> HIDE DEF rr
<1>5. rr.at + rr.length + 2 = 6 + Len(R)
  BY <1>1, <1>4
<1>6. /\ ss.length \in 0 .. FieldSize
      /\ ss.at + ss.length = 6 + Len(R) + Len(S)
      /\ RightIn(Placed(sig, ss, container), s, container)
  <2> DEFINE o == 6 + Len(R)
  <2>1. o \in Nat
    BY <1>1
  <2>2. sig[o] = Len(S) /\ \A j \in 1 .. Len(S) : sig[o + j] = S[j]
    BY <1>3 DEF LaidOut
  <2>3. ss = ValueAt(sig, o)
    BY <1>5
  <2> HIDE DEF o, ss
  <2>4. /\ ss.length \in 0 .. FieldSize
        /\ ss.at + ss.length = o + Len(S)
        /\ RightIn(Placed(sig, ss, container), s, container)
    BY <2>1, <2>2, <2>3, ValueIsPlaced, Zenon
  <2>5. QED
    BY <2>4 DEF o
<1>7. d = IF \/ rr.length > FieldSize \/ rr.at + rr.length >= Len(sig)
             \/ ss.length > FieldSize \/ ss.at + ss.length > Len(sig)
          THEN [v |-> 0]
          ELSE [v |-> FlagsOf(odd, xGTn),
                r |-> Placed(sig, rr, container), s |-> Placed(sig, ss, container)]
  BY <1>2, Zenon DEF Decoded, FlagsOf, rr
<1> HIDE DEF ss
<1>8. ~(rr.length > FieldSize) /\ ~(ss.length > FieldSize)
  BY <1>4, <1>6, BytesAre
<1>9. ~(rr.at + rr.length >= Len(sig)) /\ ~(ss.at + ss.length > Len(sig))
  <2>1. Len(R) \in Nat /\ Len(S) \in Nat
    BY <1>1
  <2> HIDE DEF R, S
  <2>2. QED
    BY <1>3, <1>4, <1>6, <2>1 DEF LaidOut
<1>10. /\ d.v = FlagsOf(odd, xGTn)
       /\ d.r = Placed(sig, rr, container)
       /\ d.s = Placed(sig, ss, container)
  BY <1>7, <1>8, <1>9
<1>11. QED
  BY <1>4, <1>6, <1>10 DEF ReadBack

\* txGetSignature, for every size of a container and all lengths two numbers may be
\* encoded with: both flags are right, and the right ends of the containers hold the
\* bytes of the numbers.  If the containers were cleared, they hold the numbers; in
\* front of a short number in one that was not, there is what it held before.
THEOREM SignaturesAreDecoded == Spec => []SignatureIsDecoded
<1>1. Init => SignatureIsDecoded
  BY DEF Init, SignatureIsDecoded, Nothing
<1>2. SignatureIsDecoded /\ [Next]_cvars => SignatureIsDecoded'
  <2> SUFFICES ASSUME SignatureIsDecoded, [Next]_cvars
               PROVE  SignatureIsDecoded'
    OBVIOUS
  <2>1. CASE FormatAddress
    <3>1. made'.kind = "address"
      BY <2>1 DEF FormatAddress
    <3>2. QED
      BY <3>1 DEF SignatureIsDecoded
  <2>2. CASE GetSignature
    <3>1. PICK r \in Numbers, s \in Numbers, odd \in BOOLEAN, xGTn \in BOOLEAN,
               container \in {Cleared, Left} :
              made' = [kind |-> "signature", of |-> <<r, s>>, odd |-> odd, xGTn |-> xGTn,
                       fresh |-> container = Cleared,
                       signature |-> Decoded(cx_ecdsa_sign(r, s), odd, xGTn, container)]
      BY <2>2 DEF GetSignature
    <3>2. PICK d : d = Decoded(cx_ecdsa_sign(r, s), odd, xGTn, container)
      OBVIOUS
    <3>3. /\ made'.of[1] = r /\ made'.of[2] = s /\ (made'.odd <=> odd) /\ (made'.xGTn <=> xGTn)
          /\ (made'.fresh <=> container = Cleared) /\ made'.signature = d
      BY <3>1, <3>2
    <3>4. ReadBack(d, r, s, odd, xGTn, container)
      BY <3>2, SignatureIsRead, Zenon
    <3>5. d.v # 0 /\ ((d.v - 27) % 2 = 1 <=> odd) /\ (d.v - 27 >= 2 <=> xGTn)
      BY <3>4, FlagsAreTold DEF ReadBack
    <3>6. QED
      BY <3>3, <3>4, <3>5, Zenon DEF ReadBack, RightIn, SignatureIsDecoded
  <2>3. CASE DeriveExtendedPublicKey
    <3>1. made'.kind = "key"
      BY <2>3 DEF DeriveExtendedPublicKey
    <3>2. QED
      BY <3>1 DEF SignatureIsDecoded
  <2>4. CASE Use
    BY <2>4 DEF Use, Nothing, SignatureIsDecoded
  <2>5. CASE UNCHANGED made
    BY <2>5 DEF SignatureIsDecoded
  <2>6. QED
    BY <2>1, <2>2, <2>3, <2>4, <2>5 DEF Next, EncodingsNext, Make, cvars
<1>3. QED
  BY <1>1, <1>2, PTL DEF Spec

-----------------------------------------------------------------------------
(* The number that is written *)

\* A number less than a word has but one word.
LEMMA SmallHasOneWord ==
    ASSUME NEW a \in UInt256, Value256(a) < Word
    PROVE  WordsOf(a)[3] = 0
<1>1. PICK a1 \in Word64, a2 \in Word64, a3 \in Word64, a4 \in Word64 :
          a3 = WordsOf(a)[3] /\ Value256(a) = (a1 * Word + a2) * Square + (a3 * Word + a4)
  <2>1. 1 \in 1 .. 4 /\ 2 \in 1 .. 4 /\ 3 \in 1 .. 4 /\ 4 \in 1 .. 4
    OBVIOUS
  <2>2. QED
    BY <2>1, WordsAre, Zenon
<1>2. a1 \in Nat /\ a2 \in Nat /\ a3 \in Nat /\ a4 \in Nat /\ Word \in Nat /\ Square \in Nat
  BY WordIsNat DEF Word64
<1>3. (a1 * Word + a2) * Square \in Nat
  BY <1>2
<1>4. a3 # 0 => a3 * Word >= Word /\ a3 * Word \in Nat
  BY <1>2, ProductGrows
<1>5. a3 * Word \in Nat
  BY <1>2
<1>6. a3 = 0
  BY <1>1, <1>2, <1>3, <1>4, <1>5
<1>7. QED
  BY <1>1, <1>6

\* The column of weight 2^64 has no carry when both numbers fit in a word.
LEMMA WordsHaveNoCarry ==
    ASSUME NEW a \in UInt256, NEW b \in UInt256, Value256(a) < Word, Value256(b) < Word
    PROVE  Third64(a, b).upper = 0
<1> DEFINE lo == Lows(a, b)
           hi == Highs(a, b)
<1>1. WordsOf(a)[3] = 0 /\ WordsOf(b)[3] = 0
  BY SmallHasOneWord
<1>2. /\ 0 \in Digits /\ 1 \in Digits /\ 2 \in Digits /\ 3 \in Digits
      /\ 4 - 1 = 3 /\ 4 - 0 = 4 /\ 2 + 1 = 3 /\ 3 + 1 = 4
  BY DEF Digits
<1>3. \A i \in Digits, j \in Digits :
          /\ lo[i][j] \in Word64 /\ hi[i][j] \in Word64
          /\ WordsOf(a)[4 - i] * WordsOf(b)[j + 1] = hi[i][j] * Word + lo[i][j]
  BY ProductInTable, Zenon DEF Lows, Highs
<1> HIDE DEF lo, hi
<1>4. WordsOf(a)[4] \in Nat /\ WordsOf(b)[4] \in Nat
  <2>1. 4 \in 1 .. 4
    OBVIOUS
  <2>2. WordsOf(a)[4] \in Word64 /\ WordsOf(b)[4] \in Word64
    BY <2>1, WordsAre, Zenon
  <2>3. QED
    BY <2>2, WordIsNat DEF Word64
<1>5. /\ WordsOf(a)[4] * 0 = hi[0][2] * Word + lo[0][2]
      /\ 0 * WordsOf(b)[4] = hi[1][3] * Word + lo[1][3]
  BY <1>1, <1>2, <1>3
<1>6. /\ lo[0][2] \in Nat /\ hi[0][2] \in Nat /\ lo[1][3] \in Nat /\ hi[1][3] \in Nat
      /\ hi[0][3] \in Nat /\ hi[0][3] < Word /\ Word \in Nat
  <2>1. /\ lo[0][2] \in Word64 /\ hi[0][2] \in Word64 /\ lo[1][3] \in Word64 /\ hi[1][3] \in Word64
        /\ hi[0][3] \in Word64
    BY <1>2, <1>3
  <2>2. QED
    BY <2>1, WordIsNat DEF Word64
<1>7. lo[0][2] = 0 /\ lo[1][3] = 0
  <2>1. hi[0][2] * Word \in Nat /\ hi[1][3] * Word \in Nat
    BY <1>6
  <2>2. WordsOf(a)[4] * 0 = 0 /\ 0 * WordsOf(b)[4] = 0
    BY <1>4
  <2>3. PICK p \in Nat, q \in Nat : p = hi[0][2] * Word /\ q = hi[1][3] * Word
    BY <2>1
  <2>4. 0 = p + lo[0][2] /\ 0 = q + lo[1][3]
    BY <1>5, <2>2, <2>3, Zenon
  <2>5. PICK x \in Nat, y \in Nat : x = lo[0][2] /\ y = lo[1][3]
    BY <1>6, Zenon
  <2>6. 0 = p + x /\ 0 = q + y
    BY <2>4, <2>5, Zenon
  <2>7. x = 0 /\ y = 0
    BY <2>6
  <2>8. QED
    BY <2>5, <2>7, Zenon
<1>8. PICK t \in Nat : t = SecondColumn(lo, hi) /\ t < Word
  BY <1>6, <1>7 DEF SecondColumn
<1>9. Third64(a, b) = Sum128(t)
  BY <1>8, Zenon DEF Third64, Lows, Highs, lo, hi
<1>10. Word >= 1
  BY WordIsNat
<1>11. t \div Word = 0
  BY <1>6, <1>8, <1>10
<1>12. 0 % Word = 0
  BY <1>6, <1>10
<1>13. QED
  BY <1>9, <1>11, <1>12 DEF Sum128, Pair

\* uint256ConvertBE: a field as a number.
LEMMA FieldsAre ==
    ASSUME NEW field \in Values \cup Prices \cup Volumes
    PROVE  /\ uint256ConvertBE(field) \in UInt256
           /\ Value256(uint256ConvertBE(field)) = OnWire(field)
<1>1. field \in Seq(0 .. ByteBase - 1) /\ Len(field) <= BYTES256
  BY FieldsAssumption, Zenon DEF ByteBase
<1>2. QED
  BY <1>1, ConvertedIsOnWire DEF OnWire, ByteBase

\* mul256 of two fields is their product, or there is a carry and a field of more than a word.
LEMMA FeeIsProductOfSmall ==
    ASSUME NEW price \in Prices, NEW volume \in Volumes,
           NEW n, n = mul256(uint256ConvertBE(price), uint256ConvertBE(volume))
    PROVE  \/ Value256(n) = (OnWire(price) * OnWire(volume)) % Modulus
           \/ /\ Third64(uint256ConvertBE(price), uint256ConvertBE(volume)).upper # 0
              /\ OnWire(price) >= Word \/ OnWire(volume) >= Word
<1>1. PICK a \in UInt256, b \in UInt256 :
          /\ a = uint256ConvertBE(price) /\ b = uint256ConvertBE(volume)
          /\ Value256(a) = OnWire(price) /\ Value256(b) = OnWire(volume)
  BY FieldsAre
<1>2. Modulus = Square * Square
  <2>1. PICK W \in Nat : W = Word
    BY WordIsNat
  <2>2. W * W * W * W = (W * W) * (W * W)
    OBVIOUS
  <2>3. QED
    BY <2>1, <2>2 DEF Modulus, Square
<1>3. PICK p \in Nat, v \in Nat : p = Value256(a) /\ v = Value256(b)
  BY Value256IsSmall
<1>4. CASE Third64(a, b).upper = 0
  <2>1. Value256(n) = (p * v + 0 * (Word * Square - Square)) % (Square * Square)
    BY <1>1, <1>3, <1>4, ProductIsModularButForCarry
  <2>2. p * v + 0 * (Word * Square - Square) = p * v
    BY WordIsNat
  <2>3. QED
    BY <1>1, <1>2, <1>3, <2>1, <2>2
<1>5. CASE Third64(a, b).upper # 0
  <2>1. ~(p < Word /\ v < Word)
    BY <1>3, <1>5, WordsHaveNoCarry
  <2>2. p >= Word \/ v >= Word
    BY <2>1, WordIsNat
  <2>3. QED
    BY <1>1, <1>3, <1>5, <2>2
<1>6. QED
  BY <1>4, <1>5

\* The number that is written is the amount on the wire, and for a fee the product of price and
\* volume modulo 2^256, but for the carry of the column of weight 2^64 (uint256ConvertBE, mul256).
THEOREM NumberIsOnTheWire == Spec => []NumberIsThatOfTheFields
<1>1. Init => NumberIsThatOfTheFields
  <2>1. Len(<<>>) = 0
    OBVIOUS
  <2>2. QED
    BY <2>1 DEF Init, Idle, NumberIsThatOfTheFields
<1>2. NumberIsThatOfTheFields /\ [Next]_cvars => NumberIsThatOfTheFields'
  <2> SUFFICES ASSUME NumberIsThatOfTheFields, [Next]_cvars
               PROVE  NumberIsThatOfTheFields'
    OBVIOUS
  <2>1. ASSUME UNCHANGED <<fields, number>>
        PROVE  NumberIsThatOfTheFields'
    BY <2>1 DEF NumberIsThatOfTheFields
  <2>2. CASE txGetFormattedAmount
    <3>1. PICK value \in Values :
              number' = uint256ConvertBE(value) /\ fields' = <<value>>
      BY <2>2 DEF txGetFormattedAmount, Write
    <3>2. Value256(number') = OnWire(value)
      BY <3>1, FieldsAre
    <3>3. Len(fields') = 1 /\ fields'[1] = value
      BY <3>1
    <3>4. QED
      BY <3>2, <3>3 DEF NumberIsThatOfTheFields
  <2>3. CASE txGetFormattedFee
    <3>1. PICK price \in Prices, volume \in Volumes :
              /\ number' = mul256(uint256ConvertBE(price), uint256ConvertBE(volume))
              /\ fields' = <<price, volume>>
      BY <2>3, Zenon DEF txGetFormattedFee, Write
    <3>2. \/ Value256(number') = (OnWire(price) * OnWire(volume)) % Modulus
          \/ /\ Third64(uint256ConvertBE(price), uint256ConvertBE(volume)).upper # 0
             /\ OnWire(price) >= Word \/ OnWire(volume) >= Word
      BY <3>1, FeeIsProductOfSmall, Zenon
    <3>3. Len(fields') = 2 /\ fields'[1] = price /\ fields'[2] = volume
      BY <3>1
    <3>4. QED
      BY <3>2, <3>3 DEF NumberIsThatOfTheFields
  <2>4. CASE Return
    <3>1. fields' = <<>>
      BY <2>4 DEF Return
    <3>2. Len(fields') = 0
      BY <3>1
    <3>3. QED
      BY <3>2 DEF NumberIsThatOfTheFields
  <2>5. CASE RunOutOfSpace
    BY <2>1, <2>5 DEF RunOutOfSpace
  <2>6. CASE NextDigit
    BY <2>1, <2>6 DEF NextDigit
  <2>7. CASE Adjust
    BY <2>1, <2>7 DEF Adjust
  <2>8. CASE UNCHANGED avars
    BY <2>1, <2>8 DEF avars
  <2>9. CASE UNCHANGED cvars
    BY <2>1, <2>9 DEF cvars
  <2>10. QED
    BY <2>2, <2>3, <2>4, <2>5, <2>6, <2>7, <2>8, <2>9 DEF Next, AmountsNext
<1>3. QED
  BY <1>1, <1>2, PTL DEF Spec

-----------------------------------------------------------------------------
(* Digits of a number *)

Numeral == 0 .. Base - 1

\* The base, and its number.
LEMMA BaseIs ==
    /\ Base \in Nat /\ Base >= 2 /\ Base <= 16 /\ Base < Word
    /\ BaseNumber \in UInt256 /\ Value256(BaseNumber) = Base
<1>1. Base \in Nat /\ Base >= 2 /\ Base <= 16 /\ Base < Word /\ Word \in Nat
  BY SizesAssumption, WordIsNat
<1>2. 0 \in 0 .. Word - 1 /\ Base \in 0 .. Word - 1
  BY <1>1
<1>3. Pair(0, Base) \in UInt128 /\ Value128(Pair(0, Base)) = 0 * Word + Base
  BY <1>2, PairIs128
<1>4. /\ BaseNumber \in UInt256
      /\ Value256(BaseNumber) = Value128(Zero128) * Square + Value128(Pair(0, Base))
  BY <1>3, ZeroIs128, PairIs256 DEF BaseNumber
<1>5. 0 * Word + Base = Base /\ 0 * Square + Base = Base
  BY <1>1, WordIsNat DEF Square
<1>6. QED
  BY <1>1, <1>3, <1>4, <1>5, ZeroIs128

\* A number less than a word is in the lowest of its words.
LEMMA SmallIsLowest ==
    ASSUME NEW n \in UInt256, Value256(n) < Word
    PROVE  n.lower.lower = Value256(n)
<1>1. PICK u \in Nat, hl \in Nat, ll \in Nat :
          /\ ll = n.lower.lower /\ hl = n.lower.upper /\ u = Value128(n.upper)
          /\ Value256(n) = u * Square + (hl * Word + ll)
  <2>1. n.lower \in UInt128 /\ Value128(n.upper) \in 0 .. Square - 1
        /\ Value256(n) = Value128(n.upper) * Square + Value128(n.lower)
    BY PartsOf256
  <2>2. /\ n.lower.upper \in 0 .. Word - 1 /\ n.lower.lower \in 0 .. Word - 1
        /\ Value128(n.lower) = n.lower.upper * Word + n.lower.lower
    BY <2>1, PartsOf128
  <2>3. Value128(n.upper) \in Nat /\ n.lower.upper \in Nat /\ n.lower.lower \in Nat
    BY <2>1, <2>2, WordIsNat
  <2>4. QED
    BY <2>1, <2>2, <2>3, Zenon
<1>2. Word \in Nat /\ Square \in Nat /\ Square >= Word
  BY WordIsNat, ProductGrows DEF Square
<1>3. PICK a \in Nat, b \in Nat : /\ a = u * Square /\ (u # 0 => a >= Square)
                                   /\ b = hl * Word /\ (hl # 0 => b >= Word)
  <2>1. u * Square \in Nat /\ hl * Word \in Nat
    BY <1>1, <1>2
  <2>2. u # 0 => u >= 1
    BY <1>1
  <2>3. hl # 0 => hl >= 1
    BY <1>1
  <2>4. u # 0 => u * Square >= Square
    BY <1>1, <1>2, <2>2, ProductGrows
  <2>5. hl # 0 => hl * Word >= Word
    BY <1>1, <1>2, <2>3, ProductGrows
  <2>6. QED
    BY <2>1, <2>4, <2>5
<1>4. Value256(n) = a + (b + ll)
  BY <1>1, <1>3
<1>5. u = 0 /\ hl = 0
  BY <1>1, <1>2, <1>3, <1>4
<1>6. 0 * Square + (0 * Word + ll) = ll
  BY <1>1, <1>2
<1>7. QED
  BY <1>1, <1>5, <1>6

\* uint256ToString: a turn of the loop takes the last digit off the number.
LEMMA DigitTaken ==
    ASSUME NEW n \in UInt256
    PROVE  /\ divMod256(n, BaseNumber).div \in UInt256
           /\ Value256(divMod256(n, BaseNumber).div) = Value256(n) \div Base
           /\ Digit(divMod256(n, BaseNumber).mod) = Value256(n) % Base
<1>1. PICK q \in UInt256, m \in UInt256 :
          /\ q = divMod256(n, BaseNumber).div /\ m = divMod256(n, BaseNumber).mod
          /\ Value256(q) = Value256(n) \div Base /\ Value256(m) = Value256(n) % Base
  <2>1. Value256(BaseNumber) >= 1
    BY BaseIs
  <2>2. QED
    BY <2>1, BaseIs, DivisionIsExact
<1>2. PICK v \in Nat : v = Value256(n)
  BY Value256IsSmall
<1>3. Value256(m) \in 0 .. Base - 1
  <2>1. v % Base \in 0 .. Base - 1
    <3>1. v \in Int /\ Base \in Nat /\ Base >= 1
      BY BaseIs
    <3>2. QED
      BY <3>1, Divided
  <2>2. QED
    BY <1>1, <1>2, <2>1
<1>4. Value256(m) < Word /\ Value256(m) \in HEXDIGITS
  <2>1. Word \in Nat
    BY WordIsNat
  <2>2. QED
    BY <1>3, <2>1, BaseIs DEF HEXDIGITS
<1>5. m.lower.lower = Value256(m)
  BY <1>4, SmallIsLowest
<1>6. Digit(m) = Value256(m)
  BY <1>4, <1>5 DEF Digit
<1>7. QED
  BY <1>1, <1>6

\* One digit stands for itself.
LEMMA OneDigit ==
    ASSUME NEW d \in Numeral
    PROVE  Denoted(<<d>>, Base) = d
<1> DEFINE digits == <<d>>
<1>1. Base \in Nat /\ Base >= 1 /\ d \in Nat /\ d < Base
  BY BaseIs DEF Numeral
<1>2. Power(Base, 0) = 1 /\ Power(Base, 0 + 1) = Base * Power(Base, 0)
  <2>1. Base \in Int /\ 0 \in Nat
    BY <1>1
  <2>2. QED
    BY <2>1, PowerSteps
<1>3. Power(Base, 1) = Base
  BY <1>1, <1>2
<1>4. Len(digits) = 1 /\ digits[1] = d
  OBVIOUS
<1>5. (d \div 1) % Base = d
  BY <1>1
<1>6. \A k \in 1 .. 1 : digits[k] = (d \div Power(Base, 1 - k)) % Base
  <2>1. 1 - 1 = 0 /\ \A k \in 1 .. 1 : k = 1
    OBVIOUS
  <2>2. QED
    BY <1>2, <1>4, <1>5, <2>1
<1>7. d < Power(Base, 1) /\ 1 \in Nat
  BY <1>1, <1>3
<1> HIDE DEF digits
<1>8. Denoted(digits, Base) = d
  BY <1>1, <1>4, <1>6, <1>7, OwnDigitsDenote
<1>9. QED
  BY <1>8 DEF digits

-----------------------------------------------------------------------------
(* The text of a number *)

TextCharacter == Numeral \cup {Point}

\* The text shows w digits of full in front of the point and f behind it; those it does
\* not show are zeroes.
PlacesTold(text, full, w, f) ==
    /\ DigitsIn(full, w + Decimals, Numeral)
    /\ Len(text) = w + (IF f = 0 THEN 0 ELSE 1 + f)
    /\ \A i \in 1 .. w : text[i] = full[i]
    /\ f > 0 => text[w + 1] = Point
    /\ \A i \in 1 .. f : text[w + 1 + i] = full[w + i]
    /\ \A i \in w + f + 1 .. w + Decimals : full[i] = 0
    /\ w > 1 => full[1] # 0
    /\ f > 0 => full[w + f] # 0

\* What TextDenotesNumber says of a text, but for the number.
ReadsAs(text, full) ==
    LET whole    == SubSeq(text, 1, PointAt(text) - 1)
        fraction == SubSeq(text, PointAt(text) + 1, Len(text))
    IN  /\ whole # <<>> /\ Len(fraction) <= Decimals
        /\ full = whole \o fraction \o Zeroes(Decimals - Len(fraction))
        /\ Len(whole) > 1 => whole[1] # 0
        /\ fraction = <<>> => PointAt(text) > Len(text)
        /\ fraction # <<>> => fraction[Len(fraction)] # 0

\* No digit is taken for the point.
LEMMA PointIsNoDigit ==
    ASSUME NEW d \in Numeral
    PROVE  d \in Nat /\ d # Point
  BY BaseIs DEF Numeral, Point

\* The point is where the whole part ends.
LEMMA PointFound ==
    ASSUME NEW text \in Seq(TextCharacter), NEW full \in Seq(Numeral),
           NEW w \in Nat, w >= 1, NEW f \in 0 .. Decimals, PlacesTold(text, full, w, f)
    PROVE  PointAt(text) = w + 1
<1>1. Decimals \in Nat /\ f \in Nat /\ Len(text) \in Nat
  BY SizesAreNumbers
<1>2. \A i \in 1 .. w : text[i] # Point
  <2>1. \A i \in 1 .. w : full[i] \in Numeral
    BY <1>1 DEF PlacesTold, DigitsIn
  <2>2. \A i \in 1 .. w : text[i] = full[i]
    BY DEF PlacesTold
  <2>3. QED
    BY <2>1, <2>2, PointIsNoDigit
<1>3. CASE f = 0
  <2>1. Len(text) = w
    BY <1>3 DEF PlacesTold
  <2>2. ~ \E i \in 1 .. Len(text) : text[i] = Point
    BY <1>2, <2>1
  <2>3. QED
    BY <2>1, <2>2 DEF PointAt
<1>4. CASE f # 0
  <2>1. Len(text) = w + (1 + f) /\ text[w + 1] = Point
    BY <1>1, <1>4 DEF PlacesTold
  <2>2. \A i \in 1 .. f : text[w + 1 + i] # Point
    <3>1. \A i \in 1 .. f : full[w + i] \in Numeral
      BY <1>1 DEF PlacesTold, DigitsIn
    <3>2. \A i \in 1 .. f : text[w + 1 + i] = full[w + i]
      BY DEF PlacesTold
    <3>3. QED
      BY <3>1, <3>2, PointIsNoDigit
  <2>3. \A i \in 1 .. Len(text) : text[i] = Point => i = w + 1
    <3>1. SUFFICES ASSUME NEW i \in 1 .. Len(text), i # w + 1
                   PROVE  text[i] # Point
      OBVIOUS
    <3>2. CASE i <= w
      BY <1>2, <3>2
    <3>3. CASE i > w + 1
      <4>1. i - (w + 1) \in 1 .. f /\ w + 1 + (i - (w + 1)) = i
        BY <1>1, <2>1, <3>3
      <4>2. QED
        BY <2>2, <4>1
    <3>4. QED
      BY <3>1, <3>2, <3>3
  <2>4. w + 1 \in 1 .. Len(text)
    BY <1>1, <2>1
  <2>5. \E i \in 1 .. Len(text) : text[i] = Point
    BY <2>1, <2>4
  <2>6. PointAt(text) = CHOOSE i \in 1 .. Len(text) : text[i] = Point
    BY <2>5 DEF PointAt
  <2>7. PICK p : p = PointAt(text) /\ p \in 1 .. Len(text) /\ text[p] = Point
    BY <2>5, <2>6
  <2>8. QED
    BY <2>3, <2>7
<1>5. QED
  BY <1>3, <1>4

\* c is the m characters of a and then the n of b.
Joins(c, a, m, b, n) ==
    /\ Len(c) = m + n
    /\ \A i \in 1 .. m + n : c[i] = IF i <= m THEN a[i] ELSE b[i - m]

\* The characters of two texts joined.
LEMMA JoinedIs ==
    ASSUME NEW S, NEW a \in Seq(S), NEW b \in Seq(S), NEW m \in Nat, NEW n \in Nat,
           Len(a) = m, Len(b) = n
    PROVE  a \o b \in Seq(S) /\ Joins(a \o b, a, m, b, n)
  BY ConcatProperties DEF Joins

\* A text that is laid out so reads as the number of its digits.
LEMMA LaidOutReads ==
    ASSUME NEW text \in Seq(TextCharacter), NEW full \in Seq(Numeral),
           NEW w \in Nat, w >= 1, NEW f \in 0 .. Decimals, PlacesTold(text, full, w, f)
    PROVE  ReadsAs(text, full)
<1> DEFINE whole    == SubSeq(text, 1, w)
           fraction == SubSeq(text, w + 2, Len(text))
           zeroes   == Zeroes(Decimals - f)
<1>1. Decimals \in Nat /\ f \in Nat /\ Decimals - f \in Nat /\ Len(text) \in Nat
  BY SizesAreNumbers
<1>2. PointAt(text) = w + 1
  BY PointFound
<1>3. Len(text) = w + (IF f = 0 THEN 0 ELSE 1 + f)
  BY DEF PlacesTold
<1>4. /\ whole \in Seq(TextCharacter) /\ Len(whole) = w
      /\ \A i \in 1 .. w : whole[i] = full[i]
  <2>1. w <= Len(text)
    BY <1>1, <1>3
  <2>2. whole \in Seq(TextCharacter) /\ Len(whole) = w /\ \A i \in 1 .. w : whole[i] = text[i]
    BY <1>1, <2>1
  <2>3. \A i \in 1 .. w : text[i] = full[i]
    BY DEF PlacesTold
  <2>4. QED
    BY <2>2, <2>3
<1>5. /\ fraction \in Seq(TextCharacter) /\ Len(fraction) = f
      /\ \A i \in 1 .. f : fraction[i] = full[w + i]
  <2>1. CASE f = 0
    <3>1. fraction = <<>>
      BY <1>1, <1>3, <2>1
    <3>2. <<>> \in Seq(TextCharacter) /\ Len(<<>>) = 0 /\ \A i \in 1 .. 0 : FALSE
      OBVIOUS
    <3> HIDE DEF fraction
    <3>3. QED
      BY <2>1, <3>1, <3>2
  <2>2. CASE f # 0
    <3>1. Len(text) = w + (1 + f)
      BY <1>3, <2>2
    <3>2. /\ fraction \in Seq(TextCharacter) /\ Len(fraction) = Len(text) - (w + 2) + 1
          /\ \A i \in 1 .. Len(fraction) : fraction[i] = text[(w + 2) + i - 1]
      BY <1>1, <3>1
    <3>3. Len(fraction) = f
      BY <1>1, <3>1, <3>2
    <3>4. \A i \in 1 .. f : (w + 2) + i - 1 = w + 1 + i
      BY <1>1
    <3>5. \A i \in 1 .. f : text[w + 1 + i] = full[w + i]
      BY DEF PlacesTold
    <3>6. QED
      BY <3>2, <3>3, <3>4, <3>5
  <2>3. QED
    BY <2>1, <2>2
<1>6. /\ zeroes \in Seq({0}) /\ Len(zeroes) = Decimals - f
      /\ \A i \in 1 .. Decimals - f : zeroes[i] = 0
  <2>1. [i \in 1 .. Decimals - f |-> 0] \in [1 .. Decimals - f -> {0}]
    OBVIOUS
  <2>2. /\ [i \in 1 .. Decimals - f |-> 0] \in Seq({0})
        /\ Len([i \in 1 .. Decimals - f |-> 0]) = Decimals - f
    BY <1>1, <2>1
  <2>3. QED
    BY <2>2 DEF Zeroes
<1>7. /\ DigitsIn(full, w + Decimals, Numeral)
      /\ \A i \in w + f + 1 .. w + Decimals : full[i] = 0
      /\ w > 1 => full[1] # 0
      /\ f > 0 => full[w + f] # 0
  BY DEF PlacesTold
<1> HIDE DEF whole, fraction, zeroes
<1>8. full = (whole \o fraction) \o zeroes
  <2> DEFINE C == TextCharacter \cup {0}
  <2>1. whole \in Seq(C) /\ fraction \in Seq(C) /\ zeroes \in Seq(C) /\ full \in Seq(C)
    BY <1>4, <1>5, <1>6 DEF TextCharacter
  <2> HIDE DEF C
  <2>2. whole \o fraction \in Seq(C) /\ Joins(whole \o fraction, whole, w, fraction, f)
    <3>1. Len(whole) = w /\ Len(fraction) = f /\ f \in Nat
      BY <1>1, <1>4, <1>5
    <3>2. QED
      BY <2>1, <3>1, JoinedIs, Zenon
  <2>3. PICK a \in Seq(C) :
            /\ a = whole \o fraction /\ Len(a) = w + f
            /\ \A i \in 1 .. w + f : a[i] = IF i <= w THEN whole[i] ELSE fraction[i - w]
    BY <2>2 DEF Joins
  <2>4. a \o zeroes \in Seq(C) /\ Joins(a \o zeroes, a, w + f, zeroes, Decimals - f)
    <3>1. w + f \in Nat /\ Decimals - f \in Nat
      BY <1>1
    <3>2. Len(zeroes) = Decimals - f /\ Len(a) = w + f
      BY <1>6, <2>3
    <3>3. QED
      BY <2>1, <3>1, <3>2, JoinedIs, Zenon
  <2>5. PICK b \in Seq(C) :
            /\ b = a \o zeroes /\ Len(b) = w + Decimals
            /\ \A i \in 1 .. w + Decimals : b[i] = IF i <= w + f THEN a[i] ELSE zeroes[i - (w + f)]
    <3>1. w + f + (Decimals - f) = w + Decimals
      BY <1>1
    <3>2. QED
      BY <2>4, <3>1 DEF Joins
  <2>6. \A i \in 1 .. w + Decimals : b[i] = full[i]
    <3> SUFFICES ASSUME NEW i \in 1 .. w + Decimals
                 PROVE  b[i] = full[i]
      OBVIOUS
    <3>1. CASE i <= w
      <4>1. b[i] = a[i] /\ a[i] = whole[i] /\ i \in 1 .. w
        BY <1>1, <2>3, <2>5, <3>1
      <4>2. QED
        BY <1>4, <4>1
    <3>2. CASE w < i /\ i <= w + f
      <4>1. b[i] = a[i] /\ a[i] = fraction[i - w] /\ i - w \in 1 .. f /\ w + (i - w) = i
        BY <1>1, <2>3, <2>5, <3>2
      <4>2. QED
        BY <1>5, <4>1
    <3>3. CASE w + f < i
      <4>1. /\ b[i] = zeroes[i - (w + f)] /\ i - (w + f) \in 1 .. Decimals - f
            /\ i \in w + f + 1 .. w + Decimals
        BY <1>1, <2>5, <3>3
      <4>2. QED
        BY <1>6, <1>7, <4>1
    <3>4. QED
      BY <1>1, <3>1, <3>2, <3>3
  <2>7. Len(full) = w + Decimals
    BY <1>7 DEF DigitsIn
  <2>8. b = full
    BY <2>1, <2>5, <2>6, <2>7, SeqEqual
  <2>9. QED
    BY <2>3, <2>5, <2>8
<1>9. whole # <<>> /\ (Len(whole) > 1 => whole[1] # 0)
  <2>1. 1 \in 1 .. w
    OBVIOUS
  <2>2. whole # <<>>
    BY <1>4
  <2>3. QED
    BY <1>4, <1>7, <2>1, <2>2
<1>10. /\ fraction = <<>> => w + 1 > Len(text)
       /\ fraction # <<>> => fraction[Len(fraction)] # 0
  <2>1. fraction = <<>> <=> f = 0
    BY <1>1, <1>5
  <2>2. f > 0 => f \in 1 .. f
    BY <1>1
  <2>3. QED
    BY <1>1, <1>3, <1>5, <1>7, <2>1, <2>2
<1>11. (w + 1) - 1 = w /\ (w + 1) + 1 = w + 2
  OBVIOUS
<1>12. /\ SubSeq(text, 1, PointAt(text) - 1) = whole
       /\ SubSeq(text, PointAt(text) + 1, Len(text)) = fraction
  BY <1>2, <1>11 DEF whole, fraction
<1>13. zeroes = Zeroes(Decimals - Len(fraction))
  BY <1>5 DEF zeroes
<1>14. Len(fraction) <= Decimals
  BY <1>1, <1>5
<1>15. QED
  BY <1>2, <1>8, <1>9, <1>10, <1>12, <1>13, <1>14 DEF ReadsAs

\* The last place that Trimmed keeps, before it looks for the point.
LastKept(text, start, k) ==
    /\ k \in start .. Len(text)
    /\ \A i \in k + 1 .. Len(text) : text[i] = 0
    /\ k = start \/ text[k] # 0

\* There is such a place.
LEMMA LastKeptExists ==
    ASSUME NEW text, NEW n \in Nat, n = Len(text), NEW start \in 1 .. n
    PROVE  \E k : LastKept(text, start, k)
<1> DEFINE T == {k \in start .. n : \A i \in k + 1 .. n : text[i] = 0}
<1>1. n \in T
  <2>1. n \in start .. n /\ ~ \E i : i \in n + 1 .. n
    OBVIOUS
  <2>2. QED
    BY <2>1
<1>2. T \subseteq Nat
  OBVIOUS
<1>3. PICK k \in T : \A j \in T : ~(j < k)
  BY <1>1, <1>2, LeastNumber
<1>4. k = start \/ text[k] # 0
  <2> SUFFICES ASSUME k # start, text[k] = 0
               PROVE  FALSE
    OBVIOUS
  <2>1. k \in start .. n /\ \A i \in k + 1 .. n : text[i] = 0
    OBVIOUS
  <2>2. k - 1 \in start .. n /\ k - 1 < k /\ (k - 1) + 1 = k
    BY <2>1
  <2>3. \A i \in k .. n : text[i] = 0
    BY <2>1
  <2>4. k - 1 \in T
    BY <2>2, <2>3
  <2>5. QED
    BY <1>3, <2>2, <2>4
<1>5. QED
  BY <1>3, <1>4 DEF LastKept

\* adjustDecimals, its end: the text up to that place, without a point there.
LEMMA TrimmedIs ==
    ASSUME NEW text, NEW n \in Nat, n = Len(text), NEW start \in 1 .. n
    PROVE  \E k : /\ LastKept(text, start, k)
                  /\ Trimmed(text, start)
                         = SubSeq(text, 1, IF k < n /\ text[k] = Point THEN k - 1 ELSE k)
<1> DEFINE keep == CHOOSE k \in start .. Len(text) :
                       /\ \A i \in k + 1 .. Len(text) : text[i] = 0
                       /\ k = start \/ text[k] # 0
<1>1. PICK k : LastKept(text, start, k)
  BY LastKeptExists
<1>2. \E j \in start .. Len(text) :
          /\ \A i \in j + 1 .. Len(text) : text[i] = 0
          /\ j = start \/ text[j] # 0
  BY <1>1 DEF LastKept
<1>3. /\ keep \in start .. Len(text)
      /\ \A i \in keep + 1 .. Len(text) : text[i] = 0
      /\ keep = start \/ text[keep] # 0
  BY <1>2, Zenon
<1>4. Trimmed(text, start)
          = SubSeq(text, 1, IF keep < Len(text) /\ text[keep] = Point THEN keep - 1 ELSE keep)
  BY Zenon DEF Trimmed
<1> HIDE DEF keep
<1>5. LastKept(text, start, keep)
  BY <1>3, Zenon DEF LastKept
<1>6. QED
  BY <1>4, <1>5

\* The first characters of a text.
LEMMA PrefixIs ==
    ASSUME NEW S, NEW text \in Seq(S), NEW m \in Nat, m <= Len(text),
           NEW t, t = SubSeq(text, 1, m)
    PROVE  t \in Seq(S) /\ Len(t) = m /\ \A i \in 1 .. m : t[i] = text[i]
OBVIOUS

\* The digits with the point between them.
PointPut(text, full, w) ==
    /\ DigitsIn(full, w + Decimals, Numeral)
    /\ Len(text) = w + 1 + Decimals
    /\ \A i \in 1 .. w : text[i] = full[i]
    /\ text[w + 1] = Point
    /\ \A i \in 1 .. Decimals : text[w + 1 + i] = full[w + i]
    /\ w > 1 => full[1] # 0

\* Trimmed starts at the point, or at a place in front of a digit that stays.
TrimsFrom(text, start, w) ==
    /\ start \in w + 1 .. Len(text)
    /\ start = w + 1 \/ \E i \in start + 1 .. Len(text) : text[i] # 0

\* What is left when the zeroes behind the point are trimmed is laid out.
LEMMA TrimmedIsLaidOut ==
    ASSUME NEW text \in Seq(TextCharacter), NEW full, NEW w \in Nat, w >= 1, NEW start,
           Decimals # 0, PointPut(text, full, w), TrimsFrom(text, start, w)
    PROVE  /\ Trimmed(text, start) \in Seq(TextCharacter)
           /\ \E f \in 0 .. Decimals : PlacesTold(Trimmed(text, start), full, w, f)
<1>1. Decimals \in Nat /\ Decimals >= 1
  BY SizesAreNumbers
<1>2. PICK n \in Nat : n = Len(text) /\ n = w + 1 + Decimals
  BY <1>1 DEF PointPut
<1>3. start \in Nat /\ start \in 1 .. n /\ start >= w + 1
  BY <1>2 DEF TrimsFrom
<1>4. PICK k : /\ LastKept(text, start, k)
               /\ Trimmed(text, start)
                      = SubSeq(text, 1, IF k < n /\ text[k] = Point THEN k - 1 ELSE k)
  BY <1>2, <1>3, TrimmedIs
<1>5. k \in Nat /\ w + 1 <= k /\ k <= n
  BY <1>2, <1>3, <1>4 DEF LastKept
<1>6. \A i \in 1 .. Decimals : w + 1 + i > k => full[w + i] = 0
  <2> SUFFICES ASSUME NEW i \in 1 .. Decimals, w + 1 + i > k
               PROVE  full[w + i] = 0
    OBVIOUS
  <2>1. w + 1 + i \in k + 1 .. n
    BY <1>1, <1>2, <1>5
  <2>2. text[w + 1 + i] = 0
    BY <1>2, <1>4, <2>1 DEF LastKept
  <2>3. text[w + 1 + i] = full[w + i]
    BY DEF PointPut
  <2>4. QED
    BY <2>2, <2>3
<1>7. /\ DigitsIn(full, w + Decimals, Numeral)
      /\ \A i \in 1 .. w : text[i] = full[i]
      /\ text[w + 1] = Point
      /\ \A i \in 1 .. Decimals : text[w + 1 + i] = full[w + i]
      /\ w > 1 => full[1] # 0
  BY DEF PointPut
<1>8. CASE k = w + 1
  <2>1. Trimmed(text, start) = SubSeq(text, 1, w)
    <3>1. k < n /\ text[k] = Point /\ k - 1 = w
      BY <1>1, <1>2, <1>7, <1>8
    <3>2. QED
      BY <1>4, <3>1
  <2>2. PICK t : t = SubSeq(text, 1, w)
    OBVIOUS
  <2>3. t \in Seq(TextCharacter) /\ Len(t) = w /\ \A i \in 1 .. w : t[i] = text[i]
    <3>1. w <= Len(text)
      BY <1>1, <1>2
    <3>2. QED
      BY <2>2, <3>1, PrefixIs
  <2>4. PlacesTold(t, full, w, 0)
    <3>1. \A i \in w + 0 + 1 .. w + Decimals : full[i] = 0
      <4> SUFFICES ASSUME NEW i \in w + 0 + 1 .. w + Decimals
                   PROVE  full[i] = 0
        OBVIOUS
      <4>1. i - w \in 1 .. Decimals /\ w + (i - w) = i /\ w + 1 + (i - w) > k
        BY <1>1, <1>8
      <4>2. QED
        BY <1>6, <4>1
    <3>2. Len(t) = w + (IF 0 = 0 THEN 0 ELSE 1 + 0)
      BY <2>3
    <3>3. \A i \in 1 .. w : t[i] = full[i]
      BY <1>7, <2>3
    <3>4. ~(0 > 0) /\ ~ \E i : i \in 1 .. 0
      OBVIOUS
    <3>5. QED
      BY <1>7, <3>1, <3>2, <3>3, <3>4 DEF PlacesTold
  <2>5. 0 \in 0 .. Decimals
    BY <1>1
  <2>6. QED
    BY <2>1, <2>2, <2>3, <2>4, <2>5
<1>9. CASE k > w + 1
  <2>1. text[k] # 0
    <3> SUFFICES ASSUME text[k] = 0
                 PROVE  FALSE
      OBVIOUS
    <3>1. k = start /\ \A i \in k + 1 .. n : text[i] = 0
      BY <1>2, <1>4 DEF LastKept
    <3>2. \E i \in start + 1 .. n : text[i] # 0
      BY <1>2, <1>9, <3>1 DEF TrimsFrom
    <3>3. QED
      BY <3>1, <3>2
  <2>2. PICK f \in Nat : f >= 1 /\ f <= Decimals /\ k = w + 1 + f
    <3>1. k - (w + 1) \in Nat /\ k - (w + 1) >= 1 /\ k - (w + 1) <= Decimals
          /\ k = w + 1 + (k - (w + 1))
      BY <1>1, <1>2, <1>5, <1>9
    <3>2. QED
      BY <3>1
  <2>3. text[k] = full[w + f]
    BY <1>7, <2>2
  <2>4. text[k] # Point
    <3>1. w + f \in 1 .. w + Decimals
      BY <1>1, <2>2
    <3>2. full[w + f] \in Numeral
      BY <1>7, <3>1 DEF DigitsIn
    <3>3. QED
      BY <2>3, <3>2, PointIsNoDigit
  <2>5. Trimmed(text, start) = SubSeq(text, 1, k)
    BY <1>4, <2>4
  <2>6. PICK t : t = SubSeq(text, 1, k)
    OBVIOUS
  <2>7. t \in Seq(TextCharacter) /\ Len(t) = k /\ \A i \in 1 .. k : t[i] = text[i]
    <3>1. k \in Nat /\ k <= Len(text)
      BY <1>2, <1>5
    <3>2. QED
      BY <2>6, <3>1, PrefixIs
  <2>8. PlacesTold(t, full, w, f)
    <3>1. \A i \in w + f + 1 .. w + Decimals : full[i] = 0
      <4> SUFFICES ASSUME NEW i \in w + f + 1 .. w + Decimals
                   PROVE  full[i] = 0
        OBVIOUS
      <4>1. i - w \in 1 .. Decimals /\ w + (i - w) = i /\ w + 1 + (i - w) > k
        BY <1>1, <2>2
      <4>2. QED
        BY <1>6, <4>1
    <3>2. Len(t) = w + (IF f = 0 THEN 0 ELSE 1 + f)
      BY <2>2, <2>7
    <3>3. \A i \in 1 .. w : t[i] = full[i]
      <4>1. \A i \in 1 .. w : i \in 1 .. k
        BY <1>5
      <4>2. QED
        BY <1>7, <2>7, <4>1
    <3>4. t[w + 1] = Point
      <4>1. w + 1 \in 1 .. k
        BY <1>5
      <4>2. QED
        BY <1>7, <2>7, <4>1
    <3>5. \A i \in 1 .. f : t[w + 1 + i] = full[w + i]
      <4> SUFFICES ASSUME NEW i \in 1 .. f
                   PROVE  t[w + 1 + i] = full[w + i]
        OBVIOUS
      <4>1. w + 1 + i \in 1 .. k /\ i \in 1 .. Decimals
        BY <1>1, <2>2
      <4>2. QED
        BY <1>7, <2>7, <4>1
    <3>6. full[w + f] # 0
      BY <2>1, <2>3
    <3>7. QED
      BY <1>7, <3>1, <3>2, <3>3, <3>4, <3>5, <3>6 DEF PlacesTold
  <2>9. f \in 0 .. Decimals
    BY <1>1, <2>2
  <2>10. QED
    BY <2>5, <2>6, <2>7, <2>8, <2>9
<1>10. QED
  BY <1>5, <1>8, <1>9

\* The digits adjustDecimals is given, with zeroes in front if they are too few.
Full(src) == IF Len(src) <= Decimals THEN Zeroes(Decimals + 1 - Len(src)) \o src ELSE src

\* What it writes for them.
TextOf(src) == IF src = <<0>> THEN <<0>> ELSE Trimmed(Spread(src), StartOffset(src))

\* These are not those of zero.
NotNought(src) == src # <<0>>

\* What uint256ToString gives it: digits without zeroes in front.
Written(src) == src \in Seq(Numeral) /\ Len(src) >= 1 /\ (Len(src) > 1 => src[1] # 0)

\* Zeroes are digits.
LEMMA ZeroesAre ==
    ASSUME NEW n \in Nat
    PROVE  Zeroes(n) \in Seq(Numeral) /\ DigitsIn(Zeroes(n), n, {0})
<1>1. 0 \in Numeral
  BY BaseIs DEF Numeral
<1>2. [i \in 1 .. n |-> 0] \in [1 .. n -> Numeral]
  BY <1>1
<1>3. [i \in 1 .. n |-> 0] \in Seq(Numeral) /\ Len([i \in 1 .. n |-> 0]) = n
  BY <1>2
<1>4. QED
  BY <1>3 DEF Zeroes, DigitsIn

\* The digits of a sequence of digits.
LEMMA NumeralsAre ==
    ASSUME NEW s \in Seq(Numeral), NEW n \in Nat, Len(s) = n
    PROVE  DigitsIn(s, n, Numeral) /\ DigitsIn(s, n, Int) /\ s \in Seq(TextCharacter)
  BY BaseIs DEF DigitsIn, Numeral, TextCharacter

\* Zeroes in front make no difference to the number.
LEMMA FullIsSameNumber ==
    ASSUME NEW src \in Seq(Numeral), NEW n \in Nat, n = Len(src)
    PROVE  /\ Full(src) \in Seq(Numeral)
           /\ Denoted(Full(src), Base) = Denoted(src, Base)
           /\ n <= Decimals =>
                  Joins(Full(src), Zeroes(Decimals + 1 - n), Decimals + 1 - n, src, n)
<1>1. CASE n <= Decimals
  <2>1. PICK m \in Nat : m = Decimals + 1 - n
    BY <1>1, SizesAreNumbers
  <2>2. PICK zeroes \in Seq(Numeral) : zeroes = Zeroes(m) /\ DigitsIn(zeroes, m, {0})
    BY ZeroesAre
  <2>3. Full(src) = zeroes \o src
    BY <1>1, <2>1, <2>2 DEF Full
  <2>4. Len(zeroes) = m
    BY <2>2 DEF DigitsIn
  <2>5. zeroes \o src \in Seq(Numeral) /\ Joins(zeroes \o src, zeroes, m, src, n)
    BY <2>4, JoinedIs, Zenon
  <2>6. PICK full \in Seq(Numeral) : full = Full(src) /\ Joins(full, zeroes, m, src, n)
    BY <2>3, <2>5, Zenon
  <2>7. InParts(full, zeroes, m, src, n)
    <3>1. Len(full) = m + n
      BY <2>6 DEF Joins
    <3>2. DigitsIn(full, m + n, Int)
      BY <2>1, <3>1, NumeralsAre
    <3>3. \A k \in 1 .. m : zeroes[k] = full[k]
      BY <2>6 DEF Joins
    <3>4. \A k \in 1 .. n : src[k] = full[m + k]
      BY <2>6 DEF Joins
    <3>5. QED
      BY <2>4, <3>2, <3>3, <3>4 DEF InParts
  <2>8. /\ Denoted(src, Base) \in Int
        /\ Denoted(full, Base) = Denoted(zeroes, Base) * Power(Base, n) + Denoted(src, Base)
    BY <2>7, BaseIs, DenotedInParts
  <2>9. Denoted(zeroes, Base) = 0
    BY <2>2, BaseIs, ZeroesDenoteNothing
  <2>10. Power(Base, n) \in Nat
    BY BaseIs, PowerIsPositive
  <2>11. Denoted(full, Base) = Denoted(src, Base)
    BY <2>8, <2>9, <2>10
  <2>12. QED
    BY <2>1, <2>2, <2>6, <2>11
<1>2. CASE ~(n <= Decimals)
  BY <1>2 DEF Full
<1>3. QED
  BY <1>1, <1>2

\* A digit alone.
LEMMA AloneIs ==
    ASSUME NEW src, Written(src), Len(src) = 1
    PROVE  src = <<src[1]>>
<1>1. src \in Seq(Numeral)
  BY DEF Written
<1>2. PICK d \in Numeral : d = src[1]
  BY <1>1
<1>3. <<d>> \in Seq(Numeral) /\ Len(<<d>>) = 1 /\ \A i \in 1 .. 1 : <<d>>[i] = src[i]
  BY <1>2
<1>4. <<d>> = src
  BY <1>1, <1>3, SeqEqual
<1>5. QED
  BY <1>2, <1>4

\* Few digits: a zero, the point, more zeroes and the digits.
LEMMA FewDigitsSpread ==
    ASSUME NEW src, Written(src), NotNought(src), Len(src) <= Decimals
    PROVE  /\ Spread(src) \in Seq(TextCharacter)
           /\ PointPut(Spread(src), Full(src), 1)
           /\ TrimsFrom(Spread(src), StartOffset(src), 1)
<1>1. PICK n \in Nat : n = Len(src) /\ n >= 1 /\ src \in Seq(Numeral)
  BY DEF Written
<1>2. PICK m \in Nat : /\ m = Decimals - n /\ Decimals = m + n /\ Decimals + 1 - n = m + 1
                       /\ Decimals \in Nat
  BY <1>1, SizesAreNumbers
<1>3. PICK zeroes \in Seq(Numeral) : zeroes = Zeroes(m) /\ DigitsIn(zeroes, m, {0})
  BY ZeroesAre
<1>4. PICK more \in Seq(Numeral) : more = Zeroes(m + 1) /\ DigitsIn(more, m + 1, {0})
  <2>1. m + 1 \in Nat
    OBVIOUS
  <2>2. QED
    BY <2>1, ZeroesAre
<1>5. PICK front : front = <<0, Point>>
  OBVIOUS
<1>6. front \in Seq(TextCharacter) /\ Len(front) = 2 /\ front[1] = 0 /\ front[2] = Point
  <2>1. 0 \in TextCharacter /\ Point \in TextCharacter
    BY BaseIs DEF Numeral, TextCharacter
  <2>2. QED
    BY <1>5, <2>1
<1>7. Len(zeroes) = m /\ zeroes \in Seq(TextCharacter) /\ src \in Seq(TextCharacter)
  <2>1. Len(zeroes) = m
    BY <1>3 DEF DigitsIn
  <2>2. QED
    BY <1>1, <2>1, NumeralsAre
<1>8. front \o zeroes \in Seq(TextCharacter) /\ Joins(front \o zeroes, front, 2, zeroes, m)
  <2>1. 2 \in Nat
    OBVIOUS
  <2>2. QED
    BY <1>6, <1>7, <2>1, JoinedIs, Zenon
<1>9. PICK a \in Seq(TextCharacter) : a = front \o zeroes /\ Joins(a, front, 2, zeroes, m)
  BY <1>8, Zenon
<1>10. PICK text \in Seq(TextCharacter) : text = a \o src /\ Joins(text, a, 2 + m, src, n)
  <2>1. 2 + m \in Nat
    OBVIOUS
  <2>2. Len(a) = 2 + m
    BY <1>9 DEF Joins
  <2>3. a \o src \in Seq(TextCharacter) /\ Joins(a \o src, a, 2 + m, src, n)
    BY <1>1, <1>7, <2>1, <2>2, JoinedIs, Zenon
  <2>4. QED
    BY <2>3, Zenon
<1>11. text = Spread(src)
  BY <1>1, <1>2, <1>3, <1>5, <1>9, <1>10 DEF Spread
<1>12. PICK full \in Seq(Numeral) : full = Full(src) /\ Joins(full, more, m + 1, src, n)
  <2>1. n <= Decimals
    BY <1>1
  <2>2. QED
    BY <1>1, <1>2, <1>4, <2>1, FullIsSameNumber
<1>13. /\ \A i \in 1 .. m + 1 : full[i] = 0
       /\ \A i \in 1 .. n : full[m + 1 + i] = src[i]
       /\ Len(full) = 1 + Decimals
  <2>1. \A i \in 1 .. m + 1 : more[i] = 0
    BY <1>4 DEF DigitsIn
  <2>2. \A i \in 1 .. m + 1 : full[i] = more[i]
    BY <1>12 DEF Joins
  <2>3. \A i \in 1 .. n : full[m + 1 + i] = src[i]
    BY <1>12 DEF Joins
  <2>4. Len(full) = m + 1 + n
    BY <1>12 DEF Joins
  <2>5. QED
    BY <1>2, <2>1, <2>2, <2>3, <2>4
<1>14. /\ text[1] = 0 /\ text[2] = Point
       /\ \A i \in 1 .. m : text[2 + i] = 0
       /\ \A i \in 1 .. n : text[2 + m + i] = src[i]
       /\ Len(text) = 2 + Decimals
  <2>1. \A i \in 1 .. 2 + m : text[i] = a[i]
    BY <1>10 DEF Joins
  <2>2. a[1] = 0 /\ a[2] = Point
    BY <1>6, <1>9 DEF Joins
  <2>3. \A i \in 1 .. m : zeroes[i] = 0
    BY <1>3 DEF DigitsIn
  <2>4. \A i \in 1 .. m : a[2 + i] = zeroes[i]
    BY <1>9 DEF Joins
  <2>5. \A i \in 1 .. m : 2 + i \in 1 .. 2 + m
    OBVIOUS
  <2>6. \A i \in 1 .. m : text[2 + i] = 0
    BY <2>1, <2>3, <2>4, <2>5
  <2>7. \A i \in 1 .. n : text[2 + m + i] = src[i]
    BY <1>10 DEF Joins
  <2>8. Len(text) = 2 + m + n
    BY <1>10 DEF Joins
  <2>9. 1 \in 1 .. 2 + m /\ 2 \in 1 .. 2 + m
    OBVIOUS
  <2>10. QED
    BY <1>2, <2>1, <2>2, <2>6, <2>7, <2>8, <2>9
<1>15. PointPut(text, full, 1)
  <2>1. DigitsIn(full, 1 + Decimals, Numeral)
    BY <1>2, <1>13, NumeralsAre
  <2>2. Len(text) = 1 + 1 + Decimals /\ text[1 + 1] = Point
    BY <1>2, <1>14
  <2>3. \A i \in 1 .. 1 : text[i] = full[i]
    <3>1. full[1] = 0
      BY <1>13
    <3>2. QED
      BY <1>14, <3>1
  <2>4. \A i \in 1 .. Decimals : text[1 + 1 + i] = full[1 + i]
    <3> SUFFICES ASSUME NEW i \in 1 .. Decimals
                 PROVE  text[1 + 1 + i] = full[1 + i]
      OBVIOUS
    <3>1. CASE i <= m
      <4>1. i \in 1 .. m /\ 1 + i \in 1 .. m + 1 /\ 1 + 1 + i = 2 + i
        BY <3>1
      <4>2. QED
        BY <1>13, <1>14, <4>1
    <3>2. CASE i > m
      <4>1. i - m \in 1 .. n /\ m + 1 + (i - m) = 1 + i /\ 2 + m + (i - m) = 1 + 1 + i
        BY <1>2, <3>2
      <4>2. full[1 + i] = src[i - m] /\ text[1 + 1 + i] = src[i - m]
        BY <1>13, <1>14, <4>1
      <4>3. QED
        BY <4>2
    <3>3. QED
      BY <3>1, <3>2
  <2>5. QED
    BY <2>1, <2>2, <2>3, <2>4 DEF PointPut
<1>16. TrimsFrom(text, StartOffset(src), 1)
  <2>1. StartOffset(src) = 2 + m
    BY <1>1, <1>2 DEF StartOffset
  <2>2. src[1] # 0
    <3>1. CASE n > 1
      BY <1>1, <3>1 DEF Written
    <3>2. CASE n = 1
      <4>1. src = <<src[1]>>
        BY <1>1, <3>2, AloneIs
      <4>2. QED
        BY <4>1 DEF NotNought
    <3>3. QED
      BY <1>1, <3>1, <3>2
  <2>3. 1 \in 1 .. n /\ 2 + m + 1 \in (2 + m) + 1 .. Len(text)
    BY <1>1, <1>2, <1>14
  <2>4. text[2 + m + 1] # 0
    BY <1>14, <2>2, <2>3
  <2>5. 2 + m \in 1 + 1 .. Len(text)
    BY <1>1, <1>2, <1>14
  <2>6. QED
    BY <2>1, <2>3, <2>4, <2>5 DEF TrimsFrom
<1>17. QED
  BY <1>11, <1>12, <1>15, <1>16

\* More digits than places: the point is put between them.
LEMMA ManyDigitsSpread ==
    ASSUME NEW src, Written(src), ~(Len(src) <= Decimals), Decimals # 0
    PROVE  /\ Spread(src) \in Seq(TextCharacter)
           /\ PointPut(Spread(src), src, Len(src) - Decimals)
           /\ TrimsFrom(Spread(src), StartOffset(src), Len(src) - Decimals)
<1>1. PICK n \in Nat : n = Len(src) /\ src \in Seq(Numeral) /\ src \in Seq(TextCharacter)
  <2>1. src \in Seq(Numeral) /\ Len(src) \in Nat
    BY DEF Written
  <2>2. QED
    BY <2>1, NumeralsAre
<1>2. PICK d \in Nat : d = Decimals /\ d >= 1
  BY SizesAreNumbers
<1>3. PICK w \in Nat : w = n - d /\ n = w + d /\ w >= 1 /\ n - d + 1 = w + 1
  BY <1>1, <1>2
<1>4. PICK whole \in Seq(TextCharacter) :
          /\ whole = SubSeq(src, 1, w) /\ Len(whole) = w
          /\ \A i \in 1 .. w : whole[i] = src[i]
  <2>1. w <= Len(src)
    BY <1>1, <1>3
  <2>2. PICK t : t = SubSeq(src, 1, w)
    OBVIOUS
  <2>3. t \in Seq(TextCharacter) /\ Len(t) = w /\ \A i \in 1 .. w : t[i] = src[i]
    BY <1>1, <2>1, <2>2, PrefixIs
  <2>4. QED
    BY <2>2, <2>3
<1>5. PICK fraction \in Seq(TextCharacter) :
          /\ fraction = SubSeq(src, w + 1, n) /\ Len(fraction) = d
          /\ \A i \in 1 .. d : fraction[i] = src[w + i]
  <2>1. /\ SubSeq(src, w + 1, n) \in Seq(TextCharacter) /\ Len(SubSeq(src, w + 1, n)) = d
        /\ \A i \in 1 .. d : SubSeq(src, w + 1, n)[i] = src[(w + 1) + i - 1]
    BY <1>1, <1>3
  <2>2. \A i \in 1 .. d : (w + 1) + i - 1 = w + i
    OBVIOUS
  <2>3. QED
    BY <2>1, <2>2
<1>6. PICK point \in Seq(TextCharacter) : point = <<Point>> /\ Len(point) = 1 /\ point[1] = Point
  <2>1. Point \in TextCharacter
    BY DEF TextCharacter
  <2>2. <<Point>> \in Seq(TextCharacter) /\ Len(<<Point>>) = 1 /\ <<Point>>[1] = Point
    BY <2>1
  <2>3. QED
    BY <2>2
<1>7. PICK a \in Seq(TextCharacter) : a = whole \o point /\ Joins(a, whole, w, point, 1)
  <2>1. 1 \in Nat
    OBVIOUS
  <2>2. whole \o point \in Seq(TextCharacter) /\ Joins(whole \o point, whole, w, point, 1)
    BY <1>4, <1>6, <2>1, JoinedIs, Zenon
  <2>3. QED
    BY <2>2, Zenon
<1>8. PICK text \in Seq(TextCharacter) : text = a \o fraction /\ Joins(text, a, w + 1, fraction, d)
  <2>1. w + 1 \in Nat
    OBVIOUS
  <2>2. Len(a) = w + 1
    BY <1>7 DEF Joins
  <2>3. a \o fraction \in Seq(TextCharacter) /\ Joins(a \o fraction, a, w + 1, fraction, d)
    BY <1>5, <2>1, <2>2, JoinedIs, Zenon
  <2>4. QED
    BY <2>3, Zenon
<1>9. text = Spread(src)
  BY <1>1, <1>2, <1>3, <1>4, <1>5, <1>6, <1>7, <1>8 DEF Spread
<1>10. /\ Len(text) = w + 1 + d
       /\ \A i \in 1 .. w : text[i] = src[i]
       /\ text[w + 1] = Point
       /\ \A i \in 1 .. d : text[w + 1 + i] = src[w + i]
  <2>1. Len(text) = w + 1 + d
    BY <1>8 DEF Joins
  <2>2. \A i \in 1 .. w + 1 : text[i] = a[i]
    BY <1>8 DEF Joins
  <2>3. \A i \in 1 .. w : a[i] = whole[i]
    BY <1>7 DEF Joins
  <2>4. a[w + 1] = point[1]
    BY <1>7 DEF Joins
  <2>5. \A i \in 1 .. d : text[w + 1 + i] = fraction[i]
    BY <1>8 DEF Joins
  <2>6. w + 1 \in 1 .. w + 1 /\ \A i \in 1 .. w : i \in 1 .. w + 1
    OBVIOUS
  <2>7. \A i \in 1 .. w : text[i] = src[i]
    BY <1>4, <2>2, <2>3, <2>6
  <2>8. \A i \in 1 .. d : text[w + 1 + i] = src[w + i]
    BY <1>5, <2>5
  <2>9. QED
    BY <1>6, <2>1, <2>2, <2>4, <2>6, <2>7, <2>8
<1>11. PointPut(text, src, w)
  <2>1. DigitsIn(src, w + Decimals, Numeral)
    BY <1>1, <1>2, <1>3, NumeralsAre
  <2>2. w > 1 => src[1] # 0
    BY <1>1, <1>2, <1>3 DEF Written
  <2>3. QED
    BY <1>2, <1>10, <2>1, <2>2 DEF PointPut
<1>12. TrimsFrom(text, StartOffset(src), w)
  <2>1. StartOffset(src) = w + 1
    BY <1>1, <1>2, <1>3 DEF StartOffset
  <2>2. w + 1 \in w + 1 .. Len(text)
    BY <1>10
  <2>3. QED
    BY <2>1, <2>2 DEF TrimsFrom
<1>13. QED
  BY <1>1, <1>2, <1>3, <1>9, <1>11, <1>12

\* Without places the digits are the text.
LEMMA WholeNumberSpread ==
    ASSUME NEW src, Written(src), Decimals = 0
    PROVE  /\ Trimmed(Spread(src), StartOffset(src)) = src
           /\ PlacesTold(src, src, Len(src), 0)
<1>1. PICK n \in Nat : n = Len(src) /\ n >= 1 /\ src \in Seq(Numeral)
  BY DEF Written
<1>2. SubSeq(src, 1, n) = src
  BY <1>1
<1>3. Spread(src) = src
  <2>1. ~(Len(src) <= Decimals) /\ n - Decimals = n /\ n - Decimals + 1 = n + 1
    BY <1>1
  <2>2. Spread(src) = SubSeq(src, 1, n) \o <<>> \o SubSeq(src, n + 1, n)
    BY <1>1, <2>1 DEF Spread
  <2>3. SubSeq(src, n + 1, n) = <<>>
    BY <1>1
  <2>4. src \o <<>> \o <<>> = src
    BY <1>1
  <2>5. QED
    BY <1>2, <2>2, <2>3, <2>4
<1>4. StartOffset(src) = n
  BY <1>1 DEF StartOffset
<1>5. n \in 1 .. n
  BY <1>1
<1>6. PICK k : /\ LastKept(src, n, k)
               /\ Trimmed(src, n) = SubSeq(src, 1, IF k < n /\ src[k] = Point THEN k - 1 ELSE k)
  BY <1>1, <1>5, TrimmedIs
<1>7. k = n
  BY <1>1, <1>6 DEF LastKept
<1>8. Trimmed(src, n) = src
  BY <1>1, <1>2, <1>6, <1>7
<1>9. PlacesTold(src, src, n, 0)
  <2>1. DigitsIn(src, n + Decimals, Numeral)
    BY <1>1, NumeralsAre
  <2>2. Len(src) = n + (IF 0 = 0 THEN 0 ELSE 1 + 0)
    BY <1>1
  <2>3. ~(0 > 0) /\ (~ \E i : i \in 1 .. 0) /\ ~ \E i : i \in n + 0 + 1 .. n + Decimals
    OBVIOUS
  <2>4. n > 1 => src[1] # 0
    BY <1>1 DEF Written
  <2>5. QED
    BY <2>1, <2>2, <2>3, <2>4 DEF PlacesTold
<1>10. QED
  BY <1>1, <1>3, <1>4, <1>8, <1>9

\* Nothing at all is the digit zero.
LEMMA NothingIsLaidOut ==
    PlacesTold(<<0>>, Full(<<0>>), 1, 0)
<1>1. <<0>> \in Seq(Numeral) /\ Len(<<0>>) = 1 /\ <<0>>[1] = 0
  BY BaseIs DEF Numeral
<1>2. Decimals \in Nat
  BY SizesAreNumbers
<1>3. PICK full \in Seq(Numeral) : full = Full(<<0>>)
  <2>1. 1 \in Nat
    OBVIOUS
  <2>2. QED
    BY <1>1, <2>1, FullIsSameNumber
<1>4. Len(full) = 1 + Decimals /\ \A i \in 1 .. 1 + Decimals : full[i] = 0
  <2>1. CASE Decimals = 0
    <3>1. ~(Len(<<0>>) <= Decimals)
      BY <1>1, <2>1
    <3>2. full = <<0>>
      BY <1>3, <3>1 DEF Full
    <3>3. QED
      BY <1>1, <2>1, <3>2
  <2>2. CASE Decimals # 0
    <3>1. 1 <= Decimals /\ Decimals + 1 - 1 = Decimals /\ 1 \in Nat
      BY <1>2, <2>2
    <3>2. PICK zeroes : zeroes = Zeroes(Decimals) /\ DigitsIn(zeroes, Decimals, {0})
      BY <1>2, ZeroesAre
    <3>3. PICK src : src = <<0>> /\ src[1] = 0
      BY <1>1
    <3>4. Joins(full, zeroes, Decimals, src, 1)
      BY <1>1, <1>3, <3>1, <3>2, <3>3, FullIsSameNumber
    <3>5. Len(full) = Decimals + 1
      BY <3>4 DEF Joins
    <3>6. \A i \in 1 .. Decimals : full[i] = 0
      <4>1. \A i \in 1 .. Decimals : zeroes[i] = 0
        BY <3>2 DEF DigitsIn
      <4>2. \A i \in 1 .. Decimals : full[i] = zeroes[i]
        BY <1>2, <3>4 DEF Joins
      <4>3. QED
        BY <4>1, <4>2
    <3>7. full[Decimals + 1] = 0
      <4>1. full[Decimals + 1] = src[1]
        BY <1>2, <3>4 DEF Joins
      <4>2. QED
        BY <3>3, <4>1
    <3>8. QED
      BY <1>2, <3>5, <3>6, <3>7
  <2>3. QED
    BY <2>1, <2>2
<1>5. PlacesTold(<<0>>, full, 1, 0)
  <2>1. DigitsIn(full, 1 + Decimals, Numeral)
    BY <1>2, <1>4, NumeralsAre
  <2>2. Len(<<0>>) = 1 + (IF 0 = 0 THEN 0 ELSE 1 + 0)
    BY <1>1
  <2>3. ~(0 > 0) /\ (~ \E i : i \in 1 .. 0) /\ ~(1 > 1)
    OBVIOUS
  <2>4. \A i \in 1 + 0 + 1 .. 1 + Decimals : full[i] = 0
    BY <1>2, <1>4
  <2>5. \A i \in 1 .. 1 : <<0>>[i] = full[i]
    BY <1>2, <1>4
  <2>6. QED
    BY <2>1, <2>2, <2>3, <2>4, <2>5 DEF PlacesTold
<1>6. QED
  BY <1>3, <1>5

\* adjustDecimals: the text is that of its digits, whatever they are.
LEMMA TextIsLaidOut ==
    ASSUME NEW src, Written(src)
    PROVE  /\ TextOf(src) \in Seq(TextCharacter)
           /\ ReadsAs(TextOf(src), Full(src)) \/ ReadsAs(TextOf(src), src)
<1>1. PICK n \in Nat : n = Len(src) /\ n >= 1 /\ src \in Seq(Numeral) /\ src \in Seq(TextCharacter)
  <2>1. src \in Seq(Numeral) /\ Len(src) \in Nat /\ Len(src) >= 1
    BY DEF Written
  <2>2. QED
    BY <2>1, NumeralsAre
<1>2. Full(src) \in Seq(Numeral) /\ Decimals \in Nat /\ 0 \in 0 .. Decimals
  BY <1>1, FullIsSameNumber, SizesAreNumbers
<1>3. CASE src = <<0>>
  <2>1. TextOf(src) = src
    BY <1>3 DEF TextOf
  <2>2. PlacesTold(src, Full(src), 1, 0)
    BY <1>3, NothingIsLaidOut
  <2>3. QED
    BY <1>1, <1>2, <2>1, <2>2, LaidOutReads
<1>4. CASE src # <<0>> /\ n <= Decimals
  <2>1. TextOf(src) = Trimmed(Spread(src), StartOffset(src))
    BY <1>4 DEF TextOf
  <2>2. /\ Spread(src) \in Seq(TextCharacter)
        /\ PointPut(Spread(src), Full(src), 1)
        /\ TrimsFrom(Spread(src), StartOffset(src), 1)
    BY <1>1, <1>4, FewDigitsSpread DEF NotNought
  <2>3. 1 \in Nat /\ Decimals # 0
    BY <1>1, <1>4
  <2>4. /\ TextOf(src) \in Seq(TextCharacter)
        /\ \E f \in 0 .. Decimals : PlacesTold(TextOf(src), Full(src), 1, f)
    BY <2>1, <2>2, <2>3, TrimmedIsLaidOut
  <2>5. QED
    BY <1>2, <2>3, <2>4, LaidOutReads
<1>5. CASE src # <<0>> /\ ~(n <= Decimals) /\ Decimals # 0
  <2>1. TextOf(src) = Trimmed(Spread(src), StartOffset(src))
    BY <1>5 DEF TextOf
  <2>2. PICK w \in Nat : w = n - Decimals /\ w >= 1
    <3>1. n \in Int /\ Decimals \in Int /\ n > Decimals
      BY <1>1, <1>2, <1>5
    <3>2. n - Decimals \in Nat /\ n - Decimals >= 1
      BY <3>1
    <3>3. QED
      BY <3>2
  <2>3. /\ Spread(src) \in Seq(TextCharacter)
        /\ PointPut(Spread(src), src, w)
        /\ TrimsFrom(Spread(src), StartOffset(src), w)
    BY <1>1, <1>5, <2>2, ManyDigitsSpread
  <2>4. /\ TextOf(src) \in Seq(TextCharacter)
        /\ \E f \in 0 .. Decimals : PlacesTold(TextOf(src), src, w, f)
    BY <1>5, <2>1, <2>2, <2>3, TrimmedIsLaidOut
  <2>5. QED
    BY <1>1, <2>2, <2>4, LaidOutReads
<1>6. CASE src # <<0>> /\ Decimals = 0
  <2>1. TextOf(src) = src /\ PlacesTold(src, src, n, 0)
    BY <1>1, <1>6, WholeNumberSpread DEF TextOf
  <2>2. QED
    BY <1>1, <1>2, <2>1, LaidOutReads
<1>7. QED
  BY <1>1, <1>2, <1>3, <1>4, <1>5, <1>6

-----------------------------------------------------------------------------
(* The digits of a number, mirrored *)

\* stringReverse: the last is the first.
LEMMA ReversedIs ==
    ASSUME NEW s \in Seq(Numeral), NEW n \in Nat, n = Len(s)
    PROVE  /\ stringReverse(s) \in Seq(Numeral) /\ Len(stringReverse(s)) = n
           /\ \A i \in 1 .. n : stringReverse(s)[i] = s[n + 1 - i]
<1> DEFINE t == [i \in 1 .. n |-> s[n + 1 - i]]
<1>1. \A i \in 1 .. n : s[n + 1 - i] \in Numeral
  OBVIOUS
<1>2. t \in [1 .. n -> Numeral]
  BY <1>1
<1>3. t \in Seq(Numeral) /\ Len(t) = n /\ \A i \in 1 .. n : t[i] = s[n + 1 - i]
  BY <1>2
<1>4. t = stringReverse(s)
  BY DEF stringReverse
<1>5. QED
  BY <1>3, <1>4

\* One more digit is put in front of the others.
LEMMA DigitIsAdded ==
    ASSUME NEW s \in Seq(Numeral), NEW n \in Nat, n = Len(s), NEW d \in Numeral
    PROVE  /\ Denoted(stringReverse(s), Base) \in Int
           /\ Denoted(stringReverse(Append(s, d)), Base)
                  = d * Power(Base, n) + Denoted(stringReverse(s), Base)
<1>1. PICK a \in Seq(Numeral) : /\ a = Append(s, d) /\ Len(a) = n + 1 /\ a[n + 1] = d
                                 /\ \A i \in 1 .. n : a[i] = s[i]
  <2>1. /\ Append(s, d) \in Seq(Numeral) /\ Len(Append(s, d)) = n + 1 /\ Append(s, d)[n + 1] = d
        /\ \A i \in 1 .. n : Append(s, d)[i] = s[i]
    OBVIOUS
  <2>2. QED
    BY <2>1
<1>2. PICK back \in Seq(Numeral) : /\ back = stringReverse(s) /\ Len(back) = n
                                    /\ \A i \in 1 .. n : back[i] = s[n + 1 - i]
  BY ReversedIs
<1>3. PICK all \in Seq(Numeral) : /\ all = stringReverse(a) /\ Len(all) = n + 1
                                   /\ \A i \in 1 .. n + 1 : all[i] = a[(n + 1) + 1 - i]
  <2>1. n + 1 \in Nat
    OBVIOUS
  <2>2. QED
    BY <1>1, <2>1, ReversedIs
<1>4. PICK front \in Seq(Numeral) : front = <<d>> /\ Len(front) = 1 /\ front[1] = d
  <2>1. <<d>> \in Seq(Numeral) /\ Len(<<d>>) = 1 /\ <<d>>[1] = d
    OBVIOUS
  <2>2. QED
    BY <2>1
<1>5. InParts(all, front, 1, back, n)
  <2>1. 1 + n \in Nat /\ 1 + n = n + 1
    OBVIOUS
  <2>2. DigitsIn(all, 1 + n, Int)
    BY <1>3, <2>1, NumeralsAre
  <2>3. \A k \in 1 .. 1 : front[k] = all[k]
    <3>1. 1 \in 1 .. n + 1 /\ (n + 1) + 1 - 1 = n + 1
      OBVIOUS
    <3>2. all[1] = d
      BY <1>1, <1>3, <3>1
    <3>3. QED
      BY <1>4, <3>2
  <2>4. \A k \in 1 .. n : back[k] = all[1 + k]
    <3> SUFFICES ASSUME NEW k \in 1 .. n
                 PROVE  back[k] = all[1 + k]
      OBVIOUS
    <3>1. 1 + k \in 1 .. n + 1 /\ (n + 1) + 1 - (1 + k) = n + 1 - k /\ n + 1 - k \in 1 .. n
      OBVIOUS
    <3>2. all[1 + k] = a[n + 1 - k]
      BY <1>3, <3>1
    <3>3. QED
      BY <1>1, <1>2, <3>1, <3>2
  <2>5. QED
    BY <1>2, <1>4, <2>2, <2>3, <2>4 DEF InParts
<1>6. /\ Denoted(back, Base) \in Int
      /\ Denoted(all, Base) = Denoted(front, Base) * Power(Base, n) + Denoted(back, Base)
  <2>1. Base \in Nat /\ 1 \in Nat
    BY BaseIs
  <2>2. QED
    BY <1>5, <2>1, DenotedInParts
<1>7. Denoted(front, Base) = d
  BY <1>4, OneDigit
<1>8. QED
  BY <1>1, <1>2, <1>3, <1>6, <1>7

\* A digit taken off what is left, and put in front of those that are written.
LEMMA DigitMoves ==
    ASSUME NEW q \in Int, NEW b \in Int, NEW d \in Int, NEW p \in Int, NEW e \in Int
    PROVE  (q * b + d) * p + e = q * (b * p) + (d * p + e)
OBVIOUS

\* The powers of the base do not decrease.
LEMMA PowersCompare ==
    ASSUME NEW m \in Nat, NEW n \in Nat, m <= n
    PROVE  Power(Base, m) \in Nat /\ Power(Base, n) \in Nat /\ Power(Base, m) <= Power(Base, n)
<1>1. Base \in Nat /\ Base >= 1 /\ Base \in Int
  BY BaseIs
<1>2. PICK k \in Nat : n = m + k
  <2>1. n - m \in Nat /\ n = m + (n - m)
    OBVIOUS
  <2>2. QED
    BY <2>1
<1>3. PICK p \in Nat, f \in Nat : p = Power(Base, m) /\ f = Power(Base, k) /\ f >= 1
  BY <1>1, PowerIsPositive
<1>4. Power(Base, n) = p * f
  BY <1>1, <1>2, <1>3, PowerOfSum
<1>5. f * p \in Nat /\ f * p >= p
  BY <1>3, ProductGrows
<1>6. p * f = f * p
  BY <1>3
<1>7. QED
  BY <1>3, <1>4, <1>5, <1>6

\* A number with n digits, the first of them not zero, is at least the power of n - 1.
LEMMA FirstDigitWeighs ==
    ASSUME NEW src, Written(src), NotNought(src), NEW n \in Nat, Len(src) = n + 1
    PROVE  Denoted(src, Base) \in Nat /\ Denoted(src, Base) >= Power(Base, n)
<1>1. src \in Seq(Numeral)
  BY DEF Written
<1>2. PICK d \in Numeral : d = src[1] /\ d \in Nat /\ d # 0
  <2>1. src[1] # 0
    <3>1. CASE n = 0
      <4>1. Len(src) = 1
        BY <3>1
      <4>2. src = <<src[1]>>
        BY <4>1, AloneIs
      <4>3. QED
        BY <4>2 DEF NotNought
    <3>2. CASE n # 0
      BY <3>2 DEF Written
    <3>3. QED
      BY <3>1, <3>2
  <2>2. src[1] \in Numeral
    BY <1>1
  <2>3. QED
    BY <2>1, <2>2, PointIsNoDigit
<1>3. PICK front \in Seq(Numeral) : front = <<d>> /\ Len(front) = 1 /\ front[1] = d
  <2>1. <<d>> \in Seq(Numeral) /\ Len(<<d>>) = 1 /\ <<d>>[1] = d
    OBVIOUS
  <2>2. QED
    BY <2>1
<1>4. PICK back \in Seq(Numeral) : Len(back) = n /\ \A k \in 1 .. n : back[k] = src[1 + k]
  <2>1. /\ Tail(src) \in Seq(Numeral) /\ Len(Tail(src)) = n
        /\ \A k \in 1 .. n : Tail(src)[k] = src[1 + k]
    BY <1>1
  <2>2. QED
    BY <2>1
<1>5. InParts(src, front, 1, back, n)
  <2>1. 1 + n \in Nat /\ Len(src) = 1 + n
    OBVIOUS
  <2>2. DigitsIn(src, 1 + n, Int)
    BY <1>1, <2>1, NumeralsAre
  <2>3. \A k \in 1 .. 1 : front[k] = src[k]
    BY <1>2, <1>3
  <2>4. QED
    BY <1>3, <1>4, <2>2, <2>3 DEF InParts
<1>6. Base \in Nat /\ Base >= 1 /\ 1 \in Nat
  BY BaseIs
<1>7. Denoted(src, Base) = Denoted(front, Base) * Power(Base, n) + Denoted(back, Base)
  BY <1>5, <1>6, DenotedInParts
<1>8. Denoted(front, Base) = d
  BY <1>3, OneDigit
<1>9. Denoted(back, Base) \in Nat
  <2>1. DigitsIn(back, n, 0 .. Base - 1)
    BY <1>4, NumeralsAre DEF Numeral
  <2>2. Denoted(back, Base) \in 0 .. Power(Base, n) - 1
    BY <1>6, <2>1, DenotedIsBelow
  <2>3. QED
    BY <2>2
<1>10. PICK p \in Nat : p = Power(Base, n)
  BY <1>6, PowerIsPositive
<1>11. d * p \in Nat /\ d * p >= p
  BY <1>2, ProductGrows
<1>12. QED
  BY <1>7, <1>8, <1>9, <1>10, <1>11

-----------------------------------------------------------------------------
(* Amounts as they are written *)

\* What is left of the number, and the digits that are taken off it.
NumberSplits ==
    Value256(number) = Value256(rDiv) * Power(Base, Len(tmp)) + Denoted(stringReverse(tmp), Base)

\* uint256ToString writes digits until nothing is left, and at least one.
DigitsAreDue ==
    /\ phase = "idle" => tmp = <<>>
    /\ phase = "digits" => tmp = <<>> \/ Value256(rDiv) >= 1
    /\ phase \in {"adjust", "shown"} => Value256(rDiv) = 0 /\ Written(stringReverse(tmp))

\* adjustDecimals has made the text of them.
TextIsMade == phase = "shown" => out = TextOf(stringReverse(tmp))

WritingInv == AmountsTypeOK /\ NumberSplits /\ DigitsAreDue /\ TextIsMade /\ PayableIsShown

\* No digits denote nothing.
LEMMA NoDigits ==
    /\ stringReverse(<<>>) = <<>> /\ Denoted(stringReverse(<<>>), Base) = 0
    /\ Len(<<>>) = 0 /\ Power(Base, 0) = 1
<1>1. <<>> \in Seq(Numeral) /\ Len(<<>>) = 0 /\ 0 \in Nat
  OBVIOUS
<1>2. stringReverse(<<>>) \in Seq(Numeral) /\ Len(stringReverse(<<>>)) = 0
  BY <1>1, ReversedIs
<1>3. stringReverse(<<>>) = <<>>
  BY <1>2
<1>4. DigitsIn(<<>>, 0, {0})
  BY <1>1 DEF DigitsIn
<1>5. Base \in Nat /\ Base \in Int
  BY BaseIs
<1>6. Denoted(<<>>, Base) = 0
  BY <1>1, <1>4, <1>5, ZeroesDenoteNothing
<1>7. Power(Base, 0) = 1
  BY <1>1, <1>5, PowerSteps
<1>8. QED
  BY <1>1, <1>3, <1>6, <1>7

\* A number none of which is written.
LEMMA NothingWritten ==
    ASSUME NEW n \in UInt256
    PROVE  Value256(n) = Value256(n) * Power(Base, Len(<<>>)) + Denoted(stringReverse(<<>>), Base)
<1>1. PICK v \in Nat : v = Value256(n)
  BY Value256IsSmall
<1>2. v = v * 1 + 0
  OBVIOUS
<1>3. QED
  BY <1>1, <1>2, NoDigits

\* At first nothing is written.
LEMMA WritingStarts == Init => WritingInv
<1> SUFFICES ASSUME Init
             PROVE  WritingInv
  OBVIOUS
<1>1. /\ phase = "idle" /\ fields = <<>> /\ number = Zero256 /\ rDiv = Zero256
      /\ tmp = <<>> /\ outSize = 0 /\ out = <<>>
  BY DEF Init, Idle
<1>2. AmountsTypeOK
  BY <1>1, ZeroIs256, SizesAreNumbers, NoDigits DEF AmountsTypeOK
<1>3. NumberSplits
  BY <1>1, ZeroIs256, NothingWritten DEF NumberSplits
<1>4. DigitsAreDue /\ TextIsMade /\ PayableIsShown
  BY <1>1 DEF DigitsAreDue, TextIsMade, PayableIsShown
<1>5. QED
  BY <1>2, <1>3, <1>4 DEF WritingInv

\* txGetFormattedAmount and txGetFormattedFee: a number is given to uint256ToString.
LEMMA WriteKeeps ==
    ASSUME WritingInv, NEW n \in UInt256, NEW of \in Seq(Values \cup Prices \cup Volumes),
           Write(n, of)
    PROVE  WritingInv'
<1>1. /\ phase = "idle" /\ phase' = "digits" /\ fields' = of /\ number' = n /\ rDiv' = n
      /\ tmp' = tmp /\ outSize' = outSize /\ out' = out
  BY DEF Write
<1>2. tmp = <<>>
  BY <1>1 DEF WritingInv, DigitsAreDue
<1>3. AmountsTypeOK'
  <2>1. /\ tmp \in Seq(0 .. Base - 1) /\ Len(tmp) <= TmpSize
        /\ outSize \in OutSizes \cup {0}
        /\ out \in Seq(0 .. Base - 1 \cup {Point})
    BY DEF WritingInv, AmountsTypeOK
  <2>2. QED
    BY <1>1, <2>1 DEF AmountsTypeOK
<1>4. NumberSplits'
  BY <1>1, <1>2, NothingWritten DEF NumberSplits
<1>5. DigitsAreDue' /\ TextIsMade' /\ PayableIsShown'
  BY <1>1, <1>2 DEF DigitsAreDue, TextIsMade, PayableIsShown
<1>6. QED
  BY <1>3, <1>4, <1>5 DEF WritingInv

\* uint256ToString breaks off only for a number with more digits than tmp has places.
LEMMA RunOutKeeps ==
    ASSUME WritingInv, RunOutOfSpace
    PROVE  WritingInv'
<1>1. /\ phase = "digits" /\ Len(tmp) > TmpSize - 1 /\ phase' = "rejected"
      /\ fields' = fields /\ number' = number /\ rDiv' = rDiv /\ tmp' = tmp
      /\ outSize' = outSize /\ out' = out
  BY DEF RunOutOfSpace
<1>2. /\ AmountsTypeOK /\ NumberSplits /\ DigitsAreDue
      /\ number \in UInt256 /\ rDiv \in UInt256 /\ tmp \in Seq(Numeral) /\ Len(tmp) <= TmpSize
  BY DEF WritingInv, AmountsTypeOK, Numeral
<1>3. AmountsTypeOK'
  BY <1>1, <1>2 DEF AmountsTypeOK
<1>4. NumberSplits' /\ DigitsAreDue' /\ TextIsMade'
  BY <1>1, <1>2 DEF NumberSplits, DigitsAreDue, TextIsMade
<1>5. PICK n \in Nat : n = Len(tmp) /\ n = TmpSize /\ n >= 1
  <2>1. Len(tmp) \in Nat
    BY <1>2
  <2>2. QED
    BY <1>1, <1>2, <2>1, SizesAreNumbers
<1>6. Value256(rDiv) >= 1
  <2>1. Len(tmp) # 0
    BY <1>5
  <2>2. tmp # <<>>
    BY <2>1, NoDigits, Zenon
  <2>3. QED
    BY <1>1, <1>2, <2>2 DEF DigitsAreDue
<1>7. PICK v \in Nat : v = Value256(rDiv) /\ v >= 1
  BY <1>2, <1>6, Value256IsSmall
<1>8. PICK p \in Nat : p = Power(Base, n)
  BY BaseIs, PowerIsPositive
<1>9. PICK e \in Nat : e = Denoted(stringReverse(tmp), Base)
  <2>1. stringReverse(tmp) \in Seq(Numeral) /\ Len(stringReverse(tmp)) = n
    BY <1>2, <1>5, ReversedIs
  <2>2. DigitsIn(stringReverse(tmp), n, 0 .. Base - 1)
    BY <2>1, NumeralsAre DEF Numeral
  <2>3. Base \in Nat /\ Base >= 1
    BY BaseIs
  <2>4. Denoted(stringReverse(tmp), Base) \in 0 .. Power(Base, n) - 1
    BY <2>2, <2>3, DenotedIsBelow
  <2>5. Denoted(stringReverse(tmp), Base) \in Nat
    BY <1>8, <2>4
  <2>6. QED
    BY <2>5
<1>10. Value256(number) = v * p + e
  BY <1>2, <1>5, <1>7, <1>8, <1>9, Zenon DEF NumberSplits
<1>11. v * p \in Nat /\ v * p >= p
  BY <1>7, ProductGrows
<1>12. Value256(number) >= Power(Base, TmpSize)
  <2>1. v * p + e >= p
    BY <1>11
  <2>2. Power(Base, TmpSize) = p
    BY <1>5, <1>8
  <2>3. QED
    BY <1>10, <2>1, <2>2
<1>13. PayableIsShown'
  BY <1>1, <1>12 DEF PayableIsShown
<1>14. QED
  BY <1>3, <1>4, <1>13 DEF WritingInv

\* A turn of the loop of uint256ToString.
LEMMA NextDigitKeeps ==
    ASSUME WritingInv, NextDigit
    PROVE  WritingInv'
<1>1. /\ AmountsTypeOK /\ NumberSplits /\ DigitsAreDue
      /\ number \in UInt256 /\ rDiv \in UInt256 /\ tmp \in Seq(Numeral)
  BY DEF WritingInv, AmountsTypeOK, Numeral
<1>2. PICK q, d :
          /\ q = divMod256(rDiv, BaseNumber).div /\ d = Digit(divMod256(rDiv, BaseNumber).mod)
          /\ tmp' = Append(tmp, d) /\ rDiv' = q
          /\ phase' = IF isZero256(q) THEN "adjust" ELSE "digits"
  BY Zenon DEF NextDigit
<1>3. /\ phase = "digits" /\ Len(tmp) <= TmpSize - 1
      /\ fields' = fields /\ number' = number /\ outSize' = outSize /\ out' = out
  BY DEF NextDigit
<1>4. q \in UInt256 /\ Value256(q) = Value256(rDiv) \div Base /\ d = Value256(rDiv) % Base
  BY <1>1, <1>2, DigitTaken, Zenon
<1>5. PICK v \in Nat, x \in Nat : v = Value256(rDiv) /\ x = Value256(q)
  BY <1>1, <1>4, Value256IsSmall
<1>6. /\ d \in Numeral /\ d \in Nat /\ x = v \div Base /\ d = v % Base /\ v = x * Base + d
  <2>1. x = v \div Base /\ d = v % Base
    BY <1>4, <1>5, Zenon
  <2>2. v \in Int /\ Base \in Nat /\ Base >= 1
    BY BaseIs
  <2>3. v % Base \in 0 .. Base - 1 /\ v = (v \div Base) * Base + (v % Base)
    BY <2>2, Divided
  <2>4. d \in Numeral
    BY <2>1, <2>3 DEF Numeral
  <2>5. v = x * Base + d
    BY <2>1, <2>3, Zenon
  <2>6. QED
    BY <2>1, <2>4, <2>5, PointIsNoDigit
<1>7. PICK n \in Nat : n = Len(tmp)
  BY <1>1
<1>8. tmp' \in Seq(Numeral) /\ Len(tmp') = n + 1 /\ tmp'[n + 1] = d
  BY <1>1, <1>2, <1>6, <1>7
<1>9. AmountsTypeOK'
  <2>1. Len(tmp') <= TmpSize
    BY <1>3, <1>7, <1>8, SizesAreNumbers
  <2>2. phase' \in {"idle", "digits", "adjust", "shown", "rejected"}
    BY <1>2
  <2>3. rDiv' \in UInt256 /\ number' \in UInt256 /\ tmp' \in Seq(0 .. Base - 1)
    BY <1>1, <1>2, <1>3, <1>4, <1>8 DEF Numeral
  <2>4. /\ fields' \in Seq(Values \cup Prices \cup Volumes)
        /\ outSize' \in OutSizes \cup {0}
        /\ out' \in Seq(0 .. Base - 1 \cup {Point})
    BY <1>1, <1>3 DEF AmountsTypeOK
  <2>5. QED
    BY <2>1, <2>2, <2>3, <2>4 DEF AmountsTypeOK
<1>10. NumberSplits'
  <2>1. PICK p \in Nat : p = Power(Base, n) /\ Power(Base, n + 1) = Base * p
    <3>1. Base \in Nat /\ Base >= 1 /\ Base \in Int
      BY BaseIs
    <3>2. Power(Base, n) \in Nat
      BY <3>1, PowerIsPositive
    <3>3. Power(Base, n + 1) = Base * Power(Base, n)
      BY <3>1, PowerSteps
    <3>4. QED
      BY <3>2, <3>3
  <2>2. PICK e, g : /\ e \in Int /\ e = Denoted(stringReverse(tmp), Base)
                    /\ g = Denoted(stringReverse(tmp'), Base) /\ g = d * p + e
    BY <1>1, <1>2, <1>6, <1>7, <2>1, DigitIsAdded
  <2>3. Value256(number) = v * p + e
    BY <1>1, <1>5, <1>7, <2>1, <2>2, Zenon DEF NumberSplits
  <2>4. (x * Base + d) * p + e = x * (Base * p) + (d * p + e)
    <3>1. x \in Int /\ Base \in Int /\ d \in Int /\ p \in Int /\ e \in Int
      BY <1>6, <2>2, BaseIs
    <3>2. QED
      BY <3>1, DigitMoves
  <2>5. Value256(number) = x * (Base * p) + g
    BY <1>6, <2>2, <2>3, <2>4, Zenon
  <2>6. Value256(number') = Value256(rDiv') * Power(Base, Len(tmp')) + g
    BY <1>2, <1>3, <1>5, <1>8, <2>1, <2>5, Zenon
  <2>7. QED
    BY <2>2, <2>6, Zenon DEF NumberSplits
<1>11. DigitsAreDue'
  <2>1. CASE isZero256(q)
    <3>1. phase' = "adjust"
      BY <1>2, <2>1
    <3>2. x = 0
      BY <1>4, <1>5, <2>1, ZeroIsNought
    <3>3. n > 0 => d # 0
      <4> SUFFICES ASSUME n > 0
                   PROVE  d # 0
        OBVIOUS
      <4>1. tmp # <<>>
        BY <1>7, NoDigits
      <4>2. v >= 1
        BY <1>1, <1>3, <1>5, <4>1 DEF DigitsAreDue
      <4>3. v = d
        BY <1>6, <3>2, BaseIs
      <4>4. QED
        BY <4>2, <4>3
    <3>4. PICK src \in Seq(Numeral) : /\ src = stringReverse(tmp') /\ Len(src) = n + 1
                                       /\ src[1] = d
      <4>1. n + 1 \in Nat /\ 1 \in 1 .. n + 1 /\ n + 1 + 1 - 1 = n + 1
        OBVIOUS
      <4>2. /\ stringReverse(tmp') \in Seq(Numeral) /\ Len(stringReverse(tmp')) = n + 1
            /\ stringReverse(tmp')[1] = tmp'[n + 1 + 1 - 1]
        BY <1>8, <4>1, ReversedIs
      <4>3. QED
        BY <1>8, <4>1, <4>2
    <3>5. Written(src)
      BY <3>3, <3>4 DEF Written
    <3>6. Value256(rDiv') = 0
      BY <1>2, <1>5, <3>2
    <3>7. QED
      BY <3>1, <3>4, <3>5, <3>6 DEF DigitsAreDue
  <2>2. CASE ~isZero256(q)
    <3>1. phase' = "digits"
      BY <1>2, <2>2
    <3>2. x # 0
      BY <1>4, <1>5, <2>2, ZeroIsNought
    <3>3. Value256(rDiv') >= 1
      BY <1>2, <1>5, <3>2
    <3>4. QED
      BY <3>1, <3>3 DEF DigitsAreDue
  <2>3. QED
    BY <2>1, <2>2
<1>12. TextIsMade' /\ PayableIsShown'
  BY <1>2 DEF TextIsMade, PayableIsShown
<1>13. QED
  BY <1>9, <1>10, <1>11, <1>12 DEF WritingInv

\* adjustDecimals refuses only digits that a buffer has no room for.
LEMMA RefusedIsLarge ==
    ASSUME NEW src, Written(src), NEW size \in OutSizes, ~Adjustable(src, size)
    PROVE  size # 0 /\ Denoted(src, Base) >= Power(Base, size - 3)
<1>1. size \in Nat /\ Decimals \in Nat /\ size > Decimals + 3
  BY SizesAreNumbers, RoomAssumption
<1>2. src # <<0>> /\ ~(size > Needed(src))
  BY <1>1 DEF Adjustable
<1>3. PICK n \in Nat : Len(src) = n + 1
  <2>1. Len(src) \in Nat /\ Len(src) >= 1
    BY DEF Written
  <2>2. Len(src) - 1 \in Nat /\ Len(src) = (Len(src) - 1) + 1
    BY <2>1
  <2>3. QED
    BY <2>2
<1>4. ~(n + 1 <= Decimals) /\ Needed(src) = n + 1 + 1 + 1
  BY <1>1, <1>2, <1>3 DEF Needed
<1>5. size - 3 \in Nat /\ size - 3 <= n /\ size # 0
  BY <1>1, <1>2, <1>4
<1>6. Denoted(src, Base) \in Nat /\ Denoted(src, Base) >= Power(Base, n)
  BY <1>2, <1>3, FirstDigitWeighs DEF NotNought
<1>7. /\ Power(Base, size - 3) \in Nat /\ Power(Base, n) \in Nat
      /\ Power(Base, size - 3) <= Power(Base, n)
  BY <1>5, PowersCompare
<1>8. PICK x \in Nat, y \in Nat, z \in Nat :
          /\ x = Denoted(src, Base) /\ y = Power(Base, n) /\ z = Power(Base, size - 3)
          /\ x >= y /\ z <= y
  BY <1>6, <1>7
<1>9. x >= z
  BY <1>8
<1>10. QED
  BY <1>5, <1>8, <1>9

\* When the digits are complete they denote the number.
LEMMA CompleteDigits ==
    ASSUME WritingInv, phase \in {"adjust", "shown"}
    PROVE  /\ Written(stringReverse(tmp))
           /\ Value256(number) = Denoted(stringReverse(tmp), Base)
<1>1. Value256(rDiv) = 0 /\ Written(stringReverse(tmp)) /\ tmp \in Seq(Numeral)
  BY DEF WritingInv, DigitsAreDue, AmountsTypeOK, Numeral
<1>2. PICK n \in Nat : n = Len(tmp)
  BY <1>1
<1>3. PICK p \in Nat : p = Power(Base, n)
  BY BaseIs, PowerIsPositive
<1>4. Value256(number) = 0 * p + Denoted(stringReverse(tmp), Base)
  BY <1>1, <1>2, <1>3, Zenon DEF WritingInv, NumberSplits
<1>5. PICK e \in Int : e = Denoted(stringReverse(tmp), Base)
  <2>1. stringReverse(tmp) \in Seq(Numeral) /\ Len(stringReverse(tmp)) = n
    BY <1>1, <1>2, ReversedIs
  <2>2. DigitsIn(stringReverse(tmp), n, 0 .. Base - 1)
    BY <2>1, NumeralsAre DEF Numeral
  <2>3. Base \in Nat /\ Base >= 1
    BY BaseIs
  <2>4. Denoted(stringReverse(tmp), Base) \in 0 .. Power(Base, n) - 1
    BY <2>2, <2>3, DenotedIsBelow
  <2>5. QED
    BY <2>4
<1>6. 0 * p + e = e
  OBVIOUS
<1>7. QED
  BY <1>1, <1>4, <1>5, <1>6

\* adjustDecimals.
LEMMA AdjustKeeps ==
    ASSUME WritingInv, Adjust
    PROVE  WritingInv'
<1>1. /\ AmountsTypeOK /\ NumberSplits /\ DigitsAreDue
  BY DEF WritingInv
<1>2. PICK src : src = stringReverse(tmp)
  OBVIOUS
<1>3. /\ phase = "adjust" /\ fields' = fields /\ number' = number /\ rDiv' = rDiv /\ tmp' = tmp
  BY DEF Adjust
<1>4. PICK size \in OutSizes :
          /\ outSize' = size
          /\ phase' = IF Adjustable(src, size) THEN "shown" ELSE "rejected"
          /\ out' = IF ~Adjustable(src, size) THEN <<>> ELSE TextOf(src)
  <2>1. \E size \in OutSizes :
            /\ outSize' = size
            /\ phase' = IF Adjustable(src, size) THEN "shown" ELSE "rejected"
            /\ out' = IF ~Adjustable(src, size) THEN <<>>
                      ELSE IF src = <<0>> THEN <<0>>
                      ELSE Trimmed(Spread(src), StartOffset(src))
    BY <1>2, Zenon DEF Adjust
  <2>2. TextOf(src) = IF src = <<0>> THEN <<0>> ELSE Trimmed(Spread(src), StartOffset(src))
    BY Zenon DEF TextOf
  <2>3. QED
    BY <2>1, <2>2
<1>5. Written(src) /\ Value256(number) = Denoted(src, Base) /\ Value256(rDiv) = 0
  <2>1. phase \in {"adjust", "shown"}
    BY <1>3
  <2>2. QED
    BY <1>1, <1>2, <2>1, CompleteDigits DEF DigitsAreDue
<1>6. AmountsTypeOK'
  <2>1. TextOf(src) \in Seq(TextCharacter) /\ <<>> \in Seq(TextCharacter)
    BY <1>5, TextIsLaidOut
  <2>2. out' \in Seq(0 .. Base - 1 \cup {Point})
    BY <1>4, <2>1 DEF TextCharacter, Numeral
  <2>3. /\ outSize' \in OutSizes \cup {0}
        /\ phase' \in {"idle", "digits", "adjust", "shown", "rejected"}
    BY <1>4
  <2>4. QED
    BY <1>1, <1>3, <2>2, <2>3 DEF AmountsTypeOK
<1>7. NumberSplits'
  BY <1>1, <1>3 DEF NumberSplits
<1>8. DigitsAreDue'
  <2>1. phase' # "idle" /\ phase' # "digits"
    BY <1>4
  <2>2. QED
    BY <1>2, <1>3, <1>5, <2>1 DEF DigitsAreDue
<1>9. TextIsMade'
  BY <1>2, <1>3, <1>4 DEF TextIsMade
<1>10. PayableIsShown'
  <2> SUFFICES ASSUME phase' = "rejected"
               PROVE  outSize' # 0 /\ Value256(number') >= Power(Base, outSize' - 3)
    BY DEF PayableIsShown
  <2>1. ~Adjustable(src, size)
    BY <1>4
  <2>2. size # 0 /\ Denoted(src, Base) >= Power(Base, size - 3)
    BY <1>5, <2>1, RefusedIsLarge
  <2>3. QED
    BY <1>3, <1>4, <1>5, <2>2
<1>11. QED
  BY <1>6, <1>7, <1>8, <1>9, <1>10 DEF WritingInv

\* The buffers are given back.
LEMMA ReturnKeeps ==
    ASSUME Return
    PROVE  WritingInv'
<1>1. /\ phase' = "idle" /\ fields' = <<>> /\ number' = Zero256 /\ rDiv' = Zero256
      /\ tmp' = <<>> /\ outSize' = 0 /\ out' = <<>>
  BY DEF Return
<1>2. AmountsTypeOK'
  BY <1>1, ZeroIs256, SizesAreNumbers, NoDigits DEF AmountsTypeOK
<1>3. NumberSplits'
  BY <1>1, ZeroIs256, NothingWritten DEF NumberSplits
<1>4. DigitsAreDue' /\ TextIsMade' /\ PayableIsShown'
  BY <1>1 DEF DigitsAreDue, TextIsMade, PayableIsShown
<1>5. QED
  BY <1>2, <1>3, <1>4 DEF WritingInv

\* Every action keeps the invariant.
LEMMA WritingStep == WritingInv /\ [Next]_cvars => WritingInv'
<1> SUFFICES ASSUME WritingInv, [Next]_cvars
             PROVE  WritingInv'
  OBVIOUS
<1>1. CASE txGetFormattedAmount
  <2>1. PICK value \in Values : Write(uint256ConvertBE(value), <<value>>)
    BY <1>1, Zenon DEF txGetFormattedAmount
  <2>2. uint256ConvertBE(value) \in UInt256
    BY FieldsAre
  <2>3. <<value>> \in Seq(Values \cup Prices \cup Volumes)
    OBVIOUS
  <2>4. QED
    BY <2>1, <2>2, <2>3, WriteKeeps
<1>2. CASE txGetFormattedFee
  <2>1. PICK price \in Prices, volume \in Volumes :
            Write(mul256(uint256ConvertBE(price), uint256ConvertBE(volume)), <<price, volume>>)
    BY <1>2, Zenon DEF txGetFormattedFee
  <2>2. uint256ConvertBE(price) \in UInt256 /\ uint256ConvertBE(volume) \in UInt256
    BY FieldsAre
  <2>3. mul256(uint256ConvertBE(price), uint256ConvertBE(volume)) \in UInt256
    BY <2>2, ProductIsModularButForCarry
  <2>4. <<price, volume>> \in Seq(Values \cup Prices \cup Volumes)
    OBVIOUS
  <2>5. QED
    BY <2>1, <2>3, <2>4, WriteKeeps
<1>3. CASE RunOutOfSpace
  BY <1>3, RunOutKeeps
<1>4. CASE NextDigit
  BY <1>4, NextDigitKeeps
<1>5. CASE Adjust
  BY <1>5, AdjustKeeps
<1>6. CASE Return
  BY <1>6, ReturnKeeps
<1>7. ASSUME UNCHANGED avars
      PROVE  WritingInv'
  <2>1. /\ phase' = phase /\ fields' = fields /\ number' = number /\ rDiv' = rDiv
        /\ tmp' = tmp /\ outSize' = outSize /\ out' = out
    BY <1>7 DEF avars
  <2>2. AmountsTypeOK'
    BY <2>1 DEF WritingInv, AmountsTypeOK
  <2>3. NumberSplits' /\ DigitsAreDue' /\ TextIsMade' /\ PayableIsShown'
    BY <2>1 DEF WritingInv, NumberSplits, DigitsAreDue, TextIsMade, PayableIsShown
  <2>4. QED
    BY <2>2, <2>3 DEF WritingInv
<1>8. CASE UNCHANGED cvars
  <2>1. UNCHANGED avars
    BY <1>8 DEF cvars, avars
  <2>2. QED
    BY <1>7, <2>1
<1>9. QED
  BY <1>1, <1>2, <1>3, <1>4, <1>5, <1>6, <1>7, <1>8 DEF Next, AmountsNext

\* So it holds in every state.
LEMMA WritingHolds == Spec => []WritingInv
<1>1. Init => WritingInv
  BY WritingStarts
<1>2. WritingInv /\ [Next]_cvars => WritingInv'
  BY WritingStep
<1>3. QED
  BY <1>1, <1>2, PTL DEF Spec

\* What is shown reads as the number.
LEMMA TextReads == WritingInv => TextDenotesNumber
<1> SUFFICES ASSUME WritingInv, phase = "shown"
             PROVE  TextDenotesNumber
  BY DEF TextDenotesNumber
<1>1. PICK src : src = stringReverse(tmp)
  OBVIOUS
<1>2. Written(src) /\ Value256(number) = Denoted(src, Base) /\ out = TextOf(src)
  BY <1>1, CompleteDigits DEF WritingInv, TextIsMade
<1>3. PICK full : ReadsAs(out, full) /\ Denoted(full, Base) = Denoted(src, Base)
  <2>1. src \in Seq(Numeral) /\ Len(src) \in Nat
    BY <1>2 DEF Written
  <2>2. Denoted(Full(src), Base) = Denoted(src, Base)
    BY <2>1, FullIsSameNumber
  <2>3. QED
    BY <1>2, <2>2, TextIsLaidOut
<1>4. Value256(number) = Denoted(full, Base)
  BY <1>2, <1>3
<1>5. QED
  BY <1>3, <1>4 DEF ReadsAs, TextDenotesNumber

\* uint256ToString: the digits of every number are those of the base, and never what lies
\* beyond HEXDIGITS.
THEOREM AmountsAreTyped == Spec => []AmountsTypeOK
<1>1. WritingInv => AmountsTypeOK
  BY DEF WritingInv
<1>2. QED
  BY <1>1, WritingHolds, PTL

\* uint256ToString and adjustDecimals: the text on the screen is the one way to write the
\* number of the transaction in units of an FTM, for every base, number of places and size
\* of the buffers.
THEOREM TextsDenoteNumbers == Spec => []TextDenotesNumber
<1>1. QED
  BY TextReads, WritingHolds, PTL

\* A review is broken off only for a number that is too large for one of the buffers.
THEOREM PayableAmountsAreShown == Spec => []PayableIsShown
<1>1. WritingInv => PayableIsShown
  BY DEF WritingInv
<1>2. QED
  BY <1>1, WritingHolds, PTL

\* The number a text stands for, in units of Base^-Decimals.
ReadNumber(text) ==
    LET whole    == SubSeq(text, 1, PointAt(text) - 1)
        fraction == SubSeq(text, PointAt(text) + 1, Len(text))
    IN  Denoted(whole \o fraction \o Zeroes(Decimals - Len(fraction)), Base)

\* An amount, and a fee whose price and volume fit in a word, are shown as they are on
\* the wire.
ScreenTellsWire ==
    phase = "shown" =>
        /\ Len(fields) = 1 => ReadNumber(out) = OnWire(fields[1])
        /\ Len(fields) = 2 /\ OnWire(fields[1]) < Word /\ OnWire(fields[2]) < Word =>
               ReadNumber(out) = OnWire(fields[1]) * OnWire(fields[2])

\* What is on the wire is a number.
LEMMA OnWireIsNat ==
    ASSUME NEW field \in Values \cup Prices \cup Volumes
    PROVE  OnWire(field) \in Nat
<1>1. PICK n \in UInt256 : Value256(n) = OnWire(field)
  BY FieldsAre
<1>2. QED
  BY <1>1, Value256IsSmall

\* The product of two words has 256 bits, and more than it needs.
LEMMA ProductOfWordsFits ==
    ASSUME NEW p \in Nat, p < Word, NEW v \in Nat, v < Word
    PROVE  (p * v) % Modulus = p * v
<1>1. PICK W \in Nat : W = Word /\ W >= 1
  BY WordIsNat
<1>2. p * v <= p * W /\ p * W <= W * W /\ p * v \in Nat /\ p * W \in Nat
  <2>1. v <= W /\ p <= W
    BY <1>1
  <2>2. v * p <= W * p
    BY <1>1, <2>1, FactorsCompare
  <2>3. p * W <= W * W
    BY <1>1, <2>1, FactorsCompare
  <2>4. v * p = p * v /\ W * p = p * W
    BY <1>1
  <2>5. QED
    BY <1>1, <2>2, <2>3, <2>4
<1>3. PICK S \in Nat : S = W * W /\ S >= 1
  <2>1. W * W \in Nat /\ W * W >= W
    BY <1>1, ProductGrows
  <2>2. QED
    BY <1>1, <2>1
<1>4. p * v < S
  <2>1. CASE p = 0
    BY <1>3, <2>1
  <2>2. CASE p # 0
    <3>1. v * p < W * p
      BY <1>1, <2>2, FactorsCompare
    <3>2. v * p = p * v /\ W * p = p * W
      BY <1>1
    <3>3. PICK x \in Nat, y \in Nat : x = p * v /\ y = p * W
      BY <1>2
    <3>4. x < y /\ y <= S
      BY <1>2, <1>3, <3>1, <3>2, <3>3
    <3>5. QED
      BY <3>3, <3>4
  <2>3. QED
    BY <2>1, <2>2
<1>5. Modulus = S * S
  <2>1. W * W * W * W = (W * W) * (W * W)
    BY <1>1
  <2>2. QED
    BY <1>1, <1>3, <2>1 DEF Modulus
<1>6. S * S \in Nat /\ S * S >= S
  BY <1>3, ProductGrows
<1>7. PICK M \in Nat, x \in Nat : M = Modulus /\ x = p * v /\ x < M /\ M >= 1
  BY <1>2, <1>3, <1>4, <1>5, <1>6
<1>8. x % M = x
  BY <1>7
<1>9. QED
  BY <1>7, <1>8

\* The text reads as the number, and the number is that of the fields.
LEMMA WireIsTold == WritingInv /\ NumberIsThatOfTheFields => ScreenTellsWire
<1> SUFFICES ASSUME WritingInv, NumberIsThatOfTheFields, phase = "shown"
             PROVE  ScreenTellsWire
  BY DEF ScreenTellsWire
<1>1. Value256(number) = ReadNumber(out)
  BY TextReads DEF TextDenotesNumber, ReadNumber
<1>2. fields \in Seq(Values \cup Prices \cup Volumes)
  BY DEF WritingInv, AmountsTypeOK
<1>3. Len(fields) = 1 => ReadNumber(out) = OnWire(fields[1])
  BY <1>1 DEF NumberIsThatOfTheFields
<1>4. ASSUME Len(fields) = 2, OnWire(fields[1]) < Word, OnWire(fields[2]) < Word
      PROVE  ReadNumber(out) = OnWire(fields[1]) * OnWire(fields[2])
  <2>1. /\ fields[1] \in Values \cup Prices \cup Volumes
        /\ fields[2] \in Values \cup Prices \cup Volumes
    BY <1>2, <1>4
  <2>2. PICK p \in Nat, v \in Nat : p = OnWire(fields[1]) /\ v = OnWire(fields[2])
    BY <2>1, OnWireIsNat
  <2>3. p < Word /\ v < Word /\ Word \in Nat
    BY <1>4, <2>2, WordIsNat
  <2>4. ~(p >= Word \/ v >= Word)
    BY <2>3
  <2>5. Value256(number) = (p * v) % Modulus
    BY <1>4, <2>2, <2>4 DEF NumberIsThatOfTheFields
  <2>6. (p * v) % Modulus = p * v
    BY <2>3, ProductOfWordsFits
  <2>7. QED
    BY <1>1, <2>2, <2>5, <2>6
<1>5. QED
  BY <1>3, <1>4 DEF ScreenTellsWire

\* The whole way from the wire to the screen (uint256ConvertBE, mul256, uint256ToString,
\* adjustDecimals): the user reads the amount, and the fee if its price and volume have
\* no more than 64 bits.
THEOREM ScreensTellTheWire == Spec => []ScreenTellsWire
<1>1. QED
  BY WireIsTold, WritingHolds, NumberIsOnTheWire, PTL
============================================================================
