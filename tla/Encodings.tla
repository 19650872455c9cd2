----------------------------- MODULE Encodings -----------------------------
(***************************************************************************)
(* What leaves the device besides amounts: the text of an address          *)
(* (src/address_utils.c), the values of a signature (txGetSignature of     *)
(* src/transaction.c), and a public key (src/derive_key.c).                *)
(*                                                                         *)
(* The sizes are parameters.  A byte has Byte values, the upper half of    *)
(* them with the top bit set; a hexadecimal digit has Glyphs values, those *)
(* from Letter on are letters.  In the code: 256, 16 and 10; an address    *)
(* has 20 bytes, a coordinate of a point and a value of a signature 32.    *)
(***************************************************************************)
EXTENDS Numerals

CONSTANTS
    RAW_ADDRESS_SIZE,   \* the bytes of an address
    Glyphs,             \* the digits an address is written with
    Letter,             \* the first of them that is a letter
    Keccak(_),          \* the hash of a text of digits, as a sequence of digits
    ByteValues,         \* the number of values of a byte
    FieldSize,          \* the bytes of a coordinate, and of a value of a signature
    ChainCodes          \* chain codes

ASSUME EncodingsAssumption ==
    /\ RAW_ADDRESS_SIZE \in Nat \ {0} /\ FieldSize \in Nat \ {0}
    /\ Glyphs \in Nat /\ Letter \in 1 .. Glyphs
    /\ ByteValues \in Nat /\ ByteValues >= 2 /\ ByteValues % 2 = 0

VARIABLE made   \* what the last call has made, and of what; Nothing before

Nothing == [kind |-> "nothing"]

TopBit == ByteValues \div 2

\* What big-endian bytes stand for.
BigEndianOf(bytes) == Denoted(bytes, ByteValues)

Fields == [1 .. FieldSize -> 0 .. ByteValues - 1]

-----------------------------------------------------------------------------
(* The text of an address *)

Places == 1 .. 2 * RAW_ADDRESS_SIZE

(***************************************************************************)
(* tx_address_t: the digits of its bytes, and its length in bytes.  The    *)
(* context is cleared before an instruction, so the rest of it is zero.    *)
(***************************************************************************)
Addresses ==
    {[value |-> digits, length |-> n] : digits \in [Places -> 0 .. Glyphs - 1],
                                        n \in 1 .. RAW_ADDRESS_SIZE}
StoredAddresses ==
    {a \in Addresses : \A i \in Places : i > 2 * a.length => a.value[i] = 0}

\* Mutant: the digits are hashed in capitals, that is, as other characters.
MutHashedText(address, stack) == [i \in Places |-> (address.value[i] + 1) % Glyphs]

\* The text that is hashed.  Only the digits of the address are written into it:
\* behind them stands what was on the stack.
HashedText(address, stack) ==
    [i \in Places |-> IF i <= 2 * address.length THEN address.value[i] ELSE stack[i]]

\* addressFormatStr: a letter is folded where the digit of the hash is in the upper half.
addressFormatStr(address, stack) ==
    LET hashChecksum == Keccak(HashedText(address, stack))
    IN  [i \in Places |->
            [digit |-> address.value[i],
             fold  |-> address.value[i] >= Letter /\ hashChecksum[i] >= Glyphs \div 2]]

\* What lies on the stack: all zero, or not.
Stacks == {[i \in Places |-> g] : g \in 0 .. Glyphs - 1}

FormatAddress ==
    \E address \in StoredAddresses, stack \in Stacks :
        made' = [kind |-> "address", address |-> address,
                 text |-> addressFormatStr(address, stack)]

-----------------------------------------------------------------------------
(* The values of a signature *)

\* The encoding of a positive number: no leading zeroes but one before a top bit.
Der(x) ==
    LET shortest == CHOOSE n \in 1 .. FieldSize :
                        x < Power(ByteValues, n) /\ (n = 1 \/ x >= Power(ByteValues, n - 1))
        digits   == [i \in 1 .. shortest |-> (x \div Power(ByteValues, shortest - i)) % ByteValues]
    IN  IF digits[1] >= TopBit THEN <<0>> \o digits ELSE digits

\* cx_ecdsa_sign: 30 L 02 Lr r 02 Ls s.
cx_ecdsa_sign(r, s) ==
    LET values == <<2, Len(Der(r))>> \o Der(r) \o <<2, Len(Der(s))>> \o Der(s)
    IN  <<48, Len(values)>> \o values

\* Mutant: the zero before a top bit is not skipped.
MutValueAt(sig, xOffset) == [at |-> xOffset, length |-> sig[xOffset]]

\* The value at an offset, its length before it; a zero before a top bit is skipped.
ValueAt(sig, xOffset) ==
    IF sig[xOffset] = FieldSize + 1
    THEN [at |-> xOffset + 1, length |-> FieldSize]
    ELSE [at |-> xOffset, length |-> sig[xOffset]]

\* memmove of a value to the right end of its container.
Placed(sig, value, container) ==
    LET free == FieldSize - value.length
    IN  [i \in 1 .. FieldSize |->
            IF i <= free THEN container[i] ELSE sig[value.at + i - free]]

\* txGetSignature, from the encoded signature on.  container is what
\* tx_signature_t held before.
Decoded(sig, odd, xGTn, container) ==
    LET r == ValueAt(sig, 4)
        s == ValueAt(sig, r.at + r.length + 2)
    IN  IF \/ r.length > FieldSize \/ r.at + r.length >= Len(sig)
           \/ s.length > FieldSize \/ s.at + s.length > Len(sig)
        THEN [v |-> 0]
        ELSE [v |-> 27 + (IF odd THEN 1 ELSE 0) + (IF xGTn THEN 2 ELSE 0),
              r |-> Placed(sig, r, container), s |-> Placed(sig, s, container)]

Numbers == 1 .. Power(ByteValues, FieldSize) - 1

Cleared == [i \in 1 .. FieldSize |-> 0]
Left    == [i \in 1 .. FieldSize |-> ByteValues - 1]

\* The container is cleared, or holds a signature made before for the same request
\* (Stax: the last block may be sent again after the user has rejected the review).
GetSignature ==
    \E r \in Numbers, s \in Numbers, odd \in BOOLEAN, xGTn \in BOOLEAN,
       container \in {Cleared, Left} :
        made' = [kind |-> "signature", of |-> <<r, s>>, odd |-> odd, xGTn |-> xGTn,
                 fresh |-> container = Cleared,
                 signature |-> Decoded(cx_ecdsa_sign(r, s), odd, xGTn, container)]

-----------------------------------------------------------------------------
(* A public key *)

SetTopBit(byte) == IF byte < TopBit THEN byte + TopBit ELSE byte

\* Mutant: the bytes are copied as they are.
MutExtractRawPublicKey(W) ==
    [i \in 1 .. FieldSize |->
        LET byte == W[FieldSize + 1 + i]
        IN  IF i = FieldSize /\ W[FieldSize + 1] % 2 = 1 THEN SetTopBit(byte) ELSE byte]

\* extractRawPublicKey: the bytes of Y from the last to the first, the last one with
\* the top bit if X is odd.
extractRawPublicKey(W) ==
    [i \in 1 .. FieldSize |->
        LET byte == W[2 * FieldSize + 2 - i]
        IN  IF i = FieldSize /\ W[FieldSize + 1] % 2 = 1 THEN SetTopBit(byte) ELSE byte]

\* W of a public key, as cx_ecfp_generate_pair gives it to deriveRawPublicKey.
Uncompressed(X, Y) == <<4>> \o X \o Y

\* deriveExtendedPublicKey, for the point and the chain code the device derives.
DeriveExtendedPublicKey ==
    \E X \in Fields, Y \in Fields, chainCode \in ChainCodes :
        made' = [kind |-> "key", X |-> X, Y |-> Y, chainCode |-> chainCode,
                 out |-> [length |-> FieldSize,
                          publicKey |-> extractRawPublicKey(Uncompressed(X, Y)),
                          chainCode |-> chainCode]]

-----------------------------------------------------------------------------
\* The response is sent, or the text shown.
Use == made # Nothing /\ made' = Nothing

Make == made = Nothing /\ (FormatAddress \/ GetSignature \/ DeriveExtendedPublicKey)

EncodingsNext == Make \/ Use

-----------------------------------------------------------------------------
(* Correctness *)

DigitsOf(text) == [i \in Places |-> text[i].digit]

\* Who reads the text finds its checksum right: the letters that are folded are those
\* the hash of its own digits asks for.
ChecksumHolds(text) ==
    \A i \in Places :
        text[i].fold <=> /\ text[i].digit >= Letter
                         /\ Keccak(DigitsOf(text))[i] >= Glyphs \div 2

\* The text of a whole address says the address, and its checksum is right, whatever
\* was on the stack (addressFormatStr).
AddressTextVerifies ==
    made.kind = "address" /\ made.address.length = RAW_ADDRESS_SIZE =>
        DigitsOf(made.text) = made.address.value /\ ChecksumHolds(made.text)

\* src/address_utils.c: "so we can calculate SHA3 hash of the address and add folding
\* checksum".  The checksum is right for every address the stream accepts.
EveryAddressTextVerifies == made.kind = "address" => ChecksumHolds(made.text)

\* The right end of a container holds the bytes of a number, without leading zeroes.
EndsWith(bytes, n) ==
    \A i \in 1 .. FieldSize :
        n >= Power(ByteValues, FieldSize - i) =>
            bytes[i] = (n \div Power(ByteValues, FieldSize - i)) % ByteValues

(***************************************************************************)
(* Whatever lengths the numbers of a signature are encoded with, and       *)
(* whatever the container held: both flags are right, and the right ends   *)
(* of the containers hold the numbers' bytes.  In a cleared container that *)
(* is the number; in one that is not, what it held shows through in front  *)
(* of a short one (txGetSignature).                                        *)
(***************************************************************************)
SignatureIsDecoded ==
    made.kind = "signature" =>
        /\ made.signature.v # 0
        /\ (made.signature.v - 27) % 2 = 1 <=> made.odd
        /\ made.signature.v - 27 >= 2 <=> made.xGTn
        /\ LET right(bytes, n) == EndsWith(bytes, n) /\ (made.fresh => BigEndianOf(bytes) = n)
           IN  right(made.signature.r, made.of[1]) /\ right(made.signature.s, made.of[2])

(***************************************************************************)
(* The client that clears the top bit of the last byte has Y, and the      *)
(* parity of X from that bit, if the top bit of Y is clear; if it is set,  *)
(* the exported bytes are those of Y (extractRawPublicKey).                *)
(***************************************************************************)
KeyTellsPoint ==
    made.kind = "key" =>
        LET bytes == made.out.publicKey
            top   == bytes[FieldSize]
            clear == [bytes EXCEPT ![FieldSize] = @ % TopBit]
            mirrored(b) == [i \in 1 .. FieldSize |-> b[FieldSize + 1 - i]]
        IN  IF made.Y[1] < TopBit
            THEN mirrored(clear) = made.Y /\ (top >= TopBit <=> made.X[FieldSize] % 2 = 1)
            ELSE mirrored(bytes) = made.Y
============================================================================
