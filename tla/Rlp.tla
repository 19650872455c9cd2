-------------------------------- MODULE Rlp --------------------------------
(***************************************************************************)
(* The headers of RLP items (src/rlp_utils.c).  A header is the sequence   *)
(* of bytes read so far, which is never empty; its first byte says how     *)
(* long it is and, alone or with the others, how long the payload is.      *)
(***************************************************************************)
EXTENDS Integers, Sequences

Byte == 0 .. 255

\* 0xb8..0xbf and 0xf8..0xff are followed by the bytes of the payload's length.
HeaderLength(first) ==
    IF first \in 184 .. 191 THEN 1 + (first - 183)
    ELSE IF first >= 248 THEN 1 + (first - 247)
    ELSE 1

\* The bytes of rlpCanDecode's buffer are enough to decode the length.
rlpCanDecode(header) == Len(header) >= HeaderLength(header[1])

\* A payload's length never takes more than 32 bits.
rlpIsValid(header) == header[1] \notin 188 .. 191 /\ header[1] < 252

\* A byte below 0x80 is an item by itself (offset 0): there is no header before it.
IsSelfEncoded(header) == header[1] <= 127

IsList(header) == header[1] >= 192

(***************************************************************************)
(* rlpDecodeLength.  In C the top byte of a four byte length is shifted    *)
(* into the sign bit of an int; the model is for lengths below 2^31.       *)
(***************************************************************************)
Followed(n, byte) == 256 * n + byte

BigEndian(header, size) ==
    IF size = 1 THEN header[2]
    ELSE IF size = 2 THEN Followed(header[2], header[3])
    ELSE IF size = 3 THEN Followed(Followed(header[2], header[3]), header[4])
    ELSE Followed(Followed(Followed(header[2], header[3]), header[4]), header[5])

FieldLength(header) ==
    LET first == header[1]
    IN  IF first <= 127 THEN 1
        ELSE IF first <= 183 THEN first - 128
        ELSE IF first \in 192 .. 247 THEN first - 192
        ELSE BigEndian(header, HeaderLength(first) - 1)
============================================================================
