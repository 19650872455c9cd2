--------------------------- MODULE TxStreamProofs ---------------------------
(***************************************************************************)
(* For every set of messages and every way to cut them into blocks: the    *)
(* stream's types, and that each byte is hashed once and in order.         *)
(*                                                                         *)
(* The invariant behind both says where the parser is.  Between two turns  *)
(* of its loop exactly the bytes before the work buffer have been hashed,  *)
(* and the work buffer ends where the last block ended (Sound).  Within a  *)
(* turn, just after the parser has stepped back to a self-encoded byte,    *)
(* that byte has been hashed as well (Begun); copying it skips the hash.   *)
(***************************************************************************)
EXTENDS TxStreamCorrectness, TLAPS

FieldType   == TX_RLP_ENVELOPE .. TX_RLP_DONE
HeaderType  == Seq(Byte)
HashedType  == Seq(Nat)
ValuesType  == [Kept -> Seq(Nat)]
LengthsType == [Kept -> Nat]

StreamRecord ==
    [currentField : FieldType, currentFieldLength : Nat, currentFieldPos : Nat,
     isCurrentFieldList : BOOLEAN, isProcessingField : BOOLEAN, isFieldSingleByte : BOOLEAN,
     rlpBuffer : HeaderType, workBuffer : Nat, workBufferLength : Nat, hashed : HashedType,
     value : ValuesType, length : LengthsType, isContractCall : BOOLEAN]

\* The first n bytes of the message have been hashed, once and in order.
HashedTo(s, n) == s.hashed = [j \in 1 .. n |-> j]

\* The context's numbers fit each other and the blocks received.
Consistent(s) ==
    /\ s \in StreamRecord
    /\ s.currentFieldPos <= s.currentFieldLength
    /\ Len(s.rlpBuffer) <= RLP_LENGTH_BUFFER_SIZE
    /\ 1 <= s.workBuffer
    /\ s.workBuffer + s.workBufferLength = received + 1

\* Between two turns of the loop.
Sound(s) ==
    /\ Consistent(s)
    /\ s.isFieldSingleByte = FALSE
    /\ HashedTo(s, s.workBuffer - 1)

\* A field is about to be parsed.
Begun(s) ==
    /\ Consistent(s)
    /\ s.isProcessingField = TRUE
    /\ IF s.isFieldSingleByte = TRUE
       THEN /\ s.isCurrentFieldList = FALSE
            /\ s.workBufferLength >= 1
            /\ s.currentFieldLength = 1
            /\ s.currentFieldPos = 0
            /\ HashedTo(s, s.workBuffer)
       ELSE HashedTo(s, s.workBuffer - 1)

\* The stream has ended badly.
Failed(s) ==
    /\ Consistent(s)
    /\ \E n \in Nat : HashedTo(s, n)

StreamInv ==
    /\ message \in Messages
    /\ received \in 0 .. Len(message)
    /\ status \in {"WAITING", "PARSING", "FINISHED", "FAULT", "UNDEFINED"}
    /\ status \in {"WAITING", "PARSING", "FINISHED"} => Sound(stream)
    /\ status \in {"FAULT", "UNDEFINED"} => Failed(stream)
    /\ status = "WAITING" => stream.workBufferLength = 0

-----------------------------------------------------------------------------
(* Lemmas about the operators *)

\* Hashing the next bytes extends what has been hashed.
LEMMA HashExtends ==
    ASSUME NEW n \in Nat, NEW m \in Nat
    PROVE  [j \in 1 .. n |-> j] \o [j \in 1 .. m |-> (n + 1) + j - 1] = [j \in 1 .. (n + m) |-> j]
  OBVIOUS

LEMMA FollowedIsNat == \A n, byte \in Nat : Followed(n, byte) \in Nat
  BY DEF Followed

LEMMA BytesAreSmall == \A b \in Byte : b \in Nat /\ b <= 255
  BY DEF Byte

\* The bytes of a sequence of bytes are numbers.
LEMMA ElementsAreSmall ==
    ASSUME NEW h \in Seq(Byte)
    PROVE  /\ Len(h) \in Nat
           /\ \A i \in 1 .. Len(h) : h[i] \in Nat /\ h[i] <= 255
<1>1. Len(h) \in Nat /\ \A i \in 1 .. Len(h) : h[i] \in Byte
  OBVIOUS
<1>2. QED
  BY <1>1, BytesAreSmall, Zenon

\* First bytes of headers whose length is in the bytes that follow.
LEMMA LongHeaders ==
    ASSUME NEW first \in Nat, first <= 255, ~(first <= 183), first \notin 192 .. 247,
           first \notin 188 .. 191, first < 252
    PROVE  HeaderLength(first) \in {2, 3, 4, 5}
  BY DEF HeaderLength

\* The payload of a complete header has a length.
LEMMA FieldLengthIsNat ==
    ASSUME NEW h \in Seq(Byte), Len(h) >= 1, rlpCanDecode(h), rlpIsValid(h)
    PROVE  FieldLength(h) \in Nat
<1> DEFINE first == h[1]
           size  == HeaderLength(first)
<1>1. Len(h) \in Nat /\ \A i \in 1 .. Len(h) : h[i] \in Nat /\ h[i] <= 255
  BY ElementsAreSmall
<1>2. first \in Nat /\ first <= 255
  BY <1>1
<1>3. rlpIsValid(h) <=> first \notin 188 .. 191 /\ first < 252
  BY Zenon DEF rlpIsValid
<1>4. FieldLength(h) = IF first <= 127 THEN 1
                       ELSE IF first <= 183 THEN first - 128
                       ELSE IF first \in 192 .. 247 THEN first - 192
                       ELSE BigEndian(h, size - 1)
  BY Zenon DEF FieldLength
<1>5. size <= Len(h)
  BY <1>1, <1>2 DEF rlpCanDecode, HeaderLength
<1>6. ASSUME NEW n \in {2, 3, 4, 5}, n <= Len(h)
      PROVE  BigEndian(h, n - 1) \in Nat
  <2>1. /\ n >= 2 => h[2] \in Nat
        /\ n >= 3 => h[3] \in Nat
        /\ n >= 4 => h[4] \in Nat
        /\ n >= 5 => h[5] \in Nat
    BY <1>1, <1>6
  <2>2. CASE n = 2
    <3>1. h[2] \in Nat
      BY <2>1, <2>2
    <3>2. BigEndian(h, n - 1) = h[2]
      BY <2>2, SMT DEF BigEndian
    <3>3. QED
      BY <3>1, <3>2
  <2>3. CASE n = 3
    <3>1. h[2] \in Nat /\ h[3] \in Nat
      BY <2>1, <2>3
    <3>2. BigEndian(h, n - 1) = Followed(h[2], h[3])
      BY <2>3, SMT DEF BigEndian
    <3>3. QED
      BY <3>1, <3>2, FollowedIsNat, Zenon
  <2>4. CASE n = 4
    <3>1. h[2] \in Nat /\ h[3] \in Nat /\ h[4] \in Nat
      BY <2>1, <2>4
    <3>2. BigEndian(h, n - 1) = Followed(Followed(h[2], h[3]), h[4])
      BY <2>4, SMT DEF BigEndian
    <3>3. QED
      BY <3>1, <3>2, FollowedIsNat, Zenon
  <2>5. CASE n = 5
    <3>1. h[2] \in Nat /\ h[3] \in Nat /\ h[4] \in Nat /\ h[5] \in Nat
      BY <2>1, <2>5
    <3>2. BigEndian(h, n - 1) = Followed(Followed(Followed(h[2], h[3]), h[4]), h[5])
      BY <2>5, SMT DEF BigEndian
    <3>3. Followed(Followed(h[2], h[3]), h[4]) \in Nat
      BY <3>1, FollowedIsNat, Zenon
    <3>4. QED
      BY <3>1, <3>2, <3>3, FollowedIsNat, Zenon
  <2>6. QED
    BY <2>2, <2>3, <2>4, <2>5
<1>7. size = HeaderLength(first)
  OBVIOUS
<1> HIDE DEF first, size
<1>8. ASSUME ~(first <= 183), first \notin 192 .. 247
      PROVE  size \in {2, 3, 4, 5}
  <2>1. first \notin 188 .. 191 /\ first < 252
    BY <1>3, Zenon
  <2>2. HeaderLength(first) \in {2, 3, 4, 5}
    BY <1>2, <1>8, <2>1, LongHeaders
  <2>3. QED
    BY <1>7, <2>2, Zenon
<1>9. QED
  BY <1>2, <1>4, <1>5, <1>6, <1>8

-----------------------------------------------------------------------------
(* Lemmas about the stream *)

\* Hashing and moving past the next n bytes of a block, when nothing is skipped.
LEMMA ConsumeIsSound ==
    ASSUME NEW s, Consistent(s), NEW n \in Nat, n <= s.workBufferLength,
           HashedTo(s, s.workBuffer - 1),
           s.isProcessingField = TRUE => s.currentFieldPos + n <= s.currentFieldLength,
           HashSkipped(s) = FALSE
    PROVE  /\ Consistent(Consume(s, n))
           /\ HashedTo(Consume(s, n), Consume(s, n).workBuffer - 1)
           /\ Consume(s, n).workBuffer = s.workBuffer + n
           /\ Consume(s, n).workBufferLength = s.workBufferLength - n
<1> DEFINE c == Consume(s, n)
           w == s.workBuffer
<1>1. /\ w \in Nat /\ 1 <= w /\ s.workBufferLength \in Nat /\ w + s.workBufferLength = received + 1
      /\ s.currentFieldPos \in Nat /\ s.currentFieldLength \in Nat /\ s \in StreamRecord
      /\ s.currentFieldPos <= s.currentFieldLength
      /\ Len(s.rlpBuffer) <= RLP_LENGTH_BUFFER_SIZE
  BY DEF Consistent, StreamRecord
<1>2. s.hashed \o Upcoming(s, n) = [j \in 1 .. w + n - 1 |-> j]
  <2>1. s.hashed = [j \in 1 .. w - 1 |-> j]
    BY DEF HashedTo
  <2>2. Upcoming(s, n) = [j \in 1 .. n |-> ((w - 1) + 1) + j - 1]
    BY <1>1 DEF Upcoming
  <2>3. w - 1 \in Nat /\ (w - 1) + n = w + n - 1
    BY <1>1
  <2>4. QED
    BY <2>1, <2>2, <2>3, HashExtends
<1>3. c.hashed = s.hashed \o Upcoming(s, n)
  BY <1>1 DEF Consume, StreamRecord
<1>4. c.workBuffer = w + n /\ c.workBufferLength = s.workBufferLength - n
  BY <1>1 DEF Consume, StreamRecord
<1>5. c.currentFieldPos \in Nat /\ c.currentFieldPos <= c.currentFieldLength
  BY <1>1 DEF Consume, StreamRecord
<1>6. c.hashed \in HashedType
  BY <1>1, <1>2, <1>3 DEF HashedType
<1>7. /\ c.currentFieldPos \in Nat
      /\ c.workBuffer \in Nat
      /\ c.workBufferLength \in Nat
  BY <1>1, <1>4, <1>5
<1>8. /\ c = [s EXCEPT !.hashed = c.hashed, !.workBuffer = c.workBuffer,
                       !.workBufferLength = c.workBufferLength,
                       !.currentFieldPos = c.currentFieldPos]
      /\ c.rlpBuffer = s.rlpBuffer
  BY <1>1 DEF Consume, StreamRecord
<1> HIDE DEF c, w
<1>9. c \in StreamRecord
  BY <1>1, <1>6, <1>7, <1>8 DEF StreamRecord
<1>10. 1 <= w + n /\ (w + n) + (s.workBufferLength - n) = received + 1
  BY <1>1
<1>11. Consistent(c)
  <2>1. c.workBuffer + c.workBufferLength = received + 1 /\ 1 <= c.workBuffer
    BY <1>4, <1>10
  <2>2. Len(c.rlpBuffer) <= RLP_LENGTH_BUFFER_SIZE
    BY <1>1, <1>8
  <2>3. QED
    BY <1>5, <1>9, <2>1, <2>2, Zenon DEF Consistent
<1>12. HashedTo(c, c.workBuffer - 1)
  <2>1. c.workBuffer - 1 = w + n - 1
    BY <1>1, <1>4
  <2>2. c.hashed = [j \in 1 .. w + n - 1 |-> j]
    BY <1>2, <1>3, Zenon
  <2>3. QED
    BY <2>1, <2>2, Zenon DEF HashedTo
<1>13. QED
  BY <1>4, <1>11, <1>12 DEF c, w

\* Moving past a self-encoded byte, which was hashed before.
LEMMA ConsumeOfSingleByte ==
    ASSUME NEW s, Begun(s), s.isFieldSingleByte = TRUE
    PROVE  /\ Consistent(Consume(s, 1))
           /\ HashedTo(Consume(s, 1), Consume(s, 1).workBuffer - 1)
           /\ Consume(s, 1).currentFieldPos = Consume(s, 1).currentFieldLength
           /\ ToCopy(s) = 1
<1> DEFINE c == Consume(s, 1)
<1>1. /\ s.workBuffer \in Nat /\ 1 <= s.workBuffer
      /\ s.workBufferLength \in Nat /\ s.workBufferLength >= 1
      /\ s.workBuffer + s.workBufferLength = received + 1
      /\ s.currentFieldPos = 0 /\ s.currentFieldLength = 1 /\ s.isProcessingField = TRUE
      /\ s \in StreamRecord
      /\ Len(s.rlpBuffer) <= RLP_LENGTH_BUFFER_SIZE
      /\ HashedTo(s, s.workBuffer)
  BY DEF Begun, Consistent, StreamRecord
<1>2. HashSkipped(s) = TRUE
  BY <1>1, Zenon DEF HashSkipped
<1>3. c.hashed = s.hashed /\ c.rlpBuffer = s.rlpBuffer
  BY <1>1, <1>2 DEF Consume, StreamRecord
<1>4. c.currentFieldPos = 1 /\ c.currentFieldLength = 1
  BY <1>1 DEF Consume, StreamRecord
<1>5. c.workBuffer = s.workBuffer + 1 /\ c.workBufferLength = s.workBufferLength - 1
  BY <1>1 DEF Consume, StreamRecord
<1>6. c = [s EXCEPT !.hashed = c.hashed, !.workBuffer = c.workBuffer,
                    !.workBufferLength = c.workBufferLength,
                    !.currentFieldPos = c.currentFieldPos]
  BY <1>1 DEF Consume, StreamRecord
<1> HIDE DEF c
<1>7. /\ c.workBuffer \in Nat /\ 1 <= c.workBuffer /\ c.workBufferLength \in Nat
      /\ c.workBuffer + c.workBufferLength = received + 1
      /\ c.workBuffer - 1 = s.workBuffer
  BY <1>1, <1>5
<1>8. c.currentFieldPos \in Nat /\ c.currentFieldPos <= c.currentFieldLength
  BY <1>4
<1>9. c.hashed \in HashedType
  BY <1>1, <1>3 DEF StreamRecord
<1>10. c \in StreamRecord
  BY <1>1, <1>6, <1>7, <1>8, <1>9 DEF StreamRecord
<1>11. Consistent(c)
  BY <1>1, <1>3, <1>7, <1>8, <1>10, Zenon DEF Consistent
<1>12. HashedTo(c, c.workBuffer - 1)
  BY <1>1, <1>3, <1>7, Zenon DEF HashedTo
<1>13. ToCopy(s) = 1
  BY <1>1 DEF ToCopy
<1>14. QED
  BY <1>4, <1>11, <1>12, <1>13 DEF c

\* Copying the bytes does not disturb where the parser is.
LEMMA ReadKeeps ==
    ASSUME NEW s, s \in StreamRecord, ToCopy(s) \in Nat, Consistent(Consume(s, ToCopy(s)))
    PROVE  /\ Consistent(FieldRead(s))
           /\ FieldRead(s).hashed = Consume(s, ToCopy(s)).hashed
           /\ FieldRead(s).workBuffer = Consume(s, ToCopy(s)).workBuffer
           /\ FieldRead(s).currentFieldPos = Consume(s, ToCopy(s)).currentFieldPos
           /\ FieldRead(s).currentFieldLength = Consume(s, ToCopy(s)).currentFieldLength
           /\ FieldRead(s).currentField = s.currentField
           /\ FieldRead(s).isFieldSingleByte = s.isFieldSingleByte
<1> DEFINE n == ToCopy(s)
           c == Consume(s, n)
           r == FieldRead(s)
<1>1. /\ c \in StreamRecord /\ c.currentField = s.currentField
      /\ c.isFieldSingleByte = s.isFieldSingleByte
      /\ c.value = s.value
      /\ s.workBuffer \in Nat
  BY DEF Consume, Consistent, StreamRecord
<1>2. r = [c EXCEPT !.value = r.value, !.isContractCall = r.isContractCall]
  BY <1>1 DEF FieldRead, StreamRecord
<1>3. r.value \in ValuesType
  <2>1. s.value \in ValuesType
    BY DEF StreamRecord
  <2>2. Upcoming(s, n) \in Seq(Nat)
    BY <1>1 DEF Upcoming
  <2>3. \A f \in Kept : s.value[f] \o Upcoming(s, n) \in Seq(Nat)
    BY <2>1, <2>2 DEF ValuesType
  <2>4. r.value = Filled(s.value, s.currentField, Upcoming(s, n))
    BY <1>1 DEF FieldRead, StreamRecord
  <2>5. QED
    BY <2>1, <2>3, <2>4 DEF Filled, ValuesType
<1>4. r.isContractCall \in BOOLEAN
  BY <1>1 DEF FieldRead, LooksLikeCall, StreamRecord
<1>5. Consistent(c)
  OBVIOUS
<1> HIDE DEF n, c, r
<1>6. r \in StreamRecord
  BY <1>1, <1>2, <1>3, <1>4 DEF StreamRecord
<1>7. /\ r.hashed = c.hashed /\ r.workBuffer = c.workBuffer
      /\ r.workBufferLength = c.workBufferLength
      /\ r.currentFieldPos = c.currentFieldPos
      /\ r.currentFieldLength = c.currentFieldLength
      /\ r.rlpBuffer = c.rlpBuffer
      /\ r.currentField = s.currentField
      /\ r.isFieldSingleByte = s.isFieldSingleByte
  BY <1>1, <1>2 DEF StreamRecord
<1>8. Consistent(r)
  BY <1>5, <1>6, <1>7, Zenon DEF Consistent
<1>9. QED
  BY <1>7, <1>8 DEF n, c, r

\* Going on to the next field does not disturb where the parser is.
LEMMA EndedKeeps ==
    ASSUME NEW r, Consistent(r), r.currentField # TX_RLP_DONE
    PROVE  /\ Consistent(FieldEnded(r))
           /\ FieldEnded(r).hashed = r.hashed
           /\ FieldEnded(r).workBuffer = r.workBuffer
           /\ r.currentFieldPos = r.currentFieldLength => FieldEnded(r).isFieldSingleByte = FALSE
           /\ r.isFieldSingleByte = FALSE => FieldEnded(r).isFieldSingleByte = FALSE
<1>1. CASE r.currentFieldPos # r.currentFieldLength
  BY <1>1 DEF FieldEnded
<1>2. CASE r.currentFieldPos = r.currentFieldLength
  <2> DEFINE e == FieldEnded(r)
             sized == IF r.currentField \in Kept
                      THEN [r.length EXCEPT ![r.currentField] = r.currentFieldLength]
                      ELSE r.length
  <2>1. r \in StreamRecord
    BY DEF Consistent
  <2>2. e = [r EXCEPT !.length = sized, !.currentField = r.currentField + 1,
                      !.isProcessingField = FALSE, !.isFieldSingleByte = FALSE]
    BY <1>2 DEF FieldEnded
  <2>3. sized \in LengthsType
    <3>1. r.length \in LengthsType /\ r.currentFieldLength \in Nat
      BY <2>1 DEF StreamRecord
    <3>2. QED
      BY <3>1 DEF LengthsType
  <2>4. r.currentField + 1 \in FieldType
    <3>1. r.currentField \in FieldType
      BY <2>1 DEF StreamRecord
    <3>2. QED
      BY <3>1 DEF FieldType, TX_RLP_ENVELOPE, TX_RLP_DONE
  <2> HIDE DEF e, sized
  <2>5. e \in StreamRecord
    BY <2>1, <2>2, <2>3, <2>4 DEF StreamRecord
  <2>6. /\ e.hashed = r.hashed /\ e.workBuffer = r.workBuffer
        /\ e.workBufferLength = r.workBufferLength
        /\ e.currentFieldPos = r.currentFieldPos
        /\ e.currentFieldLength = r.currentFieldLength
        /\ e.rlpBuffer = r.rlpBuffer
        /\ e.isFieldSingleByte = FALSE
    BY <2>1, <2>2 DEF StreamRecord
  <2>7. Consistent(e)
    BY <2>5, <2>6, Zenon DEF Consistent
  <2>8. QED
    BY <2>6, <2>7 DEF e
<1>3. QED
  BY <1>1, <1>2

\* A byte of a header.
LEMMA HeaderByteIsSound ==
    ASSUME Sound(stream), stream.isProcessingField = FALSE, stream.workBufferLength # 0,
           Len(stream.rlpBuffer) < RLP_LENGTH_BUFFER_SIZE,
           message \in Seq(Byte), received \in 0 .. Len(message)
    PROVE  /\ Sound(HeaderByte(stream))
           /\ Len(HeaderByte(stream).rlpBuffer) >= 1
           /\ HeaderByte(stream).workBuffer >= 2
           /\ HeaderByte(stream).isProcessingField = FALSE
<1> DEFINE s == stream
           c == Consume(s, 1)
           h == HeaderByte(s)
           header == Append(s.rlpBuffer, message[s.workBuffer])
<1>1. /\ Consistent(s) /\ s \in StreamRecord
      /\ s.workBufferLength \in Nat /\ s.workBuffer \in Nat /\ 1 <= s.workBuffer
      /\ s.workBuffer + s.workBufferLength = received + 1
      /\ s.rlpBuffer \in HeaderType
  BY DEF Sound, Consistent, StreamRecord
<1>2. HashSkipped(s) = FALSE
  BY Zenon DEF HashSkipped
<1>3. /\ Consistent(c) /\ HashedTo(c, c.workBuffer - 1)
      /\ c.workBuffer = s.workBuffer + 1
  <2>1. 1 \in Nat /\ 1 <= s.workBufferLength
    BY <1>1
  <2>2. HashedTo(s, s.workBuffer - 1)
    BY DEF Sound
  <2>3. s.isProcessingField # TRUE
    OBVIOUS
  <2> HIDE DEF s, c
  <2>4. QED
    BY <1>1, <1>2, <2>1, <2>2, <2>3, ConsumeIsSound DEF c
<1>4. s.workBuffer \in 1 .. Len(message)
  <2>1. Len(message) \in Nat
    OBVIOUS
  <2>2. QED
    BY <1>1, <2>1
<1>5. /\ header \in HeaderType
      /\ Len(header) = Len(s.rlpBuffer) + 1
      /\ Len(header) >= 1
      /\ Len(header) <= RLP_LENGTH_BUFFER_SIZE
  <2>1. message[s.workBuffer] \in Byte
    BY <1>4
  <2>2. s.rlpBuffer \in Seq(Byte)
    BY <1>1 DEF HeaderType
  <2>3. QED
    BY <2>1, <2>2 DEF HeaderType, RLP_LENGTH_BUFFER_SIZE
<1>6. h = [c EXCEPT !.rlpBuffer = header]
  <2>1. c.rlpBuffer = s.rlpBuffer
    BY <1>1 DEF Consume, StreamRecord
  <2>2. QED
    BY <2>1 DEF HeaderByte
<1>7. /\ c.isFieldSingleByte = FALSE /\ c.isProcessingField = FALSE
  BY <1>1 DEF Consume, StreamRecord, Sound
<1>8. c \in StreamRecord
  BY <1>3 DEF Consistent
<1> HIDE DEF s, c, h, header
<1>9. h \in StreamRecord
  BY <1>5, <1>6, <1>8 DEF StreamRecord
<1>10. /\ h.hashed = c.hashed /\ h.workBuffer = c.workBuffer
       /\ h.workBufferLength = c.workBufferLength
       /\ h.currentFieldPos = c.currentFieldPos
       /\ h.currentFieldLength = c.currentFieldLength
       /\ h.rlpBuffer = header
       /\ h.isFieldSingleByte = FALSE /\ h.isProcessingField = FALSE
  BY <1>6, <1>7, <1>8 DEF StreamRecord
<1>11. Consistent(h)
  BY <1>3, <1>5, <1>9, <1>10, Zenon DEF Consistent
<1>12. HashedTo(h, h.workBuffer - 1)
  BY <1>3, <1>10, Zenon DEF HashedTo
<1>13. h.workBuffer >= 2
  BY <1>1, <1>3, <1>10
<1>14. Sound(h)
  BY <1>10, <1>11, <1>12, Zenon DEF Sound
<1>15. QED
  BY <1>5, <1>10, <1>13, <1>14 DEF h, s

\* The header is complete, and the parser is back at a self-encoded byte.
LEMMA BegunWhenDecoded ==
    ASSUME NEW s, Sound(s), Len(s.rlpBuffer) >= 1, s.workBuffer >= 2,
           rlpCanDecode(s.rlpBuffer), rlpIsValid(s.rlpBuffer)
    PROVE  /\ Begun(FieldBegun(s))
           /\ FieldBegun(s).currentField = s.currentField
<1> DEFINE header == s.rlpBuffer
           back == IF IsSelfEncoded(header) THEN 1 ELSE 0
           f == FieldBegun(s)
<1>1. /\ Consistent(s) /\ s \in StreamRecord
      /\ s.workBufferLength \in Nat /\ s.workBuffer \in Nat
      /\ s.workBuffer + s.workBufferLength = received + 1
      /\ header \in Seq(Byte) /\ s.isFieldSingleByte = FALSE
      /\ HashedTo(s, s.workBuffer - 1)
  BY DEF Sound, Consistent, StreamRecord, HeaderType
<1>2. FieldLength(header) \in Nat
  BY <1>1, FieldLengthIsNat
<1>3. f = [s EXCEPT !.currentFieldLength = FieldLength(header),
                    !.isCurrentFieldList = IsList(header),
                    !.isFieldSingleByte = @ \/ IsSelfEncoded(header),
                    !.workBuffer = @ - back,
                    !.workBufferLength = @ + back,
                    !.rlpBuffer = <<>>,
                    !.currentFieldPos = 0,
                    !.isProcessingField = TRUE]
  BY Zenon DEF FieldBegun
<1>4. IsSelfEncoded(header) \in BOOLEAN /\ IsList(header) \in BOOLEAN
  BY DEF IsSelfEncoded, IsList
<1>5. IsSelfEncoded(header) => FieldLength(header) = 1 /\ IsList(header) = FALSE
  <2>1. header[1] \in Nat
    BY <1>1, ElementsAreSmall
  <2>2. IsSelfEncoded(header) => FieldLength(header) = 1
    BY Zenon DEF IsSelfEncoded, FieldLength
  <2>3. header[1] <= 127 => ~(header[1] >= 192)
    BY <2>1
  <2>4. QED
    BY <2>2, <2>3 DEF IsSelfEncoded, IsList
<1>6. back \in {0, 1}
  OBVIOUS
<1>7. /\ IsSelfEncoded(header) => back = 1
      /\ ~IsSelfEncoded(header) => back = 0
  OBVIOUS
<1> HIDE DEF header, back, f
<1>8. <<>> \in HeaderType /\ Len(<<>>) = 0
  BY DEF HeaderType
<1>9. /\ s.workBuffer - back \in Nat /\ 1 <= s.workBuffer - back
      /\ s.workBufferLength + back \in Nat
      /\ (s.workBuffer - back) + (s.workBufferLength + back) = received + 1
      /\ back = 1 => s.workBufferLength + back >= 1
      /\ back = 1 => s.workBuffer - back = s.workBuffer - 1
      /\ back = 0 => (s.workBuffer - back) - 1 = s.workBuffer - 1
  BY <1>1, <1>6
<1>10. f \in StreamRecord
  BY <1>1, <1>2, <1>3, <1>4, <1>8, <1>9 DEF StreamRecord
<1>11. /\ f.currentFieldLength = FieldLength(header)
       /\ f.currentFieldPos = 0
       /\ f.workBuffer = s.workBuffer - back
       /\ f.workBufferLength = s.workBufferLength + back
       /\ f.rlpBuffer = <<>>
       /\ f.hashed = s.hashed
       /\ f.currentField = s.currentField
       /\ f.isProcessingField = TRUE
  BY <1>1, <1>3 DEF StreamRecord
<1>12. f.isCurrentFieldList = IsList(header)
  BY <1>1, <1>3 DEF StreamRecord
<1>13. f.isFieldSingleByte = IsSelfEncoded(header)
  BY <1>1, <1>3, <1>4 DEF StreamRecord
<1>14. Consistent(f)
  <2>1. f.currentFieldPos <= f.currentFieldLength
    BY <1>2, <1>11
  <2>2. Len(f.rlpBuffer) <= RLP_LENGTH_BUFFER_SIZE
    BY <1>8, <1>11 DEF RLP_LENGTH_BUFFER_SIZE
  <2>3. QED
    BY <1>9, <1>10, <1>11, <2>1, <2>2, Zenon DEF Consistent
<1>15. CASE IsSelfEncoded(header)
  <2>1. back = 1
    BY <1>7, <1>15
  <2>2. HashedTo(f, f.workBuffer)
    BY <1>1, <1>9, <1>11, <2>1, Zenon DEF HashedTo
  <2>3. f.isCurrentFieldList = FALSE /\ f.currentFieldLength = 1 /\ f.workBufferLength >= 1
    BY <1>5, <1>9, <1>11, <1>12, <1>15, <2>1, Zenon
  <2>4. f.isFieldSingleByte = TRUE
    BY <1>4, <1>13, <1>15
  <2>5. QED
    BY <1>11, <1>14, <2>2, <2>3, <2>4, Zenon DEF Begun, f
<1>16. CASE ~IsSelfEncoded(header)
  <2>1. back = 0
    BY <1>7, <1>16
  <2>2. HashedTo(f, f.workBuffer - 1)
    BY <1>1, <1>9, <1>11, <2>1, Zenon DEF HashedTo
  <2>3. f.isFieldSingleByte # TRUE
    BY <1>13, <1>16, Zenon
  <2>4. QED
    BY <1>11, <1>14, <2>2, <2>3, Zenon DEF Begun, f
<1>17. QED
  BY <1>15, <1>16

\* What the block holds of a field can be read.
LEMMA RestIsConsumed ==
    ASSUME NEW s, Begun(s)
    PROVE  LET n == ToCopy(s)
               c == Consume(s, n)
           IN  /\ n \in Nat /\ n <= s.workBufferLength
               /\ s.currentFieldPos + n <= s.currentFieldLength
               /\ Consistent(c)
               /\ HashedTo(c, c.workBuffer - 1)
               /\ s.isFieldSingleByte = TRUE => c.currentFieldPos = c.currentFieldLength
<1> DEFINE n == ToCopy(s)
           c == Consume(s, n)
<1>1. Consistent(s) /\ s \in StreamRecord /\ s.isProcessingField = TRUE
  BY DEF Begun, Consistent
<1>2. /\ s.workBufferLength \in Nat /\ s.currentFieldPos \in Nat /\ s.currentFieldLength \in Nat
      /\ s.currentFieldPos <= s.currentFieldLength
  BY <1>1 DEF Consistent, StreamRecord
<1>3. n \in Nat /\ n <= s.workBufferLength /\ s.currentFieldPos + n <= s.currentFieldLength
  BY <1>2 DEF ToCopy
<1>4. CASE s.isFieldSingleByte = TRUE
  BY <1>3, <1>4, ConsumeOfSingleByte, Zenon
<1>5. CASE s.isFieldSingleByte # TRUE
  <2>1. HashSkipped(s) = FALSE
    <3>1. s.isFieldSingleByte = FALSE
      BY <1>1, <1>5 DEF StreamRecord
    <3>2. QED
      BY <3>1, Zenon DEF HashSkipped
  <2>2. HashedTo(s, s.workBuffer - 1)
    BY <1>5 DEF Begun
  <2>3. QED
    BY <1>1, <1>3, <1>5, <2>1, <2>2, ConsumeIsSound
<1>6. QED
  BY <1>4, <1>5

\* A field that is read, or opened, leaves the parser between two turns again.
LEMMA ParseFieldIsSound ==
    ASSUME NEW s, Begun(s), s.currentField # TX_RLP_DONE, status = "PARSING", ParseField(s)
    PROVE  \/ status' = "PARSING" /\ Sound(stream')
           \/ status' \in {"FAULT", "UNDEFINED"} /\ Failed(stream')
<1> DEFINE n == ToCopy(s)
           c == Consume(s, n)
           r == FieldRead(s)
           e == FieldEnded(r)
<1>1. Consistent(s) /\ s \in StreamRecord /\ s.isProcessingField = TRUE
  BY DEF Begun, Consistent
<1>2. /\ s.workBufferLength \in Nat /\ s.workBuffer \in Nat
      /\ s.currentFieldPos \in Nat /\ s.currentFieldLength \in Nat
      /\ s.currentFieldPos <= s.currentFieldLength
      /\ 1 <= s.workBuffer
  BY <1>1 DEF Consistent, StreamRecord
<1>3. Failed(s)
  <2>1. s.workBuffer \in Nat /\ s.workBuffer - 1 \in Nat
    BY <1>2
  <2>2. HashedTo(s, s.workBuffer) \/ HashedTo(s, s.workBuffer - 1)
    BY DEF Begun
  <2>3. QED
    BY <1>1, <2>1, <2>2, Zenon DEF Failed
<1>4. CASE stream' = s /\ status' \in {"FAULT", "UNDEFINED"}
  BY <1>3, <1>4
<1>5. CASE /\ ~FieldFaults(s) /\ s.currentField = TX_RLP_ENVELOPE
           /\ stream' = EnvelopeOpened(s) /\ UNCHANGED status
  <2> DEFINE o == EnvelopeOpened(s)
  <2>1. s.isCurrentFieldList # FALSE
    BY <1>5, Zenon DEF FieldFaults
  <2>2. s.isFieldSingleByte = FALSE /\ HashedTo(s, s.workBuffer - 1)
    BY <1>1, <2>1 DEF Begun, StreamRecord
  <2>3. o = [s EXCEPT !.currentField = TX_RLP_NONCE, !.isProcessingField = FALSE]
    BY DEF EnvelopeOpened
  <2>4. TX_RLP_NONCE \in FieldType
    BY DEF FieldType, TX_RLP_NONCE, TX_RLP_ENVELOPE, TX_RLP_DONE
  <2> HIDE DEF o
  <2>5. o \in StreamRecord
    BY <1>1, <2>3, <2>4 DEF StreamRecord
  <2>6. /\ o.hashed = s.hashed /\ o.workBuffer = s.workBuffer
        /\ o.workBufferLength = s.workBufferLength
        /\ o.currentFieldPos = s.currentFieldPos
        /\ o.currentFieldLength = s.currentFieldLength
        /\ o.rlpBuffer = s.rlpBuffer
        /\ o.isFieldSingleByte = s.isFieldSingleByte
    BY <1>1, <2>3 DEF StreamRecord
  <2>7. Consistent(o)
    BY <1>1, <2>5, <2>6, Zenon DEF Consistent
  <2>8. HashedTo(o, o.workBuffer - 1)
    BY <2>2, <2>6, Zenon DEF HashedTo
  <2>9. QED
    BY <1>5, <2>2, <2>6, <2>7, <2>8, Zenon DEF Sound, o
<1>6. CASE stream' = FieldEnded(FieldRead(s)) /\ UNCHANGED status
  <2>1. n \in Nat
    BY RestIsConsumed
  <2>2. /\ Consistent(c) /\ HashedTo(c, c.workBuffer - 1)
        /\ s.isFieldSingleByte = TRUE => c.currentFieldPos = c.currentFieldLength
    BY RestIsConsumed
  <2>3. /\ Consistent(r) /\ r.hashed = c.hashed /\ r.workBuffer = c.workBuffer
        /\ r.currentFieldPos = c.currentFieldPos
        /\ r.currentFieldLength = c.currentFieldLength
        /\ r.currentField = s.currentField
        /\ r.isFieldSingleByte = s.isFieldSingleByte
    BY <1>1, <2>1, <2>2, ReadKeeps, Zenon
  <2>4. HashedTo(r, r.workBuffer - 1)
    BY <2>2, <2>3, Zenon DEF HashedTo
  <2>5. s.isFieldSingleByte \in BOOLEAN
    BY <1>1 DEF StreamRecord
  <2>6. /\ Consistent(e) /\ e.hashed = r.hashed /\ e.workBuffer = r.workBuffer
        /\ e.isFieldSingleByte = FALSE
    <3> HIDE DEF r, c
    <3>1. r.currentField # TX_RLP_DONE
      BY <2>3
    <3>2. \/ r.currentFieldPos = r.currentFieldLength
          \/ r.isFieldSingleByte = FALSE
      BY <2>2, <2>3, <2>5, Zenon
    <3>3. QED
      BY <2>3, <3>1, <3>2, EndedKeeps, Zenon
  <2>7. HashedTo(e, e.workBuffer - 1)
    BY <2>4, <2>6, Zenon DEF HashedTo
  <2>8. Sound(e)
    BY <2>6, <2>7, Zenon DEF Sound
  <2>9. QED
    BY <1>6, <2>8, Zenon
<1>7. QED
  BY <1>4, <1>5, <1>6, Zenon DEF ParseField

\* A turn of the loop leaves the blocks received alone.
LEMMA SoundThen ==
    ASSUME UNCHANGED received
    PROVE  /\ Sound(stream') => Sound(stream)'
           /\ Failed(stream') => Failed(stream)'
  BY DEF Sound, Failed, Consistent, HashedTo

LEMMA FreshIsSound == received = 0 => Sound(FreshStream)
<1> DEFINE s == FreshStream
<1>1. s \in StreamRecord
  <2>1. <<>> \in HeaderType /\ <<>> \in HashedType
    BY DEF HeaderType, HashedType
  <2>2. [f \in Kept |-> <<>>] \in ValuesType /\ [f \in Kept |-> 0] \in LengthsType
    BY DEF ValuesType, LengthsType
  <2>3. TX_RLP_ENVELOPE \in FieldType
    BY DEF FieldType, TX_RLP_ENVELOPE, TX_RLP_DONE
  <2>4. QED
    BY <2>1, <2>2, <2>3 DEF FreshStream, StreamRecord
<1>2. /\ s.currentFieldPos = 0 /\ s.currentFieldLength = 0 /\ s.rlpBuffer = <<>>
      /\ s.workBuffer = 1 /\ s.workBufferLength = 0 /\ s.hashed = <<>>
      /\ s.isFieldSingleByte = FALSE
  BY DEF FreshStream
<1> HIDE DEF s
<1>3. Len(s.rlpBuffer) <= RLP_LENGTH_BUFFER_SIZE
  BY <1>2 DEF RLP_LENGTH_BUFFER_SIZE
<1>4. HashedTo(s, s.workBuffer - 1)
  BY <1>2 DEF HashedTo
<1>5. received = 0 => Sound(s)
  BY <1>1, <1>2, <1>3, <1>4 DEF Sound, Consistent
<1>6. QED
  BY <1>5 DEF s

-----------------------------------------------------------------------------
(* The invariant *)

LEMMA FreshThen == (received = 0)' => Sound(FreshStream)'
  BY FreshIsSound, PTL

LEMMA StreamInvInit == Init => StreamInv
<1> SUFFICES ASSUME Init
             PROVE  StreamInv
  OBVIOUS
<1>1. Sound(stream) /\ stream.workBufferLength = 0
  BY FreshIsSound DEF Init, FreshStream
<1>2. received \in 0 .. Len(message)
  BY MessagesAssumption DEF Init
<1>3. QED
  BY <1>1, <1>2, Zenon DEF Init, StreamInv

\* A turn of the loop.
LEMMA TurnKeepsInv ==
    ASSUME StreamInv, Parsing,
           \/ status' = "PARSING" /\ Sound(stream')
           \/ status' = "FINISHED" /\ Sound(stream')
           \/ status' = "WAITING" /\ Sound(stream') /\ stream'.workBufferLength = 0
           \/ status' \in {"FAULT", "UNDEFINED"} /\ Failed(stream')
    PROVE  StreamInv'
<1>1. UNCHANGED <<message, received>>
  BY DEF Parsing
<1>2. /\ status' \in {"WAITING", "PARSING", "FINISHED"} => Sound(stream)'
      /\ status' \in {"FAULT", "UNDEFINED"} => Failed(stream)'
  BY <1>1, SoundThen
<1>3. QED
  BY <1>1, <1>2 DEF StreamInv

LEMMA StreamInvNext == StreamInv /\ [Next]_vars => StreamInv'
<1> SUFFICES ASSUME StreamInv, [Next]_vars
             PROVE  StreamInv'
  OBVIOUS
<1>1. /\ message \in Seq(Byte)
      /\ received \in 0 .. Len(message)
      /\ Len(message) \in Nat
  BY MessagesAssumption DEF StreamInv
<1>2. CASE txStreamInit
  <2>1. Sound(stream)' /\ stream'.workBufferLength = 0
    BY <1>2, FreshThen DEF txStreamInit, FreshStream
  <2>2. (received \in 0 .. Len(message))'
    BY <1>2, MessagesAssumption DEF txStreamInit
  <2>3. QED
    BY <1>2, <2>1, <2>2 DEF txStreamInit, StreamInv
<1>3. CASE txStreamProcess
  <2>1. PICK n \in 1 .. Len(message) - received :
            /\ stream' = [stream EXCEPT !.workBuffer = received + 1, !.workBufferLength = n]
            /\ received' = received + n
    BY <1>3 DEF txStreamProcess
  <2>2. /\ Sound(stream) /\ stream.workBufferLength = 0
        /\ status' = "PARSING" /\ message' = message
    BY <1>3 DEF txStreamProcess, StreamInv
  <2>3. /\ stream \in StreamRecord
        /\ stream.workBuffer = received + 1
        /\ Consistent(stream)
    BY <1>1, <2>2 DEF Sound, Consistent, StreamRecord
  <2>4. n \in Nat /\ received + 1 \in Nat /\ 1 <= received + 1
        /\ (received + 1) + n = (received + n) + 1
    BY <1>1, <2>1
  <2>5. stream' \in StreamRecord
    BY <2>1, <2>3, <2>4 DEF StreamRecord
  <2>6. /\ stream'.workBuffer = received + 1 /\ stream'.workBufferLength = n
        /\ stream'.currentFieldPos = stream.currentFieldPos
        /\ stream'.currentFieldLength = stream.currentFieldLength
        /\ stream'.rlpBuffer = stream.rlpBuffer
        /\ stream'.hashed = stream.hashed
        /\ stream'.isFieldSingleByte = stream.isFieldSingleByte
    BY <2>1, <2>3 DEF StreamRecord
  <2>7. Consistent(stream)'
    BY <2>1, <2>3, <2>4, <2>5, <2>6, Zenon DEF Consistent
  <2>8. HashedTo(stream', stream'.workBuffer - 1)
    BY <2>2, <2>3, <2>6, Zenon DEF Sound, HashedTo
  <2>9. Sound(stream)'
    BY <2>2, <2>6, <2>7, <2>8, Zenon DEF Sound
  <2>10. (received \in 0 .. Len(message))'
    BY <1>1, <2>1, <2>2
  <2>11. QED
    BY <2>2, <2>9, <2>10 DEF StreamInv
<1>4. CASE Finish
  BY <1>4, TurnKeepsInv DEF Finish, Parsing, StreamInv
<1>5. CASE Exhaust
  BY <1>5, TurnKeepsInv DEF Exhaust, Parsing, StreamInv
<1>6. CASE DetectField
  <2>1. /\ Parsing /\ Busy /\ Sound(stream) /\ status = "PARSING"
        /\ Consistent(stream) /\ stream \in StreamRecord
    BY <1>6 DEF DetectField, Parsing, StreamInv, Sound, Consistent
  <2>2. Failed(stream)
    <3>1. stream.workBuffer - 1 \in Nat
      BY <2>1 DEF Consistent, StreamRecord
    <3>2. QED
      BY <2>1, <3>1, Zenon DEF Sound, Failed
  <2> DEFINE s == HeaderByte(stream)
  <2>3. CASE status' = "FAULT" /\ UNCHANGED stream
    BY <2>1, <2>2, <2>3, TurnKeepsInv
  <2>4. CASE Len(stream.rlpBuffer) < RLP_LENGTH_BUFFER_SIZE
    <3>1. /\ Sound(s) /\ Len(s.rlpBuffer) >= 1 /\ s.workBuffer >= 2
          /\ s.currentField = stream.currentField
      <4>1. stream.isProcessingField = FALSE
        BY <1>6, <2>1 DEF DetectField, StreamRecord
      <4>2. s.currentField = stream.currentField
        BY <2>1 DEF HeaderByte, Consume, StreamRecord
      <4>3. QED
        BY <1>1, <2>1, <2>4, <4>1, <4>2, HeaderByteIsSound DEF Busy
    <3> HIDE DEF s
    <3>2. CASE stream' = s /\ UNCHANGED status
      BY <2>1, <3>1, <3>2, TurnKeepsInv
    <3>3. CASE status' = "FAULT" /\ stream' = s
      <4>1. s.workBuffer - 1 \in Nat
        BY <3>1 DEF Sound, Consistent, StreamRecord
      <4>2. Failed(s)
        BY <3>1, <4>1, Zenon DEF Sound, Failed
      <4>3. QED
        BY <2>1, <3>3, <4>2, TurnKeepsInv
    <3>4. CASE /\ rlpCanDecode(s.rlpBuffer) /\ rlpIsValid(s.rlpBuffer)
               /\ ParseField(FieldBegun(s))
      <4>1. Begun(FieldBegun(s)) /\ FieldBegun(s).currentField # TX_RLP_DONE
        BY <2>1, <3>1, <3>4, BegunWhenDecoded DEF Busy
      <4>2. \/ status' = "PARSING" /\ Sound(stream')
            \/ status' \in {"FAULT", "UNDEFINED"} /\ Failed(stream')
        BY <2>1, <3>4, <4>1, ParseFieldIsSound
      <4>3. QED
        BY <2>1, <4>2, TurnKeepsInv, Zenon
    <3>5. QED
      BY <1>6, <2>3, <3>2, <3>3, <3>4, Zenon DEF DetectField, s
  <2>5. QED
    BY <1>6, <2>3, <2>4, Zenon DEF DetectField
<1>7. CASE ContinueField
  <2>1. /\ Parsing /\ Sound(stream) /\ status = "PARSING"
        /\ stream.currentField # TX_RLP_DONE /\ stream.isProcessingField
        /\ ParseField(stream)
    BY <1>7 DEF ContinueField, Parsing, Busy, StreamInv
  <2>2. Begun(stream)
    BY <2>1 DEF Sound, Begun, Consistent, StreamRecord
  <2>3. \/ status' = "PARSING" /\ Sound(stream')
        \/ status' \in {"FAULT", "UNDEFINED"} /\ Failed(stream')
    BY <2>1, <2>2, ParseFieldIsSound, Zenon
  <2>4. QED
    BY <2>1, <2>3, TurnKeepsInv, Zenon
<1>8. CASE UNCHANGED vars
  <2>1. UNCHANGED received /\ stream' = stream /\ status' = status /\ message' = message
    BY <1>8 DEF vars
  <2>2. QED
    BY <2>1, SoundThen DEF StreamInv
<1>9. QED
  BY <1>2, <1>3, <1>4, <1>5, <1>6, <1>7, <1>8 DEF Next, txStreamParse

LEMMA StreamInvHolds == Spec => []StreamInv
  BY StreamInvInit, StreamInvNext, PTL DEF Spec

-----------------------------------------------------------------------------
(* The theorems *)

\* Whatever is sent, in whatever blocks, the pointers and counters of the stream
\* context stay in their ranges (transaction.h, tx_stream.h): the work buffer never
\* leaves the message and no more of a field is read than it has.
THEOREM StreamIsTyped == Spec => []StreamTypeOK
<1>1. StreamInv => StreamTypeOK
  <2> SUFFICES ASSUME StreamInv
               PROVE  StreamTypeOK
    OBVIOUS
  <2>1. Consistent(stream) /\ Len(message) \in Nat /\ received \in 0 .. Len(message)
    BY MessagesAssumption DEF StreamInv, Sound, Failed
  <2>2. QED
    BY <2>1 DEF StreamInv, StreamTypeOK, Consistent, StreamRecord, FieldType
<1>2. QED
  BY <1>1, StreamInvHolds, PTL

\* Whatever is sent, in whatever blocks, no byte is hashed twice, skipped or moved
\* (txStreamReadByte, txStreamCopyData and the step back of txStreamParse).
THEOREM BytesAreHashedOnceInOrder == Spec => []HashedOnceInOrder
<1>1. StreamInv => HashedOnceInOrder
  <2> SUFFICES ASSUME StreamInv
               PROVE  HashedOnceInOrder
    OBVIOUS
  <2>1. \E n \in Nat : HashedTo(stream, n)
    <3>1. CASE status \in {"WAITING", "PARSING", "FINISHED"}
      <4>1. Sound(stream)
        BY <3>1 DEF StreamInv
      <4>2. stream.workBuffer - 1 \in Nat
        BY <4>1 DEF Sound, Consistent, StreamRecord
      <4>3. QED
        BY <4>1, <4>2, Zenon DEF Sound
    <3>2. CASE status \in {"FAULT", "UNDEFINED"}
      BY <3>2 DEF StreamInv, Failed
    <3>3. QED
      BY <3>1, <3>2 DEF StreamInv
  <2>2. QED
    BY <2>1 DEF HashedTo, HashedOnceInOrder
<1>2. QED
  BY <1>1, StreamInvHolds, PTL

\* When the stream waits for the next block, the last one has been hashed to its end.
THEOREM AllSentIsHashed == Spec => []AllIsHashed
<1>1. StreamInv => AllIsHashed
  <2> SUFFICES ASSUME StreamInv, status = "WAITING"
               PROVE  Len(stream.hashed) = received
    BY DEF AllIsHashed
  <2>1. /\ Sound(stream) /\ stream.workBufferLength = 0 /\ received \in Nat
    BY MessagesAssumption DEF StreamInv
  <2>2. stream.workBuffer - 1 = received
    BY <2>1 DEF Sound, Consistent, StreamRecord
  <2>3. stream.hashed = [j \in 1 .. received |-> j]
    BY <2>1, <2>2, Zenon DEF Sound, HashedTo
  <2>4. QED
    BY <2>1, <2>3
<1>2. QED
  BY <1>1, StreamInvHolds, PTL
============================================================================
