------------------------ MODULE TxStreamReadingProofs ------------------------
(***************************************************************************)
(* For every set of messages and every way to cut them into blocks: the    *)
(* stream reads a message as the declarative reference FieldStarts does.   *)
(* The fields that are shown are those that were hashed, and the verdict   *)
(* on a block, Verdict, depends on the bytes sent so far alone.            *)
(*                                                                         *)
(* StreamInv says that the bytes before the work buffer have been hashed.  *)
(* Reading adds where in the message that is: the current field starts     *)
(* where the reference says, the header read so far or what was decoded    *)
(* of it is that of the bytes there, and what has been copied of each      *)
(* field are its own bytes.                                                *)
(***************************************************************************)
EXTENDS TxStreamProofs

\* What has been copied of the field f, when its bytes before the position w are read.
CopiedTo(m, s, f, w) == s.value[f] = Positions(PayloadStart(m, Begin(m, f)), w - 1)

CallIsKnown(m, s) ==
    s.isContractCall = LooksLikeCall(FieldLength(Header(m, Begin(m, TX_RLP_DATA))))

\* The fields before the current one, as they were copied.
PastFields(m, s) ==
    /\ \A f \in Kept : f < s.currentField =>
           /\ CopiedTo(m, s, f, Begin(m, f + 1))
           /\ s.length[f] = Len(s.value[f])
    /\ s.currentField > TX_RLP_DATA => CallIsKnown(m, s)

\* Those after it, of which nothing was.
FutureFields(s) == \A f \in Kept : f > s.currentField => s.value[f] = <<>>

\* The header of the current field is being read.
InHeader(m, s) ==
    LET p == Begin(m, s.currentField)
        n == Len(s.rlpBuffer)
    IN  /\ s.workBuffer = p + n
        /\ s.rlpBuffer = SubSeq(m, p, p + n - 1)
        /\ n >= 1 => n < HeaderLength(m[p])
        /\ s.currentField = TX_RLP_DONE => n = 0
        /\ s.currentField \in Kept => s.value[s.currentField] = <<>>

\* The payload of the current field is being read.
InPayload(m, s) ==
    LET p == Begin(m, s.currentField)
    IN  /\ s.currentField # TX_RLP_DONE
        /\ Readable(m, p)
        /\ s.rlpBuffer = <<>>
        /\ s.currentFieldLength = FieldLength(Header(m, p))
        /\ s.isCurrentFieldList = IsList(Header(m, p))
        /\ s.workBuffer = PayloadStart(m, p) + s.currentFieldPos
        /\ s.currentField \in Kept => CopiedTo(m, s, s.currentField, s.workBuffer)

\* The current field is one of the transaction, and the message is well formed up to it.
OnTrack(m, s) ==
    /\ s.currentField # TX_RLP_TYPE
    /\ Begin(m, s.currentField) # None
    /\ PastFields(m, s)
    /\ FutureFields(s)

\* Between two turns of the loop.
Reading(m, s) ==
    /\ OnTrack(m, s)
    /\ s.isProcessingField = FALSE => InHeader(m, s)
    /\ s.isProcessingField = TRUE =>
           /\ InPayload(m, s)
           /\ s.currentField # TX_RLP_ENVELOPE
           /\ s.currentFieldPos # s.currentFieldLength
           /\ ~FieldFaults(s)
           /\ s.currentField = TX_RLP_DATA => CallIsKnown(m, s)

\* A field is about to be parsed.
ReadingBegun(m, s) ==
    /\ OnTrack(m, s)
    /\ InPayload(m, s)
    /\ s.currentField = TX_RLP_ENVELOPE => s.currentFieldPos = 0
    /\ s.currentField = TX_RLP_DATA /\ s.currentFieldPos # 0 => CallIsKnown(m, s)

\* The fields that are read, and what Refused and IsMalformed say of the first n bytes
\* of a message.
FieldsRead == {TX_RLP_ENVELOPE} \cup (TX_RLP_NONCE .. TX_RLP_S)

RefusedBy(m, n, i, f) ==
    \/ /\ i + RLP_LENGTH_BUFFER_SIZE <= n
       /\ HeaderLength(m[i]) > RLP_LENGTH_BUFFER_SIZE
    \/ /\ Readable(m, i)
       /\ i + HeaderLength(m[i]) - 1 <= n
       /\ ~Fits(m, i, f)

MalformedBy(m, n) ==
    \E f \in FieldsRead : Begin(m, f) # None /\ RefusedBy(m, n, Begin(m, f), f)

ReadingInv ==
    /\ status \in {"WAITING", "PARSING", "FINISHED"} => Reading(message, stream)
    /\ status = "FINISHED" => stream.currentField = TX_RLP_DONE
    /\ status = "WAITING" => stream.currentField # TX_RLP_DONE
    /\ status = "FAULT" => MalformedBy(message, received)

-----------------------------------------------------------------------------
(* The reference, unfolded: the table of the fields' places is what its    *)
(* recursive definition says, since a table that solves it can be named.   *)

FirstStart(m) ==
    IF Readable(m, 1) /\ Fits(m, 1, TX_RLP_ENVELOPE) THEN 1 + HeaderLength(m[1]) ELSE None

StartAfter(m, i, f) == IF i # None /\ Acceptable(m, i, f) THEN ItemEnd(m, i) ELSE None

Places == TX_RLP_NONCE .. TX_RLP_DONE

Solves(m, table) ==
    table = [f \in Places |-> IF f = TX_RLP_NONCE THEN FirstStart(m)
                              ELSE StartAfter(m, table[f - 1], f - 1)]

LEMMA StartsAreChosen ==
    ASSUME NEW m
    PROVE  FieldStarts(m) = CHOOSE table : Solves(m, table)
  BY Zenon DEF FieldStarts, Solves, Places, FirstStart, StartAfter

LEMMA PlacesAre ==
    /\ Places = {3, 4, 5, 6, 7, 8, 9, 10, 11, 12}
    /\ TX_RLP_NONCE = 3 /\ TX_RLP_DONE = 12
  BY DEF Places, TX_RLP_NONCE, TX_RLP_DONE

LEMMA StartsSolve ==
    ASSUME NEW m
    PROVE  Solves(m, FieldStarts(m))
<1> DEFINE next(i, f) == StartAfter(m, i, f)
           v3  == FirstStart(m)
           v4  == next(v3, 3)
           v5  == next(v4, 4)
           v6  == next(v5, 5)
           v7  == next(v6, 6)
           v8  == next(v7, 7)
           v9  == next(v8, 8)
           v10 == next(v9, 9)
           v11 == next(v10, 10)
           v12 == next(v11, 11)
           table == [f \in Places |->
                        IF f = 3 THEN v3 ELSE IF f = 4 THEN v4 ELSE IF f = 5 THEN v5
                        ELSE IF f = 6 THEN v6 ELSE IF f = 7 THEN v7 ELSE IF f = 8 THEN v8
                        ELSE IF f = 9 THEN v9 ELSE IF f = 10 THEN v10 ELSE IF f = 11 THEN v11
                        ELSE v12]
           then(f) == IF f = TX_RLP_NONCE THEN FirstStart(m)
                      ELSE StartAfter(m, table[f - 1], f - 1)
<1>1. /\ v4 = next(v3, 3) /\ v5 = next(v4, 4) /\ v6 = next(v5, 5) /\ v7 = next(v6, 6)
      /\ v8 = next(v7, 7) /\ v9 = next(v8, 8) /\ v10 = next(v9, 9) /\ v11 = next(v10, 10)
      /\ v12 = next(v11, 11)
  OBVIOUS
<1> HIDE DEF v3, v4, v5, v6, v7, v8, v9, v10, v11, v12
<1>2. /\ table[3] = v3 /\ table[4] = v4 /\ table[5] = v5 /\ table[6] = v6 /\ table[7] = v7
      /\ table[8] = v8 /\ table[9] = v9 /\ table[10] = v10 /\ table[11] = v11
      /\ table[12] = v12
  BY PlacesAre
<1> HIDE DEF table
<1>3. v3 = FirstStart(m)
  BY DEF v3
<1>4. \A f \in Places : table[f] = then(f)
  <2> SUFFICES ASSUME NEW f \in {3, 4, 5, 6, 7, 8, 9, 10, 11, 12}
               PROVE  table[f] = then(f)
    BY PlacesAre
  <2>1. CASE f = 3
    BY <1>2, <1>3, <2>1, PlacesAre
  <2>2. CASE f # 3
    <3>1. f - 1 \in {3, 4, 5, 6, 7, 8, 9, 10, 11}
      BY <2>2
    <3>2. table[f] = next(table[f - 1], f - 1)
      BY <1>1, <1>2, <2>2
    <3>3. QED
      BY <2>2, <3>2, PlacesAre
  <2>3. QED
    BY <2>1, <2>2
<1>5. table = [f \in Places |-> then(f)]
  <2>1. table = [f \in Places |-> table[f]]
    BY DEF table
  <2>2. QED
    BY <1>4, <2>1
<1>6. Solves(m, table)
  BY <1>5 DEF Solves
<1>7. QED
  BY <1>6, StartsAreChosen

LEMMA StartsAre ==
    ASSUME NEW m
    PROVE  /\ FieldStarts(m)[3] = FirstStart(m)
           /\ \A f \in 3 .. 11 : FieldStarts(m)[f + 1] = StartAfter(m, FieldStarts(m)[f], f)
<1> DEFINE at == FieldStarts(m)
<1>1. at = [f \in Places |-> IF f = TX_RLP_NONCE THEN FirstStart(m)
                             ELSE StartAfter(m, at[f - 1], f - 1)]
  BY StartsSolve, Zenon DEF Solves
<1> HIDE DEF at
<1>2. \A f \in Places : at[f] = IF f = TX_RLP_NONCE THEN FirstStart(m)
                                ELSE StartAfter(m, at[f - 1], f - 1)
  BY <1>1, Zenon
<1>3. at[3] = FirstStart(m)
  BY <1>2, PlacesAre
<1>4. ASSUME NEW f \in 3 .. 11
      PROVE  at[f + 1] = StartAfter(m, at[f], f)
  <2>1. f + 1 \in Places /\ f + 1 # TX_RLP_NONCE /\ (f + 1) - 1 = f
    BY PlacesAre DEF Places
  <2>2. QED
    BY <1>2, <2>1, Zenon
<1>5. QED
  BY <1>3, <1>4 DEF at

-----------------------------------------------------------------------------
(* Items of a message *)

LEMMA HeaderLengths == \A first \in Byte : HeaderLength(first) \in Nat /\ HeaderLength(first) >= 1
  BY DEF Byte, HeaderLength

\* A header of at most five bytes is one that is not too long.
LEMMA ShortIsValid ==
    \A first \in Byte : HeaderLength(first) <= RLP_LENGTH_BUFFER_SIZE
                            <=> first \notin 188 .. 191 /\ first < 252
  BY DEF Byte, HeaderLength, RLP_LENGTH_BUFFER_SIZE

LEMMA HeaderReads ==
    ASSUME NEW m \in Seq(Byte), NEW p \in Nat \ {0}, Readable(m, p)
    PROVE  /\ p \in 1 .. Len(m)
           /\ m[p] \in Byte
           /\ HeaderLength(m[p]) \in 1 .. RLP_LENGTH_BUFFER_SIZE
           /\ Header(m, p) \in Seq(Byte)
           /\ Len(Header(m, p)) = HeaderLength(m[p])
           /\ Header(m, p)[1] = m[p]
           /\ rlpCanDecode(Header(m, p))
           /\ rlpIsValid(Header(m, p))
           /\ FieldLength(Header(m, p)) \in Nat
<1> DEFINE size == HeaderLength(m[p])
           h == Header(m, p)
<1>1. p \in 1 .. Len(m)
  BY DEF Readable
<1>2. m[p] \in Byte
  BY <1>1
<1>3. size \in Nat /\ size >= 1 /\ size <= RLP_LENGTH_BUFFER_SIZE
  BY <1>2, HeaderLengths DEF Readable
<1>4. p + size - 1 <= Len(m)
  BY DEF Readable
<1>5. h = SubSeq(m, p, p + size - 1)
  BY DEF Header
<1> HIDE DEF size, h
<1>6. h \in Seq(Byte) /\ Len(h) = size /\ h[1] = m[p]
  BY <1>1, <1>3, <1>4, <1>5
<1>7. rlpCanDecode(h)
  BY <1>3, <1>6 DEF rlpCanDecode, size
<1>8. rlpIsValid(h)
  BY <1>2, <1>3, <1>6, ShortIsValid DEF rlpIsValid, size
<1>9. FieldLength(h) \in Nat
  BY <1>3, <1>6, <1>7, <1>8, FieldLengthIsNat
<1>10. size \in 1 .. RLP_LENGTH_BUFFER_SIZE
  BY <1>3 DEF RLP_LENGTH_BUFFER_SIZE
<1>11. QED
  BY <1>1, <1>2, <1>6, <1>7, <1>8, <1>9, <1>10 DEF size, h

\* A self-encoded byte is its own payload; everything else lies behind its header.
LEMMA ItemReads ==
    ASSUME NEW m \in Seq(Byte), NEW p \in Nat \ {0}, Readable(m, p)
    PROVE  /\ PayloadStart(m, p) \in Nat \ {0}
           /\ ItemEnd(m, p) \in Nat
           /\ ItemEnd(m, p) = PayloadStart(m, p) + FieldLength(Header(m, p))
           /\ ItemEnd(m, p) > p
           /\ IF IsSelfEncoded(Header(m, p))
              THEN /\ HeaderLength(m[p]) = 1
                   /\ PayloadStart(m, p) = p
                   /\ FieldLength(Header(m, p)) = 1
                   /\ ~IsList(Header(m, p))
              ELSE PayloadStart(m, p) = p + HeaderLength(m[p])
<1> DEFINE h == Header(m, p)
           size == HeaderLength(m[p])
           length == FieldLength(h)
           start == PayloadStart(m, p)
<1>1. /\ m[p] \in Byte /\ size \in 1 .. RLP_LENGTH_BUFFER_SIZE
      /\ h[1] = m[p] /\ length \in Nat
  BY HeaderReads
<1>2. start = IF IsSelfEncoded(h) THEN p ELSE p + size
  BY DEF PayloadStart
<1>3. ItemEnd(m, p) = start + length
  BY DEF ItemEnd
<1>4. IsSelfEncoded(h) => size = 1 /\ length = 1 /\ ~IsList(h)
  <2> HIDE DEF h
  <2>1. m[p] \in Nat /\ m[p] <= 255
    BY <1>1, BytesAreSmall
  <2>2. IsSelfEncoded(h) <=> m[p] <= 127
    BY <1>1, Zenon DEF IsSelfEncoded
  <2>3. IsList(h) <=> m[p] >= 192
    BY <1>1, Zenon DEF IsList
  <2>4. m[p] <= 127 => length = 1
    BY <1>1, Zenon DEF FieldLength
  <2>5. m[p] <= 127 => size = 1
    BY <2>1 DEF HeaderLength
  <2>6. QED
    BY <2>1, <2>2, <2>3, <2>4, <2>5
<1> HIDE DEF h, size, length, start
<1>5. size \in Nat /\ size >= 1
  BY <1>1
<1>6. CASE IsSelfEncoded(h)
  <2>1. start = p /\ size = 1 /\ length = 1 /\ ~IsList(h)
    BY <1>2, <1>4, <1>6
  <2>2. start + length \in Nat /\ start + length > p /\ start \in Nat \ {0}
    BY <2>1
  <2>3. QED
    BY <1>3, <1>6, <2>1, <2>2 DEF h, size, length, start
<1>7. CASE ~IsSelfEncoded(h)
  <2>1. start = p + size
    BY <1>2, <1>7
  <2>2. start + length \in Nat /\ start + length > p /\ start \in Nat \ {0}
    BY <1>1, <1>5, <2>1
  <2>3. QED
    BY <1>3, <1>7, <2>1, <2>2 DEF h, size, length, start
<1>8. QED
  BY <1>6, <1>7

\* One field leads to a later place, or the message is no transaction.
LEMMA StartAfterIsLater ==
    ASSUME NEW m \in Seq(Byte), NEW i \in Nat, NEW f
    PROVE  /\ StartAfter(m, i, f) \in Nat
           /\ StartAfter(m, i, f) # None => i # None /\ i < StartAfter(m, i, f)
<1>1. CASE i # None /\ Acceptable(m, i, f)
  <2>1. i \in Nat \ {0} /\ Readable(m, i)
    BY <1>1 DEF None, Acceptable
  <2>2. ItemEnd(m, i) \in Nat /\ ItemEnd(m, i) > i
    BY <2>1, ItemReads
  <2>3. QED
    BY <1>1, <2>2 DEF StartAfter
<1>2. CASE ~(i # None /\ Acceptable(m, i, f))
  BY <1>2 DEF StartAfter, None
<1>3. QED
  BY <1>1, <1>2

LEMMA FirstStartIsNat ==
    ASSUME NEW m \in Seq(Byte)
    PROVE  FirstStart(m) \in Nat
<1>1. CASE Readable(m, 1) /\ Fits(m, 1, TX_RLP_ENVELOPE)
  <2>1. HeaderLength(m[1]) \in 1 .. RLP_LENGTH_BUFFER_SIZE
    BY <1>1, HeaderReads
  <2>2. QED
    BY <1>1, <2>1 DEF FirstStart, RLP_LENGTH_BUFFER_SIZE
<1>2. CASE ~(Readable(m, 1) /\ Fits(m, 1, TX_RLP_ENVELOPE))
  BY <1>2 DEF FirstStart, None
<1>3. QED
  BY <1>1, <1>2

\* A field that has a place comes behind all those before it, which have theirs.
LEMMA StartsGrow ==
    ASSUME NEW m \in Seq(Byte)
    PROVE  /\ \A f \in 3 .. 12 : FieldStarts(m)[f] \in Nat
           /\ \A f \in 3 .. 12, g \in 3 .. 12 : f <= g /\ FieldStarts(m)[g] # None =>
                  FieldStarts(m)[f] # None /\ FieldStarts(m)[f] <= FieldStarts(m)[g]
<1> DEFINE at == FieldStarts(m)
           Step(f) == at[f] \in Nat =>
                          /\ at[f + 1] \in Nat
                          /\ at[f + 1] # None => at[f] # None /\ at[f] < at[f + 1]
<1>1. at[3] \in Nat
  BY StartsAre, FirstStartIsNat
<1>2. \A f \in 3 .. 11 : Step(f)
  <2> SUFFICES ASSUME NEW f \in 3 .. 11, at[f] \in Nat
               PROVE  /\ at[f + 1] \in Nat
                      /\ at[f + 1] # None => at[f] # None /\ at[f] < at[f + 1]
    OBVIOUS
  <2>1. at[f + 1] = StartAfter(m, at[f], f)
    BY StartsAre
  <2> HIDE DEF at
  <2>2. QED
    BY <2>1, StartAfterIsLater
<1> HIDE DEF at
<1>3. /\ Step(3) /\ Step(4) /\ Step(5) /\ Step(6) /\ Step(7) /\ Step(8) /\ Step(9)
      /\ Step(10) /\ Step(11)
  BY <1>2
<1>4. /\ at[4] \in Nat /\ at[5] \in Nat /\ at[6] \in Nat /\ at[7] \in Nat /\ at[8] \in Nat
      /\ at[9] \in Nat /\ at[10] \in Nat /\ at[11] \in Nat /\ at[12] \in Nat
  BY <1>1, <1>3
<1>5. \A f \in 3 .. 12 : f \in {3, 4, 5, 6, 7, 8, 9, 10, 11, 12}
  OBVIOUS
<1>6. \A f \in 3 .. 12 : at[f] \in Nat
  BY <1>1, <1>4, <1>5
<1>7. \A f \in 3 .. 11 : at[f + 1] # None => at[f] # None /\ at[f] < at[f + 1]
  <2> SUFFICES ASSUME NEW f \in 3 .. 11, at[f + 1] # None
               PROVE  at[f] # None /\ at[f] < at[f + 1]
    OBVIOUS
  <2>1. Step(f)
    BY <1>2
  <2>2. f \in 3 .. 12
    OBVIOUS
  <2>3. QED
    BY <1>6, <2>1, <2>2
<1>8. ASSUME NEW g \in 3 .. 12, at[g] # None
      PROVE  \A f \in 3 .. 12 : f <= g => at[f] # None /\ at[f] <= at[g]
  <2> DEFINE Good(f) == f <= g => at[f] # None /\ at[f] <= at[g]
  <2>1. \A f \in 3 .. 11 : Good(f + 1) => Good(f)
    <3> SUFFICES ASSUME NEW f \in 3 .. 11, Good(f + 1), f <= g
                 PROVE  at[f] # None /\ at[f] <= at[g]
      OBVIOUS
    <3>1. f \in 3 .. 12 /\ f + 1 \in 3 .. 12
      OBVIOUS
    <3>2. at[f] \in Nat /\ at[f + 1] \in Nat /\ at[g] \in Nat
      BY <1>6, <3>1
    <3>3. CASE f = g
      BY <1>8, <3>2, <3>3
    <3>4. CASE f # g
      <4>1. at[f + 1] # None /\ at[f + 1] <= at[g]
        BY <3>4
      <4>2. at[f] # None /\ at[f] < at[f + 1]
        BY <1>7, <4>1
      <4>3. QED
        BY <3>2, <4>1, <4>2
    <3>5. QED
      BY <3>3, <3>4
  <2>2. Good(12)
    <3>1. 12 <= g => g = 12
      OBVIOUS
    <3>2. at[g] \in Nat
      BY <1>6
    <3>3. QED
      BY <1>8, <3>1, <3>2
  <2>3. /\ Good(12) => Good(11)
        /\ Good(11) => Good(10)
        /\ Good(10) => Good(9)
        /\ Good(9) => Good(8)
        /\ Good(8) => Good(7)
        /\ Good(7) => Good(6)
        /\ Good(6) => Good(5)
        /\ Good(5) => Good(4)
        /\ Good(4) => Good(3)
    BY <2>1
  <2> HIDE DEF Good
  <2>4. \A f \in 3 .. 12 : Good(f)
    BY <1>5, <2>2, <2>3
  <2>5. QED
    BY <2>4 DEF Good
<1>9. QED
  BY <1>6, <1>8 DEF at

-----------------------------------------------------------------------------
(* Where the current field begins *)

LEMMA FieldNumbers ==
    /\ TX_RLP_ENVELOPE = 1 /\ TX_RLP_TYPE = 2 /\ TX_RLP_NONCE = 3 /\ TX_RLP_DATA = 8
    /\ TX_RLP_DONE = 12 /\ FieldType = 1 .. 12
    /\ Kept = {4, 5, 6, 7, 9}
    /\ None = 0 /\ RLP_LENGTH_BUFFER_SIZE = 5
  BY DEF TX_RLP_ENVELOPE, TX_RLP_TYPE, TX_RLP_NONCE, TX_RLP_DATA, TX_RLP_DONE, FieldType,
     Kept, TX_RLP_GAS_PRICE, TX_RLP_START_GAS, TX_RLP_RECIPIENT, TX_RLP_VALUE, TX_RLP_V,
     None, RLP_LENGTH_BUFFER_SIZE

LEMMA FieldsReadAre == FieldsRead = FieldType \ {TX_RLP_TYPE, TX_RLP_DONE}
  BY FieldNumbers DEF FieldsRead, TX_RLP_S

LEMMA BeginIs ==
    ASSUME NEW m \in Seq(Byte)
    PROVE  /\ Begin(m, 1) = 1
           /\ Begin(m, 3) = FirstStart(m)
           /\ \A f \in 3 .. 11 : Begin(m, f + 1) = StartAfter(m, Begin(m, f), f)
           /\ \A f \in 3 .. 12 : Begin(m, f) = FieldStarts(m)[f]
           /\ \A f \in FieldType \ {TX_RLP_TYPE} : Begin(m, f) \in Nat
<1>1. \A f \in 3 .. 12 : Begin(m, f) = FieldStarts(m)[f]
  BY FieldNumbers DEF Begin
<1>2. Begin(m, 1) = 1
  BY FieldNumbers DEF Begin
<1>3. Begin(m, 3) = FirstStart(m)
  BY <1>1, StartsAre
<1>4. ASSUME NEW f \in 3 .. 11
      PROVE  Begin(m, f + 1) = StartAfter(m, Begin(m, f), f)
  <2>1. f \in 3 .. 12 /\ f + 1 \in 3 .. 12
    OBVIOUS
  <2>2. FieldStarts(m)[f + 1] = StartAfter(m, FieldStarts(m)[f], f)
    BY StartsAre
  <2>3. QED
    BY <1>1, <2>1, <2>2, Zenon
<1>5. ASSUME NEW f \in FieldType \ {TX_RLP_TYPE}
      PROVE  Begin(m, f) \in Nat
  <2>1. f = 1 \/ f \in 3 .. 12
    BY FieldNumbers
  <2>2. QED
    <3>1. CASE f = 1
      BY <1>2, <3>1
    <3>2. CASE f \in 3 .. 12
      <4>1. FieldStarts(m)[f] \in Nat
        BY <3>2, StartsGrow
      <4>2. QED
        BY <1>1, <3>2, <4>1
    <3>3. QED
      BY <2>1, <3>1, <3>2
<1>6. QED
  BY <1>1, <1>2, <1>3, <1>4, <1>5

\* If the message is a transaction, every field of it has a place, not behind its end.
LEMMA TransactionsHaveAll ==
    ASSUME NEW m \in Seq(Byte), IsTransaction(m), NEW f \in 3 .. 12
    PROVE  Begin(m, f) # None /\ Begin(m, f) <= Begin(m, 12)
<1>1. FieldStarts(m)[12] # None
  BY FieldNumbers DEF IsTransaction
<1>2. FieldStarts(m)[f] # None /\ FieldStarts(m)[f] <= FieldStarts(m)[12]
  <2>1. 12 \in 3 .. 12 /\ f <= 12
    OBVIOUS
  <2>2. QED
    BY <1>1, <2>1, StartsGrow
<1>3. QED
  BY <1>2, BeginIs

\* Once an item cannot be read, or is not one of its field's, all is lost.
LEMMA LostForGood ==
    ASSUME NEW m \in Seq(Byte), NEW f \in FieldType, f # TX_RLP_TYPE, f # TX_RLP_DONE,
           ~(Readable(m, Begin(m, f)) /\ Fits(m, Begin(m, f), f))
    PROVE  ~IsTransaction(m)
<1>1. CASE f = 1
  <2>1. Begin(m, 3) = None
    BY <1>1, BeginIs, FieldNumbers DEF FirstStart
  <2>2. QED
    BY <2>1, TransactionsHaveAll
<1>2. CASE f # 1
  <2>1. f \in 3 .. 11 /\ f + 1 \in 3 .. 12
    BY <1>2, FieldNumbers
  <2>2. Begin(m, f + 1) = StartAfter(m, Begin(m, f), f)
    BY <2>1, BeginIs
  <2>3. ~Acceptable(m, Begin(m, f), f)
    BY Zenon DEF Acceptable
  <2>4. Begin(m, f + 1) = None
    BY <2>2, <2>3, Zenon DEF StartAfter
  <2>5. QED
    BY <2>1, <2>4, TransactionsHaveAll
<1>3. QED
  BY <1>1, <1>2

LEMMA MalformedIsNone ==
    ASSUME NEW m \in Seq(Byte), IsMalformed(m)
    PROVE  ~IsTransaction(m)
<1>1. PICK f \in FieldsRead : Begin(m, f) # None /\ Refused(m, Begin(m, f), f)
  BY DEF IsMalformed, FieldsRead
<1>2. f \in FieldType /\ f # TX_RLP_TYPE /\ f # TX_RLP_DONE
  BY FieldsReadAre, FieldNumbers
<1>3. Begin(m, f) \in Nat \ {0}
  BY <1>1, <1>2, BeginIs, FieldNumbers
<1>4. ~(Readable(m, Begin(m, f)) /\ Fits(m, Begin(m, f), f))
  <2>1. Readable(m, Begin(m, f))
            => HeaderLength(m[Begin(m, f)]) \in 1 .. RLP_LENGTH_BUFFER_SIZE
    BY <1>3, HeaderReads
  <2>2. \A n \in 1 .. RLP_LENGTH_BUFFER_SIZE : ~(n > RLP_LENGTH_BUFFER_SIZE)
    BY FieldNumbers
  <2>3. QED
    BY <1>1, <2>1, <2>2, Zenon DEF Refused
<1>5. QED
  BY <1>2, <1>4, LostForGood

\* What is known of the fields is known from four items of the context.
LEMMA OnTrackStays ==
    ASSUME NEW m, NEW s, NEW t, OnTrack(m, s),
           t.currentField = s.currentField, t.value = s.value, t.length = s.length,
           t.isContractCall = s.isContractCall
    PROVE  OnTrack(m, t)
  BY Zenon DEF OnTrack, PastFields, FutureFields, CopiedTo, CallIsKnown

-----------------------------------------------------------------------------
(* Headers *)

\* The header has been read up to the last byte there was.
HeaderReadTo(m, h) ==
    LET p == Begin(m, h.currentField)
        n == Len(h.rlpBuffer)
    IN  /\ OnTrack(m, h)
        /\ h.currentField # TX_RLP_DONE
        /\ p \in Nat \ {0}
        /\ n >= 1
        /\ p + n - 1 <= Len(m)
        /\ h.workBuffer = p + n
        /\ h.rlpBuffer = SubSeq(m, p, p + n - 1)
        /\ n <= HeaderLength(m[p])
        /\ h.currentField \in Kept => h.value[h.currentField] = <<>>

LEMMA HeaderByteReads ==
    ASSUME Sound(stream), Reading(message, stream), stream.isProcessingField = FALSE,
           stream.workBufferLength # 0, stream.currentField # TX_RLP_DONE,
           Len(stream.rlpBuffer) < RLP_LENGTH_BUFFER_SIZE,
           message \in Seq(Byte), received \in 0 .. Len(message)
    PROVE  HeaderReadTo(message, HeaderByte(stream))
<1> DEFINE s == stream
           m == message
           h == HeaderByte(s)
           p == Begin(m, s.currentField)
           n == Len(s.rlpBuffer)
<1>1. /\ s \in StreamRecord /\ s.workBuffer \in Nat /\ s.workBufferLength \in Nat
      /\ s.workBuffer + s.workBufferLength = received + 1
      /\ s.rlpBuffer \in Seq(Byte) /\ n \in Nat
      /\ s.currentField \in FieldType
  BY DEF Sound, Consistent, StreamRecord, HeaderType
<1>2. OnTrack(m, s) /\ InHeader(m, s)
  BY DEF Reading
<1>3. p \in Nat /\ p # 0
  BY <1>1, <1>2, BeginIs, FieldNumbers DEF OnTrack
<1>4. /\ s.workBuffer = p + n
      /\ s.rlpBuffer = SubSeq(m, p, p + n - 1)
      /\ n >= 1 => n < HeaderLength(m[p])
      /\ s.currentField \in Kept => s.value[s.currentField] = <<>>
  BY <1>2 DEF InHeader
<1>5. Len(m) \in Nat /\ p + n <= Len(m)
  <2>1. Len(message) \in Nat /\ received \in Nat /\ received <= Len(message)
    OBVIOUS
  <2>2. s.workBufferLength >= 1
    BY <1>1
  <2>3. s.workBuffer <= Len(message)
    BY <1>1, <2>1, <2>2
  <2> HIDE DEF s, p, n
  <2>4. QED
    BY <1>4, <2>1, <2>3
<1>6. /\ h.rlpBuffer = Append(s.rlpBuffer, m[s.workBuffer])
      /\ h.workBuffer = s.workBuffer + 1
      /\ h.currentField = s.currentField /\ h.value = s.value /\ h.length = s.length
      /\ h.isContractCall = s.isContractCall
  BY <1>1 DEF HeaderByte, Consume, StreamRecord
<1>7. OnTrack(m, h)
  BY <1>2, <1>6, OnTrackStays, Zenon
<1> HIDE DEF s, m, h, p, n
<1>8. m \in Seq(Byte)
  BY DEF m
<1>9. Append(SubSeq(m, p, p + n - 1), m[p + n]) = SubSeq(m, p, p + n)
  BY <1>1, <1>3, <1>5, <1>8
<1>10. h.rlpBuffer = SubSeq(m, p, p + n) /\ Len(h.rlpBuffer) = n + 1
  BY <1>1, <1>3, <1>4, <1>5, <1>6, <1>8, <1>9
<1>11. n + 1 <= HeaderLength(m[p])
  <2>1. m[p] \in Byte
    BY <1>1, <1>3, <1>5, <1>8
  <2>2. QED
    BY <1>1, <1>4, <2>1, HeaderLengths
<1>12. p + (n + 1) - 1 = p + n /\ n + 1 >= 1 /\ p + n + 1 = p + (n + 1)
  BY <1>1, <1>3
<1>13. h.currentField # TX_RLP_DONE
  BY <1>6 DEF s
<1>14. h.currentField \in Kept => h.value[h.currentField] = <<>>
  BY <1>4, <1>6, Zenon
<1>15. /\ p = Begin(m, h.currentField)
       /\ h.workBuffer = p + (n + 1)
  BY <1>4, <1>6, <1>12 DEF p
<1>16. HeaderReadTo(m, h)
  BY <1>3, <1>5, <1>7, <1>10, <1>11, <1>12, <1>13, <1>14, <1>15 DEF HeaderReadTo
<1>17. QED
  BY <1>16 DEF m, h, s

LEMMA FirstOfHeader ==
    ASSUME NEW m \in Seq(Byte), NEW p \in Nat \ {0}, NEW n \in Nat, n >= 1, p + n - 1 <= Len(m)
    PROVE  /\ SubSeq(m, p, p + n - 1)[1] = m[p]
           /\ Len(SubSeq(m, p, p + n - 1)) = n
           /\ m[p] \in Byte
  OBVIOUS

\* The header goes on in the next byte, maybe of the next block.
LEMMA HeaderGoesOn ==
    ASSUME NEW m \in Seq(Byte), NEW h, h.rlpBuffer \in Seq(Byte), HeaderReadTo(m, h),
           h.isProcessingField = FALSE, ~rlpCanDecode(h.rlpBuffer)
    PROVE  Reading(m, h)
<1> DEFINE p == Begin(m, h.currentField)
           n == Len(h.rlpBuffer)
<1>1. /\ p \in Nat \ {0} /\ n \in Nat /\ n >= 1 /\ p + n - 1 <= Len(m)
      /\ h.rlpBuffer = SubSeq(m, p, p + n - 1)
  BY DEF HeaderReadTo
<1>2. h.rlpBuffer[1] = m[p] /\ m[p] \in Byte
  <2> HIDE DEF p, n
  <2>1. QED
    BY <1>1, FirstOfHeader
<1>3. HeaderLength(m[p]) \in Nat
  BY <1>2, HeaderLengths
<1>4. n < HeaderLength(m[p])
  BY <1>1, <1>2, <1>3 DEF rlpCanDecode
<1>5. InHeader(m, h)
  BY <1>1, <1>4 DEF InHeader, HeaderReadTo
<1>6. QED
  BY <1>5 DEF Reading, HeaderReadTo

\* A header that has been read to its end is that of the reference.
LEMMA HeaderIsWhole ==
    ASSUME NEW m \in Seq(Byte), NEW h, h.rlpBuffer \in Seq(Byte), HeaderReadTo(m, h),
           rlpCanDecode(h.rlpBuffer), Len(h.rlpBuffer) <= RLP_LENGTH_BUFFER_SIZE
    PROVE  /\ Readable(m, Begin(m, h.currentField))
           /\ h.rlpBuffer = Header(m, Begin(m, h.currentField))
           /\ h.workBuffer
                  = Begin(m, h.currentField) + HeaderLength(m[Begin(m, h.currentField)])
           /\ rlpIsValid(h.rlpBuffer)
<1> DEFINE p == Begin(m, h.currentField)
           n == Len(h.rlpBuffer)
<1>1. /\ p \in Nat \ {0} /\ n \in Nat /\ n >= 1 /\ p + n - 1 <= Len(m)
      /\ h.rlpBuffer = SubSeq(m, p, p + n - 1)
      /\ n <= HeaderLength(m[p])
      /\ h.workBuffer = p + n
  BY DEF HeaderReadTo
<1>2. h.rlpBuffer[1] = m[p] /\ m[p] \in Byte
  <2> HIDE DEF p, n
  <2>1. QED
    BY <1>1, FirstOfHeader
<1>3. HeaderLength(m[p]) \in Nat
  BY <1>2, HeaderLengths
<1>4. n = HeaderLength(m[p])
  BY <1>1, <1>2, <1>3 DEF rlpCanDecode
<1>5. Len(m) \in Nat /\ p <= Len(m)
  BY <1>1
<1>6. Readable(m, p)
  BY <1>1, <1>4, <1>5 DEF Readable
<1>7. h.rlpBuffer = Header(m, p)
  BY <1>1, <1>4 DEF Header
<1>8. rlpIsValid(h.rlpBuffer)
  BY <1>1, <1>6, <1>7, HeaderReads
<1>9. QED
  BY <1>1, <1>4, <1>6, <1>7, <1>8

\* One that is longer than the buffer for headers has no place in a transaction.
LEMMA HeaderTooLong ==
    ASSUME NEW m \in Seq(Byte), NEW s, s.currentField \in FieldType, OnTrack(m, s),
           InHeader(m, s), Len(s.rlpBuffer) = RLP_LENGTH_BUFFER_SIZE,
           NEW n \in Nat, s.workBuffer <= n
    PROVE  MalformedBy(m, n)
<1> DEFINE f == s.currentField
           p == Begin(m, f)
<1>1. s.workBuffer = p + 5 /\ HeaderLength(m[p]) > 5
  <2>1. Len(s.rlpBuffer) = 5
    BY FieldNumbers
  <2>2. s.workBuffer = p + Len(s.rlpBuffer) /\ Len(s.rlpBuffer) < HeaderLength(m[p])
    BY <2>1 DEF InHeader
  <2>3. QED
    BY <2>1, <2>2
<1>2. f # TX_RLP_TYPE /\ f # TX_RLP_DONE /\ f \in FieldType /\ p # None
  BY FieldNumbers DEF OnTrack, InHeader
<1>3. RefusedBy(m, n, p, f)
  BY <1>1, FieldNumbers DEF RefusedBy
<1>4. f \in FieldsRead
  BY <1>2, FieldsReadAre
<1>5. QED
  BY <1>2, <1>3, <1>4, Zenon DEF MalformedBy

-----------------------------------------------------------------------------
(* Payloads *)

\* Copying more bytes.
LEMMA PositionsExtend ==
    ASSUME NEW from \in Nat, NEW w \in Nat, from <= w, NEW n \in Nat
    PROVE  Positions(from, w - 1) \o [j \in 1 .. n |-> w + j - 1] = Positions(from, w + n - 1)
<1>1. /\ (w - 1) - from + 1 = w - from /\ w - from \in Nat
      /\ (w + n - 1) - from + 1 = (w - from) + n
  OBVIOUS
<1>2. Positions(from, w - 1) = [j \in 1 .. w - from |-> from + j - 1]
  BY <1>1 DEF Positions
<1>3. Positions(from, w + n - 1) = [j \in 1 .. (w - from) + n |-> from + j - 1]
  BY <1>1 DEF Positions
<1>4. PICK k \in Nat : k = w - from
  BY <1>1
<1>5. [j \in 1 .. n |-> w + j - 1] = [j \in 1 .. n |-> from + (k + j) - 1]
  BY <1>4
<1>6. [j \in 1 .. k |-> from + j - 1] \o [j \in 1 .. n |-> from + (k + j) - 1]
          = [j \in 1 .. k + n |-> from + j - 1]
  OBVIOUS
<1>7. QED
  BY <1>2, <1>3, <1>4, <1>5, <1>6

LEMMA NothingCopied == \A from \in Nat : Positions(from, from - 1) = <<>>
  BY DEF Positions

LEMMA CopiedLength ==
    ASSUME NEW from \in Nat, NEW n \in Nat
    PROVE  Len(Positions(from, from + n - 1)) = n
<1>1. (from + n - 1) - from + 1 = n
  OBVIOUS
<1>2. QED
  BY <1>1 DEF Positions

\* The payload begins where the header ends, at the byte itself if it is self-encoded.
LEMMA PayloadBegins ==
    ASSUME NEW m \in Seq(Byte), NEW h \in StreamRecord, HeaderReadTo(m, h),
           rlpCanDecode(h.rlpBuffer), Len(h.rlpBuffer) <= RLP_LENGTH_BUFFER_SIZE
    PROVE  ReadingBegun(m, FieldBegun(h))
<1> DEFINE f == FieldBegun(h)
           p == Begin(m, h.currentField)
           header == Header(m, p)
           back == IF IsSelfEncoded(h.rlpBuffer) THEN 1 ELSE 0
<1>1. h.rlpBuffer \in Seq(Byte) /\ h.workBuffer \in Nat
  BY DEF StreamRecord, HeaderType
<1>2. /\ Readable(m, p) /\ h.rlpBuffer = header
      /\ h.workBuffer = p + HeaderLength(m[p])
  BY <1>1, HeaderIsWhole
<1>3. OnTrack(m, h) /\ p \in Nat \ {0} /\ h.currentField # TX_RLP_DONE
  BY DEF HeaderReadTo
<1>4. /\ f.currentField = h.currentField /\ f.value = h.value /\ f.length = h.length
      /\ f.isContractCall = h.isContractCall
      /\ f.currentFieldLength = FieldLength(h.rlpBuffer)
      /\ f.isCurrentFieldList = IsList(h.rlpBuffer)
      /\ f.workBuffer = h.workBuffer - back
      /\ f.rlpBuffer = <<>>
      /\ f.currentFieldPos = 0
  BY DEF FieldBegun, StreamRecord
<1>5. OnTrack(m, f)
  BY <1>3, <1>4, OnTrackStays, Zenon
<1>6. /\ PayloadStart(m, p) \in Nat \ {0}
      /\ IF IsSelfEncoded(header)
         THEN HeaderLength(m[p]) = 1 /\ PayloadStart(m, p) = p
         ELSE PayloadStart(m, p) = p + HeaderLength(m[p])
  BY <1>2, <1>3, ItemReads
<1>7. f.workBuffer = PayloadStart(m, p)
  <2>1. CASE IsSelfEncoded(header)
    <3>1. back = 1
      BY <1>2, <2>1
    <3>2. QED
      BY <1>2, <1>3, <1>4, <1>6, <2>1, <3>1
  <2>2. CASE ~IsSelfEncoded(header)
    <3>1. back = 0
      BY <1>2, <2>2
    <3>2. h.workBuffer - 0 = h.workBuffer
      BY <1>1
    <3>3. QED
      BY <1>2, <1>4, <1>6, <2>2, <3>1, <3>2
  <2>3. QED
    BY <2>1, <2>2
<1>8. f.currentField \in Kept => CopiedTo(m, f, f.currentField, f.workBuffer)
  <2> SUFFICES ASSUME f.currentField \in Kept
               PROVE  f.value[f.currentField]
                          = Positions(PayloadStart(m, Begin(m, f.currentField)),
                                      f.workBuffer - 1)
    BY DEF CopiedTo
  <2>1. f.value[f.currentField] = <<>>
    BY <1>4 DEF HeaderReadTo
  <2>2. Begin(m, f.currentField) = p
    BY <1>4
  <2> HIDE DEF f, p
  <2>3. QED
    BY <1>6, <1>7, <2>1, <2>2, NothingCopied
<1>9. InPayload(m, f)
  <2>1. f.workBuffer = PayloadStart(m, p) + f.currentFieldPos
    <3> HIDE DEF f, p
    <3>1. QED
      BY <1>4, <1>6, <1>7
  <2>2. /\ f.currentField # TX_RLP_DONE /\ Begin(m, f.currentField) = p
        /\ f.currentFieldLength = FieldLength(header)
        /\ f.isCurrentFieldList = IsList(header)
    BY <1>2, <1>3, <1>4
  <2> HIDE DEF f, p
  <2>3. QED
    BY <1>2, <1>4, <1>8, <2>1, <2>2, Zenon DEF InPayload, header
<1> HIDE DEF f
<1>10. QED
  BY <1>4, <1>5, <1>9, Zenon DEF ReadingBegun, f

\* What the parser refuses does not fit its field, what it does not refuse does.
LEMMA FaultsAreRight ==
    ASSUME NEW m \in Seq(Byte), NEW s \in StreamRecord, OnTrack(m, s), InPayload(m, s)
    PROVE  FieldFaults(s) <=> ~Fits(m, Begin(m, s.currentField), s.currentField)
<1> DEFINE f == s.currentField
           p == Begin(m, f)
<1>1. /\ f \in FieldType /\ f # TX_RLP_TYPE /\ f # TX_RLP_DONE
      /\ s.isCurrentFieldList = IsList(Header(m, p))
      /\ s.currentFieldLength = FieldLength(Header(m, p))
      /\ Readable(m, p) /\ p # None
  BY DEF OnTrack, InPayload, StreamRecord
<1>2. CASE f = TX_RLP_ENVELOPE
  BY <1>1, <1>2, Zenon DEF FieldFaults, Fits
<1>3. CASE f # TX_RLP_ENVELOPE
  <2>1. p \in Nat \ {0}
    BY <1>1, BeginIs, FieldNumbers
  <2>2. FieldLength(Header(m, p)) \in Nat
    BY <1>1, <2>1, HeaderReads
  <2>3. FieldSize(f) \in Nat
    BY DEF FieldSize
  <2>4. FieldFaults(s) <=> \/ IsList(Header(m, p))
                           \/ f \notin Unlimited /\ FieldLength(Header(m, p)) > FieldSize(f)
    BY <1>1, <1>3, Zenon DEF FieldFaults
  <2>5. FieldLength(Header(m, p)) > FieldSize(f)
            <=> ~(FieldLength(Header(m, p)) <= FieldSize(f))
    BY <2>2, <2>3
  <2>6. QED
    BY <1>3, <2>4, <2>5, Zenon DEF Fits
<1>4. QED
  BY <1>2, <1>3

\* A header that does not fit has been received when the parser refuses it.
LEMMA FaultIsMalformed ==
    ASSUME NEW m \in Seq(Byte), NEW s \in StreamRecord, ReadingBegun(m, s), FieldFaults(s),
           NEW n \in Nat,
           Begin(m, s.currentField) + HeaderLength(m[Begin(m, s.currentField)]) <= n + 1
    PROVE  MalformedBy(m, n)
<1> DEFINE f == s.currentField
           p == Begin(m, f)
<1>1. /\ f \in FieldType /\ f # TX_RLP_TYPE /\ f # TX_RLP_DONE
      /\ Readable(m, p) /\ p # None
  BY DEF ReadingBegun, OnTrack, InPayload, StreamRecord
<1>2. ~Fits(m, p, f)
  BY FaultsAreRight DEF ReadingBegun
<1>3. p + HeaderLength(m[p]) - 1 <= n
  <2>1. p \in Nat \ {0}
    BY <1>1, BeginIs, FieldNumbers
  <2>2. HeaderLength(m[p]) \in 1 .. RLP_LENGTH_BUFFER_SIZE
    BY <1>1, <2>1, HeaderReads
  <2>3. HeaderLength(m[p]) \in Nat /\ p + HeaderLength(m[p]) <= n + 1
    BY <2>2, FieldNumbers
  <2> HIDE DEF p
  <2>4. QED
    BY <2>1, <2>3
<1>4. f \in FieldsRead
  BY <1>1, FieldsReadAre
<1>5. QED
  BY <1>1, <1>2, <1>3, <1>4, Zenon DEF MalformedBy, RefusedBy

\* The envelope's payload is the fields.
LEMMA EnvelopeReads ==
    ASSUME NEW m \in Seq(Byte), NEW s \in StreamRecord, ReadingBegun(m, s), ~FieldFaults(s),
           s.currentField = TX_RLP_ENVELOPE
    PROVE  Reading(m, EnvelopeOpened(s))
<1> DEFINE o == EnvelopeOpened(s)
<1>1. /\ o.currentField = TX_RLP_NONCE /\ o.isProcessingField = FALSE
      /\ o.value = s.value /\ o.length = s.length /\ o.isContractCall = s.isContractCall
      /\ o.workBuffer = s.workBuffer /\ o.rlpBuffer = s.rlpBuffer
  BY DEF EnvelopeOpened, StreamRecord
<1>2. Begin(m, s.currentField) = 1
  BY DEF Begin
<1>3. Fits(m, 1, TX_RLP_ENVELOPE) /\ IsList(Header(m, 1)) /\ Readable(m, 1)
  <2>1. s.isCurrentFieldList = IsList(Header(m, 1)) /\ Readable(m, 1)
    BY <1>2, Zenon DEF ReadingBegun, InPayload
  <2>2. s.isCurrentFieldList
    BY Zenon DEF FieldFaults
  <2>3. QED
    BY <2>1, <2>2, Zenon DEF Fits
<1>4. /\ s.workBuffer = PayloadStart(m, 1) + s.currentFieldPos
      /\ s.currentFieldPos = 0 /\ s.rlpBuffer = <<>>
  BY <1>2 DEF ReadingBegun, InPayload
<1>5. PayloadStart(m, 1) = 1 + HeaderLength(m[1]) /\ PayloadStart(m, 1) \in Nat \ {0}
  BY <1>3, ItemReads
<1>6. s.workBuffer = 1 + HeaderLength(m[1])
  BY <1>4, <1>5
<1>7. Begin(m, TX_RLP_NONCE) = s.workBuffer /\ s.workBuffer \in Nat \ {0}
  <2>1. FirstStart(m) = 1 + HeaderLength(m[1])
    BY <1>3 DEF FirstStart
  <2>2. QED
    BY <1>4, <1>5, <1>6, <2>1, BeginIs, FieldNumbers
<1>8. \A f \in Kept : s.value[f] = <<>>
  <2>1. \A f \in Kept : f > s.currentField
    BY FieldNumbers
  <2>2. QED
    BY <2>1 DEF ReadingBegun, OnTrack, FutureFields
<1> HIDE DEF o
<1>9. OnTrack(m, o)
  <2>1. PastFields(m, o)
    BY <1>1, FieldNumbers DEF PastFields
  <2>2. FutureFields(o)
    BY <1>1, <1>8, Zenon DEF FutureFields
  <2>3. Begin(m, o.currentField) # None /\ o.currentField # TX_RLP_TYPE
    BY <1>1, <1>7, FieldNumbers
  <2>4. QED
    BY <2>1, <2>2, <2>3 DEF OnTrack
<1>10. InHeader(m, o)
  <2>1. Len(o.rlpBuffer) = 0
    BY <1>1, <1>4
  <2>2. o.workBuffer = Begin(m, o.currentField) + 0
    BY <1>1, <1>7
  <2>3. o.rlpBuffer = SubSeq(m, Begin(m, o.currentField), Begin(m, o.currentField) + 0 - 1)
    BY <1>1, <1>4, <1>7
  <2>4. o.currentField # TX_RLP_DONE /\ o.currentField \notin Kept
    BY <1>1, FieldNumbers
  <2>5. QED
    BY <2>1, <2>2, <2>3, <2>4 DEF InHeader
<1>11. QED
  BY <1>1, <1>9, <1>10 DEF Reading, o

\* Bytes of the payload are copied to where they belong.
LEMMA PayloadReads ==
    ASSUME NEW m \in Seq(Byte), NEW s \in StreamRecord, ReadingBegun(m, s),
           s.isProcessingField = TRUE, ToCopy(s) \in Nat
    PROVE  /\ OnTrack(m, FieldRead(s))
           /\ InPayload(m, FieldRead(s))
           /\ FieldRead(s).currentField = TX_RLP_DATA => CallIsKnown(m, FieldRead(s))
<1> DEFINE n == ToCopy(s)
           r == FieldRead(s)
           f == s.currentField
           p == Begin(m, f)
           start == PayloadStart(m, p)
<1>1. /\ f \in FieldType /\ f # TX_RLP_TYPE /\ f # TX_RLP_DONE
      /\ s.workBuffer \in Nat /\ s.currentFieldPos \in Nat
      /\ s.value \in ValuesType
      /\ OnTrack(m, s) /\ InPayload(m, s) /\ Readable(m, p) /\ p # None
  BY DEF ReadingBegun, OnTrack, InPayload, StreamRecord
<1>2. p \in Nat \ {0}
  BY <1>1, BeginIs, FieldNumbers
<1>3. /\ start \in Nat \ {0}
      /\ s.workBuffer = start + s.currentFieldPos
  BY <1>1, <1>2, ItemReads DEF InPayload
<1>4. start <= s.workBuffer
  <2> HIDE DEF start
  <2>1. QED
    BY <1>1, <1>3
<1>5. /\ r.currentField = f /\ r.length = s.length
      /\ r.currentFieldLength = s.currentFieldLength
      /\ r.isCurrentFieldList = s.isCurrentFieldList
      /\ r.rlpBuffer = s.rlpBuffer
      /\ r.workBuffer = s.workBuffer + n
      /\ r.currentFieldPos = s.currentFieldPos + n
      /\ r.value = Filled(s.value, f, Upcoming(s, n))
      /\ r.isContractCall = IF f = TX_RLP_DATA /\ s.currentFieldPos = 0
                            THEN LooksLikeCall(s.currentFieldLength) ELSE s.isContractCall
  BY DEF FieldRead, Consume, StreamRecord
<1>6. n \in Nat
  OBVIOUS
<1> HIDE DEF n, r
<1>7. \A g \in Kept : g # f => r.value[g] = s.value[g]
  BY <1>1, <1>5 DEF Filled, ValuesType
<1>8. f \in Kept => r.value[f] = Positions(start, r.workBuffer - 1)
  <2> SUFFICES ASSUME f \in Kept
               PROVE  r.value[f] = Positions(start, r.workBuffer - 1)
    OBVIOUS
  <2>1. r.value[f] = s.value[f] \o Upcoming(s, n)
    BY <1>1, <1>5 DEF Filled, ValuesType
  <2>2. s.value[f] = Positions(start, s.workBuffer - 1)
    BY <1>1, Zenon DEF InPayload, CopiedTo
  <2>3. Upcoming(s, n) = [j \in 1 .. n |-> s.workBuffer + j - 1]
    BY Zenon DEF Upcoming
  <2> HIDE DEF start
  <2>4. Positions(start, s.workBuffer - 1) \o [j \in 1 .. n |-> s.workBuffer + j - 1]
            = Positions(start, s.workBuffer + n - 1)
    BY <1>1, <1>3, <1>4, <1>6, PositionsExtend
  <2>5. r.value[f] = Positions(start, s.workBuffer + n - 1)
    BY <2>1, <2>2, <2>3, <2>4
  <2>6. r.workBuffer - 1 = s.workBuffer + n - 1
    BY <1>1, <1>5, <1>6
  <2>7. QED
    BY <2>5, <2>6, Zenon
<1>9. OnTrack(m, r)
  <2>1. PastFields(m, r)
    <3>1. PastFields(m, s)
      BY <1>1 DEF OnTrack
    <3>2. \A g \in Kept : g < f => g # f
      BY <1>1, FieldNumbers
    <3>3. ASSUME NEW g \in Kept, g < f
          PROVE  CopiedTo(m, r, g, Begin(m, g + 1)) /\ r.length[g] = Len(r.value[g])
      <4>1. r.value[g] = s.value[g] /\ r.length[g] = s.length[g]
        BY <1>5, <1>7, <3>2, <3>3, Zenon
      <4>2. CopiedTo(m, s, g, Begin(m, g + 1)) /\ s.length[g] = Len(s.value[g])
        BY <3>1, <3>3, Zenon DEF PastFields
      <4>3. QED
        BY <4>1, <4>2, Zenon DEF CopiedTo
    <3>4. f > TX_RLP_DATA => r.isContractCall = s.isContractCall
      BY <1>1, <1>5, FieldNumbers
    <3>5. f > TX_RLP_DATA => CallIsKnown(m, r)
      BY <3>1, <3>4, Zenon DEF PastFields, CallIsKnown
    <3>6. QED
      BY <1>5, <3>3, <3>5, Zenon DEF PastFields
  <2>2. FutureFields(r)
    <3>1. \A g \in Kept : g > f => g # f
      BY <1>1, FieldNumbers
    <3>2. FutureFields(s)
      BY <1>1 DEF OnTrack
    <3>3. QED
      BY <1>5, <1>7, <3>1, <3>2, Zenon DEF FutureFields
  <2>3. QED
    BY <1>1, <1>5, <2>1, <2>2, Zenon DEF OnTrack
<1>10. InPayload(m, r)
  <2>1. r.workBuffer = start + r.currentFieldPos
    <3> HIDE DEF start
    <3>1. QED
      BY <1>1, <1>3, <1>5, <1>6
  <2>2. f \in Kept => CopiedTo(m, r, f, r.workBuffer)
    BY <1>8, Zenon DEF CopiedTo
  <2>3. QED
    BY <1>1, <1>5, <2>1, <2>2, Zenon DEF InPayload
<1>11. r.currentField = TX_RLP_DATA => CallIsKnown(m, r)
  <2> SUFFICES ASSUME f = TX_RLP_DATA
               PROVE  CallIsKnown(m, r)
    BY <1>5
  <2>1. CASE s.currentFieldPos = 0
    <3>1. r.isContractCall = LooksLikeCall(s.currentFieldLength)
      BY <1>5, <2>1
    <3>2. s.currentFieldLength = FieldLength(Header(m, p))
      BY <1>1, Zenon DEF InPayload
    <3>3. QED
      BY <3>1, <3>2, Zenon DEF CallIsKnown
  <2>2. CASE s.currentFieldPos # 0
    <3>1. r.isContractCall = s.isContractCall
      BY <1>5, <2>2
    <3>2. CallIsKnown(m, s)
      BY <2>2, Zenon DEF ReadingBegun
    <3>3. QED
      BY <3>1, <3>2, Zenon DEF CallIsKnown
  <2>3. QED
    BY <2>1, <2>2
<1>12. QED
  BY <1>9, <1>10, <1>11 DEF r

\* After the last byte of its payload a field is one of the past, and the next begins.
LEMMA FieldEnds ==
    ASSUME NEW m \in Seq(Byte), NEW r \in StreamRecord, OnTrack(m, r), InPayload(m, r),
           r.isProcessingField = TRUE, r.currentField # TX_RLP_ENVELOPE,
           r.currentField = TX_RLP_DATA => CallIsKnown(m, r),
           ~FieldFaults(r), r.workBuffer <= Len(m) + 1
    PROVE  Reading(m, FieldEnded(r))
<1> DEFINE e == FieldEnded(r)
           f == r.currentField
           p == Begin(m, f)
           start == PayloadStart(m, p)
           length == FieldLength(Header(m, p))
<1>1. CASE r.currentFieldPos # r.currentFieldLength
  BY <1>1 DEF FieldEnded, Reading
<1>2. CASE r.currentFieldPos = r.currentFieldLength
  <2>1. /\ f \in 3 .. 11 /\ Readable(m, p) /\ p # None
        /\ r.rlpBuffer = <<>> /\ r.currentFieldLength = length
        /\ r.workBuffer = start + length
        /\ r.isCurrentFieldList = IsList(Header(m, p))
        /\ r.length \in LengthsType
    <3>1. f \in FieldType /\ f # 1 /\ f # 2 /\ f # 12
      BY FieldNumbers DEF OnTrack, InPayload, StreamRecord
    <3>2. f \in 3 .. 11
      BY <3>1, FieldNumbers
    <3>3. QED
      BY <1>2, <3>2 DEF OnTrack, InPayload, StreamRecord
  <2>2. /\ f + 1 \in 4 .. 12 /\ f + 1 \in Nat
        /\ f # TX_RLP_ENVELOPE
        /\ \A g \in Kept : g < f + 1 => g = f \/ g < f
        /\ \A g \in Kept : g > f + 1 => g > f
        /\ f + 1 > f
        /\ f + 1 > TX_RLP_DATA => f > TX_RLP_DATA \/ f = TX_RLP_DATA
    BY <2>1, FieldNumbers
  <2>3. p \in Nat \ {0}
    <3>1. f \in FieldType \ {TX_RLP_TYPE}
      BY <2>1, FieldNumbers
    <3>2. QED
      BY <2>1, <3>1, BeginIs, FieldNumbers
  <2>4. /\ start \in Nat \ {0} /\ length \in Nat
        /\ ItemEnd(m, p) = start + length /\ ItemEnd(m, p) > p
    BY <2>1, <2>3, ItemReads, HeaderReads
  <2>5. Acceptable(m, p, f)
    <3>1. Fits(m, p, f)
      BY FaultsAreRight
    <3>2. ItemEnd(m, p) <= Len(m) + 1
      BY <2>1, <2>4, Zenon
    <3>3. QED
      BY <2>1, <3>1, <3>2, Zenon DEF Acceptable
  <2>6. Begin(m, f + 1) = r.workBuffer
    <3>1. Begin(m, f + 1) = StartAfter(m, p, f)
      BY <2>1, BeginIs
    <3>2. StartAfter(m, p, f) = ItemEnd(m, p)
      BY <2>1, <2>5, Zenon DEF StartAfter
    <3>3. QED
      BY <2>1, <2>4, <3>1, <3>2, Zenon
  <2>7. r.workBuffer \in Nat \ {0}
    <3> HIDE DEF start, length
    <3>1. QED
      BY <2>1, <2>4
  <2>8. /\ e.currentField = f + 1 /\ e.isProcessingField = FALSE
        /\ e.value = r.value /\ e.isContractCall = r.isContractCall
        /\ e.workBuffer = r.workBuffer /\ e.rlpBuffer = <<>>
        /\ e.length = IF f \in Kept THEN [r.length EXCEPT ![f] = r.currentFieldLength]
                      ELSE r.length
    BY <1>2, <2>1 DEF FieldEnded, StreamRecord
  <2>9. f \in Kept => r.value[f] = Positions(start, r.workBuffer - 1)
    BY Zenon DEF InPayload, CopiedTo
  <2>10. f \in Kept => e.length[f] = Len(e.value[f])
    <3> SUFFICES ASSUME f \in Kept
                 PROVE  e.length[f] = Len(e.value[f])
      OBVIOUS
    <3>1. e.length[f] = length
      BY <2>1, <2>8 DEF LengthsType
    <3> HIDE DEF start, length, e
    <3>2. Len(Positions(start, start + length - 1)) = length
      BY <2>4, CopiedLength
    <3>3. Positions(start, r.workBuffer - 1) = Positions(start, start + length - 1)
      <4>1. r.workBuffer - 1 = start + length - 1
        BY <2>1, <2>4
      <4>2. QED
        BY <4>1, Zenon
    <3>4. e.value[f] = Positions(start, start + length - 1)
      BY <2>8, <2>9, <3>3
    <3>5. QED
      BY <3>1, <3>2, <3>4
  <2>11. \A g \in Kept : g # f => e.length[g] = r.length[g]
    BY <2>1, <2>8 DEF LengthsType
  <2> HIDE DEF e
  <2>12. PastFields(m, e)
    <3>1. PastFields(m, r)
      BY DEF OnTrack
    <3>2. ASSUME NEW g \in Kept, g < f + 1
          PROVE  CopiedTo(m, e, g, Begin(m, g + 1)) /\ e.length[g] = Len(e.value[g])
      <4>1. CASE g = f
        <5>1. e.value[g] = Positions(start, Begin(m, g + 1) - 1)
          BY <2>6, <2>8, <2>9, <4>1, Zenon
        <5>2. QED
          BY <2>10, <4>1, <5>1, Zenon DEF CopiedTo
      <4>2. CASE g # f
        <5>1. g < f
          BY <2>2, <3>2, <4>2, Zenon
        <5>2. CopiedTo(m, r, g, Begin(m, g + 1)) /\ r.length[g] = Len(r.value[g])
          BY <3>1, <5>1, Zenon DEF PastFields
        <5>3. QED
          BY <2>8, <2>11, <4>2, <5>2, Zenon DEF CopiedTo
      <4>3. QED
        BY <4>1, <4>2
    <3>3. f + 1 > TX_RLP_DATA => CallIsKnown(m, e)
      <4>1. f > TX_RLP_DATA => CallIsKnown(m, r)
        BY <3>1, Zenon DEF PastFields
      <4>2. CallIsKnown(m, r) => CallIsKnown(m, e)
        BY <2>8, Zenon DEF CallIsKnown
      <4>3. QED
        BY <2>2, <4>1, <4>2, Zenon
    <3>4. QED
      BY <2>8, <3>2, <3>3, Zenon DEF PastFields
  <2>13. FutureFields(e)
    <3>1. FutureFields(r)
      BY DEF OnTrack
    <3>2. QED
      BY <2>2, <2>8, <3>1, Zenon DEF FutureFields
  <2>14. OnTrack(m, e)
    <3>1. f + 1 # TX_RLP_TYPE
      BY <2>2, FieldNumbers
    <3>2. Begin(m, f + 1) # None
      BY <2>6, <2>7, FieldNumbers
    <3>3. QED
      BY <2>8, <2>12, <2>13, <3>1, <3>2, Zenon DEF OnTrack
  <2>15. InHeader(m, e)
    <3> DEFINE q == Begin(m, e.currentField)
    <3>1. q = r.workBuffer
      BY <2>6, <2>8, Zenon
    <3>2. Len(e.rlpBuffer) = 0
      BY <2>8
    <3> HIDE DEF q
    <3>3. e.workBuffer = q + 0 /\ e.rlpBuffer = SubSeq(m, q, q + 0 - 1)
      BY <2>7, <2>8, <3>1
    <3>4. e.currentField \in Kept => e.value[e.currentField] = <<>>
      <4>1. f + 1 \in Kept => r.value[f + 1] = <<>>
        BY <2>2, Zenon DEF OnTrack, FutureFields
      <4>2. QED
        BY <2>8, <4>1, Zenon
    <3>5. QED
      BY <3>2, <3>3, <3>4 DEF InHeader, q
  <2>16. QED
    BY <2>8, <2>14, <2>15, Zenon DEF Reading, e
<1>3. QED
  BY <1>1, <1>2

-----------------------------------------------------------------------------
(* A turn of the loop *)

\* The verdict on a field, or where the parser stands after it.
LEMMA ParseFieldReads ==
    ASSUME NEW s, Begun(s), ReadingBegun(message, s), status = "PARSING", ParseField(s),
           message \in Seq(Byte), received \in 0 .. Len(message)
    PROVE  \/ status' = "PARSING" /\ Reading(message, stream')
           \/ status' = "FAULT" /\ FieldFaults(s)
           \/ status' = "UNDEFINED"
<1>1. s \in StreamRecord /\ s.isProcessingField = TRUE
  BY DEF Begun, Consistent
<1>2. CASE FieldFaults(s) /\ status' = "FAULT"
  BY <1>2
<1>3. CASE /\ ~FieldFaults(s) /\ s.currentField = TX_RLP_ENVELOPE
           /\ stream' = EnvelopeOpened(s) /\ UNCHANGED status
  <2>1. Reading(message, EnvelopeOpened(s))
    BY <1>1, <1>3, EnvelopeReads
  <2>2. QED
    BY <1>3, <2>1
<1>4. CASE /\ ~FieldFaults(s) /\ s.currentField # TX_RLP_ENVELOPE
           /\ stream' = FieldEnded(FieldRead(s)) /\ UNCHANGED status
  <2> DEFINE r == FieldRead(s)
  <2>1. ToCopy(s) \in Nat /\ Consistent(Consume(s, ToCopy(s)))
    BY RestIsConsumed
  <2>2. Consistent(r)
    BY <1>1, <2>1, ReadKeeps
  <2>3. /\ OnTrack(message, r) /\ InPayload(message, r)
        /\ r.currentField = TX_RLP_DATA => CallIsKnown(message, r)
    BY <1>1, <2>1, PayloadReads
  <2>4. /\ r.isProcessingField = TRUE /\ r.currentField = s.currentField
        /\ r.isCurrentFieldList = s.isCurrentFieldList
        /\ r.currentFieldLength = s.currentFieldLength
    BY <1>1 DEF FieldRead, Consume, StreamRecord
  <2> HIDE DEF r
  <2>5. ~FieldFaults(r)
    BY <1>4, <2>4, Zenon DEF FieldFaults
  <2>6. r \in StreamRecord /\ r.workBuffer <= Len(message) + 1
    <3>1. /\ r \in StreamRecord /\ r.workBuffer \in Nat /\ r.workBufferLength \in Nat
          /\ r.workBuffer + r.workBufferLength = received + 1
      BY <2>2 DEF Consistent, StreamRecord
    <3>2. Len(message) \in Nat /\ received \in Nat /\ received <= Len(message)
      OBVIOUS
    <3>3. QED
      BY <3>1, <3>2
  <2>7. Reading(message, FieldEnded(r))
    BY <1>4, <2>3, <2>4, <2>5, <2>6, FieldEnds
  <2>8. QED
    BY <1>4, <2>7 DEF r
<1>5. CASE status' = "UNDEFINED"
  BY <1>5
<1>6. QED
  BY <1>2, <1>3, <1>4, <1>5, Zenon DEF ParseField

\* A block of its own takes the place of the last one.
LEMMA ReadingStays ==
    ASSUME NEW m, NEW s, NEW t, Reading(m, s),
           t.currentField = s.currentField, t.value = s.value, t.length = s.length,
           t.isContractCall = s.isContractCall, t.rlpBuffer = s.rlpBuffer,
           t.workBuffer = s.workBuffer, t.isProcessingField = s.isProcessingField,
           t.currentFieldPos = s.currentFieldPos, t.currentFieldLength = s.currentFieldLength,
           t.isCurrentFieldList = s.isCurrentFieldList
    PROVE  Reading(m, t)
<1>1. OnTrack(m, s) => OnTrack(m, t)
  BY OnTrackStays
<1>2. InHeader(m, s) => InHeader(m, t)
  BY Zenon DEF InHeader
<1>3. InPayload(m, s) => InPayload(m, t)
  BY Zenon DEF InPayload, CopiedTo
<1>4. CallIsKnown(m, s) => CallIsKnown(m, t)
  BY Zenon DEF CallIsKnown
<1>5. FieldFaults(t) => FieldFaults(s)
  BY Zenon DEF FieldFaults
<1>6. QED
  BY <1>1, <1>2, <1>3, <1>4, <1>5, Zenon DEF Reading

LEMMA FreshReads ==
    ASSUME NEW m \in Seq(Byte)
    PROVE  Reading(m, FreshStream)
<1> DEFINE s == FreshStream
<1>1. /\ s.currentField = 1 /\ s.isProcessingField = FALSE /\ s.rlpBuffer = <<>>
      /\ s.workBuffer = 1 /\ s.value = [f \in Kept |-> <<>>]
  BY FieldNumbers DEF FreshStream
<1> HIDE DEF s
<1>2. Begin(m, s.currentField) = 1
  BY <1>1, BeginIs
<1>3. OnTrack(m, s)
  <2>1. PastFields(m, s)
    BY <1>1, FieldNumbers DEF PastFields
  <2>2. FutureFields(s)
    BY <1>1 DEF FutureFields
  <2>3. QED
    BY <1>1, <1>2, <2>1, <2>2, FieldNumbers DEF OnTrack
<1>4. InHeader(m, s)
  <2>1. Len(s.rlpBuffer) = 0 /\ s.rlpBuffer = SubSeq(m, 1, 1 + 0 - 1)
    BY <1>1
  <2>2. s.currentField # TX_RLP_DONE /\ s.currentField \notin Kept
    BY <1>1, FieldNumbers
  <2>3. QED
    BY <1>1, <1>2, <2>1, <2>2 DEF InHeader
<1>5. QED
  BY <1>1, <1>3, <1>4 DEF Reading, s

LEMMA ReadingInvInit == Init => ReadingInv
<1> SUFFICES ASSUME Init
             PROVE  ReadingInv
  OBVIOUS
<1>1. message \in Seq(Byte) /\ status = "WAITING" /\ stream = FreshStream
  BY MessagesAssumption DEF Init
<1>2. Reading(message, stream)
  BY <1>1, FreshReads
<1>3. stream.currentField # TX_RLP_DONE
  BY <1>1, FieldNumbers DEF FreshStream
<1>4. QED
  BY <1>1, <1>2, <1>3 DEF ReadingInv

LEMMA ReadingInvNext == StreamInv /\ ReadingInv /\ [Next]_vars => ReadingInv'
<1> SUFFICES ASSUME StreamInv, ReadingInv, [Next]_vars
             PROVE  ReadingInv'
  OBVIOUS
<1>1. message \in Seq(Byte) /\ received \in 0 .. Len(message)
  BY MessagesAssumption DEF StreamInv
<1>2. CASE txStreamInit
  <2>1. message' \in Seq(Byte) /\ status' = "WAITING" /\ stream' = FreshStream
    BY <1>2, MessagesAssumption DEF txStreamInit
  <2>2. Reading(message', stream')
    BY <2>1, FreshReads
  <2>3. stream'.currentField # TX_RLP_DONE
    BY <2>1, FieldNumbers DEF FreshStream
  <2>4. QED
    BY <2>1, <2>2, <2>3 DEF ReadingInv
<1>3. CASE txStreamProcess
  <2>1. /\ status' = "PARSING" /\ message' = message /\ Reading(message, stream)
        /\ Sound(stream) /\ stream.workBufferLength = 0
    BY <1>3 DEF txStreamProcess, ReadingInv, StreamInv
  <2>2. stream \in StreamRecord /\ stream.workBuffer = received + 1
    BY <1>1, <2>1 DEF Sound, Consistent, StreamRecord
  <2>3. \E n : stream' = [stream EXCEPT !.workBuffer = received + 1, !.workBufferLength = n]
    BY <1>3 DEF txStreamProcess
  <2>4. /\ stream'.workBuffer = stream.workBuffer
        /\ stream'.currentField = stream.currentField /\ stream'.value = stream.value
        /\ stream'.length = stream.length /\ stream'.isContractCall = stream.isContractCall
        /\ stream'.rlpBuffer = stream.rlpBuffer
        /\ stream'.isProcessingField = stream.isProcessingField
        /\ stream'.currentFieldPos = stream.currentFieldPos
        /\ stream'.currentFieldLength = stream.currentFieldLength
        /\ stream'.isCurrentFieldList = stream.isCurrentFieldList
    BY <2>2, <2>3 DEF StreamRecord
  <2>5. Reading(message, stream')
    BY <2>1, <2>4, ReadingStays
  <2>6. QED
    BY <2>1, <2>5 DEF ReadingInv
<1>4. CASE Finish
  BY <1>4 DEF Finish, Parsing, ReadingInv
<1>5. CASE Exhaust
  BY <1>5 DEF Exhaust, Parsing, ReadingInv
<1>6. CASE DetectField
  <2>1. /\ status = "PARSING" /\ message' = message /\ received' = received
        /\ Sound(stream) /\ Reading(message, stream) /\ stream \in StreamRecord
        /\ stream.currentField # TX_RLP_DONE /\ stream.workBufferLength # 0
    BY <1>6 DEF DetectField, Parsing, Busy, StreamInv, ReadingInv, Sound, Consistent
  <2>2. stream.isProcessingField = FALSE
    BY <1>6, <2>1 DEF DetectField, StreamRecord
  <2> DEFINE h == HeaderByte(stream)
  <2>3. CASE status' = "FAULT" /\ Len(stream.rlpBuffer) = RLP_LENGTH_BUFFER_SIZE
    <3>1. OnTrack(message, stream) /\ InHeader(message, stream)
      BY <2>1, <2>2 DEF Reading
    <3>2. stream.currentField \in FieldType
      BY <2>1 DEF StreamRecord
    <3>3. received \in Nat /\ stream.workBuffer <= received
      <4>1. /\ stream.workBuffer + stream.workBufferLength = received + 1
            /\ stream.workBuffer \in Nat /\ stream.workBufferLength \in Nat
        BY <2>1 DEF Sound, Consistent, StreamRecord
      <4>2. received \in Nat
        BY <1>1
      <4>3. QED
        BY <2>1, <4>1, <4>2
    <3>4. MalformedBy(message, received)
      BY <1>1, <2>3, <3>1, <3>2, <3>3, HeaderTooLong
    <3>5. QED
      BY <2>1, <2>3, <3>4 DEF ReadingInv
  <2>4. CASE Len(stream.rlpBuffer) < RLP_LENGTH_BUFFER_SIZE
    <3>1. HeaderReadTo(message, h)
      BY <1>1, <2>1, <2>2, <2>4, HeaderByteReads
    <3>2. /\ Sound(h) /\ Len(h.rlpBuffer) >= 1 /\ h.workBuffer >= 2
          /\ h.isProcessingField = FALSE
      BY <1>1, <2>1, <2>2, <2>4, HeaderByteIsSound
    <3>3. /\ h \in StreamRecord /\ h.rlpBuffer \in Seq(Byte)
          /\ Len(h.rlpBuffer) <= RLP_LENGTH_BUFFER_SIZE
      BY <3>2 DEF Sound, Consistent, StreamRecord, HeaderType
    <3> HIDE DEF h
    <3>4. CASE ~rlpCanDecode(h.rlpBuffer) /\ stream' = h /\ UNCHANGED status
      <4>1. Reading(message, h)
        BY <1>1, <3>1, <3>2, <3>3, <3>4, HeaderGoesOn
      <4>2. QED
        BY <2>1, <3>4, <4>1 DEF ReadingInv
    <3>5. CASE rlpCanDecode(h.rlpBuffer) /\ ~rlpIsValid(h.rlpBuffer)
      BY <1>1, <3>1, <3>3, <3>5, HeaderIsWhole
    <3>6. CASE /\ rlpCanDecode(h.rlpBuffer) /\ rlpIsValid(h.rlpBuffer)
               /\ ParseField(FieldBegun(h))
      <4>1. ReadingBegun(message, FieldBegun(h))
        BY <1>1, <3>1, <3>3, <3>6, PayloadBegins
      <4>2. Begun(FieldBegun(h))
        BY <3>2, <3>6, BegunWhenDecoded
      <4>3. \/ status' = "PARSING" /\ Reading(message, stream')
            \/ status' = "FAULT" /\ FieldFaults(FieldBegun(h))
            \/ status' = "UNDEFINED"
        BY <1>1, <2>1, <3>6, <4>1, <4>2, ParseFieldReads
      <4>4. ASSUME FieldFaults(FieldBegun(h))
            PROVE  MalformedBy(message, received)
        <5> DEFINE b == FieldBegun(h)
                   p == Begin(message, b.currentField)
        <5>1. b.currentField = h.currentField /\ b \in StreamRecord
          BY <3>3, <4>2 DEF FieldBegun, StreamRecord, Begun, Consistent
        <5>2. h.workBuffer = p + HeaderLength(message[p])
          BY <1>1, <3>1, <3>3, <3>6, <5>1, HeaderIsWhole
        <5>3. /\ h.workBuffer + h.workBufferLength = received + 1
              /\ h.workBuffer \in Nat /\ h.workBufferLength \in Nat /\ received \in Nat
          BY <1>1, <3>2 DEF Sound, Consistent, StreamRecord
        <5> HIDE DEF b, p
        <5>4. p + HeaderLength(message[p]) <= received + 1
          BY <5>2, <5>3
        <5>5. QED
          BY <1>1, <4>1, <4>4, <5>1, <5>3, <5>4, FaultIsMalformed DEF b, p
      <4>5. QED
        BY <2>1, <4>3, <4>4 DEF ReadingInv
    <3>7. Len(stream.rlpBuffer) # RLP_LENGTH_BUFFER_SIZE
      <4>1. Len(stream.rlpBuffer) \in Nat
        BY <2>1 DEF StreamRecord, HeaderType
      <4>2. \A n \in Nat : n < RLP_LENGTH_BUFFER_SIZE => n # RLP_LENGTH_BUFFER_SIZE
        BY DEF RLP_LENGTH_BUFFER_SIZE
      <4>3. QED
        BY <2>4, <4>1, <4>2, Zenon
    <3>8. QED
      BY <1>6, <3>4, <3>5, <3>6, <3>7, Zenon DEF DetectField, h
  <2>5. QED
    BY <1>6, <2>3, <2>4, Zenon DEF DetectField
<1>7. CASE ContinueField
  <2>1. /\ status = "PARSING" /\ message' = message
        /\ Sound(stream) /\ Reading(message, stream) /\ stream \in StreamRecord
        /\ stream.isProcessingField = TRUE /\ ParseField(stream)
    BY <1>7 DEF ContinueField, Parsing, StreamInv, ReadingInv, Sound, Consistent, StreamRecord
  <2>2. Begun(stream)
    BY <2>1 DEF Sound, Begun, Consistent, StreamRecord
  <2>3. ReadingBegun(message, stream)
    BY <2>1, Zenon DEF Reading, ReadingBegun
  <2>4. \/ status' = "PARSING" /\ Reading(message, stream')
        \/ status' = "FAULT" /\ FieldFaults(stream)
        \/ status' = "UNDEFINED"
    BY <1>1, <2>1, <2>2, <2>3, ParseFieldReads
  <2>5. ~FieldFaults(stream)
    BY <2>1, Zenon DEF Reading
  <2>6. QED
    BY <2>1, <2>4, <2>5 DEF ReadingInv
<1>8. CASE UNCHANGED vars
  BY <1>8 DEF vars, ReadingInv
<1>9. QED
  BY <1>2, <1>3, <1>4, <1>5, <1>6, <1>7, <1>8 DEF Next, txStreamParse

LEMMA ReadingInvHolds == Spec => [](StreamInv /\ ReadingInv)
<1>1. Init => StreamInv /\ ReadingInv
  BY StreamInvInit, ReadingInvInit
<1>2. (StreamInv /\ ReadingInv) /\ [Next]_vars => (StreamInv /\ ReadingInv)'
  BY StreamInvNext, ReadingInvNext
<1>3. QED
  BY <1>1, <1>2, PTL DEF Spec

-----------------------------------------------------------------------------
(* Reading what has been sent only: the first bytes u of a message m.      *)

Begins(u, m) ==
    /\ u \in Seq(Byte) /\ m \in Seq(Byte)
    /\ Len(u) <= Len(m)
    /\ \A i \in 1 .. Len(u) : u[i] = m[i]

\* A place that is seen in the first n bytes.
SeenIn(i, n) == IF i # None /\ i <= n + 1 THEN i ELSE None

\* A header reads alike if the part has all of it.
LEMMA HeadersOfPart ==
    ASSUME NEW u, NEW m, Begins(u, m), NEW i \in Nat \ {0}
    PROVE  /\ Readable(u, i) <=> Readable(m, i) /\ i + HeaderLength(m[i]) - 1 <= Len(u)
           /\ Readable(u, i) => Header(u, i) = Header(m, i)
<1>1. /\ u \in Seq(Byte) /\ m \in Seq(Byte) /\ Len(u) \in Nat /\ Len(m) \in Nat
      /\ Len(u) <= Len(m)
      /\ \A j \in 1 .. Len(u) : u[j] = m[j]
  BY DEF Begins
<1>2. CASE i \notin 1 .. Len(u)
  <2>1. ~Readable(u, i)
    BY <1>1, <1>2 DEF Readable
  <2>2. ~(Readable(m, i) /\ i + HeaderLength(m[i]) - 1 <= Len(u))
    <3> SUFFICES ASSUME Readable(m, i)
                 PROVE  ~(i + HeaderLength(m[i]) - 1 <= Len(u))
      OBVIOUS
    <3>1. HeaderLength(m[i]) \in 1 .. RLP_LENGTH_BUFFER_SIZE
      BY <1>1, HeaderReads
    <3>2. HeaderLength(m[i]) \in Nat /\ HeaderLength(m[i]) >= 1
      BY <3>1, FieldNumbers
    <3>3. i > Len(u)
      BY <1>1, <1>2
    <3>4. QED
      BY <1>1, <3>2, <3>3
  <2>3. QED
    BY <2>1, <2>2
<1>3. CASE i \in 1 .. Len(u)
  <2> DEFINE size == HeaderLength(m[i])
  <2>1. u[i] = m[i] /\ i <= Len(u) /\ i <= Len(m) /\ m[i] \in Byte
    BY <1>1, <1>3
  <2>2. size \in Nat /\ size >= 1
    BY <2>1, HeaderLengths
  <2>3. Readable(u, i) <=> Readable(m, i) /\ i + size - 1 <= Len(u)
    <3>1. HeaderLength(u[i]) = size
      BY <2>1
    <3> HIDE DEF size
    <3>2. i + size - 1 <= Len(u) => i + size - 1 <= Len(m)
      BY <1>1, <2>2
    <3>3. Readable(u, i) <=> size <= RLP_LENGTH_BUFFER_SIZE /\ i + size - 1 <= Len(u)
      BY <2>1, <3>1, Zenon DEF Readable
    <3>4. Readable(m, i) <=> size <= RLP_LENGTH_BUFFER_SIZE /\ i + size - 1 <= Len(m)
      BY <2>1, Zenon DEF Readable, size
    <3>5. QED
      BY <3>2, <3>3, <3>4, Zenon
  <2>4. ASSUME Readable(u, i)
        PROVE  Header(u, i) = Header(m, i)
    <3>1. i + size - 1 <= Len(u)
      BY <2>3, <2>4
    <3>2. Header(u, i) = SubSeq(u, i, i + size - 1) /\ Header(m, i) = SubSeq(m, i, i + size - 1)
      BY <2>1, Zenon DEF Header
    <3> HIDE DEF size
    <3>3. SubSeq(u, i, i + size - 1) = SubSeq(m, i, i + size - 1)
      <4> DEFINE a == SubSeq(u, i, i + size - 1)
                 b == SubSeq(m, i, i + size - 1)
      <4>1. a \in Seq(Byte) /\ b \in Seq(Byte) /\ Len(a) = size /\ Len(b) = size
        BY <1>1, <1>3, <2>2, <3>1
      <4>2. ASSUME NEW k \in 1 .. size
            PROVE  a[k] = b[k]
        <5>1. i + k - 1 \in 1 .. Len(u)
          BY <1>1, <1>3, <2>2, <3>1
        <5>2. a[k] = u[i + k - 1] /\ b[k] = m[i + k - 1]
          BY <1>1, <1>3, <2>2, <3>1
        <5>3. QED
          BY <1>1, <5>1, <5>2
      <4> HIDE DEF a, b
      <4>3. a = b
        BY <4>1, <4>2
      <4>4. QED
        BY <4>3 DEF a, b
    <3>4. QED
      BY <3>2, <3>3
  <2>5. QED
    BY <2>3, <2>4
<1>4. QED
  BY <1>2, <1>3

\* So does an item.
LEMMA ItemsOfPart ==
    ASSUME NEW u, NEW m, Begins(u, m), NEW i \in Nat \ {0}, NEW f
    PROVE  /\ Readable(u, i) => /\ Fits(u, i, f) <=> Fits(m, i, f)
                                /\ ItemEnd(u, i) = ItemEnd(m, i)
                                /\ u[i] = m[i]
           /\ Acceptable(u, i, f) <=> Acceptable(m, i, f) /\ ItemEnd(m, i) <= Len(u) + 1
           /\ Refused(u, i, f) <=> RefusedBy(m, Len(u), i, f)
<1>1. /\ u \in Seq(Byte) /\ m \in Seq(Byte) /\ Len(u) \in Nat /\ Len(m) \in Nat
      /\ Len(u) <= Len(m)
      /\ \A j \in 1 .. Len(u) : u[j] = m[j]
  BY DEF Begins
<1>2. ASSUME Readable(u, i)
      PROVE  /\ Fits(u, i, f) <=> Fits(m, i, f)
             /\ ItemEnd(u, i) = ItemEnd(m, i)
             /\ u[i] = m[i]
  <2>1. Header(u, i) = Header(m, i)
    BY <1>2, HeadersOfPart
  <2>2. i \in 1 .. Len(u)
    BY <1>1, <1>2, HeaderReads
  <2>3. u[i] = m[i]
    BY <1>1, <2>2
  <2>4. Fits(u, i, f) <=> Fits(m, i, f)
    BY <2>1, Zenon DEF Fits
  <2>5. ItemEnd(u, i) = ItemEnd(m, i)
    BY <2>1, <2>3, Zenon DEF ItemEnd, PayloadStart
  <2>6. QED
    BY <2>3, <2>4, <2>5
<1>3. Acceptable(u, i, f) <=> Acceptable(m, i, f) /\ ItemEnd(m, i) <= Len(u) + 1
  <2>1. ASSUME Acceptable(u, i, f)
        PROVE  Acceptable(m, i, f) /\ ItemEnd(m, i) <= Len(u) + 1
    <3>1. Readable(u, i) /\ Fits(u, i, f) /\ ItemEnd(u, i) <= Len(u) + 1
      BY <2>1 DEF Acceptable
    <3>2. Readable(m, i) /\ Fits(m, i, f) /\ ItemEnd(m, i) <= Len(u) + 1
      BY <1>2, <3>1, HeadersOfPart
    <3>3. ItemEnd(m, i) \in Nat
      BY <1>1, <3>2, ItemReads
    <3>4. ItemEnd(m, i) <= Len(m) + 1
      BY <1>1, <3>2, <3>3
    <3>5. QED
      BY <3>2, <3>4 DEF Acceptable
  <2>2. ASSUME Acceptable(m, i, f), ItemEnd(m, i) <= Len(u) + 1
        PROVE  Acceptable(u, i, f)
    <3>1. Readable(m, i) /\ Fits(m, i, f)
      BY <2>2 DEF Acceptable
    <3>2. /\ ItemEnd(m, i) \in Nat
          /\ i + HeaderLength(m[i]) <= ItemEnd(m, i)
          /\ HeaderLength(m[i]) \in Nat
      <4>1. /\ HeaderLength(m[i]) \in 1 .. RLP_LENGTH_BUFFER_SIZE
            /\ FieldLength(Header(m, i)) \in Nat
        BY <1>1, <3>1, HeaderReads
      <4>2. /\ ItemEnd(m, i) \in Nat /\ ItemEnd(m, i) > i
            /\ ItemEnd(m, i) = PayloadStart(m, i) + FieldLength(Header(m, i))
            /\ \/ HeaderLength(m[i]) = 1
               \/ PayloadStart(m, i) = i + HeaderLength(m[i])
        BY <1>1, <3>1, ItemReads
      <4>3. HeaderLength(m[i]) \in Nat
        BY <4>1, FieldNumbers
      <4>4. QED
        BY <4>1, <4>2, <4>3
    <3>3. i + HeaderLength(m[i]) - 1 <= Len(u)
      BY <1>1, <2>2, <3>2
    <3>4. Readable(u, i)
      BY <3>1, <3>3, HeadersOfPart
    <3>5. Fits(u, i, f) /\ ItemEnd(u, i) <= Len(u) + 1
      BY <1>2, <2>2, <3>1, <3>4
    <3>6. QED
      BY <3>4, <3>5 DEF Acceptable
  <2>3. QED
    BY <2>1, <2>2
<1>4. Refused(u, i, f) <=> RefusedBy(m, Len(u), i, f)
  <2>1. i + RLP_LENGTH_BUFFER_SIZE <= Len(u) => u[i] = m[i]
    BY <1>1, FieldNumbers
  <2>2. Readable(u, i) /\ ~Fits(u, i, f)
            <=> /\ Readable(m, i)
                /\ i + HeaderLength(m[i]) - 1 <= Len(u)
                /\ ~Fits(m, i, f)
    BY <1>2, HeadersOfPart
  <2>3. QED
    BY <2>1, <2>2, Zenon DEF Refused, RefusedBy
<1>5. QED
  BY <1>2, <1>3, <1>4

\* One step of the table of places.
LEMMA StartAfterOfPart ==
    ASSUME NEW u, NEW m, Begins(u, m), NEW i \in Nat, NEW f
    PROVE  StartAfter(u, SeenIn(i, Len(u)), f) = SeenIn(StartAfter(m, i, f), Len(u))
<1> DEFINE n == Len(u)
           after == StartAfter(m, i, f)
<1>1. n \in Nat /\ m \in Seq(Byte)
  BY DEF Begins
<1>2. after \in Nat /\ (after # None => i # None /\ i < after)
  BY <1>1, StartAfterIsLater
<1>3. CASE i = None \/ i > n + 1
  <2>1. SeenIn(i, n) = None
    BY <1>1, <1>3, FieldNumbers DEF SeenIn
  <2>2. StartAfter(u, None, f) = None
    BY Zenon DEF StartAfter
  <2> HIDE DEF after, n
  <2>3. ~(after # None /\ after <= n + 1)
    BY <1>1, <1>2, <1>3
  <2>4. SeenIn(after, n) = None
    BY <2>3 DEF SeenIn
  <2>5. QED
    BY <2>1, <2>2, <2>4 DEF after, n
<1>4. CASE i # None /\ i <= n + 1
  <2>1. SeenIn(i, n) = i /\ i \in Nat \ {0}
    BY <1>4, FieldNumbers DEF SeenIn
  <2>2. Acceptable(u, i, f) <=> Acceptable(m, i, f) /\ ItemEnd(m, i) <= n + 1
    BY <2>1, ItemsOfPart
  <2>3. Acceptable(u, i, f) => ItemEnd(u, i) = ItemEnd(m, i)
    BY <2>1, ItemsOfPart DEF Acceptable
  <2>4. StartAfter(u, i, f) = IF Acceptable(u, i, f) THEN ItemEnd(u, i) ELSE None
    BY <1>4, Zenon DEF StartAfter
  <2>5. after = IF Acceptable(m, i, f) THEN ItemEnd(m, i) ELSE None
    BY <1>4, Zenon DEF StartAfter
  <2>6. Acceptable(m, i, f) => ItemEnd(m, i) # None
    BY <1>1, <2>1, ItemReads, FieldNumbers DEF Acceptable
  <2>7. StartAfter(u, i, f) = SeenIn(after, n)
    <3>1. CASE Acceptable(u, i, f)
      BY <2>2, <2>3, <2>4, <2>5, <2>6, <3>1, Zenon DEF SeenIn
    <3>2. CASE ~Acceptable(u, i, f)
      <4>1. after = None \/ ~(after <= n + 1)
        BY <2>2, <2>5, <3>2, Zenon
      <4>2. QED
        BY <2>4, <3>2, <4>1, Zenon DEF SeenIn
    <3>3. QED
      BY <3>1, <3>2
  <2>8. QED
    BY <2>1, <2>7, Zenon
<1>5. QED
  BY <1>1, <1>3, <1>4

\* The part has the places of the whole that it reaches.
LEMMA PlacesOfPart ==
    ASSUME NEW u, NEW m, Begins(u, m)
    PROVE  \A f \in 3 .. 12 : Begin(u, f) = SeenIn(Begin(m, f), Len(u))
<1> DEFINE n == Len(u)
           Same(f) == Begin(u, f) = SeenIn(Begin(m, f), n)
<1>1. u \in Seq(Byte) /\ m \in Seq(Byte) /\ n \in Nat
  BY DEF Begins
<1>2. Same(3)
  <2>1. Begin(u, 3) = FirstStart(u) /\ Begin(m, 3) = FirstStart(m)
    BY <1>1, BeginIs
  <2>2. Readable(u, 1) <=> Readable(m, 1) /\ 1 + HeaderLength(m[1]) - 1 <= n
    BY HeadersOfPart
  <2>3. Readable(u, 1) => /\ Fits(u, 1, TX_RLP_ENVELOPE) <=> Fits(m, 1, TX_RLP_ENVELOPE)
                          /\ u[1] = m[1]
    BY ItemsOfPart
  <2>4. Readable(m, 1) => HeaderLength(m[1]) \in Nat /\ HeaderLength(m[1]) >= 1
    <3>1. Readable(m, 1) => HeaderLength(m[1]) \in 1 .. RLP_LENGTH_BUFFER_SIZE
      BY <1>1, HeaderReads
    <3>2. QED
      BY <3>1, FieldNumbers
  <2> HIDE DEF n
  <2>5. CASE Readable(m, 1) /\ Fits(m, 1, TX_RLP_ENVELOPE)
    <3>1. FirstStart(m) = 1 + HeaderLength(m[1]) /\ FirstStart(m) # None
      BY <2>4, <2>5, FieldNumbers DEF FirstStart
    <3>2. Readable(u, 1) <=> FirstStart(m) <= n + 1
      BY <1>1, <2>2, <2>4, <2>5, <3>1
    <3>3. FirstStart(u) = IF Readable(u, 1) THEN FirstStart(m) ELSE None
      BY <2>3, <2>5, <3>1, Zenon DEF FirstStart
    <3>4. QED
      BY <2>1, <3>1, <3>2, <3>3, Zenon DEF SeenIn, n
  <2>6. CASE ~(Readable(m, 1) /\ Fits(m, 1, TX_RLP_ENVELOPE))
    <3>1. FirstStart(m) = None
      BY <2>6, Zenon DEF FirstStart
    <3>2. ~(Readable(u, 1) /\ Fits(u, 1, TX_RLP_ENVELOPE))
      BY <2>2, <2>3, <2>6
    <3>3. FirstStart(u) = None
      BY <3>2, Zenon DEF FirstStart
    <3>4. QED
      BY <2>1, <3>1, <3>3, Zenon DEF SeenIn, n
  <2>7. QED
    BY <2>5, <2>6
<1>3. ASSUME NEW f \in 3 .. 11, Same(f)
      PROVE  Same(f + 1)
  <2>1. Begin(u, f + 1) = StartAfter(u, Begin(u, f), f)
    BY <1>1, BeginIs
  <2>2. Begin(m, f + 1) = StartAfter(m, Begin(m, f), f)
    BY <1>1, BeginIs
  <2>3. Begin(m, f) \in Nat
    <3>1. f \in FieldType \ {TX_RLP_TYPE}
      BY FieldNumbers
    <3>2. QED
      BY <1>1, <3>1, BeginIs
  <2>4. StartAfter(u, SeenIn(Begin(m, f), n), f) = SeenIn(StartAfter(m, Begin(m, f), f), n)
    BY <2>3, StartAfterOfPart
  <2>5. QED
    BY <1>3, <2>1, <2>2, <2>4, Zenon
<1>4. /\ Same(4) /\ Same(5) /\ Same(6) /\ Same(7) /\ Same(8) /\ Same(9) /\ Same(10)
      /\ Same(11) /\ Same(12)
  <2> HIDE DEF Same
  <2>1. \A f \in 3 .. 11 : Same(f) => Same(f + 1)
    BY <1>3
  <2>2. /\ Same(3) => Same(4)
        /\ Same(4) => Same(5)
        /\ Same(5) => Same(6)
        /\ Same(6) => Same(7)
        /\ Same(7) => Same(8)
        /\ Same(8) => Same(9)
        /\ Same(9) => Same(10)
        /\ Same(10) => Same(11)
        /\ Same(11) => Same(12)
    BY <2>1
  <2>3. QED
    BY <1>2, <2>2
<1>5. ASSUME NEW f \in 3 .. 12
      PROVE  Same(f)
  <2> HIDE DEF Same
  <2>1. f \in {3, 4, 5, 6, 7, 8, 9, 10, 11, 12}
    OBVIOUS
  <2>2. QED
    BY <1>2, <1>4, <2>1
<1>6. QED
  BY <1>5

\* It begins a transaction exactly if the whole does and it has all of it.
LEMMA TransactionOfPart ==
    ASSUME NEW u, NEW m, Begins(u, m)
    PROVE  IsTransaction(u) <=> Begin(m, 12) # None /\ Begin(m, 12) <= Len(u) + 1
<1>1. Begin(u, 12) = SeenIn(Begin(m, 12), Len(u))
  <2>1. 12 \in 3 .. 12
    OBVIOUS
  <2>2. QED
    BY <2>1, PlacesOfPart
<1>2. IsTransaction(u) <=> Begin(u, 12) # None
  BY FieldNumbers DEF IsTransaction, Begin
<1>3. QED
  BY <1>1, <1>2, Zenon DEF SeenIn

\* It is malformed exactly if the bytes of the whole that it has show that.
LEMMA MalformedOfPart ==
    ASSUME NEW u, NEW m, Begins(u, m)
    PROVE  IsMalformed(u) <=> MalformedBy(m, Len(u))
<1> DEFINE n == Len(u)
<1>1. u \in Seq(Byte) /\ m \in Seq(Byte) /\ n \in Nat
  BY DEF Begins
<1>2. ASSUME NEW f \in FieldsRead
      PROVE  Begin(u, f) # None /\ Refused(u, Begin(u, f), f)
                 <=> Begin(m, f) # None /\ RefusedBy(m, n, Begin(m, f), f)
  <2> DEFINE i == Begin(m, f)
  <2>1. f \in FieldType \ {TX_RLP_TYPE} /\ (f = 1 \/ f \in 3 .. 12)
    BY FieldsReadAre, FieldNumbers
  <2>2. i \in Nat
    BY <1>1, <2>1, BeginIs
  <2>3. Begin(u, f) = SeenIn(i, n)
    <3>1. CASE f = 1
      <4>1. Begin(u, f) = 1 /\ i = 1
        BY <1>1, <3>1, BeginIs
      <4>2. QED
        BY <1>1, <4>1, FieldNumbers DEF SeenIn
    <3>2. CASE f \in 3 .. 12
      BY <3>2, PlacesOfPart
    <3>3. QED
      BY <2>1, <3>1, <3>2
  <2>4. CASE i # None /\ i <= n + 1
    <3>1. Begin(u, f) = i /\ i \in Nat \ {0}
      BY <2>2, <2>3, <2>4, FieldNumbers DEF SeenIn
    <3>2. Refused(u, i, f) <=> RefusedBy(m, n, i, f)
      BY <3>1, ItemsOfPart
    <3>3. QED
      BY <3>1, <3>2, Zenon
  <2>5. CASE ~(i # None /\ i <= n + 1)
    <3>1. Begin(u, f) = None
      BY <2>3, <2>5, Zenon DEF SeenIn
    <3>2. i # None => ~RefusedBy(m, n, i, f)
      <4> SUFFICES ASSUME i # None
                   PROVE  ~RefusedBy(m, n, i, f)
        OBVIOUS
      <4>1. i \in Nat \ {0} /\ i > n + 1
        BY <1>1, <2>2, <2>5, FieldNumbers
      <4>2. Readable(m, i) => HeaderLength(m[i]) \in Nat /\ HeaderLength(m[i]) >= 1
        <5>1. Readable(m, i) => HeaderLength(m[i]) \in 1 .. RLP_LENGTH_BUFFER_SIZE
          BY <1>1, <4>1, HeaderReads
        <5>2. QED
          BY <5>1, FieldNumbers
      <4> HIDE DEF i, n
      <4>3. ~(i + RLP_LENGTH_BUFFER_SIZE <= n)
        BY <1>1, <4>1, FieldNumbers
      <4>4. Readable(m, i) => ~(i + HeaderLength(m[i]) - 1 <= n)
        BY <1>1, <4>1, <4>2
      <4>5. QED
        BY <4>3, <4>4, Zenon DEF RefusedBy
    <3>3. QED
      BY <3>1, <3>2, Zenon
  <2>6. QED
    BY <2>4, <2>5
<1>3. QED
  BY <1>2, Zenon DEF IsMalformed, MalformedBy, FieldsRead

-----------------------------------------------------------------------------
(* The theorems *)

\* Whatever is sent, in whatever blocks: when the stream finishes, exactly the bytes of
\* the transaction have been hashed, each field to be shown holds its own bytes among
\* them, and the data decides whether it is a call (txStreamParse and the functions of
\* the fields).
THEOREM FieldsShownAreThoseHashed == Spec => []FieldsAreThoseHashed
<1>1. StreamInv /\ ReadingInv => FieldsAreThoseHashed
  <2> SUFFICES ASSUME StreamInv, ReadingInv, status = "FINISHED"
               PROVE  FieldsAreThoseHashed
    BY DEF FieldsAreThoseHashed
  <2> DEFINE m == message
             s == stream
             at == FieldStarts(m)
  <2>1. /\ m \in Seq(Byte) /\ Sound(s) /\ Reading(m, s) /\ s.currentField = 12
    BY MessagesAssumption, FieldNumbers DEF StreamInv, ReadingInv
  <2>2. s.isProcessingField = FALSE /\ OnTrack(m, s) /\ InHeader(m, s)
    <3>1. s.isProcessingField \in BOOLEAN
      BY <2>1 DEF Sound, Consistent, StreamRecord
    <3>2. s.isProcessingField # TRUE
      BY <2>1, FieldNumbers DEF Reading, InPayload
    <3>3. QED
      BY <2>1, <3>1, <3>2 DEF Reading
  <2>3. \A f \in 3 .. 12 : Begin(m, f) = at[f]
    BY <2>1, BeginIs
  <2>4. Len(s.hashed) + 1 = at[12]
    <3>1. s.workBuffer \in Nat /\ 1 <= s.workBuffer /\ HashedTo(s, s.workBuffer - 1)
      BY <2>1 DEF Sound, Consistent, StreamRecord
    <3>2. s.workBuffer = at[12] + 0
      BY <2>1, <2>2, <2>3, FieldNumbers DEF InHeader
    <3>3. at[12] \in Nat
      BY <2>1, StartsGrow
    <3> HIDE DEF at
    <3>4. s.workBuffer = at[12]
      BY <3>2, <3>3
    <3>5. s.workBuffer - 1 \in Nat /\ (s.workBuffer - 1) + 1 = s.workBuffer
      BY <3>1
    <3>6. Len(s.hashed) = s.workBuffer - 1
      BY <3>1, <3>5 DEF HashedTo
    <3>7. QED
      BY <3>4, <3>5, <3>6
  <2>5. ASSUME NEW f \in Kept
        PROVE  /\ s.value[f] = Positions(PayloadStart(m, at[f]), at[f + 1] - 1)
               /\ s.length[f] = Len(s.value[f])
    <3>1. f < s.currentField /\ f \in 3 .. 12 /\ f + 1 \in 3 .. 12
      BY <2>1, FieldNumbers
    <3>2. CopiedTo(m, s, f, Begin(m, f + 1)) /\ s.length[f] = Len(s.value[f])
      BY <2>2, <3>1, Zenon DEF OnTrack, PastFields
    <3>3. QED
      BY <2>3, <3>1, <3>2, Zenon DEF CopiedTo
  <2>6. s.isContractCall = LooksLikeCall(FieldLength(Header(m, at[TX_RLP_DATA])))
    <3>1. s.currentField > TX_RLP_DATA /\ TX_RLP_DATA \in 3 .. 12
      BY <2>1, FieldNumbers
    <3>2. CallIsKnown(m, s)
      BY <2>2, <3>1, Zenon DEF OnTrack, PastFields
    <3>3. QED
      BY <2>3, <3>1, <3>2, Zenon DEF CallIsKnown
  <2>7. TX_RLP_DONE = 12
    BY FieldNumbers
  <2>8. QED
    BY <2>4, <2>5, <2>6, <2>7, Zenon DEF FieldsAreThoseHashed
<1>2. QED
  BY <1>1, ReadingInvHolds, PTL

\* The next field of the transaction.
After(f) == IF f = TX_RLP_ENVELOPE THEN TX_RLP_NONCE ELSE f + 1

\* While the host has the word, it is within the current field: if the next one has a
\* place in the message, that is still to come.
LEMMA WaitingIsWithin ==
    ASSUME StreamInv, ReadingInv, status = "WAITING",
           Begin(message, After(stream.currentField)) # None
    PROVE  received + 1 < Begin(message, After(stream.currentField))
<1> DEFINE m == message
           s == stream
           f == s.currentField
           p == Begin(m, f)
           next == After(f)
<1>1. /\ m \in Seq(Byte) /\ received \in 0 .. Len(m) /\ Sound(s) /\ Reading(m, s)
      /\ f # TX_RLP_DONE /\ s.workBufferLength = 0
  BY MessagesAssumption DEF StreamInv, ReadingInv
<1>2. s \in StreamRecord /\ s.workBuffer = received + 1
  BY <1>1 DEF Sound, Consistent, StreamRecord
<1>3. /\ OnTrack(m, s) /\ f \in FieldType /\ f # TX_RLP_TYPE
      /\ f = 1 \/ f \in 3 .. 11
      /\ next = IF f = 1 THEN 3 ELSE f + 1
      /\ next \in 3 .. 12
  BY <1>1, <1>2, FieldNumbers DEF Reading, OnTrack, StreamRecord, After
<1>4. p \in Nat \ {0}
  <2>1. f \in FieldType \ {TX_RLP_TYPE} /\ p # None
    BY <1>3 DEF OnTrack
  <2>2. QED
    BY <1>1, <2>1, BeginIs, FieldNumbers
<1> HIDE DEF next
<1>5. Begin(m, next) # None /\ Begin(m, next) \in Nat
  <2>1. next \in FieldType \ {TX_RLP_TYPE}
    BY <1>3, FieldNumbers
  <2>2. QED
    BY <1>1, <2>1, BeginIs DEF next
<1>6. /\ Readable(m, p)
      /\ Begin(m, next) = IF f = 1 THEN p + HeaderLength(m[p]) ELSE ItemEnd(m, p)
  <2>1. CASE f = 1
    <3>1. p = 1
      BY <1>1, <2>1, BeginIs
    <3>2. FirstStart(m) # None
      BY <1>1, <1>3, <1>5, <2>1, BeginIs
    <3>3. Readable(m, 1) /\ FirstStart(m) = 1 + HeaderLength(m[1])
      BY <3>2, Zenon DEF FirstStart
    <3>4. QED
      BY <1>1, <1>3, <2>1, <3>1, <3>3, BeginIs
  <2>2. CASE f # 1
    <3>1. f \in 3 .. 11 /\ next = f + 1
      BY <1>3, <2>2
    <3>2. Begin(m, next) = StartAfter(m, p, f)
      BY <1>1, <3>1, BeginIs
    <3>3. Acceptable(m, p, f) /\ StartAfter(m, p, f) = ItemEnd(m, p)
      BY <1>5, <3>2, Zenon DEF StartAfter
    <3>4. QED
      BY <2>2, <3>2, <3>3, Zenon DEF Acceptable
  <2>3. QED
    BY <2>1, <2>2
<1>7. /\ HeaderLength(m[p]) \in 1 .. RLP_LENGTH_BUFFER_SIZE
      /\ FieldLength(Header(m, p)) \in Nat
      /\ PayloadStart(m, p) \in Nat \ {0}
      /\ ItemEnd(m, p) = PayloadStart(m, p) + FieldLength(Header(m, p))
      /\ ItemEnd(m, p) > p
      /\ ItemEnd(m, p) \in Nat
      /\ HeaderLength(m[p]) = 1 \/ PayloadStart(m, p) = p + HeaderLength(m[p])
  BY <1>1, <1>4, <1>6, HeaderReads, ItemReads
<1>8. s.workBuffer < Begin(m, next)
  <2>1. CASE s.isProcessingField = TRUE
    <3>1. /\ InPayload(m, s) /\ f # TX_RLP_ENVELOPE
          /\ s.currentFieldPos # s.currentFieldLength
      BY <1>1, <2>1 DEF Reading
    <3>2. /\ s.currentFieldPos \in Nat /\ s.currentFieldLength \in Nat
          /\ s.currentFieldPos <= s.currentFieldLength
      BY <1>1, <1>2 DEF Sound, Consistent, StreamRecord
    <3>3. /\ s.workBuffer = PayloadStart(m, p) + s.currentFieldPos
          /\ s.currentFieldLength = FieldLength(Header(m, p))
      BY <3>1, Zenon DEF InPayload
    <3>4. Begin(m, next) = ItemEnd(m, p)
      BY <1>6, <3>1, FieldNumbers
    <3> HIDE DEF p, next, s
    <3>5. QED
      BY <1>7, <3>1, <3>2, <3>3, <3>4
  <2>2. CASE s.isProcessingField = FALSE
    <3> DEFINE n == Len(s.rlpBuffer)
    <3>1. InHeader(m, s)
      BY <1>1, <2>2 DEF Reading
    <3>2. s.workBuffer = p + n /\ (n >= 1 => n < HeaderLength(m[p])) /\ n \in Nat
      <4>1. s.rlpBuffer \in Seq(Byte)
        BY <1>2 DEF StreamRecord, HeaderType
      <4>2. QED
        BY <3>1, <4>1 DEF InHeader
    <3> HIDE DEF p, next, s, n
    <3>3. HeaderLength(m[p]) \in Nat /\ HeaderLength(m[p]) >= 1
      BY <1>7, FieldNumbers
    <3>4. n < HeaderLength(m[p])
      BY <3>2, <3>3
    <3>5. p + HeaderLength(m[p]) <= Begin(m, next)
      <4>1. p + HeaderLength(m[p]) <= ItemEnd(m, p)
        BY <1>4, <1>7, <3>3
      <4>2. QED
        BY <1>4, <1>6, <3>3, <4>1
    <3>6. QED
      BY <1>4, <1>5, <3>2, <3>3, <3>4, <3>5
  <2>3. QED
    <3>1. s.isProcessingField \in BOOLEAN
      BY <1>2 DEF StreamRecord
    <3>2. QED
      BY <2>1, <2>2, <3>1
<1>9. received \in Nat
  BY <1>1
<1>10. QED
  BY <1>2, <1>5, <1>8, <1>9, Zenon DEF next

\* Nor has it been told that the message is malformed, by this field or another.
LEMMA WaitingIsNotMalformed ==
    ASSUME StreamInv, ReadingInv, status = "WAITING"
    PROVE  ~MalformedBy(message, received)
<1> DEFINE m == message
           s == stream
           f == s.currentField
           p == Begin(m, f)
<1>1. /\ m \in Seq(Byte) /\ received \in 0 .. Len(m) /\ Sound(s) /\ Reading(m, s)
      /\ f # TX_RLP_DONE /\ s.workBufferLength = 0
  BY MessagesAssumption DEF StreamInv, ReadingInv
<1>2. s \in StreamRecord /\ s.workBuffer = received + 1 /\ received \in Nat
  BY <1>1 DEF Sound, Consistent, StreamRecord
<1>3. /\ OnTrack(m, s) /\ f \in FieldType \ {TX_RLP_TYPE} /\ p # None
      /\ f = 1 \/ f \in 3 .. 11
      /\ After(f) = IF f = 1 THEN 3 ELSE f + 1
  BY <1>1, <1>2, FieldNumbers DEF Reading, OnTrack, StreamRecord, After
<1>4. p \in Nat \ {0}
  BY <1>1, <1>3, BeginIs, FieldNumbers
<1>5. SUFFICES ASSUME NEW g \in FieldsRead, Begin(m, g) # None
               PROVE  ~RefusedBy(m, received, Begin(m, g), g)
  BY DEF MalformedBy
<1> DEFINE i == Begin(m, g)
<1>6. g \in FieldType \ {TX_RLP_TYPE} /\ (g = 1 \/ g \in 3 .. 11)
  BY FieldsReadAre, FieldNumbers
<1>7. i \in Nat \ {0}
  BY <1>1, <1>5, <1>6, BeginIs, FieldNumbers
<1>8. Readable(m, i) => HeaderLength(m[i]) \in 1 .. 5
  BY <1>1, <1>7, HeaderReads, FieldNumbers
\* The fields before it have been accepted: it comes after them.
<1>9. CASE g < f
  <2>1. f \in 3 .. 11 /\ FieldStarts(m)[f] # None
    BY <1>1, <1>3, <1>6, <1>9, BeginIs
  <2>2. \A h \in 3 .. 12 : h <= f => Begin(m, h) # None
    <3>1. ASSUME NEW h \in 3 .. 12, h <= f
          PROVE  Begin(m, h) # None
      <4>1. f \in 3 .. 12
        BY <2>1
      <4>2. FieldStarts(m)[h] # None
        BY <1>1, <2>1, <3>1, <4>1, StartsGrow
      <4>3. QED
        BY <1>1, <4>2, BeginIs
    <3>2. QED
      BY <3>1
  <2>3. Readable(m, i) /\ Fits(m, i, g)
    <3>1. CASE g = 1
      <4>1. Begin(m, 3) # None /\ i = 1
        BY <1>1, <2>1, <2>2, <3>1, BeginIs
      <4>2. FirstStart(m) # None
        BY <1>1, <4>1, BeginIs
      <4>3. Readable(m, 1) /\ Fits(m, 1, TX_RLP_ENVELOPE)
        BY <4>2, Zenon DEF FirstStart
      <4>4. QED
        BY <3>1, <4>1, <4>3, FieldNumbers
    <3>2. CASE g \in 3 .. 11
      <4>1. g + 1 \in 3 .. 12 /\ g + 1 <= f
        BY <1>9, <2>1, <3>2
      <4>2. Begin(m, g + 1) # None
        BY <2>2, <4>1
      <4>3. Begin(m, g + 1) = StartAfter(m, i, g)
        BY <1>1, <3>2, BeginIs
      <4>4. Acceptable(m, i, g)
        BY <4>2, <4>3, Zenon DEF StartAfter
      <4>5. QED
        BY <4>4, Zenon DEF Acceptable
    <3>3. QED
      BY <1>6, <3>1, <3>2
  <2>4. ~(HeaderLength(m[i]) > RLP_LENGTH_BUFFER_SIZE)
    <3> HIDE DEF i
    <3>1. QED
      BY <1>8, <2>3, FieldNumbers
  <2>5. QED
    BY <2>3, <2>4, Zenon DEF RefusedBy
\* Its own header is not there yet, or it has been accepted.
<1>10. CASE g = f
  <2>1. CASE s.isProcessingField = TRUE
    <3>1. InPayload(m, s) /\ ~FieldFaults(s)
      BY <1>1, <2>1 DEF Reading
    <3>2. Readable(m, p) /\ Fits(m, p, f)
      BY <1>1, <1>2, <1>3, <3>1, FaultsAreRight DEF InPayload
    <3>3. ~(HeaderLength(m[i]) > RLP_LENGTH_BUFFER_SIZE)
      <4>1. HeaderLength(m[i]) \in 1 .. 5
        BY <1>8, <1>10, <3>2
      <4> HIDE DEF i
      <4>2. QED
        BY <4>1, FieldNumbers
    <3>4. QED
      BY <1>10, <3>2, <3>3, Zenon DEF RefusedBy
  <2>2. CASE s.isProcessingField = FALSE
    <3> DEFINE n == Len(s.rlpBuffer)
    <3>1. InHeader(m, s)
      BY <1>1, <2>2 DEF Reading
    <3>2. /\ received + 1 = p + n /\ (n >= 1 => n < HeaderLength(m[p]))
          /\ n \in Nat /\ n <= 5
      <4>1. s.rlpBuffer \in Seq(Byte)
        BY <1>2 DEF StreamRecord, HeaderType
      <4>2. n <= 5
        BY <1>1, FieldNumbers DEF Sound, Consistent
      <4>3. QED
        BY <1>2, <3>1, <4>1, <4>2 DEF InHeader
    <3>3. i = p
      BY <1>10
    <3> HIDE DEF p, i, n
    <3>4. ~(i + RLP_LENGTH_BUFFER_SIZE <= received)
      BY <1>2, <1>4, <3>2, <3>3, FieldNumbers
    <3>5. ~(Readable(m, i) /\ i + HeaderLength(m[i]) - 1 <= received)
      BY <1>2, <1>4, <1>8, <3>2, <3>3
    <3>6. QED
      BY <3>4, <3>5, Zenon DEF RefusedBy, i
  <2>3. QED
    <3>1. s.isProcessingField \in BOOLEAN
      BY <1>2 DEF StreamRecord
    <3>2. QED
      BY <2>1, <2>2, <3>1
\* Those behind it are still to come.
<1>11. CASE g > f
  <2>1. After(f) \in 3 .. 12 /\ g \in 3 .. 12 /\ After(f) <= g
    BY <1>3, <1>6, <1>11
  <2>2. Begin(m, After(f)) # None /\ Begin(m, After(f)) <= i
    <3>1. FieldStarts(m)[g] # None
      BY <1>1, <1>5, <2>1, BeginIs
    <3>2. /\ FieldStarts(m)[After(f)] # None
          /\ FieldStarts(m)[After(f)] <= FieldStarts(m)[g]
      BY <1>1, <2>1, <3>1, StartsGrow
    <3>3. QED
      BY <1>1, <2>1, <3>2, BeginIs
  <2>3. received + 1 < Begin(m, After(f))
    BY <2>2, WaitingIsWithin
  <2>4. Begin(m, After(f)) \in Nat
    <3>1. After(f) \in FieldType \ {TX_RLP_TYPE}
      BY <2>1, FieldNumbers
    <3>2. QED
      BY <1>1, <3>1, BeginIs
  <2> HIDE DEF i
  <2>5. received + 1 < i
    BY <1>2, <1>7, <2>2, <2>3, <2>4
  <2>6. ~(i + RLP_LENGTH_BUFFER_SIZE <= received)
    BY <1>2, <1>7, <2>5, FieldNumbers
  <2>7. ~(Readable(m, i) /\ i + HeaderLength(m[i]) - 1 <= received)
    BY <1>2, <1>7, <1>8, <2>5
  <2>8. QED
    BY <2>6, <2>7, Zenon DEF RefusedBy, i
<1>12. QED
  <2>1. f \in Nat /\ g \in Nat
    BY <1>3, <1>6
  <2>2. QED
    BY <1>9, <1>10, <1>11, <2>1

\* What has been sent is the beginning of the message.
LEMMA SentBegins ==
    ASSUME message \in Seq(Byte), received \in 0 .. Len(message)
    PROVE  Begins(Sent, message) /\ Len(Sent) = received
<1>1. Sent \in Seq(Byte) /\ Len(Sent) = received
  BY DEF Sent
<1>2. \A i \in 1 .. received : Sent[i] = message[i]
  BY DEF Sent
<1>3. received <= Len(message)
  OBVIOUS
<1>4. QED
  BY <1>1, <1>2, <1>3, Zenon DEF Begins

\* Whether a block is answered with finished, with a fault or with a request for more is
\* decided by the bytes sent so far, however they were cut into blocks: finished if they
\* begin with a transaction, a fault if a header among them cannot be one of a
\* transaction, and otherwise more is wanted (txStreamProcess, parseWrongData).
THEOREM VerdictsAreOfTheBytes == Spec => []VerdictIsOfTheBytes
<1>1. StreamInv /\ ReadingInv => VerdictIsOfTheBytes
  <2> SUFFICES ASSUME StreamInv, ReadingInv
               PROVE  VerdictIsOfTheBytes
    OBVIOUS
  <2> DEFINE m == message
             s == stream
  <2>1. /\ m \in Seq(Byte) /\ received \in 0 .. Len(m) /\ received \in Nat
        /\ Begins(Sent, m) /\ Len(Sent) = received /\ Sent \in Seq(Byte)
    <3>1. m \in Seq(Byte) /\ received \in 0 .. Len(m)
      BY MessagesAssumption DEF StreamInv
    <3>2. QED
      BY <3>1, SentBegins DEF Begins
  <2>2. IsTransaction(Sent) <=> Begin(m, 12) # None /\ Begin(m, 12) <= received + 1
    BY <2>1, TransactionOfPart
  <2>3. IsMalformed(Sent) <=> MalformedBy(m, received)
    BY <2>1, MalformedOfPart
  <2>4. ASSUME status = "FINISHED"
        PROVE  Verdict(Sent) = "FINISHED"
    <3>1. OnTrack(m, s) /\ s.currentField = 12 /\ Sound(s)
      BY <2>4, FieldNumbers DEF StreamInv, ReadingInv, Reading
    <3>2. Begin(m, 12) # None
      BY <3>1 DEF OnTrack
    <3>3. InHeader(m, s)
      <4>1. s.isProcessingField \in BOOLEAN
        BY <3>1 DEF Sound, Consistent, StreamRecord
      <4>2. s.isProcessingField # TRUE
        BY <2>4, <3>1, FieldNumbers DEF ReadingInv, Reading, InPayload
      <4>3. QED
        BY <2>4, <4>1, <4>2 DEF ReadingInv, Reading
    <3>4. s.workBuffer = Begin(m, 12) + 0
      BY <3>1, <3>3, FieldNumbers DEF InHeader
    <3>5. Begin(m, 12) \in Nat
      <4>1. 12 \in FieldType \ {TX_RLP_TYPE}
        BY FieldNumbers
      <4>2. QED
        BY <2>1, <4>1, BeginIs
    <3>6. s.workBuffer <= received + 1
      BY <2>1, <3>1 DEF Sound, Consistent, StreamRecord
    <3>7. Begin(m, 12) <= received + 1
      BY <3>4, <3>5, <3>6
    <3>8. QED
      BY <2>2, <3>2, <3>7, Zenon DEF Verdict
  <2>5. ASSUME status = "FAULT"
        PROVE  Verdict(Sent) = "FAULT"
    <3>1. IsMalformed(Sent)
      BY <2>3, <2>5 DEF ReadingInv
    <3>2. ~IsTransaction(Sent)
      BY <2>1, <3>1, MalformedIsNone
    <3>3. QED
      BY <3>1, <3>2, Zenon DEF Verdict
  <2>6. ASSUME status = "WAITING"
        PROVE  Verdict(Sent) = "WAITING"
    <3>1. ~IsMalformed(Sent)
      BY <2>3, <2>6, WaitingIsNotMalformed
    <3>2. ~IsTransaction(Sent)
      <4> SUFFICES ASSUME Begin(m, 12) # None
                   PROVE  ~(Begin(m, 12) <= received + 1)
        BY <2>2
      <4> DEFINE next == After(s.currentField)
      <4>1. next \in 3 .. 12
        <5>1. s \in StreamRecord /\ s.currentField # TX_RLP_TYPE /\ s.currentField # TX_RLP_DONE
          BY <2>6 DEF StreamInv, Sound, Consistent, ReadingInv, Reading, OnTrack
        <5>2. QED
          BY <5>1, FieldNumbers DEF After, StreamRecord
      <4>2. Begin(m, next) # None /\ Begin(m, next) <= Begin(m, 12)
        <5>1. 12 \in 3 .. 12 /\ next <= 12
          BY <4>1
        <5>2. FieldStarts(m)[12] # None
          BY <2>1, <5>1, BeginIs
        <5>3. FieldStarts(m)[next] # None /\ FieldStarts(m)[next] <= FieldStarts(m)[12]
          BY <2>1, <4>1, <5>1, <5>2, StartsGrow
        <5>4. QED
          BY <2>1, <4>1, <5>1, <5>3, BeginIs
      <4>3. received + 1 < Begin(m, next)
        BY <2>6, <4>2, WaitingIsWithin
      <4>4. Begin(m, next) \in Nat /\ Begin(m, 12) \in Nat
        <5>1. {next, 12} \subseteq FieldType \ {TX_RLP_TYPE}
          BY <4>1, FieldNumbers
        <5>2. QED
          BY <2>1, <5>1, BeginIs
      <4> HIDE DEF next
      <4>5. QED
        BY <2>1, <4>2, <4>3, <4>4
    <3>3. QED
      BY <3>1, <3>2, Zenon DEF Verdict
  <2>7. status \in {"WAITING", "PARSING", "FINISHED", "FAULT", "UNDEFINED"}
    BY DEF StreamInv
  <2>8. QED
    BY <2>4, <2>5, <2>6, <2>7, Zenon DEF VerdictIsOfTheBytes
<1>2. QED
  BY <1>1, ReadingInvHolds, PTL
=============================================================================
