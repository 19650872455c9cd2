------------------------------ MODULE TxStream ------------------------------
(***************************************************************************)
(* The transaction stream (src/tx_stream.c): the RLP encoded transaction   *)
(* arrives in blocks of any size; each block is parsed as far as it goes,  *)
(* hashed, and the fields to be shown are copied out of it.                *)
(*                                                                         *)
(* txStreamParse is a loop over the block.  One action is one turn of the  *)
(* loop, with the turns of the loop of txStreamDetectField flattened into  *)
(* it: nothing else runs before the block is done.  A byte is known by its *)
(* position in the message, so a pointer into a block is a position and    *)
(* what was hashed or copied is a sequence of positions.                   *)
(***************************************************************************)
EXTENDS Rlp

CONSTANT Messages   \* the byte sequences the host may send

ASSUME MessagesAssumption == Messages \subseteq Seq(Byte)

TX_RLP_ENVELOPE  == 1
TX_RLP_TYPE      == 2
TX_RLP_NONCE     == 3
TX_RLP_GAS_PRICE == 4
TX_RLP_START_GAS == 5
TX_RLP_RECIPIENT == 6
TX_RLP_VALUE     == 7
TX_RLP_DATA      == 8
TX_RLP_V         == 9
TX_RLP_R         == 10
TX_RLP_S         == 11
TX_RLP_DONE      == 12

RLP_LENGTH_BUFFER_SIZE == 5

\* Fields that are kept, and the size of the buffer each is copied to.
Kept == {TX_RLP_GAS_PRICE, TX_RLP_START_GAS, TX_RLP_RECIPIENT, TX_RLP_VALUE, TX_RLP_V}
Capacity(field) ==
    IF field = TX_RLP_RECIPIENT THEN 20 ELSE IF field = TX_RLP_V THEN 4 ELSE 32

\* Fields of any length, and the length the others are checked against.
Unlimited == {TX_RLP_DATA, TX_RLP_R, TX_RLP_S}
FieldSize(field) == IF field = TX_RLP_RECIPIENT THEN 20 ELSE 32

VARIABLES
    message,    \* what the host is sending
    received,   \* how many of its bytes have been sent
    status,     \* "WAITING" for a block, "PARSING" one, or how the stream ended
    stream      \* the stream context, with the SHA3 context and the transaction

vars == <<message, received, status, stream>>

\* txStreamInit, in a context that was cleared.
FreshStream ==
    [currentField |-> TX_RLP_ENVELOPE, currentFieldLength |-> 0, currentFieldPos |-> 0,
     isCurrentFieldList |-> FALSE, isProcessingField |-> FALSE, isFieldSingleByte |-> FALSE,
     rlpBuffer |-> <<>>, workBuffer |-> 1, workBufferLength |-> 0,
     hashed |-> <<>>,
     value |-> [f \in Kept |-> <<>>], length |-> [f \in Kept |-> 0], isContractCall |-> FALSE]

-----------------------------------------------------------------------------
(* Reading a block *)

\* The positions of the next n bytes.
Upcoming(s, n) == [j \in 1 .. n |-> s.workBuffer + j - 1]

\* Mutant: a self-encoded byte is hashed when it is detected and when it is copied.
MutHashSkipped(s) == FALSE

\* A byte that is a field by itself was hashed when the field was detected.
HashSkipped(s) == s.isProcessingField /\ s.isFieldSingleByte

\* txStreamReadByte (n = 1) and txStreamCopyData: hash n bytes and move past them.
Consume(s, n) ==
    [s EXCEPT !.hashed = IF HashSkipped(s) THEN @ ELSE @ \o Upcoming(s, n),
              !.workBuffer = @ + n,
              !.workBufferLength = @ - n,
              !.currentFieldPos = IF s.isProcessingField THEN @ + n ELSE @]

\* A byte is added to the header of the next field.
HeaderByte(s) == [Consume(s, 1) EXCEPT !.rlpBuffer = Append(@, message[s.workBuffer])]

\* The header is complete.  A self-encoded field is in the buffer already: the work
\* buffer is moved back to it.
FieldBegun(s) ==
    LET back == IF IsSelfEncoded(s.rlpBuffer) THEN 1 ELSE 0
    IN  [s EXCEPT !.currentFieldLength = FieldLength(s.rlpBuffer),
                  !.isCurrentFieldList = IsList(s.rlpBuffer),
                  !.isFieldSingleByte = @ \/ IsSelfEncoded(s.rlpBuffer),
                  !.workBuffer = @ - back,
                  !.workBufferLength = @ + back,
                  !.rlpBuffer = <<>>,
                  !.currentFieldPos = 0,
                  !.isProcessingField = TRUE]

-----------------------------------------------------------------------------
(* Parsing a field *)

\* The envelope has to be a list, everything else a value that is not too long.
FieldFaults(s) ==
    IF s.currentField = TX_RLP_ENVELOPE THEN ~s.isCurrentFieldList
    ELSE \/ s.isCurrentFieldList
         \/ /\ s.currentField \notin Unlimited
            /\ s.currentFieldLength > FieldSize(s.currentField)

\* Mutant: the end of the block is not minded.
MutToCopy(s) == s.currentFieldLength - s.currentFieldPos

ToCopy(s) ==
    LET rest == s.currentFieldLength - s.currentFieldPos
    IN  IF s.workBufferLength < rest THEN s.workBufferLength ELSE rest

\* The copy would write past the end of the buffer of the field.
Spills(s) ==
    /\ s.currentField \in Kept
    /\ s.currentFieldPos + ToCopy(s) > Capacity(s.currentField)

LooksLikeCall(length) == length >= 4 /\ (length - 4) % 32 = 0

\* The buffers, with more of a field copied.
Filled(value, field, bytes) ==
    IF field \in Kept THEN [value EXCEPT ![field] = @ \o bytes] ELSE value

\* Mutant: every part of a field is copied to the start of its buffer.
MutFieldRead(s) ==
    LET n == ToCopy(s)
    IN  [Consume(s, n) EXCEPT
            !.value = IF s.currentField \in Kept
                      THEN [@ EXCEPT ![s.currentField] = Upcoming(s, n)] ELSE @,
            !.isContractCall = IF s.currentField = TX_RLP_DATA /\ s.currentFieldPos = 0
                               THEN LooksLikeCall(s.currentFieldLength) ELSE @]

\* What the block holds of the field has been read, and copied if the field is kept.
FieldRead(s) ==
    LET n == ToCopy(s)
    IN  [Consume(s, n) EXCEPT
            !.value = Filled(@, s.currentField, Upcoming(s, n)),
            !.isContractCall = IF s.currentField = TX_RLP_DATA /\ s.currentFieldPos = 0
                               THEN LooksLikeCall(s.currentFieldLength) ELSE @]

\* Mutant: the mark of a self-encoded byte is not reset.
MutMarkStays(s) ==
    IF s.currentFieldPos # s.currentFieldLength THEN s
    ELSE [s EXCEPT !.length = IF s.currentField \in Kept
                              THEN [@ EXCEPT ![s.currentField] = s.currentFieldLength] ELSE @,
                   !.currentField = @ + 1,
                   !.isProcessingField = FALSE]

\* Mutant: an empty field is not the end of itself.
MutEmptyFieldStays(s) ==
    IF s.currentFieldPos # s.currentFieldLength \/ s.currentFieldPos = 0 THEN s
    ELSE [s EXCEPT !.length = IF s.currentField \in Kept
                              THEN [@ EXCEPT ![s.currentField] = s.currentFieldLength] ELSE @,
                   !.currentField = @ + 1,
                   !.isProcessingField = FALSE,
                   !.isFieldSingleByte = FALSE]

\* On to the next field, if the whole field was read.
FieldEnded(s) ==
    IF s.currentFieldPos # s.currentFieldLength THEN s
    ELSE [s EXCEPT !.length = IF s.currentField \in Kept
                              THEN [@ EXCEPT ![s.currentField] = s.currentFieldLength] ELSE @,
                   !.currentField = @ + 1,
                   !.isProcessingField = FALSE,
                   !.isFieldSingleByte = FALSE]

\* The transactions have no type: its field is skipped.
EnvelopeOpened(s) == [s EXCEPT !.currentField = TX_RLP_NONCE, !.isProcessingField = FALSE]

\* txStreamParseFieldProxy.  What happens once a buffer has overflown is undefined.
ParseField(s) ==
    \/ /\ FieldFaults(s)
       /\ status' = "FAULT"
       /\ stream' = s
    \/ /\ ~FieldFaults(s)
       /\ s.currentField = TX_RLP_ENVELOPE
       /\ stream' = EnvelopeOpened(s)
       /\ UNCHANGED status
    \/ /\ ~FieldFaults(s)
       /\ s.currentField # TX_RLP_ENVELOPE
       /\ Spills(s)
       /\ status' = "UNDEFINED"
       /\ stream' = s
    \/ /\ ~FieldFaults(s)
       /\ s.currentField # TX_RLP_ENVELOPE
       /\ ~Spills(s)
       /\ stream' = FieldEnded(FieldRead(s))
       /\ UNCHANGED status

-----------------------------------------------------------------------------
(* The loop of txStreamParse *)

Parsing == status = "PARSING" /\ UNCHANGED <<message, received>>

\* Bytes that follow the last field are never looked at.
Finish ==
    /\ Parsing
    /\ stream.currentField = TX_RLP_DONE
    /\ status' = "FINISHED"
    /\ UNCHANGED stream

\* Mutant: the end of the block is looked for before the end of the transaction.
MutExhaust ==
    /\ Parsing
    /\ stream.workBufferLength = 0
    /\ status' = "WAITING"
    /\ UNCHANGED stream

Exhaust ==
    /\ Parsing
    /\ stream.currentField # TX_RLP_DONE
    /\ stream.workBufferLength = 0
    /\ status' = "WAITING"
    /\ UNCHANGED stream

Busy == stream.currentField # TX_RLP_DONE /\ stream.workBufferLength # 0

\* The header of the next field: it is too long, it is still incomplete, it cannot be
\* decoded, or the field begins.
DetectField ==
    /\ Parsing
    /\ Busy
    /\ ~stream.isProcessingField
    /\ LET s == HeaderByte(stream)
       IN  \/ /\ Len(stream.rlpBuffer) = RLP_LENGTH_BUFFER_SIZE
              /\ status' = "FAULT"
              /\ UNCHANGED stream
           \/ /\ Len(stream.rlpBuffer) < RLP_LENGTH_BUFFER_SIZE
              /\ ~rlpCanDecode(s.rlpBuffer)
              /\ stream' = s
              /\ UNCHANGED status
           \/ /\ Len(stream.rlpBuffer) < RLP_LENGTH_BUFFER_SIZE
              /\ rlpCanDecode(s.rlpBuffer)
              /\ ~rlpIsValid(s.rlpBuffer)
              /\ status' = "FAULT"
              /\ stream' = s
           \/ /\ Len(stream.rlpBuffer) < RLP_LENGTH_BUFFER_SIZE
              /\ rlpCanDecode(s.rlpBuffer)
              /\ rlpIsValid(s.rlpBuffer)
              /\ ParseField(FieldBegun(s))

ContinueField ==
    /\ Parsing
    /\ Busy
    /\ stream.isProcessingField
    /\ ParseField(stream)

txStreamParse == Finish \/ Exhaust \/ DetectField \/ ContinueField

-----------------------------------------------------------------------------
(* The calls of the sign transaction instruction *)

\* txStreamProcess: a block of n bytes, which is never empty, takes the place of the
\* last one.
txStreamProcess ==
    /\ status = "WAITING"
    /\ \E n \in 1 .. Len(message) - received :
           /\ stream' = [stream EXCEPT !.workBuffer = received + 1, !.workBufferLength = n]
           /\ received' = received + n
    /\ status' = "PARSING"
    /\ UNCHANGED message

\* txStreamInit: a new transaction, whatever became of the last one.
txStreamInit ==
    /\ status # "PARSING"
    /\ message' \in Messages
    /\ received' = 0
    /\ status' = "WAITING"
    /\ stream' = FreshStream

Init ==
    /\ message \in Messages
    /\ received = 0
    /\ status = "WAITING"
    /\ stream = FreshStream

Next == txStreamInit \/ txStreamProcess \/ txStreamParse

Spec == Init /\ [][Next]_vars
============================================================================
