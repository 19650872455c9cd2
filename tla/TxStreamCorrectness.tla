------------------------ MODULE TxStreamCorrectness ------------------------
(***************************************************************************)
(* What the transaction stream promises, whatever the sizes of the blocks: *)
(* a declarative reading of the whole message is the reference.            *)
(***************************************************************************)
EXTENDS TxStream

\* Everything has its type; the context's pointers stay within the message.
StreamTypeOK ==
    /\ message \in Messages
    /\ received \in 0 .. Len(message)
    /\ status \in {"WAITING", "PARSING", "FINISHED", "FAULT", "UNDEFINED"}
    /\ stream.currentField \in TX_RLP_ENVELOPE .. TX_RLP_DONE
    /\ stream.currentFieldLength \in Nat
    /\ stream.currentFieldPos \in 0 .. stream.currentFieldLength
    /\ Len(stream.rlpBuffer) <= RLP_LENGTH_BUFFER_SIZE
    /\ stream.workBuffer \in 1 .. Len(message) + 1
    /\ stream.workBufferLength \in 0 .. Len(message)

-----------------------------------------------------------------------------
(* The reference: where the items of a whole message are *)

None == 0

\* An item can be read at position i: its header is there, and is not too long.
Readable(m, i) ==
    /\ i <= Len(m)
    /\ HeaderLength(m[i]) <= RLP_LENGTH_BUFFER_SIZE
    /\ i + HeaderLength(m[i]) - 1 <= Len(m)

Header(m, i) == SubSeq(m, i, i + HeaderLength(m[i]) - 1)

PayloadStart(m, i) == IF IsSelfEncoded(Header(m, i)) THEN i ELSE i + HeaderLength(m[i])

\* The first position after the item.
ItemEnd(m, i) == PayloadStart(m, i) + FieldLength(Header(m, i))

\* The envelope is a list, every other field a value that is not too long.
Fits(m, i, field) ==
    IF field = TX_RLP_ENVELOPE THEN IsList(Header(m, i))
    ELSE /\ ~IsList(Header(m, i))
         /\ field \in Unlimited \/ FieldLength(Header(m, i)) <= FieldSize(field)

Acceptable(m, i, field) ==
    /\ Readable(m, i)
    /\ Fits(m, i, field)
    /\ ItemEnd(m, i) <= Len(m) + 1

\* Where each field starts, the end of the transaction for TX_RLP_DONE; None if the
\* message is no transaction up to there.
FieldStarts(m) ==
    LET start[f \in TX_RLP_NONCE .. TX_RLP_DONE] ==
            IF f = TX_RLP_NONCE
            THEN IF Readable(m, 1) /\ Fits(m, 1, TX_RLP_ENVELOPE)
                 THEN 1 + HeaderLength(m[1]) ELSE None
            ELSE LET i == start[f - 1]
                 IN  IF i # None /\ Acceptable(m, i, f - 1) THEN ItemEnd(m, i) ELSE None
    IN  start

\* A transaction, and perhaps more behind it.
IsTransaction(m) == FieldStarts(m)[TX_RLP_DONE] # None

\* Where the header of a field stands; the envelope's is the first of all.
Begin(m, f) == IF f = TX_RLP_ENVELOPE THEN 1 ELSE FieldStarts(m)[f]

\* The bytes from i on show that no such field begins there: there are more of them than
\* the longest header has and it still goes on, or the header is there and does not fit.
Refused(m, i, field) ==
    \/ /\ i + RLP_LENGTH_BUFFER_SIZE <= Len(m)
       /\ HeaderLength(m[i]) > RLP_LENGTH_BUFFER_SIZE
    \/ /\ Readable(m, i)
       /\ ~Fits(m, i, field)

\* No more bytes can make a transaction of it, for a reason that a header gives.
IsMalformed(m) ==
    \E f \in {TX_RLP_ENVELOPE} \cup (TX_RLP_NONCE .. TX_RLP_S) :
        Begin(m, f) # None /\ Refused(m, Begin(m, f), f)

Verdict(m) ==
    IF IsTransaction(m) THEN "FINISHED" ELSE IF IsMalformed(m) THEN "FAULT" ELSE "WAITING"

Positions(from, to) == [j \in 1 .. to - from + 1 |-> from + j - 1]

-----------------------------------------------------------------------------
(* Safety *)

\* Every byte up to the one the parser is at has been hashed exactly once and in
\* order, though a field's first byte may be read twice and headers and fields may be
\* cut by the end of a block (txStreamReadByte, txStreamCopyData, and the step back for
\* a self-encoded byte in txStreamParse).
HashedOnceInOrder ==
    stream.hashed = [j \in 1 .. Len(stream.hashed) |-> j]

\* While the host has the word, all it has sent has been hashed: the parser leaves
\* nothing of a block behind that the next block would replace.
AllIsHashed ==
    status = "WAITING" => Len(stream.hashed) = received

\* The fields that are shown are the fields that were hashed: of the message exactly
\* the transaction's own bytes were hashed, each field was copied from its place among
\* them, and a call is recognised by the length of the data.
FieldsAreThoseHashed ==
    status = "FINISHED" =>
        LET at == FieldStarts(message)
        IN  /\ Len(stream.hashed) + 1 = at[TX_RLP_DONE]
            /\ \A f \in Kept :
                   /\ stream.value[f] = Positions(PayloadStart(message, at[f]), at[f + 1] - 1)
                   /\ stream.length[f] = Len(stream.value[f])
            /\ stream.isContractCall =
                   LooksLikeCall(FieldLength(Header(message, at[TX_RLP_DATA])))

\* What has been sent of the message.
Sent == SubSeq(message, 1, received)

\* The verdict on a block depends on the bytes sent so far only, not on how they were cut
\* into blocks: the stream is finished exactly if they begin with a transaction, it has
\* faulted exactly if a header among them cannot be one of a transaction, and otherwise
\* it waits.  (What it does once V has overflown its buffer is undefined.)
VerdictIsOfTheBytes ==
    status \notin {"PARSING", "UNDEFINED"} => status = Verdict(Sent)

\* Comment of txStreamProcessVField: "make sure the length is appropriate; it has to
\* fit in the provided buffer".  The same comment stands before every bounded field.
FieldFitsItsBuffer == status # "UNDEFINED"

-----------------------------------------------------------------------------
(* Progress *)

FairSpec == Spec /\ WF_vars(txStreamParse)

\* Every block is answered: no turn of the loop leaves the parser where it was.
BlockIsAnswered == status = "PARSING" ~> status # "PARSING"
============================================================================
