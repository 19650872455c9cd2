----------------------------- MODULE MCTxStream -----------------------------
(***************************************************************************)
(* Messages for TxStream: one plain transaction, and every message that    *)
(* differs from it in one item or in its length.  The host cuts them into  *)
(* blocks in every possible way.                                           *)
(***************************************************************************)
EXTENDS TxStreamCorrectness

Payload(n) == [j \in 1 .. n |-> 200]

\* Items: a self-encoded byte, the empty value, values with a short and with a long
\* header, a list, headers that are too long, and a header alone.
Short(n)  == <<128 + n>> \o Payload(n)
Long1(n)  == <<184, n>> \o Payload(n)
Long2(n)  == <<185, 0, n>> \o Payload(n)
Long3(n)  == <<186, 0, 0, n>> \o Payload(n)
Long4(n)  == <<187, 0, 0, 0, n>> \o Payload(n)

Items ==
    {<<0>>, <<127>>, <<128>>, Short(1), Short(4), Long1(2), Long2(1), Long3(1), Long4(2),
     <<192>>, <<188, 0, 0, 0, 0, 1>>, <<252, 0, 0, 0, 0, 1>>, <<187, 1, 0, 0, 0>>, <<185, 1>>}

Envelopes ==
    {<<192>>, <<201>>, <<248, 9>>, <<249, 0, 9>>, <<250, 0, 0, 9>>, <<251, 0, 0, 0, 9>>,
     <<5>>, <<128>>, <<252, 0, 0, 0, 0, 9>>}

PlainFields ==
    [f \in TX_RLP_NONCE .. TX_RLP_S |->
        CASE f = TX_RLP_NONCE -> <<1>> [] f = TX_RLP_RECIPIENT -> Short(2)
          [] f = TX_RLP_V -> <<129, 250>> [] f \in {TX_RLP_R, TX_RLP_S} -> <<128>>
          [] OTHER -> <<5>>]

Encoded(envelope, fields) ==
    envelope \o fields[3] \o fields[4] \o fields[5] \o fields[6] \o fields[7]
             \o fields[8] \o fields[9] \o fields[10] \o fields[11]

Plain == Encoded(<<201>>, PlainFields)

With(fields, items) ==
    {Encoded(<<201>>, [PlainFields EXCEPT ![f] = item]) : f \in fields, item \in items}

AllFields == TX_RLP_NONCE .. TX_RLP_S

\* One item of every kind in every field, one field of every kind at its limits, every
\* envelope, bytes after the transaction and bytes missing from it.
Whole ==
    With(AllFields, Items)
        \cup With({TX_RLP_RECIPIENT, TX_RLP_VALUE}, {Short(20), Short(21)})
        \cup With({TX_RLP_GAS_PRICE}, {Short(32), Short(33)})
        \cup With({TX_RLP_DATA}, {Short(36)})
        \cup {Encoded(e, PlainFields) : e \in Envelopes}
        \cup {Plain \o <<1>>, Plain \o <<129, 7, 200>>, SubSeq(Plain, 1, Len(Plain) - 1)}

\* A V field that is longer than its buffer.
VTooLong(m) ==
    LET at == FieldStarts(m)[TX_RLP_V]
    IN  at # None /\ Readable(m, at) /\ FieldLength(Header(m, at)) > Capacity(TX_RLP_V)

MCMessages     == {m \in Whole : ~VTooLong(m)}
MCOverlongV    == {Plain, Encoded(<<201>>, [PlainFields EXCEPT ![TX_RLP_V] = Short(5)])}
============================================================================
