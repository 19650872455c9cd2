----------------------------- MODULE MCFantom ------------------------------
(***************************************************************************)
(* Small instances of FantomApp for TLC.  The paths are chosen so that     *)
(* every policy verdict and every assertion on a path is met; the          *)
(* transactions so that every outcome of the review is.                    *)
(***************************************************************************)
EXTENDS FantomCorrectness

Account(n) == <<Hardened(44), Hardened(60), Hardened(n)>>
Address(n, i) == Account(n) \o <<Normal(0), Normal(i)>>

StandardPath == Address(0, 0)
UnusualPath  == Address(12, 0)
AccountPath  == Account(0)
\* Nothing unusual about its account, but its text has 24 characters.
FarPath      == Address(0, 1000000000)
ForeignPath  == <<Hardened(44), Hardened(1), Hardened(0), Normal(0), Normal(0)>>
\* Nine elements, too long for the text buffer of a Nano.
WidePath     == Account(0) \o [i \in 1 .. 6 |-> Hardened(MAX_INDEX)]
\* As many elements as the parser lets through.
LongestPath  == Account(0) \o [i \in 1 .. 7 |-> Normal(0)]
\* One more than the parser lets through.
TooLongPath  == Account(0) \o [i \in 1 .. 8 |-> Normal(0)]

MCPaths ==
    {StandardPath, UnusualPath, AccountPath, FarPath, ForeignPath, WidePath, LongestPath,
     TooLongPath}

Tx(id, ours, call, fmt) == [id |-> id, ours |-> ours, call |-> call, fmt |-> fmt]

MCTxs ==
    {Tx("transfer", TRUE, FALSE, "ok"), Tx("call", TRUE, TRUE, "ok"),
     Tx("foreign", FALSE, FALSE, "ok"), Tx("huge", TRUE, FALSE, "amount"),
     Tx("costly", TRUE, FALSE, "fee")}
============================================================================
