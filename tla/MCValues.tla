----------------------------- MODULE MCValues ------------------------------
EXTENDS Conversions

\* Bytes of one bit: words of two bits, numbers of eight.
Bytes == {0, 1}

\* The encoding of a number without leading zeroes.
RECURSIVE Minimal(_)
Minimal(n) == IF n = 0 THEN <<>> ELSE Append(Minimal(n \div 2), n % 2)

MCValues_ == UNION {[1 .. n -> Bytes] : n \in 0 .. 8}
MCPrices == {Minimal(n) : n \in 0 .. 255}
MCVolumes == {Minimal(n) : n \in {0, 1, 3, 5, 15, 16, 37, 91, 128, 255}}

\* A hash in which every digit of the text has a part.
MCKeccak(text) ==
    [i \in DOMAIN text |-> (text[i] + 3 * text[(i % Len(text)) + 1] + text[1] * text[Len(text)] + i) % 4]
============================================================================
