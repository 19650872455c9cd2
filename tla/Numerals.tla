------------------------------ MODULE Numerals ------------------------------
(***************************************************************************)
(* Powers, and what digits stand for.  Both are written out as recursive   *)
(* functions, of which theorems can be proved for every argument.          *)
(***************************************************************************)
EXTENDS Integers, Sequences

\* b to the power of n.
Power(b, n) ==
    LET power[k \in 0 .. n] == IF k = 0 THEN 1 ELSE b * power[k - 1]
    IN  power[n]

\* What digits stand for in a base, the most significant first.
Denoted(digits, base) ==
    LET value[k \in 0 .. Len(digits)] ==
            IF k = 0 THEN 0 ELSE value[k - 1] * base + digits[k]
    IN  value[Len(digits)]
=============================================================================
