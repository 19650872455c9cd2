---------------------------- MODULE Conversions ----------------------------
(***************************************************************************)
(* The conversions the instructions call while they prepare a screen or a  *)
(* response.  The application is sequential: one at a time.                *)
(***************************************************************************)
EXTENDS Amounts, Encodings

cvars == <<phase, fields, number, rDiv, tmp, outSize, out, made>>

Init == Idle /\ made = Nothing

Next ==
    \/ made = Nothing /\ AmountsNext /\ UNCHANGED made
    \/ phase = "idle" /\ EncodingsNext /\ UNCHANGED avars

Spec == Init /\ [][Next]_cvars
============================================================================
