------------------------------- MODULE Powers -------------------------------
(***************************************************************************)
(* The power by which every SDK lets its delays grow, as a function of its *)
(* exponent.                                                               *)
(***************************************************************************)
EXTENDS Integers

(* b ** n, math.Pow(b, n), for an exponent from zero up. *)
Power(b, n) == LET power[k \in Nat] == IF k = 0 THEN 1 ELSE b * power[k - 1] IN power[n]
=============================================================================
