-------------------------------- MODULE Draws --------------------------------
(* What every retry delay is made with: a draw of random() in [0, 1), and the
   lesser or the greater of two durations. *)
EXTENDS Integers

CONSTANT Parts      \* a draw is a number of parts out of Parts, 0 .. Parts - 1

Smaller(a, b) == IF a <= b THEN a ELSE b
Larger(a, b) == IF a >= b THEN a ELSE b
=============================================================================
