----------------------------- MODULE GoDuration -----------------------------
(***************************************************************************)
(* A time.Duration, an integer of Width bits counting the finest unit      *)
(* (nanoseconds; 64 bits in the program, fewer here).  It is rounded to    *)
(* whole milliseconds in floating point, which is exact enough to be taken *)
(* for the rationals, and converted back, which wraps around when it does  *)
(* not fit.                                                                *)
(***************************************************************************)
EXTENDS Integers

CONSTANTS
    Width,          \* bits in a Duration
    Millisecond     \* in units of a Duration

MaxInt == 2 ^ (Width - 1) - 1

ASSUME MaxIntAssumption == MaxInt \in Nat

(* The integer of Width bits that n becomes: two's complement. *)
Wrap(n) == ((n + MaxInt + 1) % (2 * (MaxInt + 1))) - (MaxInt + 1)

(* math.Round, half away from zero, of a duration that is not negative. *)
Rounded(n) == (2 * n + Millisecond) \div (2 * Millisecond)

RoundToMillisecond(n) == Wrap(Rounded(n) * Millisecond)
=============================================================================
