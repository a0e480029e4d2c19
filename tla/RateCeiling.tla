----------------------------- MODULE RateCeiling -----------------------------
(***************************************************************************)
(* What max_requests_per_second promises: counting from the creation of    *)
(* the client, the n-th request goes out no earlier than n - 1 intervals   *)
(* later, whichever threads or tasks the requests belong to.  Two requests *)
(* may be closer than an interval when the first of them is late: the      *)
(* ceiling is on the count, not on every pair.  Where timers take whole    *)
(* milliseconds a request may be early by less than one.                   *)
(***************************************************************************)
EXTENDS Integers

CONSTANTS
    Interval,       \* 1 / max_requests_per_second; 0 when unlimited
    Slack           \* by how much a timer may be early

VARIABLES clock, released

ceilingVars == <<clock, released>>

Init == clock = 0 /\ released = 0

Release == /\ released * Interval <= clock + Slack
           /\ released' = released + 1
           /\ UNCHANGED clock

Pass == /\ clock' \in {t \in Nat : t > clock}
        /\ UNCHANGED released

Next == Release \/ Pass

Spec == Init /\ [][Next]_ceilingVars
=============================================================================
