--------------------------- MODULE MCGoRetryDelay ---------------------------
(* Durations have 10 bits, with 20 units to the millisecond: the longest is
   25.55 milliseconds, and in the program 9223372036854.78, which both round
   up to a number that does not fit. *)
EXTENDS GoRetrySchedule

MCPolicies ==
    [initial_delay : {0, 40, 100}, max_delay : {0, 200, 509, 511},
     backoff_factor : {1, 3}, jitter : BOOLEAN, respect_retry_after : BOOLEAN]

Fitting == {0 - 30, 0, 9, 10, 11, 250, 509}

Long == {480, 510, 511, 512, 600, 1000, 1100}

MCWaits == {Go!Unusable} \cup {Go!Seconds(n) : n \in Fitting}
              \cup {Go!HttpDate(n) : n \in Fitting}

MCLongWaits == {Go!Seconds(n) : n \in Long} \cup {Go!HttpDate(n) : n \in Long}
=============================================================================
