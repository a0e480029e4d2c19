-------------------------- MODULE GoRetrySchedule --------------------------
(***************************************************************************)
(* The delay before a Go retry: one call meets one retryable failure after *)
(* another, each with any header and any draw.                             *)
(***************************************************************************)
EXTENDS GoDuration, Draws

CONSTANTS
    Policies,       \* the policies a call may have
    Waits,          \* headers the server may send
    MaxRefusals     \* bound: the failures of one call

Go == INSTANCE GoRetryDelay

(* What RetryPolicy.problem leaves, a cap being a Duration. *)
ASSUME GoRetryScheduleAssumption ==
    /\ \A retry \in Policies :
          /\ retry.initial_delay \in Nat /\ retry.max_delay \in 0 .. MaxInt
          /\ retry.backoff_factor \in Nat \ {0}
          /\ retry.jitter \in BOOLEAN /\ retry.respect_retry_after \in BOOLEAN
    /\ Waits \subseteq Go!Headers

VARIABLES
    policy,         \* the call's RetryPolicy
    refusals,       \* failures so far
    lastHeader,     \* the latest failure's Retry-After
    paused          \* how long waitBeforeRetry slept for it

refusalVars == <<policy, refusals, lastHeader, paused>>

RefusalsInit ==
    policy \in Policies /\ refusals = 0 /\ lastHeader = Go!Unusable /\ paused = 0

(* send meets a retryable status, reads the header and waits. *)
RetryLater ==
    /\ refusals < MaxRefusals
    /\ refusals' = refusals + 1
    /\ lastHeader' \in Waits
    /\ \E draw \in 0 .. Parts - 1 :
          paused' = Go!Slept(Go!ComputeRetryDelay(refusals', policy,
                                     Go!ReadRetryAfter(lastHeader'), draw))
    /\ UNCHANGED policy

RefusalsSpec == RefusalsInit /\ [][RetryLater]_refusalVars

-----------------------------------------------------------------------------
(* Properties. *)

HeaderDecides ==
    /\ refusals > 0 /\ policy.respect_retry_after
    /\ lastHeader.form = "date" \/ (lastHeader.form = "seconds" /\ lastHeader.value >= 0)

Within(a, b) == 2 * (a - b) <= Millisecond /\ 2 * (b - a) <= Millisecond

(* A Retry-After whose rounding fits in a Duration is slept out to within half
   a millisecond, or not at all when it is past. *)
UsableWaitSlept ==
    HeaderDecides /\ Rounded(lastHeader.value) * Millisecond <= MaxInt =>
        Within(paused, Larger(0, lastHeader.value))

(* Without one, and when the rounding of the cap fits, the delay never exceeds
   the cap and, without jitter, never drops below the first delay: growing it
   past what a Duration can hold does not make it small again (the float64
   arithmetic of computeRetryDelay). *)
BackoffNeverCollapses ==
    refusals > 0 /\ ~HeaderDecides /\ Rounded(policy.max_delay) * Millisecond <= MaxInt =>
        /\ 2 * (paused - policy.max_delay) <= Millisecond
        /\ ~policy.jitter => 2 * (Smaller(policy.initial_delay, policy.max_delay)
                                    - paused) <= Millisecond

(* "A usable Retry-After wins outright" (transport.go:235): the longer the
   server asks the client to stay away, the longer it stays away. *)
LongWaitSlept == HeaderDecides => paused >= Smaller(lastHeader.value, policy.max_delay)
=============================================================================
