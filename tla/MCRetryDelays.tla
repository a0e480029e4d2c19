--------------------------- MODULE MCRetryDelays ---------------------------
(***************************************************************************)
(* One call of the Python SDK, or one of the Go SDK, that meets one        *)
(* retryable failure after another: RetrySchedule or GoRetrySchedule.      *)
(***************************************************************************)
EXTENDS RetrySchedule, MCGoRetryDelay

CONSTANT MaxDuration

MCClientPolicies ==
    [max_retries : {2}, initial_delay : {0, 3, 10}, max_delay : {0, 7, 40},
     backoff_factor : {1, 3}, jitter : BOOLEAN,
     retryable_statuses : {{429, 503}}, respect_retry_after : BOOLEAN]

MCOverrides ==
    {Keep, Off,
     Whole([max_retries |-> 1, initial_delay |-> 6, max_delay |-> 20,
                   backoff_factor |-> 2, jitter |-> FALSE,
                   retryable_statuses |-> {503}, respect_retry_after |-> TRUE]),
     Mapping([max_delay |-> 9]), Mapping([max_retries |-> 0 - 1]),
     Mapping([backoff_factor |-> 0]), Mapping([max_retry |-> 1])}

MCFailureHeaders ==
    {NoHeader, NotFinite, Garbage}
        \cup {Seconds(n) : n \in {0 - 4} \cup 0 .. MaxDuration}
        \cup {HttpDate(t) : t \in {0, 5, MaxDuration}}

MCInstants == {0, 6}

(* The other SDK's call has not been made. *)
GoIdle ==
    policy = [initial_delay |-> 0, max_delay |-> 0, backoff_factor |-> 1, jitter |-> FALSE,
              respect_retry_after |-> FALSE]

PythonIdle ==
    /\ override = Off
    /\ client = [max_retries |-> 2, initial_delay |-> 0, max_delay |-> 0,
                 backoff_factor |-> 1, jitter |-> FALSE, retryable_statuses |-> {429, 503},
                 respect_retry_after |-> FALSE]

EitherInit == FailuresInit /\ RefusalsInit /\ (GoIdle \/ PythonIdle)

EitherNext ==
    \/ PythonIdle /\ RetryLater /\ UNCHANGED failureVars
    \/ GoIdle /\ Fail /\ UNCHANGED refusalVars

EitherSpec == EitherInit /\ [][EitherNext]_<<failureVars, refusalVars>>
=============================================================================
