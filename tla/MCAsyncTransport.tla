-------------------------- MODULE MCAsyncTransport --------------------------
(* Two tasks on one asynchronous client, one of which asks for no retry; either
   may be cancelled. *)
EXTENDS AsyncTransport

CONSTANTS c1, c2

MCCalls == {c1, c2}

MCRetry ==
    [max_retries |-> 1, initial_delay |-> 1, max_delay |-> 2,
     backoff_factor |-> 2, jitter |-> FALSE,
     retryable_statuses |-> {429, 503}, respect_retry_after |-> TRUE]

MCOverride == (c1 :> Keep) @@ (c2 :> Mapping([max_retries |-> 0]))

MCAnswers ==
    {[status |-> 200, retry_after |-> NoHeader],
     [status |-> 503, retry_after |-> Seconds(2)]}
=============================================================================
