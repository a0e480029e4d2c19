--------------------------- MODULE MCGoTransport ---------------------------
(* Two goroutines on one client, either of whose contexts may end. *)
EXTENDS GoTransport, TLC

CONSTANTS c1, c2

MCCalls == {c1, c2}

Policy ==
    [max_retries |-> 1, initial_delay |-> 1, max_delay |-> 1,
     backoff_factor |-> 2, jitter |-> FALSE,
     retryable_statuses |-> {404, 503}, respect_retry_after |-> TRUE]

(* c2 is called with a policy that has jitter and ignores Retry-After. *)
MCRetry ==
    (c1 :> Policy)
       @@ (c2 :> [Policy EXCEPT !.jitter = TRUE, !.initial_delay = 2,
                                !.max_delay = 2, !.respect_retry_after = FALSE])

MCAnswers ==
    {[status |-> 200, retry_after |-> Unusable],
     [status |-> 404, retry_after |-> Unusable],
     [status |-> 503, retry_after |-> Seconds(3)]}
=============================================================================
