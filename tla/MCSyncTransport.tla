--------------------------- MODULE MCSyncTransport ---------------------------
(* Two threads on one client that send, one of which retries, and one whose
   argument is refused; an API that may succeed, refuse, or be overloaded for
   longer than max_delay. *)
EXTENDS SyncTransport

CONSTANTS c1, c2, c3

MCCalls == {c1, c2, c3}

MCRetry ==
    [max_retries |-> 1, initial_delay |-> 1, max_delay |-> 2,
     backoff_factor |-> 2, jitter |-> TRUE,
     retryable_statuses |-> {429, 503}, respect_retry_after |-> TRUE]

(* c1 asks for a 404 to be retried as well; c2 turned retries off;
   c3 misspells an option, and so sends nothing. *)
MCOverride == (c1 :> Mapping([retryable_statuses |-> {404, 503}]))
              @@ (c2 :> Mapping([max_retries |-> 0]))
              @@ (c3 :> Mapping([max_retry |-> 2]))

MCAnswers ==
    {[status |-> 200, retry_after |-> NoHeader],
     [status |-> 404, retry_after |-> NoHeader],
     [status |-> 503, retry_after |-> HttpDate(3)]}
=============================================================================
