-------------------------- MODULE MCNodeTransport --------------------------
(* Small instances of NodeTransport: two calls on one client, each of which
   its caller may abort at any point. *)
EXTENDS NodeTransport

CONSTANTS c1, c2

MCCalls == {c1, c2}

MCOneCall == {c1}

MCRetry ==
    [max_retries |-> 1, initial_delay |-> 2, max_delay |-> 2,
     backoff_factor |-> 2, jitter |-> TRUE,
     retryable_statuses |-> {429, 503}, respect_retry_after |-> TRUE]

(* c1 asks for one retry more; c2 turned retries off. *)
MCOverride == (c1 :> Mapping([max_retries |-> 2, jitter |-> FALSE])) @@ (c2 :> Off)

(* c1 follows the client's policy. *)
MCKeep == (c1 :> Keep)

(* c1 passes on a setting that turned out to be undefined. *)
MCUnset == (c1 :> Mapping([max_retries |-> Undefined]))

(* The last asks for a longer wait than a timer can hold. *)
MCAnswers ==
    {[status |-> 200, retry_after |-> NoHeader],
     [status |-> 404, retry_after |-> NoHeader],
     [status |-> 503, retry_after |-> Seconds(4)],
     [status |-> 503, retry_after |-> Seconds(14)]}

(* An API that always answers a check with a body. *)
MCHealthy == {[status |-> 200, retry_after |-> NoHeader]}
=============================================================================
