---------------------------- MODULE GoRetryDelay ----------------------------
(***************************************************************************)
(* The delay before a retry in the Go SDK, in the arithmetic it is done    *)
(* in.  (go/pactman/transport.go, lines 230-287 and 394-408)               *)
(***************************************************************************)
EXTENDS GoDuration, Draws, Powers

ASSUME GoRetryDelayAssumption ==
    Width \in Nat \ {0} /\ Millisecond \in Nat \ {0} /\ Parts \in Nat \ {0}

(* A nil *time.Duration. *)
None == [present |-> FALSE]
Some(delay) == [present |-> TRUE, delay |-> delay]

(* The header: none or unusable, a finite number of seconds (as the durations
   it amounts to, any integer), or a date (as its distance from now). *)
Unusable == [form |-> "unusable"]
Seconds(n) == [form |-> "seconds", value |-> n]
HttpDate(n) == [form |-> "date", value |-> n]

Headers == {Unusable} \cup [form : {"seconds", "date"}, value : Int]

(* time.Time.Sub saturates, and so does the conversion of the seconds. *)
ReadRetryAfter(header) ==
    CASE header.form = "seconds" /\ header.value >= 0 ->
            Some(Smaller(header.value, MaxInt))
      [] header.form = "date" -> Some(Larger(0, Smaller(header.value, MaxInt)))
      [] OTHER -> None

Exponential(attempt, retry) ==
    retry.initial_delay * Power(retry.backoff_factor, attempt - 1)

(* Mutant: the server's wait is capped like a backoff. *)
ComputeRetryDelayCapped(attempt, retry, retryAfter, draw) ==
    LET wait == IF retry.respect_retry_after /\ retryAfter.present
                THEN retryAfter.delay ELSE Exponential(attempt, retry)
        capped == Smaller(wait, retry.max_delay)
    IN  RoundToMillisecond(IF retry.jitter /\ ~retryAfter.present
                           THEN (draw * capped) \div Parts ELSE capped)

(* Mutant: the exponential delay is grown as a Duration. *)
ComputeRetryDelayInDurations(attempt, retry, retryAfter, draw) ==
    IF retry.respect_retry_after /\ retryAfter.present
    THEN RoundToMillisecond(retryAfter.delay)
    ELSE LET capped == Smaller(Wrap(Exponential(attempt, retry)), retry.max_delay)
         IN  RoundToMillisecond(IF retry.jitter THEN (draw * capped) \div Parts
                                ELSE capped)

ComputeRetryDelay(attempt, retry, retryAfter, draw) ==
    IF retry.respect_retry_after /\ retryAfter.present /\ retryAfter.delay >= 0
    THEN RoundToMillisecond(retryAfter.delay)
    ELSE LET capped == Smaller(Exponential(attempt, retry), retry.max_delay)
         IN  RoundToMillisecond(IF retry.jitter THEN (draw * capped) \div Parts
                                ELSE capped)

(* sleepContext: a delay that is not positive is no sleep at all. *)
Slept(delay) == Larger(0, delay)

-----------------------------------------------------------------------------
(* Which statuses are worth another attempt (options.go, lines 84-99).     *)

Retries(status, retry) ==
    status \notin {400, 401, 403, 404} /\ status \in retry.retryable_statuses
=============================================================================
