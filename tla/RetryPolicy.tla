---------------------------- MODULE RetryPolicy ----------------------------
(***************************************************************************)
(* The pure half of the Python transport: which answers may be retried,    *)
(* how long to wait first, and which error a status becomes.               *)
(* (python/src/pactman_nonprofit_check_plus: _http.py, config.py,          *)
(* errors.py)                                                              *)
(*                                                                         *)
(* Durations are counted in ticks.  Grain is the number of ticks in the    *)
(* millisecond to which the code rounds a delay.                           *)
(***************************************************************************)
EXTENDS Draws, Powers, TLC

CONSTANT Grain

ASSUME RetryPolicyAssumption == Grain \in Nat \ {0} /\ Parts \in Nat \ {0}

(* None, where a duration is expected. *)
None == -1

-----------------------------------------------------------------------------
(* The policy in force, and the `retry` argument that adjusts it.          *)

RetryOptions ==
    [max_retries : Nat, initial_delay : Nat, max_delay : Nat,
     backoff_factor : Nat \ {0}, jitter : BOOLEAN,
     retryable_statuses : SUBSET Nat, respect_retry_after : BOOLEAN]

OptionNames == {"max_retries", "initial_delay", "max_delay", "backoff_factor",
                "jitter", "retryable_statuses", "respect_retry_after"}

(* The range checks of __post_init__. *)
ValidOptions(options) ==
    /\ options.max_retries >= 0
    /\ options.initial_delay >= 0
    /\ options.max_delay >= 0
    /\ options.backoff_factor >= 1

(* PactmanConfigurationError, raised before anything is sent. *)
Rejected == [rejected |-> TRUE]

Checked(options) == IF ValidOptions(options) THEN options ELSE Rejected

(* What a caller may pass: nothing (or True), False, a whole policy, or a
   mapping of some fields, written as a record of those fields. *)
Keep == [kind |-> "keep"]
Off == [kind |-> "off"]
Whole(options) == [kind |-> "whole", options |-> options]
Mapping(fields) == [kind |-> "mapping", fields |-> fields]

(* The values of a mapping have the types of their options, if not the range. *)
WellTyped(fields) ==
    \A f \in DOMAIN fields :
        /\ f \in {"max_retries", "initial_delay", "max_delay", "backoff_factor"} =>
              fields[f] \in Int
        /\ f \in {"jitter", "respect_retry_after"} => fields[f] \in BOOLEAN
        /\ f = "retryable_statuses" => fields[f] \in SUBSET Nat

RetryArgument(override) ==
    \/ override \in {Keep, Off}
    \/ override.kind = "whole" /\ override.options \in RetryOptions
    \/ override.kind = "mapping" /\ WellTyped(override.fields)

(* Mutant: a mapping is completed from the SDK defaults of a whole policy
   instead of the client's policy. *)
ResolveRetryRestarting(current, override) ==
    IF override.kind = "mapping"
    THEN Checked(override.fields @@ [current EXCEPT !.max_retries = 2])
    ELSE IF override.kind = "off" THEN [current EXCEPT !.max_retries = 0]
    ELSE IF override.kind = "whole" THEN override.options ELSE current

(* dataclasses.replace. *)
Replaced(current, fields) ==
    [f \in DOMAIN current |-> IF f \in DOMAIN fields THEN fields[f] ELSE current[f]]

ResolveRetry(current, override) ==
    CASE override.kind = "keep" -> current
      [] override.kind = "off" -> [current EXCEPT !.max_retries = 0]
      [] override.kind = "whole" -> override.options
      [] override.kind = "mapping" ->
            IF DOMAIN override.fields \subseteq OptionNames
            THEN Checked(Replaced(current, override.fields))
            ELSE Rejected

-----------------------------------------------------------------------------
(* Which statuses are worth another attempt.                               *)

NeverRetry == {400, 401, 403, 404}

(* Mutant: the caller's list is believed even for a refusal. *)
IsRetryableStatusTrusting(status, retry) == status \in retry.retryable_statuses

IsRetryableStatus(status, retry) ==
    status \notin NeverRetry /\ status \in retry.retryable_statuses

(* httpx's is_success. *)
IsSuccess(status) == status \in 200 .. 299

-----------------------------------------------------------------------------
(* The Retry-After header.                                                 *)

(* The forms read_retry_after tells apart: no header or only blanks, a
   finite number, a number that is not finite, an HTTP date (the instant it
   names), and anything else. *)
NoHeader == [form |-> "absent"]
Seconds(n) == [form |-> "seconds", value |-> n]
HttpDate(t) == [form |-> "date", value |-> t]
NotFinite == [form |-> "not_finite"]
Garbage == [form |-> "garbage"]

Headers == {NoHeader, NotFinite, Garbage}
              \cup [form : {"seconds"}, value : Int]
              \cup [form : {"date"}, value : Nat]

ReadRetryAfter(header, now) ==
    CASE header.form = "seconds" /\ header.value >= 0 -> header.value
      [] header.form = "date" -> Larger(0, header.value - now)
      [] OTHER -> None

-----------------------------------------------------------------------------
(* How long to wait.                                                       *)

(* round(d, 3): to the nearest millisecond, a tie to the even one. *)
Round3(d) ==
    LET below == d \div Grain
        twice == 2 * (d % Grain)
        up == twice > Grain \/ (twice = Grain /\ below % 2 = 1)
    IN  Grain * (IF up THEN below + 1 ELSE below)

(* initial_delay, doubled (say) once per attempt already made. *)
Exponential(attempt, retry) ==
    retry.initial_delay * Power(retry.backoff_factor, attempt - 1)

HonorsServer(retry, retryAfter) ==
    retry.respect_retry_after /\ retryAfter # None /\ retryAfter >= 0

(* Mutant: the cap on the backoff is applied to the server's wait too. *)
ComputeRetryDelayCapped(attempt, retry, retryAfter, draw) ==
    LET capped == Smaller(IF HonorsServer(retry, retryAfter)
                          THEN retryAfter ELSE Exponential(attempt, retry),
                          retry.max_delay)
    IN  Round3(capped)

ComputeRetryDelay(attempt, retry, retryAfter, draw) ==
    IF HonorsServer(retry, retryAfter)
    THEN Round3(retryAfter)
    ELSE LET capped == Smaller(Exponential(attempt, retry), retry.max_delay)
         IN  Round3(IF retry.jitter THEN (draw * capped) \div Parts
                                    ELSE capped)

-----------------------------------------------------------------------------
(* The class of error a failed status is raised as. *)
ErrorFromStatus(status) ==
    CASE status = 400 -> "BadRequest"
      [] status = 401 -> "Authentication"
      [] status = 403 -> "Authorization"
      [] status = 404 -> "NotFound"
      [] status = 429 -> "RateLimit"
      [] status >= 500 -> "Server"
      [] OTHER -> "Api"

ErrorClasses == {"BadRequest", "Authentication", "Authorization", "NotFound",
                 "RateLimit", "Server", "Api"}
=============================================================================
