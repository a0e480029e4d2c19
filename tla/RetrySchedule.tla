---------------------------- MODULE RetrySchedule ----------------------------
(***************************************************************************)
(* The operators of RetryPolicy against independent definitions: one call  *)
(* resolves its policy, then meets one retryable failure after another,    *)
(* each with any header and any random draw.                               *)
(***************************************************************************)
EXTENDS RetryPolicy

CONSTANTS
    ClientPolicies,   \* the policies a client may have
    Overrides,        \* the `retry` arguments of a call
    FailureHeaders,   \* the Retry-After of a failure
    Instants,         \* when a failure is met
    MaxFailures       \* bound: the failures of one call

(* Policies are valid, arguments have the types the signature gives them. *)
ASSUME RetryScheduleAssumption ==
    /\ ClientPolicies \subseteq RetryOptions
    /\ \A argument \in Overrides : RetryArgument(argument)
    /\ FailureHeaders \subseteq Headers /\ Instants \subseteq Nat

VARIABLES
    client,         \* the client's policy
    override,       \* the `retry` argument of the call
    plan,           \* the policy in force, or Rejected
    failures,       \* so far
    answered, at,   \* the latest failure's Retry-After, and its instant
    drawn,          \* the random number drawn for it
    waited          \* how long the call waits after it

policyVars == <<client, override, plan>>
failureVars == <<policyVars, failures, answered, at, drawn, waited>>

FailuresInit ==
    /\ client \in ClientPolicies /\ override \in Overrides
    /\ plan = ResolveRetry(client, override)
    /\ failures = 0 /\ answered = NoHeader /\ at = 0 /\ drawn = 0 /\ waited = 0

(* The next attempt fails at instant `at`, with a header or without. *)
Fail ==
    /\ plan # Rejected /\ failures < MaxFailures
    /\ failures' = failures + 1
    /\ answered' \in FailureHeaders /\ at' \in Instants /\ drawn' \in 0 .. Parts - 1
    /\ waited' = ComputeRetryDelay(failures', plan, ReadRetryAfter(answered', at'),
                                   drawn')
    /\ UNCHANGED policyVars

FailuresSpec == FailuresInit /\ [][Fail]_failureVars

-----------------------------------------------------------------------------
(* The server's wait for the latest failure, by its own definition: a date in
   the past is a wait of zero, anything unreadable is no wait at all. *)
ServerWait ==
    CASE answered.form = "seconds" /\ answered.value \in Nat -> answered.value
      [] answered.form = "date" /\ answered.value >= at -> answered.value - at
      [] answered.form = "date" /\ answered.value < at -> 0
      [] OTHER -> None

ServerDecides == failures > 0 /\ plan.respect_retry_after /\ ServerWait # None

(* A usable Retry-After is the delay, to within half a millisecond of
   rounding: neither the cap, nor the jitter, nor the number of attempts
   already made changes it ("A valid Retry-After wins outright"). *)
ServerWaitWins ==
    ServerDecides => /\ 2 * (waited - ServerWait) <= Grain
                     /\ 2 * (ServerWait - waited) <= Grain

(* The un-jittered schedule by saturating multiplication, one factor per
   attempt, never above the cap. *)
Saturated(retry, n) ==
    LET saturating[k \in Nat] ==
            IF k <= 1 THEN Smaller(retry.initial_delay, retry.max_delay)
            ELSE Smaller(saturating[k - 1] * retry.backoff_factor, retry.max_delay)
    IN  saturating[n]

(* Left to itself the client waits by capped exponential backoff: exactly
   that without jitter, and with it anywhere from zero up to it. *)
BackoffFollowsSchedule ==
    failures > 0 /\ ~ServerDecides =>
        LET full == Saturated(plan, failures)
        IN  IF plan.jitter THEN waited >= 0 /\ 2 * (waited - full) <= Grain
            ELSE 2 * (waited - full) <= Grain /\ 2 * (full - waited) <= Grain

(* "A valid Retry-After wins outright" over the cap, the jitter and the number
   of attempts made; left to itself the client waits by capped exponential
   backoff, or with jitter anywhere from zero up to it (compute_retry_delay,
   read_retry_after). *)
DelayFollowsPolicy == ServerWaitWins /\ BackoffFollowsSchedule

(* A `retry` argument changes what it names and nothing else, and no policy
   that __post_init__ would refuse is ever in force (resolve_retry). *)
OverrideChangesWhatItNames ==
    IF plan = Rejected
    THEN override.kind = "mapping" /\
            \/ ~(DOMAIN override.fields \subseteq DOMAIN client)
            \/ \E f \in DOMAIN override.fields \cap {"max_retries", "initial_delay",
                                                   "max_delay", "backoff_factor"} :
                  override.fields[f] < (IF f = "backoff_factor" THEN 1 ELSE 0)
    ELSE /\ plan \in RetryOptions
         /\ override.kind # "whole" =>
               \A f \in DOMAIN client :
                   plan[f] =
                     CASE override.kind = "off" /\ f = "max_retries" -> 0
                       [] override.kind = "mapping" /\ f \in DOMAIN override.fields ->
                             override.fields[f]
                       [] OTHER -> client[f]
=============================================================================
