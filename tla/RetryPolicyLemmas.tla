--------------------------- MODULE RetryPolicyLemmas ---------------------------
(***************************************************************************)
(* What RetryPolicy computes, for every policy, header and draw: the       *)
(* policy in force, and the delay.  The proofs about the transports need   *)
(* that a delay is a duration, and long enough.                            *)
(***************************************************************************)
EXTENDS RetryPolicy, CountingLemmas

-----------------------------------------------------------------------------
(* Delays and headers are natural numbers.                                 *)

(* The exponential delay starts at initial_delay, and is one factor more with
   each attempt (compute_retry_delay). *)
LEMMA ExponentialIs ==
  ASSUME NEW retry, retry.initial_delay \in Nat, retry.backoff_factor \in Nat
  PROVE  /\ Exponential(1, retry) = retry.initial_delay
         /\ \A n \in Nat \ {0} :
               /\ Exponential(n, retry) \in Nat
               /\ Exponential(n + 1, retry) = Exponential(n, retry) * retry.backoff_factor
<1> DEFINE b == retry.backoff_factor
           d == retry.initial_delay
<1>1. /\ b \in Nat /\ d \in Nat /\ Power(b, 0) = 1
      /\ \A n \in Nat : Power(b, n) \in Nat /\ Power(b, n + 1) = b * Power(b, n)
  BY PowerIs
<1>2. \A n \in Int : Exponential(n, retry) = d * Power(b, n - 1)
  BY DEF Exponential
<1> HIDE DEF b, d
<1>3. ASSUME NEW n \in Nat \ {0}
      PROVE  /\ Exponential(n, retry) \in Nat
             /\ Exponential(n + 1, retry) = Exponential(n, retry) * b
  <2>1. n - 1 \in Nat /\ (n - 1) + 1 = n /\ (n + 1) - 1 = n /\ n + 1 \in Int
    OBVIOUS
  <2>2. /\ Power(b, n - 1) \in Nat /\ Power(b, n) = b * Power(b, n - 1)
        /\ Exponential(n, retry) = d * Power(b, n - 1)
        /\ Exponential(n + 1, retry) = d * Power(b, n)
    BY <1>1, <1>2, <2>1
  <2>3. ASSUME NEW p \in Nat PROVE d * p \in Nat /\ d * (b * p) = (d * p) * b
    BY <1>1
  <2> QED
    BY <2>2, <2>3
<1>4. Exponential(1, retry) = d
  BY <1>1, <1>2
<1> QED
  BY <1>3, <1>4 DEF b, d

(* Rounding to the millisecond gives a duration (round in
   compute_retry_delay). *)
LEMMA Round3Type == ASSUME NEW d \in Nat PROVE Round3(d) \in Nat
<1>1. d \div Grain \in Nat /\ Grain \in Nat
  BY RetryPolicyAssumption
<1>2. ASSUME NEW q \in Nat PROVE Grain * q \in Nat
  BY <1>1
<1>3. (d \div Grain) + 1 \in Nat
  BY <1>1
<1> QED
  BY <1>1, <1>2, <1>3 DEF Round3

(* round(d, 3) loses at most half a millisecond (compute_retry_delay). *)
LEMMA Round3Near ==
  ASSUME NEW d \in Nat PROVE 2 * Round3(d) + Grain >= 2 * d
<1> DEFINE q == d \div Grain
           r == d % Grain
<1>1. q \in Nat /\ r \in 0 .. Grain - 1 /\ d = Grain * q + r /\ Grain \in Nat
  BY RetryPolicyAssumption, DivMod
<1>2. Grain * (q + 1) = Grain * q + Grain /\ Grain * q \in Nat
  BY <1>1
<1>3. \/ Round3(d) = Grain * (q + 1)
      \/ 2 * r <= Grain /\ Round3(d) = Grain * q
  BY <1>1 DEF Round3
<1> HIDE DEF q, r
<1> QED
  BY <1>1, <1>2, <1>3

(* Nor does it gain more. *)
LEMMA Round3Below ==
  ASSUME NEW d \in Nat PROVE 2 * Round3(d) <= 2 * d + Grain
<1> DEFINE q == d \div Grain
           r == d % Grain
<1>1. q \in Nat /\ r \in 0 .. Grain - 1 /\ d = Grain * q + r /\ Grain \in Nat
  BY RetryPolicyAssumption, DivMod
<1>2. Grain * (q + 1) = Grain * q + Grain /\ Grain * q \in Nat
  BY <1>1
<1>3. \/ 2 * r >= Grain /\ Round3(d) = Grain * (q + 1)
      \/ Round3(d) = Grain * q
  BY <1>1 DEF Round3
<1> HIDE DEF q, r
<1> QED
  BY <1>1, <1>2, <1>3

(* Every retry delay is a natural number of ticks: no jitter, cap or header
   makes a sleep negative (compute_retry_delay). *)
LEMMA DelayType ==
  ASSUME NEW attempt \in Nat \ {0}, NEW retry, NEW retryAfter \in Int, NEW draw \in Nat,
         retry.max_delay \in Nat, retry.initial_delay \in Nat,
         retry.backoff_factor \in Nat
  PROVE  ComputeRetryDelay(attempt, retry, retryAfter, draw) \in Nat
<1> DEFINE capped == Smaller(Exponential(attempt, retry), retry.max_delay)
<1>1. capped \in Nat
  BY ExponentialIs DEF Smaller
<1>2. (draw * capped) \div Parts \in Nat
  <2>1. draw * capped \in Nat
    BY <1>1
  <2> QED
    BY <2>1, RetryPolicyAssumption
<1>3. HonorsServer(retry, retryAfter) => retryAfter \in Nat
  BY DEF HonorsServer
<1> HIDE DEF capped
<1>4. Round3(capped) \in Nat /\ Round3((draw * capped) \div Parts) \in Nat
  BY <1>1, <1>2, Round3Type
<1>5. HonorsServer(retry, retryAfter) => Round3(retryAfter) \in Nat
  BY <1>3, Round3Type
<1> QED
  BY <1>4, <1>5 DEF ComputeRetryDelay, capped

(* read_retry_after gives a natural number of ticks or None. *)
LEMMA RetryAfterType ==
  ASSUME NEW header \in Headers, NEW t \in Nat
  PROVE  ReadRetryAfter(header, t) \in Nat \cup {None}
BY DEF ReadRetryAfter, Headers, NoHeader, NotFinite, Garbage, Larger, None

-----------------------------------------------------------------------------
(* What a call waits for, and under which policy.                          *)

(* The wait a header asks for: a number of seconds from zero up, the time to a
   date, none for a date that is past. *)
ServerAsks(header, now, wait) ==
    \/ header.form = "seconds" /\ header.value >= 0 /\ wait = header.value
    \/ header.form = "date" /\ wait >= 0 /\ wait >= header.value - now
          /\ (wait = 0 \/ wait = header.value - now)

(* "A valid Retry-After wins outright": whatever the policy, the attempt and
   the draw, the delay is what the server asks for, to within half a
   millisecond (compute_retry_delay, read_retry_after). *)
THEOREM ServerWaitTheorem ==
  ASSUME NEW header \in Headers, NEW now \in Nat, NEW wait \in Int,
         ServerAsks(header, now, wait),
         NEW retry, retry.respect_retry_after, NEW attempt, NEW draw
  PROVE  LET delay == ComputeRetryDelay(attempt, retry, ReadRetryAfter(header, now), draw)
         IN  2 * (delay - wait) <= Grain /\ 2 * (wait - delay) <= Grain
<1>1. ReadRetryAfter(header, now) = wait /\ wait \in Nat
  BY DEF ServerAsks, ReadRetryAfter, Headers, NoHeader, NotFinite, Garbage, Larger
<1>2. ComputeRetryDelay(attempt, retry, wait, draw) = Round3(wait)
  BY <1>1 DEF ComputeRetryDelay, HonorsServer, None
<1>3. Round3(wait) \in Nat /\ Grain \in Nat
  BY <1>1, Round3Type, RetryPolicyAssumption
<1> QED
  BY <1>1, <1>2, <1>3, Round3Near, Round3Below

(* Left to itself the client waits by capped exponential backoff, to within
   half a millisecond, or with jitter for no longer than that
   (compute_retry_delay). *)
THEOREM BackoffTheorem ==
  ASSUME NEW attempt \in Nat \ {0}, NEW retry, NEW retryAfter,
         ~HonorsServer(retry, retryAfter), retry.max_delay \in Nat,
         retry.initial_delay \in Nat, retry.backoff_factor \in Nat, NEW draw \in 0 .. Parts - 1
  PROVE  LET delay == ComputeRetryDelay(attempt, retry, retryAfter, draw)
             full == Smaller(Exponential(attempt, retry), retry.max_delay)
         IN  /\ delay >= 0 /\ 2 * (delay - full) <= Grain
             /\ ~retry.jitter => 2 * (full - delay) <= Grain
<1> DEFINE full == Smaller(Exponential(attempt, retry), retry.max_delay)
           part == (draw * full) \div Parts
<1>1. full \in Nat
  BY ExponentialIs DEF Smaller
<1>2. ComputeRetryDelay(attempt, retry, retryAfter, draw) =
          Round3(IF retry.jitter THEN part ELSE full)
  BY DEF ComputeRetryDelay
<1> HIDE DEF full
<1>3. part \in 0 .. full
  BY <1>1, DrawnPart, RetryPolicyAssumption
<1> HIDE DEF part
<1>4. /\ Round3(full) \in Nat /\ Round3(part) \in Nat /\ Grain \in Nat /\ part \in Nat
      /\ 2 * Round3(full) <= 2 * full + Grain /\ 2 * Round3(full) + Grain >= 2 * full
      /\ 2 * Round3(part) <= 2 * part + Grain
  BY <1>1, <1>3, Round3Type, Round3Near, Round3Below, RetryPolicyAssumption
<1>5. CASE retry.jitter
  BY <1>1, <1>2, <1>3, <1>4, <1>5 DEF full
<1>6. CASE ~retry.jitter
  BY <1>1, <1>2, <1>4, <1>6 DEF full
<1> QED
  BY <1>5, <1>6

Least(f) == IF f = "backoff_factor" THEN 1 ELSE 0

(* A mapping is refused for an unknown name or a number out of range, and for
   nothing else; otherwise it changes what it names and no more, and the policy
   is one that __post_init__ accepts (resolve_retry). *)
THEOREM MappingTheorem ==
  ASSUME NEW client \in RetryOptions, NEW fields, WellTyped(fields)
  PROVE  LET plan == ResolveRetry(client, Mapping(fields))
             refused == \/ ~(DOMAIN fields \subseteq OptionNames)
                        \/ \E f \in DOMAIN fields \cap {"max_retries", "initial_delay",
                                                     "max_delay", "backoff_factor"} :
                              fields[f] < Least(f)
         IN  /\ plan = Rejected <=> refused
             /\ ~refused => /\ plan \in RetryOptions
                            /\ \A f \in OptionNames :
                                  plan[f] = IF f \in DOMAIN fields THEN fields[f] ELSE client[f]
<1> DEFINE new == Replaced(client, fields)
<1>1. /\ DOMAIN client = OptionNames /\ DOMAIN new = OptionNames
      /\ \A f \in OptionNames :
            new[f] = IF f \in DOMAIN fields THEN fields[f] ELSE client[f]
  BY DEF RetryOptions, OptionNames, Replaced
<1>2. ResolveRetry(client, Mapping(fields)) =
          IF DOMAIN fields \subseteq OptionNames THEN Checked(new) ELSE Rejected
  BY DEF ResolveRetry, Mapping
<1>3. new # Rejected
  BY <1>1 DEF Rejected, OptionNames
<1>4. new = [f \in OptionNames |-> new[f]]
  BY <1>1 DEF Replaced
<1> HIDE DEF new
<1>5. /\ new.max_retries \in Int /\ new.initial_delay \in Int /\ new.max_delay \in Int
      /\ new.backoff_factor \in Int /\ new.jitter \in BOOLEAN
      /\ new.respect_retry_after \in BOOLEAN /\ new.retryable_statuses \in SUBSET Nat
  BY <1>1 DEF RetryOptions, OptionNames, WellTyped
<1>6. ValidOptions(new) => new \in RetryOptions
  BY <1>4, <1>5 DEF ValidOptions, RetryOptions, OptionNames
<1>7. ValidOptions(new) <=>
          \A f \in DOMAIN fields \cap {"max_retries", "initial_delay", "max_delay",
                                     "backoff_factor"} : ~(fields[f] < Least(f))
  BY <1>1, <1>5 DEF ValidOptions, RetryOptions, OptionNames, WellTyped, Least
<1> QED
  BY <1>1, <1>2, <1>3, <1>6, <1>7 DEF Checked

(* False turns off retrying and nothing else; no argument, and a whole policy,
   are taken as they are (resolve_retry). *)
THEOREM PlainOverrideTheorem ==
  ASSUME NEW client \in RetryOptions, NEW options \in RetryOptions
  PROVE  /\ ResolveRetry(client, Keep) = client
         /\ ResolveRetry(client, Whole(options)) = options
         /\ ResolveRetry(client, Off) \in RetryOptions
         /\ ResolveRetry(client, Off).max_retries = 0
         /\ \A f \in OptionNames \ {"max_retries"} : ResolveRetry(client, Off)[f] = client[f]
BY DEF ResolveRetry, Keep, Whole, Off, RetryOptions, OptionNames

(* Whatever a caller passes, the policy in force is one that __post_init__
   accepts, or the call is refused (resolve_retry). *)
LEMMA ResolvedType ==
  ASSUME NEW client \in RetryOptions, NEW override, RetryArgument(override)
  PROVE  ResolveRetry(client, override) \in RetryOptions \cup {Rejected}
<1>1. CASE override.kind = "mapping" /\ WellTyped(override.fields)
  <2>1. ResolveRetry(client, override) = ResolveRetry(client, Mapping(override.fields))
    BY <1>1 DEF ResolveRetry, Mapping
  <2> QED
    BY <1>1, <2>1, MappingTheorem
<1>2. CASE override.kind = "whole" /\ override.options \in RetryOptions
  BY <1>2 DEF ResolveRetry
<1>3. CASE override \in {Keep, Off}
  BY <1>3, PlainOverrideTheorem
<1> QED
  BY <1>1, <1>2, <1>3 DEF RetryArgument

LEMMA RejectedIsNone == Rejected \notin RetryOptions
<1>1. ASSUME NEW retry \in RetryOptions PROVE "jitter" \in DOMAIN retry
  BY DEF RetryOptions
<1>2. "jitter" \notin DOMAIN Rejected
  BY DEF Rejected
<1> QED
  BY <1>1, <1>2
=============================================================================
