--------------------------- MODULE GoTransportProofs ---------------------------
(***************************************************************************)
(* Theorems about GoTransport, for any number of goroutines, any policies, *)
(* any interval and timeout, any width of a Duration, and contexts that    *)
(* end at any instant.                                                     *)
(***************************************************************************)
EXTENDS GoTransport, GoRetrySchedule, CountingLemmas

-----------------------------------------------------------------------------
(* Durations.                                                               *)

(* Conversion to a Duration gives an integer, the same one when it fits. *)
LEMMA WrapType == ASSUME NEW n \in Int PROVE Wrap(n) \in Int
BY MaxIntAssumption DEF Wrap

LEMMA WrapFits == ASSUME NEW n \in 0 .. MaxInt PROVE Wrap(n) = n
<1> DEFINE m == MaxInt
<1>1. m \in Nat /\ n \in 0 .. m
  BY MaxIntAssumption
<1> HIDE DEF m
<1>2. (n + m + 1) % (2 * (m + 1)) = n + m + 1
  BY <1>1
<1> QED
  BY <1>1, <1>2 DEF Wrap, m

(* Rounding to the millisecond: R of them, to the nearest. *)
LEMMA RoundedNear ==
  ASSUME NEW n \in Nat
  PROVE  /\ Rounded(n) \in Nat /\ Rounded(n) * Millisecond \in Nat
         /\ 2 * (Rounded(n) * Millisecond) <= 2 * n + Millisecond
         /\ 2 * n < 2 * (Rounded(n) * Millisecond) + Millisecond
<1> DEFINE R == Rounded(n)
           M == Millisecond
<1>1. M \in Nat \ {0} /\ 2 * M \in Nat \ {0} /\ 2 * n + M \in Nat
  BY GoRetryDelayAssumption
<1>2. PICK rest \in 0 .. 2 * M - 1 : R \in Nat /\ 2 * n + M = (2 * M) * R + rest
  BY <1>1, DivMod DEF Rounded
<1>3. (2 * M) * R = 2 * (R * M) /\ R * M \in Nat
  BY <1>1, <1>2
<1> HIDE DEF R, M
<1>4. 2 * (R * M) <= 2 * n + M /\ 2 * n < 2 * (R * M) + M
  BY <1>1, <1>2, <1>3
<1> QED
  BY <1>2, <1>3, <1>4 DEF R, M

(* A longer delay is rounded to no fewer milliseconds. *)
LEMMA RoundedMonotonic ==
  ASSUME NEW m \in Nat, NEW n \in Nat, m <= n
  PROVE  Rounded(m) * Millisecond <= Rounded(n) * Millisecond
<1> DEFINE R == Rounded(n)
           S == Rounded(m)
           M == Millisecond
<1>1. /\ M \in Nat \ {0} /\ R \in Nat /\ S \in Nat /\ R * M \in Nat /\ S * M \in Nat
      /\ 2 * n < 2 * (R * M) + M /\ 2 * (S * M) <= 2 * m + M
  BY RoundedNear, GoRetryDelayAssumption
<1> HIDE DEF R, S, M
<1>2. CASE S <= R
  BY <1>1, <1>2, ProductMonotonic DEF R, S, M
<1>3. CASE R + 1 <= S
  <2>1. (R + 1) * M <= S * M /\ (R + 1) * M = R * M + M
    BY <1>1, <1>3, ProductMonotonic
  <2> QED
    BY <1>1, <2>1
<1> QED
  BY <1>1, <1>2, <1>3

LEMMA RoundType == ASSUME NEW n \in Nat PROVE RoundToMillisecond(n) \in Int
BY RoundedNear, WrapType DEF RoundToMillisecond

(* A wait far enough from the end of the range loses less than a millisecond
   (roundToMillisecond). *)
LEMMA RoundHonors ==
  ASSUME NEW n \in Nat, n + Millisecond <= MaxInt
  PROVE  RoundToMillisecond(n) + Millisecond > n
<1>1. Millisecond \in Nat /\ MaxInt \in Nat
  BY GoRetryDelayAssumption, MaxIntAssumption
<1>2. Rounded(n) * Millisecond \in 0 .. MaxInt
  BY <1>1, RoundedNear
<1>3. RoundToMillisecond(n) = Rounded(n) * Millisecond
  BY <1>2, WrapFits DEF RoundToMillisecond
<1> QED
  BY <1>1, <1>2, <1>3, RoundedNear

(* The exponential delay is never below the first one (computeRetryDelay). *)
LEMMA ExponentialIs ==
  ASSUME NEW retry, retry.initial_delay \in Nat, retry.backoff_factor \in Nat \ {0},
         NEW n \in Nat \ {0}
  PROVE  Exponential(n, retry) \in Nat /\ Exponential(n, retry) >= retry.initial_delay
<1> DEFINE power == Power(retry.backoff_factor, n - 1)
           d == retry.initial_delay
<1>1. n - 1 \in Nat
  OBVIOUS
<1>2. power \in Nat /\ power >= 1 /\ d \in Nat
  BY <1>1, PowerIs, PowerPositive
<1>3. Exponential(n, retry) = d * power
  BY DEF Exponential
<1> HIDE DEF power, d
<1>4. 1 * d <= power * d /\ d * power = power * d /\ d * power \in Nat
  BY <1>2, ProductMonotonic
<1> QED
  BY <1>2, <1>3, <1>4 DEF d

(* Every delay is a Duration, jitter and header or not. *)
LEMMA DelayType ==
  ASSUME NEW retry, retry.initial_delay \in Nat, retry.max_delay \in Nat,
         retry.backoff_factor \in Nat \ {0}, NEW n \in Nat \ {0}, NEW draw \in Nat,
         NEW retryAfter, retryAfter.present => retryAfter.delay \in Nat
  PROVE  ComputeRetryDelay(n, retry, retryAfter, draw) \in Int
<1> DEFINE capped == Smaller(Exponential(n, retry), retry.max_delay)
<1>1. capped \in Nat
  BY ExponentialIs DEF Smaller
<1> HIDE DEF capped
<1>2. (draw * capped) \div Parts \in Nat
  <2>1. draw * capped \in Nat
    BY <1>1
  <2> QED
    BY <2>1, GoRetryDelayAssumption
<1>3. /\ RoundToMillisecond(capped) \in Int
      /\ RoundToMillisecond((draw * capped) \div Parts) \in Int
      /\ retryAfter.present => RoundToMillisecond(retryAfter.delay) \in Int
  BY <1>1, <1>2, RoundType
<1> QED
  BY <1>3 DEF ComputeRetryDelay, capped

(* readRetryAfter gives a Duration that is not negative, or nothing. *)
LEMMA RetryAfterType ==
  ASSUME NEW header \in Headers
  PROVE  ReadRetryAfter(header).present => ReadRetryAfter(header).delay \in Nat
BY MaxIntAssumption DEF ReadRetryAfter, Headers, Unusable, Some, None, Smaller, Larger

-----------------------------------------------------------------------------
(* What a call waits for.                                                   *)

(* The delay for a wait whose rounding fits, when the header saturates at the
   longest Duration too. *)
LEMMA RoundFits ==
  ASSUME NEW n \in Nat, Rounded(n) * Millisecond <= MaxInt
  PROVE  RoundToMillisecond(Smaller(n, MaxInt)) = Rounded(n) * Millisecond
<1> DEFINE m == Smaller(n, MaxInt)
           R == Rounded(n)
           S == Rounded(m)
           M == Millisecond
<1>1. /\ M \in Nat \ {0} /\ MaxInt \in Nat /\ m \in Nat
      /\ m = n \/ (m = MaxInt /\ n > MaxInt)
  BY GoRetryDelayAssumption, MaxIntAssumption DEF Smaller
<1>2. /\ R \in Nat /\ R * M \in 0 .. MaxInt /\ 2 * (R * M) <= 2 * n + M
      /\ 2 * n < 2 * (R * M) + M
      /\ S \in Nat /\ S * M \in Nat /\ 2 * (S * M) <= 2 * m + M
      /\ 2 * m < 2 * (S * M) + M
  <2> HIDE DEF m
  <2>1. /\ R \in Nat /\ R * M \in Nat /\ 2 * (R * M) <= 2 * n + M
        /\ 2 * n < 2 * (R * M) + M
    BY RoundedNear
  <2>2. /\ S \in Nat /\ S * M \in Nat /\ 2 * (S * M) <= 2 * m + M
        /\ 2 * m < 2 * (S * M) + M
    BY <1>1, RoundedNear
  <2> QED
    BY <2>1, <2>2
<1>3. ASSUME m = MaxInt, n > MaxInt PROVE S = R
  <2>1. CASE S >= R + 1
    <3> HIDE DEF R, S, M, m
    <3>1. (R + 1) * M <= S * M /\ (R + 1) * M = R * M + M
      BY <1>1, <1>2, <2>1, ProductMonotonic
    <3> QED
      BY <1>1, <1>2, <1>3, <3>1
  <2>2. CASE R >= S + 1
    <3> HIDE DEF R, S, M, m
    <3>1. (S + 1) * M <= R * M /\ (S + 1) * M = S * M + M
      BY <1>1, <1>2, <2>2, ProductMonotonic
    <3> QED
      BY <1>1, <1>2, <1>3, <3>1
  <2> QED
    <3> HIDE DEF R, S
    <3> QED
      BY <1>2, <2>1, <2>2
<1>4. S = R
  BY <1>1, <1>3
<1>5. RoundToMillisecond(m) = Wrap(R * M)
  BY <1>4 DEF RoundToMillisecond
<1> QED
  BY <1>2, <1>5, WrapFits

(* "A usable Retry-After wins outright": whatever the policy, the attempt and
   the draw, a wait whose rounding is a Duration is slept out to within half a
   millisecond, and a date that is past not at all (readRetryAfter,
   computeRetryDelay, sleepContext). *)
THEOREM GoWaitTheorem ==
  ASSUME NEW header \in Headers \ {Unusable},
         header.form = "seconds" => header.value >= 0,
         Rounded(header.value) * Millisecond <= MaxInt,
         NEW retry, retry.respect_retry_after, NEW n, NEW draw
  PROVE  LET asleep == Slept(ComputeRetryDelay(n, retry, ReadRetryAfter(header), draw))
             wait == Larger(0, header.value)
         IN  2 * (asleep - wait) <= Millisecond /\ 2 * (wait - asleep) <= Millisecond
<1> DEFINE v == header.value
           wait == Larger(0, v)
<1>1. v \in Int /\ header.form \in {"seconds", "date"} /\ wait \in Nat
  BY DEF Headers, Larger
<1>2. /\ MaxInt \in Nat /\ Millisecond \in Nat \ {0}
      /\ ReadRetryAfter(header) = Some(Smaller(wait, MaxInt))
  BY <1>1, GoRetryDelayAssumption, MaxIntAssumption
     DEF ReadRetryAfter, Smaller, Larger
<1>3. /\ Smaller(wait, MaxInt) >= 0
      /\ ComputeRetryDelay(n, retry, ReadRetryAfter(header), draw) =
            RoundToMillisecond(Smaller(wait, MaxInt))
  BY <1>1, <1>2 DEF ComputeRetryDelay, Some, Smaller
<1>4. Rounded(wait) * Millisecond <= MaxInt
  <2>1. CASE v >= 0
    BY <1>1, <2>1 DEF Larger
  <2>2. CASE v < 0
    <3>1. wait = 0
      BY <1>1, <2>2 DEF Larger
    <3>2. 2 * (Rounded(0) * Millisecond) <= 2 * 0 + Millisecond
          /\ Rounded(0) * Millisecond \in Nat /\ Rounded(0) \in Nat
      BY RoundedNear
    <3>3. Rounded(0) = 0
      <4>1. CASE Rounded(0) >= 1
        <5>1. 1 * Millisecond <= Rounded(0) * Millisecond
          BY <1>2, <3>2, <4>1, ProductMonotonic
        <5> QED
          BY <1>2, <3>2, <5>1
      <4> QED
        BY <3>2, <4>1
    <3> QED
      BY <1>2, <3>1, <3>3
  <2> QED
    BY <1>1, <2>1, <2>2
<1>5. RoundToMillisecond(Smaller(wait, MaxInt)) = Rounded(wait) * Millisecond
  BY <1>1, <1>4, RoundFits
<1>6. /\ Rounded(wait) * Millisecond \in Nat
      /\ 2 * (Rounded(wait) * Millisecond) <= 2 * wait + Millisecond
      /\ 2 * wait < 2 * (Rounded(wait) * Millisecond) + Millisecond
  BY <1>1, RoundedNear
<1> HIDE DEF wait, v
<1>7. Slept(RoundToMillisecond(Smaller(wait, MaxInt))) = Rounded(wait) * Millisecond
  BY <1>5, <1>6 DEF Slept, Larger
<1> QED
  BY <1>1, <1>2, <1>3, <1>6, <1>7 DEF wait, v

(* Left to itself the client waits by capped exponential backoff, to within
   half a millisecond, or with jitter for no longer than that, whenever the cap
   rounds to a Duration: growing the delay past what a Duration holds does not
   make it small again (computeRetryDelay). *)
THEOREM GoBackoffTheorem ==
  ASSUME NEW n \in Nat \ {0}, NEW retry, NEW retryAfter,
         ~(retry.respect_retry_after /\ retryAfter.present /\ retryAfter.delay >= 0),
         retry.initial_delay \in Nat, retry.backoff_factor \in Nat \ {0},
         retry.max_delay \in Nat, Rounded(retry.max_delay) * Millisecond <= MaxInt,
         NEW draw \in 0 .. Parts - 1
  PROVE  LET asleep == Slept(ComputeRetryDelay(n, retry, retryAfter, draw))
             full == Smaller(Exponential(n, retry), retry.max_delay)
         IN  /\ 2 * (asleep - full) <= Millisecond
             /\ ~retry.jitter => 2 * (full - asleep) <= Millisecond
<1> DEFINE full == Smaller(Exponential(n, retry), retry.max_delay)
           part == (draw * full) \div Parts
           wait == IF retry.jitter THEN part ELSE full
<1>1. full \in Nat /\ full <= retry.max_delay
  BY ExponentialIs DEF Smaller
<1>2. ComputeRetryDelay(n, retry, retryAfter, draw) = RoundToMillisecond(wait)
  BY DEF ComputeRetryDelay
<1> HIDE DEF full
<1>3. part \in 0 .. full
  BY <1>1, DrawnPart, GoRetryDelayAssumption
<1> HIDE DEF part
<1>4. /\ wait \in Nat /\ wait <= full /\ (~retry.jitter => wait = full)
      /\ Millisecond \in Nat \ {0} /\ MaxInt \in Nat
  BY <1>1, <1>3, GoRetryDelayAssumption, MaxIntAssumption
<1> HIDE DEF wait
<1>5. /\ Rounded(wait) * Millisecond \in Nat
      /\ 2 * (Rounded(wait) * Millisecond) <= 2 * wait + Millisecond
      /\ 2 * wait < 2 * (Rounded(wait) * Millisecond) + Millisecond
  BY <1>4, RoundedNear
<1>6. Rounded(wait) * Millisecond \in 0 .. MaxInt
  <2>1. Rounded(wait) * Millisecond <= Rounded(retry.max_delay) * Millisecond
    BY <1>1, <1>4, RoundedMonotonic
  <2>2. Rounded(retry.max_delay) * Millisecond \in Nat
    BY RoundedNear
  <2> QED
    BY <1>4, <1>5, <2>1, <2>2
<1>7. Slept(RoundToMillisecond(wait)) = Rounded(wait) * Millisecond
  BY <1>6, WrapFits DEF RoundToMillisecond, Slept, Larger
<1> QED
  BY <1>1, <1>2, <1>4, <1>5, <1>7 DEF full

-----------------------------------------------------------------------------
(* GoRetrySchedule: a call with any policy that fails any number of times.  *)

(* The operators of the instance are those of GoRetryDelay. *)
LEMMA SameDelay ==
  /\ Go!Headers = Headers /\ Go!Unusable = Unusable
  /\ \A n, retry, header, draw :
        Go!Slept(Go!ComputeRetryDelay(n, retry, Go!ReadRetryAfter(header), draw))
            = Slept(ComputeRetryDelay(n, retry, ReadRetryAfter(header), draw))
BY DEF Go!Headers, Go!Unusable, Go!Slept, Go!ComputeRetryDelay, Go!ReadRetryAfter,
       Go!Some, Go!None, Go!Exponential, Go!Power, Go!RoundToMillisecond, Go!Rounded,
       Go!Wrap, Go!MaxInt, Go!Smaller, Go!Larger,
       Headers, Unusable, Slept, ComputeRetryDelay, ReadRetryAfter, Some, None,
       Exponential, Power, RoundToMillisecond, Rounded, Wrap, MaxInt, Smaller, Larger

(* The policy is one that RetryPolicy.problem leaves, and the call has slept
   what the policy says of the latest failure. *)
RefusalsInv ==
    /\ policy.initial_delay \in Nat /\ policy.max_delay \in Nat
    /\ policy.backoff_factor \in Nat \ {0}
    /\ refusals \in Nat /\ lastHeader \in Headers
    /\ refusals > 0 =>
          \E draw \in 0 .. Parts - 1 :
             paused = Slept(ComputeRetryDelay(refusals, policy, ReadRetryAfter(lastHeader), draw))

LEMMA RefusalsInvInit == RefusalsInit => RefusalsInv
BY SameDelay, MaxIntAssumption, GoRetryScheduleAssumption DEF RefusalsInit, RefusalsInv, Headers

LEMMA RefusalsInvStep ==
  ASSUME RefusalsInv, [RetryLater]_refusalVars
  PROVE  RefusalsInv'
<1>1. CASE RetryLater
  <2>1. /\ refusals' = refusals + 1 /\ policy' = policy /\ lastHeader' \in Waits
        /\ \E draw \in 0 .. Parts - 1 :
              paused' = Slept(ComputeRetryDelay(refusals', policy,
                                               ReadRetryAfter(lastHeader'), draw))
    BY <1>1, SameDelay DEF RetryLater
  <2>2. Waits \subseteq Headers
    BY SameDelay, GoRetryScheduleAssumption
  <2> QED
    BY <2>1, <2>2 DEF RefusalsInv
<1>2. CASE UNCHANGED refusalVars
  BY <1>2 DEF refusalVars, RefusalsInv
<1> QED
  BY <1>1, <1>2

LEMMA WaitIsSlept == ASSUME RefusalsInv PROVE UsableWaitSlept
<1> SUFFICES ASSUME HeaderDecides,
                    Rounded(lastHeader.value) * Millisecond <= MaxInt
             PROVE  Within(paused, Larger(0, lastHeader.value))
  BY DEF UsableWaitSlept
<1>1. /\ refusals > 0 /\ policy.respect_retry_after /\ lastHeader \in Headers \ {Unusable}
      /\ lastHeader.form = "seconds" => lastHeader.value >= 0
  BY DEF HeaderDecides, RefusalsInv, Unusable
<1>2. PICK draw \in 0 .. Parts - 1 :
        paused = Slept(ComputeRetryDelay(refusals, policy, ReadRetryAfter(lastHeader), draw))
  BY <1>1 DEF RefusalsInv
<1> QED
  BY <1>1, <1>2, GoWaitTheorem DEF Within

LEMMA BackoffHolds == ASSUME RefusalsInv PROVE BackoffNeverCollapses
<1> SUFFICES ASSUME refusals > 0, ~HeaderDecides,
                    Rounded(policy.max_delay) * Millisecond <= MaxInt
             PROVE  /\ 2 * (paused - policy.max_delay) <= Millisecond
                    /\ ~policy.jitter =>
                          2 * (Smaller(policy.initial_delay, policy.max_delay) - paused)
                              <= Millisecond
  BY DEF BackoffNeverCollapses
<1> DEFINE e == Exponential(refusals, policy)
           m == policy.max_delay
           d == policy.initial_delay
           full == Smaller(e, m)
<1>1. PICK draw \in 0 .. Parts - 1 :
        paused = Slept(ComputeRetryDelay(refusals, policy, ReadRetryAfter(lastHeader), draw))
  BY DEF RefusalsInv
<1>2. ~(/\ policy.respect_retry_after /\ ReadRetryAfter(lastHeader).present
        /\ ReadRetryAfter(lastHeader).delay >= 0)
  BY DEF HeaderDecides, RefusalsInv, ReadRetryAfter, Headers, Unusable, None, Some
<1>3. /\ refusals \in Nat \ {0} /\ d \in Nat /\ m \in Nat /\ e \in Nat /\ e >= d
      /\ Millisecond \in Nat
  BY ExponentialIs, GoRetryDelayAssumption DEF RefusalsInv
<1>4. /\ 2 * (paused - full) <= Millisecond
      /\ ~policy.jitter => 2 * (full - paused) <= Millisecond
  BY <1>1, <1>2, <1>3, GoBackoffTheorem DEF RefusalsInv
<1>5. paused \in Int
  <2>1. ReadRetryAfter(lastHeader).present => ReadRetryAfter(lastHeader).delay \in Nat
    BY RetryAfterType DEF RefusalsInv
  <2>2. draw \in Nat /\ policy.backoff_factor \in Nat \ {0}
    BY GoRetryDelayAssumption DEF RefusalsInv
  <2>3. ComputeRetryDelay(refusals, policy, ReadRetryAfter(lastHeader), draw) \in Int
    BY <1>3, <2>1, <2>2, DelayType
  <2> QED
    BY <1>1, <2>3 DEF Slept, Larger
<1> HIDE DEF e, m, d
<1> QED
  BY <1>3, <1>4, <1>5 DEF Smaller, m, d

(* Whatever the policy, the headers and the draws, after every failure a usable
   Retry-After whose rounding is a Duration has been slept out to within half a
   millisecond, and a date that is past not at all (waitBeforeRetry). *)
THEOREM GoWaitsTheorem == RefusalsSpec => []UsableWaitSlept
<1>1. RefusalsInit => RefusalsInv
  BY RefusalsInvInit
<1>2. RefusalsInv /\ [RetryLater]_refusalVars => RefusalsInv'
  BY RefusalsInvStep
<1>3. RefusalsInv => UsableWaitSlept
  BY WaitIsSlept
<1> QED
  BY <1>1, <1>2, <1>3, PTL DEF RefusalsSpec

(* Without one, and when the cap rounds to a Duration, no number of failures
   makes the client sleep longer than the cap, or without jitter less than the
   first delay (computeRetryDelay in float64). *)
THEOREM GoNeverCollapsesTheorem == RefusalsSpec => []BackoffNeverCollapses
<1>1. RefusalsInit => RefusalsInv
  BY RefusalsInvInit
<1>2. RefusalsInv /\ [RetryLater]_refusalVars => RefusalsInv'
  BY RefusalsInvStep
<1>3. RefusalsInv => BackoffNeverCollapses
  BY BackoffHolds
<1> QED
  BY <1>1, <1>2, <1>3, PTL DEF RefusalsSpec

-----------------------------------------------------------------------------
(* Type correctness.                                                        *)

(* Where a call is, against the attempts it has begun; and a call has an
   outcome only when it is over. *)
AttemptsOK ==
    \A c \in Calls :
        /\ pc[c] = "idle" => attempts[c] = 0
        /\ pc[c] \notin {"idle", "done"} => attempts[c] > 0
        /\ pc[c] = "backing_off" => attempts[c] <= Retry[c].max_retries
        /\ attempts[c] <= Retry[c].max_retries + 1
        /\ pc[c] # "done" => outcome[c] = Pending

TypeInv == TypeOK /\ AttemptsOK

(* A step of c leaves the other calls where they are. *)
OnlyOf(c) ==
    \A d \in Calls : d # c =>
        /\ pc'[d] = pc[d] /\ timer'[d] = timer[d] /\ attempts'[d] = attempts[d]
        /\ outcome'[d] = outcome[d]

Shapes ==
    /\ pc' \in [Calls -> Labels] /\ timer' \in [Calls -> Nat]
    /\ attempts' \in [Calls -> Nat]
    /\ outcome' \in [Calls -> [kind : Kinds, attempts : Nat]]

(* c is told how its call ended. *)
Returns(c, kind, n) ==
    pc'[c] = "done" /\ outcome'[c] = Ended(kind, n) /\ timer'[c] = 0

(* c goes on, and has still to be told. *)
GoesTo(c, label, due) ==
    pc'[c] = label /\ timer'[c] = due /\ outcome'[c] = outcome[c]

LEMMA ReturnEffect ==
  ASSUME TypeInv, NEW c \in Calls, NEW kind \in Kinds, NEW n \in Nat,
         Return(c, kind, n),
         attempts' = attempts \/ attempts' = [attempts EXCEPT ![c] = @ + 1]
  PROVE  Shapes /\ OnlyOf(c) /\ Returns(c, kind, n)
BY DEF TypeInv, TypeOK, Return, Goto, Ended, Labels, Shapes, OnlyOf, Returns

LEMMA GotoEffect ==
  ASSUME TypeInv, NEW c \in Calls, NEW label \in Labels, NEW due \in Nat,
         Goto(c, label, due), outcome' = outcome,
         attempts' = attempts \/ attempts' = [attempts EXCEPT ![c] = @ + 1]
  PROVE  Shapes /\ OnlyOf(c) /\ GoesTo(c, label, due)
BY DEF TypeInv, TypeOK, Goto, Shapes, OnlyOf, GoesTo

(* waitBeforeRetry sleeps for a Duration, if at all. *)
LEMMA WaitEffect ==
  ASSUME TypeInv, NEW c \in Calls, pc[c] \in {"in_flight", "failed"},
         ~Exhausted(c), attempts' = attempts,
         NEW retryAfter, retryAfter.present => retryAfter.delay \in Nat,
         NEW asked, WaitBeforeRetry(c, retryAfter, asked)
  PROVE  /\ Shapes /\ OnlyOf(c) /\ attempts[c] \in 1 .. Retry[c].max_retries
         /\ \E draw \in Nat :
               LET delay == ComputeRetryDelay(attempts[c], Retry[c], retryAfter, draw)
               IN  delay \in Int /\ GoesTo(c, "backing_off", now + Slept(delay))
<1>1. PICK draw \in 0 .. Parts - 1 :
        Goto(c, "backing_off", now + Slept(ComputeRetryDelay(attempts[c],
                                  Retry[c], retryAfter, draw)))
  BY DEF WaitBeforeRetry
<1>2. attempts[c] \in 1 .. Retry[c].max_retries /\ draw \in Nat
  BY GoTransportAssumption, GoRetryDelayAssumption
     DEF TypeInv, TypeOK, AttemptsOK, Exhausted
<1> DEFINE delay == ComputeRetryDelay(attempts[c], Retry[c], retryAfter, draw)
<1>3. delay \in Int
  BY <1>2, DelayType, GoTransportAssumption
<1>4. now + Slept(delay) \in Nat
  <2> HIDE DEF delay
  <2> QED
    BY <1>3 DEF Slept, Larger, TypeInv, TypeOK
<1>5. Shapes /\ OnlyOf(c) /\ GoesTo(c, "backing_off", now + Slept(delay))
  BY <1>1, <1>4, GotoEffect DEF WaitBeforeRetry, Labels
<1> QED
  BY <1>2, <1>3, <1>5

(* The head of the loop. *)
LEMMA BeginEffect ==
  ASSUME TypeInv, NEW c \in Calls, pc[c] \in {"idle", "backing_off"}, BeginAttempt(c)
  PROVE  /\ Shapes /\ OnlyOf(c) /\ attempts'[c] = attempts[c] + 1
         /\ \/ /\ ended[c] /\ Returns(c, "Aborted", attempts[c])
               /\ UNCHANGED nextRequestAt
            \/ /\ ~ended[c] /\ Interval = 0 /\ UNCHANGED nextRequestAt
               /\ GoesTo(c, "ready", 0)
            \/ /\ ~ended[c] /\ nextRequestAt' = Larger(now, nextRequestAt) + Interval
               /\ \/ nextRequestAt > now /\ GoesTo(c, "throttled", nextRequestAt)
                  \/ nextRequestAt <= now /\ GoesTo(c, "ready", 0)
<1>1. /\ attempts' = [attempts EXCEPT ![c] = @ + 1] /\ attempts[c] \in Nat
      /\ nextRequestAt \in Nat /\ now \in Nat
      /\ "Aborted" \in Kinds /\ "ready" \in Labels /\ "throttled" \in Labels
  BY DEF BeginAttempt, TypeInv, TypeOK, Kinds, Labels
<1>2. CASE ended[c] /\ Return(c, "Aborted", attempts[c]) /\ UNCHANGED nextRequestAt
  BY <1>1, <1>2, ReturnEffect DEF TypeInv, TypeOK
<1>3. CASE ~ended[c] /\ Throttle(c) /\ UNCHANGED outcome
  <2>1. CASE Goto(c, "ready", 0)
    <3>1. Shapes /\ OnlyOf(c) /\ GoesTo(c, "ready", 0)
      BY <1>1, <1>3, <2>1, GotoEffect
    <3>2. /\ Interval = 0 => UNCHANGED nextRequestAt
          /\ Interval # 0 => nextRequestAt' = Larger(now, nextRequestAt) + Interval
      BY <1>3 DEF Throttle
    <3>3. nextRequestAt > now => Goto(c, "throttled", nextRequestAt) \/ Interval = 0
      BY <1>3 DEF Throttle
    <3>4. Goto(c, "throttled", nextRequestAt) => FALSE
      BY <2>1 DEF Goto, TypeInv, TypeOK
    <3> QED
      BY <1>1, <1>3, <3>1, <3>2, <3>3, <3>4 DEF TypeInv, TypeOK
  <2>2. CASE Goto(c, "throttled", nextRequestAt) /\ ~Goto(c, "ready", 0)
    <3>1. Shapes /\ OnlyOf(c) /\ GoesTo(c, "throttled", nextRequestAt)
      BY <1>1, <1>3, <2>2, GotoEffect
    <3>2. nextRequestAt' = Larger(now, nextRequestAt) + Interval /\ nextRequestAt > now
      BY <1>3, <2>2 DEF Throttle
    <3> QED
      BY <1>1, <1>3, <3>1, <3>2 DEF TypeInv, TypeOK
  <2> QED
    BY <1>3, <2>1, <2>2 DEF Throttle
<1> QED
  BY <1>2, <1>3 DEF BeginAttempt

LEMMA WakeEffect ==
  ASSUME TypeInv, NEW c \in Calls, WakeFromThrottle(c)
  PROVE  /\ Shapes /\ OnlyOf(c) /\ attempts' = attempts
         /\ pc[c] = "throttled" /\ timer[c] <= now /\ GoesTo(c, "ready", 0)
BY GotoEffect DEF WakeFromThrottle, Labels, TypeInv, TypeOK

LEMMA SendEffect ==
  ASSUME TypeInv, NEW c \in Calls, SendRequest(c)
  PROVE  /\ Shapes /\ OnlyOf(c) /\ attempts' = attempts /\ pc[c] = "ready"
         /\ \/ /\ ended[c] /\ Returns(c, "Aborted", attempts[c])
               /\ UNCHANGED <<sent, notBefore>>
            \/ /\ ~ended[c] /\ GoesTo(c, "in_flight", now + Timeout)
               /\ sent' = sent \cup {<<c, attempts[c]>>}
               /\ notBefore' = [notBefore EXCEPT ![c] = 0]
<1>1. /\ now + Timeout \in Nat /\ attempts[c] \in Nat /\ attempts' = attempts
      /\ "Aborted" \in Kinds /\ "in_flight" \in Labels
  BY GoTransportAssumption DEF SendRequest, TypeInv, TypeOK, Kinds, Labels
<1>2. CASE ended[c]
  BY <1>1, <1>2, ReturnEffect DEF SendRequest
<1>3. CASE ~ended[c]
  BY <1>1, <1>3, GotoEffect DEF SendRequest
<1> QED
  BY <1>2, <1>3

(* How an attempt in flight or just failed ends: for good, for a reason; or
   the call looks again at its failure; or it sleeps before another attempt. *)
GivenUp(c, kind) ==
    /\ kind = "Aborted" => ended[c]
    /\ kind \in {"Timeout", "Network"} => ended[c] \/ Exhausted(c)
    /\ kind = "returned" => <<c, attempts[c]>> \in served
    /\ kind # "pending"

Ends(c) ==
    /\ pc[c] \in {"in_flight", "failed"} /\ Shapes /\ OnlyOf(c)
    /\ UNCHANGED <<now, attempts, ended, nextRequestAt, wireVars>>
    /\ \/ /\ \E kind \in Kinds : GivenUp(c, kind) /\ Returns(c, kind, attempts[c])
          /\ UNCHANGED notBefore
       \/ GoesTo(c, "failed", timer[c]) /\ UNCHANGED notBefore
       \/ /\ attempts[c] \in 1 .. Retry[c].max_retries
          /\ \E due \in Nat : GoesTo(c, "backing_off", due)

LEMMA AttemptFailsEnds ==
  ASSUME TypeInv, NEW c \in Calls, AttemptFails(c) PROVE Ends(c)
<1>1. /\ attempts[c] \in Nat /\ timer[c] \in Nat /\ pc[c] = "in_flight"
      /\ UNCHANGED <<now, attempts, ended, nextRequestAt, wireVars, notBefore>>
      /\ "Aborted" \in Kinds /\ "failed" \in Labels
  BY DEF AttemptFails, TypeInv, TypeOK, Kinds, Labels
<1>2. CASE ended[c] /\ Return(c, "Aborted", attempts[c])
  <2>1. Shapes /\ OnlyOf(c) /\ Returns(c, "Aborted", attempts[c])
    BY <1>1, <1>2, ReturnEffect
  <2> QED
    BY <1>1, <1>2, <2>1 DEF Ends, GivenUp
<1>3. CASE Goto(c, "failed", timer[c]) /\ UNCHANGED outcome
  BY <1>1, <1>3, GotoEffect DEF Ends
<1> QED
  BY <1>2, <1>3 DEF AttemptFails

LEMMA ClassifyEnds ==
  ASSUME TypeInv, NEW c \in Calls, ClassifyFailure(c) PROVE Ends(c)
<1>1. /\ attempts[c] \in Nat /\ pc[c] = "failed"
      /\ UNCHANGED <<now, attempts, ended, nextRequestAt, wireVars>>
  BY DEF ClassifyFailure, TypeInv, TypeOK
<1>2. CASE /\ Exhausted(c) \/ ended[c]
           /\ \E kind \in {"Timeout", "Network"} : Return(c, kind, attempts[c])
           /\ UNCHANGED notBefore
  <2>1. PICK kind \in {"Timeout", "Network"} : Return(c, kind, attempts[c])
    BY <1>2
  <2>2. kind \in Kinds /\ GivenUp(c, kind)
    BY <1>2 DEF Kinds, GivenUp
  <2>3. Shapes /\ OnlyOf(c) /\ Returns(c, kind, attempts[c])
    BY <1>1, <2>1, <2>2, ReturnEffect
  <2> QED
    BY <1>1, <1>2, <2>2, <2>3 DEF Ends
<1>3. CASE ~Exhausted(c) /\ ~ended[c] /\ WaitBeforeRetry(c, None, now)
  <2>1. None.present => None.delay \in Nat
    BY DEF None
  <2>2. /\ Shapes /\ OnlyOf(c) /\ attempts[c] \in 1 .. Retry[c].max_retries
        /\ \E due : GoesTo(c, "backing_off", due)
    BY <1>1, <1>3, <2>1, WaitEffect
  <2>3. \E due \in Nat : GoesTo(c, "backing_off", due)
    BY <2>2 DEF Shapes, GoesTo
  <2> QED
    BY <1>1, <2>2, <2>3 DEF Ends
<1> QED
  BY <1>2, <1>3 DEF ClassifyFailure

LEMMA ReceiveEnds ==
  ASSUME TypeInv, NEW c \in Calls, NEW answer \in Answers, Receive(c, answer)
  PROVE  Ends(c)
<1>1. /\ attempts[c] \in Nat /\ pc[c] = "in_flight" /\ <<c, attempts[c]>> \in served
      /\ UNCHANGED <<now, attempts, ended, nextRequestAt, wireVars>>
      /\ answer.retry_after \in Headers /\ now \in Nat
  BY GoTransportAssumption DEF Receive, TypeInv, TypeOK
<1>2. ASSUME NEW kind \in {"returned", "Api"}, Return(c, kind, attempts[c]),
             UNCHANGED notBefore
      PROVE  Ends(c)
  <2>1. kind \in Kinds /\ GivenUp(c, kind)
    BY <1>1 DEF Kinds, GivenUp
  <2>2. Shapes /\ OnlyOf(c) /\ Returns(c, kind, attempts[c])
    BY <1>1, <1>2, <2>1, ReturnEffect
  <2> QED
    BY <1>1, <1>2, <2>1, <2>2 DEF Ends
<1>3. CASE /\ ~Exhausted(c)
           /\ WaitBeforeRetry(c, ReadRetryAfter(FromNow(answer.retry_after)),
                              Asked(c, answer.retry_after))
  <2>1. FromNow(answer.retry_after) \in Headers
    BY <1>1 DEF FromNow, Headers, Unusable, HttpDate
  <2>2. /\ Shapes /\ OnlyOf(c) /\ attempts[c] \in 1 .. Retry[c].max_retries
        /\ \E due : GoesTo(c, "backing_off", due)
    BY <1>1, <1>3, <2>1, RetryAfterType, WaitEffect
  <2>3. \E due \in Nat : GoesTo(c, "backing_off", due)
    BY <2>2 DEF Shapes, GoesTo
  <2> QED
    BY <1>1, <2>2, <2>3 DEF Ends
<1> QED
  BY <1>2, <1>3 DEF Receive

LEMMA InterruptedEffect ==
  ASSUME TypeInv, NEW c \in Calls, SleepInterrupted(c)
  PROVE  /\ Shapes /\ OnlyOf(c) /\ attempts' = attempts /\ ended[c]
         /\ \/ pc[c] = "throttled" /\ Returns(c, "Aborted", attempts[c] - 1)
            \/ pc[c] = "backing_off" /\ Returns(c, "Aborted", attempts[c])
<1>1. /\ "Aborted" \in Kinds /\ attempts[c] \in Nat
      /\ pc[c] = "throttled" => attempts[c] - 1 \in Nat
  BY DEF TypeInv, TypeOK, AttemptsOK, Kinds
<1> QED
  BY <1>1, ReturnEffect DEF SleepInterrupted

LEMMA TypeInit == Init => TypeInv
BY GoTransportAssumption DEF Init, TypeInv, TypeOK, AttemptsOK, Zero, Pending, Labels,
   Kinds

(* A step of one call that keeps to what a call may do. *)
LEMMA TypeMove ==
  ASSUME TypeInv, NEW c \in Calls, Shapes, OnlyOf(c), UNCHANGED ended,
         now' = now, nextRequestAt' \in Nat,
         sent' \subseteq Calls \X Nat, served' \subseteq sent',
         pc'[c] # "idle", pc'[c] # "done" => outcome'[c] = outcome[c] /\ attempts'[c] > 0,
         pc[c] # "done",
         pc'[c] = "backing_off" => attempts'[c] <= Retry[c].max_retries,
         attempts'[c] <= Retry[c].max_retries + 1
  PROVE  TypeInv'
<1>1. TypeOK'
  BY DEF TypeInv, TypeOK, Shapes
<1>2. AttemptsOK'
  BY DEF TypeInv, AttemptsOK, OnlyOf
<1> QED
  BY <1>1, <1>2 DEF TypeInv

LEMMA TypeStep == TypeInv /\ [Next]_vars => TypeInv'
<1> SUFFICES ASSUME TypeInv, [Next]_vars PROVE TypeInv'
  OBVIOUS
<1>0. \A c \in Calls : /\ attempts[c] \in Nat /\ Retry[c].max_retries \in Nat
                       /\ attempts[c] <= Retry[c].max_retries + 1
                       /\ pc[c] \notin {"idle", "done"} => attempts[c] > 0
  BY GoTransportAssumption DEF TypeInv, TypeOK, AttemptsOK
<1>1. CASE Serve
  BY <1>1 DEF Serve, TypeInv, TypeOK, AttemptsOK
<1>2. CASE Tick
  BY <1>2 DEF Tick, TypeInv, TypeOK, AttemptsOK, wireVars
<1>3. ASSUME NEW c \in Calls, pc[c] \in {"idle", "backing_off"}, BeginAttempt(c)
      PROVE  TypeInv'
  <2>1. /\ UNCHANGED <<now, ended, sent, served>> /\ nextRequestAt' \in Nat
        /\ sent \subseteq Calls \X Nat /\ served \subseteq sent
    <3>1. /\ UNCHANGED <<now, ended, sent, served>>
          /\ sent \subseteq Calls \X Nat /\ served \subseteq sent
      BY <1>3 DEF BeginAttempt, wireVars, TypeInv, TypeOK
    <3>2. \/ UNCHANGED nextRequestAt
          \/ nextRequestAt' = Larger(now, nextRequestAt) + Interval
      BY <1>3, BeginEffect
    <3>3. nextRequestAt' \in Nat
      BY <3>2, GoTransportAssumption DEF Larger, TypeInv, TypeOK
    <3> QED
      BY <3>1, <3>3
  <2>2. attempts'[c] = attempts[c] + 1 /\ attempts'[c] <= Retry[c].max_retries + 1
    BY <1>0, <1>3, BeginEffect DEF TypeInv, AttemptsOK
  <2>3. /\ pc'[c] \in {"done", "ready", "throttled"}
        /\ pc'[c] # "done" => outcome'[c] = outcome[c]
    BY <1>3, BeginEffect DEF Returns, GoesTo
  <2> QED
    BY <1>0, <1>3, <2>1, <2>2, <2>3, BeginEffect, TypeMove
<1>4. ASSUME NEW c \in Calls, WakeFromThrottle(c) PROVE TypeInv'
  BY <1>0, <1>4, WakeEffect, TypeMove DEF WakeFromThrottle, wireVars, GoesTo, TypeInv, TypeOK
<1>5. ASSUME NEW c \in Calls, SendRequest(c) PROVE TypeInv'
  <2>1. /\ UNCHANGED <<now, attempts, ended, nextRequestAt, served>>
        /\ sent' \subseteq Calls \X Nat /\ served' \subseteq sent'
    BY <1>0, <1>5, SendEffect DEF SendRequest, TypeInv, TypeOK
  <2>2. /\ pc'[c] \in {"done", "in_flight"}
        /\ pc'[c] # "done" => outcome'[c] = outcome[c]
    BY <1>5, SendEffect DEF Returns, GoesTo
  <2> QED
    BY <1>0, <1>5, <2>1, <2>2, SendEffect, TypeMove DEF TypeInv, TypeOK
<1>6. ASSUME NEW c \in Calls, Ends(c) PROVE TypeInv'
  <2>1. /\ UNCHANGED <<now, attempts, ended, nextRequestAt, sent, served>>
        /\ pc[c] \in {"in_flight", "failed"} /\ Shapes /\ OnlyOf(c)
    BY <1>6 DEF Ends, wireVars
  <2>2. /\ pc'[c] \in {"done", "failed", "backing_off"}
        /\ pc'[c] # "done" => outcome'[c] = outcome[c]
        /\ pc'[c] = "backing_off" => attempts[c] <= Retry[c].max_retries
    BY <1>0, <1>6 DEF Ends, Returns, GoesTo
  <2> QED
    BY <1>0, <2>1, <2>2, TypeMove DEF TypeInv, TypeOK
<1>7. ASSUME NEW c \in Calls, SleepInterrupted(c) PROVE TypeInv'
  BY <1>0, <1>7, InterruptedEffect, TypeMove
     DEF SleepInterrupted, wireVars, Returns, TypeInv, TypeOK
<1>8. ASSUME NEW c \in Calls, EndContext(c) PROVE TypeInv'
  BY <1>8 DEF EndContext, TypeInv, TypeOK, AttemptsOK, wireVars
<1>9. CASE UNCHANGED vars
  BY <1>9 DEF vars, TypeInv, TypeOK, AttemptsOK, wireVars
<1> QED
  BY <1>1, <1>2, <1>3, <1>4, <1>5, <1>6, <1>7, <1>8, <1>9, AttemptFailsEnds,
     ClassifyEnds, ReceiveEnds DEF Next, GoesOn, Start, WakeFromBackoff

-----------------------------------------------------------------------------
(* The inductive invariant.                                                 *)

(* The requests of c on the wire are its attempts 1 .. k. *)
Exactly(c, k) == \A n \in Nat : <<c, n>> \in sent <=> n \in 1 .. k

Waiting == {"throttled", "ready"}

(* The attempt c is in is not out yet while c is in the throttle. *)
Made(c) == IF pc[c] \in Waiting THEN attempts[c] - 1 ELSE attempts[c]

(* What c is told when it has made k requests. *)
Reported(c, k) ==
    IF outcome[c].kind = "Aborted" THEN outcome[c].attempts \in {k, k + 1}
    ELSE outcome[c].attempts = k

MadeInv ==
    \A c \in Calls :
        /\ pc[c] # "done" => Exactly(c, Made(c))
        /\ pc[c] = "done" => \E k \in Nat : Exactly(c, k) /\ Reported(c, k)

(* A context that has ended stays ended, and gives its call a reason. *)
ReasonInv == GivesUpForAReason

(* The calls whose turn in the schedule comes by t, their requests not out. *)
Granted(t) ==
    sent \cup {<<c, attempts[c]>> :
                  c \in {d \in Calls : \/ pc[d] = "ready"
                                       \/ pc[d] = "throttled" /\ timer[d] <= t}}

AllGranted == sent \cup {<<c, attempts[c]>> : c \in {d \in Calls : pc[d] \in Waiting}}

(* The schedule is kept by the turns it has given (throttle). *)
Turns == [t \in Nat |-> Granted(t)]

PaceInv == OnSchedule(AllGranted, Turns, Interval, nextRequestAt, now)

(* A call that sleeps, or has slept, sleeps as long as the server asked. *)
Owed(c, t) == t + Millisecond > notBefore[c]

WaitInv ==
    /\ notBefore \in [Calls -> Int]
    /\ \A c \in Calls :
          /\ pc[c] = "idle" => notBefore[c] = 0
          /\ pc[c] = "backing_off" => Owed(c, timer[c])
          /\ pc[c] \in Waiting => Owed(c, now)

(* A step that gives no turn, and one that gives x the first that is free. *)
LEMMA PaceKept ==
  ASSUME TypeInv, PaceInv, AllGranted' \subseteq AllGranted,
         nextRequestAt' = nextRequestAt, now' \in Nat, now' >= now,
         \A t \in Nat : t >= now' => Granted(t)' \subseteq Granted(t)
  PROVE  PaceInv'
<1>1. now \in Nat /\ nextRequestAt \in Nat /\ Interval \in Nat
  BY GoTransportAssumption DEF TypeInv, TypeOK
<1>2. \A t \in Nat : Turns'[t] \subseteq AllGranted'
  BY DEF Turns, Granted, AllGranted, Waiting
<1>3. \A t \in Nat : t >= now' => Turns'[t] \subseteq Turns[t]
  BY DEF Turns
<1> QED
  BY <1>1, <1>2, <1>3, ScheduleKept DEF PaceInv

LEMMA PaceClaim ==
  ASSUME TypeInv, PaceInv, now' = now, NEW x,
         AllGranted' \subseteq AllGranted \cup {x},
         \/ Interval = 0 /\ nextRequestAt' = nextRequestAt
         \/ nextRequestAt' = Larger(now, nextRequestAt) + Interval,
         \A t \in Nat : t >= now =>
            /\ Granted(t)' \subseteq Granted(t) \cup {x}
            /\ Interval # 0 /\ t < Larger(now, nextRequestAt) =>
                  Granted(t)' \subseteq Granted(t)
  PROVE  PaceInv'
<1> DEFINE turn == Larger(now, nextRequestAt)
<1>1. /\ now \in Nat /\ nextRequestAt \in Nat /\ Interval \in Nat
      /\ turn \in Nat /\ turn >= now /\ turn >= nextRequestAt
  BY GoTransportAssumption DEF TypeInv, TypeOK, Larger
<1>2. \A t \in Nat : Turns'[t] \subseteq AllGranted'
  BY DEF Turns, Granted, AllGranted, Waiting
<1>3. \A t \in Nat : t >= now =>
        /\ Turns'[t] \subseteq Turns[t] \cup {x}
        /\ Interval # 0 /\ t < turn => Turns'[t] \subseteq Turns[t]
  BY DEF Turns
<1>4. \/ Interval = 0 /\ nextRequestAt' = nextRequestAt
      \/ nextRequestAt' = turn + Interval
  OBVIOUS
<1> HIDE DEF turn
<1>5. nextRequestAt' \in Nat
  BY <1>1, <1>4
<1>6. Claimed(x, turn, AllGranted, AllGranted', Turns, Turns', Interval,
              nextRequestAt, nextRequestAt', now)
  BY <1>1, <1>2, <1>3, <1>4 DEF Claimed
<1> QED
  BY <1>1, <1>5, <1>6, ScheduleClaimed DEF PaceInv

LEMMA PaceStep == TypeInv /\ PaceInv /\ [Next]_vars => PaceInv'
<1> SUFFICES ASSUME TypeInv, PaceInv, [Next]_vars PROVE PaceInv'
  OBVIOUS
<1>0. now \in Nat /\ nextRequestAt \in Nat
  BY DEF TypeInv, TypeOK
<1>1. ASSUME UNCHANGED <<pc, attempts, timer, sent, nextRequestAt>>, now' \in Nat,
             now' >= now
      PROVE  PaceInv'
  BY <1>1, PaceKept DEF Granted, AllGranted
<1>2. Serve \/ UNCHANGED vars => PaceInv'
  BY <1>0, <1>1 DEF Serve, vars, wireVars
<1>3. Tick => PaceInv'
  BY <1>0, <1>1 DEF Tick, wireVars
<1>4. ASSUME NEW c \in Calls, EndContext(c) PROVE PaceInv'
  BY <1>0, <1>1, <1>4 DEF EndContext, wireVars
<1>5. ASSUME NEW c \in Calls, OnlyOf(c), attempts' = attempts, sent' = sent,
             UNCHANGED <<now, nextRequestAt>>, pc'[c] \notin Waiting
      PROVE  PaceInv'
  <2>1. AllGranted' \subseteq AllGranted
    BY <1>5 DEF AllGranted, OnlyOf
  <2>2. \A t \in Nat : Granted(t)' \subseteq Granted(t)
    BY <1>5 DEF Granted, OnlyOf, Waiting
  <2> QED
    BY <1>0, <1>5, <2>1, <2>2, PaceKept
<1>6. ASSUME NEW c \in Calls, Ends(c) PROVE PaceInv'
  <2>1. pc'[c] \notin Waiting
    BY <1>6 DEF Ends, Returns, GoesTo, Waiting
  <2> QED
    BY <1>5, <1>6, <2>1 DEF Ends, wireVars
<1>7. ASSUME NEW c \in Calls, SleepInterrupted(c) PROVE PaceInv'
  <2>1. pc'[c] \notin Waiting /\ OnlyOf(c)
    BY <1>7, InterruptedEffect DEF Returns, Waiting
  <2> QED
    BY <1>5, <1>7, <2>1 DEF SleepInterrupted, wireVars
<1>8. ASSUME NEW c \in Calls, WakeFromThrottle(c) PROVE PaceInv'
  <2>1. /\ OnlyOf(c) /\ pc[c] = "throttled" /\ timer[c] <= now /\ pc'[c] = "ready"
        /\ UNCHANGED <<now, attempts, sent, nextRequestAt>>
    BY <1>8, WakeEffect DEF GoesTo, WakeFromThrottle, wireVars
  <2>2. AllGranted' \subseteq AllGranted
    BY <2>1 DEF AllGranted, OnlyOf, Waiting
  <2>3. ASSUME NEW t \in Nat, t >= now' PROVE Granted(t)' \subseteq Granted(t)
    <3>1. timer[c] <= t
      BY <1>0, <2>1, <2>3 DEF TypeInv, TypeOK
    <3> QED
      BY <2>1, <3>1 DEF Granted, OnlyOf
  <2> QED
    BY <1>0, <2>1, <2>2, <2>3, PaceKept
<1>9. ASSUME NEW c \in Calls, SendRequest(c) PROVE PaceInv'
  <2>1. /\ OnlyOf(c) /\ pc[c] = "ready" /\ pc'[c] \notin Waiting
        /\ UNCHANGED <<now, attempts, nextRequestAt>>
        /\ sent' = sent \/ sent' = sent \cup {<<c, attempts[c]>>}
    BY <1>9, SendEffect DEF GoesTo, Returns, Waiting, SendRequest
  <2>2. AllGranted' \subseteq AllGranted
    BY <2>1 DEF AllGranted, OnlyOf, Waiting
  <2>3. \A t \in Nat : Granted(t)' \subseteq Granted(t)
    BY <2>1 DEF Granted, OnlyOf, Waiting
  <2> QED
    BY <1>0, <2>1, <2>2, <2>3, PaceKept
<1>10. ASSUME NEW c \in Calls, pc[c] \in {"idle", "backing_off"}, BeginAttempt(c)
       PROVE  PaceInv'
  <2>1. /\ OnlyOf(c) /\ attempts'[c] = attempts[c] + 1 /\ UNCHANGED <<now, sent>>
    BY <1>10, BeginEffect DEF BeginAttempt, wireVars
  <2>2. CASE pc'[c] = "done" /\ UNCHANGED nextRequestAt
    <3>1. AllGranted' \subseteq AllGranted
      BY <2>1, <2>2 DEF AllGranted, OnlyOf, Waiting
    <3>2. \A t \in Nat : Granted(t)' \subseteq Granted(t)
      BY <2>1, <2>2 DEF Granted, OnlyOf
    <3> QED
      BY <1>0, <2>1, <2>2, <3>1, <3>2, PaceKept
  <2> DEFINE x == <<c, attempts[c] + 1>>
  <2>3. AllGranted' \subseteq AllGranted \cup {x}
    BY <2>1 DEF AllGranted, OnlyOf
  <2>4. \A t \in Nat : Granted(t)' \subseteq Granted(t) \cup {x}
    BY <2>1 DEF Granted, OnlyOf
  <2>5. CASE Interval = 0 /\ UNCHANGED nextRequestAt
    BY <2>1, <2>3, <2>4, <2>5, PaceClaim
  <2>6. CASE /\ nextRequestAt' = Larger(now, nextRequestAt) + Interval
             /\ \/ nextRequestAt > now /\ GoesTo(c, "throttled", nextRequestAt)
                \/ nextRequestAt <= now /\ GoesTo(c, "ready", 0)
    <3>1. ASSUME NEW t \in Nat, t >= now, t < Larger(now, nextRequestAt)
          PROVE  Granted(t)' \subseteq Granted(t)
      <4>1. pc'[c] = "throttled" /\ timer'[c] = nextRequestAt /\ t < nextRequestAt
        BY <1>0, <2>6, <3>1 DEF Larger, GoesTo
      <4>2. ~(timer'[c] <= t)
        BY <1>0, <4>1
      <4> QED
        BY <2>1, <4>1, <4>2 DEF Granted, OnlyOf
    <3> QED
      BY <2>1, <2>3, <2>4, <2>6, <3>1, PaceClaim
  <2> QED
    BY <1>10, <2>2, <2>5, <2>6, BeginEffect DEF Returns
<1> QED
  BY <1>2, <1>3, <1>4, <1>6, <1>7, <1>8, <1>9, <1>10, AttemptFailsEnds,
     ClassifyEnds, ReceiveEnds DEF Next, GoesOn, Start, WakeFromBackoff

-----------------------------------------------------------------------------
(* What a call is told.                                                     *)

LEMMA MadeKept ==
  ASSUME MadeInv, NEW c \in Calls, OnlyOf(c),
         \A n \in Nat, d \in Calls : d # c => (<<d, n>> \in sent' <=> <<d, n>> \in sent),
         pc'[c] # "done" => Exactly(c, Made(c))',
         pc'[c] = "done" => \E k \in Nat : Exactly(c, k)' /\ Reported(c, k)'
  PROVE  MadeInv'
<1>1. ASSUME NEW d \in Calls, d # c
      PROVE  /\ pc'[d] = pc[d] /\ Made(d)' = Made(d)
             /\ \A k : Exactly(d, k)' <=> Exactly(d, k)
             /\ \A k : Reported(d, k)' <=> Reported(d, k)
  BY <1>1 DEF OnlyOf, Made, Exactly, Reported
<1> QED
  BY <1>1 DEF MadeInv

(* Every step keeps count of what a call has put on the wire. *)
LEMMA MadeStep == TypeInv /\ MadeInv /\ [Next]_vars => MadeInv'
<1> SUFFICES ASSUME TypeInv, MadeInv, [Next]_vars PROVE MadeInv'
  OBVIOUS
<1>0. \A c \in Calls : attempts[c] \in Nat /\ (pc[c] \in Waiting => attempts[c] > 0)
  BY DEF TypeInv, TypeOK, AttemptsOK, Waiting
<1>1. ASSUME UNCHANGED <<pc, attempts, outcome, sent>> PROVE MadeInv'
  BY <1>1 DEF MadeInv, Made, Exactly, Reported
<1>2. Serve \/ Tick \/ UNCHANGED vars => MadeInv'
  BY <1>1 DEF Serve, Tick, vars, wireVars
<1>3. ASSUME NEW c \in Calls, EndContext(c) PROVE MadeInv'
  BY <1>1, <1>3 DEF EndContext, wireVars
<1>4. ASSUME NEW c \in Calls, NEW n \in Nat, NEW kind, OnlyOf(c), sent' = sent,
             pc[c] # "done", Returns(c, kind, n),
             n = Made(c) \/ (kind = "Aborted" /\ n = Made(c) + 1)
      PROVE  MadeInv'
  <2>1. Exactly(c, Made(c))
    BY <1>4 DEF MadeInv
  <2>2. Made(c) \in Nat
    BY <1>0 DEF Made
  <2>3. \E k \in Nat : Exactly(c, k)' /\ Reported(c, k)'
    <3>1. Exactly(c, Made(c)) /\ outcome'[c].kind = kind /\ outcome'[c].attempts = n
      BY <1>4, <2>1 DEF Returns, Ended
    <3>2. \A k \in Nat : k = Made(c) => Exactly(c, k)' /\ Reported(c, k)'
      BY <1>4, <3>1 DEF Exactly, Reported
    <3> QED
      BY <2>2, <3>2
  <2> QED
    BY <1>4, <2>3, MadeKept DEF Returns
<1>5. ASSUME NEW c \in Calls, OnlyOf(c), sent' = sent, pc[c] # "done",
             pc'[c] # "done", Made(c)' = Made(c)
      PROVE  MadeInv'
  <2>1. Exactly(c, Made(c))'
    BY <1>5 DEF MadeInv, Exactly
  <2> QED
    BY <1>5, <2>1, MadeKept
<1>6. ASSUME NEW c \in Calls, pc[c] \in {"idle", "backing_off"}, BeginAttempt(c)
      PROVE  MadeInv'
  <2>1. OnlyOf(c) /\ attempts'[c] = attempts[c] + 1 /\ sent' = sent
    BY <1>6, BeginEffect DEF BeginAttempt, wireVars
  <2>2. CASE Returns(c, "Aborted", attempts[c])
    BY <1>0, <1>4, <1>6, <2>1, <2>2 DEF Made, Waiting
  <2>3. CASE pc'[c] \in Waiting
    BY <1>0, <1>5, <1>6, <2>1, <2>3 DEF Made, Waiting
  <2> QED
    BY <1>6, <2>2, <2>3, BeginEffect DEF GoesTo, Waiting
<1>7. ASSUME NEW c \in Calls, WakeFromThrottle(c) PROVE MadeInv'
  BY <1>5, <1>7, WakeEffect DEF WakeFromThrottle, wireVars, GoesTo, Made, Waiting
<1>8. ASSUME NEW c \in Calls, SendRequest(c) PROVE MadeInv'
  <2>1. OnlyOf(c) /\ attempts' = attempts /\ pc[c] = "ready" /\ Made(c) = attempts[c] - 1
    BY <1>8, SendEffect DEF Made, Waiting
  <2>2. CASE Returns(c, "Aborted", attempts[c]) /\ UNCHANGED sent
    BY <1>0, <1>4, <2>1, <2>2 DEF Waiting
  <2>3. CASE /\ pc'[c] = "in_flight"
             /\ sent' = sent \cup {<<c, attempts[c]>>}
    <3>1. Made(c)' = attempts[c] /\ attempts[c] \in Nat \ {0}
      BY <1>0, <2>1, <2>3 DEF Made, Waiting
    <3>2. \A n \in Nat : n \in 1 .. attempts[c] <=> n \in 1 .. attempts[c] - 1 \/ n = attempts[c]
      BY <3>1
    <3>3. Exactly(c, Made(c))'
      BY <2>1, <2>3, <3>1, <3>2 DEF MadeInv, Exactly
    <3> QED
      BY <2>1, <2>3, <3>3, MadeKept
  <2> QED
    BY <1>8, <2>2, <2>3, SendEffect DEF GoesTo
<1>9. ASSUME NEW c \in Calls, Ends(c) PROVE MadeInv'
  <2>1. /\ OnlyOf(c) /\ UNCHANGED <<attempts, sent>>
        /\ pc[c] \in {"in_flight", "failed"} /\ Made(c) = attempts[c]
    BY <1>9 DEF Ends, wireVars, Made, Waiting
  <2>2. CASE \E kind \in Kinds : Returns(c, kind, attempts[c])
    BY <1>0, <1>4, <2>1, <2>2
  <2>3. CASE pc'[c] \in {"failed", "backing_off"}
    BY <1>5, <2>1, <2>3 DEF Made, Waiting
  <2> QED
    BY <1>9, <2>2, <2>3 DEF Ends, GoesTo
<1>10. ASSUME NEW c \in Calls, SleepInterrupted(c) PROVE MadeInv'
  <2>1. OnlyOf(c) /\ sent' = sent
    BY <1>10, InterruptedEffect DEF SleepInterrupted, wireVars
  <2>2. \/ pc[c] = "throttled" /\ Returns(c, "Aborted", Made(c))
        \/ pc[c] = "backing_off" /\ Returns(c, "Aborted", Made(c))
    BY <1>10, InterruptedEffect DEF Made, Waiting
  <2>3. Made(c) \in Nat
    BY <1>0 DEF Made
  <2> QED
    BY <1>4, <2>1, <2>2, <2>3
<1> QED
  BY <1>2, <1>3, <1>6, <1>7, <1>8, <1>9, <1>10, AttemptFailsEnds,
     ClassifyEnds, ReceiveEnds DEF Next, GoesOn, Start, WakeFromBackoff

(* Every step that ends a call has the reason its error gives. *)
LEMMA ReasonStep == TypeInv /\ ReasonInv /\ [Next]_vars => ReasonInv'
<1> SUFFICES ASSUME TypeInv, ReasonInv, [Next]_vars PROVE ReasonInv'
  OBVIOUS
<1>1. ASSUME UNCHANGED outcome, \A d \in Calls : ended[d] => ended'[d] PROVE ReasonInv'
  BY <1>1 DEF ReasonInv, GivesUpForAReason
<1>2. Serve \/ Tick \/ UNCHANGED vars => ReasonInv'
  BY <1>1 DEF Serve, Tick, vars
<1>3. ASSUME NEW c \in Calls, EndContext(c) PROVE ReasonInv'
  BY <1>1, <1>3 DEF EndContext, TypeInv, TypeOK
<1>4. ASSUME NEW c \in Calls, OnlyOf(c), ended' = ended, NEW kind, NEW n,
             Returns(c, kind, n),
             kind = "Aborted" => ended[c],
             kind \in {"Timeout", "Network"} =>
                ended[c] \/ n = Retry[c].max_retries + 1
      PROVE  ReasonInv'
  <2>1. outcome'[c].kind = kind /\ outcome'[c].attempts = n
    BY <1>4 DEF Returns, Ended
  <2> QED
    BY <1>4, <2>1 DEF OnlyOf, ReasonInv, GivesUpForAReason
<1>5. ASSUME NEW c \in Calls, OnlyOf(c), ended' = ended, outcome'[c] = outcome[c]
      PROVE  ReasonInv'
  BY <1>5 DEF OnlyOf, ReasonInv, GivesUpForAReason
<1>6. ASSUME NEW c \in Calls, Ends(c) PROVE ReasonInv'
  <2>1. OnlyOf(c) /\ ended' = ended
    BY <1>6 DEF Ends
  <2>2. Exhausted(c) => attempts[c] = Retry[c].max_retries + 1
    BY GoTransportAssumption DEF Exhausted, TypeInv, TypeOK, AttemptsOK
  <2>3. ASSUME NEW kind \in Kinds, GivenUp(c, kind), Returns(c, kind, attempts[c])
        PROVE  ReasonInv'
    BY <1>4, <2>1, <2>2, <2>3 DEF GivenUp
  <2> QED
    BY <1>5, <1>6, <2>1, <2>3 DEF Ends, GoesTo
<1>7. ASSUME NEW c \in Calls, pc[c] \in {"idle", "backing_off"}, BeginAttempt(c)
      PROVE  ReasonInv'
  <2>1. OnlyOf(c) /\ ended' = ended
    BY <1>7, BeginEffect DEF BeginAttempt
  <2>2. \/ ended[c] /\ Returns(c, "Aborted", attempts[c])
        \/ outcome'[c] = outcome[c]
    BY <1>7, BeginEffect DEF GoesTo
  <2> QED
    BY <1>4, <1>5, <2>1, <2>2
<1>8. ASSUME NEW c \in Calls, WakeFromThrottle(c) PROVE ReasonInv'
  BY <1>1, <1>8 DEF WakeFromThrottle
<1>9. ASSUME NEW c \in Calls, SendRequest(c) PROVE ReasonInv'
  <2>1. OnlyOf(c) /\ ended' = ended
    BY <1>9, SendEffect DEF SendRequest
  <2>2. \/ ended[c] /\ Returns(c, "Aborted", attempts[c])
        \/ outcome'[c] = outcome[c]
    BY <1>9, SendEffect DEF GoesTo
  <2> QED
    BY <1>4, <1>5, <2>1, <2>2
<1>10. ASSUME NEW c \in Calls, SleepInterrupted(c) PROVE ReasonInv'
  <2>1. OnlyOf(c) /\ ended' = ended /\ ended[c]
    BY <1>10, InterruptedEffect DEF SleepInterrupted
  <2>2. \E n : Returns(c, "Aborted", n)
    BY <1>10, InterruptedEffect
  <2> QED
    BY <1>4, <2>1, <2>2
<1> QED
  BY <1>2, <1>3, <1>6, <1>7, <1>8, <1>9, <1>10, AttemptFailsEnds,
     ClassifyEnds, ReceiveEnds DEF Next, GoesOn, Start, WakeFromBackoff

-----------------------------------------------------------------------------
(* The wait the server asked for.                                           *)

(* Waits that stay a millisecond away from the end of a Duration: 292 years,
   in the program.  Beyond it, roundToMillisecond wraps around. *)
Representable ==
    \A answer \in Answers :
        answer.retry_after.form \in {"seconds", "date"} =>
            answer.retry_after.value + Millisecond <= MaxInt

(* A usable header is waited for, but for the rounding (computeRetryDelay). *)
LEMMA DelayHonors ==
  ASSUME NEW c \in Calls, NEW header \in Headers, now \in Nat, NEW draw \in Nat,
         attempts[c] \in 1 .. Retry[c].max_retries,
         header.form \in {"seconds", "date"} => header.value + Millisecond <= MaxInt
  PROVE  LET delay == ComputeRetryDelay(attempts[c], Retry[c],
                                        ReadRetryAfter(FromNow(header)), draw)
         IN  now + Slept(delay) + Millisecond > Asked(c, header)
<1> DEFINE wait == ReadRetryAfter(FromNow(header))
           delay == ComputeRetryDelay(attempts[c], Retry[c], wait, draw)
<1> SUFFICES now + Slept(delay) + Millisecond > Asked(c, header)
  OBVIOUS
<1>1. FromNow(header) \in Headers /\ Millisecond \in Nat \ {0} /\ MaxInt \in Nat
  BY GoRetryDelayAssumption, MaxIntAssumption DEF FromNow, Headers, Unusable, HttpDate
<1>2. delay \in Int /\ Slept(delay) \in Nat /\ Slept(delay) >= delay
  <2>1. delay \in Int
    BY <1>1, RetryAfterType, DelayType, GoTransportAssumption
  <2> HIDE DEF delay
  <2> QED
    BY <2>1 DEF Slept, Larger
<1>3. Retry[c].respect_retry_after \in BOOLEAN
  BY GoTransportAssumption
<1>4. CASE Asked(c, header) = now
  <2> HIDE DEF delay
  <2> QED
    BY <1>1, <1>2, <1>4
<1>5. CASE /\ Retry[c].respect_retry_after
           /\ header.form = "seconds" /\ header.value >= 0
  <2>1. /\ header.value \in Nat /\ header.value + Millisecond <= MaxInt
        /\ Asked(c, header) = now + header.value
    BY <1>5 DEF Headers, Unusable, Asked
  <2>2. wait = Some(header.value)
    <3>1. FromNow(header) = header
      BY <1>5 DEF FromNow
    <3>2. Smaller(header.value, MaxInt) = header.value
      BY <1>1, <2>1 DEF Smaller
    <3> QED
      BY <1>5, <3>1, <3>2 DEF ReadRetryAfter
  <2>3. delay = RoundToMillisecond(header.value)
    BY <1>5, <2>1, <2>2 DEF ComputeRetryDelay, Some
  <2>4. delay + Millisecond > header.value
    BY <2>1, <2>3, RoundHonors
  <2> HIDE DEF delay, wait
  <2> QED
    BY <1>1, <1>2, <2>1, <2>4
<1>6. CASE Retry[c].respect_retry_after /\ header.form = "date"
  <2> DEFINE n == Larger(0, header.value - now)
  <2>1. /\ header.value \in Int /\ header.value + Millisecond <= MaxInt
        /\ Asked(c, header) = header.value
    BY <1>6 DEF Headers, Unusable, Asked
  <2>2. (n \in Nat /\ n + Millisecond <= MaxInt) \/ n = 0
    BY <1>1, <2>1 DEF Larger
  <2>3. wait = Some(n) /\ n \in Nat
    <3>1. FromNow(header).form = "date" /\ FromNow(header).value = header.value - now
      BY <1>6 DEF FromNow, HttpDate
    <3>2. Smaller(header.value - now, MaxInt) = header.value - now
      BY <1>1, <2>1 DEF Smaller
    <3> QED
      BY <2>1, <3>1, <3>2 DEF ReadRetryAfter, Larger
  <2>4. delay = RoundToMillisecond(n)
    BY <1>6, <2>3 DEF ComputeRetryDelay, Some
  <2>5. CASE n + Millisecond <= MaxInt
    <3>1. delay + Millisecond > n /\ now + n >= header.value
      <4>1. delay + Millisecond > n
        BY <2>3, <2>4, <2>5, RoundHonors
      <4> HIDE DEF delay
      <4> QED
        BY <2>1, <4>1 DEF Larger
    <3> HIDE DEF delay, wait, n
    <3> QED
      BY <1>1, <1>2, <2>1, <2>3, <3>1
  <2>6. CASE n = 0
    <3>1. header.value <= now
      BY <2>1, <2>6 DEF Larger
    <3> HIDE DEF delay, wait, n
    <3> QED
      BY <1>1, <1>2, <2>1, <3>1
  <2> QED
    BY <2>2, <2>5, <2>6
<1> QED
  BY <1>3, <1>4, <1>5, <1>6 DEF Asked

(* Backing off after an answer, or after a failure, is for long enough. *)
LEMMA ReceiveWaits ==
  ASSUME Representable, TypeInv, WaitInv, NEW c \in Calls, NEW answer \in Answers,
         Receive(c, answer)
  PROVE  \/ UNCHANGED notBefore /\ pc'[c] # "backing_off"
         \/ \E v \in Int : /\ notBefore' = [notBefore EXCEPT ![c] = v]
                           /\ timer'[c] + Millisecond > v
<1>1. /\ answer.retry_after \in Headers /\ now \in Nat /\ pc[c] = "in_flight"
      /\ attempts' = attempts
  BY GoTransportAssumption DEF Receive, TypeInv, TypeOK
<1>2. ASSUME NEW kind, Return(c, kind, attempts[c]), UNCHANGED notBefore
      PROVE  UNCHANGED notBefore /\ pc'[c] # "backing_off"
  BY <1>2 DEF Return, Goto, TypeInv, TypeOK
<1>3. ASSUME ~Exhausted(c),
             WaitBeforeRetry(c, ReadRetryAfter(FromNow(answer.retry_after)),
                             Asked(c, answer.retry_after))
      PROVE  \E v \in Int : /\ notBefore' = [notBefore EXCEPT ![c] = v]
                            /\ timer'[c] + Millisecond > v
  <2> DEFINE delay(draw) ==
               ComputeRetryDelay(attempts[c], Retry[c],
                                 ReadRetryAfter(FromNow(answer.retry_after)), draw)
  <2>1. FromNow(answer.retry_after) \in Headers
    BY <1>1 DEF FromNow, Headers, Unusable, HttpDate
  <2>2. PICK draw \in Nat : /\ attempts[c] \in 1 .. Retry[c].max_retries
                            /\ timer'[c] = now + Slept(delay(draw))
    BY <1>1, <1>3, <2>1, RetryAfterType, WaitEffect DEF GoesTo
  <2>3. now + Slept(delay(draw)) + Millisecond > Asked(c, answer.retry_after)
    BY <1>1, <2>2, DelayHonors DEF Representable
  <2>4. Asked(c, answer.retry_after) \in Int
    BY <1>1 DEF Asked, Headers, Unusable
  <2> HIDE DEF delay
  <2> QED
    BY <1>3, <2>2, <2>3, <2>4 DEF WaitBeforeRetry
<1> QED
  BY <1>2, <1>3 DEF Receive

LEMMA ClassifyWaits ==
  ASSUME TypeInv, WaitInv, NEW c \in Calls, ClassifyFailure(c)
  PROVE  \/ UNCHANGED notBefore /\ pc'[c] # "backing_off"
         \/ \E v \in Int : /\ notBefore' = [notBefore EXCEPT ![c] = v]
                           /\ timer'[c] + Millisecond > v
<1>1. /\ now \in Nat /\ pc[c] = "failed" /\ attempts' = attempts
      /\ None.present => None.delay \in Nat
  BY DEF ClassifyFailure, TypeInv, TypeOK, None
<1>2. ASSUME NEW kind, Return(c, kind, attempts[c]), UNCHANGED notBefore
      PROVE  UNCHANGED notBefore /\ pc'[c] # "backing_off"
  BY <1>2 DEF Return, Goto, TypeInv, TypeOK
<1>3. ASSUME ~Exhausted(c), WaitBeforeRetry(c, None, now)
      PROVE  \E v \in Int : /\ notBefore' = [notBefore EXCEPT ![c] = v]
                            /\ timer'[c] + Millisecond > v
  <2>1. PICK delay \in Int : timer'[c] = now + Slept(delay)
    BY <1>1, <1>3, WaitEffect DEF GoesTo
  <2>2. now + Slept(delay) + Millisecond > now
    BY <1>1, GoRetryDelayAssumption DEF Slept, Larger
  <2>3. timer'[c] + Millisecond > now /\ now \in Int
    BY <1>1, <2>1, <2>2
  <2>4. notBefore' = [notBefore EXCEPT ![c] = now]
    BY <1>3 DEF WaitBeforeRetry
  <2> QED
    BY <2>3, <2>4
<1> QED
  BY <1>2, <1>3 DEF ClassifyFailure

LEMMA WaitInit == Init => WaitInv
BY GoRetryDelayAssumption DEF Init, WaitInv, Zero, Waiting

(* A call that sleeps sleeps for as long as it owes, and a request goes out
   when what is owed is paid. *)
LEMMA WaitStep == Representable /\ TypeInv /\ WaitInv /\ [Next]_vars => WaitInv'
<1> SUFFICES ASSUME Representable, TypeInv, WaitInv, [Next]_vars PROVE WaitInv'
  OBVIOUS
<1>0. /\ now \in Nat /\ Millisecond \in Nat \ {0} /\ timer \in [Calls -> Nat]
      /\ notBefore \in [Calls -> Int]
  BY GoRetryDelayAssumption DEF TypeInv, TypeOK, WaitInv
<1>1. ASSUME UNCHANGED <<pc, timer, notBefore>>, now' \in Nat, now' >= now
      PROVE  WaitInv'
  <2>1. \A c \in Calls : Owed(c, now) => Owed(c, now)'
    BY <1>0, <1>1 DEF Owed
  <2>2. \A c \in Calls : Owed(c, timer[c]) => Owed(c, timer[c])'
    BY <1>1 DEF Owed
  <2> QED
    BY <1>1, <2>1, <2>2 DEF WaitInv
<1>2. Serve \/ Tick \/ UNCHANGED vars => WaitInv'
  BY <1>0, <1>1 DEF Serve, Tick, vars
<1>3. ASSUME NEW c \in Calls, EndContext(c) PROVE WaitInv'
  BY <1>0, <1>1, <1>3 DEF EndContext
<1>4. ASSUME NEW c \in Calls, OnlyOf(c), now' = now, notBefore' \in [Calls -> Int],
             \A d \in Calls : d # c => notBefore'[d] = notBefore[d],
             pc'[c] # "idle",
             pc'[c] = "backing_off" => Owed(c, timer[c])',
             pc'[c] \in Waiting => Owed(c, now)'
      PROVE  WaitInv'
  <2>1. ASSUME NEW d \in Calls, d # c
        PROVE  /\ pc'[d] = pc[d] /\ notBefore'[d] = notBefore[d]
               /\ Owed(d, timer[d]) => Owed(d, timer[d])'
               /\ Owed(d, now) => Owed(d, now)'
    BY <1>4, <2>1 DEF OnlyOf, Owed
  <2> QED
    BY <1>4, <2>1 DEF WaitInv
<1>5. ASSUME NEW c \in Calls, OnlyOf(c), UNCHANGED <<now, notBefore>>,
             pc'[c] \notin {"idle", "backing_off"},
             pc'[c] \in Waiting => Owed(c, now)
      PROVE  WaitInv'
  <2>1. Owed(c, now)' <=> Owed(c, now)
    BY <1>5 DEF Owed
  <2> QED
    BY <1>0, <1>4, <1>5, <2>1
<1>6. ASSUME NEW c \in Calls, BeginAttempt(c),
             pc[c] = "idle" \/ (pc[c] = "backing_off" /\ now >= timer[c])
      PROVE  WaitInv'
  <2>1. Owed(c, now)
    <3>1. pc[c] = "idle" => notBefore[c] = 0
      BY DEF WaitInv
    <3>2. pc[c] = "backing_off" => Owed(c, timer[c])
      BY DEF WaitInv
    <3> QED
      BY <1>0, <1>6, <3>1, <3>2 DEF Owed
  <2>2. OnlyOf(c) /\ pc'[c] \notin {"idle", "backing_off"}
    BY <1>6, BeginEffect DEF Returns, GoesTo
  <2> QED
    BY <1>5, <1>6, <2>1, <2>2 DEF BeginAttempt
<1>7. ASSUME NEW c \in Calls, WakeFromThrottle(c) PROVE WaitInv'
  <2>1. Owed(c, now)
    BY <1>7, WakeEffect DEF WaitInv, Waiting
  <2> QED
    BY <1>5, <1>7, <2>1, WakeEffect DEF WakeFromThrottle, GoesTo
<1>8. ASSUME NEW c \in Calls, SendRequest(c) PROVE WaitInv'
  <2>1. /\ OnlyOf(c) /\ now' = now /\ pc'[c] \in {"done", "in_flight"}
        /\ notBefore' = notBefore \/ notBefore' = [notBefore EXCEPT ![c] = 0]
    BY <1>8, SendEffect DEF SendRequest, Returns, GoesTo
  <2> QED
    BY <1>0, <1>4, <2>1 DEF Waiting
<1>9. ASSUME NEW c \in Calls, SleepInterrupted(c) PROVE WaitInv'
  <2>1. OnlyOf(c) /\ pc'[c] = "done"
    BY <1>9, InterruptedEffect DEF Returns
  <2> QED
    BY <1>5, <1>9, <2>1 DEF SleepInterrupted, Waiting
<1>10. ASSUME NEW c \in Calls, Ends(c),
              \/ UNCHANGED notBefore /\ pc'[c] # "backing_off"
              \/ \E v \in Int : /\ notBefore' = [notBefore EXCEPT ![c] = v]
                                /\ timer'[c] + Millisecond > v
       PROVE  WaitInv'
  <2>1. /\ OnlyOf(c) /\ now' = now
        /\ pc'[c] \in {"done", "failed", "backing_off"}
    BY <1>10 DEF Ends, Returns, GoesTo
  <2>2. CASE UNCHANGED notBefore /\ pc'[c] # "backing_off"
    BY <1>5, <2>1, <2>2 DEF Waiting
  <2>3. ASSUME NEW v \in Int, notBefore' = [notBefore EXCEPT ![c] = v],
               timer'[c] + Millisecond > v
        PROVE  WaitInv'
    <3>1. /\ notBefore' \in [Calls -> Int] /\ notBefore'[c] = v
          /\ \A d \in Calls : d # c => notBefore'[d] = notBefore[d]
      BY <1>0, <2>3
    <3>2. Owed(c, timer[c])'
      BY <2>3, <3>1 DEF Owed
    <3> QED
      BY <1>4, <2>1, <3>1, <3>2 DEF Waiting
  <2> QED
    BY <1>10, <2>2, <2>3
<1>11. ASSUME NEW c \in Calls, AttemptFails(c) PROVE WaitInv'
  <2>1. UNCHANGED notBefore /\ pc'[c] # "backing_off"
    BY <1>11 DEF AttemptFails, Return, Goto, TypeInv, TypeOK
  <2> QED
    BY <1>10, <1>11, <2>1, AttemptFailsEnds
<1>12. ASSUME NEW c \in Calls, ClassifyFailure(c) PROVE WaitInv'
  BY <1>10, <1>12, ClassifyEnds, ClassifyWaits
<1>13. ASSUME NEW c \in Calls, NEW answer \in Answers, Receive(c, answer) PROVE WaitInv'
  BY <1>10, <1>13, ReceiveEnds, ReceiveWaits
<1> QED
  BY <1>2, <1>3, <1>6, <1>7, <1>8, <1>9, <1>11, <1>12, <1>13
     DEF Next, GoesOn, Start, WakeFromBackoff

-----------------------------------------------------------------------------
(* The theorems.                                                            *)

GoInv == TypeInv /\ MadeInv /\ ReasonInv /\ PaceInv

LEMMA MadeInit == Init => MadeInv
BY DEF Init, MadeInv, Exactly, Made, Waiting, Zero

LEMMA ReasonInit == Init => ReasonInv
BY DEF Init, ReasonInv, GivesUpForAReason, Pending

LEMMA PaceInit == Init => PaceInv
<1> SUFFICES ASSUME Init PROVE PaceInv
  OBVIOUS
<1>1. AllGranted = {} /\ \A t \in Nat : Turns[t] = {}
  BY DEF Init, AllGranted, Turns, Granted, Waiting
<1>2. IsFiniteSet({}) /\ Cardinality({}) = 0
  BY FS_EmptySet
<1>3. /\ nextRequestAt = 0 /\ 0 * Interval <= 0
      /\ \A t \in Nat : (0 - 1) * Interval <= t
  BY GoTransportAssumption DEF Init
<1> QED
  BY <1>1, <1>2, <1>3 DEF PaceInv, OnSchedule, Paced

LEMMA GoInvariant == Spec => []GoInv
<1>1. Init => GoInv
  BY TypeInit, MadeInit, ReasonInit, PaceInit DEF GoInv
<1>2. GoInv /\ [Next]_vars => GoInv'
  BY TypeStep, MadeStep, ReasonStep, PaceStep DEF GoInv
<1> QED
  BY <1>1, <1>2, PTL DEF Spec

(* Every variable holds a value the code can give it, for any policy, any
   answers and any width of a Duration (transport.send). *)
THEOREM GoTypeTheorem == Spec => []TypeOK
<1>1. GoInv => TypeOK
  BY DEF GoInv, TypeInv
<1> QED
  BY <1>1, GoInvariant, PTL

(* The attempts a caller is told of are the requests the call made; only an
   aborted call may count one more, the one net/http refused to make
   (transport.send, attempt). *)
THEOREM GoAttemptsTheorem == Spec => []AttemptsReported
<1>1. GoInv => AttemptsReported
  <2> SUFFICES ASSUME GoInv, NEW c \in Calls, outcome[c].kind # "pending"
               PROVE  LET made == Cardinality({r \in sent : r[1] = c})
                      IN  IF outcome[c].kind = "Aborted"
                          THEN outcome[c].attempts \in made .. made + 1
                          ELSE outcome[c].attempts = made
    BY DEF AttemptsReported
  <2>1. pc[c] = "done"
    BY DEF GoInv, TypeInv, AttemptsOK, Pending
  <2>2. PICK k \in Nat : Exactly(c, k) /\ Reported(c, k)
    BY <2>1 DEF GoInv, MadeInv
  <2>3. \A r \in sent : r = <<r[1], r[2]>> /\ r[2] \in Nat
    BY DEF GoInv, TypeInv, TypeOK
  <2>4. Cardinality({r \in sent : r[1] = c}) = k
    BY <2>2, <2>3, AttemptsCounted DEF Exactly
  <2> QED
    BY <2>2, <2>4 DEF Reported
<1> QED
  BY <1>1, GoInvariant, PTL

(* A timeout or a network failure is returned only when no retry is left or
   the context ended; an abort only when it did (transport.send). *)
THEOREM GoReasonTheorem == Spec => []GivesUpForAReason
<1>1. GoInv => GivesUpForAReason
  BY DEF GoInv, ReasonInv
<1> QED
  BY <1>1, GoInvariant, PTL

(* A call whose context has ended puts nothing on the wire (attempt). *)
THEOREM GoContextTheorem == Spec => ContextIsFinal
<1>1. GoInv /\ [Next]_vars =>
        [\A c \in Calls : ended[c] => <<c, attempts[c]>> \notin sent' \ sent]_vars
  <2> SUFFICES ASSUME GoInv, Next, NEW c \in Calls, ended[c]
               PROVE  <<c, attempts[c]>> \notin sent' \ sent
    OBVIOUS
  <2>1. sent' = sent => <<c, attempts[c]>> \notin sent' \ sent
    OBVIOUS
  <2>2. ASSUME NEW d \in Calls, SendRequest(d)
        PROVE  <<c, attempts[c]>> \notin sent' \ sent
    BY <2>2, SendEffect DEF GoInv
  <2>3. \/ \E d \in Calls : SendRequest(d)
        \/ sent' = sent
    BY DEF Next, Serve, Tick, Start, GoesOn, BeginAttempt, WakeFromThrottle,
       ClassifyFailure, AttemptFails, WakeFromBackoff, SleepInterrupted,
       EndContext, Receive, wireVars
  <2> QED
    BY <2>1, <2>2, <2>3
<1> QED
  BY <1>1, GoInvariant, PTL DEF Spec, ContextIsFinal

(* A new request is the next attempt of its call, and not among those sent. *)
LEMMA SendIsNew ==
  ASSUME TypeInv, MadeInv, NEW c \in Calls, pc[c] = "ready"
  PROVE  <<c, attempts[c]>> \notin sent
<1>1. attempts[c] \in Nat
  BY DEF TypeInv, TypeOK
<1>2. Exactly(c, attempts[c] - 1)
  BY DEF MadeInv, Made, Waiting
<1> QED
  BY <1>1, <1>2 DEF Exactly

(* A turn that has come and a request not yet out: there is room for it. *)
LEMMA ReadyFits ==
  ASSUME TypeInv, MadeInv, PaceInv, NEW c \in Calls, pc[c] = "ready"
  PROVE  /\ Cardinality(sent \cup {<<c, attempts[c]>>}) = Cardinality(sent) + 1
         /\ Cardinality(sent) * Interval <= now
<1>1. now \in Nat /\ Interval \in Nat
  BY GoTransportAssumption DEF TypeInv, TypeOK
<1>2. sent \subseteq Turns[now]
  BY <1>1 DEF Turns, Granted
<1>3. <<c, attempts[c]>> \in Turns[now] \ sent
  BY <1>1, SendIsNew DEF Turns, Granted
<1> QED
  BY <1>1, <1>2, <1>3, TurnFits DEF PaceInv

LEMMA CeilingStep == GoInv /\ [Next]_vars => [Ceiling!Next]_(Ceiling!ceilingVars)
<1> SUFFICES ASSUME GoInv, [Next]_vars PROVE [Ceiling!Next]_(Ceiling!ceilingVars)
  OBVIOUS
<1>1. CASE Tick
  BY <1>1 DEF Tick, wireVars, GoInv, TypeInv, TypeOK, Ceiling!Next, Ceiling!Pass
<1>2. CASE UNCHANGED <<now, sent>>
  BY <1>2 DEF Ceiling!ceilingVars
<1>3. ASSUME NEW c \in Calls, SendRequest(c)
      PROVE  [Ceiling!Next]_(Ceiling!ceilingVars)
  <2>1. now' = now /\ now + 0 = now
    BY <1>3 DEF SendRequest, GoInv, TypeInv, TypeOK
  <2>2. CASE sent' = sent
    BY <1>2, <2>1, <2>2
  <2>3. CASE sent' = sent \cup {<<c, attempts[c]>>}
    BY <1>3, <2>1, <2>3, ReadyFits DEF GoInv, SendRequest, Ceiling!Next, Ceiling!Release
  <2> QED
    BY <1>3, <2>2, <2>3, SendEffect DEF GoInv
<1>4. \/ Tick \/ UNCHANGED <<now, sent>>
      \/ \E c \in Calls : SendRequest(c)
  BY DEF Next, Serve, Start, GoesOn, BeginAttempt, WakeFromThrottle,
     ClassifyFailure, AttemptFails, WakeFromBackoff, SleepInterrupted,
     EndContext, Receive, wireVars, vars
<1> QED
  BY <1>1, <1>2, <1>3, <1>4

(* The throttle keeps the promise of RateCeiling over every goroutine, though
   a call that is cancelled while it waits keeps its slot (throttle). *)
THEOREM GoCeilingTheorem == Spec => ImplementsRateCeiling
<1>1. Init => Ceiling!Init
  BY FS_EmptySet DEF Init, Ceiling!Init
<1> QED
  BY <1>1, CeilingStep, GoInvariant, PTL DEF Spec, ImplementsRateCeiling, Ceiling!Spec

(* How a caller is told, as BillableCall sees it. *)
LEMMA ToldMaps ==
  ASSUME TypeInv, NEW c \in Calls, NEW kind \in Kinds \ {"pending"}, NEW n \in Nat,
         pc[c] # "done", OnlyOf(c), Returns(c, kind, n), UNCHANGED wireVars,
         kind = "returned" => n = attempts[c] /\ n > 0 /\ <<c, n>> \in served
  PROVE  Billable!Deliver(c) \/ Billable!Fail(c)
<1>1. Promise(c) = "pending" /\ attempts[c] <= Budget[c]
  BY DEF TypeInv, AttemptsOK, Promise, Pending, Budget
<1>2. /\ Promise(c)' = IF kind = "returned" THEN "delivered" ELSE "failed"
      /\ \A d \in Calls : d # c => Promise(d)' = Promise(d)
  <2>1. outcome'[c].kind = kind
    BY DEF Returns, Ended
  <2> QED
    BY <2>1 DEF OnlyOf, Promise
<1>3. [d \in Calls |-> Promise(d)]' =
        [[d \in Calls |-> Promise(d)] EXCEPT ![c] =
            IF kind = "returned" THEN "delivered" ELSE "failed"]
  BY <1>2
<1>4. UNCHANGED <<sent, served>>
  BY DEF wireVars
<1>5. CASE kind = "returned"
  <2>1. attempts[c] \in 1 .. Budget[c] /\ <<c, attempts[c]>> \in served
    BY <1>1, <1>5, GoTransportAssumption DEF TypeInv, TypeOK, Budget
  <2> QED
    BY <1>1, <1>3, <1>4, <1>5, <2>1 DEF Billable!Deliver
<1>6. CASE kind # "returned"
  BY <1>1, <1>3, <1>4, <1>6 DEF Billable!Fail
<1> QED
  BY <1>5, <1>6

LEMMA QuietMaps ==
  ASSUME UNCHANGED <<sent, served>>, \A c \in Calls : outcome'[c] = outcome[c]
  PROVE  UNCHANGED Billable!callVars
<1>1. \A d \in Calls : Promise(d)' = Promise(d)
  BY DEF Promise
<1> QED
  BY <1>1 DEF Billable!callVars

LEMMA BillableStep == GoInv /\ [Next]_vars => [Billable!Next]_(Billable!callVars)
<1> SUFFICES ASSUME GoInv, [Next]_vars PROVE [Billable!Next]_(Billable!callVars)
  OBVIOUS
<1>0. TypeInv /\ \A c \in Calls : attempts[c] \in Nat
  BY DEF GoInv, TypeInv, TypeOK
<1>1. CASE Serve
  <2>1. UNCHANGED [d \in Calls |-> Promise(d)]
    BY <1>1 DEF Serve, Promise
  <2> QED
    BY <1>1, <2>1 DEF Serve, Billable!Next, Billable!Serve
<1>2. Tick \/ UNCHANGED vars \/ (\E c \in Calls : EndContext(c) \/ WakeFromThrottle(c))
        => UNCHANGED Billable!callVars
  BY QuietMaps DEF Tick, vars, EndContext, WakeFromThrottle, wireVars
<1>3. ASSUME NEW c \in Calls, OnlyOf(c), UNCHANGED wireVars, outcome'[c] = outcome[c]
      PROVE  UNCHANGED Billable!callVars
  BY <1>3, QuietMaps DEF OnlyOf, wireVars
<1>4. ASSUME NEW c \in Calls, pc[c] # "done", OnlyOf(c), UNCHANGED wireVars,
             NEW n \in Nat, Returns(c, "Aborted", n)
      PROVE  [Billable!Next]_(Billable!callVars)
  BY <1>0, <1>4, ToldMaps DEF Kinds, Billable!Next
<1>5. ASSUME NEW c \in Calls, BeginAttempt(c), pc[c] \in {"idle", "backing_off"}
      PROVE  [Billable!Next]_(Billable!callVars)
  <2>1. \/ Returns(c, "Aborted", attempts[c]) \/ outcome'[c] = outcome[c]
    BY <1>0, <1>5, BeginEffect DEF GoesTo
  <2> QED
    BY <1>0, <1>3, <1>4, <1>5, <2>1, BeginEffect DEF BeginAttempt
<1>6. ASSUME NEW c \in Calls, SendRequest(c)
      PROVE  [Billable!Next]_(Billable!callVars)
  <2>1. OnlyOf(c) /\ pc[c] = "ready" /\ served' = served
    BY <1>0, <1>6, SendEffect DEF SendRequest
  <2>2. CASE Returns(c, "Aborted", attempts[c]) /\ sent' = sent
    BY <1>0, <1>4, <2>1, <2>2 DEF wireVars
  <2>3. CASE GoesTo(c, "in_flight", now + Timeout) /\ sent' = sent \cup {<<c, attempts[c]>>}
    <3>1. UNCHANGED [d \in Calls |-> Promise(d)]
      BY <2>1, <2>3 DEF Promise, OnlyOf, GoesTo
    <3>2. attempts[c] \in 1 .. Budget[c] /\ Promise(c) = "pending"
      BY <1>0, <2>1, GoTransportAssumption
         DEF TypeInv, AttemptsOK, Budget, Promise, Pending
    <3>3. <<c, attempts[c]>> \notin sent
      BY <1>0, <2>1, SendIsNew DEF GoInv
    <3> QED
      BY <2>1, <2>3, <3>1, <3>2, <3>3 DEF Billable!Next, Billable!Send
  <2> QED
    BY <1>0, <1>6, <2>2, <2>3, SendEffect
<1>7. ASSUME NEW c \in Calls, Ends(c) PROVE [Billable!Next]_(Billable!callVars)
  <2>1. /\ OnlyOf(c) /\ UNCHANGED wireVars /\ pc[c] \in {"in_flight", "failed"}
        /\ attempts[c] > 0
    BY <1>0, <1>7 DEF Ends, TypeInv, AttemptsOK
  <2>2. ASSUME NEW kind \in Kinds, GivenUp(c, kind), Returns(c, kind, attempts[c])
        PROVE  [Billable!Next]_(Billable!callVars)
    BY <1>0, <2>1, <2>2, ToldMaps DEF GivenUp, Billable!Next
  <2> QED
    BY <1>3, <1>7, <2>1, <2>2 DEF Ends, GoesTo
<1>8. ASSUME NEW c \in Calls, SleepInterrupted(c)
      PROVE  [Billable!Next]_(Billable!callVars)
  <2>1. \E n \in Nat : Returns(c, "Aborted", n)
    <3>1. pc[c] = "throttled" => attempts[c] - 1 \in Nat
      BY <1>0 DEF TypeInv, AttemptsOK
    <3> QED
      BY <1>0, <1>8, <3>1, InterruptedEffect
  <2> QED
    BY <1>0, <1>4, <1>8, <2>1, InterruptedEffect DEF SleepInterrupted
<1> QED
  BY <1>0, <1>1, <1>2, <1>5, <1>6, <1>7, <1>8, AttemptFailsEnds, ClassifyEnds,
     ReceiveEnds DEF Next, GoesOn, Start, WakeFromBackoff

(* send keeps the promise of BillableCall, wherever a context ends: at most
   max_retries + 1 requests, a result only for a check that was served, and
   nothing on the wire after the caller has its answer (transport.send). *)
THEOREM GoBillableTheorem == Spec => ImplementsBillableCall
<1>1. Init => Billable!Init
  <2> SUFFICES ASSUME Init PROVE Billable!Init
    OBVIOUS
  <2>1. [c \in Calls |-> Promise(c)] = [c \in Calls |-> "pending"]
    BY DEF Init, Promise, Pending
  <2> QED
    BY <2>1 DEF Init, Billable!Init
<1> QED
  BY <1>1, BillableStep, GoInvariant, PTL DEF Spec, ImplementsBillableCall, Billable!Spec

(* No later request of a call goes out before the instant the server asked
   for, to the millisecond, when that instant is one a Duration can hold; and
   so the cost, the pace and the wait are all kept (computeRetryDelay,
   transport.send). *)
THEOREM GoPromisesTheorem ==
  ASSUME Representable PROVE Spec => KeepsItsPromises
<1>1. Spec => RetryAfterHonored
  <2>1. WaitInv /\ GoInv /\ [Next]_vars => (WaitInv /\ GoInv)'
    BY WaitStep, TypeStep, MadeStep, ReasonStep, PaceStep DEF GoInv
  <2>2. WaitInv /\ GoInv /\ [Next]_vars =>
          [\A c \in Calls : <<c, attempts[c]>> \in sent' \ sent =>
             now + Millisecond > notBefore[c]]_vars
    <3> SUFFICES ASSUME WaitInv, GoInv, Next, NEW c \in Calls,
                        <<c, attempts[c]>> \in sent' \ sent
                 PROVE  now + Millisecond > notBefore[c]
      OBVIOUS
    <3>1. PICK d \in Calls : SendRequest(d)
      BY DEF Next, Serve, Tick, Start, GoesOn, BeginAttempt, WakeFromThrottle,
         ClassifyFailure, AttemptFails, WakeFromBackoff, SleepInterrupted,
         EndContext, Receive, wireVars
    <3>2. d = c /\ pc[c] = "ready"
      BY <3>1, SendEffect DEF GoInv
    <3> QED
      BY <3>2 DEF WaitInv, Owed, Waiting
  <2>3. Init => WaitInv /\ GoInv
    BY WaitInit, TypeInit, MadeInit, ReasonInit, PaceInit DEF GoInv
  <2> QED
    BY <2>1, <2>2, <2>3, PTL DEF Spec, RetryAfterHonored
<1> QED
  BY <1>1, GoBillableTheorem, GoCeilingTheorem, PTL DEF KeepsItsPromises
=============================================================================
