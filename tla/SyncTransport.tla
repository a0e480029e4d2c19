--------------------------- MODULE SyncTransport ---------------------------
(***************************************************************************)
(* The synchronous Python transport: one PactmanClient shared by threads,  *)
(* each inside Transport.send for one call.                                *)
(* (python/src/pactman_nonprofit_check_plus/_http.py, lines 211-293)       *)
(*                                                                         *)
(* Threads interleave wherever one can observe another: around the         *)
(* throttle lock, between reading and writing _next_request_at, asleep and *)
(* with a request in flight.  The API is across a network that may lose a  *)
(* request, lose an answer, or deliver a request its sender has already    *)
(* given up on.                                                            *)
(*                                                                         *)
(* The clock ticks while some timer runs.  A sleeper may go on any time    *)
(* after its sleep is over, never before; a sleep of 0 is no sleep.  A     *)
(* local whose last use is past is set back to 0.                          *)
(***************************************************************************)
EXTENDS FiniteSets, RetryPolicy

CONSTANTS
    Calls,          \* the calls in progress, one thread each
    ClientRetry,    \* the client's RetryOptions
    Override,       \* Override[c]: the `retry` argument of call c
    Interval,       \* 1 / max_requests_per_second; 0 when there is no limit
    Timeout,        \* how long httpx waits on one connect, write or read
    Longest,        \* for how long an answer may keep coming in, at most
    Answers,        \* what the API may answer: [status, retry_after]
    NoCall          \* nobody, as the holder of the lock

(* plan.retry; Rejected when the argument is not a policy. *)
Plan(c) == ResolveRetry(ClientRetry, Override[c])

Accepted(c) == Plan(c) # Rejected

ASSUME SyncTransportAssumption ==
    /\ Interval \in Nat /\ Timeout \in Nat /\ Longest \in Nat
    /\ NoCall \notin Calls
    /\ ClientRetry \in RetryOptions
    /\ \A c \in Calls : RetryArgument(Override[c])
    /\ Answers \subseteq [status : Nat \ {0}, retry_after : Headers]

VARIABLES
    now,            \* the monotonic clock
    pc,             \* where each thread is
    attempts,       \* the local `attempts` of send
    timer,          \* the end of the sleep, or of the wait on the network
    outcome,        \* what send returned or raised
    nextRequestAt,  \* _next_request_at
    lock,           \* who holds _throttle_lock
    seen,           \* the local `now` of _next_throttle_delay
    scheduledAt,    \* the local `scheduled_at` of _next_throttle_delay
    sent,           \* requests put on the wire: <<call, attempt>>
    served,         \* those the API has carried out
    last,           \* (history) how the latest attempt ended
    notBefore,      \* (history) the instant the server asked c to wait for
    since,          \* (history) when the attempt in flight was sent
    claims,         \* (history) how many slots the throttle has given out
    slot,           \* (history) the number of the slot c holds
    fired           \* (history) the slots whose request has gone out

throttleVars == <<nextRequestAt, lock, seen, scheduledAt, claims, slot>>
wireVars == <<sent, served, fired>>
endVars == <<outcome, last, notBefore, since>>
vars == <<now, pc, attempts, timer, throttleVars, wireVars, endVars>>

(* A result carries the number of attempts it took; so does an error. *)
Pending == [kind |-> "pending", attempts |-> 0]
Ended(kind, n) == [kind |-> kind, attempts |-> n]

Zero == [c \in Calls |-> 0]

Init ==
    /\ now = 0 /\ nextRequestAt = 0 /\ lock = NoCall
    /\ pc = [c \in Calls |-> "idle"]
    /\ attempts = Zero /\ timer = Zero
    /\ seen = Zero /\ scheduledAt = Zero
    /\ outcome = [c \in Calls |-> Pending]
    /\ sent = {} /\ served = {}
    /\ last = Zero /\ notBefore = Zero /\ since = Zero
    /\ claims = 0 /\ slot = Zero /\ fired = {}

Step(c, from, to) == pc[c] = from /\ pc' = [pc EXCEPT ![c] = to]

-----------------------------------------------------------------------------
(* send: the plan, then `attempts += 1` at the head of the loop.           *)

Start(c) ==
    /\ Accepted(c)
    /\ Step(c, "idle", "throttle")
    /\ attempts' = [attempts EXCEPT ![c] = 1]
    /\ UNCHANGED <<now, timer, throttleVars, wireVars, endVars>>

(* The plan raises PactmanConfigurationError: no attempt is made. *)
Refuse(c) ==
    /\ ~Accepted(c)
    /\ Step(c, "idle", "done")
    /\ outcome' = [outcome EXCEPT ![c] = Ended("Configuration", 0)]
    /\ UNCHANGED <<now, attempts, timer, throttleVars, wireVars, last, notBefore,
                   since>>

-----------------------------------------------------------------------------
(* _throttle: the slot is claimed under the lock, the sleep is outside it. *)

(* Mutant: _next_throttle_delay runs without the lock. *)
ReadScheduleUnlocked(c) ==
    /\ Step(c, "throttle", "claiming")
    /\ lock' = c
    /\ seen' = [seen EXCEPT ![c] = now]
    /\ scheduledAt' = [scheduledAt EXCEPT ![c] = Larger(now, nextRequestAt)]
    /\ UNCHANGED <<now, attempts, timer, nextRequestAt, claims, slot, wireVars,
                   endVars>>

(* Mutant: the local holds a delay where an instant is meant. *)
ReadScheduleAsDelay(c) ==
    /\ lock = NoCall
    /\ Step(c, "throttle", "claiming")
    /\ lock' = c
    /\ seen' = [seen EXCEPT ![c] = now]
    /\ scheduledAt' = [scheduledAt EXCEPT ![c] = nextRequestAt - now]
    /\ UNCHANGED <<now, attempts, timer, nextRequestAt, claims, slot, wireVars,
                   endVars>>

ReadSchedule(c) ==
    /\ lock = NoCall
    /\ Step(c, "throttle", "claiming")
    /\ lock' = c
    /\ seen' = [seen EXCEPT ![c] = now]
    /\ scheduledAt' = [scheduledAt EXCEPT ![c] = Larger(now, nextRequestAt)]
    /\ UNCHANGED <<now, attempts, timer, nextRequestAt, claims, slot, wireVars,
                   endVars>>

(* Mutant: the lock is released only after a claim that has to wait. *)
ClaimSlotKeepingLock(c) ==
    /\ Step(c, "claiming", "throttled")
    /\ nextRequestAt' = scheduledAt[c] + Interval
    /\ timer' = [timer EXCEPT ![c] = now + Larger(0, scheduledAt[c] - seen[c])]
    /\ lock' = IF scheduledAt[c] > seen[c] THEN NoCall ELSE lock
    /\ claims' = claims + 1
    /\ slot' = [slot EXCEPT ![c] = claims + 1]
    /\ seen' = [seen EXCEPT ![c] = 0]
    /\ scheduledAt' = [scheduledAt EXCEPT ![c] = 0]
    /\ UNCHANGED <<now, attempts, wireVars, endVars>>

(* With no limit the schedule is left alone and there is no delay. *)
ClaimSlot(c) ==
    /\ Step(c, "claiming", "throttled")
    /\ IF Interval = 0
       THEN UNCHANGED nextRequestAt /\ timer' = [timer EXCEPT ![c] = now]
       ELSE /\ nextRequestAt' = scheduledAt[c] + Interval
            /\ timer' = [timer EXCEPT ![c] = now + Larger(0, scheduledAt[c] - seen[c])]
    /\ lock' = NoCall
    /\ claims' = claims + 1
    /\ slot' = [slot EXCEPT ![c] = claims + 1]
    /\ seen' = [seen EXCEPT ![c] = 0]
    /\ scheduledAt' = [scheduledAt EXCEPT ![c] = 0]
    /\ UNCHANGED <<now, attempts, wireVars, endVars>>

-----------------------------------------------------------------------------
(* _attempt: one request through httpx, once the slot has come. *)

SendRequest(c) ==
    /\ now >= timer[c]
    /\ Step(c, "throttled", "in_flight")
    /\ timer' = [timer EXCEPT ![c] = now + Timeout]
    /\ sent' = sent \cup {<<c, attempts[c]>>}
    /\ fired' = fired \cup {slot[c]}
    /\ notBefore' = [notBefore EXCEPT ![c] = 0]
    /\ since' = [since EXCEPT ![c] = now]
    /\ UNCHANGED <<now, attempts, throttleVars, served, outcome, last>>

(* An operation of the exchange is over and the next one begins, with the
   whole timeout before it: httpx takes `timeout` for each connect, write and
   read, and sets no end to the exchange. *)
Progress(c) ==
    /\ pc[c] = "in_flight" /\ now <= since[c] + Longest
    /\ timer' = [timer EXCEPT ![c] = now + Timeout]
    /\ UNCHANGED <<now, pc, attempts, throttleVars, wireVars, endVars>>

(* Mutant: what is reported is the number of retries. *)
FinishCountingRetries(c, kind) ==
    /\ Step(c, "in_flight", "done")
    /\ outcome' = [outcome EXCEPT ![c] = Ended(kind, attempts[c] - 1)]
    /\ timer' = [timer EXCEPT ![c] = 0]
    /\ since' = [since EXCEPT ![c] = 0]
    /\ UNCHANGED notBefore

(* The rest of the loop: return or raise, or sleep before another attempt. *)
Finish(c, kind) ==
    /\ Step(c, "in_flight", "done")
    /\ outcome' = [outcome EXCEPT ![c] = Ended(kind, attempts[c])]
    /\ timer' = [timer EXCEPT ![c] = 0]
    /\ since' = [since EXCEPT ![c] = 0]
    /\ UNCHANGED notBefore

Backoff(c, retryAfter, asked) ==
    /\ Step(c, "in_flight", "backing_off")
    /\ \E draw \in 0 .. Parts - 1 :
          timer' = [timer EXCEPT ![c] = now + ComputeRetryDelay(attempts[c],
                                               Plan(c), retryAfter, draw)]
    /\ notBefore' = [notBefore EXCEPT ![c] = asked]
    /\ since' = [since EXCEPT ![c] = 0]
    /\ UNCHANGED outcome

(* Mutant: one retry too few. *)
ExhaustedEarly(c) == attempts[c] >= Plan(c).max_retries

(* Mutant: one retry too many. *)
ExhaustedLate(c) == attempts[c] > Plan(c).max_retries + 1

Exhausted(c) == attempts[c] > Plan(c).max_retries

(* (history) The instant a header names, to a client that listens to it. *)
Asked(c, header) ==
    IF ~Plan(c).respect_retry_after THEN now
    ELSE CASE header.form = "seconds" /\ header.value >= 0 -> now + header.value
           [] header.form = "date" -> header.value
           [] OTHER -> now

(* A response to the attempt in flight. *)
Receive(c, answer) ==
    /\ <<c, attempts[c]>> \in served
    /\ \/ /\ IsSuccess(answer.status)
          /\ Finish(c, "returned")
       \/ /\ ~IsSuccess(answer.status)
          /\ IF Exhausted(c) \/ ~IsRetryableStatus(answer.status, Plan(c))
             THEN Finish(c, ErrorFromStatus(answer.status))
             ELSE Backoff(c, ReadRetryAfter(answer.retry_after, now),
                          Asked(c, answer.retry_after))
    /\ last' = [last EXCEPT ![c] = answer.status]
    /\ UNCHANGED <<now, attempts, throttleVars, wireVars>>

(* httpx raises: TimeoutException, or any other failure of the transport. *)
AttemptFails(c, kind) ==
    /\ pc[c] = "in_flight" /\ (kind = "Timeout" => now >= timer[c])
    /\ IF Exhausted(c) THEN Finish(c, kind) ELSE Backoff(c, None, now)
    /\ last' = [last EXCEPT ![c] = 0]
    /\ UNCHANGED <<now, attempts, throttleVars, wireVars>>

(* Mutant: a retry does not go through the throttle again. *)
WakeFromBackoffUnthrottled(c) ==
    /\ now >= timer[c]
    /\ Step(c, "backing_off", "throttled")
    /\ attempts' = [attempts EXCEPT ![c] = @ + 1]
    /\ timer' = [timer EXCEPT ![c] = 0]
    /\ UNCHANGED <<now, throttleVars, wireVars, endVars>>

WakeFromBackoff(c) ==
    /\ now >= timer[c]
    /\ Step(c, "backing_off", "throttle")
    /\ attempts' = [attempts EXCEPT ![c] = @ + 1]
    /\ timer' = [timer EXCEPT ![c] = 0]
    /\ UNCHANGED <<now, throttleVars, wireVars, endVars>>

-----------------------------------------------------------------------------
(* The environment. *)

(* The API carries out a request, perhaps long after it was sent. *)
Serve ==
    /\ \E request \in sent \ served : served' = served \cup {request}
    /\ UNCHANGED <<now, pc, attempts, timer, throttleVars, sent, fired, endVars>>

Tick ==
    /\ \E c \in Calls : now < timer[c]
    /\ now' = now + 1
    /\ UNCHANGED <<pc, attempts, timer, throttleVars, wireVars, endVars>>

Run(c) ==
    \/ Start(c) \/ Refuse(c)
    \/ ReadSchedule(c) \/ ClaimSlot(c) \/ SendRequest(c) \/ Progress(c)
    \/ \E answer \in Answers : Receive(c, answer)
    \/ \E kind \in {"Timeout", "Network"} : AttemptFails(c, kind)
    \/ WakeFromBackoff(c)

Next == Serve \/ Tick \/ \E c \in Calls : Run(c)

Spec == Init /\ [][Next]_vars

(* What a thread does next is done sooner or later: threads are scheduled, the
   clock runs, and httpx raises the timeout of an operation that is overdue.
   Of the API and the network only Longest is assumed: an answer that comes in
   piece by piece, each in time, does not do so for ever.  Nothing in the code
   sees to that. *)
GoesOn(c) ==
    \/ ReadSchedule(c) \/ ClaimSlot(c) \/ SendRequest(c)
    \/ AttemptFails(c, "Timeout") \/ WakeFromBackoff(c)

(* The calls that begin at all. *)
Senders == {c \in Calls : Accepted(c)}

FairSpec == Spec /\ WF_vars(Tick) /\ \A c \in Senders : WF_vars(GoesOn(c))

-----------------------------------------------------------------------------
(* Properties. *)

Labels == {"idle", "throttle", "claiming", "throttled", "in_flight",
           "backing_off", "done"}

(* CancelledError leaves send only where send is a coroutine. *)
Kinds == ErrorClasses \cup {"pending", "returned", "Timeout", "Network",
                            "Configuration", "Cancelled"}

(* Every variable holds a value the code can give it. *)
TypeOK ==
    /\ now \in Nat /\ nextRequestAt \in Nat /\ lock \in Calls \cup {NoCall}
    /\ pc \in [Calls -> Labels]
    /\ attempts \in [Calls -> Nat] /\ timer \in [Calls -> Nat]
    /\ outcome \in [Calls -> [kind : Kinds, attempts : Nat]]
    /\ seen \in [Calls -> Nat] /\ scheduledAt \in [Calls -> Nat]
    /\ sent \subseteq Calls \X Nat /\ served \subseteq sent
    /\ claims \in Nat /\ slot \in [Calls -> Nat] /\ fired \subseteq Nat
    /\ since \in [Calls -> Nat]

(* Successive claims of the shared schedule are at least one interval apart,
   whichever threads make them: no two requests get the same place
   (_next_throttle_delay under _throttle_lock). *)
ClaimsSpaced ==
    [][claims' # claims => nextRequestAt' >= nextRequestAt + Interval]_vars

(* A call ends in an error only when its retries are spent or the last answer
   is one that is never retried: a transient failure is not given up on early
   (the two `raise`s of send). *)
GivesUpOnlyWhenSpent ==
    \A c \in Calls :
        outcome[c].kind \notin {"pending", "returned", "Configuration"} =>
            \/ attempts[c] = Plan(c).max_retries + 1
            \/ last[c] \in NeverRetry
            \/ last[c] # 0 /\ last[c] \notin Plan(c).retryable_statuses

(* A refusal (400, 401, 403, 404) and a success are final: the request is not
   repeated, whatever statuses the caller lists as retryable (config.py:27). *)
NeverRepeatsFinalAnswer ==
    [][\A c \in Calls : last[c] \in NeverRetry \cup 200 .. 299 =>
           attempts'[c] = attempts[c]]_vars

(* "A valid Retry-After wins outright": no later request of the call goes out
   before the instant the server asked for, rounded to the nearest millisecond,
   even when that is past max_delay and even when the throttle has a slot free
   (compute_retry_delay). *)
RetryAfterHonored ==
    [][\A c \in Calls : <<c, attempts[c]>> \in sent' \ sent =>
           2 * now + Grain >= 2 * notBefore[c]]_vars

(* The number of attempts a result or an error carries is the number of
   requests the call put on the wire. *)
AttemptsReported ==
    \A c \in Calls : outcome[c].kind # "pending" =>
        outcome[c].attempts = Cardinality({r \in sent : r[1] = c})

(* Every call that has begun ends: whatever is lost, refused or late, and
   however slow each operation of an exchange, as long as no answer keeps
   coming in for ever (FairSpec; _attempt has no deadline of its own). *)
EveryCallEnds == \A c \in Senders : (pc[c] = "throttle") ~> (pc[c] = "done")

Promise(c) ==
    CASE outcome[c].kind = "pending" -> "pending"
      [] outcome[c].kind = "returned" -> "delivered"
      [] OTHER -> "failed"

Budget == [c \in Calls |-> IF Accepted(c) THEN Plan(c).max_retries + 1 ELSE 0]

Billable == INSTANCE BillableCall WITH result <- [c \in Calls |-> Promise(c)]

(* send keeps the promise of BillableCall: at most max_retries + 1 requests,
   a result only for a check that was served, nothing sent after the end. *)
ImplementsBillableCall == Billable!Spec

Ceiling == INSTANCE RateCeiling WITH
              Slack <- 0, clock <- now, released <- Cardinality(sent)

(* The throttle keeps the promise of RateCeiling over everything the client
   sends, the retries of every thread included. *)
ImplementsRateCeiling == Ceiling!Spec
=============================================================================
