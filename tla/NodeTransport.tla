--------------------------- MODULE NodeTransport ---------------------------
(***************************************************************************)
(* The Node.js transport: one PactmanClient, and the calls it has under    *)
(* way on one event loop.  (nodejs/src/http.ts and client.ts)              *)
(*                                                                         *)
(* JavaScript runs to the end of a turn, so a step is what send does       *)
(* between two awaits.  The hard part is the caller's AbortSignal: it may  *)
(* fire at any await, and a listener added after it fired is never told.   *)
(* "gap" is the await of #throttle when there is nothing to wait for: the  *)
(* signal has been looked at, the request has not been made.               *)
(*                                                                         *)
(* Delays and Retry-After are computed as in RetryPolicy, to the           *)
(* millisecond (a tie may go either way in the properties).  Date.now and  *)
(* setTimeout are taken to be one clock, which counts whole milliseconds;  *)
(* what setTimeout makes of a delay is Timer.                              *)
(***************************************************************************)
EXTENDS FiniteSets, RetryPolicy

CONSTANTS
    Calls,          \* the calls under way
    ClientRetry,    \* the client's ResolvedRetryOptions
    Override,       \* Override[c]: options.retry of call c
    Interval,       \* 1000 / maxRequestsPerSecond; 0 when there is no limit
    Timeout,        \* timeoutMs
    Answers,        \* what the API may answer: [status, retry_after]
    TimeoutMax,     \* 2^31 - 1: the longest setTimeout, in milliseconds
    MaxAttempts     \* bound: no call makes more attempts than this

(* `undefined`, as the value of an option that is present. *)
Undefined == -1

(* Unlike the client's policy, a request's is merged and not validated. *)
ResolveRequestRetry(current, override) ==
    CASE override.kind = "keep" -> current
      [] override.kind = "off" -> [current EXCEPT !.max_retries = 0]
      [] override.kind = "mapping" -> override.fields @@ current

Plan(c) == ResolveRequestRetry(ClientRetry, Override[c])

(* The number of retries of a request may be any number, or undefined.  Its
   waits are taken to be durations: a negative one, which nothing refuses
   either, is one of 0 to setTimeout. *)
ASSUME NodeTransportAssumption ==
    /\ Interval \in Nat /\ Timeout \in Nat /\ MaxAttempts \in Nat
    /\ TimeoutMax \in Nat \ {0}
    /\ ClientRetry \in RetryOptions
    /\ \A c \in Calls :
          /\ Plan(c).max_retries \in Int /\ Plan(c).max_delay \in Nat
          /\ Plan(c).respect_retry_after \in BOOLEAN
          /\ Plan(c).initial_delay \in Nat /\ Plan(c).backoff_factor \in Nat
    /\ Answers \subseteq [status : Nat, retry_after : Headers]

VARIABLES
    now,            \* Date.now()
    pc,             \* what each call awaits
    attempts,       \* the local `attempt` of send
    timer,          \* when the setTimeout the call waits on is due
    aborted,        \* options.signal.aborted
    hears,          \* a listener for 'abort' was added before it fired
    response,       \* the response whose body is being read
    outcome,        \* what the promise settled to
    nextRequestAt,  \* #nextRequestAt
    sent,           \* requests put on the wire: <<call, attempt>>
    served,         \* those the API has carried out
    asked           \* (history) the instant the server asked c to wait for

wireVars == <<sent, served>>
vars == <<now, pc, attempts, timer, aborted, hears, response, outcome,
          nextRequestAt, wireVars, asked>>

Pending == [kind |-> "pending", attempts |-> 0]
Ended(kind, n) == [kind |-> kind, attempts |-> n]

NoResponse == [status |-> 0, retry_after |-> NoHeader]

(* (history) To wait until an instant, which a timer can reach or not. *)
Nothing == [until |-> 0, fits |-> TRUE]
Wait(until) == [until |-> until, fits |-> until - now <= TimeoutMax * Grain]

Init ==
    /\ now = 0 /\ nextRequestAt = 0
    /\ pc = [c \in Calls |-> "idle"]
    /\ attempts = [c \in Calls |-> 0] /\ timer = [c \in Calls |-> 0]
    /\ aborted = [c \in Calls |-> FALSE] /\ hears = [c \in Calls |-> FALSE]
    /\ response = [c \in Calls |-> NoResponse]
    /\ outcome = [c \in Calls |-> Pending]
    /\ sent = {} /\ served = {}
    /\ asked = [c \in Calls |-> Nothing]

(* setTimeout (external): whole milliseconds, at least one; and one as well
   when the delay is more than 32 bits hold. *)
Timer(delay) ==
    IF delay < Grain \/ delay > TimeoutMax * Grain THEN Grain
    ELSE Grain * (delay \div Grain)

(* Call c goes on to await something due at `due`, listening or not. *)
Await(c, label, due, listening) ==
    /\ pc' = [pc EXCEPT ![c] = label]
    /\ timer' = [timer EXCEPT ![c] = due]
    /\ hears' = [hears EXCEPT ![c] = listening]

(* Mutant: what is reported is the number of retries. *)
SettleCountingRetries(c, kind, n) ==
    /\ Await(c, "done", 0, FALSE)
    /\ outcome' = [outcome EXCEPT ![c] = Ended(kind, n - 1)]
    /\ response' = [response EXCEPT ![c] = NoResponse]

(* The promise of send settles, and that of check or checkBulk with it. *)
Settle(c, kind, n) ==
    /\ Await(c, "done", 0, FALSE)
    /\ outcome' = [outcome EXCEPT ![c] = Ended(kind, n)]
    /\ response' = [response EXCEPT ![c] = NoResponse]

-----------------------------------------------------------------------------
(* The head of the loop: throwIfAborted, then #throttle up to its await.    *)

(* Mutant: the slot is taken from the clock alone. *)
ClaimSlotForgetful(c) ==
    /\ nextRequestAt' = IF Interval = 0 THEN nextRequestAt ELSE now + Interval
    /\ IF Interval = 0 \/ nextRequestAt <= now
       THEN Await(c, "gap", 0, FALSE)
       ELSE Await(c, "throttled", now + Timer(nextRequestAt - now), TRUE)

ClaimSlot(c) ==
    IF Interval = 0
    THEN Await(c, "gap", 0, FALSE) /\ UNCHANGED nextRequestAt
    ELSE /\ nextRequestAt' = Larger(now, nextRequestAt) + Interval
         /\ IF nextRequestAt > now
            THEN Await(c, "throttled", now + Timer(nextRequestAt - now), TRUE)
            ELSE Await(c, "gap", 0, FALSE)

(* Mutant: the signal is looked at once, when the call is made. *)
BeginAttemptDeaf(c) ==
    /\ attempts[c] < MaxAttempts
    /\ IF aborted[c] /\ attempts[c] = 0
       THEN Settle(c, "Aborted", 0) /\ UNCHANGED <<attempts, nextRequestAt>>
       ELSE /\ attempts' = [attempts EXCEPT ![c] = @ + 1]
            /\ ClaimSlot(c)
            /\ UNCHANGED <<outcome, response>>
    /\ UNCHANGED <<now, aborted, wireVars, asked>>

BeginAttempt(c) ==
    /\ attempts[c] < MaxAttempts
    /\ IF aborted[c]
       THEN Settle(c, "Aborted", 0) /\ UNCHANGED <<attempts, nextRequestAt>>
       ELSE /\ attempts' = [attempts EXCEPT ![c] = @ + 1]
            /\ ClaimSlot(c)
            /\ UNCHANGED <<outcome, response>>
    /\ UNCHANGED <<now, aborted, wireVars, asked>>

Start(c) == pc[c] = "idle" /\ BeginAttempt(c)

(* defaultSleep resolves; #throttle returns without another look. *)
WakeFromThrottle(c) ==
    /\ pc[c] = "throttled" /\ now >= timer[c]
    /\ Await(c, "gap", 0, FALSE)
    /\ UNCHANGED <<now, attempts, aborted, response, outcome, nextRequestAt,
                   wireVars, asked>>

-----------------------------------------------------------------------------
(* #attempt: the timer is set, the listener added and fetch called.         *)

SendRequest(c) ==
    /\ pc[c] = "gap"
    /\ Await(c, "in_flight", now + Timer(Timeout), ~aborted[c])
    /\ sent' = sent \cup {<<c, attempts[c]>>}
    /\ asked' = [asked EXCEPT ![c] = Nothing]
    /\ UNCHANGED <<now, attempts, aborted, response, outcome, nextRequestAt,
                   served>>

(* fetch resolves once the headers are in; the timer goes on running. *)
ReceiveHeaders(c, answer) ==
    /\ pc[c] = "in_flight" /\ <<c, attempts[c]>> \in served
    /\ Await(c, "reading", timer[c], hears[c])
    /\ response' = [response EXCEPT ![c] = answer]
    /\ UNCHANGED <<now, attempts, aborted, outcome, nextRequestAt, wireVars,
                   asked>>

(* `attempt > undefined` is false. *)
Exhausted(c) ==
    Plan(c).max_retries # Undefined /\ attempts[c] > Plan(c).max_retries

(* #waitBeforeRetry, up to its sleep. *)
Backoff(c, retryAfter, until, listening) ==
    /\ \E draw \in 0 .. Parts - 1 :
          Await(c, "backing_off",
                now + Timer(ComputeRetryDelay(attempts[c], Plan(c), retryAfter, draw)),
                listening)
    /\ response' = [response EXCEPT ![c] = NoResponse]
    /\ asked' = [asked EXCEPT ![c] = Wait(until)]
    /\ UNCHANGED outcome

(* (history) The instant a header names, to a client that listens to it. *)
Asked(c, header) ==
    IF ~Plan(c).respect_retry_after THEN now
    ELSE CASE header.form = "seconds" /\ header.value >= 0 -> now + header.value
           [] header.form = "date" -> header.value
           [] OTHER -> now

(* The response is complete, with a body or (`null`) without: check reads
   `response.body.data`, which null has not. *)
Conclude(c, hasBody, listening) ==
    LET status == response[c].status
        retryAfter == response[c].retry_after
    IN  \/ /\ IsSuccess(status)
           /\ Settle(c, IF hasBody THEN "returned" ELSE "TypeError", attempts[c])
           /\ UNCHANGED asked
        \/ /\ ~IsSuccess(status)
           /\ Exhausted(c) \/ ~IsRetryableStatus(status, Plan(c))
           /\ Settle(c, ErrorFromStatus(status), attempts[c])
           /\ UNCHANGED asked
        \/ /\ ~IsSuccess(status)
           /\ ~Exhausted(c) /\ IsRetryableStatus(status, Plan(c))
           /\ Backoff(c, ReadRetryAfter(retryAfter, now), Asked(c, retryAfter),
                      listening)

(* The body arrives; or reading it fails, and parseBody takes the failure
   for an empty body. *)
ReceiveBody(c, hasBody) ==
    /\ pc[c] = "reading"
    /\ Conclude(c, hasBody, ~aborted[c])
    /\ UNCHANGED <<now, attempts, aborted, nextRequestAt, wireVars>>

(* fetch rejects: a timeout or a failure of the network is worth a retry. *)
Fail(c, kind) ==
    IF Exhausted(c)
    THEN Settle(c, kind, attempts[c]) /\ UNCHANGED asked
    ELSE Backoff(c, None, now, ~aborted[c])

FetchFails(c) ==
    /\ pc[c] = "in_flight"
    /\ IF aborted[c]
       THEN Settle(c, "Aborted", attempts[c]) /\ UNCHANGED asked
       ELSE Fail(c, "Network")
    /\ UNCHANGED <<now, attempts, aborted, nextRequestAt, wireVars>>

(* Mutant: the timer is cleared as soon as fetch resolves. *)
TimerFiresBeforeHeaders(c) ==
    /\ now >= timer[c]
    /\ pc[c] = "in_flight" /\ Fail(c, "Timeout")
    /\ UNCHANGED <<now, attempts, aborted, nextRequestAt, wireVars>>

(* The timer of #attempt aborts the request, or the reading of its body. *)
TimerFires(c) ==
    /\ now >= timer[c]
    /\ \/ pc[c] = "in_flight" /\ Fail(c, "Timeout")
       \/ pc[c] = "reading" /\ Conclude(c, FALSE, ~aborted[c])
    /\ UNCHANGED <<now, attempts, aborted, nextRequestAt, wireVars>>

(* throwIfAborted at the end of #waitBeforeRetry and at the head of the loop
   are one look at the signal: only microtasks of this call lie between. *)
WakeFromBackoff(c) ==
    pc[c] = "backing_off" /\ now >= timer[c] /\ BeginAttempt(c)

-----------------------------------------------------------------------------
(* The environment.                                                         *)

(* The caller aborts: what is told, acts on it before anything else runs. *)
Abort(c) ==
    /\ ~aborted[c] /\ pc[c] # "done"
    /\ aborted' = [aborted EXCEPT ![c] = TRUE]
    /\ \/ /\ ~hears[c]
          /\ UNCHANGED <<pc, timer, hears, response, outcome, asked>>
       \/ /\ hears[c] /\ pc[c] \in {"throttled", "backing_off"}
          /\ Settle(c, "Aborted", 0) /\ UNCHANGED asked
       \/ /\ hears[c] /\ pc[c] = "in_flight"
          /\ Settle(c, "Aborted", attempts[c]) /\ UNCHANGED asked
       \/ /\ hears[c] /\ pc[c] = "reading"
          /\ Conclude(c, FALSE, FALSE)
    /\ UNCHANGED <<now, attempts, nextRequestAt, wireVars>>

(* The API carries out a request, perhaps long after it was sent. *)
Serve ==
    /\ \E request \in sent \ served : served' = served \cup {request}
    /\ UNCHANGED <<now, pc, attempts, timer, aborted, hears, response, outcome,
                   nextRequestAt, sent, asked>>

Tick ==
    /\ \E c \in Calls : now < timer[c]
    /\ now' = now + Grain
    /\ UNCHANGED <<pc, attempts, timer, aborted, hears, response, outcome,
                   nextRequestAt, wireVars, asked>>

Run(c) ==
    \/ Start(c) \/ WakeFromThrottle(c) \/ SendRequest(c)
    \/ \E answer \in Answers : ReceiveHeaders(c, answer)
    \/ \E hasBody \in BOOLEAN : ReceiveBody(c, hasBody)
    \/ FetchFails(c) \/ TimerFires(c) \/ WakeFromBackoff(c)
    \/ Abort(c)

Next == Serve \/ Tick \/ \E c \in Calls : Run(c)

Spec == Init /\ [][Next]_vars

(* The event loop goes on and its timers fire.  Nothing is assumed of the
   API, of the network, or of the caller. *)
GoesOn(c) ==
    WakeFromThrottle(c) \/ SendRequest(c) \/ TimerFires(c) \/ WakeFromBackoff(c)

FairSpec == Spec /\ WF_vars(Tick) /\ \A c \in Calls : WF_vars(GoesOn(c))

-----------------------------------------------------------------------------
(* Properties. *)

Labels == {"idle", "throttled", "gap", "in_flight", "reading", "backing_off",
           "done"}

Kinds == ErrorClasses \cup {"pending", "returned", "Timeout", "Network",
                            "Aborted", "TypeError"}

(* Every variable holds a value the code can give it. *)
TypeOK ==
    /\ now \in Nat /\ nextRequestAt \in Nat
    /\ pc \in [Calls -> Labels]
    /\ attempts \in [Calls -> Nat] /\ timer \in [Calls -> Nat]
    /\ aborted \in [Calls -> BOOLEAN] /\ hears \in [Calls -> BOOLEAN]
    /\ response \in [Calls -> Answers \cup {NoResponse}]
    /\ outcome \in [Calls -> [kind : Kinds, attempts : Nat]]
    /\ sent \subseteq Calls \X Nat /\ served \subseteq sent

(* "Aborts the request and any planned retries", as far as it holds: once the
   signal has fired no attempt is begun, whether the signal was heard or not.
   At most the attempt under way still goes out (throwIfAborted in send). *)
AbortStopsRetries ==
    [][\A c \in Calls : aborted[c] => attempts'[c] = attempts[c]]_vars

(* The number of attempts a result or an error carries is the number of
   requests the call made.  An abort may report fewer, as one that finds the
   call asleep reports 0, and never more (throwIfAborted, defaultSleep). *)
AttemptsReported ==
    \A c \in Calls :
        LET made == Cardinality({r \in sent : r[1] = c})
        IN  CASE outcome[c].kind = "pending" -> TRUE
              [] outcome[c].kind = "Aborted" -> outcome[c].attempts <= made
              [] OTHER -> outcome[c].attempts = made

(* "A valid Retry-After always takes precedence": no later request of the call
   goes out before the instant the server asked for, the body of the answer
   read or not; the wait is rounded to the nearest millisecond, and must be
   one a timer can hold (readRetryAfter, computeRetryDelay, defaultSleep). *)
RetryAfterHonored ==
    [][\A c \in Calls : <<c, attempts[c]>> \in sent' \ sent /\ asked[c].fits =>
           2 * now + Grain >= 2 * asked[c].until]_vars

(* Every call that has begun settles, although the API may accept a request
   and say nothing, or stop half way through a body. *)
EveryCallSettles == \A c \in Calls : (attempts[c] > 0) ~> (pc[c] = "done")

Promise(c) ==
    CASE outcome[c].kind = "pending" -> "pending"
      [] outcome[c].kind = "returned" -> "delivered"
      [] OTHER -> "failed"

Budget == [c \in Calls |-> IF Plan(c).max_retries = Undefined THEN MaxAttempts
                           ELSE Larger(0, Plan(c).max_retries) + 1]

Billable == INSTANCE BillableCall WITH result <- [c \in Calls |-> Promise(c)]

(* send keeps the promise of BillableCall, aborts included: within the budget
   of requests, and nothing on the wire once the promise has settled. *)
ImplementsBillableCall == Billable!Spec

(* How far the schedule may run ahead: no further than the calls that hold a
   place in it, or gave theirs up, account for.  An abort leaves its place
   empty for ever, and retries keep asking for new ones (#throttle). *)
ScheduleStaysNear ==
    LET holders == {c \in Calls : pc[c] \in {"throttled", "done"}}
    IN  nextRequestAt <= now + Grain + (Cardinality(holders) + 1) * Interval

Ceiling == INSTANCE RateCeiling WITH
              Slack <- Grain - 1, clock <- now, released <- Cardinality(sent)

(* The throttle needs no lock on one event loop: the n-th request of the
   client goes out no earlier than n - 1 intervals after its creation, less
   the part of a millisecond its timer drops. *)
ImplementsRateCeiling == Ceiling!Spec

(* What a caller may count on from outside: the cost, the pace, and the wait
   the server asked for (Transport.send). *)
KeepsItsPromises == ImplementsBillableCall /\ ImplementsRateCeiling /\ RetryAfterHonored

-----------------------------------------------------------------------------
(* What the documentation says and the code does not do. *)

(* "Aborts the request and any planned retries" (http.ts:30): a call whose
   signal has fired puts nothing more on the wire. *)
AbortIsFinal ==
    [][\A c \in Calls : aborted[c] => <<c, attempts[c]>> \notin sent' \ sent]_vars

(* "Every error thrown by this SDK is a PactmanError" (errors.ts:4). *)
ThrowsPactmanErrors == \A c \in Calls : outcome[c].kind # "TypeError"

(* "retries stay finite" (nodejs/README.md:986): no call makes more attempts
   than the largest number of retries anybody asked for allows. *)
RetriesStayFinite ==
    LET limits == {Plan(c).max_retries : c \in Calls} \cup {ClientRetry.max_retries}
    IN  \A c \in Calls : \E n \in limits : attempts[c] <= n + 1
=============================================================================
