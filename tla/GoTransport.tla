---------------------------- MODULE GoTransport ----------------------------
(***************************************************************************)
(* The Go transport: one Client shared by goroutines, each inside          *)
(* transport.send for one call under a context.Context of its own.         *)
(* (go/pactman/transport.go, lines 77-232 and 394-408)                     *)
(*                                                                         *)
(* A context may end at any instant, beside a timer that runs out, an      *)
(* answer that arrives or a network that fails; when several are ready, a  *)
(* select takes any of them.  Whether a call looks at its context, and in  *)
(* which order it asks what went wrong, decides who is blamed and how many *)
(* requests the caller is told of.                                         *)
(*                                                                         *)
(* The mutex of throttle covers the read of the clock and both uses of the *)
(* schedule, so a claim is one step.  A monotonic clock ticks while some   *)
(* timer runs.                                                             *)
(***************************************************************************)
EXTENDS FiniteSets, GoRetryDelay

CONSTANTS
    Calls,          \* the calls in progress, one goroutine each
    Retry,          \* Retry[c]: settings.retry of call c
    Interval,       \* time.Second / maxRequestsPerSecond; 0 for no limit
    Timeout,        \* settings.timeout
    Answers         \* what the API may answer: [status, retry_after]

ASSUME GoTransportAssumption ==
    /\ Interval \in Nat /\ Timeout \in Nat \ {0}
    /\ \A c \in Calls :
          /\ Retry[c].max_retries \in Nat /\ Retry[c].max_delay \in Nat
          /\ Retry[c].respect_retry_after \in BOOLEAN
          /\ Retry[c].initial_delay \in Nat /\ Retry[c].backoff_factor \in Nat \ {0}
    /\ Answers \subseteq [status : Nat, retry_after : Headers]

VARIABLES
    now,            \* hooks.now
    pc,             \* where each goroutine is
    attempts,       \* the local `attempt` of send
    timer,          \* the end of the sleep, or of the attempt's timeout
    ended,          \* ended[c]: ctx.Err() is not nil
    outcome,        \* what send returned
    nextRequestAt,  \* nextRequestAt, under mu
    sent,           \* requests put on the wire: <<call, attempt>>
    served,         \* those the API has carried out
    notBefore       \* (history) the instant the server asked c to wait for

wireVars == <<sent, served>>
vars == <<now, pc, attempts, timer, ended, outcome, nextRequestAt, wireVars,
          notBefore>>

Pending == [kind |-> "pending", attempts |-> 0]
Ended(kind, n) == [kind |-> kind, attempts |-> n]

Zero == [c \in Calls |-> 0]

Init ==
    /\ now = 0 /\ nextRequestAt = 0
    /\ pc = [c \in Calls |-> "idle"]
    /\ attempts = Zero /\ timer = Zero /\ notBefore = Zero
    /\ ended = [c \in Calls |-> FALSE]
    /\ outcome = [c \in Calls |-> Pending]
    /\ sent = {} /\ served = {}

Goto(c, label, due) ==
    /\ pc' = [pc EXCEPT ![c] = label]
    /\ timer' = [timer EXCEPT ![c] = due]

(* Mutant: what is reported is the number of retries. *)
ReturnCountingRetries(c, kind, n) ==
    /\ Goto(c, "done", 0)
    /\ outcome' = [outcome EXCEPT ![c] = Ended(kind, n - 1)]

Return(c, kind, n) ==
    /\ Goto(c, "done", 0)
    /\ outcome' = [outcome EXCEPT ![c] = Ended(kind, n)]

-----------------------------------------------------------------------------
(* The head of the loop: ctx.Err(), then throttle up to its sleep.         *)

(* Mutant: the schedule is not moved by a request that need not wait. *)
ThrottleMovingLate(c) ==
    IF nextRequestAt > now
    THEN nextRequestAt' = nextRequestAt + Interval
            /\ Goto(c, "throttled", nextRequestAt)
    ELSE nextRequestAt' = nextRequestAt /\ Goto(c, "ready", 0)

Throttle(c) ==
    IF Interval = 0
    THEN UNCHANGED nextRequestAt /\ Goto(c, "ready", 0)
    ELSE /\ nextRequestAt' = Larger(now, nextRequestAt) + Interval
         /\ IF nextRequestAt > now THEN Goto(c, "throttled", nextRequestAt)
            ELSE Goto(c, "ready", 0)

BeginAttempt(c) ==
    /\ attempts' = [attempts EXCEPT ![c] = @ + 1]
    /\ \/ ended[c] /\ Return(c, "Aborted", attempts[c]) /\ UNCHANGED nextRequestAt
       \/ ~ended[c] /\ Throttle(c) /\ UNCHANGED outcome
    /\ UNCHANGED <<now, ended, wireVars, notBefore>>

Start(c) == pc[c] = "idle" /\ BeginAttempt(c)

(* sleepContext returns nil, even if the context ended at the same time. *)
WakeFromThrottle(c) ==
    /\ pc[c] = "throttled" /\ now >= timer[c]
    /\ Goto(c, "ready", 0)
    /\ UNCHANGED <<now, attempts, ended, outcome, nextRequestAt, wireVars,
                   notBefore>>

-----------------------------------------------------------------------------
(* attempt: the request is made under a context derived from the caller's. *)

(* Mutant: the attempt's context is derived from context.Background(). *)
SendRequestDetached(c) ==
    /\ pc[c] = "ready"
    /\ Goto(c, "in_flight", now + Timeout)
    /\ sent' = sent \cup {<<c, attempts[c]>>}
    /\ notBefore' = [notBefore EXCEPT ![c] = 0]
    /\ UNCHANGED <<now, attempts, ended, outcome, nextRequestAt, served>>

(* net/http refuses a request whose context has ended; the attempt counts
   all the same. *)
SendRequest(c) ==
    /\ pc[c] = "ready"
    /\ IF ended[c]
       THEN Return(c, "Aborted", attempts[c]) /\ UNCHANGED <<sent, notBefore>>
       ELSE /\ Goto(c, "in_flight", now + Timeout)
            /\ sent' = sent \cup {<<c, attempts[c]>>}
            /\ notBefore' = [notBefore EXCEPT ![c] = 0]
            /\ UNCHANGED outcome
    /\ UNCHANGED <<now, attempts, ended, nextRequestAt, served>>

(* Mutant: the attempt's context asked first, for any error at all. *)
AttemptFailsByItsContext(c) ==
    /\ pc[c] = "in_flight"
    /\ IF ended[c] \/ now >= timer[c] THEN Return(c, "Aborted", attempts[c])
       ELSE Goto(c, "failed", timer[c]) /\ UNCHANGED outcome
    /\ UNCHANGED <<now, attempts, ended, nextRequestAt, wireVars, notBefore>>

(* Mutant: context.WithCancel where context.WithTimeout is meant. *)
AttemptFailsUntimed(c) ==
    /\ pc[c] = "in_flight" /\ ended[c]
    /\ Return(c, "Aborted", attempts[c])
    /\ UNCHANGED <<now, attempts, ended, nextRequestAt, wireVars, notBefore>>

(* Do or ReadAll fails: because the context ended, because the attempt's time
   is up, or because the network broke.  The caller's context is asked first. *)
AttemptFails(c) ==
    /\ pc[c] = "in_flight"
    /\ IF ended[c] THEN Return(c, "Aborted", attempts[c])
       ELSE Goto(c, "failed", timer[c]) /\ UNCHANGED outcome
    /\ UNCHANGED <<now, attempts, ended, nextRequestAt, wireVars, notBefore>>

Exhausted(c) == attempts[c] > Retry[c].max_retries

(* waitBeforeRetry, up to the select of sleepContext. *)
WaitBeforeRetry(c, retryAfter, asked) ==
    /\ \E draw \in 0 .. Parts - 1 :
          LET delay == ComputeRetryDelay(attempts[c], Retry[c], retryAfter, draw)
          IN  Goto(c, "backing_off", now + Slept(delay))
    /\ notBefore' = [notBefore EXCEPT ![c] = asked]
    /\ UNCHANGED outcome

(* The attempt's context reports a deadline, its own or (since the question
   was put to the caller's) the caller's; if neither, the network is to
   blame.  Then send asks the caller's context again. *)
ClassifyFailure(c) ==
    /\ pc[c] = "failed"
    /\ \/ /\ Exhausted(c) \/ ended[c]
          /\ \E kind \in {"Timeout", "Network"} :
                /\ kind = "Timeout" => now >= timer[c] \/ ended[c]
                /\ Return(c, kind, attempts[c])
          /\ UNCHANGED notBefore
       \/ ~Exhausted(c) /\ ~ended[c] /\ WaitBeforeRetry(c, None, now)
    /\ UNCHANGED <<now, attempts, ended, nextRequestAt, wireVars>>

(* (history) The instant a header names, to a client that listens to it. *)
Asked(c, header) ==
    IF ~Retry[c].respect_retry_after THEN now
    ELSE CASE header.form = "seconds" /\ header.value >= 0 -> now + header.value
           [] header.form = "date" -> header.value
           [] OTHER -> now

(* A date as its distance from now, as ReadRetryAfter takes it. *)
FromNow(header) ==
    IF header.form = "date" THEN HttpDate(header.value - now) ELSE header

(* The answer is in, body and all: even of a call whose context has ended. *)
Receive(c, answer) ==
    /\ pc[c] = "in_flight" /\ <<c, attempts[c]>> \in served
    /\ \/ /\ answer.status \in 200 .. 299
          /\ Return(c, "returned", attempts[c]) /\ UNCHANGED notBefore
       \/ /\ answer.status \notin 200 .. 299
          /\ Exhausted(c) \/ ~Retries(answer.status, Retry[c])
          /\ Return(c, "Api", attempts[c]) /\ UNCHANGED notBefore
       \/ /\ answer.status \notin 200 .. 299
          /\ ~Exhausted(c) /\ Retries(answer.status, Retry[c])
          /\ WaitBeforeRetry(c, ReadRetryAfter(FromNow(answer.retry_after)),
                             Asked(c, answer.retry_after))
    /\ UNCHANGED <<now, attempts, ended, nextRequestAt, wireVars>>

-----------------------------------------------------------------------------
(* The two sleeps, ended by their timer or by the context.                 *)

WakeFromBackoff(c) ==
    pc[c] = "backing_off" /\ now >= timer[c] /\ BeginAttempt(c)

(* Mutant: a plain time.Sleep before a retry. *)
SleepInterruptedInThrottle(c) ==
    /\ ended[c] /\ pc[c] = "throttled"
    /\ Return(c, "Aborted", attempts[c] - 1)
    /\ UNCHANGED <<now, attempts, ended, nextRequestAt, wireVars, notBefore>>

(* Mutant: both sleeps are taken to come before their attempt. *)
SleepInterruptedUncounted(c) ==
    /\ ended[c] /\ pc[c] \in {"throttled", "backing_off"}
    /\ Return(c, "Aborted", attempts[c] - 1)
    /\ UNCHANGED <<now, attempts, ended, nextRequestAt, wireVars, notBefore>>

(* aborted(attempt-1) before an attempt, aborted(attempt) after one. *)
SleepInterrupted(c) ==
    /\ ended[c]
    /\ \/ pc[c] = "throttled" /\ Return(c, "Aborted", attempts[c] - 1)
       \/ pc[c] = "backing_off" /\ Return(c, "Aborted", attempts[c])
    /\ UNCHANGED <<now, attempts, ended, nextRequestAt, wireVars, notBefore>>

-----------------------------------------------------------------------------
(* The environment.                                                        *)

(* The caller cancels, or a deadline of the caller's passes. *)
EndContext(c) ==
    /\ ~ended[c] /\ pc[c] # "done"
    /\ ended' = [ended EXCEPT ![c] = TRUE]
    /\ UNCHANGED <<now, pc, attempts, timer, outcome, nextRequestAt, wireVars,
                   notBefore>>

(* The API carries out a request, perhaps long after it was sent. *)
Serve ==
    /\ \E request \in sent \ served : served' = served \cup {request}
    /\ UNCHANGED <<now, pc, attempts, timer, ended, outcome, nextRequestAt, sent,
                   notBefore>>

Tick ==
    /\ \E c \in Calls : now < timer[c]
    /\ now' = now + 1
    /\ UNCHANGED <<pc, attempts, timer, ended, outcome, nextRequestAt, wireVars,
                   notBefore>>

(* What a goroutine does of its own accord, once it has something to do. *)
GoesOn(c) ==
    \/ WakeFromThrottle(c) \/ SendRequest(c) \/ ClassifyFailure(c)
    \/ (ended[c] \/ now >= timer[c]) /\ AttemptFails(c)
    \/ WakeFromBackoff(c) \/ SleepInterrupted(c)

Next ==
    \/ Serve \/ Tick
    \/ \E c \in Calls :
          \/ Start(c) \/ GoesOn(c) \/ AttemptFails(c) \/ EndContext(c)
          \/ \E answer \in Answers : Receive(c, answer)

Spec == Init /\ [][Next]_vars

(* Goroutines are scheduled, the clock runs and a timeout that is due ends the
   request.  Nothing is assumed of the API, the network or the caller. *)
FairSpec == Spec /\ WF_vars(Tick) /\ \A c \in Calls : WF_vars(GoesOn(c))

-----------------------------------------------------------------------------
(* Properties. *)

Labels == {"idle", "throttled", "ready", "in_flight", "failed", "backing_off",
           "done"}

Kinds == {"pending", "returned", "Timeout", "Network", "Aborted", "Api"}

(* Every variable holds a value the code can give it. *)
TypeOK ==
    /\ now \in Nat /\ nextRequestAt \in Nat
    /\ pc \in [Calls -> Labels] /\ ended \in [Calls -> BOOLEAN]
    /\ attempts \in [Calls -> Nat] /\ timer \in [Calls -> Nat]
    /\ outcome \in [Calls -> [kind : Kinds, attempts : Nat]]
    /\ sent \subseteq Calls \X Nat /\ served \subseteq sent

(* "The context cancels the in-flight request and any planned retries": from
   the moment a context has ended its call puts nothing on the wire. *)
ContextIsFinal ==
    [][\A c \in Calls : ended[c] => <<c, attempts[c]>> \notin sent' \ sent]_vars

(* A call whose context has ended never waits for the clock, for the API or
   for another goroutine: it has a step of its own to take at once. *)
EndedCallIsReady ==
    \A c \in Calls :
        ended[c] /\ pc[c] \notin {"idle", "done"} => ENABLED GoesOn(c)

(* The attempts an error or a result reports are the requests the call made.
   An aborted call may count the one net/http refused to make, but it never
   reports fewer than may have been billed. *)
AttemptsReported ==
    \A c \in Calls :
        LET made == Cardinality({r \in sent : r[1] = c})
        IN  CASE outcome[c].kind = "pending" -> TRUE
              [] outcome[c].kind = "Aborted" -> outcome[c].attempts \in made .. made + 1
              [] OTHER -> outcome[c].attempts = made

(* A timeout or a network failure is returned only when no retry is left or
   the caller gave up; an abort only when the caller did. *)
GivesUpForAReason ==
    \A c \in Calls :
        /\ outcome[c].kind = "Aborted" => ended[c]
        /\ outcome[c].kind \in {"Timeout", "Network"} =>
              ended[c] \/ outcome[c].attempts = Retry[c].max_retries + 1

(* "A usable Retry-After wins outright": no later request of the call goes out
   before the instant the server asked for, rounded down to the millisecond. *)
RetryAfterHonored ==
    [][\A c \in Calls : <<c, attempts[c]>> \in sent' \ sent =>
           now + Millisecond > notBefore[c]]_vars

(* Every call that has begun ends, whatever the API does and whether or not
   its context ever ends. *)
EveryCallEnds == \A c \in Calls : (attempts[c] > 0) ~> (pc[c] = "done")

Promise(c) ==
    CASE outcome[c].kind = "pending" -> "pending"
      [] outcome[c].kind = "returned" -> "delivered"
      [] OTHER -> "failed"

Budget == [c \in Calls |-> Retry[c].max_retries + 1]

Billable == INSTANCE BillableCall WITH result <- [c \in Calls |-> Promise(c)]

(* send keeps the promise of BillableCall under every ending of a context. *)
ImplementsBillableCall == Billable!Spec

Ceiling == INSTANCE RateCeiling WITH
              Slack <- 0, clock <- now, released <- Cardinality(sent)

(* The throttle keeps the promise of RateCeiling over every goroutine, though
   a call that is cancelled while it waits keeps its slot to itself. *)
ImplementsRateCeiling == Ceiling!Spec

(* What a caller may count on from outside: the cost, the pace, and the wait
   the server asked for (transport.send). *)
KeepsItsPromises == ImplementsBillableCall /\ ImplementsRateCeiling /\ RetryAfterHonored
=============================================================================
