# Verification of the Nonprofit Check Plus SDKs

The repository holds six SDKs (Python, Node.js, Go, .NET, Java and Ruby) for
one HTTP API that looks up nonprofits by EIN.  Every
request may be billed, so what the SDKs have to get right is small and
unforgiving: how many requests a call may cost, when a request is repeated, how
fast requests go out, what an abort stops, and whether a caller can trust what
it is told afterwards.  Around the Python SDK the repository also keeps the programs
that guard it: a stand-in for the API, a recorder and a smoke run that hold a
live deployment against a contract, and five workflows that act on what the SDK
tells them.  This directory models all of these in TLA+, checks them with TLC on
small instances, and proves the central theorems with TLAPS for every instance.

Paths below are relative to the repository; `python/…/_http.py` stands for
`python/src/pactman_nonprofit_check_plus/_http.py`.

## 1. The system

### Components

| component | state it keeps | operations that change it |
|---|---|---|
| retry policy (each language) | none; immutable options | `resolve_retry`, `is_retryable_status`, `read_retry_after`, `compute_retry_delay` |
| transport (each language) | `next_request_at` of the client, shared by all calls; per call: attempt number, timer, last failure | `send`: plan, throttle, attempt, classify, back off, return or raise |
| nonprofits resource (each language) | per call: the normalized EINs, the body | `check`, `check_bulk`: validate, dedupe, send, shape the result |
| configuration and environments | none | one-value checks at construction |
| errors | none; one class per kind of failure | `error_from_status` |
| client lifecycle (Python, Java) | the connection pool, the executor | open, close |
| async layers (Python tasks, Java futures) | cancellation of a task | cancel, interrupt |
| mock API server (each language) | checks used, budget of transient failures, a thread per connection | `GET` one EIN, `POST` many; consume, refund, fail |
| response contract (each language) | none | signatures; `schema_diff`, `baseline_diff`, `contract_diff`, `coverage_diff` |
| recorder (`record_baseline.py`) | `response_baseline.json` | record each half, keep the other, write |
| smoke run (`smoke_live.py`) | the `Runner`: results, cost, counts, captured responses | a plan of checks, some billed, in order |
| workflow examples (`ex_26` to `ex_30`) | CRM rows, portfolio snapshots, decisions | onboard, screen, synchronize, recheck, audit |
| single-topic examples, tests | none | one call and its printout |

### How they interact

A resource validates its input and calls `send` once.  `send` resolves the
retry policy of the call over the client's, then loops: claim a slot of the
shared schedule, sleep until it comes, make one HTTP request under a timeout,
and either return, raise, or sleep and go round.  In Node.js and Go the timeout
is one timer over the attempt; in Python httpx starts it anew for every operation
of the exchange.  The only state that calls
share is the schedule (`_next_request_at`, `#nextRequestAt`, `nextRequestAt`),
which Python guards with a lock, Go with a mutex, and Node.js and asyncio with
the absence of an `await`.  The caller reaches into a running call through a
cancelled task, an `AbortSignal`, a `context.Context`, or the list of EINs it
still holds.  The API is across a network: a request may be lost, its answer may
be lost, and it may be served (and billed) after its sender gave up on it.

The mock server runs a thread per connection; the threads share a count and a
budget, and a thread goes on after its client has gone.  The recorder and the
smoke run meet in one file: the recorder writes it, perhaps half of it, perhaps
not to the end, and the smoke run compares a deployment with it that may have
moved since.  The workflows read a record through `examples/lib/screening.py`
and keep what they concluded from one run to the next.

### What is hard

- threads, tasks and goroutines that meet at the schedule, and sleepers that
  wake late and in any order;
- an abort that arrives between the look at the signal and the next await, in a
  sleep, in flight, or while a body is read;
- a timeout that is due while the answer is already there;
- counting: attempts against `max_retries`, attempts reported against requests
  made, EINs against the limit before or after dedupe;
- a `Retry-After` longer than `max_delay`, in the past, or longer than the
  language's durations or timers can hold;
- an API that accepts a request and then says nothing, or stops half way;
- a list of EINs its owner changes while the call is under way;
- a count that is taken in full and given back in a second step, while other
  threads take, give back and report it;
- a check of a response that is silent about what could not be seen: a null
  parent, an empty array, a half that was never recorded;
- what a sequence of billed checks costs when one of them fails, loses an answer
  or is interrupted;
- a record that lacks a field, has a null or says something nobody foresaw, and
  is taken for clear; a run that fails half way and the next one that compares
  itself with it.

`PROJECT.json` lists these hazards at the lines where they bite, with the
properties that cover them.

### What makes each component correct

- **Retry policy.** A usable `Retry-After` is the delay; otherwise capped
  exponential backoff; an override changes what it names and nothing else;
  400, 401, 403 and 404 are never repeated.
- **Transport.** At most `max_retries + 1` requests; nothing sent after the
  caller was told; a result only for a request that was served; the n-th request
  of a client no earlier than n - 1 intervals after its creation; no transient
  failure given up on early; the attempts reported are the requests made; every
  call ends (in Python, every call whose answer does not come in for ever).
- **Cancellation.** A cancelled call sends nothing more, is not taken for a
  failure of the network, and waits for nothing.
- **Bulk check.** All or nothing; what is sent is what was passed, in order, in
  every attempt; every EIN comes back as an organization or as not found.
- **Mock server.** The count is what was served plus what is about to be given
  back, and no answer reports less than what has been billed.
- **Contract, recorder, smoke run.** A sound deployment that did not move fails no
  check (unless its first deductibility row is null: section 4); a run that exits 0
  has seen what it vouches for; the bill stays within
  what the run declared, and the summary never overstates it; a recording is
  only ever replaced by another.
- **Workflows.** Nothing unknown passes; nothing known is erased; no change
  between two readings is lost to the runs between them.

## 2. The modules

| module | models | proved about |
|---|---|---|
| `BillableCall` | the abstract promise about the cost of a call | as a refinement |
| `RateCeiling` | the abstract promise about the pace of a client | as a refinement; `CountingLemmas` |
| `Powers`, `Draws` | the power by which every SDK lets its delays grow, and the draw by which it spreads them | `CountingLemmas` |
| `RetryPolicy` | Python's pure operators: policy, header, delay, error class | `RetryPolicyLemmas` |
| `RetrySchedule` | one Python call that resolves its policy and fails again and again; extends `RetryPolicy` | `PythonTransportProofs` |
| `SyncTransport` | Python `Transport.send` on threads | `PythonTransportProofs` |
| `AsyncTransport` | Python `AsyncTransport.send` on one event loop, with cancellation; extends `SyncTransport` | `PythonTransportProofs` |
| `NodeTransport` | Node.js `Transport.send` with `AbortSignal` and streaming bodies; extends `RetryPolicy` | `NodeTransportProofs` |
| `GoDuration` | the wrapping arithmetic of a `time.Duration` | `GoTransportProofs` |
| `GoRetryDelay` | Go's delay before a retry, in that arithmetic | `GoTransportProofs` |
| `GoRetrySchedule` | one Go call that fails again and again; `Go` is its instance of `GoRetryDelay` | `GoTransportProofs` |
| `GoTransport` | Go `transport.send` under a `context.Context`; extends `GoRetryDelay` | `GoTransportProofs` |
| `BulkCheck` | Python `check_bulk` from the caller's list to the result | `BulkProofs` |
| `MockServer` | `scripts/mock_server.py`: its threads, count and budget | `BulkProofs` |
| `BulkAgainstServer` | the composition of the two, with other clients beside | `BulkProofs` |
| `ResponseContract` | `scripts/contract.py`: signatures and their differences | `LiveRunsProofs` |
| `ClientSurface` | Python configuration, errors, shaping of a result, source projections | |
| `LiveChecks` | the checks of `smoke_live.py` that send nothing; extends `ClientSurface` | `LiveRunsProofs` |
| `LiveRuns` | `record_baseline.py`, then `smoke_live.py`, against a deployment; extends `LiveChecks` | `LiveRunsProofs` |
| `Screening` | `examples/lib`: findings, concerns, differences, names, addresses; extends `ClientSurface` | `VettingProofs` |
| `Vetting` | the workflows `ex_26` to `ex_30`; extends `Screening` | `VettingProofs` |

`MC...` modules give the constants their small values.  `MCRetryDelays` runs either
`RetrySchedule` or `GoRetrySchedule`, the small machines that feed the pure operators
one failure after another; it extends both, so their definitions have distinct names.  The four transports are shown to implement
`BillableCall` and `RateCeiling` by refinement: `sent` and `served` map to
themselves, `result` to what the call's `outcome` amounts to, `clock` to `now` and
`released` to the number of requests sent.  `SyncTransport` checks the two apart
(`ImplementsBillableCall`, `ImplementsRateCeiling`), the others as one
`KeepsItsPromises`, to which Node.js and Go add `RetryAfterHonored`.

### State and actions against the code

**SyncTransport** (`_http.py` 95-293).  `pc[c]` is the place of a thread in
`send`: `Start` and `Refuse` are `_plan` (a refused `retry` argument raises
before any attempt); `ReadSchedule` and `ClaimSlot` are the two halves of
`_next_throttle_delay`, kept apart because another thread may run between them
and only `lock` keeps it out; `SendRequest` is the end of the throttle's sleep
and the call into httpx; `Receive` and `AttemptFails` are the answer or the
exception with all that `send` does about it up to the next sleep, return or
raise; `WakeFromBackoff` is the head of the loop.  `Progress` is an operation of the
exchange that completes (a connection, a write, a part of the answer read): httpx
times each by itself, so the timer starts anew.  `Longest` bounds for how long after
it was sent (`since`) an attempt may go on making progress.  `Serve` and `Tick` are
the API and the clock.  `last`, `notBefore`, `since`, `claims`, `slot` and `fired` are
history: the code has no such variables and no action reads them in a guard, but for
`Progress`, which reads `since` for its bound.

**AsyncTransport** (296-381).  The steps are those of `SyncTransport`, confined
by `LoopFree` to what one event loop can do: between the head of the loop and the
claim nothing is awaited.  `Cancel` marks a task, `Throw` delivers the
`CancelledError` at its await.

**NodeTransport** (`nodejs/src/http.ts`, `client.ts`).  One step is what happens
between two awaits.  `hears[c]` records whether a listener was added while the
signal could still fire: `gap` is the await of `#throttle` with nothing to wait
for, after the look at the signal and before the listener.  `ReceiveHeaders` and
`ReceiveBody` are two awaits, because `fetch` resolves with the headers.  Every
wait goes through `Timer`, which is what `setTimeout` makes of a number: less than a
millisecond, or more than `TimeoutMax` of them (2^31 - 1 in Node.js), is one
millisecond, and a fraction of one is dropped.  `asked` is history: the instant the
server asked to wait for, and whether a timer can hold the wait.

**GoTransport** (`go/pactman/transport.go` 77-232, 394-408).  A claim is one
step: the mutex covers clock and schedule.  A failed attempt is two
(`AttemptFails`, `ClassifyFailure`), because the caller's context is asked, then
the attempt's, then the caller's again, and may end in between.  When a timer and
a context are both ready, `select` takes either.

**GoDuration, GoRetryDelay** (233-287, 394-408).  Durations are integers of `Width`
bits; conversions wrap (`Wrap`).

**BulkCheck** (`client.py` 89-124 and 345-453, `ein.py`).  `Materialize`,
`Validate`, `Send`, `Retry` and `Answer` are the call; `CallerEdits` is the owner
of the list, at any point in between.

**MockServer** (`mock_server.py`).  A handler is "arrived" when its request was
read, "answered" when it was sent.  Each access to the shared state is a step:
`TakeTransientFailure` and then, without the lock, `Fail`; `Serve` is
`consume(1)`; `Count` is `consume(len(eins))` and `Refund` is `refund(len(not_found))`
with the answer.  `Refuse` is every answer that only looks at the count.

**BulkAgainstServer.**  `Attempt` is `Send` and `Arrive` in one step on a fresh
connection; `Deliver` hands the answer of the last attempt to `Answer`, in any of
the shapes the SDK accepts.  A client that retries leaves the thread of its first
attempt at work.  `AnotherAsks` is any other client.

**ResponseContract** (`contract.py`).  A response is a function from paths to
values; a signature forgets the values and keeps their tokens, as sets where the
code joins them with `|`.  The four differences and `compose_expected` are
operators of the same names.

**LiveChecks and LiveRuns** (`smoke_live.py`, `record_baseline.py`).  `recorder`
and `runner` are the two programs; `runner.step` is the place in `Plan`
(`build_plan`).  Each check that sends is an action, all that send nothing share
`RunFree`, which looks its verdict up in `FreeStatus`.  A call of the SDK is a
choice of attempts, answer and lost-but-billed requests (`Calls`): any number of
attempts up to the limit, of which the last is answered or none is, and any number
of the others billed, as `BillableCall` permits.  `SourceProjection` includes what the
check does with the projection (`DescribeRaises`): the one for Publication 78 reads
into the first deductibility row and raises when that is null.  `Moves` is the
deployment, `StopsWhileWriting` a crash, `Interrupt` a Ctrl-C.  `opening` is history.

**Screening and Vetting** (`examples/lib`, `ex_26` to `ex_30`).  One program is
chosen and run again and again.  `AskBatch` is one `check_bulk`; `Abort` is any
error nobody catches; `Onboard`, `ScreenGrant`, `Synchronize`, `Recheck` and
`Audit` are the turn of one EIN.  `Checked` is what `check` may give: a record, a
200 without one, or an error that is caught (the last two lead to the same entry).
`verified` is history.

### What the models leave out

Headers and their merging, user agents, URLs, the text of messages, logging and
redaction; JSON beyond the shapes the programs tell apart; the contents of the
fixtures; scores, amounts and everything printed; redirects and connection
reuse inside httpx, fetch and net/http.  The random draw of jitter is one of
`Parts` equal parts.  The lists the mock server is sent hold EINs: an entry that
cannot be hashed would make its handler raise between the count and the refund,
but no SDK sends one.  Time is discrete, and there is one monotonic clock; Node's
`Date.now` is a wall clock and may be set, which is listed as an open hazard.

## 3. The runs

| run | states | asks |
|---|---|---|
| `retry_delays` | 107 543 | `DelayFollowsPolicy`, `OverrideChangesWhatItNames` (Python, against definitions written independently), `UsableWaitSlept`, `BackoffNeverCollapses` (Go, for waits and caps that fit) |
| `sync_transport` | 67 424 | two threads that send, one of which retries, and one whose argument is refused; answers that trickle for a while: `GivesUpOnlyWhenSpent`, `AttemptsReported`, `ClaimsSpaced`, `NeverRepeatsFinalAnswer`, `RetryAfterHonored`, both refinements, `EveryCallEnds` |
| `async_transport` | 129 962 | two tasks, each cancelled anywhere: `CancellationIsFinal`, `CancelledCallEnds`, `KeepsItsPromises` |
| `node_transport` | 345 831 | two calls, each aborted anywhere, bodies that stall or break, a `Retry-After` no timer can hold: `AbortStopsRetries`, `AttemptsReported`, `KeepsItsPromises`, `EveryCallSettles` |
| `go_transport` | 319 268 | two goroutines, each context ended anywhere: `ContextIsFinal`, `EndedCallIsReady`, `AttemptsReported`, `GivesUpForAReason`, `KeepsItsPromises`, `EveryCallEnds` |
| `bulk_against_server` | 1.7 million | lists of up to three values, two attempts and another client: `AllOrNothing`, `SendsWhatWasPassed`, `EveryEinAccountedFor`, `BillsWhatItServes` |
| `live_runs` | 671 647 | nineteen deployments, one disturbance: `NoFalseAlarm`, `NothingSlipsThrough`, `BilledWithinBudget`, `DeltaNeverOverstates`, `RecordingSurvives` |
| `workflows` | 147 146 | five programs over three EINs: `NothingUnverifiedPasses`, `SyncNeverErases`, `AuditTellsEveryChange` |
| `node_abort_missed` | violated | `AbortIsFinal` (http.ts:30) |
| `node_type_error` | violated | `ThrowsPactmanErrors` (errors.ts:4) |
| `node_unbounded_retries` | violated | `RetriesStayFinite` (nodejs/README.md:986) |
| `go_long_wait` | violated | `LongWaitSlept` (transport.go:235) |

Each property of a passing run has a mutant in `PROJECT.json`: a definition of
the model changed the way a bug would change the code, under which the same run
finds the property violated.

### Bounds, and why they are enough

- *Two calls that send.*  Calls meet only in the schedule, and a claim reads and
  writes one number: a bad interleaving needs two.  The theorems below have no
  such bound.
- *`max_retries` 1 (2 for one Node.js call, none for the second thread or task).*
  Enough for a first, a repeated and a last attempt; a mutant that is off by one in either direction is found.
- *Interval 2, Timeout 1, backoff 1 or 2, `Retry-After` 2 or 3* (Interval 1 where
  there is cancellation): the server's wait exceeds `max_delay`, a slot
  lies beyond a timeout, and both orders of any two timers occur.
- *`Longest` 1, as long as the timeout*: an attempt can outlast its timeout, and one
  that makes no progress still runs into it.
- *Node.js: two units to the millisecond, Interval 3, Timeout 2, `TimeoutMax` 6*:
  an interval is one and a half milliseconds, so a timer cuts it and comes early; one
  `Retry-After` fits a timer of six milliseconds and one does not, and the schedule
  never runs further ahead than that (`Roomy`, section 5).
- *The clock* ticks only while some timer is running, which bounds it without a
  constraint: every delay is bounded and there are finitely many attempts.
- *Answers.*  A success, a status that is never retried, and one that is, with a
  header: the classes `send` tells apart.
- *Lists of up to three values with a limit of two* (the code's limit is a
  constant the argument does not depend on): duplicates in two spellings, an
  EIN without a record, a value that is none, one value too many.  `MaxEdits` 1:
  every edit is at any point, and nothing looks at the list twice.
- *Three connections*: an attempt whose client has gone, its retry, and one of
  another client; the count is a sum, and any two threads that meet in it show
  what three would.  The budget of transient failures begins anywhere, as in a
  server that has been used before.
- *Deployments* (`MCLiveRuns`), against the whole of `response_contract.json`: five
  sound ones, of which one gives the record production gave (`response_baseline.json`)
  and the others use every freedom the contract gives (nulls, empty arrays, an
  allowlist, no rate limit), and fourteen that depart from a sound one in one respect
  each, a null first row among them; `Later` are four they may turn into.
  `MCSettings` starts the recorder for each kind of target, for a dry run and without
  a key.  `MaxDisturbances` 1: one call with lost answers, move, crash or interrupt at any point
  of both programs.
- *Records* (`MCVetting`): one departure from a sound record at a time, of each
  kind the programs tell apart.  `MaxRuns` and `MaxMoves` (`Vetting.cfg`): a
  baseline, a run that fails or misses, and one to compare.  Three EINs in
  batches of two: a full batch, a partial one, and a batch of misses only.
- *Durations of 10 bits, 20 units to the millisecond*: the longest duration,
  511, is not a whole number of milliseconds and rounds up past itself, as
  2^63 - 1 nanoseconds does.

### Fairness

`FairSpec` of each transport assumes that the clock runs (`WF(Tick)`) and that a
thread, task or goroutine with a step of its own to take is scheduled
(`WF(GoesOn(c))`), where a timer that is due is such a step.  `setTimeout` and
`context.WithTimeout` bound the whole attempt, body included, so for Node.js and Go
nothing is assumed of the API or the network: answers and connection failures carry
no fairness.  httpx promises less.  Its timeout bounds one operation, and an API that
sends a byte now and then keeps an attempt alive for as long as it likes.  The model
lets operations complete and start the timer anew, and `EveryCallEnds` of Python is
about an API whose answer is in, or stops coming, within `Longest` of the request.
Nothing is assumed of the caller either: starting a call and aborting it carry no
fairness.  `PromptSpec` of the asynchronous transport assumes less: the event loop delivers a pending cancellation, and no
clock needs to tick.  Go's promptness is stated as an invariant,
`EndedCallIsReady`: an ended call always has a step of its own enabled.

`CHECK_DEADLOCK FALSE` is set throughout: a state in which every call is done
and every request served is the intended end.

## 4. What disagrees with the documentation

1. **An abort can be missed (Node.js).**  `send` looks at the signal, then
   awaits `#throttle`, which yields even without a limit; `#attempt` then adds
   its listener without looking again, and a listener added after the event is
   never called.  The request is sent.  What does hold, and is checked, is
   `AbortStopsRetries`: no further attempt is begun.  For the same reason
   `defaultSleep`, entered after the signal fired, sleeps to its end.
2. **A broken body is a `TypeError` (Node.js).**  `parseBody` turns a failure to
   read into a null body, and `check` reads `.data` of it.  A timeout in the
   middle of a body is neither reported as one nor retried.
3. **Retries without end (Node.js).**  A per-request `{ maxRetries: undefined }`
   replaces the number and makes `attempt > undefined` false for ever.
4. **A very long `Retry-After` is no wait at all (Go).**  It is saturated to
   `math.MaxInt64`, rounded up to a millisecond that does not fit, wraps to a
   negative duration, and `sleepContext` returns at once.

Other disagreements are in the models without a run of their own; the
properties state what is left.

- The timeout is not of the attempt in Python.  `python/README.md:358` calls it the
  "timeout per attempt", but `_attempt` hands httpx one number, which httpx applies to
  each connect, write and read and to the wait for the pool: an answer that trickles
  is waited for without bound.  `EveryCallEnds` assumes that it stops.
- A long `Retry-After` is a wait of one millisecond in Node.js.  It is not capped
  (`computeRetryDelay`), and `setTimeout` keeps 32 bits: a server that asks for more
  than 24.8 days is asked again at once, although a valid `Retry-After` "wins outright"
  (`http.ts:258`).  `RetryAfterHonored` is about the waits a timer can hold.
- A permitted null turns the smoke run red.  `contract.py:453` allows null rows in
  `organization_types`; `describe_pub78` (`smoke_live.py:1688`) calls `.get` on the first
  of them.  `NoFalseAlarm` is about deployments whose first row is a row.
- In Go a caller's deadline that passes between the two questions of `attempt` is
  reported as the SDK's own `*TimeoutError` (the choice of `kind` in
  `ClassifyFailure`).  `GivesUpForAReason`: such an error then comes with an ended
  context.
- `smoke_live.py` prints "+delta actually billed", but takes the start of the
  delta after the first billed check; `DeltaNeverOverstates` is the half that
  holds.  The planned cost it prints first can be exceeded: a lost answer is
  billed and sent again (`BilledWithinBudget` allows for exactly that).
- Its `not_found` check counts all requests of the call, so a lost answer before
  the 404 is reported as "a 404 was retried".  `rejected_keys_are_not_retried`
  fails on the number of attempts before it can reach its own branch for a
  retryable 500.  `timeout_and_cancellation` reports a call that was quick enough as
  a network error.  `types.py` and `response_contract.json` permit `errors` to be
  text, but `coverage_diff` then misses `errors[]` and fails.
- The recorder, when it keeps one half of an old baseline, stamps it with the new
  target and date; when it is stopped while it writes, the broken file makes both
  programs fail, the recorder only after it has been billed.
- `mock_server.py` says its count "reflects records served"; a repeated EIN that
  has a record is served once and counted twice (`Due`).
- `ex_30` writes no entry at all for a run in which one batch raises, and a batch
  in which no EIN has a record does raise (`PactmanNotFoundError`), although "an EIN
  that produced no record is recorded as unverified".  `ex_28` lets an empty string
  overwrite a value.  `ex_26` approves when address components were not returned;
  `ex_27` advances an organization whose foundation type is unknown.

## 5. The proofs

TLAPS proves these for any set of calls, threads, tasks or connections, any
policies, interval, timeout and answers, lists of any length, and any deployment,
contract and recording.

| module | theorem | states |
|---|---|---|
| `PythonTransportProofs` | `TypeCorrect` | `Spec => []TypeOK` |
| | `CeilingTheorem` | `Spec => ImplementsRateCeiling` |
| | `ClaimsSpacedTheorem` | `Spec => ClaimsSpaced` |
| | `BillableCallTheorem` | `Spec => ImplementsBillableCall` |
| | `AttemptsReportedTheorem` | `Spec => []AttemptsReported` |
| | `GivesUpTheorem` | `Spec => []GivesUpOnlyWhenSpent` |
| | `FinalAnswerTheorem` | `Spec => NeverRepeatsFinalAnswer` |
| | `RetryAfterTheorem` | `Spec => RetryAfterHonored` |
| | `AsyncPromisesTheorem` | `AsyncSpec => KeepsItsPromises` |
| | `CancellationTheorem` | `AsyncSpec => CancellationIsFinal` |
| | `DelayTheorem` | `FailuresSpec => []DelayFollowsPolicy` |
| | `OverrideTheorem` | `FailuresSpec => []OverrideChangesWhatItNames` |
| `NodeTransportProofs` | `NodeTypeTheorem` | `Spec => []TypeOK` |
| | `NodeAttemptsTheorem` | `Spec => []AttemptsReported` |
| | `NodeAbortTheorem` | `Spec => AbortStopsRetries` |
| | `NodeCeilingTheorem` | `Spec => ImplementsRateCeiling`, while the throttle holds |
| | `NodeScheduleTheorem` | `Spec => []ScheduleStaysNear`, for an interval that leaves room |
| | `NodePromisesTheorem` | `Spec => KeepsItsPromises`, for an interval that leaves room |
| `GoTransportProofs` | `GoTypeTheorem` | `Spec => []TypeOK` |
| | `GoAttemptsTheorem` | `Spec => []AttemptsReported` |
| | `GoReasonTheorem` | `Spec => []GivesUpForAReason` |
| | `GoContextTheorem` | `Spec => ContextIsFinal` |
| | `GoCeilingTheorem` | `Spec => ImplementsRateCeiling` |
| | `GoBillableTheorem` | `Spec => ImplementsBillableCall` |
| | `GoPromisesTheorem` | `Spec => KeepsItsPromises`, for waits a `Duration` can hold |
| | `GoWaitTheorem` | what `UsableWaitSlept` says of a sleep, for every policy, header and draw |
| | `GoBackoffTheorem` | a Go backoff is the capped exponential one, past what a `Duration` holds as well |
| | `GoWaitsTheorem` | `RefusalsSpec => []UsableWaitSlept` |
| | `GoNeverCollapsesTheorem` | `RefusalsSpec => []BackoffNeverCollapses` |
| `RetryPolicyLemmas` | `ServerWaitTheorem` | a valid Retry-After decides the delay |
| | `BackoffTheorem` | a Python backoff is the capped exponential one, or less with jitter |
| | `MappingTheorem` | which mappings are refused, and what the others change |
| | `PlainOverrideTheorem` | what `False`, no argument and a whole policy change |
| `BulkProofs` | `AllOrNothingTheorem` | `[]AllOrNothing` |
| | `SendsTheorem` | `[]SendsWhatWasPassed` |
| | `EveryEinTheorem` | `[]EveryEinAccountedFor` |
| | `BillingTheorem` | `BillsWhatItServes` |
| `VettingProofs` | `VerifiedTheorem` | `[]NothingUnverifiedPasses` |
| | `SyncTheorem` | `SyncNeverErases` |
| | `AuditTheorem` | `AuditTellsEveryChange` |
| `LiveRunsProofs` | `RecordingTheorem` | `[]RecordingSurvives` |
| | `BudgetTheorem` | `[]BilledWithinBudget` |
| | `DeltaTheorem` | `[]DeltaNeverOverstates` |
| | `GreenTheorem` | `[]NothingSlipsThrough` |
| | `NoFalseAlarmTheorem` | `[]NoFalseAlarm` |

### What is assumed of the constants

TLC evaluates each of these in every run of a module that depends on it.

- `RetryPolicyAssumption`, `GoRetryDelayAssumption`, `MaxIntAssumption`: the units
  of time are positive and the largest `Duration` is a natural number.
- `SyncTransportAssumption`, `NodeTransportAssumption`, `GoTransportAssumption`:
  intervals, timeouts and `Longest` are natural numbers, `TimeoutMax` is a positive one,
  answers are statuses with a header, and
  a policy is what its validation leaves: in Python the client's policy is valid and a
  `retry` argument has values of the declared types, from which it is proved that the
  policy in force is valid too (`ResolvedType`); in Node.js, which checks nothing, and
  Go the numbers a call uses are natural numbers.  Delays and factors are whole
  numbers, so a factor such as 1.5 is outside the theorems as it is outside the runs.
  An answer has a status other than 0, which is how the model writes "no answer".
- `RetryScheduleAssumption`, `GoRetryScheduleAssumption`: the same of the policies,
  arguments and headers of the two small machines.
- `BulkCheckAssumption`, `MockServerAssumption`, `BulkAgainstServerAssumption`: the
  limits are numbers, an entry that is no record is no EIN, there are finitely many
  connections, the special EINs of the server are no fixtures, and a request of
  another client has a list of EINs.
- `LiveRunsAssumption`: the deployments a deployment may turn into are among those
  considered, the recorder is started in ways its command line has, and counts are numbers.  `DigitsAssumption`: the tokens of runs of digits
  are none of the other tokens.  `ContractIsAsPublished`: what the checks of
  the smoke run take for granted of `response_contract.json` (a response must carry
  the data and the elements of its lists and nothing else; names and codes are
  strings, the OFAC status is never a boolean, the conflict flag is one).  It is
  true of the file; `NoFalseAlarmTheorem` needs it, as a contract that permits what a
  check refuses makes that check a false alarm.
- `EinsAssumption`, `RowAssumption`, `ApprovedAssumption`, `DaysOldAssumption`: a
  workflow is given each EIN once (the tables the programs carry name each once),
  rows and approvals have the fields the programs write, and the age of a
  date is a number.

Some theorems have a hypothesis of their own.  `GoPromisesTheorem` assumes
`Representable`, that a wait the API asks for stays a millisecond below the longest
`Duration`.  It is what the run `go_long_wait` shows to be needed.
`NodeCeilingTheorem` assumes `[]ThrottleHolds`, that the schedule is never further ahead
than a timer can wait; `NodeScheduleTheorem` and `NodePromisesTheorem` assume
`Roomy` instead, from which it follows: there are finitely many calls, and an interval
for each of them, and one more, fits a timer.  It counts all the calls
of a client's life, as one that ended may have left a turn behind: two million at one
request a second, six hundred at one an hour.  Where the schedule does run further
ahead than a timer can wait, a call waits a millisecond for its turn.  The ceiling has
a `Slack`: `setTimeout` drops a fraction of a millisecond, so a request of Node.js may be early by less than
one; elsewhere it is 0.  For Node.js
nothing is assumed of the budget: `Budget` is the number of attempts the loop can
make, `MaxAttempts` when `maxRetries` was replaced by `undefined`, and at least
one, as the loop is entered before it is asked.

### The arguments

**Types and the budget.**  `TypeInv` of each transport is `TypeOK` and
`AttemptsOK`: a call past "idle" has at least one attempt, at most
`max_retries + 1`, and at most `max_retries` while it backs off.  Without it the
budget is not inductive: that the head of the loop may add one is known only
from the check made before the sleep.

**The ceiling, on threads** (`ThrottleInv` of `PythonTransportProofs`).  A claim is two
steps, so the invariant follows the lock.  `LockInv`: a thread is between the two
halves of a claim exactly when it holds the lock.  `ScheduleInv`: the place it is
about to take is no earlier than the shared schedule or the instant it read.
`ClaimsInv`: k claims have pushed the schedule to at least k intervals.
`SlotsInv`: a thread on its way to a request holds a slot of its own, not yet
fired, and its timer is no earlier than that slot's place.  `FiredInv`: slot i
fired no earlier than i - 1 intervals.  `CountInv`: as many slots have fired as
requests were sent.  The ceiling follows by counting (`EnoughSlots`): k + 1
distinct slots include one above k, whose place is at least k intervals after
the start, so the (k + 1)-st request is not early, although slots fire in any
order.

**The ceiling, with callers who leave the queue** (`PaceInv` of the Node.js and Go
proofs).  An abort or an ended context gives up a turn without a request, and the
turn is left to nobody.  So turns are counted, not numbered: `OnSchedule` of
`CountingLemmas` says that at no instant from now on have more turns come than
intervals have passed, and that the schedule is past all of them.  A step that
gives no turn keeps that (`ScheduleKept`), one that takes the first free instant
keeps it (`ScheduleClaimed`), and a request that goes out had a turn that had come
(`TurnFits`).

**How far the schedule runs ahead** (`NearInv`, Node.js).  A timer that cannot hold a
wait would give a turn before its time, so the ceiling needs the schedule to stay
near.  Each call holds at most one turn that has not come, or ended and may have left
one behind, so at any instant the schedule is past it by no more than an interval for
each of these, one interval more, and the millisecond by which timers may be early.  The count is taken at
every later instant as well (`Holders`), or the invariant would not survive the clock.

**The event loop** (`AsyncInv`).  A step of an event loop is a step of the threads
or a cancellation that reaches its task, so the invariants of the threads carry
over once a cancellation is shown to keep them.  One detail matters: a task that is
cancelled in the throttle keeps its slot, never fires it, and `CountInv` counts
fired slots only.

**Attempts reported** (`MadeInv`, `ReportInv`).  The requests of a call are its
attempts 1, 2, … in order up to the one it is in, and that one is on the wire
unless the call is still in the throttle; a set that holds exactly `<<c, 1>>` to
`<<c, k>>` has k of c's requests (`AttemptsCounted`).  An aborted call of Node.js
may report fewer attempts than were made, and one of Go one more; `Reported` says
which.

**Giving up, and final answers** (`SpentInv`, `FinalInv`, `ReasonInv`).  A call that
ended in an error has spent its budget or has had an answer that its policy never
repeats, and a call that goes on has had no final answer.  For Go the third
reason is an ended context, and `ContextIsFinal` follows because an ended context
stays ended between the questions of `attempt` and those of `classify`.

**Retry-After** (`WaitInv`).  A call that sleeps, or has slept, sleeps as long as the
server asked.  The proof found what the first statement of `RetryAfterHonored` got
wrong: `compute_retry_delay` rounds to the millisecond, up or down, so a
request may go out up to half a millisecond early (`2 * now + Grain >= 2 * notBefore`),
in Python and in Node.js alike; Go rounds to the millisecond as well.

**The bulk check** (`ClientInv`).  `ListInv`: what was passed is kept while its
owner edits the list.  `StageInv`: what has been sent and decided at each stage.
`BodyInv`: from the validation on, the body is the one of an acceptable list, and
each attempt carries it.  `ResultInv`: a refused list sent nothing and its
offenders are all named; a returned result accounts for every EIN.  The body is
built by folds, so what they compute is proved first: `FirstSeenIs` (each EIN
once, at its first place, in order), `DroppingIs` (what is left is exactly what is
outside the set), `BodyIs`, and `AnswerAccountsForAll` for each shape of a response.

**The server** (`ServerInv`).  `ThreadInv` is what is true of a thread at each
stage, `UsedIsServedAndOwed` that the count is what was served plus what
is about to be given back.  Both are sums over the connections.  Every step has an
`Effect`: it replaces one handler and changes the count by exactly what that
changes in its two terms (`...HasEffect`, one lemma per action), and a sum in
which one term changes, changes by that term's change (`SumChanges`).  Two guards
of `RefusedWith` overlapped for the EIN that is rate limited, which the proof of
`RefusedWithIs` showed and no run had met; the second now excludes it, as the
order of the `if`s in `_handle_single` does.

**Induction.**  The theorems of the library that take an operator cannot be used, so
folds and sums are reasoned about by a least counterexample: a set of naturals
that is not empty has a least element (`LeastNatural`), the set of lengths at
which a fold departs from its meaning is such a set, and the step from n to
n + 1 empties it (`FoldExists`, `FoldRuns`, `SumExists`, `SubsetInduction`).

**The workflows** (`VettingInv`).  `ProgressInv`: while a program decides, it has
written one entry for each EIN before the one it is at.  `AnsweredInv`: a record
that came from a bulk answer is the one of its EIN.  `SnapshotInv`: a snapshot is of
the record that was last read, which is what makes an audit complete however
many runs failed in between.  `EntriesInv`: each entry is justified by the record
the run was given (`Justified`).  The lemmas about `concerns` do the rest
(`Unconcerned`, `OldestDate`, `UnconcernedRecord`): no concern is raised only when
each field was returned and says what the programs accept.

**The recorder** (`RecorderInv`).  Until it opens the file for writing, the file is
as it was found and has not been read; once it is done, the file is what was
promised.  The half that could not be recorded is taken from what was read, which
is why reading must come before opening (`Half`, `Write`).

**The smoke run** (`RunInv`).  Every check has a `CheckEffect`, one lemma per action:
what it was billed is within its declared cost and the attempts after the first
(`CallBills`), a count that was seen lies between the counter before and after
(`ObservedGathers`), and only one check keeps a record and two a bulk response.
`PlaceInv`: a run at step n has n - 1 results, and has not begun before the recorder
was done.  `CountsInv`: the counts seen were the deployment's since the run began,
from which `DeltaNeverOverstates` follows.  `BilledWithinBudget` is inductive with
these.  `VouchInv` ties a result to what it was a result about: a check of the
responses that did not fail vouches for the responses still held (`Vouched`).  It
holds because those checks come after the last check that captures a response
(`PlanOrder`), so a plan in another order would break the theorem.  What they vouch
for together is the green run's promise (`ContractHolds`, `RecordingHolds`,
`NamesAgree`): the checks `Types` and `Fields` are each insufficient alone, as one
passes over a field the contract does not know and the other over its form.

**No false alarm** (`RecordedInv`, `FreshInv`).  The converse: of a deployment that
`BehavesAsDocumented` (both responses conform and are JSON, lists are lists, the
organization is the one asked for and bears one name in both, labels have their codes,
a ruling date is a number, a duplicate gives one record, a wrong key a 401 or 403),
recorded without a dry run and undisturbed since, no check fails, so long as the first
deductibility row is not null (`FirstRowIsARow`).  Two answers of it
differ in the count alone (`Alike`), so they have one signature and the same records,
whatever was billed in between.  `RecordedInv`: the halves the recorder holds, and then
the file, are the signatures of the single answer and of the answer to the first batch
the deployment does not refuse; an allowlisted key is refused the first batch, the
second has no EIN outside the list, and the recorder needs no third (`BatchesAre`).
`FreshInv`: the smoke run has no failed result, its record is an answer to the EIN it
asked for, and from the right check on it holds a response to the batch that was
recorded: the two programs must choose alike, and they do (`CapturingCheck`).  Each
check has a lemma that it passes on such answers (`FieldsPass`, `RecordingPasses`,
`OfacPasses`, `DescribePasses`, ...), and `Goes` is what one of them leaves.  Of the required paths only
those of elements can be missing: their list may be null or empty, and both excuses of
`UnreachableIn` are needed, as is `ListsAreLists` (what the contract permits as a string
where a list could be has no excuse).

**Delays** (`RetryPolicyLemmas`, `PythonTransportProofs`, `GoTransportProofs`).  Rounding loses and gains at most
half a millisecond (`Round3Near`, `Round3Below`, `RoundedNear`), and a draw of less
than the whole takes no more than the whole (`DrawnPart`).  For Go, the conversion
back to a `Duration` must be shown not to wrap (`WrapFits`); a wait longer than the
longest `Duration` is first cut to it, and rounds to the same millisecond if that
fits (`RoundFits`); a shorter delay rounds to no more than a longer one
(`RoundedMonotonic`), so none wraps if the cap does not.

The exponential delay is defined by recursion, of which the provers know only the
`CHOOSE` behind it.  `CountingLemmas` therefore proves, from a least counterexample,
that a function given by a first value and a step exists and is the only one
(`RecursionExists`), then what a power is (`PowerIs`, `PowerPositive`).  The schedule
`DelayFollowsPolicy` compares the code with caps at every step instead of at the end;
by induction it is the capped power all the same (`SaturatedIs`).  The inductive
invariants of the two machines (`FailuresInv`, `RefusalsInv`) tie the latest wait to the latest header
and the number of failures, and the policy in force to the argument that was passed.

The refinements have one lemma per kind of step (`SendMaps`, `FinishMaps`,
`FailureMaps`, `QuietMaps` in `PythonTransportProofs`, the same idea elsewhere): each
maps to a step of the abstract specification or leaves its variables alone.

### Only model-checked

- Liveness (`EveryCallEnds`, `EveryCallSettles`, `CancelledCallEnds`) and
  `EndedCallIsReady`, which mention fairness or `ENABLED`: out of the prover's reach.

## 6. Plan

Every invariant and action property of a passing run, but for those just named, is a
theorem.  What would come next is the transport of another language (section 7).

## 7. Not modelled

- **The transports of .NET, Java and Ruby** are the loop of `SyncTransport` with
  another way of stopping a call.  What differs is listed as hazards without a
  property: a `CancellationToken` that races with an `HttpRequestException`, an
  interrupt that reaches a worker through a future, an interval in whole
  milliseconds.
- **Clients, resolvers and models of the other languages**: the bulk path repeats
  the Python one; the rest validates one value at a time, decodes JSON or declares
  types.
- **Mock servers, contracts, smoke runs and examples of the other languages**: the
  Python programs written again.  In the Node.js server nothing else runs between
  the count and the refund.
- **Numbers at their width** in Python (`OverflowError` in `time.sleep` and `**`)
  and a wall clock that is set (Node.js, Java): listed as hazards.
- **The closed pool**: what a request raises after `close` is httpx's; the retries
  that follow are those of any network failure.
- **The single-topic examples, `address.py`, the tables of codes, the tests**: one
  call and its printout, the validation of one postal address, data, and the
  expectations the properties were read from.

## 8. Running it

    tlc -workers 2 -config SyncTransport.cfg MCSyncTransport.tla
    tlapm PythonTransportProofs.tla

`tlapm` checks the other modules of section 5 in the same way; `BulkProofs` is the
longest.

The other runs pair `X.cfg` with `MCX.tla`.  The configurations with longer names
belong to other modules: `NodeTransportAbort.cfg`, `NodeTransportErrors.cfg` and
`NodeTransportUnset.cfg` to `MCNodeTransport`, `GoRetryLong.cfg` to `MCGoRetryDelay`.
