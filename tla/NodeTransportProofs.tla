-------------------------- MODULE NodeTransportProofs --------------------------
(***************************************************************************)
(* Theorems about NodeTransport, for any number of calls, any policies and *)
(* overrides, any interval and timeout, and signals that fire at any       *)
(* await, heard or not.                                                    *)
(***************************************************************************)
EXTENDS NodeTransport, RetryPolicyLemmas

-----------------------------------------------------------------------------
(* What a step of one call does.                                            *)

(* Where a call is, against the attempts it has begun; a call has an outcome
   only when it is over, and reads the body of a request that was served. *)
AttemptsOK ==
    \A c \in Calls :
        /\ pc[c] = "idle" => attempts[c] = 0
        /\ pc[c] \notin {"idle", "done"} => attempts[c] > 0
        /\ attempts[c] <= Budget[c] /\ attempts[c] <= MaxAttempts
        /\ pc[c] = "backing_off" => ~Exhausted(c)
        /\ pc[c] = "reading" => <<c, attempts[c]>> \in served
        /\ pc[c] # "done" => outcome[c] = Pending

TypeInv == TypeOK /\ AttemptsOK

(* A step of c leaves the other calls where they are. *)
OnlyOf(c) ==
    \A d \in Calls : d # c =>
        /\ pc'[d] = pc[d] /\ timer'[d] = timer[d] /\ attempts'[d] = attempts[d]
        /\ outcome'[d] = outcome[d]

Shapes ==
    /\ pc' \in [Calls -> Labels] /\ timer' \in [Calls -> Nat]
    /\ attempts' \in [Calls -> Nat]
    /\ outcome' \in [Calls -> [kind : Kinds, attempts : Nat]]

(* The promise of c settles; or c goes on to await something. *)
Settles(c, kind, n) == pc'[c] = "done" /\ outcome'[c] = Ended(kind, n)

GoesTo(c, label, due) ==
    pc'[c] = label /\ timer'[c] = due /\ outcome'[c] = outcome[c]

LEMMA SettleEffect ==
  ASSUME TypeInv, NEW c \in Calls, NEW kind \in Kinds, NEW n \in Nat,
         Settle(c, kind, n), attempts' = attempts
  PROVE  Shapes /\ OnlyOf(c) /\ Settles(c, kind, n)
BY DEF TypeInv, TypeOK, Settle, Await, Ended, Labels, Shapes, OnlyOf, Settles

LEMMA AwaitEffect ==
  ASSUME TypeInv, NEW c \in Calls, NEW label \in Labels, NEW due \in Nat,
         NEW listening, Await(c, label, due, listening), outcome' = outcome,
         attempts' = attempts \/ attempts' = [attempts EXCEPT ![c] = @ + 1]
  PROVE  Shapes /\ OnlyOf(c) /\ GoesTo(c, label, due)
<1>1. /\ pc \in [Calls -> Labels] /\ timer \in [Calls -> Nat]
      /\ attempts \in [Calls -> Nat] /\ outcome \in [Calls -> [kind : Kinds, attempts : Nat]]
  BY DEF TypeInv, TypeOK
<1>2. pc' = [pc EXCEPT ![c] = label] /\ timer' = [timer EXCEPT ![c] = due]
  BY DEF Await
<1> QED
  BY <1>1, <1>2 DEF Shapes, OnlyOf, GoesTo

(* The budget is that of max_retries, whatever number a request passes. *)
LEMMA BudgetType ==
  ASSUME NEW c \in Calls
  PROVE  /\ Budget[c] \in Nat
         /\ ~Exhausted(c) /\ attempts[c] \in Nat /\ attempts[c] < MaxAttempts =>
              attempts[c] + 1 <= Budget[c]
         /\ MaxAttempts > 0 => Budget[c] > 0
BY NodeTransportAssumption DEF Budget, Exhausted, Larger

(* An attempt in flight, or whose body is being read, ends: the promise
   settles, or the call backs off for as long as the server asked. *)
Ends(c) ==
    /\ pc[c] \in {"in_flight", "reading"} /\ Shapes /\ OnlyOf(c)
    /\ UNCHANGED <<now, attempts, nextRequestAt, wireVars>>
    /\ \/ /\ \E kind \in Kinds \ {"pending"} :
                /\ kind = "returned" => <<c, attempts[c]>> \in served
                /\ Settles(c, kind, attempts[c])
          /\ UNCHANGED asked
       \/ /\ ~Exhausted(c)
          /\ \E due \in Nat, until \in Nat :
                /\ GoesTo(c, "backing_off", due)
                /\ asked' = [asked EXCEPT ![c] = Wait(until)]
                /\ Wait(until).fits => 2 * due + Grain >= 2 * until

(* The wait read from the header, if it counts, lasts until that instant. *)
Enough(c, retryAfter, until) ==
    IF HonorsServer(Plan(c), retryAfter) THEN retryAfter = Larger(0, until - now)
    ELSE now >= until

(* setTimeout gives back an instant to come; one no earlier than asked for when
   that is a whole number of milliseconds, or else by less than one, as long as
   the delay is one it can hold. *)
LEMMA TimerIs ==
  ASSUME NEW delay \in Nat
  PROVE  /\ Timer(delay) \in Nat
         /\ delay <= TimeoutMax * Grain => Timer(delay) + (Grain - 1) >= delay
         /\ \A k \in Nat : delay = Grain * k /\ delay <= TimeoutMax * Grain =>
               Timer(delay) >= delay
<1>1. Grain \in Nat \ {0} /\ TimeoutMax * Grain \in Nat
  BY RetryPolicyAssumption, NodeTransportAssumption
<1> DEFINE q == delay \div Grain
           r == delay % Grain
<1>2. q \in Nat /\ r \in 0 .. Grain - 1 /\ delay = Grain * q + r
  BY <1>1, DivMod
<1>3. Grain * q \in Nat
  BY <1>1, <1>2
<1>4. Timer(delay) = IF delay < Grain \/ delay > TimeoutMax * Grain THEN Grain
                     ELSE Grain * q
  BY DEF Timer
<1>5. ASSUME NEW k \in Nat, delay = Grain * k PROVE r = 0
  <2>1. CASE k <= q
    <3>1. k * Grain <= q * Grain /\ k * Grain = Grain * k /\ q * Grain = Grain * q
      BY <1>1, <1>2, <2>1, ProductMonotonic
    <3> QED
      BY <1>2, <1>3, <1>5, <3>1
  <2>2. CASE k >= q + 1
    <3>1. (q + 1) * Grain <= k * Grain /\ k * Grain = Grain * k
          /\ (q + 1) * Grain = Grain * q + Grain
      BY <1>1, <1>2, <2>2, ProductMonotonic
    <3> QED
      BY <1>1, <1>2, <1>3, <1>5, <3>1
  <2> QED
    BY <1>2, <2>1, <2>2
<1> HIDE DEF q, r
<1>6. \A k \in Nat : delay = Grain * k => r = 0
  BY <1>5
<1> QED
  BY <1>1, <1>2, <1>3, <1>4, <1>6

(* Rounding gives a whole number of milliseconds, and no more than a timer
   holds when it was given no more. *)
LEMMA Round3Whole ==
  ASSUME NEW d \in Nat
  PROVE  /\ \E k \in Nat : Round3(d) = Grain * k
         /\ d <= TimeoutMax * Grain => Round3(d) <= TimeoutMax * Grain
<1>1. /\ Grain \in Nat \ {0} /\ TimeoutMax \in Nat
      /\ TimeoutMax * Grain \in Nat /\ TimeoutMax * Grain = Grain * TimeoutMax
  BY RetryPolicyAssumption, NodeTransportAssumption
<1> DEFINE q == d \div Grain
           r == d % Grain
<1>2. q \in Nat /\ r \in 0 .. Grain - 1 /\ d = Grain * q + r
  BY <1>1, DivMod
<1>3. \/ Round3(d) = Grain * q
      \/ 2 * r >= Grain /\ Round3(d) = Grain * (q + 1)
  BY <1>1, <1>2 DEF Round3
<1> HIDE DEF q, r
<1>4. Grain * q \in Nat /\ q + 1 \in Nat
  BY <1>1, <1>2
<1>5. ASSUME d <= TimeoutMax * Grain, 2 * r >= Grain PROVE Grain * (q + 1) <= TimeoutMax * Grain
  <2>1. CASE q >= TimeoutMax
    <3>1. TimeoutMax * Grain <= q * Grain /\ q * Grain = Grain * q
      BY <1>1, <1>2, <2>1, ProductMonotonic
    <3> QED
      BY <1>1, <1>2, <1>4, <1>5, <3>1
  <2>2. CASE q + 1 <= TimeoutMax
    <3>1. (q + 1) * Grain <= TimeoutMax * Grain /\ (q + 1) * Grain = Grain * (q + 1)
      BY <1>1, <1>2, <2>2, ProductMonotonic
    <3> QED
      BY <3>1
  <2> QED
    BY <1>1, <1>2, <2>1, <2>2
<1>6. \E k \in Nat : Round3(d) = Grain * k
  BY <1>2, <1>3, <1>4
<1>7. ASSUME d <= TimeoutMax * Grain PROVE Round3(d) <= TimeoutMax * Grain
  <2>1. CASE Round3(d) = Grain * q
    BY <1>1, <1>2, <1>4, <1>7, <2>1
  <2>2. CASE 2 * r >= Grain /\ Round3(d) = Grain * (q + 1)
    BY <1>5, <1>7, <2>2
  <2> QED
    BY <1>3, <2>1, <2>2
<1> QED
  BY <1>6, <1>7

LEMMA BackoffEnds ==
  ASSUME TypeInv, NEW c \in Calls, pc[c] \in {"in_flight", "reading"},
         UNCHANGED <<now, attempts, nextRequestAt, wireVars>>, ~Exhausted(c),
         NEW retryAfter \in Nat \cup {None}, NEW until \in Nat, NEW listening,
         Enough(c, retryAfter, until), Backoff(c, retryAfter, until, listening)
  PROVE  Ends(c)
<1> DEFINE delay(draw) == ComputeRetryDelay(attempts[c], Plan(c), retryAfter, draw)
<1>1. PICK draw \in 0 .. Parts - 1 :
        Await(c, "backing_off", now + Timer(delay(draw)), listening)
  BY DEF Backoff
<1>2. now \in Nat /\ Grain \in Nat /\ draw \in Nat /\ retryAfter \in Int
  BY RetryPolicyAssumption DEF TypeInv, TypeOK, None
<1>3. delay(draw) \in Nat
  <2>1. attempts[c] \in 1 .. MaxAttempts
    <3>1. attempts[c] \in Nat /\ MaxAttempts \in Nat
      BY NodeTransportAssumption DEF TypeInv, TypeOK
    <3>2. attempts[c] > 0 /\ attempts[c] <= MaxAttempts
      BY DEF TypeInv, AttemptsOK
    <3> QED
      BY <3>1, <3>2
  <2>2. /\ attempts[c] \in Nat \ {0} /\ Plan(c).max_delay \in Nat
        /\ Plan(c).initial_delay \in Nat /\ Plan(c).backoff_factor \in Nat
    BY <2>1, NodeTransportAssumption
  <2> QED
    BY <1>2, <2>2, DelayType
<1>4. Timer(delay(draw)) \in Nat
  <2> HIDE DEF delay
  <2> QED
    BY <1>3, TimerIs
<1>5. Wait(until).fits => 2 * (now + Timer(delay(draw))) + Grain >= 2 * until
  <2> SUFFICES ASSUME until - now <= TimeoutMax * Grain
               PROVE  2 * (now + Timer(delay(draw))) + Grain >= 2 * until
    BY DEF Wait
  <2>1. CASE HonorsServer(Plan(c), retryAfter)
    <3>1. /\ retryAfter \in Nat /\ now + retryAfter >= until
          /\ retryAfter <= TimeoutMax * Grain
      <4>1. retryAfter = Larger(0, until - now) /\ TimeoutMax * Grain \in Nat
        BY <2>1, NodeTransportAssumption, RetryPolicyAssumption DEF Enough
      <4> QED
        BY <1>2, <4>1 DEF Larger
    <3>2. delay(draw) = Round3(retryAfter) /\ 2 * delay(draw) + Grain >= 2 * retryAfter
      BY <2>1, <3>1, Round3Near DEF ComputeRetryDelay
    <3> HIDE DEF delay
    <3>3. Timer(delay(draw)) >= delay(draw)
      BY <1>3, <3>1, <3>2, Round3Whole, TimerIs
    <3> QED
      BY <1>2, <1>3, <1>4, <3>1, <3>2, <3>3
  <2>2. CASE ~HonorsServer(Plan(c), retryAfter)
    <3>1. now >= until
      BY <2>2 DEF Enough
    <3> HIDE DEF delay
    <3> QED
      BY <1>2, <1>4, <3>1
  <2> QED
    BY <2>1, <2>2
<1> HIDE DEF delay
<1>6. now + Timer(delay(draw)) \in Nat /\ "backing_off" \in Labels
  BY <1>2, <1>4 DEF Labels
<1>7. /\ Shapes /\ OnlyOf(c) /\ GoesTo(c, "backing_off", now + Timer(delay(draw)))
      /\ asked' = [asked EXCEPT ![c] = Wait(until)]
  BY <1>1, <1>6, AwaitEffect DEF Backoff
<1> QED
  BY <1>5, <1>6, <1>7 DEF Ends

(* readRetryAfter gives the wait up to the instant the header names. *)
LEMMA AskedMet ==
  ASSUME NEW c \in Calls, NEW header \in Headers, now \in Nat
  PROVE  /\ ReadRetryAfter(header, now) \in Nat \cup {None}
         /\ Asked(c, header) \in Nat
         /\ Enough(c, ReadRetryAfter(header, now), Asked(c, header))
<1>1. ReadRetryAfter(header, now) \in Nat \cup {None} /\ Asked(c, header) \in Nat
  BY RetryAfterType DEF Asked, Headers, NoHeader, NotFinite, Garbage
<1>2. Plan(c).respect_retry_after \in BOOLEAN
  BY NodeTransportAssumption
<1>3. CASE ~Plan(c).respect_retry_after
  <2>1. Asked(c, header) = now
    BY <1>3 DEF Asked
  <2>2. ~HonorsServer(Plan(c), ReadRetryAfter(header, now))
    BY <1>3 DEF HonorsServer
  <2> QED
    BY <1>1, <2>1, <2>2 DEF Enough
<1>4. CASE header.form = "seconds" /\ header.value >= 0
  <2>1. header.value \in Nat
    BY <1>4 DEF Headers, NoHeader, NotFinite, Garbage
  <2> QED
    BY <1>2, <1>3, <1>4, <2>1
       DEF Enough, Asked, HonorsServer, ReadRetryAfter, None, Larger
<1>5. CASE header.form = "date"
  <2>1. header.value \in Nat
    BY <1>5 DEF Headers, NoHeader, NotFinite, Garbage
  <2> QED
    BY <1>2, <1>3, <1>5, <2>1
       DEF Enough, Asked, HonorsServer, ReadRetryAfter, None, Larger
<1>6. CASE /\ header.form # "date"
           /\ ~(header.form = "seconds" /\ header.value >= 0)
  BY <1>6 DEF Enough, Asked, HonorsServer, ReadRetryAfter, None
<1> QED
  BY <1>1, <1>4, <1>5, <1>6

LEMMA SettleEnds ==
  ASSUME TypeInv, NEW c \in Calls, pc[c] \in {"in_flight", "reading"},
         UNCHANGED <<now, attempts, nextRequestAt, wireVars>>,
         NEW kind \in Kinds \ {"pending"},
         kind = "returned" => <<c, attempts[c]>> \in served,
         Settle(c, kind, attempts[c]), UNCHANGED asked
  PROVE  Ends(c)
<1>1. attempts[c] \in Nat
  BY DEF TypeInv, TypeOK
<1>2. Shapes /\ OnlyOf(c) /\ Settles(c, kind, attempts[c])
  BY <1>1, SettleEffect
<1> QED
  BY <1>2 DEF Ends

LEMMA ConcludeEnds ==
  ASSUME TypeInv, NEW c \in Calls, pc[c] = "reading",
         UNCHANGED <<now, attempts, nextRequestAt, wireVars>>,
         NEW hasBody \in BOOLEAN, NEW listening, Conclude(c, hasBody, listening)
  PROVE  Ends(c)
<1> DEFINE status == response[c].status
           header == response[c].retry_after
<1>1. status \in Nat /\ header \in Headers /\ now \in Nat
  BY NodeTransportAssumption DEF TypeInv, TypeOK, NoResponse, Headers
<1>2. <<c, attempts[c]>> \in served
  BY DEF TypeInv, AttemptsOK
<1>3. ASSUME NEW kind \in {"returned", "TypeError", ErrorFromStatus(status)},
             Settle(c, kind, attempts[c]), UNCHANGED asked
      PROVE  Ends(c)
  <2>1. kind \in Kinds \ {"pending"}
    BY <1>1, <1>3 DEF Kinds, ErrorClasses, ErrorFromStatus
  <2> QED
    BY <1>2, <1>3, <2>1, SettleEnds
<1>4. CASE /\ ~Exhausted(c)
           /\ Backoff(c, ReadRetryAfter(header, now), Asked(c, header), listening)
  <2>1. /\ ReadRetryAfter(header, now) \in Nat \cup {None} /\ Asked(c, header) \in Nat
        /\ Enough(c, ReadRetryAfter(header, now), Asked(c, header))
    BY <1>1, AskedMet
  <2> QED
    BY <1>4, <2>1, BackoffEnds
<1> QED
  BY <1>3, <1>4 DEF Conclude

LEMMA FailEnds ==
  ASSUME TypeInv, NEW c \in Calls, pc[c] = "in_flight",
         UNCHANGED <<now, attempts, nextRequestAt, wireVars>>,
         NEW kind \in {"Network", "Timeout"}, Fail(c, kind)
  PROVE  Ends(c)
<1>1. kind \in Kinds \ {"pending"} /\ now \in Nat
  BY DEF Kinds, TypeInv, TypeOK
<1>2. CASE Exhausted(c)
  BY <1>1, <1>2, SettleEnds DEF Fail
<1>3. CASE ~Exhausted(c)
  <2>1. None \in Nat \cup {None} /\ Enough(c, None, now)
    BY <1>1 DEF Enough, HonorsServer, None
  <2> QED
    BY <1>1, <1>3, <2>1, BackoffEnds DEF Fail
<1> QED
  BY <1>2, <1>3

-----------------------------------------------------------------------------
(* What a step of the client does.                                          *)

(* The head of the loop, the signal not having fired. *)
Begins(c) ==
    /\ \/ pc[c] = "idle"
       \/ pc[c] = "backing_off" /\ now >= timer[c]
    /\ attempts[c] < MaxAttempts /\ attempts'[c] = attempts[c] + 1
    /\ Shapes /\ OnlyOf(c) /\ UNCHANGED <<now, sent, served, asked>>
    /\ \/ /\ Interval = 0 /\ UNCHANGED nextRequestAt
          /\ GoesTo(c, "gap", 0)
       \/ /\ nextRequestAt' = Larger(now, nextRequestAt) + Interval
          /\ \/ /\ nextRequestAt > now
                /\ GoesTo(c, "throttled", now + Timer(nextRequestAt - now))
             \/ nextRequestAt <= now /\ GoesTo(c, "gap", 0)

(* The signal is found to have fired, or heard, while no request is out. *)
Stops(c) ==
    /\ pc[c] \in {"idle", "throttled", "backing_off"}
    /\ Shapes /\ OnlyOf(c) /\ Settles(c, "Aborted", 0)
    /\ UNCHANGED <<now, attempts, nextRequestAt, sent, served, asked>>

Wakes(c) ==
    /\ pc[c] = "throttled" /\ now >= timer[c]
    /\ Shapes /\ OnlyOf(c) /\ GoesTo(c, "gap", 0)
    /\ UNCHANGED <<now, attempts, nextRequestAt, sent, served, asked>>

Sends(c) ==
    /\ pc[c] = "gap" /\ Shapes /\ OnlyOf(c) /\ pc'[c] = "in_flight"
    /\ outcome'[c] = outcome[c] /\ sent' = sent \cup {<<c, attempts[c]>>}
    /\ asked' = [asked EXCEPT ![c] = Nothing]
    /\ UNCHANGED <<now, attempts, nextRequestAt, served>>

Reads(c) ==
    /\ pc[c] = "in_flight" /\ <<c, attempts[c]>> \in served
    /\ Shapes /\ OnlyOf(c) /\ pc'[c] = "reading" /\ outcome'[c] = outcome[c]
    /\ UNCHANGED <<now, attempts, nextRequestAt, sent, served, asked>>

(* Time passes, a signal goes unheard, or nothing happens at all. *)
Quiet ==
    /\ UNCHANGED <<pc, attempts, timer, outcome, nextRequestAt, sent, served, asked>>
    /\ now' \in Nat /\ now' >= now

LEMMA BeginIs ==
  ASSUME TypeInv, NEW c \in Calls, BeginAttempt(c),
         pc[c] = "idle" \/ (pc[c] = "backing_off" /\ now >= timer[c])
  PROVE  Begins(c) \/ Stops(c)
<1>1. /\ nextRequestAt \in Nat /\ now \in Nat
      /\ "Aborted" \in Kinds /\ "gap" \in Labels /\ "throttled" \in Labels
      /\ UNCHANGED <<now, sent, served, asked>> /\ attempts[c] < MaxAttempts
  BY DEF BeginAttempt, TypeInv, TypeOK, Kinds, Labels, wireVars
<1>2. CASE aborted[c]
  <2>1. Settle(c, "Aborted", 0) /\ UNCHANGED <<attempts, nextRequestAt>>
    BY <1>2 DEF BeginAttempt
  <2>2. Shapes /\ OnlyOf(c) /\ Settles(c, "Aborted", 0)
    BY <1>1, <2>1, SettleEffect
  <2> QED
    BY <1>1, <2>1, <2>2 DEF Stops
<1>3. CASE ~aborted[c]
  <2>1. /\ attempts' = [attempts EXCEPT ![c] = @ + 1] /\ outcome' = outcome
        /\ ClaimSlot(c)
    BY <1>3 DEF BeginAttempt
  <2>2. attempts'[c] = attempts[c] + 1
    BY <2>1 DEF TypeInv, TypeOK
  <2>3. Await(c, "gap", 0, FALSE) => Shapes /\ OnlyOf(c) /\ GoesTo(c, "gap", 0)
    BY <1>1, <2>1, AwaitEffect
  <2>4. ASSUME nextRequestAt > now,
               Await(c, "throttled", now + Timer(nextRequestAt - now), TRUE)
        PROVE  /\ Shapes /\ OnlyOf(c)
               /\ GoesTo(c, "throttled", now + Timer(nextRequestAt - now))
    <3>1. nextRequestAt - now \in Nat
      BY <1>1, <2>4
    <3>2. now + Timer(nextRequestAt - now) \in Nat
      BY <1>1, <3>1, TimerIs
    <3> QED
      BY <1>1, <2>1, <2>4, <3>2, AwaitEffect
  <2>5. CASE Interval = 0
    BY <1>1, <2>1, <2>2, <2>3, <2>5 DEF ClaimSlot, Begins
  <2>6. CASE Interval # 0 /\ nextRequestAt > now
    BY <1>1, <2>1, <2>2, <2>4, <2>6 DEF ClaimSlot, Begins
  <2>7. CASE Interval # 0 /\ nextRequestAt <= now
    <3>1. ~(nextRequestAt > now)
      BY <1>1, <2>7
    <3>2. /\ Await(c, "gap", 0, FALSE)
          /\ nextRequestAt' = Larger(now, nextRequestAt) + Interval
      BY <2>1, <2>7, <3>1 DEF ClaimSlot
    <3> QED
      BY <1>1, <2>1, <2>2, <2>3, <2>7, <3>2 DEF Begins
  <2> QED
    BY <1>1, <2>5, <2>6, <2>7
<1> QED
  BY <1>2, <1>3

LEMMA AbortIs ==
  ASSUME TypeInv, NEW c \in Calls, Abort(c)
  PROVE  Quiet \/ Stops(c) \/ Ends(c)
<1>1. /\ now \in Nat /\ "Aborted" \in Kinds \ {"pending"} /\ 0 \in Nat
      /\ UNCHANGED <<now, attempts, nextRequestAt, sent, served>>
      /\ UNCHANGED <<now, attempts, nextRequestAt, wireVars>>
  BY DEF Abort, TypeInv, TypeOK, Kinds, wireVars
<1>2. CASE UNCHANGED <<pc, timer, hears, response, outcome, asked>>
  BY <1>1, <1>2 DEF Quiet
<1>3. CASE /\ pc[c] \in {"throttled", "backing_off"}
           /\ Settle(c, "Aborted", 0) /\ UNCHANGED asked
  BY <1>1, <1>3, SettleEffect DEF Stops
<1>4. CASE /\ pc[c] = "in_flight"
           /\ Settle(c, "Aborted", attempts[c]) /\ UNCHANGED asked
  BY <1>1, <1>4, SettleEnds
<1>5. CASE pc[c] = "reading" /\ Conclude(c, FALSE, FALSE)
  BY <1>1, <1>5, ConcludeEnds
<1> QED
  BY <1>2, <1>3, <1>4, <1>5 DEF Abort

(* Every step is one of these. *)
LEMMA StepIs ==
  ASSUME TypeInv, [Next]_vars
  PROVE  \/ Serve \/ Quiet
         \/ \E c \in Calls :
               Begins(c) \/ Stops(c) \/ Wakes(c) \/ Sends(c) \/ Reads(c) \/ Ends(c)
<1>0. now \in Nat /\ Timeout \in Nat /\ timer \in [Calls -> Nat]
      /\ {"gap", "in_flight", "reading"} \subseteq Labels
  BY NodeTransportAssumption DEF TypeInv, TypeOK, Labels
<1>1. Tick \/ UNCHANGED vars => Quiet
  BY <1>0, RetryPolicyAssumption DEF Tick, vars, wireVars, Quiet
<1>2. ASSUME NEW c \in Calls, Start(c) \/ WakeFromBackoff(c) PROVE Begins(c) \/ Stops(c)
  BY <1>2, BeginIs DEF Start, WakeFromBackoff
<1>3. ASSUME NEW c \in Calls, WakeFromThrottle(c) PROVE Wakes(c)
  BY <1>0, <1>3, AwaitEffect DEF WakeFromThrottle, wireVars, Wakes
<1>4. ASSUME NEW c \in Calls, SendRequest(c) PROVE Sends(c)
  <2>0. now + Timer(Timeout) \in Nat
    BY <1>0, TimerIs
  <2>1. Shapes /\ OnlyOf(c) /\ GoesTo(c, "in_flight", now + Timer(Timeout))
    BY <1>0, <1>4, <2>0, AwaitEffect DEF SendRequest
  <2> QED
    BY <1>4, <2>1 DEF SendRequest, Sends, GoesTo
<1>5. ASSUME NEW c \in Calls, NEW answer \in Answers, ReceiveHeaders(c, answer)
      PROVE  Reads(c)
  <2>1. Shapes /\ OnlyOf(c) /\ GoesTo(c, "reading", timer[c])
    BY <1>0, <1>5, AwaitEffect DEF ReceiveHeaders
  <2> QED
    BY <1>5, <2>1 DEF ReceiveHeaders, Reads, GoesTo, wireVars
<1>6. ASSUME NEW c \in Calls, NEW hasBody \in BOOLEAN, ReceiveBody(c, hasBody)
      PROVE  Ends(c)
  BY <1>6, ConcludeEnds DEF ReceiveBody
<1>7. ASSUME NEW c \in Calls, FetchFails(c) PROVE Ends(c)
  BY <1>7, FailEnds, SettleEnds DEF FetchFails, Kinds
<1>8. ASSUME NEW c \in Calls, TimerFires(c) PROVE Ends(c)
  BY <1>8, FailEnds, ConcludeEnds DEF TimerFires
<1> QED
  BY <1>1, <1>2, <1>3, <1>4, <1>5, <1>6, <1>7, <1>8, AbortIs DEF Next, Run

-----------------------------------------------------------------------------
(* Type correctness.                                                        *)

(* The signals, the listeners and the responses. *)
Ears == aborted \in [Calls -> BOOLEAN] /\ hears \in [Calls -> BOOLEAN]
        /\ response \in [Calls -> Answers \cup {NoResponse}]

LEMMA ConcludeEars ==
  ASSUME TypeOK, NEW c \in Calls, NEW hasBody \in BOOLEAN, NEW listening \in BOOLEAN,
         Conclude(c, hasBody, listening)
  PROVE  hears' \in [Calls -> BOOLEAN] /\ response' \in [Calls -> Answers \cup {NoResponse}]
<1>1. hears' = [hears EXCEPT ![c] = FALSE] \/ hears' = [hears EXCEPT ![c] = listening]
  BY DEF Conclude, Settle, Await, Backoff
<1>2. response' = [response EXCEPT ![c] = NoResponse]
  BY DEF Conclude, Settle, Backoff
<1> QED
  BY <1>1, <1>2 DEF TypeOK

LEMMA FailEars ==
  ASSUME TypeOK, NEW c \in Calls, NEW kind, Fail(c, kind)
  PROVE  hears' \in [Calls -> BOOLEAN] /\ response' \in [Calls -> Answers \cup {NoResponse}]
<1>1. /\ aborted[c] \in BOOLEAN
      /\ hears' = [hears EXCEPT ![c] = FALSE] \/ hears' = [hears EXCEPT ![c] = ~aborted[c]]
  BY DEF TypeOK, Fail, Settle, Await, Backoff
<1>2. response' = [response EXCEPT ![c] = NoResponse]
  BY DEF Fail, Settle, Backoff
<1> QED
  BY <1>1, <1>2 DEF TypeOK

LEMMA EarsStep == ASSUME TypeOK, [Next]_vars PROVE Ears'
<1>0. Ears
  BY DEF TypeOK, Ears
<1>1. Serve \/ Tick \/ UNCHANGED vars => Ears'
  BY <1>0 DEF Serve, Tick, vars, Ears
<1>2. ASSUME NEW c \in Calls, UNCHANGED aborted,
             \E b \in BOOLEAN : hears' = [hears EXCEPT ![c] = b],
             response' = response \/ response' = [response EXCEPT ![c] = NoResponse]
      PROVE  Ears'
  BY <1>0, <1>2 DEF Ears
<1>3. ASSUME NEW c \in Calls, NEW kind, NEW n, UNCHANGED aborted, Settle(c, kind, n)
      PROVE  Ears'
  BY <1>2, <1>3 DEF Settle, Await
<1>4. ASSUME NEW c \in Calls, NEW label, NEW due, NEW b \in BOOLEAN,
             Await(c, label, due, b), UNCHANGED <<aborted, response>>
      PROVE  Ears'
  BY <1>2, <1>4 DEF Await
<1>5. ASSUME NEW c \in Calls, BeginAttempt(c) PROVE Ears'
  BY <1>3, <1>4, <1>5 DEF BeginAttempt, ClaimSlot
<1>6. ASSUME NEW c \in Calls, WakeFromThrottle(c) \/ SendRequest(c) PROVE Ears'
  <2>1. (~aborted[c]) \in BOOLEAN /\ FALSE \in BOOLEAN
    OBVIOUS
  <2> QED
    BY <1>4, <1>6, <2>1 DEF WakeFromThrottle, SendRequest
<1>7. ASSUME NEW c \in Calls, NEW answer \in Answers, ReceiveHeaders(c, answer)
      PROVE  Ears'
  <2>1. /\ hears' = [hears EXCEPT ![c] = hears[c]] /\ aborted' = aborted
        /\ response' = [response EXCEPT ![c] = answer]
    BY <1>7 DEF ReceiveHeaders, Await
  <2> QED
    BY <1>0, <2>1 DEF Ears
<1>8. ASSUME NEW c \in Calls, NEW hasBody \in BOOLEAN, NEW listening \in BOOLEAN,
             Conclude(c, hasBody, listening), aborted' \in [Calls -> BOOLEAN]
      PROVE  Ears'
  BY <1>8, ConcludeEars DEF Ears
<1>9. ASSUME NEW c \in Calls, NEW kind, Fail(c, kind), UNCHANGED aborted PROVE Ears'
  BY <1>0, <1>9, FailEars DEF Ears
<1>10. ASSUME NEW c \in Calls, NEW hasBody \in BOOLEAN, ReceiveBody(c, hasBody)
       PROVE  Ears'
  <2>1. (~aborted[c]) \in BOOLEAN /\ aborted' \in [Calls -> BOOLEAN]
    BY <1>0, <1>10 DEF Ears, ReceiveBody
  <2> QED
    BY <1>8, <1>10, <2>1 DEF ReceiveBody
<1>11. ASSUME NEW c \in Calls, FetchFails(c) PROVE Ears'
  BY <1>3, <1>9, <1>11 DEF FetchFails
<1>12. ASSUME NEW c \in Calls, TimerFires(c) PROVE Ears'
  <2>1. (~aborted[c]) \in BOOLEAN /\ aborted' \in [Calls -> BOOLEAN] /\ aborted' = aborted
    BY <1>0, <1>12 DEF Ears, TimerFires
  <2> QED
    BY <1>8, <1>9, <1>12, <2>1 DEF TimerFires
<1>13. ASSUME NEW c \in Calls, Abort(c) PROVE Ears'
  <2>1. aborted' \in [Calls -> BOOLEAN]
    BY <1>0, <1>13 DEF Ears, Abort
  <2>2. CASE UNCHANGED <<hears, response>>
    BY <1>0, <2>1, <2>2 DEF Ears
  <2>3. CASE \E n : Settle(c, "Aborted", n)
    BY <1>0, <2>1, <2>3 DEF Ears, Settle, Await
  <2>4. CASE Conclude(c, FALSE, FALSE)
    BY <1>8, <2>1, <2>4
  <2> QED
    BY <1>13, <2>2, <2>3, <2>4 DEF Abort
<1> QED
  BY <1>1, <1>5, <1>6, <1>7, <1>10, <1>11, <1>12, <1>13
     DEF Next, Run, Start, WakeFromBackoff

LEMMA TypeInit == Init => TypeInv
<1> SUFFICES ASSUME Init PROVE TypeInv
  OBVIOUS
<1>1. \A c \in Calls : Budget[c] >= 0 /\ MaxAttempts >= 0
  BY NodeTransportAssumption, BudgetType DEF Init
<1> QED
  BY <1>1 DEF Init, TypeInv, TypeOK, AttemptsOK, Pending, Labels, Kinds

(* What a step of one call keeps of the types and of the counts. *)
LEMMA TypeMove ==
  ASSUME TypeInv, Ears', NEW c \in Calls, Shapes, OnlyOf(c), now' \in Nat,
         nextRequestAt' \in Nat, sent' \subseteq Calls \X Nat, served' \subseteq sent',
         served \subseteq served',
         pc'[c] # "idle", attempts'[c] > 0 \/ pc'[c] = "done",
         attempts'[c] = attempts[c]
            \/ (attempts'[c] <= Budget[c] /\ attempts'[c] <= MaxAttempts),
         pc'[c] = "backing_off" => ~Exhausted(c) /\ attempts'[c] = attempts[c],
         pc'[c] = "reading" => <<c, attempts[c]>> \in served /\ attempts'[c] = attempts[c],
         pc'[c] # "done" => outcome'[c] = outcome[c] /\ pc[c] # "done"
  PROVE  TypeInv'
<1>1. TypeOK'
  BY DEF TypeInv, TypeOK, Ears, Shapes
<1>2. \A d \in Calls : attempts'[d] = attempts[d] => (Exhausted(d)' <=> Exhausted(d))
  BY DEF Exhausted
<1>3. ASSUME NEW d \in Calls
      PROVE  /\ pc'[d] = "idle" => attempts'[d] = 0
             /\ pc'[d] \notin {"idle", "done"} => attempts'[d] > 0
             /\ attempts'[d] <= Budget[d] /\ attempts'[d] <= MaxAttempts
             /\ pc'[d] = "backing_off" => ~Exhausted(d)'
             /\ pc'[d] = "reading" => <<d, attempts'[d]>> \in served'
             /\ pc'[d] # "done" => outcome'[d] = Pending
  <2>1. CASE d = c
    BY <1>2, <2>1 DEF TypeInv, AttemptsOK
  <2>2. CASE d # c
    BY <1>2, <2>2 DEF TypeInv, AttemptsOK, OnlyOf
  <2> QED
    BY <2>1, <2>2
<1>4. Budget' = Budget
  BY DEF Budget
<1> QED
  BY <1>1, <1>3, <1>4 DEF TypeInv, AttemptsOK

LEMMA TypeStep == TypeInv /\ [Next]_vars => TypeInv'
<1> SUFFICES ASSUME TypeInv, [Next]_vars PROVE TypeInv'
  OBVIOUS
<1>0. /\ Ears' /\ now \in Nat /\ nextRequestAt \in Nat /\ Interval \in Nat
      /\ sent \subseteq Calls \X Nat /\ served \subseteq sent
      /\ \A c \in Calls : attempts[c] \in Nat
      /\ \A c \in Calls : pc[c] \notin {"idle", "done"} => attempts[c] > 0
  BY EarsStep, NodeTransportAssumption DEF TypeInv, TypeOK, AttemptsOK
<1>1. ASSUME UNCHANGED <<pc, attempts, timer, outcome, nextRequestAt, sent>>,
             now' \in Nat, served \subseteq served', served' \subseteq sent
      PROVE  TypeInv'
  <2>1. TypeOK'
    BY <1>0, <1>1 DEF TypeInv, TypeOK, Ears
  <2>2. AttemptsOK'
    BY <1>1 DEF TypeInv, AttemptsOK, Exhausted, Budget
  <2> QED
    BY <2>1, <2>2 DEF TypeInv
<1>2. Serve \/ Quiet => TypeInv'
  BY <1>0, <1>1 DEF Serve, Quiet
<1>3. ASSUME NEW c \in Calls, Begins(c) PROVE TypeInv'
  <2>1. /\ attempts[c] + 1 <= Budget[c] /\ attempts[c] + 1 <= MaxAttempts
        /\ attempts'[c] = attempts[c] + 1 /\ attempts'[c] > 0
    <3>1. attempts[c] + 1 <= MaxAttempts /\ MaxAttempts > 0
      BY <1>0, <1>3, NodeTransportAssumption DEF Begins
    <3>2. pc[c] = "idle" => attempts[c] = 0 /\ Budget[c] > 0 /\ Budget[c] \in Nat
      BY <3>1, BudgetType DEF TypeInv, AttemptsOK
    <3>3. pc[c] = "backing_off" => attempts[c] + 1 <= Budget[c]
      BY <1>0, <1>3, BudgetType DEF TypeInv, AttemptsOK, Begins
    <3> QED
      BY <1>0, <1>3, <3>1, <3>2, <3>3 DEF Begins
  <2>2. nextRequestAt' \in Nat /\ pc'[c] \in {"gap", "throttled"} /\ outcome'[c] = outcome[c]
        /\ pc[c] # "done"
    BY <1>0, <1>3 DEF Begins, GoesTo, Larger
  <2> QED
    BY <1>0, <1>3, <2>1, <2>2, TypeMove DEF Begins
<1>4. ASSUME NEW c \in Calls, Stops(c) PROVE TypeInv'
  BY <1>0, <1>4, TypeMove DEF Stops, Settles
<1>5. ASSUME NEW c \in Calls, Wakes(c) PROVE TypeInv'
  BY <1>0, <1>5, TypeMove DEF Wakes, GoesTo
<1>6. ASSUME NEW c \in Calls, Sends(c) PROVE TypeInv'
  <2>1. sent' \subseteq Calls \X Nat /\ served' \subseteq sent'
    BY <1>0, <1>6 DEF Sends
  <2> QED
    BY <1>0, <1>6, <2>1, TypeMove DEF Sends
<1>7. ASSUME NEW c \in Calls, Reads(c) PROVE TypeInv'
  BY <1>0, <1>7, TypeMove DEF Reads
<1>8. ASSUME NEW c \in Calls, Ends(c) PROVE TypeInv'
  <2>1. /\ pc[c] \in {"in_flight", "reading"} /\ Shapes /\ OnlyOf(c)
        /\ UNCHANGED <<now, attempts, nextRequestAt, sent, served>>
    BY <1>8 DEF Ends, wireVars
  <2>2. \/ pc'[c] = "done"
        \/ ~Exhausted(c) /\ pc'[c] = "backing_off" /\ outcome'[c] = outcome[c]
    BY <1>8 DEF Ends, Settles, GoesTo
  <2> QED
    BY <1>0, <2>1, <2>2, TypeMove
<1> QED
  BY <1>2, <1>3, <1>4, <1>5, <1>6, <1>7, <1>8, StepIs

-----------------------------------------------------------------------------
(* The inductive invariant.                                                 *)

(* The requests of c on the wire are its attempts 1 .. k. *)
Exactly(c, k) == \A n \in Nat : <<c, n>> \in sent <=> n \in 1 .. k

Waiting == {"throttled", "gap"}

(* The attempt c is in is not out yet while c is in the throttle. *)
Made(c) == IF pc[c] \in Waiting THEN attempts[c] - 1 ELSE attempts[c]

(* What c is told when it has made k requests. *)
Reported(c, k) ==
    IF outcome[c].kind = "Aborted" THEN outcome[c].attempts <= k
    ELSE outcome[c].attempts = k

MadeInv ==
    \A c \in Calls :
        /\ pc[c] # "done" => Exactly(c, Made(c))
        /\ pc[c] = "done" => \E k \in Nat : Exactly(c, k) /\ Reported(c, k)

(* A timer drops the part of a millisecond: it may fire so much before a turn. *)
Early == Grain - 1

(* The calls whose turn in the schedule comes by t, their requests not out. *)
Granted(t) ==
    sent \cup {<<c, attempts[c]>> :
                  c \in {d \in Calls :
                           \/ pc[d] = "gap"
                           \/ pc[d] = "throttled" /\ timer[d] + Early <= t}}

AllGranted == sent \cup {<<c, attempts[c]>> : c \in {d \in Calls : pc[d] \in Waiting}}

(* The schedule is kept by the turns it has given (#throttle). *)
Turns == [t \in Nat |-> Granted(t)]

PaceInv == OnSchedule(AllGranted, Turns, Interval, nextRequestAt, now + Early)

(* A call that sleeps, or has slept, sleeps as long as the server asked. *)
Owed(c, t) == asked[c].fits => 2 * t + Grain >= 2 * asked[c].until

WaitInv ==
    /\ asked \in [Calls -> [until : Nat, fits : BOOLEAN]]
    /\ \A c \in Calls :
          /\ pc[c] = "idle" => asked[c] = Nothing
          /\ pc[c] = "backing_off" => Owed(c, timer[c])
          /\ pc[c] \in Waiting => Owed(c, now)

NodeInv == TypeInv /\ MadeInv /\ WaitInv

-----------------------------------------------------------------------------
(* What a call has made, and what it is told.                               *)

LEMMA MadeKept ==
  ASSUME MadeInv, NEW c \in Calls, OnlyOf(c),
         \A n \in Nat, d \in Calls : d # c => (<<d, n>> \in sent' <=> <<d, n>> \in sent),
         pc'[c] # "done" => Exactly(c, Made(c))',
         pc'[c] = "done" => \E k \in Nat : Exactly(c, k)' /\ Reported(c, k)'
  PROVE  MadeInv'
<1>1. ASSUME NEW d \in Calls, d # c
      PROVE  /\ pc'[d] = pc[d] /\ Made(d)' = Made(d)
             /\ \A k : Exactly(d, k)' <=> Exactly(d, k)
             /\ \A k : Reported(d, k)' <=> Reported(d, k)
  BY <1>1 DEF OnlyOf, Made, Exactly, Reported
<1> QED
  BY <1>1 DEF MadeInv

(* Every step keeps count of what a call has put on the wire. *)
LEMMA MadeStep == TypeInv /\ MadeInv /\ [Next]_vars => MadeInv'
<1> SUFFICES ASSUME TypeInv, MadeInv, [Next]_vars PROVE MadeInv'
  OBVIOUS
<1>0. \A c \in Calls : attempts[c] \in Nat /\ (pc[c] \in Waiting => attempts[c] > 0)
  BY DEF TypeInv, TypeOK, AttemptsOK, Waiting
<1>1. Serve \/ Quiet => MadeInv'
  BY DEF Serve, Quiet, MadeInv, Made, Exactly, Reported
<1>2. ASSUME NEW c \in Calls, OnlyOf(c), sent' = sent, pc[c] # "done", NEW kind, NEW n,
             Settles(c, kind, n),
             IF kind = "Aborted" THEN n <= Made(c) ELSE n = Made(c)
      PROVE  MadeInv'
  <2>1. Exactly(c, Made(c)) /\ Made(c) \in Nat
    BY <1>0, <1>2 DEF MadeInv, Made
  <2>2. outcome'[c].kind = kind /\ outcome'[c].attempts = n
    BY <1>2 DEF Settles, Ended
  <2>3. \A k \in Nat : k = Made(c) => Exactly(c, k)' /\ Reported(c, k)'
    BY <1>2, <2>1, <2>2 DEF Exactly, Reported
  <2> QED
    BY <1>2, <2>1, <2>3, MadeKept DEF Settles
<1>3. ASSUME NEW c \in Calls, OnlyOf(c), sent' = sent, pc[c] # "done",
             pc'[c] # "done", Made(c)' = Made(c)
      PROVE  MadeInv'
  <2>1. Exactly(c, Made(c))'
    BY <1>3 DEF MadeInv, Exactly
  <2> QED
    BY <1>3, <2>1, MadeKept
<1>4. ASSUME NEW c \in Calls, Begins(c) PROVE MadeInv'
  <2>1. pc'[c] \in Waiting /\ Made(c)' = Made(c)
    BY <1>0, <1>4 DEF Begins, GoesTo, Made, Waiting
  <2> QED
    BY <1>3, <1>4, <2>1 DEF Begins, Waiting
<1>5. ASSUME NEW c \in Calls, Stops(c) PROVE MadeInv'
  <2>1. 0 <= Made(c)
    BY <1>0, <1>5 DEF Stops, Made
  <2> QED
    BY <1>2, <1>5, <2>1 DEF Stops
<1>6. ASSUME NEW c \in Calls, Wakes(c) PROVE MadeInv'
  BY <1>3, <1>6 DEF Wakes, GoesTo, Made, Waiting
<1>7. ASSUME NEW c \in Calls, Sends(c) PROVE MadeInv'
  <2>1. /\ Made(c) = attempts[c] - 1 /\ Made(c)' = attempts[c]
        /\ attempts[c] \in Nat \ {0}
    BY <1>0, <1>7 DEF Sends, Made, Waiting
  <2>2. \A n \in Nat : n \in 1 .. attempts[c] <=> n \in 1 .. attempts[c] - 1 \/ n = attempts[c]
    BY <2>1
  <2>3. Exactly(c, Made(c))'
    BY <1>7, <2>1, <2>2 DEF MadeInv, Exactly, Sends
  <2> QED
    BY <1>7, <2>3, MadeKept DEF Sends
<1>8. ASSUME NEW c \in Calls, Reads(c) PROVE MadeInv'
  BY <1>3, <1>8 DEF Reads, Made, Waiting
<1>9. ASSUME NEW c \in Calls, Ends(c) PROVE MadeInv'
  <2>1. /\ OnlyOf(c) /\ UNCHANGED <<attempts, sent>> /\ pc[c] \in {"in_flight", "reading"}
        /\ Made(c) = attempts[c] /\ attempts[c] <= attempts[c]
    BY <1>0, <1>9 DEF Ends, wireVars, Made, Waiting
  <2>2. CASE \E kind : Settles(c, kind, attempts[c])
    BY <1>2, <2>1, <2>2
  <2>3. CASE pc'[c] = "backing_off"
    BY <1>3, <2>1, <2>3 DEF Made, Waiting
  <2> QED
    BY <1>9, <2>2, <2>3 DEF Ends, GoesTo
<1> QED
  BY <1>1, <1>4, <1>5, <1>6, <1>7, <1>8, <1>9, StepIs

-----------------------------------------------------------------------------
(* The pace.                                                                *)

LEMMA PaceKept ==
  ASSUME TypeInv, PaceInv, AllGranted' \subseteq AllGranted,
         nextRequestAt' = nextRequestAt, now' \in Nat, now' >= now,
         \A t \in Nat : t >= (now + Early)' => Granted(t)' \subseteq Granted(t)
  PROVE  PaceInv'
<1>1. /\ now + Early \in Nat /\ nextRequestAt \in Nat /\ Interval \in Nat
      /\ (now + Early)' \in Nat /\ now + Early <= (now + Early)'
  <2>1. now \in Nat /\ nextRequestAt \in Nat /\ Interval \in Nat
    BY NodeTransportAssumption DEF TypeInv, TypeOK
  <2>2. Early \in Nat
    BY RetryPolicyAssumption DEF Early
  <2> QED
    BY <2>1, <2>2 DEF Early
<1>2. \A t \in Nat : Turns'[t] \subseteq AllGranted'
  BY DEF Turns, Granted, AllGranted, Waiting
<1>3. \A t \in Nat : t >= (now + Early)' => Turns'[t] \subseteq Turns[t]
  BY DEF Turns
<1> QED
  BY <1>1, <1>2, <1>3, ScheduleKept DEF PaceInv

(* No turn is further ahead than the longest timer. *)
ThrottleHolds == nextRequestAt <= now + TimeoutMax * Grain

LEMMA ThrottleTimer ==
  ASSUME TypeInv, ThrottleHolds, NEW c \in Calls, Begins(c), pc'[c] = "throttled"
  PROVE  /\ nextRequestAt > now /\ nextRequestAt' = nextRequestAt + Interval
         /\ timer'[c] \in Nat /\ timer'[c] + Early >= nextRequestAt
<1>1. /\ now \in Nat /\ nextRequestAt \in Nat /\ TimeoutMax * Grain \in Nat
      /\ Grain \in Nat \ {0} /\ nextRequestAt <= now + TimeoutMax * Grain
  BY NodeTransportAssumption, RetryPolicyAssumption
     DEF TypeInv, TypeOK, ThrottleHolds
<1>2. /\ nextRequestAt > now /\ timer'[c] = now + Timer(nextRequestAt - now)
      /\ nextRequestAt' = Larger(now, nextRequestAt) + Interval
  BY DEF Begins, GoesTo
<1>3. nextRequestAt - now \in Nat /\ nextRequestAt - now <= TimeoutMax * Grain
  BY <1>1, <1>2
<1>4. /\ Timer(nextRequestAt - now) \in Nat
      /\ Timer(nextRequestAt - now) + (Grain - 1) >= nextRequestAt - now
  BY <1>3, TimerIs
<1> QED
  BY <1>1, <1>2, <1>4 DEF Early, Larger

LEMMA PaceClaim ==
  ASSUME TypeInv, ThrottleHolds, PaceInv, NEW c \in Calls, Begins(c) PROVE PaceInv'
<1> DEFINE turn == Larger(now, nextRequestAt)
           x == <<c, attempts[c] + 1>>
           seen == now + Early
<1>1. /\ now \in Nat /\ nextRequestAt \in Nat /\ Interval \in Nat /\ Early \in Nat
      /\ turn \in Nat /\ turn >= nextRequestAt /\ seen \in Nat /\ seen >= now
  BY NodeTransportAssumption, RetryPolicyAssumption DEF TypeInv, TypeOK, Larger, Early
<1>2. /\ OnlyOf(c) /\ attempts'[c] = attempts[c] + 1 /\ UNCHANGED <<now, sent>>
      /\ pc[c] \notin Waiting
  BY DEF Begins, Waiting
<1>3. AllGranted' \subseteq AllGranted \cup {x}
  BY <1>2 DEF AllGranted, OnlyOf
<1>4. \A t \in Nat : Granted(t)' \subseteq Granted(t) \cup {x}
  BY <1>2 DEF Granted, OnlyOf
<1>5. \/ Interval = 0 /\ nextRequestAt' = nextRequestAt
      \/ nextRequestAt' = turn + Interval
  BY DEF Begins
<1>6. ASSUME NEW t \in Nat, t >= seen, Interval # 0, t < turn
      PROVE  Granted(t)' \subseteq Granted(t)
  <2>1. pc'[c] = "throttled" /\ t < nextRequestAt
    BY <1>1, <1>6 DEF Begins, GoesTo, Larger
  <2>2. ~(timer'[c] + Early <= t)
    BY <1>1, <2>1, ThrottleTimer
  <2>3. UNCHANGED Early
    BY DEF Early
  <2> QED
    BY <1>2, <2>1, <2>2, <2>3 DEF Granted, OnlyOf
<1>7. \A t \in Nat : Turns'[t] \subseteq AllGranted'
  BY DEF Turns, Granted, AllGranted, Waiting
<1> HIDE DEF turn, x
<1>8. nextRequestAt' \in Nat
  BY <1>1, <1>5
<1>9. Claimed(x, turn, AllGranted, AllGranted', Turns, Turns', Interval,
              nextRequestAt, nextRequestAt', seen)
  BY <1>1, <1>3, <1>4, <1>5, <1>6, <1>7 DEF Claimed, Turns
<1>10. OnSchedule(AllGranted, Turns, Interval, nextRequestAt, seen) /\ seen' = seen
  BY <1>2 DEF PaceInv, Early
<1> HIDE DEF seen
<1>11. OnSchedule(AllGranted', Turns', Interval, nextRequestAt', seen)
  BY <1>1, <1>8, <1>9, <1>10, ScheduleClaimed
<1> QED
  BY <1>10, <1>11 DEF PaceInv, seen

LEMMA PaceStep == TypeInv /\ ThrottleHolds /\ PaceInv /\ [Next]_vars => PaceInv'
<1> SUFFICES ASSUME TypeInv, ThrottleHolds, PaceInv, [Next]_vars PROVE PaceInv'
  OBVIOUS
<1>0. now \in Nat /\ timer \in [Calls -> Nat] /\ Early \in Nat /\ UNCHANGED Early
  BY RetryPolicyAssumption DEF TypeInv, TypeOK, Early
<1>1. Serve \/ Quiet => PaceInv'
  BY <1>0, PaceKept DEF Serve, Quiet, Granted, AllGranted
<1>2. ASSUME NEW c \in Calls, OnlyOf(c), attempts' = attempts, pc'[c] \notin Waiting,
             UNCHANGED <<now, nextRequestAt>>,
             \/ sent' = sent
             \/ pc[c] = "gap" /\ sent' = sent \cup {<<c, attempts[c]>>}
      PROVE  PaceInv'
  <2>1. AllGranted' \subseteq AllGranted
    BY <1>2 DEF AllGranted, OnlyOf, Waiting
  <2>2. \A t \in Nat : Granted(t)' \subseteq Granted(t)
    BY <1>2 DEF Granted, OnlyOf, Waiting
  <2> QED
    BY <1>0, <1>2, <2>1, <2>2, PaceKept
<1>3. ASSUME NEW c \in Calls, Stops(c) \/ Sends(c) \/ Reads(c) \/ Ends(c) PROVE PaceInv'
  BY <1>2, <1>3 DEF Stops, Sends, Reads, Ends, Settles, GoesTo, Waiting, wireVars
<1>4. ASSUME NEW c \in Calls, Wakes(c) PROVE PaceInv'
  <2>1. AllGranted' \subseteq AllGranted
    BY <1>4 DEF Wakes, GoesTo, AllGranted, OnlyOf, Waiting
  <2>2. ASSUME NEW t \in Nat, t >= (now + Early)' PROVE Granted(t)' \subseteq Granted(t)
    <3>1. timer[c] + Early <= t
      BY <1>0, <1>4, <2>2 DEF Wakes
    <3> QED
      BY <1>4, <3>1 DEF Wakes, GoesTo, Granted, OnlyOf
  <2> QED
    BY <1>0, <1>4, <2>1, <2>2, PaceKept DEF Wakes
<1> QED
  BY <1>1, <1>3, <1>4, PaceClaim, StepIs

-----------------------------------------------------------------------------
(* The wait the server asked for.                                           *)

LEMMA WaitStep == TypeInv /\ WaitInv /\ [Next]_vars => WaitInv'
<1> SUFFICES ASSUME TypeInv, WaitInv, [Next]_vars PROVE WaitInv'
  OBVIOUS
<1>0. /\ now \in Nat /\ Grain \in Nat \ {0} /\ timer \in [Calls -> Nat]
      /\ asked \in [Calls -> [until : Nat, fits : BOOLEAN]]
  BY RetryPolicyAssumption DEF TypeInv, TypeOK, WaitInv
<1>1. Serve \/ Quiet => WaitInv'
  <2> SUFFICES ASSUME UNCHANGED <<pc, timer, asked>>, now' \in Nat, now' >= now
               PROVE  WaitInv'
    BY <1>0 DEF Serve, Quiet
  <2>1. \A c \in Calls : Owed(c, now) => Owed(c, now)'
    <3>1. \A c \in Calls : asked[c].until \in Nat
      BY <1>0
    <3> QED
      BY <1>0, <3>1 DEF Owed
  <2>2. \A c \in Calls : Owed(c, timer[c]) => Owed(c, timer[c])'
    BY DEF Owed
  <2> QED
    BY <2>1, <2>2 DEF WaitInv
<1>2. ASSUME NEW c \in Calls, OnlyOf(c), now' = now,
             asked' \in [Calls -> [until : Nat, fits : BOOLEAN]],
             \A d \in Calls : d # c => asked'[d] = asked[d],
             pc'[c] # "idle",
             pc'[c] = "backing_off" => Owed(c, timer[c])',
             pc'[c] \in Waiting => Owed(c, now)'
      PROVE  WaitInv'
  <2>1. ASSUME NEW d \in Calls, d # c
        PROVE  /\ pc'[d] = pc[d] /\ asked'[d] = asked[d]
               /\ Owed(d, timer[d]) => Owed(d, timer[d])'
               /\ Owed(d, now) => Owed(d, now)'
    BY <1>2, <2>1 DEF OnlyOf, Owed
  <2> QED
    BY <1>2, <2>1 DEF WaitInv
<1>3. ASSUME NEW c \in Calls, OnlyOf(c), UNCHANGED <<now, asked>>,
             pc'[c] \notin {"idle", "backing_off"}, pc'[c] \in Waiting => Owed(c, now)
      PROVE  WaitInv'
  <2>1. Owed(c, now)' <=> Owed(c, now)
    BY <1>3 DEF Owed
  <2> QED
    BY <1>0, <1>2, <1>3, <2>1
<1>4. ASSUME NEW c \in Calls, Begins(c) PROVE WaitInv'
  <2>1. Owed(c, now)
    <3>1. pc[c] = "idle" => Owed(c, now)
      BY <1>0 DEF WaitInv, Owed, Nothing
    <3>2. pc[c] = "backing_off" => Owed(c, timer[c]) /\ timer[c] <= now
      BY <1>0, <1>4 DEF WaitInv, Begins
    <3>3. asked[c].until \in Nat /\ timer[c] \in Nat
      BY <1>0
    <3> QED
      BY <1>0, <1>4, <3>1, <3>2, <3>3 DEF Begins, Owed
  <2>2. pc'[c] \in Waiting
    BY <1>4 DEF Begins, GoesTo, Waiting
  <2> QED
    BY <1>3, <1>4, <2>1, <2>2 DEF Begins, Waiting
<1>5. ASSUME NEW c \in Calls, Stops(c) \/ Reads(c) PROVE WaitInv'
  BY <1>3, <1>5 DEF Stops, Reads, Settles, Waiting
<1>6. ASSUME NEW c \in Calls, Wakes(c) PROVE WaitInv'
  <2>1. Owed(c, now)
    BY <1>6 DEF WaitInv, Waiting, Wakes
  <2> QED
    BY <1>3, <1>6, <2>1 DEF Wakes, GoesTo
<1>7. ASSUME NEW c \in Calls, Sends(c) PROVE WaitInv'
  BY <1>0, <1>2, <1>7 DEF Sends, Waiting, Nothing
<1>8. ASSUME NEW c \in Calls, Ends(c) PROVE WaitInv'
  <2>1. OnlyOf(c) /\ now' = now
    BY <1>8 DEF Ends
  <2>2. CASE pc'[c] = "done" /\ UNCHANGED asked
    BY <1>3, <2>1, <2>2 DEF Waiting
  <2>3. ASSUME NEW due \in Nat, NEW until \in Nat, GoesTo(c, "backing_off", due),
               asked' = [asked EXCEPT ![c] = Wait(until)],
               Wait(until).fits => 2 * due + Grain >= 2 * until
        PROVE  WaitInv'
    <3>1. /\ asked' \in [Calls -> [until : Nat, fits : BOOLEAN]]
          /\ asked'[c] = Wait(until) /\ Wait(until).until = until
          /\ \A d \in Calls : d # c => asked'[d] = asked[d]
      BY <1>0, <2>3 DEF Wait
    <3>2. Owed(c, timer[c])' /\ pc'[c] = "backing_off"
      BY <2>3, <3>1 DEF Owed, GoesTo
    <3> QED
      BY <1>2, <2>1, <3>1, <3>2 DEF Waiting
  <2> QED
    BY <1>8, <2>2, <2>3 DEF Ends, Settles
<1> QED
  BY <1>1, <1>4, <1>5, <1>6, <1>7, <1>8, StepIs

-----------------------------------------------------------------------------
(* The theorems.                                                            *)

LEMMA NodeInit == Init => NodeInv
<1> SUFFICES ASSUME Init PROVE NodeInv
  OBVIOUS
<1>1. MadeInv
  BY DEF Init, MadeInv, Exactly, Made, Waiting
<1>2. WaitInv
  BY RetryPolicyAssumption DEF Init, WaitInv, Waiting, Nothing
<1> QED
  BY <1>1, <1>2, TypeInit DEF NodeInv

LEMMA NodeInvariant == Spec => []NodeInv
<1>1. NodeInv /\ [Next]_vars => NodeInv'
  BY TypeStep, MadeStep, WaitStep DEF NodeInv
<1> QED
  BY <1>1, NodeInit, PTL DEF Spec

(* Every variable holds a value the code can give it, whatever policies the
   client and its requests pass (Transport.send). *)
THEOREM NodeTypeTheorem == Spec => []TypeOK
<1>1. NodeInv => TypeOK
  BY DEF NodeInv, TypeInv
<1> QED
  BY <1>1, NodeInvariant, PTL

(* The attempts that a result or an error carries are the requests the call
   made, and an abort never reports more of them (Transport.send). *)
THEOREM NodeAttemptsTheorem == Spec => []AttemptsReported
<1>1. NodeInv => AttemptsReported
  <2> SUFFICES ASSUME NodeInv, NEW c \in Calls, outcome[c].kind # "pending"
               PROVE  LET made == Cardinality({r \in sent : r[1] = c})
                      IN  IF outcome[c].kind = "Aborted"
                          THEN outcome[c].attempts <= made
                          ELSE outcome[c].attempts = made
    BY DEF AttemptsReported
  <2>1. pc[c] = "done"
    <3>1. pc[c] # "done" => outcome[c] = Pending
      BY DEF NodeInv, TypeInv, AttemptsOK
    <3> QED
      BY <3>1 DEF Pending
  <2>2. PICK k \in Nat : Exactly(c, k) /\ Reported(c, k)
    BY <2>1 DEF NodeInv, MadeInv
  <2>3. \A r \in sent : r = <<r[1], r[2]>> /\ r[2] \in Nat
    BY DEF NodeInv, TypeInv, TypeOK
  <2>4. Cardinality({r \in sent : r[1] = c}) = k
    BY <2>2, <2>3, AttemptsCounted DEF Exactly
  <2> QED
    BY <2>2, <2>4 DEF Reported
<1> QED
  BY <1>1, NodeInvariant, PTL

(* Once the signal of a call has fired it begins no attempt, whether it heard
   the signal or not (throwIfAborted). *)
THEOREM NodeAbortTheorem == Spec => AbortStopsRetries
<1>1. NodeInv /\ [Next]_vars =>
        [\A c \in Calls : aborted[c] => attempts'[c] = attempts[c]]_vars
  <2> SUFFICES ASSUME NodeInv, Next, NEW c \in Calls, aborted[c]
               PROVE  attempts'[c] = attempts[c]
    OBVIOUS
  <2>1. ASSUME NEW d \in Calls, BeginAttempt(d) PROVE attempts'[c] = attempts[c]
    <3>1. attempts' = attempts \/ (d # c /\ attempts' = [attempts EXCEPT ![d] = @ + 1])
      BY <2>1 DEF BeginAttempt
    <3> QED
      BY <3>1 DEF NodeInv, TypeInv, TypeOK
  <2>2. attempts' = attempts \/ \E d \in Calls : BeginAttempt(d)
    BY DEF Next, Run, Serve, Tick, Start, WakeFromThrottle, SendRequest,
       ReceiveHeaders, ReceiveBody, FetchFails, TimerFires, WakeFromBackoff, Abort
  <2> QED
    BY <2>1, <2>2
<1> QED
  BY <1>1, NodeInvariant, PTL DEF Spec, AbortStopsRetries

(* A new request is the next attempt of its call, and not among those sent. *)
LEMMA SendIsNew ==
  ASSUME TypeInv, MadeInv, NEW c \in Calls, pc[c] = "gap"
  PROVE  <<c, attempts[c]>> \notin sent
<1>1. attempts[c] \in Nat
  BY DEF TypeInv, TypeOK
<1>2. Exactly(c, attempts[c] - 1)
  BY DEF MadeInv, Made, Waiting
<1> QED
  BY <1>1, <1>2 DEF Exactly

(* The steps of the transport are those of RateCeiling. *)
LEMMA CeilingStep ==
  NodeInv /\ PaceInv /\ [Next]_vars => [Ceiling!Next]_(Ceiling!ceilingVars)
<1> SUFFICES ASSUME NodeInv, PaceInv, [Next]_vars
             PROVE  [Ceiling!Next]_(Ceiling!ceilingVars)
  OBVIOUS
<1>0. now \in Nat /\ Interval \in Nat /\ Early \in Nat /\ now + Early \in Nat
  BY NodeTransportAssumption, RetryPolicyAssumption
     DEF NodeInv, TypeInv, TypeOK, Early
<1>1. CASE Quiet
  BY <1>0, <1>1 DEF Quiet, Ceiling!Next, Ceiling!Pass, Ceiling!ceilingVars
<1>2. UNCHANGED <<now, sent>> => UNCHANGED Ceiling!ceilingVars
  BY DEF Ceiling!ceilingVars
<1>3. ASSUME NEW c \in Calls, Sends(c) PROVE Ceiling!Release
  <2>1. /\ sent \subseteq Turns[now + Early]
        /\ <<c, attempts[c]>> \in Turns[now + Early] \ sent
    BY <1>0, <1>3, SendIsNew DEF Turns, Granted, Sends, NodeInv
  <2>2. /\ Cardinality(sent \cup {<<c, attempts[c]>>}) = Cardinality(sent) + 1
        /\ Cardinality(sent) * Interval <= now + Early
    BY <1>0, <2>1, TurnFits DEF PaceInv
  <2> QED
    BY <1>3, <2>2 DEF Sends, Ceiling!Release, Early
<1>4. ASSUME NEW c \in Calls,
             Begins(c) \/ Stops(c) \/ Wakes(c) \/ Reads(c) \/ Ends(c)
      PROVE  UNCHANGED <<now, sent>>
  BY <1>4 DEF Begins, Stops, Wakes, Reads, Ends, wireVars
<1>5. Serve => UNCHANGED <<now, sent>>
  BY DEF Serve
<1> QED
  BY <1>1, <1>2, <1>3, <1>4, <1>5, StepIs DEF NodeInv, Ceiling!Next

LEMMA PaceInit == Init => PaceInv
<1> SUFFICES ASSUME Init PROVE PaceInv
  OBVIOUS
<1>1. AllGranted = {} /\ \A t \in Nat : Turns[t] = {}
  BY DEF Init, AllGranted, Turns, Granted, Waiting
<1>2. IsFiniteSet({}) /\ Cardinality({}) = 0
  BY FS_EmptySet
<1>3. /\ nextRequestAt = 0 /\ 0 * Interval <= 0
      /\ \A t \in Nat : (0 - 1) * Interval <= t
  BY NodeTransportAssumption DEF Init
<1> QED
  BY <1>1, <1>2, <1>3 DEF PaceInv, OnSchedule, Paced

(* The throttle, with no lock on its event loop, keeps the promise of
   RateCeiling for as long as its schedule does not run further ahead than a
   timer can wait: aborted calls, whose turns are lost, included (#throttle). *)
THEOREM NodeCeilingTheorem == Spec /\ []ThrottleHolds => ImplementsRateCeiling
<1>1. Init => Ceiling!Init
  BY FS_EmptySet DEF Init, Ceiling!Init
<1>2. NodeInv /\ ThrottleHolds /\ PaceInv /\ [Next]_vars => PaceInv'
  BY PaceStep DEF NodeInv
<1> QED
  BY <1>1, <1>2, PaceInit, CeilingStep, NodeInvariant, PTL
     DEF Spec, ImplementsRateCeiling, Ceiling!Spec

-----------------------------------------------------------------------------
(* How far ahead the schedule runs.                                         *)

(* Those that hold a place after t, or may have given one up. *)
Holders(t) ==
    {c \in Calls : pc[c] = "done" \/ (pc[c] = "throttled" /\ timer[c] > t)}

NearInv ==
    \A t \in Nat : t >= now =>
        nextRequestAt <= t + Grain + (Cardinality(Holders(t)) + 1) * Interval

(* What the schedule may run ahead by, at most, fits a timer. *)
Roomy ==
    /\ IsFiniteSet(Calls)
    /\ Grain + (Cardinality(Calls) + 1) * Interval <= TimeoutMax * Grain

LEMMA HoldersSize ==
  ASSUME IsFiniteSet(Calls), NEW S \in SUBSET Calls, NEW T \in SUBSET S
  PROVE  /\ Cardinality(S) \in Nat /\ Cardinality(T) \in Nat
         /\ (Cardinality(T) + 1) * Interval <= (Cardinality(S) + 1) * Interval
         /\ (Cardinality(T) + 1) * Interval \in Nat
         /\ (Cardinality(S) + 1) * Interval \in Nat
<1>1. IsFiniteSet(S) /\ IsFiniteSet(T) /\ Cardinality(T) <= Cardinality(S)
  BY FS_Subset
<1>2. Cardinality(S) \in Nat /\ Cardinality(T) \in Nat /\ Interval \in Nat
  BY <1>1, FS_CardinalityType, NodeTransportAssumption
<1>3. (Cardinality(T) + 1) * Interval <= (Cardinality(S) + 1) * Interval
  BY <1>1, <1>2, ProductMonotonic
<1> QED
  BY <1>2, <1>3

LEMMA NearKept ==
  ASSUME TypeInv, IsFiniteSet(Calls), NearInv, now' \in Nat, now' >= now,
         nextRequestAt' = nextRequestAt,
         \A t \in Nat : t >= now' => Holders(t) \subseteq Holders(t)'
  PROVE  NearInv'
<1> SUFFICES ASSUME NEW t \in Nat, t >= now'
             PROVE  nextRequestAt <= t + Grain + (Cardinality(Holders(t)') + 1) * Interval
  BY DEF NearInv
<1>1. now \in Nat /\ nextRequestAt \in Nat /\ Grain \in Nat
  BY RetryPolicyAssumption DEF TypeInv, TypeOK
<1>2. nextRequestAt <= t + Grain + (Cardinality(Holders(t)) + 1) * Interval
  BY <1>1 DEF NearInv
<1>3. /\ (Cardinality(Holders(t)) + 1) * Interval
               <= (Cardinality(Holders(t)') + 1) * Interval
      /\ (Cardinality(Holders(t)) + 1) * Interval \in Nat
      /\ (Cardinality(Holders(t)') + 1) * Interval \in Nat
  <2>1. Holders(t)' \in SUBSET Calls /\ Holders(t) \in SUBSET Holders(t)'
    BY DEF Holders
  <2> QED
    BY <2>1, HoldersSize
<1> QED
  BY <1>1, <1>2, <1>3

LEMMA NearHolds == ASSUME TypeInv, Roomy, NearInv PROVE ThrottleHolds
<1>1. /\ now \in Nat /\ nextRequestAt \in Nat /\ Grain \in Nat
      /\ TimeoutMax * Grain \in Nat
  BY RetryPolicyAssumption, NodeTransportAssumption DEF TypeInv, TypeOK
<1>2. nextRequestAt <= now + Grain + (Cardinality(Holders(now)) + 1) * Interval
  BY <1>1 DEF NearInv
<1>3. /\ (Cardinality(Holders(now)) + 1) * Interval <= (Cardinality(Calls) + 1) * Interval
      /\ (Cardinality(Holders(now)) + 1) * Interval \in Nat
      /\ (Cardinality(Calls) + 1) * Interval \in Nat
  BY HoldersSize DEF Holders, Roomy
<1> QED
  BY <1>1, <1>2, <1>3 DEF ThrottleHolds, Roomy

LEMMA NearClaim ==
  ASSUME TypeInv, Roomy, NearInv, NEW c \in Calls, Begins(c) PROVE NearInv'
<1>1. /\ now \in Nat /\ nextRequestAt \in Nat /\ Grain \in Nat \ {0} /\ Interval \in Nat
      /\ ThrottleHolds /\ now' = now /\ IsFiniteSet(Calls)
  BY RetryPolicyAssumption, NodeTransportAssumption, NearHolds
     DEF TypeInv, TypeOK, Begins, Roomy
<1>2. OnlyOf(c) /\ pc[c] \notin {"throttled", "done"}
  BY DEF Begins
<1>3. \A t : Holders(t) \subseteq Holders(t)'
  BY <1>2 DEF Holders, OnlyOf
<1>4. CASE nextRequestAt' = nextRequestAt
  BY <1>1, <1>3, <1>4, NearKept
<1>5. CASE pc'[c] = "throttled"
  <2> SUFFICES ASSUME NEW t \in Nat, t >= now
               PROVE  nextRequestAt'
                         <= t + Grain + (Cardinality(Holders(t)') + 1) * Interval
    BY <1>1 DEF NearInv
  <2>1. /\ nextRequestAt' = nextRequestAt + Interval
        /\ timer'[c] \in Nat /\ timer'[c] + Early >= nextRequestAt
    BY <1>1, <1>5, ThrottleTimer
  <2>2. Holders(t) \in SUBSET Holders(t)' /\ Holders(t)' \in SUBSET Calls
    BY <1>3 DEF Holders
  <2>3. Cardinality(Holders(t)) \in Nat /\ Cardinality(Holders(t)') \in Nat
    BY <1>1, <2>2, HoldersSize
  <2>4. (Cardinality(Holders(t)') + 1) * Interval
           = Cardinality(Holders(t)') * Interval + Interval
        /\ Cardinality(Holders(t)') * Interval \in Nat
    BY <1>1, <2>3
  <2>5. CASE timer'[c] <= t
    BY <1>1, <2>1, <2>4, <2>5 DEF Early
  <2>6. CASE timer'[c] > t
    <3>1. Holders(t) \cup {c} \subseteq Holders(t)' /\ c \notin Holders(t)
      BY <1>2, <1>3, <1>5, <2>6 DEF Holders
    <3>2. Cardinality(Holders(t)) + 1 <= Cardinality(Holders(t)')
      <4>1. IsFiniteSet(Holders(t)) /\ IsFiniteSet(Holders(t)')
        BY <1>1, <2>2, FS_Subset
      <4>2. Cardinality(Holders(t) \cup {c}) = Cardinality(Holders(t)) + 1
        BY <3>1, <4>1, FS_AddElement
      <4>3. Cardinality(Holders(t) \cup {c}) <= Cardinality(Holders(t)')
        BY <3>1, <4>1, FS_Subset
      <4> QED
        BY <4>2, <4>3
    <3>3. /\ (Cardinality(Holders(t)) + 1) * Interval <= Cardinality(Holders(t)') * Interval
          /\ (Cardinality(Holders(t)) + 1) * Interval \in Nat
      BY <1>1, <2>3, <3>2, ProductMonotonic
    <3>4. nextRequestAt <= t + Grain + (Cardinality(Holders(t)) + 1) * Interval
      BY DEF NearInv
    <3> QED
      BY <1>1, <2>1, <2>4, <3>3, <3>4
  <2> QED
    BY <1>1, <2>1, <2>5, <2>6
<1>6. CASE nextRequestAt <= now /\ nextRequestAt' = Larger(now, nextRequestAt) + Interval
  <2> SUFFICES ASSUME NEW t \in Nat, t >= now
               PROVE  now + Interval
                         <= t + Grain + (Cardinality(Holders(t)') + 1) * Interval
    BY <1>1, <1>6 DEF NearInv, Larger
  <2>1. Cardinality(Holders(t)') \in Nat
    BY <1>1, HoldersSize DEF Holders
  <2>2. (Cardinality(Holders(t)') + 1) * Interval
           = Cardinality(Holders(t)') * Interval + Interval
        /\ Cardinality(Holders(t)') * Interval \in Nat
    BY <1>1, <2>1
  <2> QED
    BY <1>1, <2>2
<1> QED
  BY <1>1, <1>4, <1>5, <1>6 DEF Begins, GoesTo

LEMMA NearStep ==
  ASSUME Roomy PROVE TypeInv /\ NearInv /\ [Next]_vars => NearInv'
<1> SUFFICES ASSUME TypeInv, NearInv, [Next]_vars PROVE NearInv'
  OBVIOUS
<1>0. now \in Nat /\ timer \in [Calls -> Nat] /\ IsFiniteSet(Calls)
  BY DEF TypeInv, TypeOK, Roomy
<1>1. Serve \/ Quiet => NearInv'
  BY <1>0, NearKept DEF Serve, Quiet, Holders
<1>2. ASSUME NEW c \in Calls, OnlyOf(c), UNCHANGED <<now, nextRequestAt>>,
             \/ pc'[c] = "done"
             \/ pc[c] # "done" /\ (pc[c] = "throttled" => timer[c] <= now)
      PROVE  NearInv'
  <2>1. \A t \in Nat : t >= now => Holders(t) \subseteq Holders(t)'
    BY <1>0, <1>2 DEF Holders, OnlyOf
  <2> QED
    BY <1>0, <1>2, <2>1, NearKept
<1>3. ASSUME NEW c \in Calls,
             Stops(c) \/ Wakes(c) \/ Sends(c) \/ Reads(c) \/ Ends(c)
      PROVE  NearInv'
  BY <1>0, <1>2, <1>3 DEF Stops, Wakes, Sends, Reads, Ends, Settles
<1> QED
  BY <1>1, <1>3, NearClaim, StepIs

LEMMA NearAlways == ASSUME Roomy PROVE Spec => []NearInv
<1>1. Init => NearInv
  <2> SUFFICES ASSUME Init, NEW t \in Nat
               PROVE  0 <= t + Grain + (Cardinality(Holders(t)) + 1) * Interval
    BY DEF Init, NearInv
  <2>1. (Cardinality(Holders(t)) + 1) * Interval \in Nat /\ Grain \in Nat
    BY HoldersSize, RetryPolicyAssumption DEF Holders, Roomy
  <2> QED
    BY <2>1
<1>2. NodeInv /\ NearInv /\ [Next]_vars => NearInv'
  BY NearStep DEF NodeInv
<1> QED
  BY <1>1, <1>2, NodeInvariant, PTL DEF Spec

(* The schedule runs ahead of the clock by no more than the calls that wait
   in it, or are over, account for, when there are not so many that a timer
   could not wait for the last of them (#throttle). *)
THEOREM NodeScheduleTheorem == ASSUME Roomy PROVE Spec => []ScheduleStaysNear
<1>1. NodeInv /\ NearInv => ScheduleStaysNear
  <2> SUFFICES ASSUME NodeInv, NearInv
               PROVE  LET holders == {c \in Calls : pc[c] \in {"throttled", "done"}}
                      IN  nextRequestAt <= now + Grain + (Cardinality(holders) + 1) * Interval
    BY DEF ScheduleStaysNear
  <2> DEFINE holders == {c \in Calls : pc[c] \in {"throttled", "done"}}
  <2>1. now \in Nat /\ nextRequestAt \in Nat /\ Grain \in Nat
    BY RetryPolicyAssumption DEF NodeInv, TypeInv, TypeOK
  <2>2. nextRequestAt <= now + Grain + (Cardinality(Holders(now)) + 1) * Interval
    BY <2>1 DEF NearInv
  <2>3. Holders(now) \in SUBSET holders /\ holders \in SUBSET Calls
    BY DEF Holders
  <2> HIDE DEF holders
  <2>4. /\ (Cardinality(Holders(now)) + 1) * Interval <= (Cardinality(holders) + 1) * Interval
        /\ (Cardinality(Holders(now)) + 1) * Interval \in Nat
        /\ (Cardinality(holders) + 1) * Interval \in Nat
    BY <2>3, HoldersSize DEF Roomy
  <2>5. nextRequestAt <= now + Grain + (Cardinality(holders) + 1) * Interval
    BY <2>1, <2>2, <2>4
  <2> QED
    BY <2>5 DEF holders
<1> QED
  BY <1>1, NearAlways, NodeInvariant, PTL

-----------------------------------------------------------------------------
(* What a caller may count on.                                              *)

(* How a promise settles, as BillableCall sees it. *)
LEMMA ToldMaps ==
  ASSUME TypeInv, NEW c \in Calls, NEW kind \in Kinds \ {"pending"}, NEW n \in Nat,
         pc[c] # "done", OnlyOf(c), Settles(c, kind, n), UNCHANGED <<sent, served>>,
         kind = "returned" => attempts[c] > 0 /\ <<c, attempts[c]>> \in served
  PROVE  Billable!Deliver(c) \/ Billable!Fail(c)
<1>1. Promise(c) = "pending" /\ attempts[c] <= Budget[c]
  BY DEF TypeInv, AttemptsOK, Promise, Pending
<1>2. /\ Promise(c)' = IF kind = "returned" THEN "delivered" ELSE "failed"
      /\ \A d \in Calls : d # c => Promise(d)' = Promise(d)
  <2>1. outcome'[c].kind = kind
    BY DEF Settles, Ended
  <2> QED
    BY <2>1 DEF OnlyOf, Promise
<1>3. [d \in Calls |-> Promise(d)]' =
        [[d \in Calls |-> Promise(d)] EXCEPT ![c] =
            IF kind = "returned" THEN "delivered" ELSE "failed"]
  BY <1>2
<1>4. CASE kind = "returned"
  <2>1. attempts[c] \in 1 .. Budget[c]
    BY <1>1, <1>4, BudgetType DEF TypeInv, TypeOK
  <2> QED
    BY <1>1, <1>3, <1>4, <2>1 DEF Billable!Deliver
<1>5. CASE kind # "returned"
  BY <1>1, <1>3, <1>5 DEF Billable!Fail
<1> QED
  BY <1>4, <1>5

LEMMA QuietMaps ==
  ASSUME UNCHANGED <<sent, served>>, \A c \in Calls : outcome'[c] = outcome[c]
  PROVE  UNCHANGED Billable!callVars
<1>1. \A d \in Calls : Promise(d)' = Promise(d)
  BY DEF Promise
<1> QED
  BY <1>1 DEF Billable!callVars

LEMMA BillableStep == NodeInv /\ [Next]_vars => [Billable!Next]_(Billable!callVars)
<1> SUFFICES ASSUME NodeInv, [Next]_vars PROVE [Billable!Next]_(Billable!callVars)
  OBVIOUS
<1>0. TypeInv /\ MadeInv
  BY DEF NodeInv
<1>1. CASE Serve
  <2>1. UNCHANGED [d \in Calls |-> Promise(d)]
    BY <1>1 DEF Serve, Promise
  <2> QED
    BY <1>1, <2>1 DEF Serve, Billable!Next, Billable!Serve
<1>2. Quiet => UNCHANGED Billable!callVars
  BY QuietMaps DEF Quiet
<1>3. ASSUME NEW c \in Calls, Begins(c) \/ Wakes(c) \/ Reads(c)
      PROVE  UNCHANGED Billable!callVars
  <2>1. OnlyOf(c) /\ outcome'[c] = outcome[c] /\ UNCHANGED <<sent, served>>
    BY <1>3 DEF Begins, Wakes, Reads, GoesTo
  <2> QED
    BY <2>1, QuietMaps DEF OnlyOf
<1>4. ASSUME NEW c \in Calls, Stops(c) PROVE [Billable!Next]_(Billable!callVars)
  BY <1>0, <1>4, ToldMaps DEF Stops, Kinds, Billable!Next
<1>5. ASSUME NEW c \in Calls, Sends(c) PROVE Billable!Send(c)
  <2>1. UNCHANGED [d \in Calls |-> Promise(d)]
    BY <1>5 DEF Sends, OnlyOf, Promise
  <2>2. attempts[c] \in 1 .. Budget[c] /\ Promise(c) = "pending"
    <3>1. /\ attempts[c] \in Nat /\ attempts[c] > 0 /\ attempts[c] <= Budget[c]
          /\ outcome[c] = Pending
      BY <1>0, <1>5 DEF Sends, TypeInv, TypeOK, AttemptsOK
    <3> QED
      BY <3>1, BudgetType DEF Promise, Pending
  <2>3. <<c, attempts[c]>> \notin sent
    BY <1>0, <1>5, SendIsNew DEF Sends
  <2> QED
    BY <1>5, <2>1, <2>2, <2>3 DEF Sends, Billable!Send
<1>6. ASSUME NEW c \in Calls, Ends(c) PROVE [Billable!Next]_(Billable!callVars)
  <2>1. /\ OnlyOf(c) /\ UNCHANGED <<sent, served>> /\ pc[c] \in {"in_flight", "reading"}
        /\ attempts[c] > 0 /\ attempts[c] \in Nat
    BY <1>0, <1>6 DEF Ends, wireVars, TypeInv, TypeOK, AttemptsOK
  <2>2. ASSUME NEW kind \in Kinds \ {"pending"}, Settles(c, kind, attempts[c]),
               kind = "returned" => <<c, attempts[c]>> \in served
        PROVE  [Billable!Next]_(Billable!callVars)
    BY <1>0, <2>1, <2>2, ToldMaps DEF Billable!Next
  <2>3. CASE outcome'[c] = outcome[c]
    BY <2>1, <2>3, QuietMaps DEF OnlyOf
  <2> QED
    BY <1>6, <2>2, <2>3 DEF Ends, GoesTo
<1> QED
  BY <1>0, <1>1, <1>2, <1>3, <1>4, <1>5, <1>6, StepIs DEF Billable!Next

(* The cost, the pace and the wait are kept, wherever signals fire and however
   a body is lost: the wait when it is one a timer can hold, the pace while the
   calls are not so many that the throttle needs a longer one (Transport.send).
   *)
THEOREM NodePromisesTheorem == ASSUME Roomy PROVE Spec => KeepsItsPromises
<1>1. Spec => ImplementsBillableCall
  <2>1. Init => Billable!Init
    <3> SUFFICES ASSUME Init PROVE Billable!Init
      OBVIOUS
    <3>1. [c \in Calls |-> Promise(c)] = [c \in Calls |-> "pending"]
      BY DEF Init, Promise, Pending
    <3> QED
      BY <3>1 DEF Init, Billable!Init
  <2> QED
    BY <2>1, BillableStep, NodeInvariant, PTL
       DEF Spec, ImplementsBillableCall, Billable!Spec
<1>2. Spec => RetryAfterHonored
  <2>1. NodeInv /\ [Next]_vars =>
          [\A c \in Calls : <<c, attempts[c]>> \in sent' \ sent /\ asked[c].fits =>
             2 * now + Grain >= 2 * asked[c].until]_vars
    <3> SUFFICES ASSUME NodeInv, Next, NEW c \in Calls,
                        <<c, attempts[c]>> \in sent' \ sent, asked[c].fits
                 PROVE  2 * now + Grain >= 2 * asked[c].until
      OBVIOUS
    <3>1. PICK d \in Calls : Sends(d)
      BY StepIs DEF NodeInv, Serve, Quiet, Begins, Stops, Wakes, Reads, Ends, wireVars
    <3>2. d = c /\ pc[c] = "gap"
      BY <3>1 DEF Sends
    <3> QED
      BY <3>2 DEF NodeInv, WaitInv, Owed, Waiting
  <2> QED
    BY <2>1, NodeInvariant, PTL DEF Spec, RetryAfterHonored
<1>3. Spec => []ThrottleHolds
  <2>1. NodeInv /\ NearInv => ThrottleHolds
    BY NearHolds DEF NodeInv
  <2> QED
    BY <2>1, NearAlways, NodeInvariant, PTL
<1> QED
  BY <1>1, <1>2, <1>3, NodeCeilingTheorem, PTL DEF KeepsItsPromises
=============================================================================
