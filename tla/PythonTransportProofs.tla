------------------------ MODULE PythonTransportProofs ------------------------
(***************************************************************************)
(* Theorems about the two transports of the Python SDK: SyncTransport, for *)
(* any number of calls, any policy, any interval and any set of answers,   *)
(* and then AsyncTransport, whose steps are those of SyncTransport or a    *)
(* cancellation.                                                           *)
(***************************************************************************)
EXTENDS AsyncTransport, RetrySchedule, RetryPolicyLemmas

-----------------------------------------------------------------------------
(* Type correctness. *)

(* The attempt an error is raised for is within the call's budget, and a call
   with a plan that was refused never reaches an attempt. *)
AttemptsOK ==
    \A c \in Calls :
        /\ pc[c] \notin {"idle", "done"} => Accepted(c) /\ attempts[c] > 0
        /\ pc[c] = "idle" => attempts[c] = 0
        /\ Accepted(c) => attempts[c] <= Plan(c).max_retries + 1
        /\ pc[c] = "backing_off" => attempts[c] <= Plan(c).max_retries

TypeInv == TypeOK /\ AttemptsOK

LEMMA PlanType ==
  ASSUME NEW c \in Calls, Accepted(c)
  PROVE  /\ Plan(c) \in RetryOptions
         /\ Plan(c).max_retries \in Nat /\ Plan(c).max_delay \in Nat
         /\ Plan(c).initial_delay \in Nat /\ Plan(c).backoff_factor \in Nat
<1>1. Plan(c) \in RetryOptions
  BY SyncTransportAssumption, ResolvedType DEF Accepted, Plan
<1> QED
  BY <1>1 DEF RetryOptions

LEMMA StepPC ==
  ASSUME NEW c \in Calls, NEW from, NEW to, pc \in [Calls -> Labels],
         to \in Labels, Step(c, from, to)
  PROVE  /\ pc' \in [Calls -> Labels] /\ pc[c] = from /\ pc'[c] = to
         /\ \A d \in Calls : d # c => pc'[d] = pc[d]
BY DEF Step

LEMMA FinishType ==
  ASSUME TypeInv, NEW c \in Calls, NEW kind \in Kinds, Finish(c, kind)
  PROVE  /\ pc' \in [Calls -> Labels] /\ timer' \in [Calls -> Nat]
         /\ outcome' \in [Calls -> [kind : Kinds, attempts : Nat]]
         /\ since' \in [Calls -> Nat]
BY DEF TypeInv, TypeOK, Finish, Step, Ended, Labels

LEMMA BackoffType ==
  ASSUME TypeInv, NEW c \in Calls, pc[c] = "in_flight", ~Exhausted(c),
         NEW retryAfter \in Nat \cup {None}, NEW asked,
         Backoff(c, retryAfter, asked)
  PROVE  /\ pc' \in [Calls -> Labels] /\ timer' \in [Calls -> Nat]
         /\ outcome' \in [Calls -> [kind : Kinds, attempts : Nat]]
         /\ since' \in [Calls -> Nat]
<1>1. PICK draw \in 0 .. Parts - 1 :
        timer' = [timer EXCEPT ![c] = now + ComputeRetryDelay(attempts[c],
                                             Plan(c), retryAfter, draw)]
  BY DEF Backoff
<1>2. Accepted(c) /\ attempts[c] \in 1 .. Plan(c).max_retries
  BY PlanType DEF TypeInv, TypeOK, AttemptsOK, Exhausted
<1>3. draw \in Nat /\ retryAfter \in Int
  BY RetryPolicyAssumption DEF None
<1>4. ComputeRetryDelay(attempts[c], Plan(c), retryAfter, draw) \in Nat
  BY <1>2, <1>3, PlanType, DelayType
<1> QED
  BY <1>1, <1>4 DEF TypeInv, TypeOK, Backoff, Step, Labels

LEMMA StatusClass == ASSUME NEW status \in Nat PROVE ErrorFromStatus(status) \in Kinds
BY DEF ErrorFromStatus, Kinds, ErrorClasses

(* What Receive and AttemptFails have in common: the attempt in flight ends,
   and the call is over or sleeps before its next attempt. *)
Ends(c) ==
    /\ \/ \E kind \in Kinds : Finish(c, kind)
       \/ /\ ~Exhausted(c)
          /\ \E r \in Nat \cup {None}, asked \in Int : Backoff(c, r, asked)
    /\ UNCHANGED <<now, attempts, throttleVars, wireVars>>

LEMMA AskedType ==
  ASSUME NEW c \in Calls, NEW header \in Headers, now \in Nat
  PROVE  Asked(c, header) \in Nat
BY DEF Asked, Headers, NoHeader, NotFinite, Garbage

LEMMA ReceiveEnds ==
  ASSUME TypeInv, NEW c \in Calls, NEW answer \in Answers, Receive(c, answer)
  PROVE  Ends(c)
<1>1. answer.status \in Nat /\ answer.retry_after \in Headers
  BY SyncTransportAssumption
<1>2. ReadRetryAfter(answer.retry_after, now) \in Nat \cup {None}
  BY <1>1, RetryAfterType DEF TypeInv, TypeOK
<1>3. Asked(c, answer.retry_after) \in Int
  BY <1>1, AskedType DEF TypeInv, TypeOK
<1>4. ErrorFromStatus(answer.status) \in Kinds /\ "returned" \in Kinds
  BY <1>1, StatusClass DEF Kinds
<1> QED
  BY <1>2, <1>3, <1>4 DEF Receive, Ends

LEMMA AttemptFailsEnds ==
  ASSUME TypeInv, NEW c \in Calls, NEW kind \in {"Timeout", "Network"},
         AttemptFails(c, kind)
  PROVE  Ends(c)
<1>1. kind \in Kinds /\ None \in Nat \cup {None} /\ now \in Int
  BY DEF Kinds, TypeInv, TypeOK
<1> QED
  BY <1>1 DEF AttemptFails, Ends

LEMMA EndType == ASSUME TypeInv, NEW c \in Calls, Ends(c) PROVE TypeInv'
<1>1. /\ pc' \in [Calls -> Labels] /\ timer' \in [Calls -> Nat]
      /\ outcome' \in [Calls -> [kind : Kinds, attempts : Nat]]
      /\ since' \in [Calls -> Nat]
  <2>1. CASE \E kind \in Kinds : Finish(c, kind)
    BY <2>1, FinishType
  <2>2. CASE /\ ~Exhausted(c)
             /\ \E r \in Nat \cup {None}, asked \in Int : Backoff(c, r, asked)
    BY <2>2, BackoffType DEF Backoff, Step
  <2> QED
    BY <2>1, <2>2 DEF Ends
<1>2. pc[c] = "in_flight" /\ \A d \in Calls : d # c => pc'[d] = pc[d]
  BY DEF Ends, Finish, Backoff, Step, TypeInv, TypeOK
<1>3. /\ pc'[c] \in {"done", "backing_off"}
      /\ pc'[c] = "backing_off" => attempts[c] <= Plan(c).max_retries
  <2>1. CASE \E kind \in Kinds : Finish(c, kind)
    BY <2>1 DEF Finish, Step, TypeInv, TypeOK
  <2>2. CASE /\ ~Exhausted(c)
             /\ \E r \in Nat \cup {None}, asked \in Int : Backoff(c, r, asked)
    <3>1. pc[c] = "in_flight" /\ pc'[c] = "backing_off"
      BY <2>2 DEF Backoff, Step, TypeInv, TypeOK
    <3>2. Plan(c).max_retries \in Nat /\ attempts[c] \in Nat
      BY <3>1, PlanType DEF TypeInv, TypeOK, AttemptsOK
    <3> QED
      BY <2>2, <3>1, <3>2 DEF Exhausted
  <2> QED
    BY <2>1, <2>2 DEF Ends
<1>4. UNCHANGED <<now, attempts, nextRequestAt, lock, seen, scheduledAt, claims,
                  slot, sent, served, fired>>
  BY DEF Ends, throttleVars, wireVars
<1>5. TypeOK'
  BY <1>1, <1>4 DEF TypeInv, TypeOK
<1>6. AttemptsOK'
  BY <1>2, <1>3, <1>4 DEF TypeInv, AttemptsOK
<1> QED
  BY <1>5, <1>6 DEF TypeInv

(* Every variable always holds a value the code can give it, for every
   policy, interval and API. *)
LEMMA TypeInit == Init => TypeInv
BY PlanType, SyncTransportAssumption DEF Init, TypeInv, TypeOK, AttemptsOK, Zero,
   Pending, Labels, Kinds

LEMMA TypeStep == TypeInv /\ [Next]_vars => TypeInv'
<1> SUFFICES ASSUME TypeInv, [Next]_vars PROVE TypeInv'
  OBVIOUS
<1> USE DEF TypeInv
<1>1. CASE Serve
  BY <1>1 DEF Serve, TypeOK, AttemptsOK, throttleVars, endVars
<1>2. CASE Tick
  BY <1>2 DEF Tick, TypeOK, AttemptsOK, throttleVars, wireVars, endVars
<1>3. ASSUME NEW c \in Calls, Start(c) PROVE TypeInv'
  BY <1>3, PlanType DEF Start, Step, TypeOK, AttemptsOK, Labels, throttleVars,
     wireVars, endVars
<1>4. ASSUME NEW c \in Calls, Refuse(c) PROVE TypeInv'
  BY <1>4 DEF Refuse, Step, TypeOK, AttemptsOK, Labels, Kinds, Ended,
     throttleVars, wireVars, Accepted
<1>5. ASSUME NEW c \in Calls, ReadSchedule(c) PROVE TypeInv'
  BY <1>5 DEF ReadSchedule, Step, TypeOK, AttemptsOK, Labels, Larger, wireVars,
     endVars
<1>6. ASSUME NEW c \in Calls, ClaimSlot(c) PROVE TypeInv'
  BY <1>6, SyncTransportAssumption DEF ClaimSlot, Step, TypeOK, AttemptsOK,
     Labels, Larger, wireVars, endVars
<1>7. ASSUME NEW c \in Calls, SendRequest(c) PROVE TypeInv'
  <2>1. sent' \subseteq Calls \X Nat /\ served' \subseteq sent'
    BY <1>7 DEF SendRequest, TypeOK
  <2>2. /\ pc' \in [Calls -> Labels] /\ timer' \in [Calls -> Nat]
        /\ fired' \subseteq Nat /\ since' \in [Calls -> Nat]
    <3>1. pc' \in [Calls -> Labels]
      BY <1>7, StepPC DEF SendRequest, TypeOK, Labels
    <3>2. timer' \in [Calls -> Nat]
      BY <1>7, SyncTransportAssumption DEF SendRequest, TypeOK
    <3>3. fired' \subseteq Nat
      BY <1>7 DEF SendRequest, TypeOK
    <3>4. since' \in [Calls -> Nat]
      BY <1>7 DEF SendRequest, TypeOK
    <3> QED
      BY <3>1, <3>2, <3>3, <3>4
  <2>3. TypeOK'
    BY <1>7, <2>1, <2>2 DEF SendRequest, TypeOK, throttleVars
  <2>4. AttemptsOK'
    BY <1>7 DEF SendRequest, Step, TypeOK, AttemptsOK
  <2> QED
    BY <2>3, <2>4
<1>8. ASSUME NEW c \in Calls, NEW answer \in Answers, Receive(c, answer)
      PROVE TypeInv'
  BY <1>8, ReceiveEnds, EndType
<1>9. ASSUME NEW c \in Calls, NEW kind \in {"Timeout", "Network"},
             AttemptFails(c, kind)
      PROVE TypeInv'
  BY <1>9, AttemptFailsEnds, EndType
<1>10. ASSUME NEW c \in Calls, WakeFromBackoff(c) PROVE TypeInv'
  BY <1>10, PlanType DEF WakeFromBackoff, Step, TypeOK, AttemptsOK, Labels,
     throttleVars, wireVars, endVars
<1>11. CASE UNCHANGED vars
  BY <1>11 DEF vars, TypeOK, AttemptsOK, throttleVars, wireVars, endVars
<1>12. ASSUME NEW c \in Calls, Progress(c) PROVE TypeInv'
  BY <1>12, SyncTransportAssumption DEF Progress, TypeOK, AttemptsOK, throttleVars,
     wireVars, endVars
<1> QED
  BY <1>1, <1>2, <1>3, <1>4, <1>5, <1>6, <1>7, <1>8, <1>9, <1>10, <1>11, <1>12
     DEF Next, Run

(* "Every variable always holds a value the code can give it" is true of every
   behaviour of the transport. *)
THEOREM TypeCorrect == Spec => []TypeOK
<1>1. Init => TypeInv
  BY TypeInit
<1>2. TypeInv /\ [Next]_vars => TypeInv'
  BY TypeStep
<1>3. TypeInv => TypeOK
  BY DEF TypeInv
<1> QED
  BY <1>1, <1>2, <1>3, PTL DEF Spec

-----------------------------------------------------------------------------
(* The throttle.  The n-th claim is of an instant at least n - 1 intervals  *)
(* after the start; a request goes out at its claim or later; no two        *)
(* requests go out on the same claim.                                       *)

LockInv == \A c \in Calls : pc[c] = "claiming" <=> lock = c

ScheduleInv ==
    \A c \in Calls : pc[c] = "claiming" =>
        /\ scheduledAt[c] >= nextRequestAt
        /\ scheduledAt[c] >= seen[c] /\ seen[c] <= now

ClaimsInv == claims * Interval <= nextRequestAt

SlotsInv ==
    \A c \in Calls : pc[c] = "throttled" =>
        /\ slot[c] \in 1 .. claims /\ slot[c] \notin fired
        /\ (slot[c] - 1) * Interval <= timer[c]
        /\ \A d \in Calls : d # c /\ pc[d] = "throttled" => slot[d] # slot[c]

FiredInv == \A i \in fired : i \in 1 .. claims /\ (i - 1) * Interval <= now

SentInv ==
    \A r \in sent :
        /\ r[2] <= attempts[r[1]]
        /\ pc[r[1]] \in {"throttle", "claiming", "throttled"} =>
              r[2] < attempts[r[1]]

CountInv ==
    /\ IsFiniteSet(sent) /\ IsFiniteSet(fired)
    /\ Cardinality(sent) = Cardinality(fired)

ThrottleInv ==
    /\ LockInv /\ ScheduleInv /\ ClaimsInv /\ SlotsInv /\ FiredInv /\ SentInv
    /\ CountInv

LEMMA ThrottleInit == Init => ThrottleInv
<1> SUFFICES ASSUME Init PROVE ThrottleInv
  OBVIOUS
<1>1. CountInv
  BY FS_EmptySet DEF Init, CountInv
<1>2. LockInv /\ ScheduleInv /\ SlotsInv /\ FiredInv /\ SentInv
  BY SyncTransportAssumption DEF Init, LockInv, ScheduleInv, SlotsInv, FiredInv,
     SentInv
<1>3. ClaimsInv
  BY SyncTransportAssumption DEF Init, ClaimsInv
<1> QED
  BY <1>1, <1>2, <1>3 DEF ThrottleInv

(* A step of c that neither claims a slot nor sends: Start, Refuse, Progress,
   the end of an attempt, the end of a backoff. *)
LEMMA QuietStep ==
  ASSUME TypeInv, ThrottleInv, NEW c \in Calls,
         pc[c] \notin {"claiming", "throttled"},
         pc'[c] \notin {"claiming", "throttled"},
         \A d \in Calls : d # c => pc'[d] = pc[d] /\ timer'[d] = timer[d],
         \A d \in Calls : d # c => attempts'[d] = attempts[d],
         attempts'[c] >= attempts[c],
         pc'[c] = "throttle" => attempts'[c] > attempts[c],
         attempts'[c] \in Nat,
         UNCHANGED <<now, throttleVars, wireVars>>
  PROVE  ThrottleInv'
<1>1. UNCHANGED <<now, nextRequestAt, lock, seen, scheduledAt, claims, slot, sent,
                  served, fired>>
  BY DEF throttleVars, wireVars
<1>2. LockInv' /\ ScheduleInv' /\ ClaimsInv' /\ FiredInv' /\ CountInv'
  BY <1>1 DEF ThrottleInv, LockInv, ScheduleInv, ClaimsInv, FiredInv, CountInv
<1>3. SlotsInv'
  BY <1>1 DEF ThrottleInv, SlotsInv
<1>4. SentInv'
  <2> SUFFICES ASSUME NEW r \in sent
               PROVE  /\ r[2] <= attempts'[r[1]]
                      /\ pc'[r[1]] \in {"throttle", "claiming", "throttled"} =>
                            r[2] < attempts'[r[1]]
    BY <1>1 DEF SentInv
  <2>1. r[1] \in Calls /\ r[2] \in Nat /\ attempts[r[1]] \in Nat
    BY DEF TypeInv, TypeOK
  <2>2. r[2] <= attempts[r[1]]
    BY DEF ThrottleInv, SentInv
  <2>3. CASE r[1] # c
    BY <2>1, <2>3 DEF ThrottleInv, SentInv
  <2>4. CASE r[1] = c
    BY <2>1, <2>2, <2>4
  <2> QED
    BY <2>3, <2>4
<1> QED
  BY <1>2, <1>3, <1>4 DEF ThrottleInv

LEMMA EndsQuietly ==
  ASSUME TypeInv, ThrottleInv, NEW c \in Calls, Ends(c)
  PROVE  ThrottleInv'
<1>1. /\ pc[c] = "in_flight" /\ pc'[c] \in {"done", "backing_off"}
      /\ \A d \in Calls : d # c => pc'[d] = pc[d] /\ timer'[d] = timer[d]
  <2>1. CASE \E kind \in Kinds : Finish(c, kind)
    BY <2>1 DEF Finish, Step, TypeInv, TypeOK
  <2>2. CASE \E r \in Nat \cup {None}, asked \in Int : Backoff(c, r, asked)
    <3>1. PICK r \in Nat \cup {None}, asked \in Int : Backoff(c, r, asked)
      BY <2>2
    <3>2. PICK delay : timer' = [timer EXCEPT ![c] = now + delay]
      BY <3>1 DEF Backoff
    <3> QED
      BY <3>1, <3>2 DEF Backoff, Step, TypeInv, TypeOK
  <2> QED
    BY <2>1, <2>2 DEF Ends
<1>2. UNCHANGED <<now, attempts, throttleVars, wireVars>>
  BY DEF Ends
<1>3. attempts' = attempts /\ attempts[c] \in Nat
  BY <1>2 DEF TypeInv, TypeOK
<1>4. /\ pc[c] \notin {"claiming", "throttled"}
      /\ pc'[c] \notin {"claiming", "throttled", "throttle"}
  BY <1>1
<1>5. \A d \in Calls : d # c => attempts'[d] = attempts[d]
  BY <1>3
<1>6. attempts'[c] >= attempts[c] /\ attempts'[c] \in Nat
  BY <1>3
<1> QED
  BY <1>1, <1>2, <1>4, <1>5, <1>6, QuietStep

LEMMA ReadScheduleStep ==
  ASSUME TypeInv, ThrottleInv, NEW c \in Calls, ReadSchedule(c)
  PROVE  ThrottleInv'
<1>1. /\ pc[c] = "throttle" /\ pc'[c] = "claiming"
      /\ \A d \in Calls : d # c => pc'[d] = pc[d]
      /\ lock = NoCall /\ lock' = c
      /\ seen'[c] = now /\ scheduledAt'[c] = Larger(now, nextRequestAt)
      /\ UNCHANGED <<now, attempts, timer, nextRequestAt, claims, slot, sent,
                     served, fired>>
  BY DEF ReadSchedule, Step, TypeInv, TypeOK, wireVars
<1>2. \A d \in Calls : pc[d] # "claiming"
  BY <1>1, SyncTransportAssumption DEF ThrottleInv, LockInv
<1>3. LockInv'
  BY <1>1, <1>2 DEF LockInv
<1>4. ScheduleInv'
  BY <1>1, <1>2 DEF ScheduleInv, Larger, TypeInv, TypeOK
<1>5. ClaimsInv' /\ FiredInv' /\ CountInv'
  BY <1>1 DEF ThrottleInv, ClaimsInv, FiredInv, CountInv
<1>6. SlotsInv'
  BY <1>1 DEF ThrottleInv, SlotsInv
<1>7. SentInv'
  <2> SUFFICES ASSUME NEW r \in sent,
                      pc'[r[1]] \in {"throttle", "claiming", "throttled"}
               PROVE  r[2] < attempts[r[1]]
    BY <1>1 DEF ThrottleInv, SentInv
  <2>1. r[1] \in Calls
    BY DEF TypeInv, TypeOK
  <2> QED
    BY <1>1, <2>1 DEF ThrottleInv, SentInv
<1> QED
  BY <1>3, <1>4, <1>5, <1>6, <1>7 DEF ThrottleInv

(* A product with a natural factor, one step further. *)
LEMMA OneMore ==
  ASSUME NEW n \in Nat, NEW k \in Nat PROVE (n + 1) * k = n * k + k
OBVIOUS

LEMMA ClaimSlotStep ==
  ASSUME TypeInv, ThrottleInv, NEW c \in Calls, ClaimSlot(c)
  PROVE  ThrottleInv'
<1>1. /\ pc[c] = "claiming" /\ pc'[c] = "throttled"
      /\ \A d \in Calls : d # c => pc'[d] = pc[d] /\ timer'[d] = timer[d]
      /\ lock' = NoCall /\ claims' = claims + 1
      /\ slot'[c] = claims + 1
      /\ \A d \in Calls : d # c => slot'[d] = slot[d]
      /\ UNCHANGED <<now, attempts, sent, served, fired>>
  BY DEF ClaimSlot, Step, TypeInv, TypeOK, wireVars
<1>2. \A d \in Calls : d # c => pc[d] # "claiming"
  BY <1>1 DEF ThrottleInv, LockInv
<1>3. /\ scheduledAt[c] >= nextRequestAt /\ scheduledAt[c] >= seen[c]
      /\ seen[c] <= now /\ scheduledAt[c] \in Nat /\ seen[c] \in Nat
      /\ now \in Nat /\ nextRequestAt \in Nat /\ claims \in Nat /\ Interval \in Nat
  BY <1>1, SyncTransportAssumption DEF ThrottleInv, ScheduleInv, TypeInv, TypeOK
<1>4. /\ Interval = 0 => nextRequestAt' = nextRequestAt /\ timer'[c] = now
      /\ Interval # 0 => /\ nextRequestAt' = scheduledAt[c] + Interval
                         /\ timer'[c] = now + (scheduledAt[c] - seen[c])
  BY <1>3 DEF ClaimSlot, Larger, TypeInv, TypeOK
<1>5. claims * Interval <= nextRequestAt /\ claims * Interval \in Nat
  BY <1>3 DEF ThrottleInv, ClaimsInv
<1>6. claims * Interval <= timer'[c]
  <2>1. CASE Interval = 0
    BY <2>1, <1>3, <1>4
  <2>2. CASE Interval # 0
    BY <2>2, <1>3, <1>4, <1>5
  <2> QED
    BY <2>1, <2>2
<1>7. LockInv'
  BY <1>1, <1>2, SyncTransportAssumption DEF LockInv
<1>8. ScheduleInv'
  BY <1>1, <1>2 DEF ScheduleInv
<1>9. ClaimsInv'
  <2>1. (claims + 1) * Interval = claims * Interval + Interval
    BY <1>3, OneMore
  <2>2. CASE Interval = 0
    BY <2>2, <1>1, <1>3, <1>4 DEF ClaimsInv
  <2>3. CASE Interval # 0
    <3>1. claims * Interval + Interval <= scheduledAt[c] + Interval
      BY <1>3, <1>5
    <3> QED
      BY <2>1, <2>3, <3>1, <1>1, <1>4 DEF ClaimsInv
  <2> QED
    BY <2>2, <2>3
<1>10. SlotsInv'
  <2>1. \A d \in Calls : d # c /\ pc'[d] = "throttled" =>
           /\ slot'[d] \in 1 .. claims /\ slot'[d] \notin fired
           /\ (slot'[d] - 1) * Interval <= timer'[d]
    BY <1>1 DEF ThrottleInv, SlotsInv
  <2>2. slot'[c] \in 1 .. claims' /\ slot'[c] \notin fired /\ slot'[c] - 1 = claims
    BY <1>1, <1>3 DEF ThrottleInv, FiredInv
  <2>3. \A d \in Calls : d # c /\ pc'[d] = "throttled" => slot'[d] # slot'[c]
    BY <2>1, <1>1, <1>3
  <2>4. \A d, e \in Calls : d # c /\ e # c /\ d # e /\ pc'[d] = "throttled"
                               /\ pc'[e] = "throttled" => slot'[d] # slot'[e]
    BY <1>1 DEF ThrottleInv, SlotsInv
  <2>5. 1 .. claims \subseteq 1 .. claims'
    BY <1>1, <1>3
  <2>6. (slot'[c] - 1) * Interval <= timer'[c]
    BY <2>2, <1>6
  <2> QED
    BY <2>1, <2>2, <2>3, <2>4, <2>5, <2>6, <1>1 DEF SlotsInv
<1>11. FiredInv' /\ CountInv'
  BY <1>1, <1>3 DEF ThrottleInv, FiredInv, CountInv
<1>12. SentInv'
  <2> SUFFICES ASSUME NEW r \in sent,
                      pc'[r[1]] \in {"throttle", "claiming", "throttled"}
               PROVE  r[2] < attempts[r[1]]
    BY <1>1 DEF ThrottleInv, SentInv
  <2>1. r[1] \in Calls
    BY DEF TypeInv, TypeOK
  <2> QED
    BY <1>1, <2>1 DEF ThrottleInv, SentInv
<1> QED
  BY <1>7, <1>8, <1>9, <1>10, <1>11, <1>12 DEF ThrottleInv

LEMMA SendRequestStep ==
  ASSUME TypeInv, ThrottleInv, NEW c \in Calls, SendRequest(c)
  PROVE  /\ ThrottleInv'
         /\ <<c, attempts[c]>> \notin sent /\ slot[c] \notin fired
<1>1. /\ pc[c] = "throttled" /\ pc'[c] = "in_flight" /\ now >= timer[c]
      /\ \A d \in Calls : d # c => pc'[d] = pc[d] /\ timer'[d] = timer[d]
      /\ sent' = sent \cup {<<c, attempts[c]>>}
      /\ fired' = fired \cup {slot[c]}
      /\ UNCHANGED <<now, attempts, nextRequestAt, lock, seen, scheduledAt,
                     claims, slot, served>>
  BY DEF SendRequest, Step, TypeInv, TypeOK, throttleVars
<1>2. /\ slot[c] \in 1 .. claims /\ slot[c] \notin fired
      /\ (slot[c] - 1) * Interval <= timer[c]
      /\ \A d \in Calls : d # c /\ pc[d] = "throttled" => slot[d] # slot[c]
  BY <1>1 DEF ThrottleInv, SlotsInv
<1>3. <<c, attempts[c]>> \notin sent
  <2> SUFFICES ASSUME <<c, attempts[c]>> \in sent PROVE FALSE
    OBVIOUS
  <2>1. attempts[c] < attempts[c]
    BY <1>1 DEF ThrottleInv, SentInv
  <2> QED
    BY <2>1 DEF TypeInv, TypeOK
<1>4. (slot[c] - 1) * Interval <= now
  <2>1. (slot[c] - 1) * Interval \in Int /\ timer[c] \in Int /\ now \in Int
    BY <1>2, SyncTransportAssumption DEF TypeInv, TypeOK
  <2> QED
    BY <1>1, <1>2, <2>1
<1>5. LockInv' /\ ScheduleInv' /\ ClaimsInv'
  BY <1>1 DEF ThrottleInv, LockInv, ScheduleInv, ClaimsInv
<1>6. SlotsInv'
  BY <1>1, <1>2 DEF ThrottleInv, SlotsInv
<1>7. FiredInv'
  BY <1>1, <1>2, <1>4 DEF ThrottleInv, FiredInv
<1>8. CountInv'
  <2>1. /\ IsFiniteSet(sent') /\ Cardinality(sent') = Cardinality(sent) + 1
        /\ IsFiniteSet(fired') /\ Cardinality(fired') = Cardinality(fired) + 1
    BY <1>1, <1>2, <1>3, FS_AddElement DEF ThrottleInv, CountInv
  <2> QED
    BY <2>1 DEF ThrottleInv, CountInv
<1>9. SentInv'
  <2> SUFFICES ASSUME NEW r \in sent'
               PROVE  /\ r[2] <= attempts[r[1]]
                      /\ pc'[r[1]] \in {"throttle", "claiming", "throttled"} =>
                            r[2] < attempts[r[1]]
    BY <1>1 DEF SentInv
  <2>1. CASE r = <<c, attempts[c]>>
    BY <1>1, <2>1 DEF TypeInv, TypeOK
  <2>2. CASE r \in sent
    <3>1. r[1] \in Calls
      BY <2>2 DEF TypeInv, TypeOK
    <3> QED
      BY <1>1, <2>2, <3>1 DEF ThrottleInv, SentInv
  <2> QED
    BY <1>1, <2>1, <2>2
<1> QED
  BY <1>2, <1>3, <1>5, <1>6, <1>7, <1>8, <1>9 DEF ThrottleInv

LEMMA ThrottleStep == TypeInv /\ ThrottleInv /\ [Next]_vars => ThrottleInv'
<1> SUFFICES ASSUME TypeInv, ThrottleInv, [Next]_vars PROVE ThrottleInv'
  OBVIOUS
<1>1. CASE Serve
  BY <1>1 DEF Serve, throttleVars, endVars, ThrottleInv, LockInv, ScheduleInv,
     ClaimsInv, SlotsInv, FiredInv, SentInv, CountInv
<1>2. CASE Tick
  <2>1. now' = now + 1 /\ now \in Nat
    BY <1>2 DEF Tick, TypeInv, TypeOK
  <2>2. UNCHANGED <<pc, attempts, timer, nextRequestAt, lock, seen, scheduledAt,
                    claims, slot, sent, served, fired>>
    BY <1>2 DEF Tick, throttleVars, wireVars
  <2>3. LockInv' /\ ClaimsInv' /\ SlotsInv' /\ SentInv' /\ CountInv'
    BY <2>2 DEF ThrottleInv, LockInv, ClaimsInv, SlotsInv, SentInv, CountInv
  <2>4. ScheduleInv'
    BY <2>1, <2>2 DEF ThrottleInv, ScheduleInv, TypeInv, TypeOK
  <2>5. FiredInv'
    <3> SUFFICES ASSUME NEW i \in fired PROVE (i - 1) * Interval <= now + 1
      BY <2>1, <2>2 DEF ThrottleInv, FiredInv
    <3>1. (i - 1) * Interval <= now /\ (i - 1) * Interval \in Int
      BY SyncTransportAssumption DEF ThrottleInv, FiredInv
    <3> QED
      BY <2>1, <3>1
  <2> QED
    BY <2>3, <2>4, <2>5 DEF ThrottleInv
<1>3. ASSUME NEW c \in Calls, Start(c) \/ Refuse(c) \/ WakeFromBackoff(c)
      PROVE  ThrottleInv'
  <2>1. /\ pc[c] \in {"idle", "backing_off"} /\ pc'[c] \in {"throttle", "done"}
        /\ \A d \in Calls : d # c => /\ pc'[d] = pc[d] /\ timer'[d] = timer[d]
                                     /\ attempts'[d] = attempts[d]
        /\ UNCHANGED <<now, throttleVars, wireVars>>
    BY <1>3 DEF Start, Refuse, WakeFromBackoff, Step, TypeInv, TypeOK
  <2>2. /\ attempts'[c] >= attempts[c] /\ attempts'[c] \in Nat
        /\ pc'[c] = "throttle" => attempts'[c] > attempts[c]
    BY <1>3 DEF Start, Refuse, WakeFromBackoff, Step, TypeInv, TypeOK, AttemptsOK
  <2>3. pc[c] \notin {"claiming", "throttled"} /\ pc'[c] \notin {"claiming", "throttled"}
    BY <2>1
  <2> QED
    BY <2>1, <2>2, <2>3, QuietStep
<1>4. ASSUME NEW c \in Calls, NEW answer \in Answers, Receive(c, answer)
      PROVE  ThrottleInv'
  BY <1>4, ReceiveEnds, EndsQuietly
<1>5. ASSUME NEW c \in Calls, NEW kind \in {"Timeout", "Network"},
             AttemptFails(c, kind)
      PROVE  ThrottleInv'
  BY <1>5, AttemptFailsEnds, EndsQuietly
<1>6. CASE UNCHANGED vars
  BY <1>6 DEF vars, throttleVars, wireVars, ThrottleInv, LockInv, ScheduleInv,
     ClaimsInv, SlotsInv, FiredInv, SentInv, CountInv
<1>7. ASSUME NEW c \in Calls, Progress(c) PROVE ThrottleInv'
  <2>1. /\ pc[c] = "in_flight" /\ pc' = pc /\ attempts' = attempts
        /\ attempts[c] \in Nat
        /\ \A d \in Calls : d # c => timer'[d] = timer[d]
        /\ UNCHANGED <<now, throttleVars, wireVars>>
    BY <1>7 DEF Progress, TypeInv, TypeOK
  <2> QED
    BY <2>1, QuietStep
<1> QED
  BY <1>1, <1>2, <1>3, <1>4, <1>5, <1>6, <1>7, ReadScheduleStep, ClaimSlotStep,
     SendRequestStep DEF Next, Run

LEMMA AtMost ==
  ASSUME NEW k \in Nat, NEW F \in SUBSET (1 .. k)
  PROVE  Cardinality(F) <= k
<1>1. IsFiniteSet(1 .. k) /\ Cardinality(1 .. k) = k
  BY FS_Interval
<1>2. Cardinality(F) <= Cardinality(1 .. k)
  BY <1>1, FS_Subset, Zenon
<1> QED
  BY <1>1, <1>2

(* k + 1 distinct positive numbers include one above k; if each of them, less
   one, fits t intervals, so do k. *)
LEMMA EnoughSlots ==
  ASSUME NEW t \in Nat, NEW k \in Nat, NEW I \in Nat, NEW F,
         IsFiniteSet(F), Cardinality(F) = k + 1, F \subseteq Nat \ {0},
         \A i \in F : (i - 1) * I <= t
  PROVE  k * I <= t
<1> SUFFICES ASSUME k * I > t PROVE FALSE
  BY k * I \in Nat
<1>1. \A i \in F : i <= k
  <2> SUFFICES ASSUME NEW i \in F, i > k PROVE FALSE
    BY F \subseteq Nat
  <2>1. i - 1 \in Nat /\ i - 1 >= k
    OBVIOUS
  <2>2. PICK e \in Nat : i - 1 = k + e
    <3>1. (i - 1) - k \in Nat /\ i - 1 = k + ((i - 1) - k)
      BY <2>1
    <3> QED
      BY <3>1
  <2>3. (k + e) * I = k * I + e * I /\ e * I \in Nat /\ k * I \in Nat
    OBVIOUS
  <2>4. (i - 1) * I <= t
    OBVIOUS
  <2> QED
    BY <2>2, <2>3, <2>4
<1>2. F \subseteq 1 .. k
  BY <1>1
<1>3. Cardinality(F) <= k
  BY <1>2, AtMost, Zenon
<1> QED
  BY <1>3

(* Every request that goes out keeps the count under the ceiling. *)
LEMMA ReleaseInTime ==
  ASSUME TypeInv, ThrottleInv, NEW c \in Calls, SendRequest(c)
  PROVE  /\ Cardinality(sent)' = Cardinality(sent) + 1
         /\ Cardinality(sent) * Interval <= now
         /\ now' = now
<1>1. /\ ThrottleInv' /\ <<c, attempts[c]>> \notin sent /\ slot[c] \notin fired
      /\ sent' = sent \cup {<<c, attempts[c]>>}
      /\ fired' = fired \cup {slot[c]} /\ UNCHANGED <<now, claims>>
  BY SendRequestStep DEF SendRequest, throttleVars
<1>2. /\ Cardinality(sent') = Cardinality(sent) + 1
      /\ Cardinality(sent) \in Nat /\ IsFiniteSet(fired')
      /\ Cardinality(fired') = Cardinality(sent) + 1
  BY <1>1, FS_AddElement, FS_CardinalityType DEF ThrottleInv, CountInv
<1>3. fired' \subseteq Nat \ {0} /\ \A i \in fired' : (i - 1) * Interval <= now
  BY <1>1 DEF ThrottleInv, FiredInv
<1>4. now \in Nat /\ Interval \in Nat
  BY SyncTransportAssumption DEF TypeInv, TypeOK
<1> QED
  BY <1>1, <1>2, <1>3, <1>4, EnoughSlots

(* The initial states and the steps of the transport are those of
   RateCeiling: only SendRequest releases, only Tick lets time pass. *)
LEMMA CeilingInit == Init => Ceiling!Init
BY FS_EmptySet DEF Init, Ceiling!Init

LEMMA CeilingStep ==
  TypeInv /\ ThrottleInv /\ [Next]_vars => [Ceiling!Next]_(Ceiling!ceilingVars)
<1> SUFFICES ASSUME TypeInv, ThrottleInv, [Next]_vars
             PROVE  [Ceiling!Next]_(Ceiling!ceilingVars)
  OBVIOUS
<1>1. CASE Tick
  BY <1>1 DEF Tick, wireVars, TypeInv, TypeOK, Ceiling!Next, Ceiling!Pass
<1>2. ASSUME NEW c \in Calls, SendRequest(c) PROVE Ceiling!Release
  <2>1. now + 0 = now
    BY DEF TypeInv, TypeOK
  <2> QED
    BY <1>2, <2>1, ReleaseInTime DEF Ceiling!Release
<1>3. CASE UNCHANGED <<now, sent>>
  BY <1>3 DEF Ceiling!ceilingVars
<1>4. ASSUME NEW c \in Calls, ~SendRequest(c), Run(c) PROVE UNCHANGED <<now, sent>>
  BY <1>4 DEF Run, Start, Refuse, ReadSchedule, ClaimSlot, Progress, Receive,
     AttemptFails, WakeFromBackoff, wireVars
<1>5. Serve => UNCHANGED <<now, sent>>
  BY DEF Serve
<1>6. UNCHANGED vars => UNCHANGED <<now, sent>>
  BY DEF vars, wireVars
<1> QED
  BY <1>1, <1>2, <1>3, <1>4, <1>5, <1>6 DEF Next, Ceiling!Next

(* The throttle keeps the promise of RateCeiling, for every number of threads,
   every interval and every pattern of retries. *)
THEOREM CeilingTheorem == Spec => ImplementsRateCeiling
<1>1. Init => TypeInv /\ ThrottleInv
  BY TypeInit, ThrottleInit
<1>2. TypeInv /\ ThrottleInv /\ [Next]_vars => TypeInv' /\ ThrottleInv'
  BY TypeStep, ThrottleStep
<1> QED
  BY <1>1, <1>2, CeilingInit, CeilingStep, PTL
     DEF Spec, ImplementsRateCeiling, Ceiling!Spec

(* Successive claims are an interval apart: the property ClaimsSpaced, which
   needs the lock to cover the read of _next_request_at and its write. *)
THEOREM ClaimsSpacedTheorem == Spec => ClaimsSpaced
<1>1. TypeInv /\ ThrottleInv /\ [Next]_vars =>
         [claims' # claims => nextRequestAt' >= nextRequestAt + Interval]_vars
  <2> SUFFICES ASSUME TypeInv, ThrottleInv, Next, claims' # claims
               PROVE  nextRequestAt' >= nextRequestAt + Interval
    OBVIOUS
  <2>1. PICK c \in Calls : ClaimSlot(c)
    BY DEF Next, Serve, Tick, Run, Start, Refuse, ReadSchedule, SendRequest,
       Progress, Receive, AttemptFails, WakeFromBackoff, throttleVars
  <2>2. scheduledAt[c] >= nextRequestAt
    BY <2>1 DEF ClaimSlot, Step, ThrottleInv, ScheduleInv
  <2>3. scheduledAt[c] \in Nat /\ nextRequestAt \in Nat /\ Interval \in Nat
    BY SyncTransportAssumption DEF TypeInv, TypeOK
  <2> QED
    BY <2>1, <2>2, <2>3 DEF ClaimSlot
<1>2. Init => TypeInv /\ ThrottleInv
  BY TypeInit, ThrottleInit
<1>3. TypeInv /\ ThrottleInv /\ [Next]_vars => TypeInv' /\ ThrottleInv'
  BY TypeStep, ThrottleStep
<1> QED
  BY <1>1, <1>2, <1>3, PTL DEF Spec, ClaimsSpaced

-----------------------------------------------------------------------------
(* The bound on what one call can cost.                                     *)

OutcomeInv == \A c \in Calls : pc[c] # "done" => outcome[c] = Pending

LEMMA OutcomeInit == Init => OutcomeInv
BY DEF Init, OutcomeInv

LEMMA OutcomeStep == TypeInv /\ OutcomeInv /\ [Next]_vars => OutcomeInv'
<1> SUFFICES ASSUME TypeInv, OutcomeInv, [Next]_vars PROVE OutcomeInv'
  OBVIOUS
<1>1. ASSUME UNCHANGED <<pc, outcome>> PROVE OutcomeInv'
  BY <1>1 DEF OutcomeInv
<1>2. ASSUME NEW c \in Calls, pc[c] # "done", UNCHANGED outcome,
             \A d \in Calls : d # c => pc'[d] = pc[d]
      PROVE  OutcomeInv'
  BY <1>2 DEF OutcomeInv
<1>3. ASSUME NEW c \in Calls, pc'[c] = "done",
             \A d \in Calls : d # c => pc'[d] = pc[d] /\ outcome'[d] = outcome[d]
      PROVE  OutcomeInv'
  BY <1>3 DEF OutcomeInv
<1>4. ASSUME NEW c \in Calls,
             \/ Start(c) \/ ReadSchedule(c) \/ ClaimSlot(c) \/ SendRequest(c)
             \/ WakeFromBackoff(c)
      PROVE  OutcomeInv'
  <2>1. /\ pc[c] # "done" /\ outcome' = outcome
        /\ \A d \in Calls : d # c => pc'[d] = pc[d]
    BY <1>4 DEF Start, ReadSchedule, ClaimSlot, SendRequest, WakeFromBackoff, Step,
       TypeInv, TypeOK, endVars
  <2> QED
    BY <2>1, <1>2
<1>5. ASSUME NEW c \in Calls, Ends(c) PROVE OutcomeInv'
  <2>1. CASE \E kind \in Kinds : Finish(c, kind)
    <3>1. /\ pc'[c] = "done"
          /\ \A d \in Calls : d # c => pc'[d] = pc[d] /\ outcome'[d] = outcome[d]
      BY <2>1 DEF Finish, Step, TypeInv, TypeOK
    <3> QED
      BY <3>1, <1>3
  <2>2. CASE \E r \in Nat \cup {None}, asked \in Int : Backoff(c, r, asked)
    <3>1. /\ pc[c] # "done" /\ outcome' = outcome
          /\ \A d \in Calls : d # c => pc'[d] = pc[d]
      BY <2>2 DEF Backoff, Step, TypeInv, TypeOK
    <3> QED
      BY <3>1, <1>2
  <2> QED
    BY <1>5, <2>1, <2>2 DEF Ends
<1>6. ASSUME NEW c \in Calls, Refuse(c) PROVE OutcomeInv'
  <2>1. /\ pc'[c] = "done"
        /\ \A d \in Calls : d # c => pc'[d] = pc[d] /\ outcome'[d] = outcome[d]
    BY <1>6 DEF Refuse, Step, TypeInv, TypeOK
  <2> QED
    BY <2>1, <1>3
<1>7. Serve \/ Tick \/ UNCHANGED vars \/ (\E c \in Calls : Progress(c))
         => UNCHANGED <<pc, outcome>>
  BY DEF Serve, Tick, Progress, vars, endVars
<1> QED
  BY <1>1, <1>4, <1>5, <1>6, <1>7, ReceiveEnds, AttemptFailsEnds DEF Next, Run

(* The end of a call, as BillableCall sees it. *)
LEMMA FinishMaps ==
  ASSUME TypeInv, OutcomeInv, NEW c \in Calls, Finish(c, "returned"),
         <<c, attempts[c]>> \in served, UNCHANGED wireVars
  PROVE  Billable!Deliver(c)
<1>1. pc[c] = "in_flight" /\ outcome[c] = Pending
  BY DEF Finish, Step, OutcomeInv
<1>2. attempts[c] \in 1 .. Budget[c]
  BY <1>1, PlanType DEF TypeInv, TypeOK, AttemptsOK, Budget
<1>3. [d \in Calls |-> Promise(d)][c] = "pending"
  BY <1>1 DEF Promise, Pending
<1>4. \A d \in Calls : d # c => Promise(d)' = Promise(d)
  BY DEF Finish, Promise, TypeInv, TypeOK
<1>5. Promise(c)' = "delivered"
  <2>1. outcome'[c].kind = "returned"
    BY DEF Finish, Ended, TypeInv, TypeOK
  <2> QED
    BY <2>1 DEF Promise
<1>6. [d \in Calls |-> Promise(d)]'
         = [[d \in Calls |-> Promise(d)] EXCEPT ![c] = "delivered"]
  BY <1>4, <1>5
<1> QED
  BY <1>2, <1>3, <1>6 DEF Billable!Deliver, wireVars

LEMMA FailureMaps ==
  ASSUME TypeInv, NEW c \in Calls, outcome[c] = Pending,
         NEW kind \in Kinds \ {"pending", "returned"}, NEW n \in Nat,
         outcome' = [outcome EXCEPT ![c] = Ended(kind, n)], UNCHANGED wireVars
  PROVE  Billable!Fail(c)
<1>1. [d \in Calls |-> Promise(d)][c] = "pending"
  BY DEF Promise, Pending
<1>2. \A d \in Calls : d # c => Promise(d)' = Promise(d)
  BY DEF Promise, TypeInv, TypeOK
<1>3. Promise(c)' = "failed"
  <2>1. outcome'[c].kind \notin {"pending", "returned"}
    BY DEF Ended, TypeInv, TypeOK
  <2> QED
    BY <2>1 DEF Promise
<1>4. [d \in Calls |-> Promise(d)]'
         = [[d \in Calls |-> Promise(d)] EXCEPT ![c] = "failed"]
  BY <1>2, <1>3
<1> QED
  BY <1>1, <1>4 DEF Billable!Fail, wireVars

(* No step but the end of a call changes what its caller knows, and no step
   but SendRequest and Serve touches the wire. *)
LEMMA QuietMaps ==
  ASSUME UNCHANGED <<sent, served, outcome>>
  PROVE  UNCHANGED Billable!callVars
<1>1. \A d \in Calls : Promise(d)' = Promise(d)
  BY DEF Promise
<1> QED
  BY <1>1 DEF Billable!callVars

LEMMA ReceiveMaps ==
  ASSUME TypeInv, OutcomeInv, NEW c \in Calls, NEW answer \in Answers,
         Receive(c, answer)
  PROVE  [Billable!Next]_(Billable!callVars)
<1>1. UNCHANGED wireVars /\ <<c, attempts[c]>> \in served
  BY DEF Receive
<1>2. CASE Finish(c, "returned")
  BY <1>1, <1>2, FinishMaps DEF Billable!Next
<1>3. CASE Finish(c, ErrorFromStatus(answer.status))
  <2>1. outcome[c] = Pending /\ attempts[c] \in Nat
    BY <1>3 DEF Finish, Step, OutcomeInv, TypeInv, TypeOK
  <2>2. ErrorFromStatus(answer.status) \in Kinds \ {"pending", "returned"}
    BY SyncTransportAssumption DEF ErrorFromStatus, Kinds, ErrorClasses
  <2>3. outcome' = [outcome EXCEPT ![c] =
                       Ended(ErrorFromStatus(answer.status), attempts[c])]
    BY <1>3 DEF Finish
  <2> QED
    BY <1>1, <2>1, <2>2, <2>3, FailureMaps DEF Billable!Next
<1>4. CASE \E r, asked : Backoff(c, r, asked)
  BY <1>1, <1>4, QuietMaps DEF Backoff, wireVars
<1> QED
  BY <1>2, <1>3, <1>4 DEF Receive

LEMMA AttemptFailsMaps ==
  ASSUME TypeInv, OutcomeInv, NEW c \in Calls,
         NEW kind \in {"Timeout", "Network"}, AttemptFails(c, kind)
  PROVE  [Billable!Next]_(Billable!callVars)
<1>1. UNCHANGED wireVars
  BY DEF AttemptFails
<1>2. CASE Finish(c, kind)
  <2>1. outcome[c] = Pending /\ attempts[c] \in Nat
    BY <1>2 DEF Finish, Step, OutcomeInv, TypeInv, TypeOK
  <2>2. kind \in Kinds \ {"pending", "returned"}
    BY DEF Kinds
  <2>3. outcome' = [outcome EXCEPT ![c] = Ended(kind, attempts[c])]
    BY <1>2 DEF Finish
  <2> QED
    BY <1>1, <2>1, <2>2, <2>3, FailureMaps DEF Billable!Next
<1>3. CASE Backoff(c, None, now)
  BY <1>1, <1>3, QuietMaps DEF Backoff, wireVars
<1> QED
  BY <1>2, <1>3 DEF AttemptFails

LEMMA SendMaps ==
  ASSUME TypeInv, ThrottleInv, OutcomeInv, NEW c \in Calls, SendRequest(c)
  PROVE  Billable!Send(c)
<1>1. pc[c] = "throttled" /\ sent' = sent \cup {<<c, attempts[c]>>}
      /\ UNCHANGED <<served, outcome>>
  BY DEF SendRequest, Step
<1>2. <<c, attempts[c]>> \notin sent
  BY SendRequestStep
<1>3. attempts[c] \in 1 .. Budget[c]
  BY <1>1, PlanType DEF TypeInv, TypeOK, AttemptsOK, Budget
<1>4. [d \in Calls |-> Promise(d)][c] = "pending"
  BY <1>1 DEF OutcomeInv, Promise, Pending
<1>5. UNCHANGED [d \in Calls |-> Promise(d)]
  BY <1>1 DEF Promise
<1> QED
  BY <1>1, <1>2, <1>3, <1>4, <1>5 DEF Billable!Send

(* The initial states and the steps of the transport are those of
   BillableCall. *)
LEMMA BillableInit == Init => Billable!Init
<1> SUFFICES ASSUME Init PROVE Billable!Init
  OBVIOUS
<1>1. [c \in Calls |-> Promise(c)] = [c \in Calls |-> "pending"]
  BY DEF Init, Promise, Pending
<1> QED
  BY <1>1 DEF Init, Billable!Init

LEMMA BillableStep ==
  TypeInv /\ ThrottleInv /\ OutcomeInv /\ [Next]_vars
    => [Billable!Next]_(Billable!callVars)
<1> SUFFICES ASSUME TypeInv, ThrottleInv, OutcomeInv, [Next]_vars
             PROVE  [Billable!Next]_(Billable!callVars)
  OBVIOUS
<1>1. CASE Serve
  <2>1. UNCHANGED [d \in Calls |-> Promise(d)]
    BY <1>1 DEF Serve, endVars, Promise
  <2> QED
    BY <1>1, <2>1 DEF Serve, Billable!Next, Billable!Serve
<1>2. CASE Tick
  BY <1>2, QuietMaps DEF Tick, wireVars, endVars
<1>3. ASSUME NEW c \in Calls,
             \/ Start(c) \/ ReadSchedule(c) \/ ClaimSlot(c) \/ Progress(c)
             \/ WakeFromBackoff(c)
      PROVE  [Billable!Next]_(Billable!callVars)
  BY <1>3, QuietMaps DEF Start, ReadSchedule, ClaimSlot, Progress,
     WakeFromBackoff, wireVars, endVars
<1>4. ASSUME NEW c \in Calls, Refuse(c) PROVE Billable!Fail(c)
  <2>1. outcome[c] = Pending /\ "Configuration" \in Kinds \ {"pending", "returned"}
    BY <1>4 DEF Refuse, Step, OutcomeInv, Kinds
  <2> QED
    BY <1>4, <2>1, FailureMaps DEF Refuse
<1>5. CASE UNCHANGED vars
  BY <1>5, QuietMaps DEF vars, wireVars, endVars
<1> QED
  BY <1>1, <1>2, <1>3, <1>4, <1>5, SendMaps, ReceiveMaps, AttemptFailsMaps
     DEF Next, Run, Billable!Next

(* send keeps the promise of BillableCall, for every policy, API and network:
   at most max_retries + 1 requests, a result only for a check that was
   served, and nothing on the wire after the caller has its answer. *)
THEOREM BillableCallTheorem == Spec => ImplementsBillableCall
<1>1. Init => TypeInv /\ ThrottleInv /\ OutcomeInv
  BY TypeInit, ThrottleInit, OutcomeInit
<1>2. TypeInv /\ ThrottleInv /\ OutcomeInv /\ [Next]_vars
         => TypeInv' /\ ThrottleInv' /\ OutcomeInv'
  BY TypeStep, ThrottleStep, OutcomeStep
<1> QED
  BY <1>1, <1>2, BillableInit, BillableStep, PTL
     DEF Spec, ImplementsBillableCall, Billable!Spec

-----------------------------------------------------------------------------
(* What a call has put on the wire, attempt by attempt.                     *)

(* The requests of c are its attempts 1, 2, ... in order, up to the attempt it
   is in; that one is not out yet while c is in the throttle. *)
Throttling == {"throttle", "claiming", "throttled"}

Made(c) == IF pc[c] \in Throttling THEN attempts[c] - 1 ELSE attempts[c]

RequestsOf(c) == {r \in sent : r[1] = c}

MadeInv == \A c \in Calls, n \in Nat : <<c, n>> \in sent <=> n \in 1 .. Made(c)

(* What an outcome says of attempts is the call's own count, and a call has an
   outcome only when it is over. *)
ReportInv ==
    \A c \in Calls : outcome[c].kind # "pending" =>
        pc[c] = "done" /\ outcome[c].attempts = attempts[c]

(* Why a call that is over got an error. *)
Spent(c) ==
    outcome[c].kind \notin {"pending", "returned", "Configuration"} =>
        \/ attempts[c] = Plan(c).max_retries + 1
        \/ last[c] \in NeverRetry
        \/ last[c] # 0 /\ last[c] \notin Plan(c).retryable_statuses

SpentInv == \A c \in Calls : Spent(c)

(* A call that goes on has not had a final answer. *)
Final == NeverRetry \cup 200 .. 299

FinalInv ==
    /\ last \in [Calls -> Nat]
    /\ \A c \in Calls : pc[c] # "done" => last[c] \notin Final

(* A call that sleeps, or has slept, sleeps as long as the server asked. *)
Owed(c, t) == 2 * t + Grain >= 2 * notBefore[c]

WaitInv ==
    /\ notBefore \in [Calls -> Nat]
    /\ \A c \in Calls :
          /\ pc[c] = "idle" => notBefore[c] = 0
          /\ pc[c] = "backing_off" => Owed(c, timer[c])
          /\ pc[c] \in Throttling => Owed(c, now)

(* A step that sends nothing, while the calls' own counts stay what they
   were. *)
LEMMA MadeSame ==
  ASSUME MadeInv, sent' = sent, \A d \in Calls : Made(d)' = Made(d)
  PROVE  MadeInv'
BY DEF MadeInv

(* Every step keeps count of the requests of a call. *)
LEMMA MadeStep == TypeInv /\ MadeInv /\ [Next]_vars => MadeInv'
<1> SUFFICES ASSUME TypeInv, MadeInv, [Next]_vars PROVE MadeInv'
  OBVIOUS
<1>1. CASE Serve
  BY <1>1, MadeSame DEF Serve, Made
<1>2. CASE Tick
  BY <1>2, MadeSame DEF Tick, Made, wireVars
<1>3. ASSUME NEW c \in Calls,
             \/ Start(c) \/ Refuse(c) \/ ReadSchedule(c) \/ ClaimSlot(c)
             \/ WakeFromBackoff(c)
      PROVE  MadeInv'
  <2>1. /\ sent' = sent
        /\ \A d \in Calls : d # c => pc'[d] = pc[d] /\ attempts'[d] = attempts[d]
    BY <1>3 DEF Start, Refuse, ReadSchedule, ClaimSlot, WakeFromBackoff, Step,
       wireVars, TypeInv, TypeOK
  <2>2. Made(c)' = Made(c)
    BY <1>3 DEF Start, Refuse, ReadSchedule, ClaimSlot, WakeFromBackoff, Step,
       Made, Throttling, TypeInv, TypeOK, AttemptsOK
  <2> QED
    BY <2>1, <2>2, MadeSame DEF Made
<1>4. ASSUME NEW c \in Calls, Ends(c) PROVE MadeInv'
  <2>1. /\ sent' = sent /\ attempts' = attempts
        /\ pc[c] = "in_flight" /\ pc'[c] \in {"done", "backing_off"}
        /\ \A d \in Calls : d # c => pc'[d] = pc[d]
    BY <1>4 DEF Ends, Finish, Backoff, Step, wireVars, TypeInv, TypeOK
  <2> QED
    BY <2>1, MadeSame DEF Made, Throttling
<1>5. ASSUME NEW c \in Calls, SendRequest(c) PROVE MadeInv'
  <2>1. /\ sent' = sent \cup {<<c, attempts[c]>>} /\ attempts' = attempts
        /\ pc[c] = "throttled" /\ pc'[c] = "in_flight"
        /\ \A d \in Calls : d # c => pc'[d] = pc[d]
    BY <1>5 DEF SendRequest, Step, TypeInv, TypeOK
  <2>2. Made(c) = attempts[c] - 1 /\ Made(c)' = attempts[c] /\ attempts[c] \in Nat \ {0}
    BY <2>1 DEF Made, Throttling, TypeInv, TypeOK, AttemptsOK
  <2>3. \A d \in Calls : d # c => Made(d)' = Made(d)
    BY <2>1 DEF Made
  <2>4. \A n \in Nat : n \in 1 .. attempts[c] <=> n \in 1 .. attempts[c] - 1 \/ n = attempts[c]
    BY <2>2
  <2> QED
    BY <2>1, <2>2, <2>3, <2>4 DEF MadeInv
<1>6. CASE UNCHANGED vars \/ \E c \in Calls : Progress(c)
  BY <1>6, MadeSame DEF vars, Progress, wireVars, Made
<1> QED
  BY <1>1, <1>2, <1>3, <1>4, <1>5, <1>6, ReceiveEnds, AttemptFailsEnds DEF Next, Run

-----------------------------------------------------------------------------
(* The end of an attempt.                                                   *)

(* Nothing of another call changes. *)
OnlyOf(c) ==
    \A d \in Calls : d # c =>
        /\ pc'[d] = pc[d] /\ timer'[d] = timer[d] /\ outcome'[d] = outcome[d]
        /\ last'[d] = last[d] /\ notBefore'[d] = notBefore[d]

(* An attempt ends for good, and for a reason; or it is worth another, after a
   sleep as long as the server asked for. *)
Verdict(c) ==
    /\ pc[c] = "in_flight" /\ OnlyOf(c) /\ UNCHANGED <<now, attempts>>
    /\ notBefore' \in [Calls -> Nat]
    /\ \/ /\ pc'[c] = "done" /\ outcome'[c].attempts = attempts[c]
          /\ Spent(c)'
       \/ /\ pc'[c] = "backing_off" /\ outcome'[c] = outcome[c]
          /\ last'[c] \notin Final /\ Owed(c, timer[c])'

(* The delay before a retry is no shorter than a usable Retry-After, but for
   the rounding (compute_retry_delay). *)
LEMMA DelayHonors ==
  ASSUME NEW c \in Calls, Accepted(c), now \in Nat, NEW header \in Headers,
         NEW draw \in Nat, attempts[c] \in 1 .. Plan(c).max_retries
  PROVE  LET delay == ComputeRetryDelay(attempts[c], Plan(c),
                                        ReadRetryAfter(header, now), draw)
         IN  2 * (now + delay) + Grain >= 2 * Asked(c, header)
<1> DEFINE wait == ReadRetryAfter(header, now)
           delay == ComputeRetryDelay(attempts[c], Plan(c), wait, draw)
<1> SUFFICES 2 * (now + delay) + Grain >= 2 * Asked(c, header)
  OBVIOUS
<1>1. wait \in Nat \cup {None} /\ Asked(c, header) \in Nat /\ Grain \in Nat
  BY RetryAfterType, AskedType, RetryPolicyAssumption
<1>2. delay \in Nat
  BY <1>1, PlanType, DelayType DEF None
<1>3. CASE HonorsServer(Plan(c), wait)
  <2>1. wait \in Nat /\ delay = Round3(wait) /\ 2 * delay + Grain >= 2 * wait
    BY <1>1, <1>3, Round3Near DEF HonorsServer, ComputeRetryDelay, None
  <2>2. now + wait >= Asked(c, header)
    BY <1>3 DEF HonorsServer, Asked, ReadRetryAfter, Headers, NoHeader, NotFinite,
       Garbage, Larger, None
  <2> HIDE DEF wait, delay
  <2> QED
    BY <1>1, <1>2, <2>1, <2>2
<1>4. CASE ~HonorsServer(Plan(c), wait)
  <2>1. Plan(c).respect_retry_after \in BOOLEAN
    BY PlanType DEF RetryOptions
  <2>2. Asked(c, header) = now
    BY <1>1, <1>4, <2>1 DEF HonorsServer, Asked, ReadRetryAfter, Headers, NoHeader,
       NotFinite, Garbage, Larger, None
  <2> HIDE DEF wait, delay
  <2> QED
    BY <1>1, <1>2, <2>2
<1> QED
  BY <1>3, <1>4

LEMMA ReceiveVerdict ==
  ASSUME TypeInv, FinalInv, WaitInv, NEW c \in Calls, NEW answer \in Answers,
         Receive(c, answer)
  PROVE  Verdict(c) /\ last' \in [Calls -> Nat]
<1>1. /\ answer.status \in Nat \ {0} /\ answer.retry_after \in Headers
      /\ pc[c] = "in_flight" /\ UNCHANGED <<now, attempts>>
      /\ last' = [last EXCEPT ![c] = answer.status] /\ last' \in [Calls -> Nat]
  BY SyncTransportAssumption DEF Receive, Finish, Backoff, Step, FinalInv
<1>2. /\ Accepted(c) /\ attempts[c] \in Nat \ {0} /\ now \in Nat
      /\ attempts[c] <= Plan(c).max_retries + 1 /\ Plan(c).max_retries \in Nat
  BY <1>1, PlanType DEF TypeInv, TypeOK, AttemptsOK
<1>3. ASSUME NEW kind, Finish(c, kind)
      PROVE  /\ OnlyOf(c) /\ pc'[c] = "done" /\ notBefore' \in [Calls -> Nat]
             /\ outcome'[c] = Ended(kind, attempts[c])
  BY <1>1, <1>3 DEF Finish, Step, OnlyOf, TypeInv, TypeOK, WaitInv, FinalInv
<1>4. CASE IsSuccess(answer.status) /\ Finish(c, "returned")
  <2>1. outcome'[c].kind = "returned" /\ outcome'[c].attempts = attempts[c]
    <3>1. outcome'[c] = Ended("returned", attempts[c])
      BY <1>3, <1>4
    <3> QED
      BY <3>1 DEF Ended
  <2>2. Spent(c)'
    BY <2>1 DEF Spent
  <2> QED
    BY <1>1, <1>3, <1>4, <2>1, <2>2 DEF Verdict
<1>5. CASE /\ Exhausted(c) \/ ~IsRetryableStatus(answer.status, Plan(c))
           /\ Finish(c, ErrorFromStatus(answer.status))
  <2>1. \/ attempts'[c] = Plan(c).max_retries + 1
        \/ last'[c] \in NeverRetry
        \/ last'[c] # 0 /\ last'[c] \notin Plan(c).retryable_statuses
    BY <1>1, <1>2, <1>5 DEF Exhausted, IsRetryableStatus, FinalInv
  <2>2. Spent(c)'
    BY <2>1 DEF Spent
  <2>3. outcome'[c].attempts = attempts[c]
    <3>1. outcome'[c] = Ended(ErrorFromStatus(answer.status), attempts[c])
      BY <1>3, <1>5
    <3> QED
      BY <3>1 DEF Ended
  <2> QED
    BY <1>1, <1>3, <1>5, <2>2, <2>3 DEF Verdict
<1>6. CASE /\ ~IsSuccess(answer.status) /\ ~Exhausted(c)
           /\ IsRetryableStatus(answer.status, Plan(c))
           /\ Backoff(c, ReadRetryAfter(answer.retry_after, now),
                      Asked(c, answer.retry_after))
  <2> DEFINE delay(draw) == ComputeRetryDelay(attempts[c], Plan(c),
                                ReadRetryAfter(answer.retry_after, now), draw)
  <2>1. PICK draw \in 0 .. Parts - 1 :
          timer' = [timer EXCEPT ![c] = now + delay(draw)]
    BY <1>6 DEF Backoff
  <2>2. attempts[c] \in 1 .. Plan(c).max_retries
    BY <1>2, <1>6 DEF Exhausted
  <2>3. draw \in Nat
    BY RetryPolicyAssumption
  <2>4. 2 * (now + delay(draw)) + Grain >= 2 * Asked(c, answer.retry_after)
    BY <1>1, <1>2, <2>2, <2>3, DelayHonors
  <2>5. Asked(c, answer.retry_after) \in Nat
    BY <1>1, <1>2, AskedType
  <2> HIDE DEF delay
  <2>6. /\ notBefore' = [notBefore EXCEPT ![c] = Asked(c, answer.retry_after)]
        /\ pc' = [pc EXCEPT ![c] = "backing_off"] /\ outcome' = outcome
    BY <1>6 DEF Backoff, Step
  <2>7. OnlyOf(c) /\ notBefore' \in [Calls -> Nat]
    BY <1>1, <2>1, <2>5, <2>6 DEF OnlyOf, TypeInv, TypeOK, WaitInv, FinalInv
  <2>8. Owed(c, timer[c])'
    BY <2>1, <2>4, <2>6 DEF Owed, TypeInv, TypeOK, WaitInv
  <2>9. last'[c] \notin Final /\ pc'[c] = "backing_off"
    BY <1>1, <1>6, <2>6 DEF Final, IsSuccess, IsRetryableStatus, FinalInv, TypeInv, TypeOK
  <2> QED
    BY <1>1, <2>6, <2>7, <2>8, <2>9 DEF Verdict
<1> QED
  BY <1>1, <1>4, <1>5, <1>6 DEF Receive

LEMMA AttemptFailsVerdict ==
  ASSUME TypeInv, FinalInv, WaitInv, NEW c \in Calls,
         NEW kind \in {"Timeout", "Network"}, AttemptFails(c, kind)
  PROVE  Verdict(c) /\ last' \in [Calls -> Nat]
<1>1. /\ pc[c] = "in_flight" /\ UNCHANGED <<now, attempts>> /\ now \in Nat
      /\ last' = [last EXCEPT ![c] = 0] /\ last' \in [Calls -> Nat]
  BY DEF AttemptFails, FinalInv, TypeInv, TypeOK
<1>2. /\ Accepted(c) /\ attempts[c] \in Nat \ {0}
      /\ attempts[c] <= Plan(c).max_retries + 1 /\ Plan(c).max_retries \in Nat
  BY <1>1, PlanType DEF TypeInv, TypeOK, AttemptsOK
<1>3. CASE Exhausted(c) /\ Finish(c, kind)
  <2>1. OnlyOf(c) /\ pc'[c] = "done" /\ notBefore' \in [Calls -> Nat]
    BY <1>1, <1>3 DEF Finish, Step, OnlyOf, TypeInv, TypeOK, WaitInv, FinalInv
  <2>2. outcome'[c] = Ended(kind, attempts[c])
    BY <1>3 DEF Finish, TypeInv, TypeOK
  <2>3. attempts'[c] = Plan(c).max_retries + 1
    BY <1>1, <1>2, <1>3 DEF Exhausted
  <2>4. Spent(c)'
    BY <2>3 DEF Spent
  <2>5. outcome'[c].attempts = attempts[c]
    BY <2>2 DEF Ended
  <2> QED
    BY <1>1, <2>1, <2>4, <2>5 DEF Verdict
<1>4. CASE ~Exhausted(c) /\ Backoff(c, None, now)
  <2>1. PICK draw \in 0 .. Parts - 1 :
          timer' = [timer EXCEPT ![c] = now + ComputeRetryDelay(attempts[c],
                                               Plan(c), None, draw)]
    BY <1>4 DEF Backoff
  <2>2. ComputeRetryDelay(attempts[c], Plan(c), None, draw) \in Nat
    <3>1. attempts[c] \in 1 .. Plan(c).max_retries /\ draw \in Nat /\ None \in Int
      BY <1>2, <1>4, RetryPolicyAssumption DEF Exhausted, None
    <3> QED
      BY <1>2, <3>1, PlanType, DelayType
  <2>3. /\ notBefore' = [notBefore EXCEPT ![c] = now]
        /\ pc' = [pc EXCEPT ![c] = "backing_off"] /\ outcome' = outcome
    BY <1>4 DEF Backoff, Step
  <2>4. OnlyOf(c) /\ notBefore' \in [Calls -> Nat]
    BY <1>1, <2>1, <2>3 DEF OnlyOf, TypeInv, TypeOK, WaitInv, FinalInv
  <2>5. Owed(c, timer[c])'
    BY <1>1, <2>1, <2>2, <2>3, RetryPolicyAssumption DEF Owed, TypeInv, TypeOK, WaitInv
  <2>6. last'[c] \notin Final /\ pc'[c] = "backing_off"
    BY <1>1, <2>3 DEF Final, NeverRetry, FinalInv, TypeInv, TypeOK
  <2> QED
    BY <1>1, <2>3, <2>4, <2>5, <2>6 DEF Verdict
<1> QED
  BY <1>3, <1>4 DEF AttemptFails

-----------------------------------------------------------------------------
(* The four parts about the end of a call are kept by every step.           *)

EndParts == ReportInv /\ SpentInv /\ FinalInv /\ WaitInv

LEMMA EndInit == Init => EndParts /\ MadeInv
<1> SUFFICES ASSUME Init PROVE EndParts /\ MadeInv
  OBVIOUS
<1>1. MadeInv
  BY DEF Init, MadeInv, Made, Throttling, Zero
<1>2. ReportInv /\ SpentInv
  BY DEF Init, ReportInv, SpentInv, Spent, Pending
<1>3. FinalInv /\ WaitInv
  BY DEF Init, FinalInv, Final, NeverRetry, WaitInv, Throttling, Zero
<1> QED
  BY <1>1, <1>2, <1>3 DEF EndParts

LEMMA VerdictStep ==
  ASSUME TypeInv, EndParts, OutcomeInv, NEW c \in Calls, Verdict(c),
         last' \in [Calls -> Nat]
  PROVE  EndParts'
<1>1. outcome[c].kind = "pending" /\ pc[c] = "in_flight"
  BY DEF OutcomeInv, Verdict, Pending
<1>2. ReportInv'
  BY <1>1 DEF EndParts, ReportInv, Verdict, OnlyOf
<1>3. SpentInv'
  <2> SUFFICES ASSUME NEW d \in Calls PROVE Spent(d)'
    BY DEF SpentInv
  <2>1. CASE d # c
    BY <2>1 DEF EndParts, SpentInv, Spent, Verdict, OnlyOf
  <2>2. CASE d = c
    BY <1>1, <2>2 DEF Verdict, Spent
  <2> QED
    BY <2>1, <2>2
<1>4. FinalInv'
  BY DEF EndParts, FinalInv, Verdict, OnlyOf
<1>5. WaitInv'
  BY DEF EndParts, WaitInv, Verdict, OnlyOf, Owed, Throttling
<1> QED
  BY <1>2, <1>3, <1>4, <1>5 DEF EndParts

LEMMA EndStep ==
  TypeInv /\ OutcomeInv /\ EndParts /\ [Next]_vars => EndParts'
<1> SUFFICES ASSUME TypeInv, OutcomeInv, EndParts, [Next]_vars PROVE EndParts'
  OBVIOUS
<1>1. ASSUME UNCHANGED <<pc, attempts, timer, outcome, last, notBefore>>,
             now' >= now, now' \in Nat
      PROVE  EndParts'
  <2>1. ReportInv' /\ SpentInv' /\ FinalInv'
    BY <1>1 DEF EndParts, ReportInv, SpentInv, Spent, FinalInv
  <2>2. WaitInv'
    BY <1>1, RetryPolicyAssumption DEF EndParts, WaitInv, Owed, Throttling, TypeInv, TypeOK
  <2> QED
    BY <2>1, <2>2 DEF EndParts
<1>2. CASE Serve
  BY <1>1, <1>2 DEF Serve, endVars, TypeInv, TypeOK
<1>3. CASE Tick
  BY <1>1, <1>3 DEF Tick, endVars, TypeInv, TypeOK
<1>4. ASSUME NEW c \in Calls, Start(c) \/ ReadSchedule(c) \/ ClaimSlot(c)
                                 \/ WakeFromBackoff(c)
      PROVE  EndParts'
  <2>1. /\ pc[c] # "done" /\ pc'[c] \in Throttling /\ UNCHANGED <<now, outcome, last, notBefore>>
        /\ \A d \in Calls : d # c => /\ pc'[d] = pc[d] /\ timer'[d] = timer[d]
                                     /\ attempts'[d] = attempts[d]
        /\ \/ pc[c] = "idle"
           \/ pc[c] \in Throttling
           \/ pc[c] = "backing_off" /\ now >= timer[c]
    BY <1>4 DEF Start, ReadSchedule, ClaimSlot, WakeFromBackoff, Step, endVars,
       Throttling, TypeInv, TypeOK
  <2>2. outcome[c].kind = "pending"
    BY <2>1 DEF OutcomeInv, Pending
  <2>3. ReportInv' /\ SpentInv'
    BY <2>1, <2>2 DEF EndParts, ReportInv, SpentInv, Spent
  <2>4. FinalInv'
    BY <2>1 DEF EndParts, FinalInv
  <2>5. Owed(c, now)
    BY <2>1, RetryPolicyAssumption DEF EndParts, WaitInv, Owed, Throttling, TypeInv, TypeOK
  <2>6. WaitInv'
    BY <2>1, <2>5 DEF EndParts, WaitInv, Owed, Throttling
  <2> QED
    BY <2>3, <2>4, <2>6 DEF EndParts
<1>5. ASSUME NEW c \in Calls, Refuse(c) PROVE EndParts'
  <2>1. /\ pc[c] = "idle" /\ pc'[c] = "done" /\ UNCHANGED <<now, timer, attempts, last, notBefore>>
        /\ outcome'[c] = Ended("Configuration", 0) /\ attempts[c] = 0
        /\ \A d \in Calls : d # c => pc'[d] = pc[d] /\ outcome'[d] = outcome[d]
    BY <1>5 DEF Refuse, Step, TypeInv, TypeOK, AttemptsOK
  <2>2. ReportInv' /\ SpentInv'
    BY <2>1 DEF EndParts, ReportInv, SpentInv, Spent, Ended
  <2>3. FinalInv' /\ WaitInv'
    BY <2>1 DEF EndParts, FinalInv, WaitInv, Owed, Throttling
  <2> QED
    BY <2>2, <2>3 DEF EndParts
<1>6. ASSUME NEW c \in Calls, SendRequest(c) PROVE EndParts'
  <2>1. /\ pc[c] = "throttled" /\ pc'[c] = "in_flight" /\ UNCHANGED <<now, attempts, outcome, last>>
        /\ notBefore' = [notBefore EXCEPT ![c] = 0]
        /\ \A d \in Calls : d # c => pc'[d] = pc[d] /\ timer'[d] = timer[d]
    BY <1>6 DEF SendRequest, Step, TypeInv, TypeOK
  <2>2. ReportInv' /\ SpentInv' /\ FinalInv'
    BY <2>1 DEF EndParts, ReportInv, SpentInv, Spent, FinalInv
  <2>3. WaitInv'
    BY <2>1 DEF EndParts, WaitInv, Owed, Throttling
  <2> QED
    BY <2>2, <2>3 DEF EndParts
<1>7. ASSUME NEW c \in Calls, NEW answer \in Answers, Receive(c, answer)
      PROVE  EndParts'
  BY <1>7, ReceiveVerdict, VerdictStep DEF EndParts
<1>8. ASSUME NEW c \in Calls, NEW kind \in {"Timeout", "Network"},
             AttemptFails(c, kind)
      PROVE  EndParts'
  BY <1>8, AttemptFailsVerdict, VerdictStep DEF EndParts
<1>9. CASE UNCHANGED vars
  BY <1>1, <1>9 DEF vars, endVars, TypeInv, TypeOK
<1>10. ASSUME NEW c \in Calls, Progress(c) PROVE EndParts'
  <2>1. /\ pc[c] = "in_flight" /\ \A d \in Calls : d # c => timer'[d] = timer[d]
        /\ UNCHANGED <<now, pc, attempts, outcome, last, notBefore>>
    BY <1>10 DEF Progress, endVars, TypeInv, TypeOK
  <2>2. ReportInv' /\ SpentInv' /\ FinalInv'
    BY <2>1 DEF EndParts, ReportInv, SpentInv, Spent, FinalInv
  <2>3. WaitInv'
    BY <2>1 DEF EndParts, WaitInv, Owed, Throttling
  <2> QED
    BY <2>2, <2>3 DEF EndParts
<1> QED
  BY <1>2, <1>3, <1>4, <1>5, <1>6, <1>7, <1>8, <1>9, <1>10 DEF Next, Run

-----------------------------------------------------------------------------
(* The inductive invariant, and what follows from it.                       *)

SyncInv == TypeInv /\ OutcomeInv /\ MadeInv /\ EndParts

LEMMA SyncInvInit == Init => SyncInv
BY TypeInit, OutcomeInit, EndInit DEF SyncInv

LEMMA SyncInvStep == SyncInv /\ [Next]_vars => SyncInv'
BY TypeStep, OutcomeStep, MadeStep, EndStep DEF SyncInv

LEMMA SyncInvariant == Spec => []SyncInv
BY SyncInvInit, SyncInvStep, PTL DEF Spec

(* The requests of a call are as many as its count says. *)
LEMMA MadeCount ==
  ASSUME TypeInv, MadeInv, NEW c \in Calls
  PROVE  Cardinality(RequestsOf(c)) = Made(c)
<1>1. Made(c) \in Nat
  BY DEF Made, Throttling, TypeInv, TypeOK, AttemptsOK
<1>2. \A r \in sent : r = <<r[1], r[2]>> /\ r[2] \in Nat
  BY DEF TypeInv, TypeOK
<1>3. \A n \in Nat : <<c, n>> \in sent <=> n \in 1 .. Made(c)
  BY DEF MadeInv
<1> QED
  BY <1>1, <1>2, <1>3, AttemptsCounted DEF RequestsOf

(* The number of attempts a result or an error carries is the number of
   requests the call put on the wire, for every policy, number of threads and
   API (attempts in send). *)
THEOREM AttemptsReportedTheorem == Spec => []AttemptsReported
<1>1. SyncInv => AttemptsReported
  <2> SUFFICES ASSUME SyncInv, NEW c \in Calls, outcome[c].kind # "pending"
               PROVE  outcome[c].attempts = Cardinality(RequestsOf(c))
    BY DEF AttemptsReported, RequestsOf
  <2>1. pc[c] = "done" /\ outcome[c].attempts = attempts[c]
    BY DEF SyncInv, EndParts, ReportInv
  <2> QED
    BY <2>1, MadeCount DEF SyncInv, Made, Throttling
<1> QED
  BY <1>1, SyncInvariant, PTL

(* A call is given up on only when its retries are spent or its last answer is
   one that is never retried (the two `raise`s of send). *)
THEOREM GivesUpTheorem == Spec => []GivesUpOnlyWhenSpent
<1>1. SyncInv => GivesUpOnlyWhenSpent
  <2> SUFFICES ASSUME SyncInv, NEW c \in Calls,
                      outcome[c].kind \notin {"pending", "returned", "Configuration"}
               PROVE  \/ attempts[c] = Plan(c).max_retries + 1
                      \/ last[c] \in NeverRetry
                      \/ last[c] # 0 /\ last[c] \notin Plan(c).retryable_statuses
    BY DEF GivesUpOnlyWhenSpent
  <2> QED
    BY DEF SyncInv, EndParts, SpentInv, Spent
<1> QED
  BY <1>1, SyncInvariant, PTL

(* A refusal and a success are final (config.py:27, send). *)
THEOREM FinalAnswerTheorem == Spec => NeverRepeatsFinalAnswer
<1>1. SyncInv /\ [Next]_vars =>
        [\A c \in Calls : last[c] \in NeverRetry \cup 200 .. 299 =>
             attempts'[c] = attempts[c]]_vars
  <2> SUFFICES ASSUME SyncInv, Next, NEW c \in Calls, last[c] \in Final
               PROVE  attempts'[c] = attempts[c]
    BY DEF Final
  <2>1. pc[c] = "done"
    BY DEF SyncInv, EndParts, FinalInv
  <2>2. CASE Serve \/ Tick
    BY <2>2 DEF Serve, Tick
  <2>3. ASSUME NEW d \in Calls, Start(d) \/ WakeFromBackoff(d)
        PROVE  attempts'[c] = attempts[c]
    BY <2>1, <2>3 DEF Start, WakeFromBackoff, Step, SyncInv, TypeInv, TypeOK
  <2>4. ASSUME NEW d \in Calls, Run(d), ~Start(d), ~WakeFromBackoff(d)
        PROVE  attempts'[c] = attempts[c]
    BY <2>4 DEF Run, Refuse, ReadSchedule, ClaimSlot, SendRequest, Progress,
       Receive, AttemptFails
  <2> QED
    BY <2>2, <2>3, <2>4 DEF Next
<1> QED
  BY <1>1, SyncInvariant, PTL DEF Spec, NeverRepeatsFinalAnswer

(* No request of a call goes out before the instant the server asked for, but
   for the rounding of the delay to the millisecond (compute_retry_delay). *)
THEOREM RetryAfterTheorem == Spec => RetryAfterHonored
<1>1. SyncInv /\ [Next]_vars =>
        [\A c \in Calls : <<c, attempts[c]>> \in sent' \ sent =>
             2 * now + Grain >= 2 * notBefore[c]]_vars
  <2> SUFFICES ASSUME SyncInv, Next, NEW c \in Calls,
                      <<c, attempts[c]>> \in sent' \ sent
               PROVE  2 * now + Grain >= 2 * notBefore[c]
    OBVIOUS
  <2>1. PICK d \in Calls : SendRequest(d)
    BY DEF Next, Serve, Tick, Run, Start, Refuse, ReadSchedule, ClaimSlot, Progress,
       Receive, AttemptFails, WakeFromBackoff, wireVars
  <2>2. d = c /\ pc[c] = "throttled"
    BY <2>1 DEF SendRequest, Step
  <2> QED
    BY <2>2 DEF SyncInv, EndParts, WaitInv, Owed, Throttling
<1> QED
  BY <1>1, SyncInvariant, PTL DEF Spec, RetryAfterHonored

-----------------------------------------------------------------------------
(* The event loop, for any number of tasks.  A step of it is a step of     *)
(* SyncTransport or a cancellation that reaches its task, so what is left  *)
(* to prove is that a cancellation breaks nothing the threads rely on.     *)

AsyncInv ==
    TypeInv /\ ThrottleInv /\ OutcomeInv /\ cancelled \in [Calls -> BOOLEAN]

(* What the event loop does is what threads might do, or a cancellation. *)
LEMMA AsyncStepIs ==
  [AsyncNext]_asyncVars => [Next]_vars \/ \E c \in Calls : Throw(c)
BY DEF AsyncNext, asyncVars, Resume, Cancel, Next

(* Where CancelledError finds a task, and what it leaves behind. *)
LEMMA ThrowEffect ==
  ASSUME TypeInv, NEW c \in Calls, Throw(c)
  PROVE  /\ pc[c] \notin {"done", "throttle", "claiming"} /\ pc'[c] = "done"
         /\ \A d \in Calls : d # c => pc'[d] = pc[d] /\ timer'[d] = timer[d]
         /\ pc' \in [Calls -> Labels] /\ timer' \in [Calls -> Nat]
         /\ since' \in [Calls -> Nat]
         /\ outcome' = [outcome EXCEPT ![c] = Ended("Cancelled", attempts[c])]
         /\ UNCHANGED <<now, attempts, nextRequestAt, lock, seen, scheduledAt,
                        claims, slot, sent, served, fired>>
BY DEF Throw, LoopFree, Running, TypeInv, TypeOK, Labels, throttleVars, wireVars

LEMMA ThrowTypes == ASSUME TypeInv, NEW c \in Calls, Throw(c) PROVE TypeInv'
<1>1. attempts[c] \in Nat /\ "Cancelled" \in Kinds
  BY DEF TypeInv, TypeOK, Kinds
<1>2. outcome' \in [Calls -> [kind : Kinds, attempts : Nat]]
  BY <1>1, ThrowEffect DEF TypeInv, TypeOK, Ended
<1>3. TypeOK'
  BY <1>2, ThrowEffect DEF TypeInv, TypeOK
<1>4. AttemptsOK'
  BY ThrowEffect DEF TypeInv, AttemptsOK
<1> QED
  BY <1>3, <1>4 DEF TypeInv

(* A cancelled task holds no lock, and the slot it had claimed is nobody's. *)
LEMMA ThrowThrottle ==
  ASSUME TypeInv, ThrottleInv, NEW c \in Calls, Throw(c) PROVE ThrottleInv'
<1>1. LockInv' /\ ScheduleInv' /\ ClaimsInv' /\ FiredInv' /\ CountInv'
  BY ThrowEffect DEF ThrottleInv, LockInv, ScheduleInv, ClaimsInv, FiredInv, CountInv
<1>2. SlotsInv'
  BY ThrowEffect DEF ThrottleInv, SlotsInv
<1>3. SentInv'
  <2> SUFFICES ASSUME NEW r \in sent,
                      pc'[r[1]] \in {"throttle", "claiming", "throttled"}
               PROVE  r[2] < attempts[r[1]]
    BY ThrowEffect DEF ThrottleInv, SentInv
  <2>1. r[1] \in Calls
    BY DEF TypeInv, TypeOK
  <2> QED
    BY <2>1, ThrowEffect DEF ThrottleInv, SentInv
<1> QED
  BY <1>1, <1>2, <1>3 DEF ThrottleInv

LEMMA ThrowOutcome ==
  ASSUME TypeInv, OutcomeInv, NEW c \in Calls, Throw(c) PROVE OutcomeInv'
BY ThrowEffect DEF OutcomeInv, TypeInv, TypeOK

LEMMA AsyncInvInit == AsyncInit => AsyncInv
BY TypeInit, ThrottleInit, OutcomeInit DEF AsyncInit, AsyncInv

LEMMA AsyncInvStep == AsyncInv /\ [AsyncNext]_asyncVars => AsyncInv'
<1> SUFFICES ASSUME AsyncInv, [AsyncNext]_asyncVars PROVE AsyncInv'
  OBVIOUS
<1>1. cancelled' \in [Calls -> BOOLEAN]
  BY DEF AsyncInv, AsyncNext, asyncVars, Resume, Cancel, Throw
<1>2. CASE [Next]_vars
  BY <1>1, <1>2, TypeStep, ThrottleStep, OutcomeStep DEF AsyncInv
<1>3. ASSUME NEW c \in Calls, Throw(c) PROVE AsyncInv'
  BY <1>1, <1>3, ThrowTypes, ThrowThrottle, ThrowOutcome DEF AsyncInv
<1> QED
  BY <1>2, <1>3, AsyncStepIs

LEMMA AsyncInvariant == AsyncSpec => []AsyncInv
BY AsyncInvInit, AsyncInvStep, PTL DEF AsyncSpec

(* A cancelled call is one whose caller is told that it failed. *)
LEMMA ThrowMaps ==
  ASSUME TypeInv, OutcomeInv, NEW c \in Calls, Throw(c) PROVE Billable!Fail(c)
<1>1. /\ outcome[c] = Pending /\ attempts[c] \in Nat
      /\ "Cancelled" \in Kinds \ {"pending", "returned"}
  BY ThrowEffect DEF OutcomeInv, TypeInv, TypeOK, Kinds
<1>2. UNCHANGED wireVars
  BY DEF Throw
<1> QED
  BY <1>1, <1>2, ThrowEffect, FailureMaps

(* Cost and pace: tasks that may be cancelled at any await keep the promises
   of BillableCall and RateCeiling (AsyncTransport.send, _throttle). *)
THEOREM AsyncPromisesTheorem == AsyncSpec => KeepsItsPromises
<1>1. AsyncInit => Billable!Init /\ Ceiling!Init
  BY BillableInit, CeilingInit DEF AsyncInit
<1>2. AsyncInv /\ [AsyncNext]_asyncVars => [Billable!Next]_(Billable!callVars)
  <2> SUFFICES ASSUME AsyncInv, [AsyncNext]_asyncVars
               PROVE  [Billable!Next]_(Billable!callVars)
    OBVIOUS
  <2>1. CASE [Next]_vars
    BY <2>1, BillableStep DEF AsyncInv
  <2>2. ASSUME NEW c \in Calls, Throw(c) PROVE [Billable!Next]_(Billable!callVars)
    BY <2>2, ThrowMaps DEF AsyncInv, Billable!Next
  <2> QED
    BY <2>1, <2>2, AsyncStepIs
<1>3. AsyncInv /\ [AsyncNext]_asyncVars => [Ceiling!Next]_(Ceiling!ceilingVars)
  <2> SUFFICES ASSUME AsyncInv, [AsyncNext]_asyncVars
               PROVE  [Ceiling!Next]_(Ceiling!ceilingVars)
    OBVIOUS
  <2>1. CASE [Next]_vars
    BY <2>1, CeilingStep DEF AsyncInv
  <2>2. ASSUME NEW c \in Calls, Throw(c) PROVE UNCHANGED Ceiling!ceilingVars
    BY <2>2, ThrowEffect DEF AsyncInv, Ceiling!ceilingVars
  <2> QED
    BY <2>1, <2>2, AsyncStepIs
<1> QED
  BY <1>1, <1>2, <1>3, AsyncInvariant, PTL
     DEF AsyncSpec, KeepsItsPromises, ImplementsBillableCall, ImplementsRateCeiling,
         Billable!Spec, Ceiling!Spec

(* From the moment a call is cancelled it puts nothing on the wire and can
   only end as cancelled, wherever the cancellation finds it. *)
THEOREM CancellationTheorem == AsyncSpec => CancellationIsFinal
<1>1. AsyncInv /\ [AsyncNext]_asyncVars =>
        [\A c \in Calls : cancelled[c] /\ outcome[c] = Pending =>
           /\ {r \in sent' : r[1] = c} = {r \in sent : r[1] = c}
           /\ outcome'[c].kind \in {"pending", "Cancelled"}
           /\ cancelled'[c]]_asyncVars
  <2> SUFFICES ASSUME AsyncInv, AsyncNext, NEW c \in Calls, cancelled[c],
                      outcome[c] = Pending
               PROVE  /\ {r \in sent' : r[1] = c} = {r \in sent : r[1] = c}
                      /\ outcome'[c].kind \in {"pending", "Cancelled"}
                      /\ cancelled'[c]
    OBVIOUS
  <2>1. ASSUME UNCHANGED sent, outcome'[c] = outcome[c], cancelled' = cancelled
        PROVE  /\ {r \in sent' : r[1] = c} = {r \in sent : r[1] = c}
               /\ outcome'[c].kind \in {"pending", "Cancelled"}
               /\ cancelled'[c]
    BY <2>1 DEF Pending
  <2>2. CASE (Serve \/ Tick) /\ UNCHANGED cancelled
    BY <2>1, <2>2 DEF Serve, Tick, wireVars, endVars
  <2>3. CASE Resume(c)
    <3>1. Running(c) /\ Run(c) /\ UNCHANGED cancelled
      BY <2>3 DEF Resume
    <3>2. ReadSchedule(c) \/ ClaimSlot(c)
      BY <3>1 DEF Running, Run, Start, Refuse, SendRequest, Progress, Receive,
         Finish, Backoff, AttemptFails, WakeFromBackoff, Step
    <3> QED
      BY <2>1, <3>1, <3>2 DEF ReadSchedule, ClaimSlot, wireVars, endVars
  <2>4. ASSUME NEW d \in Calls, d # c, Resume(d)
        PROVE  /\ {r \in sent' : r[1] = c} = {r \in sent : r[1] = c}
               /\ outcome'[c].kind \in {"pending", "Cancelled"}
               /\ cancelled'[c]
    <3>1. Run(d) /\ cancelled' = cancelled
      BY <2>4 DEF Resume
    <3>2. outcome' = outcome \/ \E e : outcome' = [outcome EXCEPT ![d] = e]
      BY <3>1 DEF Run, Start, Refuse, ReadSchedule, ClaimSlot, SendRequest,
         Progress, Receive, AttemptFails, WakeFromBackoff, Finish, Backoff, endVars
    <3>3. outcome'[c] = outcome[c]
      BY <2>4, <3>2 DEF AsyncInv, TypeInv, TypeOK
    <3>4. sent' = sent \/ sent' = sent \cup {<<d, attempts[d]>>}
      BY <3>1 DEF Run, Start, Refuse, ReadSchedule, ClaimSlot, SendRequest,
         Progress, Receive, AttemptFails, WakeFromBackoff, wireVars
    <3>5. {r \in sent' : r[1] = c} = {r \in sent : r[1] = c}
      BY <2>4, <3>4
    <3> QED
      BY <3>1, <3>3, <3>5 DEF Pending
  <2>5. ASSUME NEW d \in Calls, Cancel(d)
        PROVE  /\ {r \in sent' : r[1] = c} = {r \in sent : r[1] = c}
               /\ outcome'[c].kind \in {"pending", "Cancelled"}
               /\ cancelled'[c]
    BY <2>5 DEF Cancel, vars, wireVars, endVars, AsyncInv, Pending
  <2>6. ASSUME NEW d \in Calls, Throw(d)
        PROVE  /\ {r \in sent' : r[1] = c} = {r \in sent : r[1] = c}
               /\ outcome'[c].kind \in {"pending", "Cancelled"}
               /\ cancelled'[c]
    <3>1. UNCHANGED <<sent, cancelled>>
      BY <2>6 DEF Throw, wireVars
    <3>2. outcome'[c] = outcome[c] \/ outcome'[c] = Ended("Cancelled", attempts[d])
      BY <2>6, ThrowEffect DEF AsyncInv, TypeInv, TypeOK
    <3> QED
      BY <3>1, <3>2 DEF Ended, Pending
  <2> QED
    BY <2>2, <2>3, <2>4, <2>5, <2>6 DEF AsyncNext
<1> QED
  BY <1>1, AsyncInvariant, PTL DEF AsyncSpec, CancellationIsFinal

-----------------------------------------------------------------------------
(* RetrySchedule: a call with any policy that fails any number of times. *)

(* Growing a delay and capping it last is capping it at every step. *)
LEMMA SaturatedIs ==
  ASSUME NEW retry, retry.initial_delay \in Nat, retry.max_delay \in Nat,
         retry.backoff_factor \in Nat \ {0}, NEW n \in Nat \ {0}
  PROVE  Saturated(retry, n) = Smaller(Exponential(n, retry), retry.max_delay)
<1> DEFINE d == retry.initial_delay
           m == retry.max_delay
           b == retry.backoff_factor
           start == Smaller(d, m)
           step == [pair \in Nat \X Nat |->
                       IF pair[1] = 0 THEN start ELSE Smaller(pair[2] * b, m)]
           Is(f) == f = [k \in Nat |-> IF k <= 1 THEN start ELSE Smaller(f[k - 1] * b, m)]
           saturating == CHOOSE f : Is(f)
<1>1. Saturated(retry, n) = saturating[n]
  BY DEF Saturated, Smaller
<1>2. d \in Nat /\ m \in Nat /\ b \in Nat \ {0} /\ start \in Nat
  BY DEF Smaller
<1>3. /\ Exponential(1, retry) = d
      /\ \A k \in Nat \ {0} : /\ Exponential(k, retry) \in Nat
                              /\ Exponential(k + 1, retry) = Exponential(k, retry) * b
  BY ExponentialIs
<1> HIDE DEF d, m, b, start
<1>4. \E f : Is(f)
  <2>1. step \in [Nat \X Nat -> Nat]
    <3>1. ASSUME NEW v \in Nat PROVE Smaller(v * b, m) \in Nat
      BY <1>2 DEF Smaller
    <3> QED BY <1>2, <3>1
  <2>2. PICK f \in [Nat -> Nat] : Recursion(f, start, step)
    <3> HIDE DEF step
    <3> QED BY <1>2, <2>1, RecursionExists
  <2>3. ASSUME NEW k \in Nat, k # 0
        PROVE  step[<<k - 1, f[k - 1]>>] =
                   IF k <= 1 THEN start ELSE Smaller(f[k - 1] * b, m)
    <3>1. k - 1 \in Nat /\ f[k - 1] \in Nat /\ (k - 1 = 0 <=> k <= 1)
      BY <2>3
    <3> QED BY <3>1
  <2>4. Is(f)
    <3> HIDE DEF step
    <3> QED BY <2>2, <2>3 DEF Recursion
  <2> QED BY <2>4
<1>5. Is(saturating)
  BY <1>4
<1> HIDE DEF saturating
<1>6. /\ saturating[1] = start
      /\ \A k \in Nat \ {0} : saturating[k + 1] = Smaller(saturating[k] * b, m)
  <2>1. saturating[1] = start
    BY <1>5
  <2>2. ASSUME NEW k \in Nat \ {0} PROVE saturating[k + 1] = Smaller(saturating[k] * b, m)
    <3>1. k + 1 \in Nat /\ ~(k + 1 <= 1) /\ (k + 1) - 1 = k
      OBVIOUS
    <3> QED BY <1>5, <3>1
  <2> QED BY <2>1, <2>2
<1> HIDE DEF Is
<1> DEFINE Same(k) == saturating[k] = Smaller(Exponential(k, retry), m)
           Good == {k \in Nat : k > 0 => Same(k)}
<1>7. Same(1)
  BY <1>3, <1>6 DEF start
<1>8. ASSUME NEW k \in Nat \ {0}, Same(k) PROVE Same(k + 1)
  <2> DEFINE e == Exponential(k, retry)
  <2>1. /\ e \in Nat /\ Exponential(k + 1, retry) = e * b
        /\ saturating[k + 1] = Smaller(Smaller(e, m) * b, m)
    BY <1>3, <1>6, <1>8
  <2> HIDE DEF e
  <2>2. e * b >= e /\ m * b >= m /\ e * b \in Nat /\ m * b \in Nat
    <3>1. 1 * e <= b * e /\ 1 * m <= b * m
      BY <1>2, <2>1, ProductMonotonic
    <3> QED BY <1>2, <2>1, <3>1
  <2>3. Smaller(Smaller(e, m) * b, m) = Smaller(e * b, m)
    BY <1>2, <2>1, <2>2 DEF Smaller
  <2> QED BY <2>1, <2>3
<1> HIDE DEF Same
<1>9. n \in Good
  <2>1. 0 \in Good /\ Good \in SUBSET Nat
    OBVIOUS
  <2>2. \A k \in 0 .. n - 1 : k \in Good => k + 1 \in Good
    <3> TAKE k \in 0 .. n - 1
    <3>1. CASE k = 0
      BY <1>7, <3>1
    <3>2. CASE k # 0
      BY <1>8, <3>2
    <3> QED BY <3>1, <3>2
  <2> HIDE DEF Good
  <2>3. \A k \in 0 .. n : k \in Good
    BY <2>1, <2>2, Induction
  <2> QED BY <2>3
<1> QED
  BY <1>1, <1>9 DEF Same, m

(* The call's policy is the one its override asks for, and it has waited what
   the policy says of the latest failure. *)
FailuresInv ==
    /\ client \in RetryOptions /\ RetryArgument(override)
    /\ plan = ResolveRetry(client, override)
    /\ failures \in Nat /\ answered \in Headers /\ at \in Nat
    /\ failures > 0 =>
          \E draw \in 0 .. Parts - 1 :
             /\ plan # Rejected
             /\ waited = ComputeRetryDelay(failures, plan,
                                          ReadRetryAfter(answered, at), draw)

LEMMA FailuresInvInit == FailuresInit => FailuresInv
BY RetryScheduleAssumption DEF FailuresInit, FailuresInv, Headers

LEMMA FailuresInvStep ==
  ASSUME FailuresInv, [Fail]_failureVars
  PROVE  FailuresInv'
<1>1. CASE Fail
  <2>1. /\ plan # Rejected /\ failures' = failures + 1
        /\ answered' \in FailureHeaders /\ at' \in Instants /\ drawn' \in 0 .. Parts - 1
        /\ UNCHANGED <<client, override, plan>>
        /\ waited' = ComputeRetryDelay(failures', plan,
                                      ReadRetryAfter(answered', at'), drawn')
    BY <1>1 DEF Fail, policyVars
  <2>2. FailureHeaders \subseteq Headers /\ Instants \subseteq Nat
    BY RetryScheduleAssumption
  <2> QED
    BY <2>1, <2>2 DEF FailuresInv
<1>2. CASE UNCHANGED failureVars
  BY <1>2 DEF failureVars, policyVars, FailuresInv
<1> QED
  BY <1>1, <1>2

(* What the code reads in the latest header is the wait of the definition. *)
LEMMA ServerWaitIs ==
  ASSUME FailuresInv
  PROVE  /\ ReadRetryAfter(answered, at) = ServerWait
         /\ ServerWait \in Nat \cup {None}
         /\ HonorsServer(plan, ServerWait) <=>
               plan.respect_retry_after /\ ServerWait # None
<1>1. /\ ReadRetryAfter(answered, at) \in Nat \cup {None}
      /\ ReadRetryAfter(answered, at) = ServerWait
  BY RetryAfterType DEF FailuresInv, ReadRetryAfter, ServerWait, None,
     Headers, NoHeader, NotFinite, Garbage, Larger, None
<1> QED
  BY <1>1 DEF HonorsServer, None

LEMMA DelayFollows == ASSUME FailuresInv PROVE DelayFollowsPolicy
<1> SUFFICES ASSUME failures > 0
             PROVE  ServerWaitWins /\ BackoffFollowsSchedule
  BY DEF DelayFollowsPolicy, ServerWaitWins,
         BackoffFollowsSchedule, ServerDecides
<1> DEFINE wait == ServerWait
<1>1. PICK draw \in 0 .. Parts - 1 :
        plan # Rejected /\ waited = ComputeRetryDelay(failures, plan, wait, draw)
  BY ServerWaitIs DEF FailuresInv
<1>2. /\ plan.max_delay \in Nat /\ plan.initial_delay \in Nat
      /\ plan.backoff_factor \in Nat \ {0} /\ failures \in Nat \ {0}
  <2>1. plan \in RetryOptions
    BY <1>1, ResolvedType DEF FailuresInv
  <2> QED
    BY <2>1 DEF RetryOptions, FailuresInv
<1>3. wait \in Nat \cup {None}
      /\ (HonorsServer(plan, wait) <=> plan.respect_retry_after /\ wait # None)
      /\ (ServerDecides <=> HonorsServer(plan, wait))
  BY ServerWaitIs DEF ServerDecides
<1>4. CASE HonorsServer(plan, wait)
  <2>1. wait \in Nat /\ waited = Round3(wait) /\ waited \in Nat /\ Grain \in Nat
    BY <1>1, <1>3, <1>4, Round3Type, RetryPolicyAssumption DEF ComputeRetryDelay
  <2>2. 2 * waited <= 2 * wait + Grain /\ 2 * waited + Grain >= 2 * wait
    BY <2>1, Round3Near, Round3Below
  <2>3. 2 * (waited - wait) <= Grain /\ 2 * (wait - waited) <= Grain
    BY <2>1, <2>2
  <2> QED
    BY <1>3, <1>4, <2>3 DEF ServerWaitWins, BackoffFollowsSchedule
<1>5. CASE ~HonorsServer(plan, wait)
  <2> DEFINE full == Saturated(plan, failures)
  <2>1. full = Smaller(Exponential(failures, plan), plan.max_delay)
    BY <1>2, SaturatedIs
  <2>2. /\ waited >= 0 /\ 2 * (waited - full) <= Grain
        /\ ~plan.jitter => 2 * (full - waited) <= Grain
    BY <1>1, <1>2, <1>5, <2>1, BackoffTheorem
  <2> QED
    BY <1>3, <1>5, <2>2 DEF ServerWaitWins, BackoffFollowsSchedule
<1> QED
  BY <1>4, <1>5

LEMMA OverrideChanges == ASSUME FailuresInv PROVE OverrideChangesWhatItNames
<1> DEFINE fields == override.fields
<1>1. DOMAIN client = OptionNames
  BY DEF FailuresInv, RetryOptions, OptionNames
<1>2. plan \in RetryOptions \cup {Rejected} /\ Rejected \notin RetryOptions
  BY ResolvedType, RejectedIsNone DEF FailuresInv
<1>3. CASE override.kind = "mapping" /\ WellTyped(fields)
  <2> DEFINE refused == \/ ~(DOMAIN fields \subseteq OptionNames)
                        \/ \E f \in DOMAIN fields \cap {"max_retries", "initial_delay",
                                                     "max_delay", "backoff_factor"} :
                              fields[f] < Least(f)
  <2>1. plan = ResolveRetry(client, Mapping(fields))
    BY <1>3 DEF FailuresInv, ResolveRetry, Mapping
  <2>2. /\ plan = Rejected <=> refused
        /\ ~refused => \A f \in OptionNames :
              plan[f] = IF f \in DOMAIN fields THEN fields[f] ELSE client[f]
    BY <1>3, <2>1, MappingTheorem DEF FailuresInv
  <2> QED
    BY <1>1, <1>2, <1>3, <2>2 DEF OverrideChangesWhatItNames, Least
<1>4. CASE override.kind = "whole" /\ override.options \in RetryOptions
  <2>1. plan = override.options
    BY <1>4 DEF FailuresInv, ResolveRetry
  <2> QED
    BY <1>1, <1>2, <1>4, <2>1 DEF OverrideChangesWhatItNames
<1>5. CASE override = Keep
  <2>1. plan = client /\ override.kind = "keep"
    BY <1>5 DEF FailuresInv, ResolveRetry, Keep
  <2> QED
    BY <1>1, <1>2, <2>1 DEF OverrideChangesWhatItNames, FailuresInv
<1>6. CASE override = Off
  <2>1. /\ override.kind = "off" /\ plan \in RetryOptions /\ plan.max_retries = 0
        /\ \A f \in OptionNames \ {"max_retries"} : plan[f] = client[f]
    BY <1>6, PlainOverrideTheorem DEF FailuresInv, Off
  <2> QED
    BY <1>1, <1>2, <2>1 DEF OverrideChangesWhatItNames
<1> QED
  BY <1>3, <1>4, <1>5, <1>6 DEF FailuresInv, RetryArgument

(* Whatever the policies, the arguments, the headers, the instants and the
   draws, after every failure of a call the wait is the server's when it asks
   for one that counts, and otherwise capped exponential backoff, or with jitter
   anywhere below it (compute_retry_delay, read_retry_after). *)
THEOREM DelayTheorem == FailuresSpec => []DelayFollowsPolicy
<1>1. FailuresInit => FailuresInv
  BY FailuresInvInit
<1>2. FailuresInv /\ [Fail]_failureVars => FailuresInv'
  BY FailuresInvStep
<1>3. FailuresInv => DelayFollowsPolicy
  BY DelayFollows
<1> QED
  BY <1>1, <1>2, <1>3, PTL DEF FailuresSpec

(* Throughout a call, its policy differs from the client's in what its argument
   names and in nothing else, and is one that __post_init__ accepts; the call is
   refused for an unknown name or a number out of range, and for nothing else
   (resolve_retry). *)
THEOREM OverrideTheorem == FailuresSpec => []OverrideChangesWhatItNames
<1>1. FailuresInit => FailuresInv
  BY FailuresInvInit
<1>2. FailuresInv /\ [Fail]_failureVars => FailuresInv'
  BY FailuresInvStep
<1>3. FailuresInv => OverrideChangesWhatItNames
  BY OverrideChanges
<1> QED
  BY <1>1, <1>2, <1>3, PTL DEF FailuresSpec
=============================================================================
