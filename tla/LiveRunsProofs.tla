--------------------------- MODULE LiveRunsProofs ---------------------------
(***************************************************************************)
(* What the recorder and the smoke run promise, for any deployment, any    *)
(* contract, any recording to begin with and any number of disturbances.   *)
(***************************************************************************)
EXTENDS LiveRuns, CountingLemmas

-----------------------------------------------------------------------------
(* The plan.                                                               *)

(* The two probes have three entries each. *)
LEMMA Probes ==
    /\ MissBatch = <<"e1", "e2", "e9">> /\ DuplicateProbe = <<"e2", "e1", "e2">>
    /\ Len(MissBatch) = 3 /\ Len(DuplicateProbe) = 3
<1>1. BULK_EINS = <<"e1", "e2">> /\ Len(BULK_EINS) = 2
  BY DEF BULK_EINS
<1>2. Probe = SubSeq(BULK_EINS, 1, 2)
  BY <1>1 DEF Probe, BULK_PROBE_LIMIT
<1>3. Probe = <<"e1", "e2">>
  <2>1. <<"e1", "e2">> \in Seq({"e1", "e2"})
    OBVIOUS
  <2>2. /\ Probe \in Seq({"e1", "e2"}) /\ Len(Probe) = 2
        /\ Probe[1] = "e1" /\ Probe[2] = "e2"
    BY <1>1, <1>2, <2>1
  <2> QED
    BY <2>2
<1>4. MissBatch = <<"e1", "e2", "e9">>
  <2>1. <<"e1", "e2">> \in Seq({"e1", "e2", "e9"}) /\ Len(<<"e1", "e2">>) = 2
    OBVIOUS
  <2>2. /\ MissBatch \in Seq({"e1", "e2", "e9"}) /\ Len(MissBatch) = 3
        /\ MissBatch[1] = "e1" /\ MissBatch[2] = "e2" /\ MissBatch[3] = "e9"
    BY <1>3, <2>1 DEF MissBatch, MISSING_EIN
  <2> QED
    BY <2>2
<1>5. DuplicateProbe = <<"e2", "e1", "e2">>
  BY <1>1 DEF DuplicateProbe
<1> QED
  BY <1>4, <1>5

(* A check before the bulk checks, and one from them on. *)
LEMMA PlanHalves ==
    /\ DOMAIN Plan = 1 .. 44 /\ Len(Plan) = 44
    /\ \A i \in 1 .. 30 : Plan[i] = PlanBeforeBulk[i]
    /\ \A i \in 31 .. 44 : Plan[i] = PlanFromBulk[i - 30]
<1> DEFINE S == {PlanBeforeBulk[i] : i \in 1 .. 30} \cup {PlanFromBulk[i] : i \in 1 .. 14}
<1>1. /\ PlanBeforeBulk = [i \in 1 .. 30 |-> PlanBeforeBulk[i]]
      /\ Len(PlanBeforeBulk) = 30
  BY DEF PlanBeforeBulk
<1>2. /\ PlanFromBulk = [i \in 1 .. 14 |-> PlanFromBulk[i]]
      /\ Len(PlanFromBulk) = 14
  BY DEF PlanFromBulk
<1>3. PlanBeforeBulk \in [1 .. 30 -> S] /\ PlanFromBulk \in [1 .. 14 -> S]
  BY <1>1, <1>2
<1>4. \A n \in Nat : \A T : [1 .. n -> T] \subseteq Seq(T)
  OBVIOUS
<1>5. PlanBeforeBulk \in Seq(S) /\ PlanFromBulk \in Seq(S)
  <2> HIDE DEF S
  <2> QED BY <1>3, <1>4
<1> HIDE DEF S
<1> QED
  BY <1>1, <1>2, <1>5 DEF Plan

(* The checks that read both responses. *)
Lasting == {"bulk_and_single_agree", "single_response_types", "single_response_fields",
            "bulk_response_types", "bulk_response_fields", "single_response_vs_recording",
            "bulk_response_vs_recording"}

(* They come after those that capture a response, and a check that sends costs
   what it may be billed for one attempt. *)
Placed(check, i) ==
    /\ check.cost \in Nat
    /\ check.name \in Lasting => i > 32
    /\ check.name \in {"single_check", "bulk_with_a_miss", "bulk_order_and_duplicates"} => i <= 32
    /\ check.name \in {"single_check", "EIN_normalization_end_to_end", "not_found",
                       "a_repeat_check_is_stable"} => check.cost = 1
    /\ check.name \in {"bulk_with_a_miss", "bulk_order_and_duplicates"} => check.cost = 3
    /\ check.name = "timeout_and_cancellation" => check.cost = 2
    /\ check.name = "rate_limit" => check.cost = 10

LEMMA PlanOrder == ASSUME NEW i \in DOMAIN Plan PROVE Placed(Plan[i], i)
<1>1. ASSUME NEW k \in 1 .. 30 PROVE Placed(PlanBeforeBulk[k], k)
  <2>1. k \in {1, 2, 3, 4, 5, 6, 7, 8, 9, 10, 11, 12, 13, 14, 15, 16, 17, 18, 19, 20,
               21, 22, 23, 24, 25, 26, 27, 28, 29, 30}
    OBVIOUS
  <2> QED
    BY <2>1 DEF PlanBeforeBulk, Check, Placed, Lasting
<1>2. ASSUME NEW k \in 1 .. 14 PROVE Placed(PlanFromBulk[k], k + 30)
  <2>1. k \in {1, 2, 3, 4, 5, 6, 7, 8, 9, 10, 11, 12, 13, 14}
    OBVIOUS
  <2>2. Len(MissBatch) = 3 /\ Len(DuplicateProbe) = 3 /\ RATE_LIMIT_ATTEMPTS = 10
    BY Probes DEF RATE_LIMIT_ATTEMPTS
  <2> QED
    BY <2>1, <2>2 DEF PlanFromBulk, Check, Placed, Lasting
<1> QED
  BY <1>1, <1>2, PlanHalves

(* Where those are that read both. *)
LEMMA LastingPlaces ==
    /\ Plan[33].name = "bulk_and_single_agree"
    /\ Plan[34].name = "single_response_types" /\ Plan[35].name = "single_response_fields"
    /\ Plan[36].name = "bulk_response_types" /\ Plan[37].name = "bulk_response_fields"
    /\ Plan[38].name = "single_response_vs_recording"
    /\ Plan[39].name = "bulk_response_vs_recording"
<1>1. /\ PlanFromBulk[3].name = "bulk_and_single_agree"
      /\ PlanFromBulk[4].name = "single_response_types"
      /\ PlanFromBulk[5].name = "single_response_fields"
      /\ PlanFromBulk[6].name = "bulk_response_types"
      /\ PlanFromBulk[7].name = "bulk_response_fields"
      /\ PlanFromBulk[8].name = "single_response_vs_recording"
      /\ PlanFromBulk[9].name = "bulk_response_vs_recording"
  BY DEF PlanFromBulk, Check
<1> QED
  BY <1>1, PlanHalves

-----------------------------------------------------------------------------
(* The recorder.                                                           *)

RecorderFields == {"pc", "settings", "single", "bulk", "attempt", "existing", "exit"}

(* Until it writes, the recorder leaves the file as it found it, and has not
   read it; once it is done, the file is what it promised. *)
RecorderInv ==
    /\ DOMAIN recorder = RecorderFields
    /\ disturbances \in Nat
    /\ recorder.pc \in {"start", "single", "bulk", "decide", "writing", "done"}
    /\ recorder.pc \notin {"writing", "done"} =>
          disk \in Recordings /\ recorder.existing.state = "absent"
    /\ RecordingSurvives

LEMMA EndingIs ==
    ASSUME DOMAIN recorder = RecorderFields, NEW status
    PROVE  /\ DOMAIN Ending(recorder, status) = RecorderFields
           /\ Ending(recorder, status).pc = "done" /\ Ending(recorder, status).exit = status
           /\ Ending(recorder, status).existing = recorder.existing
           /\ Ending(recorder, status).single = recorder.single
           /\ Ending(recorder, status).bulk = recorder.bulk
BY DEF Ending, RecorderFields

(* A call disturbs the deployment or it does not. *)
LEMMA DisturbedType == \A call : Disturbed(call) \in {0, 1}
BY DEF Disturbed

(* What the recorder leaves of the file when it ends without opening it. *)
LEMMA EndsUnread ==
    ASSUME RecorderInv, recorder.pc \notin {"writing", "done"}, NEW status,
           recorder' = Ending(recorder, status), UNCHANGED <<disk, disturbances>>
    PROVE  RecorderInv'
<1>1. disk' \in Recordings /\ recorder'.existing.state = "absent" /\ recorder'.pc = "done"
  BY EndingIs DEF RecorderInv
<1>2. RecordingSurvives'
  BY <1>1 DEF RecordingSurvives, Recorded, Readable
<1>3. DOMAIN recorder' = RecorderFields /\ disturbances' \in Nat
  BY EndingIs DEF RecorderInv
<1> QED
  BY <1>1, <1>2, <1>3 DEF RecorderInv

LEMMA RecorderStep == RecorderInv /\ [Next]_vars => RecorderInv'
<1> SUFFICES ASSUME RecorderInv, [Next]_vars PROVE RecorderInv'
  OBVIOUS
<1>0. disturbances \in Nat /\ DOMAIN recorder = RecorderFields
  BY DEF RecorderInv
(* A step before the end that has not opened the file. *)
<1>1. ASSUME recorder.pc \in {"start", "single", "bulk"}, UNCHANGED disk,
             DOMAIN recorder' = RecorderFields, recorder'.existing = recorder.existing,
             recorder'.pc \in {"single", "bulk", "decide"}, disturbances' \in Nat
      PROVE  RecorderInv'
  BY <1>1 DEF RecorderInv, RecordingSurvives
(* A step of another. *)
<1>2. ASSUME UNCHANGED <<disk, recorder>>, disturbances' \in Nat, disturbances' >= disturbances
      PROVE  RecorderInv'
  BY <1>0, <1>2 DEF RecorderInv, RecordingSurvives, Recorded, Readable
<1>3. CASE RecorderStarts
  <2>1. CASE recorder.settings.key /\ recorder.settings.target # "other"
    <3>1. /\ recorder' = [recorder EXCEPT !.pc = "single"]
          /\ recorder.pc = "start" /\ UNCHANGED <<disk, disturbances>>
      BY <1>3, <2>1 DEF RecorderStarts
    <3>2. /\ DOMAIN recorder' = RecorderFields /\ recorder'.existing = recorder.existing
          /\ recorder'.pc = "single"
      BY <1>0, <3>1 DEF RecorderFields
    <3> QED
      BY <1>0, <1>1, <3>1, <3>2
  <2>2. CASE ~(recorder.settings.key /\ recorder.settings.target # "other")
    BY <1>3, <2>2, EndsUnread DEF RecorderStarts
  <2> QED
    BY <2>1, <2>2
<1>4. CASE RecordSingle
  <2>1. PICK call, half :
          /\ recorder' = [recorder EXCEPT !.pc = "bulk", !.single = half]
          /\ recorder.pc = "single" /\ UNCHANGED disk
          /\ disturbances' = disturbances + Disturbed(call)
    BY <1>4 DEF RecordSingle, Sent
  <2>2. /\ DOMAIN recorder' = RecorderFields /\ recorder'.existing = recorder.existing
        /\ recorder'.pc = "bulk"
    BY <1>0, <2>1 DEF RecorderFields
  <2> QED
    BY <1>0, <1>1, <2>1, <2>2, DisturbedType
<1>5. CASE RecordBulk
  <2> DEFINE eins == BulkAttempts[recorder.attempt]
             recorded(call) ==
                [recorder EXCEPT !.pc = "decide",
                    !.bulk = SignatureOf(BulkResponse(world, eins, Charged(call, eins)))]
             missed == [recorder EXCEPT !.attempt = @ + 1,
                          !.pc = IF recorder.attempt = Len(BulkAttempts) THEN "decide" ELSE @]
  <2>1. PICK call \in Calls(2) :
          /\ recorder.pc = "bulk" /\ UNCHANGED disk /\ Sent(call, eins)
          /\ recorder' = recorded(call) \/ recorder' = missed
    BY <1>5 DEF RecordBulk
  <2>2. /\ DOMAIN recorder' = RecorderFields /\ recorder'.existing = recorder.existing
        /\ recorder'.pc \in {"bulk", "decide"}
    <3>1. CASE recorder' = recorded(call)
      BY <1>0, <3>1 DEF RecorderFields
    <3>2. CASE recorder' = missed
      BY <1>0, <2>1, <3>2 DEF RecorderFields
    <3> QED
      BY <2>1, <3>1, <3>2
  <2>3. disturbances' = disturbances + Disturbed(call)
    BY <2>1 DEF Sent
  <2> QED
    BY <1>0, <1>1, <2>1, <2>2, <2>3, DisturbedType
<1>6. CASE Decide
  <2>1. CASE \E status : recorder' = Ending(recorder, status) /\ UNCHANGED disk
    BY <1>6, <2>1, EndsUnread DEF Decide
  <2>2. CASE recorder' = [recorder EXCEPT !.pc = "writing", !.existing = disk]
    <3>1. DOMAIN recorder' = RecorderFields /\ recorder'.pc = "writing"
      BY <1>0, <2>2 DEF RecorderFields
    <3> QED
      BY <1>0, <1>6, <3>1 DEF Decide, RecorderInv, RecordingSurvives
  <2> QED
    BY <1>6, <2>1, <2>2 DEF Decide
<1>7. CASE Write
  <2>1. /\ recorder' = Ending(recorder, 0) /\ UNCHANGED disturbances
        /\ disk'.state = "recorded"
        /\ disk'.single = Half("single") /\ disk'.bulk = Half("bulk")
    BY <1>7 DEF Write
  <2>2. ASSUME NEW kind \in {"single", "bulk"}, Recorded(recorder.existing, kind)
        PROVE  /\ Half(kind) # Unrecorded
               /\ Half(kind) \in {recorder.existing[kind], recorder[kind]}
    BY <2>2 DEF Half, Recorded
  <2>3. \A kind \in {"single", "bulk"} :
          /\ disk'[kind] = Half(kind)
          /\ recorder'[kind] = recorder[kind] /\ recorder'.existing = recorder.existing
    BY <1>0, <2>1, EndingIs
  <2>4. RecordingSurvives'
    BY <2>1, <2>2, <2>3 DEF RecordingSurvives, Recorded, Readable
  <2> QED
    BY <1>0, <2>1, <2>4, EndingIs DEF RecorderInv
<1>8. CASE StopsWhileWriting
  <2>1. /\ recorder' = Ending(recorder, 1) /\ disturbances' = disturbances + 1
    BY <1>8 DEF StopsWhileWriting
  <2>2. recorder'.pc = "done" /\ recorder'.exit = 1 /\ DOMAIN recorder' = RecorderFields
    BY <1>0, <2>1, EndingIs
  <2>3. disturbances' > 0 /\ disturbances' \in Nat
    BY <1>0, <2>1
  <2> QED
    BY <2>2, <2>3 DEF RecorderInv, RecordingSurvives
<1>9. CASE Smoke \/ Moves \/ UNCHANGED vars
  <2>1. UNCHANGED <<disk, recorder>>
    BY <1>9 DEF Smoke, Moves, vars, Begin, RunFree, AuthenticationIsEnforced,
                RejectedKeysAreNotRetried, SingleCheck, NormalizationEndToEnd, NotFound,
                BulkWithAMiss, BulkOrderAndDuplicates, RepeatCheck, TimeoutAndCancellation,
                RateLimit, Interrupt, Report
  <2> DEFINE grows == \E n \in {0, 1} : disturbances' = disturbances + n
  <2>2. ASSUME NEW call, disturbances' = disturbances + Disturbed(call) PROVE grows
    BY <2>2, DisturbedType
  <2>3. ASSUME NEW call, NEW eins, Sent(call, eins) PROVE grows
    BY <2>2, <2>3 DEF Sent
  <2>4. ASSUME UNCHANGED disturbances \/ disturbances' = disturbances + 1 PROVE grows
    BY <1>0, <2>4
  <2> HIDE DEF grows
  <2>5. AuthenticationIsEnforced \/ RejectedKeysAreNotRetried => grows
    BY <2>2 DEF AuthenticationIsEnforced, RejectedKeysAreNotRetried
  <2>6. SingleCheck \/ NormalizationEndToEnd \/ NotFound => grows
    BY <2>3 DEF SingleCheck, NormalizationEndToEnd, NotFound
  <2>7. BulkWithAMiss \/ BulkOrderAndDuplicates => grows
    BY <2>3 DEF BulkWithAMiss, BulkOrderAndDuplicates
  <2>8. RepeatCheck => grows
    BY <2>3, <2>4 DEF RepeatCheck
  <2>9. TimeoutAndCancellation => grows
    BY <1>0, <2>4 DEF TimeoutAndCancellation
  <2>10. RateLimit => grows
    BY <2>4 DEF RateLimit
  <2>11. Begin \/ RunFree \/ Interrupt \/ Report \/ Moves \/ UNCHANGED vars => grows
    BY <2>4 DEF Begin, RunFree, Interrupt, Report, Moves, vars
  <2>12. grows
    BY <1>9, <2>5, <2>6, <2>7, <2>8, <2>9, <2>10, <2>11 DEF Smoke
  <2> USE DEF grows
  <2> QED
    BY <1>0, <1>2, <2>1, <2>12
<1> QED
  BY <1>3, <1>4, <1>5, <1>6, <1>7, <1>8, <1>9 DEF Next, Recorder

LEMMA RecorderBegins == Init => RecorderInv /\ recorder.attempt = 1
<1> SUFFICES ASSUME Init PROVE RecorderInv /\ recorder.attempt = 1
  OBVIOUS
<1>1. /\ DOMAIN recorder = RecorderFields /\ recorder.pc = "start" /\ recorder.attempt = 1
      /\ recorder.existing.state = "absent"
  BY DEF Init, RecorderFields
<1> QED
  BY <1>1 DEF Init, RecorderInv, RecordingSurvives

(* A recorder that could not record one half leaves the half on disk as it
   was, and only a stop in the middle of the write leaves a broken file
   (record_baseline.py). *)
THEOREM RecordingTheorem == Spec => []RecordingSurvives
BY RecorderBegins, RecorderStep, PTL DEF Spec, RecorderInv

-----------------------------------------------------------------------------
(* What a check of the smoke run does.                                     *)

RunnerFields == {"key", "step", "results", "spent", "sent", "log", "start", "end",
                 "single", "bulk", "free_tier", "exit", "extra", "opening"}

RunnerOK ==
    /\ counter \in Nat
    /\ DOMAIN runner = RunnerFields
    /\ runner.step \in Nat /\ IsSequence(runner.results)
    /\ runner.spent \in Nat /\ runner.extra \in Nat /\ runner.opening \in Nat
    /\ runner.start \in Int /\ runner.end \in Int

(* What the checks that read both responses have found, of what the run has
   captured. *)
Vouched(name) ==
    LET result == runner.single
    IN  /\ name \in {"bulk_and_single_agree", "single_response_types",
                     "single_response_fields", "single_response_vs_recording"} =>
              HasRecord(runner)
        /\ name \in {"bulk_and_single_agree", "bulk_response_types",
                     "bulk_response_fields", "bulk_response_vs_recording"} => Bulk(runner)
        /\ name = "bulk_and_single_agree" => BulkAndSingleAgree(result, runner.bulk) # "fail"
        /\ name = "single_response_types" => Types("single", result.raw) # "fail"
        /\ name = "single_response_fields" => Fields("single", result.raw) # "fail"
        /\ name = "bulk_response_types" => Types("bulk", runner.bulk) # "fail"
        /\ name = "bulk_response_fields" => Fields("bulk", runner.bulk) # "fail"
        /\ name = "single_response_vs_recording" =>
              Recording("single", result.raw, disk) # "fail"
        /\ name = "bulk_response_vs_recording" =>
              Recording("bulk", runner.bulk, disk) # "fail"

(* The runner r as a check leaves it, before its result is entered: what was
   billed is within the cost of the check and the attempts after the first, a
   count that was seen is one the deployment had meanwhile, and a record is
   kept only when it is the one asked for. *)
Gathered(r) ==
    /\ DOMAIN r = RunnerFields
    /\ \A field \in {"key", "step", "results", "spent", "exit", "opening"} :
          r[field] = runner[field]
    /\ r.extra \in Nat /\ counter' - counter <= Current.cost + (r.extra - runner.extra)
    /\ \/ r.start = runner.start /\ r.end = runner.end
       \/ /\ r.end \in counter .. counter'
          /\ r.start = IF runner.start = None THEN r.end ELSE runner.start
    /\ \/ r.single = runner.single
       \/ Current.name = "single_check" /\ Get(r.single.nonprofit, "ein").id = EIN
    /\ \/ r.bulk = runner.bulk
       \/ Current.name \in {"bulk_with_a_miss", "bulk_order_and_duplicates"}

CheckEffect ==
    /\ runner.step \in DOMAIN Plan /\ runner.exit = NotRun
    /\ UNCHANGED <<disk, recorder>>
    /\ counter' \in Nat /\ counter' >= counter
    /\ \E r, status :
          /\ Gathered(r) /\ runner' = Concluded(r, status)
          /\ Current.name \in Lasting /\ status # "fail" =>
                Vouched(Current.name) /\ r = runner

(* A check of both responses that does not fail has found what it vouches
   for. *)
LEMMA FreeVouches ==
    ASSUME NEW name \in Lasting, FreeStatus(name) # "fail"
    PROVE  Vouched(name)
BY DEF FreeStatus, Vouched, Lasting, FromRecord, FromBulk, Introspection, Notes

(* A check that gathers nothing. *)
LEMMA GathersNothing ==
    ASSUME RunnerOK, runner.step \in DOMAIN Plan, UNCHANGED counter
    PROVE  Gathered(runner)
<1>1. Current.cost \in Nat
  BY PlanOrder DEF Current, Placed
<1> QED
  BY <1>1 DEF Gathered, RunnerOK

LEMMA RunFreeHasEffect == ASSUME RunnerOK, RunFree PROVE CheckEffect
<1>1. Gathered(runner)
  BY GathersNothing DEF RunFree
<1>2. /\ runner.step \in DOMAIN Plan /\ runner.exit = NotRun
      /\ UNCHANGED <<disk, recorder, counter>>
      /\ runner' = Concluded(runner, FreeStatus(Current.name))
  BY DEF RunFree
<1> QED
  BY <1>1, <1>2, FreeVouches DEF CheckEffect, RunnerOK

(* Two checks send with a made-up key, and are not billed. *)
LEMMA UnbilledHasEffect ==
    ASSUME RunnerOK, AuthenticationIsEnforced \/ RejectedKeysAreNotRetried
    PROVE  CheckEffect
<1>1. /\ runner.step \in DOMAIN Plan /\ runner.exit = NotRun
      /\ UNCHANGED <<disk, recorder, counter>>
      /\ Current.name \notin Lasting
      /\ \E status : runner' = Concluded(runner, status)
  BY DEF AuthenticationIsEnforced, RejectedKeysAreNotRetried, At, Lasting
<1>2. Gathered(runner)
  BY <1>1, GathersNothing
<1> QED
  BY <1>1, <1>2 DEF CheckEffect, RunnerOK

-----------------------------------------------------------------------------
(* Billing of one call.                                                    *)

(* A list is billed for at most its length. *)
LEMMA BillableIs ==
    ASSUME NEW n \in Nat, NEW eins, DOMAIN eins = 1 .. n
    PROVE  Billable(eins) \in 0 .. n
<1> DEFINE known == {i \in DOMAIN eins : eins[i] \in KnownEins}
<1>1. IsFiniteSet(1 .. n) /\ Cardinality(1 .. n) = n
  BY FS_Interval
<1>2. known \subseteq 1 .. n
  OBVIOUS
<1>3. Cardinality(known) \in Nat /\ Cardinality(known) <= n
  BY <1>1, <1>2, FS_Subset, FS_CardinalityType
<1> QED
  BY <1>3 DEF Billable

(* No more attempts are billed than were made. *)
LEMMA CallShape ==
    ASSUME NEW call \in Calls(2)
    PROVE  \/ call.attempts = 1 /\ call.answered = TRUE /\ call.lost = 0
           \/ call.attempts = 2 /\ call.answered = TRUE /\ call.lost = 0
           \/ call.attempts = 2 /\ call.answered = TRUE /\ call.lost = 1
           \/ call.attempts = 3 /\ call.answered = TRUE /\ call.lost \in {0, 1, 2}
           \/ call.attempts = 3 /\ call.answered = FALSE /\ call.lost \in {0, 1, 2, 3}
BY DEF Calls, Undisturbed

LEMMA CallBills ==
    ASSUME RunnerOK, runner.step \in DOMAIN Plan, NEW call \in Calls(2),
           NEW n \in Nat, Current.cost = n, NEW eins, DOMAIN eins = 1 .. n,
           Sent(call, eins), NEW method, NEW spelling
    PROVE  /\ counter' = Charged(call, eins) /\ counter' \in Nat /\ counter' >= counter
           /\ Gathered(Logged(runner, method, call, eins, spelling))
<1> DEFINE bill == Billable(eins)
           r == Logged(runner, method, call, eins, spelling)
<1>1. bill \in Nat /\ bill <= n
  BY BillableIs
<1>2. /\ call.attempts \in {1, 2, 3}
      /\ counter' = counter + bill * (call.lost + IF call.answered THEN 1 ELSE 0)
      /\ counter' = Charged(call, eins)
  BY CallShape DEF Sent, Charged
<1>3. /\ DOMAIN r = RunnerFields /\ r.extra = runner.extra + bill * (call.attempts - 1)
      /\ \A field \in RunnerFields \ {"sent", "log", "extra"} : r[field] = runner[field]
  BY DEF Logged, RunnerOK, RunnerFields
<1> HIDE DEF bill, r
<1>4. /\ counter' \in Nat /\ counter' >= counter
      /\ bill * (call.attempts - 1) \in Nat
      /\ counter' - counter <= n + bill * (call.attempts - 1)
  <2>1. CASE call.attempts = 1 /\ call.answered = TRUE /\ call.lost = 0
    BY <1>1, <1>2, <2>1 DEF RunnerOK
  <2>2. CASE call.attempts = 2 /\ call.answered = TRUE /\ call.lost = 0
    BY <1>1, <1>2, <2>2 DEF RunnerOK
  <2>3. CASE call.attempts = 2 /\ call.answered = TRUE /\ call.lost = 1
    BY <1>1, <1>2, <2>3 DEF RunnerOK
  <2>4. CASE call.attempts = 3 /\ call.answered = TRUE /\ call.lost \in {0, 1, 2}
    BY <1>1, <1>2, <2>4 DEF RunnerOK
  <2>5. CASE call.attempts = 3 /\ call.answered = FALSE /\ call.lost \in {0, 1, 2, 3}
    BY <1>1, <1>2, <2>5 DEF RunnerOK
  <2> QED
    BY CallShape, <2>1, <2>2, <2>3, <2>4, <2>5
<1>5. Gathered(r)
  <2>1. /\ r.start = runner.start /\ r.end = runner.end
        /\ r.single = runner.single /\ r.bulk = runner.bulk
    BY <1>3 DEF RunnerFields
  <2>2. PICK x \in Nat : x = bill * (call.attempts - 1)
    BY <1>4
  <2>3. r.extra = runner.extra + x /\ counter' - counter <= n + x /\ runner.extra \in Nat
    BY <1>3, <1>4, <2>2 DEF RunnerOK
  <2>4. r.extra \in Nat /\ r.extra - runner.extra = x
    BY <2>2, <2>3
  <2>5. counter' - counter <= Current.cost + (r.extra - runner.extra)
    BY <2>3, <2>4
  <2> QED
    BY <1>3, <2>1, <2>4, <2>5 DEF Gathered, RunnerFields
<1> QED
  BY <1>2, <1>4, <1>5 DEF r

(* A count that is seen is the deployment's. *)
LEMMA ObservedGathers ==
    ASSUME RunnerOK, NEW r, Gathered(r), r.start = runner.start, r.end = runner.end,
           NEW count \in counter .. counter'
    PROVE  /\ Gathered(Observed(r, count))
           /\ Observed(r, count).single = r.single /\ Observed(r, count).bulk = r.bulk
<1>1. CASE ~world.reports_count
  BY <1>1 DEF Observed
<1>2. CASE world.reports_count
  <2> DEFINE o == [r EXCEPT !.start = IF @ = None THEN count ELSE @, !.end = count]
  <2>1. /\ DOMAIN o = RunnerFields /\ o.end = count
        /\ o.start = IF runner.start = None THEN o.end ELSE runner.start
        /\ \A field \in RunnerFields \ {"start", "end"} : o[field] = r[field]
    BY DEF Gathered, RunnerFields
  <2>2. Observed(r, count) = o
    BY <1>2 DEF Observed
  <2> HIDE DEF o
  <2>3. Gathered(o)
    BY <2>1 DEF Gathered, RunnerFields
  <2> QED
    BY <2>1, <2>2, <2>3 DEF RunnerFields
<1> QED
  BY <1>1, <1>2

(* A bulk response is captured once. *)
LEMMA CapturedGathers ==
    ASSUME NEW r, Gathered(r), NEW response,
           Current.name \in {"bulk_with_a_miss", "bulk_order_and_duplicates"}
    PROVE  Gathered(Captured(r, response))
<1>1. CASE Bulk(r)
  BY <1>1 DEF Captured
<1>2. CASE ~Bulk(r)
  <2> DEFINE o == [r EXCEPT !.bulk = response]
  <2>1. /\ DOMAIN o = RunnerFields
        /\ \A field \in RunnerFields \ {"bulk"} : o[field] = r[field]
    BY DEF Gathered, RunnerFields
  <2>2. Captured(r, response) = o
    BY <1>2 DEF Captured
  <2> HIDE DEF o
  <2>3. Gathered(o)
    BY <2>1 DEF Gathered, RunnerFields
  <2> QED
    BY <2>2, <2>3
<1> QED
  BY <1>1, <1>2

(* What is left to show of a check that sends. *)
LEMMA SendingHasEffect ==
    ASSUME RunnerOK, runner.step \in DOMAIN Plan, runner.exit = NotRun,
           UNCHANGED <<disk, recorder>>, counter' \in Nat, counter' >= counter,
           Current.name \notin Lasting, NEW r, Gathered(r), NEW status,
           runner' = Concluded(r, status)
    PROVE  CheckEffect
BY DEF CheckEffect

LEMMA SingleCheckHasEffect == ASSUME RunnerOK, SingleCheck PROVE CheckEffect
<1>1. /\ runner.step \in DOMAIN Plan /\ runner.exit = NotRun
      /\ UNCHANGED <<disk, recorder>> /\ Current.name = "single_check"
  BY DEF SingleCheck, At
<1>2. PICK call \in Calls(2) :
        LET count == Charged(call, <<EIN>>)
            sent == Logged(runner, "GET", call, <<EIN>>, "plain")
        IN  /\ Sent(call, <<EIN>>)
            /\ runner' = IF ~call.answered THEN Concluded(sent, "fail")
                         ELSE Kept(Observed(sent, count),
                                       ShapeSingle(SingleResponse(world, count)))
  BY DEF SingleCheck
<1> DEFINE sent == Logged(runner, "GET", call, <<EIN>>, "plain")
           seen == Observed(sent, Charged(call, <<EIN>>))
           result == ShapeSingle(SingleResponse(world, Charged(call, <<EIN>>)))
           kept == [seen EXCEPT !.single = result]
<1>3. Current.cost = 1 /\ DOMAIN <<EIN>> = 1 .. 1
  BY <1>1, PlanOrder DEF Current, Placed
<1>4. /\ counter' = Charged(call, <<EIN>>) /\ counter' \in Nat /\ counter' >= counter
      /\ Gathered(sent)
  BY <1>1, <1>2, <1>3, CallBills
<1>5. sent.start = runner.start /\ sent.end = runner.end
  BY DEF Logged, RunnerOK, RunnerFields
<1> HIDE DEF sent
<1>6. Gathered(seen)
  BY <1>4, <1>5, ObservedGathers DEF RunnerOK
<1> HIDE DEF seen, result
<1>7. ASSUME Get(result.nonprofit, "ein").id = EIN PROVE Gathered(kept)
  <2>1. /\ DOMAIN kept = RunnerFields /\ kept.single = result
        /\ \A field \in RunnerFields \ {"single"} : kept[field] = seen[field]
    BY <1>6 DEF Gathered, RunnerFields
  <2> HIDE DEF kept
  <2> QED
    BY <1>1, <1>6, <1>7, <2>1 DEF Gathered, RunnerFields
<1>8. \E r, status : Gathered(r) /\ runner' = Concluded(r, status)
  <2>1. CASE ~call.answered
    BY <1>2, <1>4, <2>1 DEF sent
  <2>2. CASE call.answered
    <3>1. runner' = Kept(seen, result)
      BY <1>2, <2>2 DEF seen, result, sent
    <3> QED
      BY <1>6, <1>7, <3>1 DEF Kept
  <2> QED
    BY <2>1, <2>2
<1>9. Current.name \notin Lasting
  BY <1>1 DEF Lasting
<1> QED
  BY <1>1, <1>4, <1>8, <1>9, SendingHasEffect

(* A check with one call and no capture: it has sent, and may have seen a
   count. *)
LEMMA OneCallHasEffect ==
    ASSUME RunnerOK, runner.step \in DOMAIN Plan, runner.exit = NotRun,
           UNCHANGED <<disk, recorder>>, Current.name \notin Lasting,
           NEW n \in Nat, Current.cost = n, NEW eins, DOMAIN eins = 1 .. n,
           NEW call \in Calls(2), Sent(call, eins), NEW method, NEW spelling, NEW r,
           r \in {Logged(runner, method, call, eins, spelling),
                  Observed(Logged(runner, method, call, eins, spelling), Charged(call, eins))},
           NEW status, runner' = Concluded(r, status)
    PROVE  CheckEffect
<1> DEFINE sent == Logged(runner, method, call, eins, spelling)
<1>1. /\ counter' = Charged(call, eins) /\ counter' \in Nat /\ counter' >= counter
      /\ Gathered(sent)
  BY CallBills
<1>2. sent.start = runner.start /\ sent.end = runner.end
  BY DEF Logged, RunnerOK, RunnerFields
<1> HIDE DEF sent
<1>3. Gathered(Observed(sent, Charged(call, eins)))
  BY <1>1, <1>2, ObservedGathers DEF RunnerOK
<1>4. Gathered(r)
  BY <1>1, <1>3 DEF sent
<1> QED
  BY <1>1, <1>4, SendingHasEffect

LEMMA NormalizationHasEffect ==
    ASSUME RunnerOK, NormalizationEndToEnd PROVE CheckEffect
<1>1. /\ runner.step \in DOMAIN Plan /\ runner.exit = NotRun
      /\ UNCHANGED <<disk, recorder>> /\ Current.name = "EIN_normalization_end_to_end"
  BY DEF NormalizationEndToEnd, At
<1>2. Current.cost = 1 /\ Current.name \notin Lasting /\ DOMAIN <<EIN>> = 1 .. 1
  BY <1>1, PlanOrder DEF Current, Placed, Lasting
<1> DEFINE sent(call) == Logged(runner, "GET", call, <<EIN>>, "padded_and_hyphenated")
<1>3. PICK call \in Calls(2) : \E status :
        /\ Sent(call, <<EIN>>)
        /\ \/ runner' = Concluded(sent(call), status)
           \/ runner' = Concluded(Observed(sent(call), Charged(call, <<EIN>>)), status)
  BY DEF NormalizationEndToEnd
<1> QED
  BY <1>1, <1>2, <1>3, OneCallHasEffect

LEMMA NotFoundHasEffect == ASSUME RunnerOK, NotFound PROVE CheckEffect
<1>1. /\ runner.step \in DOMAIN Plan /\ runner.exit = NotRun
      /\ UNCHANGED <<disk, recorder>> /\ Current.name = "not_found"
  BY DEF NotFound, At
<1>2. Current.cost = 1 /\ Current.name \notin Lasting /\ DOMAIN <<MISSING_EIN>> = 1 .. 1
  BY <1>1, PlanOrder DEF Current, Placed, Lasting
<1> DEFINE sent(call) == Logged(runner, "GET", call, <<MISSING_EIN>>, "plain")
<1>3. PICK call \in Calls(2) : \E status :
        /\ Sent(call, <<MISSING_EIN>>)
        /\ \/ runner' = Concluded(sent(call), status)
           \/ runner' = Concluded(Observed(sent(call), Charged(call, <<MISSING_EIN>>)), status)
  <2>1. PICK call \in Calls(2) :
          /\ Sent(call, <<MISSING_EIN>>)
          /\ runner' =
                IF ~call.answered THEN Concluded(sent(call), "fail")
                ELSE IF world.missing = 404
                THEN Concluded(sent(call), Verdict(call.attempts # 1, FALSE))
                ELSE Concluded(Observed(sent(call), Charged(call, <<MISSING_EIN>>)), "warn")
    BY DEF NotFound
  <2>2. CASE ~call.answered
    BY <2>1, <2>2
  <2>3. CASE call.answered /\ world.missing = 404
    BY <2>1, <2>3 DEF Verdict
  <2>4. CASE call.answered /\ world.missing # 404
    BY <2>1, <2>4
  <2> QED
    BY <2>2, <2>3, <2>4
<1> QED
  BY <1>1, <1>2, <1>3, OneCallHasEffect

LEMMA RepeatHasEffect == ASSUME RunnerOK, RepeatCheck PROVE CheckEffect
<1>1. /\ runner.step \in DOMAIN Plan /\ runner.exit = NotRun
      /\ UNCHANGED <<disk, recorder>> /\ Current.name = "a_repeat_check_is_stable"
  BY DEF RepeatCheck, At
<1>2. Current.cost = 1 /\ Current.name \notin Lasting /\ DOMAIN <<EIN>> = 1 .. 1
  BY <1>1, PlanOrder DEF Current, Placed, Lasting
<1>3. CASE ~HasRecord(runner)
  <2>1. runner' = Concluded(runner, "fail") /\ UNCHANGED counter
    BY <1>3 DEF RepeatCheck
  <2>2. Gathered(runner)
    BY <1>1, <2>1, GathersNothing
  <2> QED
    BY <1>1, <1>2, <2>1, <2>2, SendingHasEffect DEF RunnerOK
<1>4. CASE HasRecord(runner)
  <2> DEFINE sent(call) == Logged(runner, "GET", call, <<EIN>>, "plain")
  <2>1. PICK call \in Calls(2) : \E status :
          /\ Sent(call, <<EIN>>)
          /\ \/ runner' = Concluded(sent(call), status)
             \/ runner' = Concluded(Observed(sent(call), Charged(call, <<EIN>>)), status)
    BY <1>4 DEF RepeatCheck
  <2> QED
    BY <1>1, <1>2, <2>1, OneCallHasEffect
<1> QED
  BY <1>3, <1>4

(* The two bulk checks: the first may end without a response to capture. *)
LEMMA BulkHasEffect ==
    ASSUME RunnerOK, BulkWithAMiss \/ BulkOrderAndDuplicates PROVE CheckEffect
<1>1. /\ runner.step \in DOMAIN Plan /\ runner.exit = NotRun
      /\ UNCHANGED <<disk, recorder>>
      /\ Current.name \in {"bulk_with_a_miss", "bulk_order_and_duplicates"}
  BY DEF BulkWithAMiss, BulkOrderAndDuplicates, At
<1>2. Current.cost = 3 /\ Current.name \notin Lasting
      /\ DOMAIN MissBatch = 1 .. 3 /\ DOMAIN DuplicateProbe = 1 .. 3
  BY <1>1, PlanOrder, Probes DEF Current, Placed, Lasting
<1> DEFINE sent(call, eins) == Logged(runner, "POST", call, eins, "plain")
           seen(call, eins) == Observed(sent(call, eins), Charged(call, eins))
           response(call, eins) == BulkResponse(world, eins, Charged(call, eins))
<1>3. PICK eins \in {MissBatch, DuplicateProbe}, call \in Calls(2) : \E status :
        /\ Sent(call, eins)
        /\ \/ runner' = Concluded(sent(call, eins), status)
           \/ runner' = Concluded([sent(call, eins) EXCEPT !.free_tier = TRUE], status)
           \/ runner' = Concluded(Captured(seen(call, eins), response(call, eins)), status)
  <2>1. CASE BulkWithAMiss
    <3>1. PICK call \in Calls(2) :
            /\ Sent(call, MissBatch)
            /\ runner' =
                IF ~call.answered THEN Concluded(sent(call, MissBatch), "fail")
                ELSE IF Refused(MissBatch)
                THEN Concluded([sent(call, MissBatch) EXCEPT !.free_tier = TRUE], "pass")
                ELSE Concluded(Captured(seen(call, MissBatch), response(call, MissBatch)),
                               Verdict(Organizations(response(call, MissBatch)) = {},
                                       world.misses # "details"))
      BY <2>1 DEF BulkWithAMiss
    <3> QED
      BY <3>1
  <2>2. CASE BulkOrderAndDuplicates
    <3>1. PICK call \in Calls(2) :
            /\ Sent(call, DuplicateProbe)
            /\ runner' =
                IF ~call.answered THEN Concluded(sent(call, DuplicateProbe), "fail")
                ELSE Concluded(Captured(seen(call, DuplicateProbe),
                                        response(call, DuplicateProbe)),
                               Verdict(~IsInjective(Members(world, DuplicateProbe)), FALSE))
      BY <2>2 DEF BulkOrderAndDuplicates
    <3> QED
      BY <3>1
  <2> QED
    BY <2>1, <2>2
<1>4. /\ counter' = Charged(call, eins) /\ counter' \in Nat /\ counter' >= counter
      /\ Gathered(sent(call, eins))
  BY <1>1, <1>2, <1>3, CallBills
<1>5. sent(call, eins).start = runner.start /\ sent(call, eins).end = runner.end
  BY DEF Logged, RunnerOK, RunnerFields
<1> HIDE DEF sent
<1>6. Gathered(seen(call, eins))
  BY <1>4, <1>5, ObservedGathers DEF RunnerOK
<1> HIDE DEF seen, response
<1>7. Gathered(Captured(seen(call, eins), response(call, eins)))
  BY <1>1, <1>6, CapturedGathers
<1>8. Gathered([sent(call, eins) EXCEPT !.free_tier = TRUE])
  <2> DEFINE o == [sent(call, eins) EXCEPT !.free_tier = TRUE]
  <2>1. /\ DOMAIN o = RunnerFields
        /\ \A field \in RunnerFields \ {"free_tier"} : o[field] = sent(call, eins)[field]
    BY <1>4 DEF Gathered, RunnerFields
  <2> HIDE DEF o
  <2>2. Gathered(o)
    BY <1>4, <2>1 DEF Gathered, RunnerFields
  <2> QED
    BY <2>2 DEF o
<1>9. \E r, status : Gathered(r) /\ runner' = Concluded(r, status)
  BY <1>3, <1>4, <1>7, <1>8
<1> QED
  BY <1>1, <1>2, <1>4, <1>9, SendingHasEffect

(* Two checks count what they sent themselves. *)
LEMMA SentGathers == ASSUME NEW r, Gathered(r), NEW n PROVE Gathered([r EXCEPT !.sent = n])
<1> DEFINE o == [r EXCEPT !.sent = n]
<1>1. /\ DOMAIN o = RunnerFields
      /\ \A field \in RunnerFields \ {"sent"} : o[field] = r[field]
  BY DEF Gathered, RunnerFields
<1> HIDE DEF o
<1>2. Gathered(o)
  BY <1>1 DEF Gathered, RunnerFields
<1> QED
  BY <1>2 DEF o

LEMMA GathersBill ==
    ASSUME RunnerOK, NEW n \in Nat, Current.cost = n, counter' \in Nat, counter' - counter <= n
    PROVE  Gathered(runner)
<1>1. runner.extra \in Nat /\ runner.extra - runner.extra = 0 /\ n + 0 = n
  BY DEF RunnerOK
<1>2. counter' - counter <= Current.cost + (runner.extra - runner.extra)
  BY <1>1
<1> QED
  BY <1>1, <1>2 DEF Gathered, RunnerOK

LEMMA TimeoutHasEffect ==
    ASSUME RunnerOK, TimeoutAndCancellation PROVE CheckEffect
<1>1. /\ runner.step \in DOMAIN Plan /\ runner.exit = NotRun
      /\ UNCHANGED <<disk, recorder>> /\ Current.name = "timeout_and_cancellation"
  BY DEF TimeoutAndCancellation, At
<1>2. Current.cost = 2 /\ Current.name \notin Lasting
  BY <1>1, PlanOrder DEF Current, Placed, Lasting
<1>3. PICK status \in {"pass", "warn", "fail"}, billed \in 0 .. 2 :
        /\ counter' = counter + billed
        /\ runner' = Concluded([runner EXCEPT !.sent = @ + 1], status)
  BY DEF TimeoutAndCancellation
<1>4. counter' \in Nat /\ counter' >= counter /\ counter' - counter <= 2
  BY <1>3 DEF RunnerOK
<1>5. Gathered(runner)
  BY <1>2, <1>4, GathersBill
<1>6. Gathered([runner EXCEPT !.sent = @ + 1])
  BY <1>5, SentGathers
<1> QED
  BY <1>1, <1>2, <1>3, <1>4, <1>6, SendingHasEffect

LEMMA RateLimitHasEffect == ASSUME RunnerOK, RateLimit PROVE CheckEffect
<1> DEFINE served == IF world.burst \in 1 .. RATE_LIMIT_ATTEMPTS THEN world.burst - 1
                     ELSE RATE_LIMIT_ATTEMPTS
           after(n, last) ==
               [Observed(runner, counter + n) EXCEPT !.sent = runner.sent + n + last]
<1>1. /\ runner.step \in DOMAIN Plan /\ runner.exit = NotRun
      /\ UNCHANGED <<disk, recorder>> /\ Current.name = "rate_limit"
  BY DEF RateLimit, At
<1>2. Current.cost = 10 /\ Current.name \notin Lasting
  BY <1>1, PlanOrder DEF Current, Placed, Lasting
<1>3. served \in 0 .. 10
  BY DEF RATE_LIMIT_ATTEMPTS
<1>4. \E n \in 0 .. served : \E billed \in {0, 1} : \E last, status :
        /\ n + billed <= served /\ counter' = counter + n + billed
        /\ \/ runner' = Concluded([runner EXCEPT !.sent = @ + 1], status)
           \/ runner' = Concluded(after(n, last), status)
  <2>1. CASE /\ counter' = counter + served
             /\ \E last, status : runner' = Concluded(after(served, last), status)
    <3> HIDE DEF after
    <3>1. /\ served \in 0 .. served /\ served + 0 <= served
          /\ counter' = counter + served + 0
      BY <1>3, <2>1 DEF RunnerOK
    <3> QED
      BY <2>1, <3>1
  <2>2. CASE \E n \in 0 .. served - 1, billed \in {0, 1} :
                /\ counter' = counter + n + billed
                /\ runner' = Concluded(IF n = 0 THEN [runner EXCEPT !.sent = @ + 1]
                                       ELSE after(n, 1), "fail")
    <3>1. PICK n \in 0 .. served - 1, billed \in {0, 1} :
                /\ counter' = counter + n + billed
                /\ runner' = Concluded(IF n = 0 THEN [runner EXCEPT !.sent = @ + 1]
                                       ELSE after(n, 1), "fail")
      BY <2>2
    <3> HIDE DEF after
    <3>2. n \in 0 .. served /\ n + billed <= served
      BY <1>3, <3>1
    <3> QED
      BY <3>1, <3>2
  <2> QED
    BY <2>1, <2>2 DEF RateLimit
<1>5. PICK n \in 0 .. served : \E billed \in {0, 1} : \E last, status :
        /\ n + billed <= served /\ counter' = counter + n + billed
        /\ \/ runner' = Concluded([runner EXCEPT !.sent = @ + 1], status)
           \/ runner' = Concluded(after(n, last), status)
  BY <1>4
<1> HIDE DEF served
<1>6. /\ counter' \in Nat /\ counter' >= counter /\ counter' - counter <= 10
      /\ counter + n \in counter .. counter'
  BY <1>3, <1>5 DEF RunnerOK
<1>7. Gathered(runner)
  BY <1>2, <1>6, GathersBill
<1>8. Gathered(Observed(runner, counter + n))
  BY <1>6, <1>7, ObservedGathers
<1>9. \E r, status : Gathered(r) /\ runner' = Concluded(r, status)
  BY <1>5, <1>7, <1>8, SentGathers
<1> QED
  BY <1>1, <1>2, <1>6, <1>9, SendingHasEffect

-----------------------------------------------------------------------------
(* What holds of a run as it stands.                                       *)

(* The run is at one place of the plan, with a result for every check before
   it; it starts once the recorder is done, and ends with 0 only past the
   plan. *)
PlaceInv ==
    /\ runner.step <= 45
    /\ runner.step = 0 => /\ runner.results = <<>> /\ runner.spent = 0 /\ runner.extra = 0
                          /\ runner.end = None /\ runner.single = NoResult
    /\ runner.step > 0 => /\ recorder.pc = "done"
                          /\ Len(runner.results) = runner.step - 1
    /\ runner.exit = 130 => runner.step \in DOMAIN Plan
    /\ runner.exit = 0 => /\ runner.step = 45
                          /\ \A i \in DOMAIN runner.results : runner.results[i] # "fail"

(* Every count seen was the deployment's at some time of the run. *)
CountsInv ==
    /\ runner.step > 0 => runner.opening <= counter
    /\ runner.start = None <=> runner.end = None
    /\ runner.end # None => /\ runner.step > 0
                            /\ runner.opening <= runner.start /\ runner.end <= counter

(* A result that vouches for both responses still does. *)
VouchInv ==
    /\ HasRecord(runner) => Get(runner.single.nonprofit, "ein").id = EIN
    /\ \A i \in 1 .. runner.step - 1 :
          Plan[i].name \in Lasting /\ runner.results[i] # "fail" => Vouched(Plan[i].name)

RunInv ==
    /\ RecorderInv /\ recorder.attempt \in Nat \ {0}
    /\ RunnerOK /\ PlaceInv /\ CountsInv /\ VouchInv /\ BilledWithinBudget

(* A check that is over leaves what it gathered, and its result. *)
LEMMA ConcludedIs ==
    ASSUME RunnerOK, NEW r, Gathered(r), NEW status
    PROVE  LET c == Concluded(r, status)
           IN  /\ DOMAIN c = RunnerFields
               /\ c.step = runner.step + 1 /\ c.spent = runner.spent + Current.cost
               /\ c.results = Append(runner.results, status)
               /\ c.exit = runner.exit /\ c.opening = runner.opening
               /\ c.extra = r.extra /\ c.start = r.start /\ c.end = r.end
               /\ c.single = r.single /\ c.bulk = r.bulk
BY DEF Concluded, Gathered, RunnerFields

(* The same responses and the same file are vouched for alike. *)
LEMMA VouchedStays ==
    ASSUME NEW name, Vouched(name), UNCHANGED disk,
           runner'.single = runner.single, runner'.bulk = runner.bulk
    PROVE  Vouched(name)'
BY DEF Vouched, HasRecord, Bulk

LEMMA CheckKeeps == ASSUME RunInv, RecorderInv', CheckEffect PROVE RunInv'
<1>1. /\ RunnerOK /\ runner.exit = NotRun
      /\ runner.step \in Nat /\ runner.step > 0 /\ runner.step <= 44
      /\ UNCHANGED <<disk, recorder>>
      /\ counter \in Nat /\ counter' \in Nat /\ counter' >= counter
  BY PlanHalves DEF RunInv, CheckEffect, RunnerOK
<1>2. PICK r, status :
          /\ Gathered(r) /\ runner' = Concluded(r, status)
          /\ Current.name \in Lasting /\ status # "fail" =>
                Vouched(Current.name) /\ r = runner
  BY DEF CheckEffect
<1>3. /\ DOMAIN runner' = RunnerFields
      /\ runner'.step = runner.step + 1 /\ runner'.spent = runner.spent + Current.cost
      /\ runner'.results = Append(runner.results, status)
      /\ runner'.exit = NotRun /\ runner'.opening = runner.opening
      /\ runner'.extra = r.extra /\ runner'.start = r.start /\ runner'.end = r.end
      /\ runner'.single = r.single /\ runner'.bulk = r.bulk
  BY <1>1, <1>2, ConcludedIs
<1>4. /\ Current = Plan[runner.step] /\ Current.cost \in Nat /\ Placed(Current, runner.step)
  BY <1>1, PlanOrder, PlanHalves DEF Current, Placed
<1>5. /\ IsSequence(runner'.results) /\ Len(runner'.results) = runner.step
      /\ runner'.results[runner.step] = status
      /\ \A i \in 1 .. runner.step - 1 : runner'.results[i] = runner.results[i]
  <2>1. IsSequence(runner.results) /\ Len(runner.results) = runner.step - 1
    BY <1>1 DEF RunInv, PlaceInv, RunnerOK
  <2>2. /\ IsSequence(Append(runner.results, status))
        /\ Len(Append(runner.results, status)) = runner.step
        /\ Append(runner.results, status)[runner.step] = status
        /\ \A i \in 1 .. runner.step - 1 :
              Append(runner.results, status)[i] = runner.results[i]
    BY <1>1, <2>1, Appended
  <2> QED
    BY <1>3, <2>2
<1>6. CountsInv' /\ runner'.start \in Int /\ runner'.end \in Int
  <2>1. CASE r.start = runner.start /\ r.end = runner.end
    BY <1>1, <1>3, <2>1 DEF RunInv, CountsInv, RunnerOK
  <2>2. CASE /\ r.end \in counter .. counter'
             /\ r.start = IF runner.start = None THEN r.end ELSE runner.start
    BY <1>1, <1>3, <2>2 DEF RunInv, CountsInv, RunnerOK, None
  <2> QED
    BY <1>2, <2>1, <2>2 DEF Gathered
<1>7. RunnerOK'
  <2>1. runner'.step \in Nat /\ runner'.spent \in Nat
    BY <1>1, <1>3, <1>4 DEF RunnerOK
  <2>2. runner'.extra \in Nat /\ runner'.opening \in Nat
    BY <1>1, <1>2, <1>3 DEF RunnerOK, Gathered
  <2> QED
    BY <1>1, <1>3, <1>5, <1>6, <2>1, <2>2 DEF RunnerOK
<1>8. BilledWithinBudget'
  <2>1. counter - runner.opening <= runner.spent + runner.extra
    BY <1>1 DEF RunInv, BilledWithinBudget, NotRun, RunnerOK
  <2>2. /\ counter' - counter <= Current.cost + (r.extra - runner.extra) /\ r.extra \in Nat
    BY <1>2 DEF Gathered
  <2>3. PICK cost \in Nat : cost = Current.cost
    BY <1>4
  <2>4. counter' - runner.opening <= (runner.spent + cost) + r.extra
    BY <1>1, <2>1, <2>2, <2>3 DEF RunnerOK
  <2>5. counter' - runner'.opening <= runner'.spent + runner'.extra
    BY <1>3, <2>3, <2>4
  <2>6. runner'.exit # 130
    BY <1>3 DEF NotRun
  <2>7. counter' \in Nat /\ runner'.opening \in Nat /\ runner'.spent + runner'.extra \in Nat
    BY <1>1, <1>7 DEF RunnerOK
  <2> QED
    BY <2>5, <2>6, <2>7 DEF BilledWithinBudget
<1>9. PlaceInv'
  BY <1>1, <1>3, <1>5 DEF RunInv, PlaceInv, RunnerOK, NotRun
<1>10. VouchInv'
  <2>1. HasRecord(runner') => Get(runner'.single.nonprofit, "ein").id = EIN
    BY <1>2, <1>3 DEF RunInv, VouchInv, HasRecord, Gathered
  <2>2. ASSUME NEW i \in 1 .. runner.step, Plan[i].name \in Lasting,
               runner'.results[i] # "fail"
        PROVE  Vouched(Plan[i].name)'
    <3>1. i > 32
      BY <1>1, <2>2, PlanOrder, PlanHalves DEF Placed
    <3>2. r.single = runner.single /\ r.bulk = runner.bulk
      BY <1>1, <1>2, <1>4, <3>1 DEF Gathered, Placed
    <3>3. Vouched(Plan[i].name)
      <4>1. CASE i = runner.step
        BY <1>2, <1>4, <1>5, <2>2, <4>1
      <4>2. CASE i # runner.step
        BY <1>1, <1>5, <2>2, <4>2 DEF RunInv, VouchInv
      <4> QED
        BY <4>1, <4>2
    <3> QED
      BY <1>1, <1>3, <3>2, <3>3, VouchedStays
  <2>3. runner'.step - 1 = runner.step
    BY <1>1, <1>3
  <2> QED
    BY <2>1, <2>2, <2>3 DEF VouchInv
<1> QED
  BY <1>1, <1>6, <1>7, <1>8, <1>9, <1>10 DEF RunInv

(* A step of another leaves a run as it is, or finds it not begun. *)
LEMMA OthersKeep ==
    ASSUME RunInv, RecorderInv', recorder'.attempt \in Nat \ {0}, counter' \in Nat,
           UNCHANGED runner, runner.step = 0 \/ UNCHANGED <<counter, disk, recorder>>
    PROVE  RunInv'
<1>1. CASE UNCHANGED <<counter, disk, recorder>>
  <2>1. VouchInv'
    BY <1>1, VouchedStays DEF RunInv, VouchInv, HasRecord
  <2> QED
    BY <1>1, <2>1 DEF RunInv, RunnerOK, PlaceInv, CountsInv, BilledWithinBudget, Current
<1>2. CASE runner.step = 0
  <2>1. RunnerOK' /\ PlaceInv' /\ CountsInv' /\ BilledWithinBudget'
    BY <1>2 DEF RunInv, RunnerOK, PlaceInv, CountsInv, BilledWithinBudget
  <2>2. VouchInv'
    BY <1>2 DEF RunInv, PlaceInv, VouchInv, HasRecord
  <2> QED
    BY <2>1, <2>2 DEF RunInv
<1> QED
  BY <1>1, <1>2

(* The exit status, and the counter when the run began, are written beside all
   that the invariant reads. *)
LEMMA BeginKeeps == ASSUME RunInv, RecorderInv', Begin PROVE RunInv'
<1>1. /\ recorder.pc = "done" /\ runner.step = 0 /\ runner.exit = NotRun
      /\ UNCHANGED <<counter, disk, recorder>>
  BY DEF Begin
<1>2. CASE runner' = [runner EXCEPT !.exit = 2]
  <2>1. /\ DOMAIN runner' = RunnerFields /\ runner'.exit = 2
        /\ \A field \in RunnerFields \ {"exit"} : runner'[field] = runner[field]
    BY <1>2 DEF RunInv, RunnerOK, RunnerFields
  <2>2. RunnerOK' /\ PlaceInv' /\ CountsInv' /\ BilledWithinBudget'
    BY <1>1, <2>1
    DEF RunInv, RunnerOK, PlaceInv, CountsInv, BilledWithinBudget, RunnerFields
  <2>3. VouchInv'
    BY <1>1, <2>1 DEF RunInv, PlaceInv, VouchInv, HasRecord, RunnerFields
  <2> QED
    BY <1>1, <2>2, <2>3 DEF RunInv
<1>3. CASE runner' = [runner EXCEPT !.step = 1, !.opening = counter]
  <2>1. /\ DOMAIN runner' = RunnerFields /\ runner'.step = 1 /\ runner'.opening = counter
        /\ \A field \in RunnerFields \ {"step", "opening"} : runner'[field] = runner[field]
    BY <1>3 DEF RunInv, RunnerOK, RunnerFields
  <2>2. /\ runner'.results = <<>> /\ runner'.spent = 0 /\ runner'.extra = 0
        /\ runner'.start = None /\ runner'.end = None /\ runner'.single = NoResult
        /\ runner'.exit = NotRun
    BY <1>1, <2>1 DEF RunInv, PlaceInv, CountsInv, RunnerFields
  <2>3. IsSequence(runner'.results) /\ Len(runner'.results) = 0
    BY <2>2 DEF IsSequence
  <2>4. RunnerOK'
    BY <1>1, <2>1, <2>2, <2>3 DEF RunInv, RunnerOK, None
  <2>5. PlaceInv'
    BY <1>1, <2>1, <2>2, <2>3 DEF PlaceInv, NotRun
  <2>6. CountsInv' /\ BilledWithinBudget'
    BY <1>1, <2>1, <2>2 DEF RunInv, RunnerOK, CountsInv, BilledWithinBudget, NotRun
  <2>7. VouchInv'
    BY <2>1, <2>2 DEF VouchInv, HasRecord
  <2> QED
    BY <1>1, <2>4, <2>5, <2>6, <2>7 DEF RunInv
<1> QED
  BY <1>2, <1>3 DEF Begin

LEMMA EndingKeeps == ASSUME RunInv, RecorderInv', Interrupt \/ Report PROVE RunInv'
<1>1. PICK status :
        /\ runner' = [runner EXCEPT !.exit = status] /\ runner.exit = NotRun
        /\ UNCHANGED <<disk, recorder>>
        /\ status = 130 => /\ runner.step \in DOMAIN Plan
                           /\ \E paid \in 0 .. Current.cost : counter' = counter + paid
        /\ status # 130 => counter' = counter
        /\ status = 0 => /\ runner.step = 45
                         /\ \A i \in DOMAIN runner.results : runner.results[i] # "fail"
  <2>1. CASE Interrupt
    BY <2>1 DEF Interrupt
  <2>2. CASE Report
    <3>1. CASE \E i \in DOMAIN runner.results : runner.results[i] = "fail"
      <4>1. runner' = [runner EXCEPT !.exit = 1]
        BY <2>2, <3>1 DEF Report
      <4>2. runner.exit = NotRun /\ UNCHANGED <<counter, disk, recorder>>
        BY <2>2 DEF Report
      <4>3. 1 # 130 /\ 1 # 0
        OBVIOUS
      <4> QED
        BY <4>1, <4>2, <4>3
    <3>2. CASE ~\E i \in DOMAIN runner.results : runner.results[i] = "fail"
      <4>1. runner' = [runner EXCEPT !.exit = 0]
        BY <2>2, <3>2 DEF Report
      <4> QED
        BY <2>2, <3>2, <4>1, PlanHalves DEF Report
    <3> QED
      BY <3>1, <3>2
  <2> QED
    BY <2>1, <2>2
<1>2. /\ DOMAIN runner' = RunnerFields /\ runner'.exit = status
      /\ \A field \in RunnerFields \ {"exit"} : runner'[field] = runner[field]
  BY <1>1 DEF RunInv, RunnerOK, RunnerFields
<1>3. /\ runner'.step = runner.step /\ runner'.results = runner.results
      /\ runner'.spent = runner.spent /\ runner'.extra = runner.extra
      /\ runner'.opening = runner.opening /\ runner'.start = runner.start
      /\ runner'.end = runner.end /\ runner'.single = runner.single
      /\ runner'.bulk = runner.bulk
  BY <1>2 DEF RunnerFields
<1>4. /\ counter' \in Nat /\ counter' >= counter
      /\ counter' - counter <= IF status = 130 THEN Current.cost ELSE 0
  <2>1. CASE status = 130
    <3>1. Current.cost \in Nat
      BY <1>1, <2>1, PlanOrder DEF Current, Placed
    <3> QED
      BY <1>1, <2>1, <3>1 DEF RunInv, RunnerOK
  <2>2. CASE status # 130
    BY <1>1, <2>2 DEF RunInv, RunnerOK
  <2> QED
    BY <2>1, <2>2
<1>5. RunnerOK' /\ PlaceInv' /\ CountsInv'
  BY <1>1, <1>2, <1>3, <1>4 DEF RunInv, RunnerOK, PlaceInv, CountsInv
<1>6. VouchInv'
  BY <1>1, <1>3, VouchedStays DEF RunInv, VouchInv, HasRecord
<1>7. BilledWithinBudget'
  <2>1. Current' = Current
    BY <1>3 DEF Current
  <2>2. ASSUME runner.step > 0 PROVE counter - runner.opening <= runner.spent + runner.extra
    BY <1>1, <2>2 DEF RunInv, RunnerOK, BilledWithinBudget, NotRun
  <2>3. CASE status = 130
    <3>1. PICK cost \in Nat : cost = Current.cost
      BY <1>1, <2>3, PlanOrder DEF Current, Placed
    <3>2. runner.step > 0 => counter' - runner.opening <= runner.spent + runner.extra + cost
      BY <1>4, <2>2, <2>3, <3>1 DEF RunInv, RunnerOK
    <3> QED
      BY <1>2, <1>3, <2>1, <2>3, <3>1, <3>2 DEF BilledWithinBudget
  <2>4. CASE status # 130
    BY <1>1, <1>2, <1>3, <2>2, <2>4 DEF RunInv, RunnerOK, BilledWithinBudget
  <2> QED
    BY <2>3, <2>4
<1> QED
  BY <1>1, <1>5, <1>6, <1>7 DEF RunInv

LEMMA Checks ==
    ASSUME RunnerOK, Smoke PROVE CheckEffect \/ Begin \/ Interrupt \/ Report
BY RunFreeHasEffect, UnbilledHasEffect, SingleCheckHasEffect, NormalizationHasEffect,
   NotFoundHasEffect, RepeatHasEffect, BulkHasEffect, TimeoutHasEffect, RateLimitHasEffect
DEF Smoke

(* What the recorder sends is billed like everything else. *)
LEMMA RecorderBills ==
    ASSUME RunInv, Recorder
    PROVE  /\ counter' \in Nat /\ recorder'.attempt \in Nat \ {0}
           /\ UNCHANGED runner /\ recorder.pc # "done"
<1>1. /\ UNCHANGED runner /\ recorder.pc # "done" /\ counter \in Nat
      /\ DOMAIN recorder = RecorderFields /\ recorder.attempt \in Nat \ {0}
  BY DEF Recorder, RecorderStarts, RecordSingle, RecordBulk, Decide, Write, StopsWhileWriting,
         RunInv, RunnerOK, RecorderInv
<1>2. ASSUME NEW call \in Calls(2), NEW eins, NEW n \in Nat, DOMAIN eins = 1 .. n,
             Sent(call, eins)
      PROVE  counter' \in Nat
  <2>1. PICK bill \in Nat : bill = Billable(eins)
    BY <1>2, BillableIs
  <2>2. PICK charged \in Nat :
          charged = call.lost + IF call.answered THEN 1 ELSE 0
    <3>1. CASE call.answered = TRUE /\ call.lost \in {0, 1, 2}
      BY <3>1
    <3>2. CASE call.answered = FALSE /\ call.lost \in {0, 1, 2, 3}
      BY <3>2
    <3> QED
      BY <3>1, <3>2, CallShape
  <2>3. counter' = counter + bill * charged /\ bill * charged \in Nat
    BY <1>2, <2>1, <2>2 DEF Sent, Charged
  <2> QED
    BY <1>1, <2>3
<1>3. CASE RecordSingle
  <2>1. DOMAIN <<EIN>> = 1 .. 1
    OBVIOUS
  <2>2. counter' \in Nat
    BY <1>2, <1>3, <2>1 DEF RecordSingle
  <2>3. recorder'.attempt = recorder.attempt
    BY <1>1, <1>3 DEF RecordSingle, RecorderFields
  <2> QED
    BY <1>1, <2>2, <2>3
<1>4. CASE RecordBulk
  <2>1. recorder.attempt \in {1, 2}
    BY <1>1, <1>4 DEF RecordBulk, BulkAttempts
  <2>2. DOMAIN BulkAttempts[recorder.attempt] = 1 .. 3
    BY <2>1, Probes DEF BulkAttempts
  <2>3. counter' \in Nat
    BY <1>2, <1>4, <2>2 DEF RecordBulk
  <2>4. recorder'.attempt \in {recorder.attempt, recorder.attempt + 1}
    BY <1>1, <1>4 DEF RecordBulk, RecorderFields
  <2> QED
    BY <1>1, <2>3, <2>4
<1>5. CASE RecorderStarts \/ Decide \/ Write \/ StopsWhileWriting
  <2>1. UNCHANGED counter
    BY <1>5 DEF RecorderStarts, Decide, Write, StopsWhileWriting
  <2>2. recorder'.attempt = recorder.attempt
    BY <1>1, <1>5 DEF RecorderStarts, Decide, Write, StopsWhileWriting, Ending, RecorderFields
  <2> QED
    BY <1>1, <2>1, <2>2
<1> QED
  BY <1>3, <1>4, <1>5 DEF Recorder

LEMMA RunStep == RunInv /\ [Next]_vars => RunInv'
<1> SUFFICES ASSUME RunInv, [Next]_vars PROVE RunInv'
  OBVIOUS
<1>1. RecorderInv' /\ RunnerOK
  BY RecorderStep DEF RunInv
<1>2. CASE Recorder
  <2>1. runner.step = 0
    BY <1>2, RecorderBills DEF RunInv, PlaceInv, RunnerOK
  <2> QED
    BY <1>1, <1>2, <2>1, RecorderBills, OthersKeep
<1>3. CASE Smoke
  BY <1>1, <1>3, Checks, CheckKeeps, BeginKeeps, EndingKeeps
<1>4. CASE Moves \/ UNCHANGED vars
  <2>1. UNCHANGED <<counter, disk, recorder, runner>>
    BY <1>4 DEF Moves, vars
  <2> QED
    BY <1>1, <2>1, OthersKeep DEF RunInv, RunnerOK
<1> QED
  BY <1>2, <1>3, <1>4 DEF Next

LEMMA RunStarts == Init => RunInv
<1> SUFFICES ASSUME Init PROVE RunInv
  OBVIOUS
<1>1. RecorderInv /\ recorder.attempt \in Nat \ {0}
  BY RecorderBegins
<1>2. /\ DOMAIN runner = RunnerFields /\ runner.step = 0 /\ runner.results = <<>>
      /\ runner.spent = 0 /\ runner.extra = 0 /\ runner.opening = 0
      /\ runner.start = None /\ runner.end = None /\ runner.single = NoResult
      /\ runner.exit = NotRun /\ counter \in Nat
  BY LiveRunsAssumption DEF Init, NewRunner, RunnerFields
<1>3. IsSequence(<<>>)
  BY DEF IsSequence
<1>4. RunnerOK
  BY <1>2, <1>3 DEF RunnerOK, None
<1>5. PlaceInv /\ CountsInv /\ BilledWithinBudget
  BY <1>2 DEF PlaceInv, CountsInv, BilledWithinBudget, NotRun
<1>6. VouchInv
  BY <1>2 DEF VouchInv, HasRecord
<1> QED
  BY <1>1, <1>4, <1>5, <1>6 DEF RunInv

-----------------------------------------------------------------------------
(* What a green run has seen.                                              *)

(* The signature of a response has the shape and the token of every node. *)
LEMMA SignatureHas ==
    ASSUME NEW response, NEW node \in DOMAIN response
    PROVE  /\ Shape(node) \in DOMAIN SignatureOf(response)
           /\ response[node].token \in SignatureOf(response)[Shape(node)]
<1> DEFINE sig == [path \in {Shape(n) : n \in DOMAIN response} |->
                      {response[n].token : n \in {m \in DOMAIN response : Shape(m) = path}}]
<1>1. Shape(node) \in {Shape(n) : n \in DOMAIN response}
  OBVIOUS
<1>2. sig[Shape(node)] =
          {response[n].token : n \in {m \in DOMAIN response : Shape(m) = Shape(node)}}
  BY <1>1
<1> QED
  BY <1>1, <1>2 DEF SignatureOf

(* The check of the types and the check of the fields together leave nothing
   the contract does not permit. *)
LEMMA ContractHolds ==
    ASSUME NEW kind, NEW response,
           Types(kind, response) # "fail", Fields(kind, response) # "fail"
    PROVE  Conforms(kind, response)
<1> DEFINE expected == ComposeExpected(Contract, kind)
           observed == SignatureOf(response)
<1>1. ContractDiff(expected, observed) = {}
  BY DEF Types, Verdict
<1>2. DOMAIN observed \subseteq DOMAIN expected
  BY DEF Fields, Verdict, CoverageDiff
<1> HIDE DEF expected, observed
<1>3. ASSUME NEW path \in DOMAIN observed, NEW token \in observed[path]
      PROVE  path \in DOMAIN expected /\ Permits(expected[path], token)
  BY <1>1, <1>2, <1>3 DEF ContractDiff
<1>4. ASSUME NEW node \in DOMAIN response
      PROVE  Shape(node) \in DOMAIN observed /\ response[node].token \in observed[Shape(node)]
  BY <1>4, SignatureHas DEF observed
<1> QED
  BY <1>3, <1>4 DEF Conforms, expected

(* The comparison with the recording lets no value take another form than the
   one that was recorded. *)
LEMMA RecordingHolds ==
    ASSUME NEW kind, NEW response, NEW file, Recording(kind, response, file) # "fail",
           NEW node \in DOMAIN response, Shape(node) \in DOMAIN file[kind],
           Cardinality(file[kind][Shape(node)] \ {"null"}) = 1,
           response[node].token # "null"
    PROVE  response[node].token \in file[kind][Shape(node)] \ {"null"}
<1> DEFINE before == file[kind]
           after == SignatureOf(response)
           path == Shape(node)
           now == response[node].token
<1>1. BaselineDiff(before, after).changed = {}
  BY DEF Recording, Verdict, Quiet
<1>2. path \in DOMAIN after /\ now \in after[path]
  BY SignatureHas
<1> HIDE DEF before, after, now, path
<1>3. path \in DOMAIN before /\ now # "null" /\ Cardinality(WithoutNull(before[path])) = 1
  BY DEF before, path, now, WithoutNull
<1>4. before[path] = after[path] \/ NullabilityOnly(before[path], after[path])
  BY <1>1, <1>2, <1>3 DEF BaselineDiff, TypeDiff
<1>5. WithoutNull(before[path]) # {} /\ now \in WithoutNull(after[path])
  BY <1>2, <1>3, FS_EmptySet DEF WithoutNull
<1>6. now \in WithoutNull(before[path])
  BY <1>4, <1>5 DEF NullabilityOnly
<1> QED
  BY <1>6 DEF WithoutNull, before, path, now

(* Where the two calls agree, an organization of the batch bears the name of
   the record. *)
LEMMA NamesAgree ==
    ASSUME NEW result, NEW response, BulkAndSingleAgree(result, response) # "fail"
    PROVE  \E org \in Organizations(response) :
              Get(org, "organization_name") = Get(result.nonprofit, "organization_name")
<1> DEFINE single == result.nonprofit
           twins == {org \in Organizations(response) : Get(org, "ein") = Get(single, "ein")}
           twin == CHOOSE org \in twins : TRUE
<1>1. twins # {} /\ Get(twin, "organization_name") = Get(single, "organization_name")
  BY DEF BulkAndSingleAgree, Verdict
<1>2. twin \in twins
  BY <1>1
<1> QED
  BY <1>1, <1>2

LEMMA GreenRun == RunInv => NothingSlipsThrough
<1> SUFFICES ASSUME RunInv, runner.exit = 0
             PROVE  /\ HasRecord(runner) /\ Bulk(runner)
                    /\ Conforms("single", runner.single.raw) /\ Conforms("bulk", runner.bulk)
                    /\ Get(runner.single.nonprofit, "ein").id = EIN
                    /\ \E org \in Organizations(runner.bulk) :
                        Get(org, "organization_name")
                            = Get(runner.single.nonprofit, "organization_name")
                    /\ \A node \in DOMAIN runner.single.raw :
                        LET then == disk.single[Shape(node)] \ {"null"}
                            now == runner.single.raw[node].token
                        IN  Shape(node) \in DOMAIN disk.single
                            /\ Cardinality(then) = 1 /\ now # "null" => now \in then
  BY DEF NothingSlipsThrough
<1>1. /\ runner.step = 45 /\ Len(runner.results) = 44 /\ IsSequence(runner.results)
      /\ \A i \in DOMAIN runner.results : runner.results[i] # "fail"
  <2>1. /\ runner.step = 45
        /\ runner.step > 0 => Len(runner.results) = runner.step - 1
        /\ \A i \in DOMAIN runner.results : runner.results[i] # "fail"
    BY DEF RunInv, PlaceInv
  <2>2. 45 > 0 /\ 45 - 1 = 44
    OBVIOUS
  <2> QED
    BY <2>1, <2>2 DEF RunInv, RunnerOK
<1>2. DOMAIN runner.results = 1 .. 44
  BY <1>1, Appended
<1>3. ASSUME NEW i \in 33 .. 39, Plan[i].name \in Lasting PROVE Vouched(Plan[i].name)
  <2>1. i \in 1 .. 44
    BY <1>3
  <2> QED
    BY <1>1, <1>2, <1>3, <2>1 DEF RunInv, VouchInv
<1>4. \A name \in Lasting : Vouched(name)
  <2>1. /\ 33 \in 33 .. 39 /\ 34 \in 33 .. 39 /\ 35 \in 33 .. 39 /\ 36 \in 33 .. 39
        /\ 37 \in 33 .. 39 /\ 38 \in 33 .. 39 /\ 39 \in 33 .. 39
    OBVIOUS
  <2> QED
    BY <1>3, <2>1, LastingPlaces DEF Lasting
<1>5. /\ HasRecord(runner) /\ Bulk(runner)
      /\ BulkAndSingleAgree(runner.single, runner.bulk) # "fail"
      /\ Types("single", runner.single.raw) # "fail"
      /\ Fields("single", runner.single.raw) # "fail"
      /\ Types("bulk", runner.bulk) # "fail" /\ Fields("bulk", runner.bulk) # "fail"
      /\ Recording("single", runner.single.raw, disk) # "fail"
  BY <1>4 DEF Lasting, Vouched
<1>6. Get(runner.single.nonprofit, "ein").id = EIN
  BY <1>5 DEF RunInv, VouchInv
<1>7. Conforms("single", runner.single.raw) /\ Conforms("bulk", runner.bulk)
  BY <1>5, ContractHolds
<1>8. \E org \in Organizations(runner.bulk) :
        Get(org, "organization_name") = Get(runner.single.nonprofit, "organization_name")
  BY <1>5, NamesAgree
<1>9. ASSUME NEW node \in DOMAIN runner.single.raw, Shape(node) \in DOMAIN disk.single,
             Cardinality(disk.single[Shape(node)] \ {"null"}) = 1,
             runner.single.raw[node].token # "null"
      PROVE  runner.single.raw[node].token \in disk.single[Shape(node)] \ {"null"}
  BY <1>5, <1>9, RecordingHolds
<1> QED
  BY <1>5, <1>6, <1>7, <1>8, <1>9

LEMMA Invariance == Spec => []RunInv
BY RunStarts, RunStep, PTL DEF Spec

(* What a smoke run is billed stays within the cost it declares, but for the
   attempts the SDK made again and the check an interrupt cut short
   (Runner.run and main of smoke_live.py). *)
THEOREM BudgetTheorem == Spec => []BilledWithinBudget
<1>1. RunInv => BilledWithinBudget
  BY DEF RunInv
<1> QED
  BY <1>1, Invariance, PTL

(* The bill a summary reports is never more than was billed
   (Runner.observe_cycle_count and the summary of smoke_live.py). *)
THEOREM DeltaTheorem == Spec => []DeltaNeverOverstates
<1>1. RunInv => DeltaNeverOverstates
  BY DEF RunInv, RunnerOK, CountsInv, DeltaNeverOverstates
<1> QED
  BY <1>1, Invariance, PTL

(* A smoke run that exits 0 has seen both responses, of the organization it
   asked for, as the contract and the recording have them (the plan of
   smoke_live.py, and contract.py). *)
THEOREM GreenTheorem == Spec => []NothingSlipsThrough
BY GreenRun, Invariance, PTL

-----------------------------------------------------------------------------
(* Two answers that differ in the count.                                   *)

(* Two answers of one deployment differ in the billing count alone. *)
Alike(a, b) ==
    /\ DOMAIN a = DOMAIN b /\ CountAt \in DOMAIN a
    /\ \A node \in DOMAIN a : node # CountAt => a[node] = b[node]
    /\ a[CountAt].token = "number" /\ b[CountAt].token = "number"

(* Whatever count an answer is given with. *)
LEMMA CountApart ==
    ASSUME NEW w, w.reports_count, NEW nodes, NEW c, NEW d
    PROVE  Alike(Counted(w, nodes, c), Counted(w, nodes, d))
<1> DEFINE counted(n) == [node \in DOMAIN nodes \cup {CountAt} |->
                            IF node = CountAt THEN Of("number", ToString(n)) ELSE nodes[node]]
<1>1. Counted(w, nodes, c) = counted(c) /\ Counted(w, nodes, d) = counted(d)
  BY DEF Counted
<1>2. ASSUME NEW n
      PROVE  /\ DOMAIN counted(n) = DOMAIN nodes \cup {CountAt}
             /\ counted(n)[CountAt] = Of("number", ToString(n))
             /\ \A node \in DOMAIN nodes : node # CountAt => counted(n)[node] = nodes[node]
  OBVIOUS
<1>3. \A n : Of("number", ToString(n)).token = "number"
  BY DEF Of
<1> HIDE DEF counted
<1> QED
  BY <1>1, <1>2, <1>3 DEF Alike

(* So they have one signature, and the same records. *)
LEMMA AlikeSignatures ==
    ASSUME NEW a, NEW b, Alike(a, b) PROVE SignatureOf(a) = SignatureOf(b)
<1>1. DOMAIN a = DOMAIN b /\ \A node \in DOMAIN a : a[node].token = b[node].token
  BY DEF Alike
<1>2. ASSUME NEW path
      PROVE  {a[node].token : node \in {n \in DOMAIN a : Shape(n) = path}}
             = {b[node].token : node \in {n \in DOMAIN b : Shape(n) = path}}
  BY <1>1
<1>3. {Shape(node) : node \in DOMAIN a} = {Shape(node) : node \in DOMAIN b}
  BY <1>1
<1> QED
  BY <1>2, <1>3 DEF SignatureOf

RecordPaths == {<<"data">>} \cup {<<"data", Element[i]>> : i \in DOMAIN Element}

(* A member of the object at a path is a node one step below it. *)
LEMMA MembersAre ==
    ASSUME NEW response, HasPaths(response), NEW path, IsSequence(path), NEW field
    PROVE  field \in DOMAIN MembersAt(response, path) =>
              /\ Append(path, field) \in DOMAIN response
              /\ MembersAt(response, path)[field] = response[Append(path, field)]
<1> DEFINE below == {n \in DOMAIN response :
                        Len(n) = Len(path) + 1 /\ SubSeq(n, 1, Len(path)) = path}
           fields == {node[Len(node)] : node \in below}
<1>1. MembersAt(response, path) = [f \in fields |-> response[Append(path, f)]]
  BY DEF MembersAt
<1> SUFFICES ASSUME field \in fields PROVE Append(path, field) \in DOMAIN response
  <2> HIDE DEF fields
  <2> QED BY <1>1
<1>2. PICK node \in below : field = node[Len(node)]
  OBVIOUS
<1> DEFINE T == ToSet(node) \cup {path[i] : i \in DOMAIN path}
<1>3. /\ node \in Seq(T) /\ path \in Seq(T)
      /\ Len(node) = Len(path) + 1 /\ SubSeq(node, 1, Len(path)) = path
  <2>1. node \in Seq(ToSet(node)) /\ path \in Seq({path[i] : i \in DOMAIN path})
    BY DEF HasPaths, IsSequence
  <2> HIDE DEF T
  <2>2. ToSet(node) \subseteq T /\ {path[i] : i \in DOMAIN path} \subseteq T
    BY DEF T
  <2> QED
    BY <2>1, <2>2
<1> HIDE DEF T
<1>4. node = Append(path, node[Len(node)])
  <2>1. \A i \in 1 .. Len(path) : node[i] = path[i]
    <3> SUFFICES ASSUME NEW i \in 1 .. Len(path) PROVE node[i] = path[i]
      OBVIOUS
    <3>1. SubSeq(node, 1, Len(path))[i] = node[i]
      BY <1>3
    <3> QED
      BY <1>3, <3>1
  <2>2. /\ Append(path, node[Len(node)]) \in Seq(T)
        /\ Len(Append(path, node[Len(node)])) = Len(node)
        /\ \A i \in 1 .. Len(path) : Append(path, node[Len(node)])[i] = path[i]
        /\ Append(path, node[Len(node)])[Len(node)] = node[Len(node)]
    BY <1>3
  <2>3. \A i \in 1 .. Len(node) : Append(path, node[Len(node)])[i] = node[i]
    BY <1>3, <2>1, <2>2
  <2> QED
    BY <1>3, <2>2, <2>3
<1> QED
  BY <1>2, <1>4

(* A path to a record, or to a member of one, is not that of the count. *)
LEMMA RecordPathsAre ==
    ASSUME NEW path \in RecordPaths
    PROVE  /\ IsSequence(path) /\ path # CountAt
           /\ \A field : Append(path, field) # CountAt
<1>0. Len(CountAt) = 1 /\ CountAt[1] = "nonprofit_check_count"
  BY DEF CountAt
<1>1. CASE path = <<"data">>
  <2>1. IsSequence(path) /\ path[1] = "data"
    BY <1>1 DEF IsSequence
  <2>2. \A field : Len(Append(path, field)) = 2
    BY <1>1
  <2> QED
    BY <1>0, <2>1, <2>2
<1>2. CASE \E i \in DOMAIN Element : path = <<"data", Element[i]>>
  <2>1. IsSequence(path) /\ Len(path) = 2
    BY <1>2 DEF IsSequence
  <2>2. \A field : Len(Append(path, field)) = 3
    BY <1>2
  <2>3. path # CountAt
    BY <1>0, <2>1
  <2>4. \A field : Append(path, field) # CountAt
    BY <1>0, <2>2
  <2> QED
    BY <2>1, <2>3, <2>4
<1> QED
  BY <1>1, <1>2 DEF RecordPaths

(* An object of either answer has the same members at these paths. *)
LEMMA AlikeMembers ==
    ASSUME NEW a, NEW b, Alike(a, b), HasPaths(a), NEW path \in RecordPaths
    PROVE  MembersAt(a, path) = MembersAt(b, path)
<1> DEFINE fields == {node[Len(node)] : node \in {n \in DOMAIN a :
                        Len(n) = Len(path) + 1 /\ SubSeq(n, 1, Len(path)) = path}}
<1>1. MembersAt(a, path) = [field \in fields |-> a[Append(path, field)]]
  BY DEF MembersAt
<1>2. MembersAt(b, path) = [field \in fields |-> b[Append(path, field)]]
  BY DEF MembersAt, Alike
<1>3. \A field \in fields : a[Append(path, field)] = b[Append(path, field)]
  <2> HIDE DEF fields
  <2>1. DOMAIN MembersAt(a, path) = fields
    BY <1>1
  <2> QED
    BY <2>1, MembersAre, RecordPathsAre DEF Alike
<1> HIDE DEF fields
<1> QED
  BY <1>1, <1>2, <1>3

(* The nodes at these paths are the same. *)
LEMMA AlikeNodes ==
    ASSUME NEW a, NEW b, Alike(a, b), NEW path \in RecordPaths
    PROVE  /\ path \in DOMAIN a <=> path \in DOMAIN b
           /\ path \in DOMAIN a => a[path] = b[path]
BY RecordPathsAre DEF Alike

(* The single check shapes the same record from both. *)
LEMMA AlikeRecords ==
    ASSUME NEW a, NEW b, Alike(a, b), HasPaths(a)
    PROVE  ShapeSingle(a).nonprofit = ShapeSingle(b).nonprofit
<1>1. <<"data">> \in RecordPaths /\ <<"data", "#1">> \in RecordPaths
  BY DEF RecordPaths, Element
<1>2. RecordAt(a) = RecordAt(b) /\ RecordAt(a) \in RecordPaths \cup {<<>>}
  <2>1. ASSUME NEW path \in {<<"data">>, <<"data", "#1">>}
        PROVE  /\ path \in DOMAIN a <=> path \in DOMAIN b
               /\ path \in DOMAIN a => a[path] = b[path]
    BY <1>1, <2>1, AlikeNodes
  <2> QED
    BY <1>1, <2>1 DEF RecordAt
<1>3. RecordAt(a) \in RecordPaths => MembersAt(a, RecordAt(a)) = MembersAt(b, RecordAt(b))
  BY <1>2, AlikeMembers
<1>4. ASSUME NEW r
      PROVE ShapeSingle(r).nonprofit =
                IF RecordAt(r) = <<>> THEN NoRecord ELSE MembersAt(r, RecordAt(r))
  BY DEF ShapeSingle
<1> QED
  BY <1>2, <1>3, <1>4

(* The bulk check finds the same organizations in both. *)
LEMMA AlikeOrganizations ==
    ASSUME NEW a, NEW b, Alike(a, b), HasPaths(a)
    PROVE  Organizations(a) = Organizations(b)
<1>1. ASSUME NEW i \in DOMAIN Element
      PROVE  /\ <<"data", Element[i]>> \in DOMAIN a <=> <<"data", Element[i]>> \in DOMAIN b
             /\ <<"data", Element[i]>> \in DOMAIN a =>
                  a[<<"data", Element[i]>>] = b[<<"data", Element[i]>>]
             /\ MembersAt(a, <<"data", Element[i]>>) = MembersAt(b, <<"data", Element[i]>>)
  <2>1. <<"data", Element[i]>> \in RecordPaths
    BY DEF RecordPaths
  <2> QED
    BY <2>1, AlikeNodes, AlikeMembers
<1> QED
  BY <1>1 DEF Organizations

-----------------------------------------------------------------------------
(* What a documented response passes.                                      *)

(* A signature says nothing that no node of the response says. *)
LEMMA SignatureSays ==
    ASSUME NEW response, NEW path \in DOMAIN SignatureOf(response)
    PROVE  /\ \E node \in DOMAIN response : Shape(node) = path
           /\ SignatureOf(response)[path] # {}
           /\ \A token \in SignatureOf(response)[path] :
                 \E node \in DOMAIN response :
                    Shape(node) = path /\ response[node].token = token
<1> DEFINE paths == {Shape(node) : node \in DOMAIN response}
           tokens(p) == {response[node].token : node \in {n \in DOMAIN response : Shape(n) = p}}
<1>1. SignatureOf(response) = [p \in paths |-> tokens(p)]
  BY DEF SignatureOf
<1>2. path \in paths /\ SignatureOf(response)[path] = tokens(path)
  <2> HIDE DEF paths, tokens
  <2> QED BY <1>1
<1> QED
  BY <1>2

(* A list and the path of its elements. *)
LEMMA ListPathsAre ==
    ASSUME NEW kind, NEW path \in ListPaths(kind)
    PROVE  path \in AncestorsOf(Append(path, "[]"))
<1> DEFINE S == {"errors", "[]", "eins", "data", "organization_types"}
<1>1. /\ <<"errors">> \in Seq(S) /\ Len(<<"errors">>) = 1
      /\ <<"errors", "[]", "eins">> \in Seq(S) /\ Len(<<"errors", "[]", "eins">>) = 3
      /\ <<"data">> \in Seq(S) /\ Len(<<"data">>) = 1
      /\ <<"data", "[]">> \in Seq(S) /\ Len(<<"data", "[]">>) = 2
      /\ <<"organization_types">> \in Seq(S) /\ Len(<<"organization_types">>) = 1
  OBVIOUS
<1>2. path \in Seq(S) /\ Len(path) \in {1, 2, 3}
  <2> HIDE DEF S
  <2>1. ASSUME NEW p \in Seq(S), Len(p) \in {1, 2}, NEW q \in Seq(S), Len(q) = 1
        PROVE  p \o q \in Seq(S) /\ Len(p \o q) \in {2, 3}
    <3>1. p \o q \in Seq(S) /\ Len(p \o q) = Len(p) + Len(q)
      OBVIOUS
    <3>2. 1 + 1 = 2 /\ 2 + 1 = 3
      OBVIOUS
    <3> QED
      BY <2>1, <3>1, <3>2
  <2> QED
    BY <1>1, <2>1 DEF ListPaths, RecordPath
<1> HIDE DEF S
<1>3. /\ SubSeq(Append(path, "[]"), 1, Len(path)) = path
      /\ Len(Append(path, "[]")) - 1 = Len(path) /\ Len(path) \in 1 .. Len(path)
  BY <1>2
<1> QED
  BY <1>3 DEF AncestorsOf

(* The shape of the path to the record is the path. *)
LEMMA ShapeOfData == Shape(<<"data">>) = <<"data">>
<1>1. DOMAIN <<"data">> = 1 .. 1 /\ <<"data">>[1] = "data"
  OBVIOUS
<1>2. \A k \in DOMAIN Element : Element[k] # "data"
  BY DEF Element
<1>3. Shape(<<"data">>) = [i \in 1 .. 1 |-> "data"]
  BY <1>1, <1>2 DEF Shape
<1> QED
  BY <1>3

(* A response that conforms passes the check of the types, and so does one
   with the same signature. *)
LEMMA TypesPass ==
    ASSUME NEW kind, NEW response, NEW other, Conforms(kind, response),
           SignatureOf(other) = SignatureOf(response)
    PROVE  Types(kind, other) = "pass"
<1> DEFINE expected == ComposeExpected(Contract, kind)
           observed == SignatureOf(response)
<1>1. ASSUME NEW path \in DOMAIN observed, NEW token \in observed[path]
      PROVE  Permits(expected[path], token)
  BY SignatureSays DEF Conforms
<1> HIDE DEF expected, observed
<1>2. ContractDiff(expected, observed) = {}
  BY <1>1 DEF ContractDiff
<1> QED
  BY <1>2 DEF Types, Verdict, expected, observed

(* Its fields are predicted, and what the contract requires is there or under
   a null or an empty list. *)
LEMMA FieldsPass ==
    ASSUME NEW kind \in {"single", "bulk"}, NEW response, NEW other,
           Conforms(kind, response), ListsAreLists(kind, response),
           <<"data">> \in DOMAIN response,
           SignatureOf(other) = SignatureOf(response)
    PROVE  Fields(kind, other) = "pass"
<1> DEFINE expected == ComposeExpected(Contract, kind)
           observed == SignatureOf(response)
           required == RequiredPathsOf(Contract, kind)
           absent == DOMAIN expected \ DOMAIN observed
           topmost == {path \in {p \in absent : ~UnreachableIn(p, observed)} :
                          AncestorsOf(path) \cap absent = {}}
<1>1. DOMAIN observed \ DOMAIN expected = {}
  BY SignatureSays DEF Conforms
<1>2. ASSUME NEW path \in topmost \cap required PROVE FALSE
  <2>1. path \in {<<"data">>} \cup {Append(p, "[]") : p \in ListPaths(kind)}
    BY ContractIsAsPublished DEF ContractAssumption
  <2>2. CASE path = <<"data">>
    BY <2>2, SignatureHas, ShapeOfData
  <2>3. ASSUME NEW p \in ListPaths(kind), path = Append(p, "[]") PROVE FALSE
    <3>1. p \in DOMAIN expected /\ p \in AncestorsOf(path)
      BY <2>3, ListPathsAre, ContractIsAsPublished DEF ContractAssumption
    <3>2. p \in DOMAIN observed
      BY <3>1
    <3>3. observed[p] # {} /\ \A token \in observed[p] : token \in {"array", "null"}
      BY <3>2, SignatureSays DEF ListsAreLists
    <3>4. observed[p] = {"null"} \/ "array" \in observed[p]
      <4> HIDE DEF observed
      <4> QED BY <3>3
    <3>5. UnreachableIn(path, observed)
      <4>1. Append(p, "[]") \notin DOMAIN observed
        BY <2>3
      <4> HIDE DEF observed
      <4> QED
        BY <3>1, <3>2, <3>4, <4>1 DEF UnreachableIn
    <3> QED
      BY <3>5
  <2> QED
    BY <2>1, <2>2, <2>3
<1>3. LET diff == CoverageDiff(expected, observed, required)
      IN  diff.added = {} /\ diff.removed = {}
  <2>1. CoverageDiff(expected, observed, required).added = DOMAIN observed \ DOMAIN expected
    BY DEF CoverageDiff
  <2>2. CoverageDiff(expected, observed, required).removed = topmost \cap required
    BY DEF CoverageDiff
  <2> QED
    BY <1>1, <1>2, <2>1, <2>2
<1> HIDE DEF expected, observed, required
<1> QED
  BY <1>3 DEF Fields, Verdict, expected, observed, required

(* A response with the signature that was recorded is no difference. *)
LEMMA RecordingPasses ==
    ASSUME NEW kind, NEW response, NEW file, file.state = "recorded",
           file[kind] = SignatureOf(response), DOMAIN response # {}
    PROVE  Recording(kind, response, file) = "pass"
<1> DEFINE sig == SignatureOf(response)
<1>1. DOMAIN sig # {}
  BY SignatureHas
<1>2. sig # Unrecorded
  <2> HIDE DEF sig
  <2> QED BY <1>1 DEF Unrecorded
<1> HIDE DEF sig
<1>3. Quiet(BaselineDiff(sig, sig))
  <2>1. SchemaDiff(sig, sig) = [removed |-> {}, added |-> {}] /\ TypeDiff(sig, sig) = {}
    BY DEF SchemaDiff, TypeDiff
  <2> QED
    BY <2>1 DEF BaselineDiff, Quiet
<1> QED
  BY <1>2, <1>3 DEF Recording, Recorded, Readable, Verdict, sig

-----------------------------------------------------------------------------
(* What a documented deployment answers.                                   *)

(* Every answer to the single check: the same members, but for the count. *)
LEMMA SingleAnswers ==
    ASSUME NEW w, BehavesAsDocumented(w), NEW count
    PROVE  LET raw == SingleResponse(w, count)
               first == SingleResponse(w, 0)
           IN  /\ {<<"code">>, <<"message">>, <<"data">>, CountAt} \subseteq DOMAIN raw
               /\ raw[CountAt].token = "number" /\ IsInt(raw[<<"code">>])
               /\ HasPaths(raw) /\ Alike(raw, first)
               /\ SignatureOf(raw) = SignatureOf(first)
               /\ ShapeSingle(raw).nonprofit = ShapeSingle(first).nonprofit
<1> DEFINE raw == SingleResponse(w, count)
           first == SingleResponse(w, 0)
<1>1. Alike(raw, first)
  BY CountApart DEF SingleResponse, BehavesAsDocumented
<1>2. /\ IsDocument(first) /\ <<"data">> \in DOMAIN first /\ Conforms("single", first)
      /\ {<<"code">>, <<"message">>} \subseteq DOMAIN first /\ IsInt(first[<<"code">>])
  BY DEF BehavesAsDocumented
<1> HIDE DEF raw, first
<1>3. HasPaths(raw) /\ {<<"code">>, <<"message">>, <<"data">>, CountAt} \subseteq DOMAIN raw
  BY <1>1, <1>2 DEF IsDocument, HasPaths, Alike
<1>4. SignatureOf(raw) = SignatureOf(first)
      /\ ShapeSingle(raw).nonprofit = ShapeSingle(first).nonprofit
  BY <1>1, <1>3, AlikeSignatures, AlikeRecords
<1>5. IsInt(raw[<<"code">>])
  <2>1. <<"code">> # CountAt
    <3>1. <<"code">>[1] = "code" /\ CountAt[1] = "nonprofit_check_count"
      BY DEF CountAt
    <3> QED
      BY <3>1
  <2> QED
    BY <1>1, <1>2, <1>3, <2>1 DEF Alike
<1> QED
  BY <1>1, <1>3, <1>4, <1>5 DEF raw, first, Alike

(* The record of a documented deployment. *)
RecordOf(w) == ShapeSingle(SingleResponse(w, 0)).nonprofit

(* A path one step longer, written out. *)
LEMMA Pair ==
    ASSUME NEW a, NEW b
    PROVE  Append(<<a>>, b) = <<a, b>> /\ <<a>> \o <<b>> = <<a, b>>
<1> DEFINE S == {a, b}
<1>1. <<a>> \in Seq(S) /\ Len(<<a>>) = 1 /\ <<b>> \in Seq(S) /\ Len(<<b>>) = 1 /\ b \in S
      /\ <<a>>[1] = a /\ <<b>>[1] = b
  OBVIOUS
<1>2. <<a, b>> \in Seq(S) /\ Len(<<a, b>>) = 2 /\ <<a, b>>[1] = a /\ <<a, b>>[2] = b
  OBVIOUS
<1>3. ASSUME NEW T, NEW s \in Seq(T), NEW t \in Seq(T), Len(s) = 2, Len(t) = 2,
             s[1] = t[1], s[2] = t[2]
      PROVE  s = t
  BY <1>3
<1> HIDE DEF S
<1>4. /\ Append(<<a>>, b) \in Seq(S) /\ Len(Append(<<a>>, b)) = 2
      /\ Append(<<a>>, b)[1] = a /\ Append(<<a>>, b)[2] = b
  BY <1>1
<1>5. /\ <<a>> \o <<b>> \in Seq(S) /\ Len(<<a>> \o <<b>>) = 2
      /\ (<<a>> \o <<b>>)[1] = a /\ (<<a>> \o <<b>>)[2] = b
  BY <1>1
<1> QED
  BY <1>2, <1>3, <1>4, <1>5

(* It is the data of every answer to the single check. *)
LEMMA RecordIsData ==
    ASSUME NEW w, BehavesAsDocumented(w), NEW count
    PROVE  RecordAt(SingleResponse(w, count)) = <<"data">>
<1> DEFINE first == SingleResponse(w, 0)
           raw == SingleResponse(w, count)
           expected == ComposeExpected(Contract, "single")
<1>1. /\ <<"data">> \in DOMAIN first /\ Conforms("single", first)
      /\ Get(RecordOf(w), "ein") = Of("digits:9", EIN)
  BY DEF BehavesAsDocumented, RecordOf
<1>2. Alike(raw, first)
  BY SingleAnswers
<1>3. RecordOf(w) = IF RecordAt(first) = <<>> THEN NoRecord
                    ELSE MembersAt(first, RecordAt(first))
  BY DEF RecordOf, ShapeSingle
<1> HIDE DEF first, raw
<1>4. first[<<"data">>].token \in {"null", "object"}
  <2>1. Permits(expected[<<"data">>], first[<<"data">>].token)
    BY <1>1, ShapeOfData DEF Conforms
  <2> QED
    BY <2>1, ContractIsAsPublished DEF ContractAssumption, Permits
<1>5. RecordAt(first) # <<>>
  <2>1. DOMAIN NoRecord = {}
    BY DEF NoRecord
  <2>2. Of("digits:9", EIN) # Null
    BY DEF Null, Of
  <2> QED
    BY <1>1, <1>3, <2>1, <2>2 DEF Get
<1>6. first[<<"data">>].token = "object"
  BY <1>4, <1>5 DEF RecordAt
<1>7. <<"data">> \in DOMAIN raw /\ raw[<<"data">>] = first[<<"data">>]
  <2>1. <<"data">> # CountAt
    BY RecordPathsAre DEF RecordPaths
  <2> QED
    BY <1>1, <1>2, <2>1 DEF Alike
<1>8. RecordAt(raw) = <<"data">>
  BY <1>6, <1>7 DEF RecordAt
<1> QED
  BY <1>8 DEF raw

(* A field it has is one the contract has, in a form it permits. *)
LEMMA FieldForms ==
    ASSUME NEW w, BehavesAsDocumented(w), NEW field \in DOMAIN RecordOf(w),
           \A k \in DOMAIN Element : field # Element[k]
    PROVE  LET expected == ComposeExpected(Contract, "single")
               value == RecordOf(w)[field]
           IN  /\ <<"data", field>> \in DOMAIN expected
               /\ Permits(expected[<<"data", field>>], value.token)
               /\ value.token \in JsonTokens
               /\ value.token = "null" => IsNull(value)
               /\ <<"data", field>> \in DOMAIN SingleResponse(w, 0)
               /\ value = SingleResponse(w, 0)[<<"data", field>>]
               /\ Shape(<<"data", field>>) = <<"data", field>>
<1> DEFINE first == SingleResponse(w, 0)
           expected == ComposeExpected(Contract, "single")
<1>1. IsDocument(first) /\ Conforms("single", first)
  BY DEF BehavesAsDocumented
<1>2. RecordOf(w) = MembersAt(first, <<"data">>)
  <2>1. <<"data">> # <<>>
    OBVIOUS
  <2> QED
    BY <2>1, RecordIsData DEF RecordOf, ShapeSingle
<1> HIDE DEF first
<1>3. <<"data", field>> \in DOMAIN first /\ RecordOf(w)[field] = first[<<"data", field>>]
  <2>1. IsSequence(<<"data">>)
    BY RecordPathsAre DEF RecordPaths
  <2>2. HasPaths(first)
    BY <1>1 DEF IsDocument
  <2>3. /\ Append(<<"data">>, field) \in DOMAIN first
        /\ MembersAt(first, <<"data">>)[field] = first[Append(<<"data">>, field)]
    BY <1>2, <2>1, <2>2, MembersAre
  <2> QED
    BY <1>2, <2>3, Pair
<1>4. Shape(<<"data", field>>) = <<"data", field>>
  <2>1. /\ DOMAIN <<"data", field>> = 1 .. 2
        /\ <<"data", field>>[1] = "data" /\ <<"data", field>>[2] = field
    OBVIOUS
  <2>2. \A i \in 1 .. 2 : \A k \in DOMAIN Element : <<"data", field>>[i] # Element[k]
    BY <2>1 DEF Element
  <2>3. Shape(<<"data", field>>) = [i \in 1 .. 2 |-> <<"data", field>>[i]]
    BY <2>1, <2>2 DEF Shape
  <2> QED
    BY <2>3
<1> QED
  BY <1>1, <1>3, <1>4 DEF Conforms, IsDocument, first

Batch(w) == IF w.allowlisted THEN DuplicateProbe ELSE MissBatch

(* Every answer to the batch the recorder keeps: the same organizations. *)
LEMMA BulkAnswers ==
    ASSUME NEW w, BehavesAsDocumented(w), NEW count
    PROVE  LET raw == BulkResponse(w, Batch(w), count)
           IN  /\ <<"data">> \in DOMAIN raw
               /\ SignatureOf(raw) = SignatureOf(BulkSeen(w))
               /\ Organizations(raw) = Organizations(BulkSeen(w))
<1> DEFINE raw == BulkResponse(w, Batch(w), count)
<1>1. Alike(raw, BulkSeen(w))
  BY CountApart DEF BulkResponse, BulkSeen, Batch, BehavesAsDocumented
<1>2. IsDocument(BulkSeen(w)) /\ <<"data">> \in DOMAIN BulkSeen(w)
  <2>1. "bulk" \in {"single", "bulk"} /\ "bulk" # "single"
    OBVIOUS
  <2> QED
    BY <2>1 DEF BehavesAsDocumented
<1> HIDE DEF raw
<1>3. HasPaths(raw) /\ <<"data">> \in DOMAIN raw
  BY <1>1, <1>2 DEF IsDocument, HasPaths, Alike
<1> QED
  BY <1>1, <1>3, AlikeSignatures, AlikeOrganizations DEF raw

-----------------------------------------------------------------------------
(* Checks of the record.                                                   *)

(* It is the record of the organization that was asked for. *)
LEMMA EinIs ==
    ASSUME NEW w, BehavesAsDocumented(w)
    PROVE  /\ Get(RecordOf(w), "ein") = Of("digits:9", EIN)
           /\ Get(RecordOf(w), "ein").id = EIN /\ Get(RecordOf(w), "ein").token = "digits:9"
           /\ RecordOf(w) # NoRecord
<1>1. Get(RecordOf(w), "ein") = Of("digits:9", EIN)
  BY DEF BehavesAsDocumented, RecordOf
<1>2. Of("digits:9", EIN).id = EIN /\ Of("digits:9", EIN).token = "digits:9"
  BY DEF Of
<1>3. Of("digits:9", EIN) # Null
  BY <1>2 DEF Null, Of
<1>4. "ein" \in DOMAIN RecordOf(w)
  BY <1>1, <1>3 DEF Get
<1>5. DOMAIN NoRecord = {}
  BY DEF NoRecord
<1> QED
  BY <1>1, <1>2, <1>4, <1>5

(* A documented record has the EIN and the name. *)
LEMMA IdentityPasses ==
    ASSUME NEW w, BehavesAsDocumented(w) PROVE IdentityFields(RecordOf(w)) = "pass"
<1>1. Get(RecordOf(w), "organization_name").token = "text"
  BY DEF BehavesAsDocumented, RecordOf
<1>2. IsText(Get(RecordOf(w), "organization_name"))
  BY <1>1 DEF IsText, StringTokens
<1> QED
  BY <1>1, <1>2, EinIs DEF IdentityFields, Verdict

(* What a field may be that the contract gives as a string or null. *)
LEMMA StringField ==
    ASSUME NEW w, BehavesAsDocumented(w),
           NEW field \in NameFieldNames
                \cup {"filing_req_code", "exempt_status_code", "group_exemption"}
    PROVE  LET value == Get(RecordOf(w), field)
           IN  IsNull(value) \/ value.token \in StringTokens \cup DigitTokens
<1>1. CASE field \notin DOMAIN RecordOf(w)
  BY <1>1 DEF Get, IsNull
<1>2. CASE field \in DOMAIN RecordOf(w)
  <2> DEFINE allowed == ComposeExpected(Contract, "single")[<<"data", field>>]
             value == RecordOf(w)[field]
  <2>1. \A k \in DOMAIN Element : field # Element[k]
    BY DEF Element, NameFieldNames
  <2>2. /\ <<"data", field>> \in DOMAIN ComposeExpected(Contract, "single")
        /\ Permits(allowed, value.token)
        /\ value.token \in JsonTokens
        /\ value.token = "null" => IsNull(value)
    BY <1>2, <2>1, FieldForms
  <2>3. allowed \subseteq {"string", "null"}
    BY <2>2, ContractIsAsPublished DEF ContractAssumption, NameFieldNames
  <2> HIDE DEF allowed, value
  <2>4. value.token # "string"
    BY <2>2, DigitsAssumption DEF JsonTokens, StringTokens, OtherTokens
  <2>5. value.token = "null" \/ value.token \in StringTokens \cup DigitTokens
    BY <2>2, <2>3, <2>4 DEF Permits
  <2> QED
    BY <1>2, <2>2, <2>5 DEF Get, value
<1> QED
  BY <1>1, <1>2

(* Its names are text where they are given at all. *)
LEMMA NamesPass ==
    ASSUME NEW w, BehavesAsDocumented(w) PROVE NameFields(RecordOf(w)) = "pass"
BY StringField DEF NameFields, Verdict, IsText

(* A view over a source shows what the record carries of it, of any record. *)
LEMMA ProjectionPasses ==
    ASSUME NEW result, NEW mapping, "returned" \notin DOMAIN mapping, NEW absent,
           ~DescribeRaises(result, mapping)
    PROVE  SourceProjection(result, mapping, absent) # "fail"
<1> DEFINE record == result.nonprofit
           wire == {target \in DOMAIN mapping : mapping[target] \in DOMAIN record}
           shown == [target \in wire |-> record[mapping[target]]]
<1>1. CASE wire = {}
  <2>1. Project(record, mapping) = NotReturned
    BY <1>1 DEF Project
  <2> QED
    BY <1>1, <2>1 DEF SourceProjection, Verdict
<1>2. CASE wire # {}
  <2>1. Project(record, mapping) = shown
    BY <1>2 DEF Project
  <2>2. /\ DOMAIN shown = wire /\ "returned" \notin wire
        /\ \A target \in wire : shown[target] = record[mapping[target]]
    OBVIOUS
  <2>3. DOMAIN NotReturned = {"returned"}
    BY DEF NotReturned
  <2> HIDE DEF shown
  <2>4. shown # NotReturned
    BY <2>2, <2>3
  <2> QED
    BY <2>1, <2>2, <2>4 DEF SourceProjection, Verdict
<1> QED
  BY <1>1, <1>2

(* Its deductibility rows can be described when the first is a row: what is not
   sent, null or an empty list is no row to read. *)
LEMMA DescribePasses ==
    ASSUME NEW w, BehavesAsDocumented(w), FirstRowIsARow(w), NEW count
    PROVE  ~DescribePub78Raises(ShapeSingle(SingleResponse(w, count)))
<1> DEFINE raw == SingleResponse(w, count)
           first == SingleResponse(w, 0)
           path == <<"data", "organization_types">>
           types == Get(RecordOf(w), "organization_types")
           members == MembersAt(raw, path)
<1>1. /\ ShapeSingle(raw).raw = raw /\ ShapeSingle(raw).nonprofit = RecordOf(w)
      /\ HasPaths(raw) /\ Alike(raw, first)
  BY SingleAnswers DEF ShapeSingle, RecordOf
<1>2. Append(RecordAt(raw), "organization_types") = path
  BY RecordIsData, Pair
<1>3. FirstRowIsARow(w) <=>
        (Append(path, Element[1]) \in DOMAIN first
            => first[Append(path, Element[1])].token = "object")
  BY DEF FirstRowIsARow
<1>4. types = Null \/ types.token = "array"
  <2>1. CASE "organization_types" \notin DOMAIN RecordOf(w)
    BY <2>1 DEF Get
  <2>2. CASE "organization_types" \in DOMAIN RecordOf(w)
    <3>1. \A k \in DOMAIN Element : "organization_types" # Element[k]
      BY DEF Element
    <3>2. /\ path \in DOMAIN first /\ types = first[path] /\ Shape(path) = path
          /\ types.token = "null" => IsNull(types)
      BY <2>2, <3>1, FieldForms DEF Get
    <3>3. path \in ListPaths("single")
      BY Pair DEF ListPaths, RecordPath
    <3>4. ListsAreLists("single", first)
      BY DEF BehavesAsDocumented
    <3>5. types.token \in {"array", "null"}
      BY <3>2, <3>3, <3>4 DEF ListsAreLists
    <3> QED
      BY <3>2, <3>5 DEF IsNull
  <2> QED
    BY <2>1, <2>2
<1>5. Element[1] \in DOMAIN members => members[Element[1]].token = "object"
  <2> SUFFICES ASSUME Element[1] \in DOMAIN members
               PROVE  members[Element[1]].token = "object"
    OBVIOUS
  <2>1. IsSequence(path)
    BY DEF IsSequence
  <2>2. /\ Append(path, Element[1]) \in DOMAIN raw
        /\ members[Element[1]] = raw[Append(path, Element[1])]
    BY <1>1, <2>1, MembersAre
  <2>3. Append(path, Element[1]) # CountAt
    <3>1. Len(Append(path, Element[1])) = 3 /\ Len(CountAt) = 1
      BY DEF CountAt
    <3> QED
      BY <3>1
  <2> QED
    BY <1>1, <1>3, <2>2, <2>3 DEF Alike
<1>6. Null \in Falsy /\ Null.token = "null"
  BY DEF Falsy, Null, Of
<1> HIDE DEF raw, first, path, types, members
<1>7. DescribePub78Raises(ShapeSingle(raw)) <=>
        CASE types.token = "array" ->
                Element[1] \in DOMAIN members /\ members[Element[1]].token # "object"
          [] types.token = "object" -> DOMAIN members # {}
          [] OTHER -> types \notin Falsy
  BY <1>1, <1>2 DEF DescribePub78Raises, types, members
<1>8. ~DescribePub78Raises(ShapeSingle(raw))
  BY <1>4, <1>5, <1>6, <1>7
<1> QED
  BY <1>8 DEF raw

(* Its OFAC status is never a boolean. *)
LEMMA OfacPasses ==
    ASSUME NEW w, BehavesAsDocumented(w) PROVE OfacStaysFourValued(RecordOf(w)) # "fail"
<1> DEFINE record == RecordOf(w)
<1>1. DOMAIN OfacFields = {"status"} /\ OfacFields["status"] = "ofac_status"
  BY DEF OfacFields
<1>2. CASE "ofac_status" \notin DOMAIN record
  <2>1. Project(record, OfacFields) = NotReturned
    BY <1>1, <1>2 DEF Project
  <2> QED
    BY <2>1 DEF OfacStaysFourValued, Verdict
<1>3. CASE "ofac_status" \in DOMAIN record
  <2> DEFINE allowed == ComposeExpected(Contract, "single")[<<"data", "ofac_status">>]
             token == record["ofac_status"].token
  <2>1. \A k \in DOMAIN Element : "ofac_status" # Element[k]
    BY DEF Element
  <2>2. /\ <<"data", "ofac_status">> \in DOMAIN ComposeExpected(Contract, "single")
        /\ Permits(allowed, token)
    BY <1>3, <2>1, FieldForms
  <2>3. "boolean" \notin allowed
    BY <2>2, ContractIsAsPublished DEF ContractAssumption
  <2>4. token # "boolean"
    <3> HIDE DEF allowed, token
    <3> QED BY <2>2, <2>3, DigitsAssumption DEF Permits, StringTokens, OtherTokens
  <2>5. Project(record, OfacFields) = [target \in {"status"} |-> record["ofac_status"]]
    <3>1. {target \in DOMAIN OfacFields : OfacFields[target] \in DOMAIN record} = {"status"}
      BY <1>1, <1>3
    <3> QED
      BY <1>1, <3>1 DEF Project
  <2>6. Project(record, OfacFields).status.token # "boolean"
    BY <2>4, <2>5
  <2> QED
    BY <2>6 DEF OfacStaysFourValued, Verdict
<1> QED
  BY <1>2, <1>3

(* Its conflict flag is a boolean or null. *)
LEMMA ConflictPasses ==
    ASSUME NEW w, BehavesAsDocumented(w) PROVE CrossSourceConflict(RecordOf(w)) = "pass"
<1> DEFINE record == RecordOf(w)
           token == Get(record, "irs_bmf_pub78_conflict").token
<1>1. CASE "irs_bmf_pub78_conflict" \notin DOMAIN record
  BY <1>1 DEF CrossSourceConflict, Verdict, Get, Null, Of
<1>2. CASE "irs_bmf_pub78_conflict" \in DOMAIN record
  <2> DEFINE allowed == ComposeExpected(Contract, "single")[<<"data", "irs_bmf_pub78_conflict">>]
  <2>1. \A k \in DOMAIN Element : "irs_bmf_pub78_conflict" # Element[k]
    BY DEF Element
  <2>2. /\ <<"data", "irs_bmf_pub78_conflict">> \in DOMAIN ComposeExpected(Contract, "single")
        /\ Permits(allowed, token)
    BY <1>2, <2>1, FieldForms DEF Get
  <2>3. allowed \subseteq {"boolean", "null"}
    BY <2>2, ContractIsAsPublished DEF ContractAssumption
  <2>4. token \in {"boolean", "null"}
    <3> HIDE DEF allowed, token
    <3> QED BY <2>2, <2>3 DEF Permits
  <2> QED
    BY <2>4 DEF CrossSourceConflict, Verdict
<1> QED
  BY <1>1, <1>2

(* Its codes are scalars, its ruling date is in digits, and labels have their codes. *)
LEMMA MetadataPasses ==
    ASSUME NEW w, BehavesAsDocumented(w)
    PROVE  /\ FilingAndExemptionMetadata(RecordOf(w)) = "pass"
           /\ FoundationClassification(RecordOf(w)) = "pass"
<1>1. ASSUME NEW code \in {"filing_req_code", "exempt_status_code", "group_exemption"}
      PROVE  Get(RecordOf(w), code).token \notin {"array", "object"}
  <2> DEFINE value == Get(RecordOf(w), code)
  <2>1. IsNull(value) \/ value.token \in StringTokens \cup DigitTokens
    BY <1>1, StringField
  <2>2. IsNull(value) => value.token = "null"
    <3>1. Null.token = "null"
      BY DEF Null, Of
    <3> QED
      BY <3>1 DEF IsNull
  <2> HIDE DEF value
  <2>3. value.token \notin {"array", "object"}
    BY <2>1, <2>2, DigitsAssumption DEF StringTokens, OtherTokens
  <2> QED
    BY <2>3 DEF value
<1>2. \A date \in {"ruling_year", "ruling_month"} : ~NotAnInteger(Get(RecordOf(w), date))
  BY DEF BehavesAsDocumented, RecordOf
<1>3. \A description \in DOMAIN CodeOf : IsNull(Get(RecordOf(w), description))
                                         \/ CodeOf[description] \in DOMAIN RecordOf(w)
  BY DEF BehavesAsDocumented, RecordOf
<1> QED
  BY <1>1, <1>2, <1>3 DEF FilingAndExemptionMetadata, FoundationClassification, Verdict

(* So do the views over the four sources. *)
LEMMA ProjectionsPass ==
    ASSUME NEW result, ~DescribePub78Raises(result)
    PROVE  /\ SourceProjection(result, Pub78Fields, "warn") # "fail"
           /\ SourceProjection(result, BmfFields, "warn") # "fail"
           /\ SourceProjection(result, AroeFields, "pass") # "fail"
           /\ SourceProjection(result, OfacFields, "warn") # "fail"
<1>1. /\ "returned" \notin DOMAIN Pub78Fields /\ "returned" \notin DOMAIN BmfFields
      /\ "returned" \notin DOMAIN AroeFields /\ "returned" \notin DOMAIN OfacFields
  BY DEF Pub78Fields, BmfFields, AroeFields, OfacFields
<1> QED
  BY <1>1, ProjectionPasses DEF DescribeRaises

(* The checks of the whole result of the single check. *)
LEMMA ResultPasses ==
    ASSUME NEW w, BehavesAsDocumented(w), NEW count
    PROVE  LET result == ShapeSingle(SingleResponse(w, count))
           IN  /\ EnvelopeShape(result) # "fail" /\ CheckCountIsANumber(result) = "pass"
               /\ RawEnvelopeIsUnmodified(result) = "pass"
               /\ NoWireFieldIsDropped(result) = "pass"
<1> DEFINE raw == SingleResponse(w, count)
           result == ShapeSingle(raw)
           envelope == MembersAt(raw, <<>>)
<1>1. /\ {<<"code">>, <<"message">>, <<"data">>, CountAt} \subseteq DOMAIN raw
      /\ raw[CountAt].token = "number" /\ IsInt(raw[<<"code">>])
      /\ HasPaths(raw)
      /\ result.nonprofit = RecordOf(w)
  BY SingleAnswers DEF RecordOf
<1>2. /\ result.raw = raw
      /\ result.check_count = NumberOf(envelope, "nonprofit_check_count")
      /\ result.nonprofit = IF RecordAt(raw) = <<>> THEN NoRecord
                            ELSE MembersAt(raw, RecordAt(raw))
  BY DEF ShapeSingle
<1>3. result.nonprofit = MembersAt(raw, RecordAt(raw))
  BY <1>1, <1>2, EinIs
<1> HIDE DEF raw
<1>4. ASSUME NEW field, <<field>> \in DOMAIN raw
      PROVE  field \in DOMAIN envelope /\ envelope[field] = raw[<<field>>]
  <2>1. /\ Len(<<field>>) = Len(<<>>) + 1 /\ <<field>>[Len(<<field>>)] = field
        /\ SubSeq(<<field>>, 1, Len(<<>>)) = <<>>
    OBVIOUS
  <2>2. Append(<<>>, field) = <<field>>
    OBVIOUS
  <2> QED
    BY <1>4, <2>1, <2>2 DEF MembersAt
<1>5. /\ {"code", "message", "data", "nonprofit_check_count"} \subseteq DOMAIN envelope
      /\ IsInt(envelope["code"])
      /\ envelope["nonprofit_check_count"].token = "number"
  BY <1>1, <1>4 DEF CountAt
<1> HIDE DEF envelope, result
<1>6. EnvelopeShape(result) # "fail"
  BY <1>2, <1>5 DEF EnvelopeShape, Verdict, Get, envelope
<1>7. CheckCountIsANumber(result) = "pass"
  BY <1>2, <1>5 DEF CheckCountIsANumber, Verdict, Get, envelope
<1>8. RawEnvelopeIsUnmodified(result) = "pass"
  BY <1>2, <1>3 DEF RawEnvelopeIsUnmodified, Verdict, envelope
<1>9. NoWireFieldIsDropped(result) = "pass"
  BY <1>2, <1>3 DEF NoWireFieldIsDropped, Verdict
<1> QED
  BY <1>6, <1>7, <1>8, <1>9 DEF result, raw

(* The two endpoints agree, and a second answer is the first. *)
LEMMA AgreementPasses ==
    ASSUME NEW w, BehavesAsDocumented(w), NEW result, result.nonprofit = RecordOf(w),
           NEW response, Organizations(response) = Organizations(BulkSeen(w))
    PROVE  BulkAndSingleAgree(result, response) # "fail"
<1> DEFINE record == RecordOf(w)
           orgs == Organizations(BulkSeen(w))
           twins == {org \in orgs : Get(org, "ein") = Get(record, "ein")}
           twin == CHOOSE org \in twins : TRUE
<1>1. /\ \E org \in orgs : Get(org, "ein") = Get(record, "ein")
      /\ \A org \in orgs : Get(org, "ein") = Get(record, "ein") =>
            Get(org, "organization_name") = Get(record, "organization_name")
  BY DEF BehavesAsDocumented, RecordOf
<1> HIDE DEF orgs, record
<1>2. twins # {} /\ twin \in twins
  BY <1>1
<1>3. Get(twin, "organization_name") = Get(record, "organization_name")
  BY <1>1, <1>2
<1> QED
  BY <1>2, <1>3 DEF BulkAndSingleAgree, Verdict, orgs, record

(* The same record twice is no difference. *)
LEMMA RepeatedPasses ==
    ASSUME NEW w, BehavesAsDocumented(w)
    PROVE  Repeated(RecordOf(w), RecordOf(w)) # "fail"
BY EinIs DEF Repeated, Verdict

-----------------------------------------------------------------------------
(* Checks of the package.                                                  *)

(* The configurations the smoke run tries are refused or taken as it expects. *)
LEMMA ConfigurationPasses == ConfigurationIsValidated = "pass"
<1> DEFINE keyed == [Omitted EXCEPT !.api_key = "key"]
           options == {"api_key", "environment", "base_url", "timeout", "retry",
                       "max_requests_per_second"}
           explicit == [keyed EXCEPT !.base_url = "https://host"]
           halting == [keyed EXCEPT !.retry = Policy!Mapping([max_retries |-> -1])]
<1>1. /\ DOMAIN Omitted = options /\ Omitted.retry = Policy!Keep
      /\ \A option \in options \ {"retry"} : Omitted[option] = "none"
  BY DEF Omitted
<1>2. /\ DOMAIN keyed = options /\ keyed.retry = Policy!Keep /\ keyed.api_key = "key"
      /\ \A option \in options \ {"retry", "api_key"} : keyed[option] = "none"
  BY <1>1
<1>3. Policy!ResolveRetry(DefaultRetry, Policy!Keep) = DefaultRetry
  BY DEF Policy!ResolveRetry, Policy!Keep
<1>4. DefaultRetry # Policy!Rejected
  <2>1. "rejected" \notin DOMAIN DefaultRetry
    BY DEF DefaultRetry
  <2>2. "rejected" \in DOMAIN Policy!Rejected
    BY DEF Policy!Rejected
  <2> QED
    BY <2>1, <2>2
<1>5. Policy!ResolveRetry(DefaultRetry, Policy!Mapping([max_retries |-> -1]))
        = Policy!Rejected
  <2> DEFINE fields == [max_retries |-> -1]
             replaced == Policy!Replaced(DefaultRetry, fields)
  <2>1. Policy!Mapping(fields).kind = "mapping" /\ Policy!Mapping(fields).fields = fields
    BY DEF Policy!Mapping
  <2>2. DOMAIN fields = {"max_retries"} /\ fields["max_retries"] = -1
    OBVIOUS
  <2>3. "max_retries" \in DOMAIN DefaultRetry
    BY DEF DefaultRetry
  <2> HIDE DEF fields
  <2>4. replaced.max_retries = -1
    BY <2>2, <2>3 DEF Policy!Replaced
  <2>5. ~Policy!ValidOptions(replaced)
    BY <2>4 DEF Policy!ValidOptions
  <2>6. DOMAIN fields \subseteq Policy!OptionNames
    BY <2>2 DEF Policy!OptionNames
  <2>7. Policy!ResolveRetry(DefaultRetry, Policy!Mapping(fields)) = Policy!Checked(replaced)
    <3> HIDE DEF replaced
    <3> QED BY <2>1, <2>6 DEF Policy!ResolveRetry, replaced
  <2> QED
    BY <2>5, <2>7 DEF Policy!Checked, fields
<1>6. /\ DOMAIN explicit = options /\ explicit.retry = Policy!Keep
      /\ explicit.base_url = "https://host" /\ explicit.api_key = "key"
      /\ explicit.timeout = "none" /\ explicit.max_requests_per_second = "none"
  BY <1>2
<1> HIDE DEF keyed, explicit
<1>7. LET resolved == ResolveConfig(keyed)
      IN  /\ "raised" \notin DOMAIN resolved
          /\ resolved.timeout = "default" /\ resolved.base_url = "production"
          /\ resolved.environment = "production"
  BY <1>2, <1>3, <1>4
  DEF ResolveConfig, ValidApiKey, BaseUrlUsable, KnownEnvironment, PositiveOrOmitted
<1>8. LET resolved == ResolveConfig(explicit)
      IN  "raised" \notin DOMAIN resolved /\ resolved.environment = "none"
  BY <1>3, <1>4, <1>6
  DEF ResolveConfig, ValidApiKey, BaseUrlUsable, ValidBaseUrl, PositiveOrOmitted
<1>9. ASSUME NEW o \in UnusableConfigurations PROVE ResolveConfig(o) = ConfigurationError
  <2>1. CASE \/ o = Omitted \/ o = [Omitted EXCEPT !.api_key = "blank"]
             \/ o = [Omitted EXCEPT !.api_key = "not_a_string"]
    <3>1. ~ValidApiKey(o.api_key)
      BY <1>1, <2>1 DEF ValidApiKey
    <3> QED
      BY <3>1 DEF ResolveConfig
  <2>2. CASE \/ o = [keyed EXCEPT !.base_url = "not a url"]
             \/ o = [keyed EXCEPT !.base_url = "ftp://host"]
             \/ o = [keyed EXCEPT !.environment = "staging"]
    <3>1. ~BaseUrlUsable(o)
      BY <1>2, <2>2 DEF BaseUrlUsable, KnownEnvironment, ValidBaseUrl
    <3> QED
      BY <3>1 DEF ResolveConfig
  <2>3. CASE o = [keyed EXCEPT !.timeout = "zero"] \/ o = [keyed EXCEPT !.timeout = "infinite"]
    <3>1. ~PositiveOrOmitted(o.timeout)
      BY <1>2, <2>3 DEF PositiveOrOmitted
    <3> QED
      BY <3>1 DEF ResolveConfig
  <2>4. CASE o = halting
    <3>1. o.retry = Policy!Mapping([max_retries |-> -1])
      BY <1>2, <2>4
    <3> QED
      BY <1>5, <3>1 DEF ResolveConfig
  <2> QED
    BY <2>1, <2>2, <2>3, <2>4 DEF UnusableConfigurations, keyed
<1>10. "raised" \in DOMAIN ConfigurationError
  BY DEF ConfigurationError
<1> QED
  BY <1>7, <1>8, <1>9, <1>10 DEF ConfigurationIsValidated, Verdict, keyed, explicit

(* Every error class is of one origin and has a category of its own. *)
LEMMA TaxonomyPasses == ErrorTaxonomy = "pass"
<1>1. \A class \in ApiErrorClasses : OriginOf(class) = "api"
  BY DEF OriginOf
<1>2. \A class \in LocalErrorClasses : OriginOf(class) = "local"
  BY DEF OriginOf, ApiErrorClasses, LocalErrorClasses
<1>3. /\ CategoryOf("BadRequest") = "bad_request"
      /\ CategoryOf("Authentication") = "authentication"
      /\ CategoryOf("Authorization") = "authorization"
      /\ CategoryOf("NotFound") = "not_found" /\ CategoryOf("RateLimit") = "rate_limit"
      /\ CategoryOf("Server") = "server" /\ CategoryOf("Api") = "api"
      /\ CategoryOf("Validation") = "validation"
      /\ CategoryOf("Configuration") = "configuration"
      /\ CategoryOf("Timeout") = "timeout" /\ CategoryOf("Network") = "network"
  BY DEF CategoryOf
<1>4. \A a, b \in ApiErrorClasses \cup LocalErrorClasses :
        a # b => CategoryOf(a) # CategoryOf(b)
  BY <1>3 DEF ApiErrorClasses, LocalErrorClasses
<1> QED
  BY <1>1, <1>2, <1>4 DEF ErrorTaxonomy, Verdict

(* The checks of the arguments send nothing for what they refuse. *)
LEMMA InputChecksPass ==
    /\ MalformedInputSendsNothing = "pass" /\ EinHelpers = "pass"
    /\ BulkBatchLimitIsLocal = "pass"
<1>1. /\ NormalizeEin("plain") = "digits" /\ NormalizeEin("hyphenated") = "digits"
      /\ NormalizeEin("padded_and_hyphenated") = "digits"
      /\ \A value \in {"8 digits", "words", "empty", "none", "dotted", "number"} :
            NormalizeEin(value) = Malformed
      /\ "digits" # Malformed
  BY DEF NormalizeEin, Malformed
<1>2. MalformedInputSendsNothing = "pass"
  <2> DEFINE malformed == <<"8 digits", "words", "empty", "none", "dotted", "number">>
  <2>1. \A i \in DOMAIN malformed :
          malformed[i] \in {"8 digits", "words", "empty", "none", "dotted", "number"}
    <3>1. /\ DOMAIN malformed = {1, 2, 3, 4, 5, 6}
          /\ malformed[1] = "8 digits" /\ malformed[2] = "words" /\ malformed[3] = "empty"
          /\ malformed[4] = "none" /\ malformed[5] = "dotted" /\ malformed[6] = "number"
      OBVIOUS
    <3> HIDE DEF malformed
    <3> QED BY <3>1
  <2>2. ~ReachesTransport({}, 0, 0, FALSE)
    BY DEF ReachesTransport
  <2>3. 2 \in IssuesOf(<<"plain", "words">>)
    <3>1. 2 \in DOMAIN <<"plain", "words">> /\ <<"plain", "words">>[2] = "words"
      OBVIOUS
    <3> QED
      BY <1>1, <3>1 DEF IssuesOf
  <2>4. ~ReachesTransport(IssuesOf(<<"plain", "words">>), 2, 2, FALSE)
    BY <2>3 DEF ReachesTransport
  <2> HIDE DEF malformed
  <2> QED
    BY <1>1, <2>1, <2>2, <2>4 DEF MalformedInputSendsNothing, Verdict, malformed
<1>3. EinHelpers = "pass"
  <2> DEFINE values == <<"hyphenated", "words", "empty", "plain">>
  <2>1. /\ DOMAIN values = {1, 2, 3, 4}
        /\ values[1] = "hyphenated" /\ values[2] = "words" /\ values[3] = "empty"
        /\ values[4] = "plain"
    OBVIOUS
  <2>2. IssuesOf(values) = {2, 3}
    BY <1>1, <2>1 DEF IssuesOf
  <2> HIDE DEF values
  <2> QED
    BY <1>1, <2>2 DEF EinHelpers, Verdict, values
<1>4. BulkBatchLimitIsLocal = "pass"
  BY DEF BulkBatchLimitIsLocal, Verdict, ReachesTransport, MaxBulkEins
<1> QED
  BY <1>2, <1>3, <1>4

-----------------------------------------------------------------------------
(* What the recorder leaves when nothing disturbs it.                      *)

(* The key of an allowlisted deployment is refused the batch with a miss, and
   only that one; a batch with a duplicate is answered with one record each. *)
LEMMA BatchesAre ==
    /\ \A w : w = world => (Refused(MissBatch) <=> w.allowlisted)
    /\ ~Refused(DuplicateProbe)
    /\ \A w : ~w.repeats => IsInjective(Members(w, DuplicateProbe))
<1>1. ToSet(BULK_EINS) = {"e1", "e2"}
  <2>1. DOMAIN BULK_EINS = {1, 2} /\ BULK_EINS[1] = "e1" /\ BULK_EINS[2] = "e2"
    BY DEF BULK_EINS
  <2> QED
    BY <2>1 DEF ToSet
<1>2. ToSet(DuplicateProbe) = {"e1", "e2"}
  <2>1. /\ DOMAIN DuplicateProbe = {1, 2, 3} /\ DuplicateProbe[1] = "e2"
        /\ DuplicateProbe[2] = "e1" /\ DuplicateProbe[3] = "e2"
    BY Probes
  <2> QED
    BY <2>1 DEF ToSet
<1>3. "e9" \in ToSet(MissBatch)
  <2>1. 3 \in DOMAIN MissBatch /\ MissBatch[3] = "e9"
    BY Probes
  <2> QED
    BY <2>1 DEF ToSet
<1>4. ASSUME NEW w, ~w.repeats PROVE IsInjective(Members(w, DuplicateProbe))
  <2> DEFINE S == {"e1", "e2"}
             f == [i \in 1 .. 2 |-> IF i = 1 THEN "e1" ELSE "e2"]
  <2>1. Cardinality(S) = 2
    <3>1. IsFiniteSet({"e1"}) /\ Cardinality({"e1"}) = 1
      BY FS_Singleton
    <3>2. Cardinality({"e1"} \cup {"e2"}) = 2
      BY <3>1, FS_AddElement
    <3>3. S = {"e1"} \cup {"e2"}
      OBVIOUS
    <3> QED
      BY <3>2, <3>3
  <2>2. f \in [1 .. Cardinality(S) -> S] /\ IsInjective(f)
    BY <2>1 DEF IsInjective
  <2>3. IsInjective(SetToSeq(S))
    <3> HIDE DEF S, f
    <3> QED BY <2>2 DEF SetToSeq
  <2>4. ToSet(DuplicateProbe) \cap KnownEins = S
    BY <1>1, <1>2 DEF KnownEins
  <2> HIDE DEF S
  <2> QED
    BY <1>4, <2>3, <2>4 DEF Members
<1> QED
  BY <1>1, <1>2, <1>3, <1>4 DEF Refused, KnownEins

(* A step after which nothing has disturbed the run did not disturb it, and a
   call it made was answered at once. *)
LEMMA UndisturbedCall ==
    ASSUME disturbances \in Nat, NEW call, disturbances' = disturbances + Disturbed(call),
           disturbances' = 0
    PROVE  call.attempts = 1 /\ call.answered /\ disturbances = 0
BY DEF Disturbed, Undisturbed

(* Such a step leaves the deployment as it was, too. *)
LEMMA UndisturbedStep ==
    ASSUME disturbances \in Nat, [Next]_vars, disturbances' = 0
    PROVE  disturbances = 0 /\ UNCHANGED world
<1>1. CASE Recorder
  <2>1. \/ \E call : disturbances' = disturbances + Disturbed(call) /\ UNCHANGED world
        \/ disturbances' \in {disturbances, disturbances + 1} /\ UNCHANGED world
    BY <1>1
    DEF Recorder, RecorderStarts, RecordSingle, RecordBulk, Decide, Write, StopsWhileWriting,
        Sent
  <2> QED
    BY <2>1, UndisturbedCall
<1>2. CASE \/ Begin \/ RunFree \/ AuthenticationIsEnforced \/ RejectedKeysAreNotRetried
           \/ SingleCheck \/ NormalizationEndToEnd \/ NotFound
  <2>1. \/ \E call : disturbances' = disturbances + Disturbed(call) /\ UNCHANGED world
        \/ disturbances' = disturbances /\ UNCHANGED world
    BY <1>2
    DEF Begin, RunFree, AuthenticationIsEnforced, RejectedKeysAreNotRetried, SingleCheck,
        NormalizationEndToEnd, NotFound, Sent
  <2> QED
    BY <2>1, UndisturbedCall
<1>3. CASE BulkWithAMiss \/ BulkOrderAndDuplicates \/ RepeatCheck
  <2>1. \/ \E call : disturbances' = disturbances + Disturbed(call) /\ UNCHANGED world
        \/ disturbances' = disturbances /\ UNCHANGED world
    BY <1>3 DEF BulkWithAMiss, BulkOrderAndDuplicates, RepeatCheck, Sent
  <2> QED
    BY <2>1, UndisturbedCall
<1>5. CASE RateLimit
  <2>1. disturbances' \in {disturbances, disturbances + 1} /\ UNCHANGED world
    BY <1>5 DEF RateLimit
  <2> QED
    BY <2>1
<1>6. CASE TimeoutAndCancellation \/ Interrupt \/ Report
  <2>1. disturbances' \in {disturbances, disturbances + 1} /\ UNCHANGED world
    BY <1>6 DEF TimeoutAndCancellation, Interrupt, Report
  <2> QED
    BY <2>1
<1>4. CASE Moves \/ UNCHANGED vars
  BY <1>4 DEF Moves, vars
<1> QED
  BY <1>1, <1>2, <1>3, <1>4, <1>5, <1>6 DEF Next, Smoke

(* Both halves are what the deployment answers. *)
RecordedInv ==
    LET single == SignatureOf(SingleResponse(world, 0))
        bulk == SignatureOf(BulkSeen(world))
    IN  disturbances = 0 /\ BehavesAsDocumented(world) =>
          /\ recorder.pc \in {"start", "single"} => recorder.attempt = 1
          /\ recorder.pc = "bulk" => /\ recorder.attempt \in {1, 2}
                                     /\ recorder.attempt = 2 => world.allowlisted
          /\ recorder.pc \in {"bulk", "decide", "writing"} => recorder.single = single
          /\ recorder.pc \in {"decide", "writing"} => recorder.bulk = bulk
          /\ recorder.pc = "done" /\ recorder.exit = 0 /\ ~recorder.settings.dry_run =>
                disk.state = "recorded" /\ disk.single = single /\ disk.bulk = bulk

(* It stays so with every step of either program. *)
LEMMA RecordedStep ==
    ASSUME RecorderInv, RecordedInv, [Next]_vars PROVE RecordedInv'
<1> SUFFICES ASSUME disturbances' = 0, BehavesAsDocumented(world)'
             PROVE  RecordedInv'
  BY DEF RecordedInv
<1>1. disturbances = 0 /\ UNCHANGED world /\ disturbances \in Nat
  BY UndisturbedStep DEF RecorderInv
<1>2. BehavesAsDocumented(world) /\ DOMAIN recorder = RecorderFields
  BY <1>1 DEF RecorderInv
<1> DEFINE single == SignatureOf(SingleResponse(world, 0))
           bulk == SignatureOf(BulkSeen(world))
<1>3. /\ recorder.pc \in {"start", "single"} => recorder.attempt = 1
      /\ recorder.pc = "bulk" => /\ recorder.attempt \in {1, 2}
                                 /\ recorder.attempt = 2 => world.allowlisted
      /\ recorder.pc \in {"bulk", "decide", "writing"} => recorder.single = single
      /\ recorder.pc \in {"decide", "writing"} => recorder.bulk = bulk
      /\ recorder.pc = "done" /\ recorder.exit = 0 /\ ~recorder.settings.dry_run =>
            disk.state = "recorded" /\ disk.single = single /\ disk.bulk = bulk
  BY <1>1, <1>2 DEF RecordedInv
<1>4. single # Unrecorded /\ bulk # Unrecorded
  <2>1. /\ <<"data">> \in DOMAIN SingleResponse(world, 0)
        /\ <<"data">> \in DOMAIN BulkSeen(world)
    <3>1. <<"data">> \in DOMAIN SingleResponse(world, 0)
      BY <1>2, SingleAnswers
    <3>2. "bulk" \in {"single", "bulk"} /\ "bulk" # "single"
      OBVIOUS
    <3> QED
      BY <1>2, <3>1, <3>2 DEF BehavesAsDocumented
  <2>2. DOMAIN single # {} /\ DOMAIN bulk # {}
    BY <2>1, SignatureHas
  <2>3. DOMAIN Unrecorded = {}
    BY DEF Unrecorded
  <2> HIDE DEF single, bulk
  <2> QED
    BY <2>2, <2>3
<1> HIDE DEF single, bulk
<1>5. SUFFICES
      /\ recorder'.pc \in {"start", "single"} => recorder'.attempt = 1
      /\ recorder'.pc = "bulk" => /\ recorder'.attempt \in {1, 2}
                                  /\ recorder'.attempt = 2 => world.allowlisted
      /\ recorder'.pc \in {"bulk", "decide", "writing"} => recorder'.single = single
      /\ recorder'.pc \in {"decide", "writing"} => recorder'.bulk = bulk
      /\ recorder'.pc = "done" /\ recorder'.exit = 0 /\ ~recorder'.settings.dry_run =>
            disk'.state = "recorded" /\ disk'.single = single /\ disk'.bulk = bulk
  BY <1>1 DEF RecordedInv, single, bulk
<1>6. CASE RecorderStarts
  <2>1. CASE recorder' = [recorder EXCEPT !.pc = "single"]
    BY <1>2, <1>3, <1>6, <2>1 DEF RecorderStarts, RecorderFields
  <2>2. CASE recorder' = Ending(recorder, 2)
    BY <1>2, <2>2 DEF Ending, RecorderFields
  <2> QED
    BY <1>6, <2>1, <2>2 DEF RecorderStarts
<1>7. CASE RecordSingle
  <2>1. PICK call \in Calls(2) :
          /\ Sent(call, <<EIN>>)
          /\ recorder' = [recorder EXCEPT
                !.pc = "bulk",
                !.single = IF call.answered
                           THEN SignatureOf(SingleResponse(world, Charged(call, <<EIN>>)))
                           ELSE Unrecorded]
    BY <1>7 DEF RecordSingle
  <2>2. call.answered
    BY <1>1, <2>1, UndisturbedCall DEF Sent
  <2>3. SignatureOf(SingleResponse(world, Charged(call, <<EIN>>))) = single
    BY <1>2, SingleAnswers DEF single
  <2>4. recorder.attempt = 1
    BY <1>3, <1>7 DEF RecordSingle
  <2>5. recorder'.pc = "bulk" /\ recorder'.single = single /\ recorder'.attempt = 1
    <3> DEFINE value == IF call.answered
                        THEN SignatureOf(SingleResponse(world, Charged(call, <<EIN>>)))
                        ELSE Unrecorded
    <3>1. value = single
      BY <2>2, <2>3
    <3>2. recorder' = [recorder EXCEPT !.pc = "bulk", !.single = value]
      BY <2>1
    <3> HIDE DEF value
    <3> QED
      BY <1>2, <2>4, <3>1, <3>2 DEF RecorderFields
  <2> QED
    BY <2>5
<1>8. CASE RecordBulk
  <2> DEFINE eins == BulkAttempts[recorder.attempt]
  <2>1. PICK call \in Calls(2) :
          /\ Sent(call, eins)
          /\ recorder' =
                IF call.answered /\ ~Refused(eins)
                THEN [recorder EXCEPT !.pc = "decide",
                        !.bulk = SignatureOf(BulkResponse(world, eins, Charged(call, eins)))]
                ELSE [recorder EXCEPT !.attempt = @ + 1,
                        !.pc = IF recorder.attempt = Len(BulkAttempts) THEN "decide" ELSE @]
    BY <1>8 DEF RecordBulk
  <2>2. call.answered
    BY <1>1, <2>1, UndisturbedCall DEF Sent
  <2>3. /\ recorder.pc = "bulk" /\ recorder.attempt \in {1, 2}
        /\ recorder.attempt = 2 => world.allowlisted
        /\ recorder.single = single
    BY <1>3, <1>8 DEF RecordBulk
  <2>4. /\ BulkAttempts[1] = MissBatch /\ BulkAttempts[2] = DuplicateProbe
        /\ Len(BulkAttempts) = 2
    BY DEF BulkAttempts
  <2>5. CASE Refused(eins)
    <3>1. recorder.attempt = 1 /\ world.allowlisted
      BY <2>3, <2>4, <2>5, BatchesAre
    <3>2. /\ recorder' = [recorder EXCEPT !.attempt = @ + 1,
                            !.pc = IF recorder.attempt = Len(BulkAttempts) THEN "decide" ELSE @]
          /\ recorder.attempt # Len(BulkAttempts)
      BY <2>1, <2>4, <2>5, <3>1
    <3>3. recorder'.pc = "bulk" /\ recorder'.attempt = 2 /\ recorder'.single = single
      BY <1>2, <2>3, <3>1, <3>2 DEF RecorderFields
    <3> QED
      BY <3>1, <3>3
  <2>6. CASE ~Refused(eins)
    <3>1. eins = Batch(world)
      BY <2>3, <2>4, <2>6, BatchesAre DEF Batch
    <3>2. SignatureOf(BulkResponse(world, eins, Charged(call, eins))) = bulk
      BY <1>2, <3>1, BulkAnswers DEF bulk
    <3> QED
      BY <1>2, <2>1, <2>2, <2>3, <2>6, <3>2 DEF RecorderFields
  <2> QED
    BY <2>5, <2>6
<1>9. CASE Decide
  <2>1. CASE recorder' = Ending(recorder, 1)
    BY <1>2, <2>1 DEF Ending, RecorderFields
  <2>2. CASE recorder' = Ending(recorder, 0) /\ recorder.settings.dry_run
    BY <1>2, <2>2 DEF Ending, RecorderFields
  <2>3. CASE recorder' = [recorder EXCEPT !.pc = "writing", !.existing = disk]
    BY <1>2, <1>3, <1>9, <2>3 DEF Decide, RecorderFields
  <2> QED
    BY <1>9, <2>1, <2>2, <2>3 DEF Decide
<1>10. CASE Write
  <2>1. /\ recorder.pc = "writing" /\ recorder' = Ending(recorder, 0)
        /\ disk' = [state |-> "recorded", single |-> Half("single"), bulk |-> Half("bulk"),
                    target |-> recorder.settings.target]
    BY <1>10 DEF Write
  <2>2. Half("single") = single /\ Half("bulk") = bulk
    BY <1>3, <1>4, <2>1 DEF Half
  <2> QED
    BY <1>2, <2>1, <2>2 DEF Ending, RecorderFields
<1>11. CASE StopsWhileWriting
  BY <1>1, <1>11 DEF StopsWhileWriting
<1>12. CASE Smoke \/ Moves \/ UNCHANGED vars
  <2>1. UNCHANGED <<recorder, disk>>
    BY <1>12
    DEF Smoke, Begin, RunFree, AuthenticationIsEnforced, RejectedKeysAreNotRetried, SingleCheck,
        NormalizationEndToEnd, NotFound, BulkWithAMiss, BulkOrderAndDuplicates, RepeatCheck,
        TimeoutAndCancellation, RateLimit, Interrupt, Report, Moves, vars
  <2> QED
    BY <1>3, <2>1
<1> QED
  BY <1>6, <1>7, <1>8, <1>9, <1>10, <1>11, <1>12 DEF Next, Recorder

(* Nothing is recorded to begin with. *)
LEMMA RecordedBegins == Init => RecordedInv
<1> SUFFICES ASSUME Init PROVE RecordedInv
  OBVIOUS
<1>1. recorder.pc = "start" /\ recorder.attempt = 1
  BY DEF Init
<1> QED
  BY <1>1 DEF RecordedInv

-----------------------------------------------------------------------------
(* A run after that, of a deployment that keeps what is documented.        *)

PackageChecks == Introspection \cup
    {"configuration_is_validated", "error_taxonomy", "malformed_input_sends_nothing",
     "EIN_helpers", "bulk_batch_limit_is_local"}

(* What comes before there is a record reads none, and three checks have their
   own place. *)
Staged(check, i) ==
    /\ i <= 11 => check.name \in PackageChecks \cup Sending
    /\ check.name = "single_check" <=> i = 11
    /\ check.name = "bulk_with_a_miss" <=> i = 31
    /\ check.name = "bulk_order_and_duplicates" <=> i = 32
    /\ check.name = "a_repeat_check_is_stable" => i > 32
    /\ check.name \in Lasting => i > 32

(* The plan has its checks in that order. *)
LEMMA PlanStages == ASSUME NEW i \in DOMAIN Plan PROVE Staged(Plan[i], i)
<1>1. ASSUME NEW k \in 1 .. 30 PROVE Staged(PlanBeforeBulk[k], k)
  <2>1. k \in {1, 2, 3, 4, 5, 6, 7, 8, 9, 10, 11, 12, 13, 14, 15, 16, 17, 18, 19, 20,
               21, 22, 23, 24, 25, 26, 27, 28, 29, 30}
    OBVIOUS
  <2> QED
    BY <2>1 DEF PlanBeforeBulk, Check, Staged, Lasting, PackageChecks, Introspection, Sending
<1>2. ASSUME NEW k \in 1 .. 14 PROVE Staged(PlanFromBulk[k], k + 30)
  <2>1. k \in {1, 2, 3, 4, 5, 6, 7, 8, 9, 10, 11, 12, 13, 14}
    OBVIOUS
  <2> QED
    BY <2>1 DEF PlanFromBulk, Check, Staged, Lasting, PackageChecks, Introspection, Sending
<1> QED
  BY <1>1, <1>2, PlanHalves

FreshRun ==
    /\ disturbances = 0 /\ recorder.exit = 0 /\ ~recorder.settings.dry_run
    /\ BehavesAsDocumented(world) /\ FirstRowIsARow(world)

Captures ==
    \/ runner.step > 32
    \/ runner.step = 32 /\ ~world.allowlisted

(* No check has failed, what was sent was well addressed, the record is the one
   asked for, and the response captured is one to the batch the recorder kept. *)
FreshInv ==
    /\ runner.step = 0 => runner.log = {} /\ runner.bulk = <<>>
    /\ FreshRun /\ runner.step > 0 =>
          /\ \A i \in DOMAIN runner.results : runner.results[i] # "fail"
          /\ \A request \in runner.log : WellAddressed(request)
          /\ runner.step > 11 => /\ runner.log # {}
                                 /\ \E count : runner.single
                                                  = ShapeSingle(SingleResponse(world, count))
          /\ Captures => \E count : runner.bulk = BulkResponse(world, Batch(world), count)
          /\ ~Captures => runner.bulk = <<>>

(* What the checks find there. *)
LEMMA FreshFinds ==
    ASSUME RunInv, RecordedInv, FreshRun, FreshInv, runner.step > 11
    PROVE  /\ \E count : runner.single = ShapeSingle(SingleResponse(world, count))
           /\ HasRecord(runner) /\ runner.single.nonprofit = RecordOf(world)
           /\ SignatureOf(runner.single.raw) = SignatureOf(SingleResponse(world, 0))
           /\ Recording("single", runner.single.raw, disk) = "pass"
           /\ WireStatus # "fail"
<1>1. runner.step > 0 /\ runner.step \in Nat
  BY DEF RunInv, RunnerOK
<1>2. PICK count : runner.single = ShapeSingle(SingleResponse(world, count))
  BY <1>1 DEF FreshInv
<1> DEFINE raw == SingleResponse(world, count)
<1>3. /\ <<"data">> \in DOMAIN raw /\ SignatureOf(raw) = SignatureOf(SingleResponse(world, 0))
      /\ ShapeSingle(raw).nonprofit = RecordOf(world)
  BY SingleAnswers DEF FreshRun, RecordOf
<1> HIDE DEF raw
<1>4. runner.single.raw = raw /\ runner.single.nonprofit = RecordOf(world)
  BY <1>2, <1>3 DEF ShapeSingle, raw
<1>5. HasRecord(runner)
  <2>1. NoResult.raw = <<>> /\ DOMAIN <<>> = {}
    BY DEF NoResult
  <2> QED
    BY <1>3, <1>4, <2>1 DEF HasRecord
<1>6. Recording("single", raw, disk) = "pass"
  <2>1. disk.state = "recorded" /\ disk["single"] = SignatureOf(raw)
    BY <1>1, <1>3 DEF RunInv, PlaceInv, RecordedInv, FreshRun
  <2> QED
    BY <1>3, <2>1, RecordingPasses
<1>7. WireStatus # "fail"
  BY <1>1 DEF WireStatus, FreshInv, Verdict
<1> QED
  BY <1>2, <1>3, <1>4, <1>5, <1>6, <1>7

(* What the checks of the bulk response find, once one is captured. *)
LEMMA FreshBulk ==
    ASSUME RunInv, RecordedInv, FreshRun, FreshInv, Captures
    PROVE  /\ \E count : runner.bulk = BulkResponse(world, Batch(world), count)
           /\ Bulk(runner) /\ Organizations(runner.bulk) = Organizations(BulkSeen(world))
           /\ SignatureOf(runner.bulk) = SignatureOf(BulkSeen(world))
           /\ Recording("bulk", runner.bulk, disk) = "pass"
<1>1. runner.step > 0 /\ runner.step \in Nat
  BY DEF RunInv, RunnerOK, Captures
<1>2. PICK count : runner.bulk = BulkResponse(world, Batch(world), count)
  BY <1>1 DEF FreshInv
<1> DEFINE raw == BulkResponse(world, Batch(world), count)
<1>3. /\ <<"data">> \in DOMAIN raw /\ SignatureOf(raw) = SignatureOf(BulkSeen(world))
      /\ Organizations(raw) = Organizations(BulkSeen(world))
  BY BulkAnswers DEF FreshRun
<1> HIDE DEF raw
<1>4. Bulk(runner)
  <2>1. DOMAIN <<>> = {}
    OBVIOUS
  <2> QED
    BY <1>2, <1>3, <2>1 DEF Bulk, raw
<1>5. Recording("bulk", raw, disk) = "pass"
  <2>1. disk.state = "recorded" /\ disk["bulk"] = SignatureOf(raw)
    BY <1>1, <1>3 DEF RunInv, PlaceInv, RecordedInv, FreshRun
  <2> QED
    BY <1>3, <2>1, RecordingPasses
<1> QED
  BY <1>2, <1>3, <1>4, <1>5 DEF raw

(* The checks of both responses pass when the comparisons do. *)
LEMMA LastingPasses ==
    ASSUME NEW name \in Lasting, HasRecord(runner), Bulk(runner),
           BulkAndSingleAgree(runner.single, runner.bulk) # "fail",
           Types("single", runner.single.raw) = "pass", Types("bulk", runner.bulk) = "pass",
           Fields("single", runner.single.raw) = "pass", Fields("bulk", runner.bulk) = "pass",
           Recording("single", runner.single.raw, disk) = "pass",
           Recording("bulk", runner.bulk, disk) = "pass"
    PROVE  FreeStatus(name) # "fail"
BY DEF FreeStatus, Lasting, FromRecord, FromBulk, Introspection, Notes

(* No check that sends nothing fails. *)
LEMMA FreePasses ==
    ASSUME RunInv, RecordedInv, FreshRun, FreshInv,
           runner.step \in DOMAIN Plan, Current.name \notin Sending
    PROVE  FreeStatus(Current.name) # "fail"
<1> DEFINE name == Current.name
           w == world
<1>1. Staged(Current, runner.step) /\ runner.step \in 1 .. 44
  BY PlanStages, PlanHalves DEF Current
<1>2. BehavesAsDocumented(w) /\ FirstRowIsARow(w)
  BY DEF FreshRun
<1>3. CASE name \in PackageChecks
  BY <1>3, ConfigurationPasses, TaxonomyPasses, InputChecksPass
  DEF FreeStatus, PackageChecks, Introspection, Notes
<1>4. CASE name \notin PackageChecks
  <2>1. runner.step > 11
    BY <1>1, <1>4 DEF Staged
  <2>2. /\ HasRecord(runner) /\ runner.single.nonprofit = RecordOf(w)
        /\ SignatureOf(runner.single.raw) = SignatureOf(SingleResponse(w, 0))
        /\ Recording("single", runner.single.raw, disk) = "pass"
        /\ WireStatus # "fail"
    BY <2>1, FreshFinds
  <2>3. PICK count : runner.single = ShapeSingle(SingleResponse(w, count))
    BY <2>1, FreshFinds
  <2>4. CASE name \in Lasting
    <3>1. Captures
      BY <1>1, <2>4 DEF Staged, Captures
    <3>2. /\ Bulk(runner) /\ Organizations(runner.bulk) = Organizations(BulkSeen(w))
          /\ SignatureOf(runner.bulk) = SignatureOf(BulkSeen(w))
          /\ Recording("bulk", runner.bulk, disk) = "pass"
      BY <3>1, FreshBulk
    <3>3. /\ Conforms("single", SingleResponse(w, 0)) /\ Conforms("bulk", BulkSeen(w))
          /\ ListsAreLists("single", SingleResponse(w, 0))
          /\ ListsAreLists("bulk", BulkSeen(w))
          /\ <<"data">> \in DOMAIN SingleResponse(w, 0) /\ <<"data">> \in DOMAIN BulkSeen(w)
      <4>1. "bulk" \in {"single", "bulk"} /\ "single" \in {"single", "bulk"}
            /\ "bulk" # "single"
        OBVIOUS
      <4> QED
        BY <1>2, <4>1 DEF BehavesAsDocumented
    <3>4. /\ Types("single", runner.single.raw) = "pass" /\ Types("bulk", runner.bulk) = "pass"
          /\ Fields("single", runner.single.raw) = "pass"
          /\ Fields("bulk", runner.bulk) = "pass"
      BY <2>2, <3>2, <3>3, TypesPass, FieldsPass
    <3>5. BulkAndSingleAgree(runner.single, runner.bulk) # "fail"
      BY <1>2, <2>2, <3>2, AgreementPasses
    <3> QED
      BY <2>2, <2>4, <3>2, <3>4, <3>5, LastingPasses
  <2>5. CASE name \notin Lasting
    <3>1. /\ EnvelopeShape(runner.single) # "fail"
          /\ CheckCountIsANumber(runner.single) # "fail"
          /\ RawEnvelopeIsUnmodified(runner.single) # "fail"
          /\ NoWireFieldIsDropped(runner.single) # "fail"
      BY <1>2, <2>3, ResultPasses
    <3> DEFINE record == runner.single.nonprofit
    <3>0. ~DescribePub78Raises(runner.single)
      BY <1>2, <2>3, DescribePasses
    <3>2. /\ IdentityFields(record) # "fail" /\ NameFields(record) # "fail"
          /\ SourceProjection(runner.single, Pub78Fields, "warn") # "fail"
          /\ SourceProjection(runner.single, BmfFields, "warn") # "fail"
          /\ SourceProjection(runner.single, AroeFields, "pass") # "fail"
          /\ SourceProjection(runner.single, OfacFields, "warn") # "fail"
          /\ OfacStaysFourValued(record) # "fail" /\ CrossSourceConflict(record) # "fail"
          /\ FoundationClassification(record) # "fail"
          /\ FilingAndExemptionMetadata(record) # "fail"
      BY <1>2, <2>2, <3>0, IdentityPasses, NamesPass, ProjectionsPass, OfacPasses,
         ConflictPasses, MetadataPasses
    <3>3. DataFreshness(record) # "fail"
      BY DEF DataFreshness, Verdict
    <3> HIDE DEF name
    <3>4. FreeStatus(name) \in {"pass", EnvelopeShape(runner.single),
            CheckCountIsANumber(runner.single), RawEnvelopeIsUnmodified(runner.single),
            NoWireFieldIsDropped(runner.single), IdentityFields(record), NameFields(record),
            SourceProjection(runner.single, Pub78Fields, "warn"),
            SourceProjection(runner.single, BmfFields, "warn"),
            SourceProjection(runner.single, AroeFields, "pass"),
            SourceProjection(runner.single, OfacFields, "warn"), OfacStaysFourValued(record),
            CrossSourceConflict(record), FoundationClassification(record),
            FilingAndExemptionMetadata(record), DataFreshness(record), WireStatus}
      BY <1>4, <2>2, <2>5
      DEF Lasting, PackageChecks, Introspection, Notes, FreeStatus, FromRecord
    <3>5. FreeStatus(name) # "fail"
      BY <2>2, <3>1, <3>2, <3>3, <3>4
    <3> QED
      BY <3>5 DEF name
  <2> QED
    BY <2>4, <2>5
<1> QED
  BY <1>3, <1>4

(* A run as a check leaves it that has sent what it sends where it should. *)
Unmoved(r) ==
    /\ DOMAIN r = RunnerFields /\ r.step = runner.step /\ r.results = runner.results
    /\ runner.log \subseteq r.log
    /\ \A request \in r.log \ runner.log : WellAddressed(request)

CapturingCheck == IF world.allowlisted THEN "bulk_order_and_duplicates" ELSE "bulk_with_a_miss"

(* A check that does not fail, with what it keeps. *)
Goes ==
    \E r, status :
        /\ Unmoved(r) /\ status # "fail" /\ runner' = Concluded(r, status)
        /\ IF Current.name = "single_check"
           THEN /\ r.log # {}
                /\ \E count : r.single = ShapeSingle(SingleResponse(world, count))
           ELSE r.single = runner.single
        /\ IF Current.name = CapturingCheck
           THEN \E count : r.bulk = BulkResponse(world, Batch(world), count)
           ELSE r.bulk = runner.bulk

(* Every request of the run is well addressed. *)
LEMMA LoggedIs ==
    ASSUME DOMAIN runner = RunnerFields, NEW method \in {"GET", "POST"}, NEW call, NEW eins,
           NEW spelling \in {"plain", "padded_and_hyphenated"}
    PROVE  LET sent == Logged(runner, method, call, eins, spelling)
           IN  /\ Unmoved(sent) /\ sent.log # {}
               /\ sent.single = runner.single /\ sent.bulk = runner.bulk
<1> DEFINE sent == Logged(runner, method, call, eins, spelling)
           request == [method |-> method, ein |-> NormalizeEin(spelling)]
<1>1. WellAddressed(request)
  BY DEF WellAddressed, NormalizeEin
<1>2. /\ DOMAIN sent = RunnerFields /\ sent.log = runner.log \cup {request}
      /\ sent.step = runner.step /\ sent.results = runner.results
      /\ sent.single = runner.single /\ sent.bulk = runner.bulk
  BY DEF Logged, RunnerFields
<1> HIDE DEF sent, request
<1>3. Unmoved(sent) /\ sent.log # {}
  BY <1>1, <1>2 DEF Unmoved
<1> QED
  BY <1>2, <1>3 DEF sent

(* Seeing a count changes nothing else. *)
LEMMA ObservedIs ==
    ASSUME NEW r, Unmoved(r), NEW count
    PROVE  /\ Unmoved(Observed(r, count)) /\ Observed(r, count).log = r.log
           /\ Observed(r, count).single = r.single /\ Observed(r, count).bulk = r.bulk
<1>1. CASE ~world.reports_count
  BY <1>1 DEF Observed
<1>2. CASE world.reports_count
  <2> DEFINE o == [r EXCEPT !.start = IF @ = None THEN count ELSE @, !.end = count]
  <2>1. /\ DOMAIN o = RunnerFields
        /\ \A field \in RunnerFields \ {"start", "end"} : o[field] = r[field]
    BY DEF Unmoved, RunnerFields
  <2>2. Observed(r, count) = o
    BY <1>2 DEF Observed
  <2> HIDE DEF o
  <2> QED
    BY <2>1, <2>2 DEF Unmoved, RunnerFields
<1> QED
  BY <1>1, <1>2

(* A field is written beside what a run has sent. *)
LEMMA WrittenIs ==
    ASSUME NEW r, Unmoved(r), NEW o, NEW field \in {"single", "bulk", "free_tier", "sent"},
           DOMAIN o = RunnerFields, \A other \in RunnerFields \ {field} : o[other] = r[other]
    PROVE  /\ Unmoved(o) /\ o.log = r.log
           /\ field # "single" => o.single = r.single
           /\ field # "bulk" => o.bulk = r.bulk
BY DEF Unmoved, RunnerFields

(* A check that sent nothing leaves the run as it is. *)
LEMMA RunnerUnmoved == ASSUME DOMAIN runner = RunnerFields PROVE Unmoved(runner)
BY DEF Unmoved

(* A check that keeps neither response. *)
LEMMA KeepsNeither ==
    ASSUME Current.name \notin {"single_check", CapturingCheck}, NEW r, Unmoved(r),
           r.single = runner.single, r.bulk = runner.bulk, NEW status, status # "fail",
           runner' = Concluded(r, status)
    PROVE  Goes
BY DEF Goes

(* The checks that send nothing. *)
LEMMA RunFreeGoes ==
    ASSUME RunInv, RecordedInv, FreshRun, FreshInv, RunFree PROVE Goes
<1>1. Current.name \notin Sending /\ runner' = Concluded(runner, FreeStatus(Current.name))
      /\ runner.step \in DOMAIN Plan
  BY DEF RunFree
<1>2. FreeStatus(Current.name) # "fail"
  BY <1>1, FreePasses
<1>3. Current.name \notin {"single_check", CapturingCheck}
  BY <1>1 DEF Sending, CapturingCheck
<1>4. Unmoved(runner)
  BY RunnerUnmoved DEF RunInv, RunnerOK
<1> QED
  BY <1>1, <1>2, <1>3, <1>4, KeepsNeither

(* The checks with a made-up key. *)
LEMMA UnbilledGoes ==
    ASSUME RunInv, FreshRun, disturbances' = 0,
           AuthenticationIsEnforced \/ RejectedKeysAreNotRetried
    PROVE  Goes
<1>1. Unmoved(runner) /\ disturbances \in Nat
  BY RunnerUnmoved DEF RunInv, RunnerOK, RecorderInv
<1>2. Current.name \notin {"single_check", CapturingCheck}
  BY DEF AuthenticationIsEnforced, RejectedKeysAreNotRetried, At, CapturingCheck
<1>3. world.wrong_key \in {401, 403}
  BY DEF FreshRun, BehavesAsDocumented
<1>4. \E status : status # "fail" /\ runner' = Concluded(runner, status)
  <2>1. CASE AuthenticationIsEnforced
    <3>1. PICK call :
            /\ disturbances' = disturbances + Disturbed(call)
            /\ runner' = Concluded(runner,
                  Verdict(~call.answered,
                          Policy!ErrorFromStatus(world.wrong_key) # "Authentication"))
      BY <2>1 DEF AuthenticationIsEnforced
    <3>2. call.answered
      BY <1>1, <3>1, UndisturbedCall
    <3> QED
      BY <3>1, <3>2 DEF Verdict
  <2>2. CASE RejectedKeysAreNotRetried
    <3> DEFINE retry == [retryable_statuses |-> {401, 403, 404, 429, 500}]
               retried == Policy!IsRetryableStatus(world.wrong_key, retry)
    <3>1. PICK call :
            /\ disturbances' = disturbances + Disturbed(call)
            /\ runner' = Concluded(runner,
                  Verdict((IF retried THEN 3 ELSE call.attempts) # 1,
                          call.answered /\ world.wrong_key \notin {401, 403, 404}))
      BY <2>2 DEF RejectedKeysAreNotRetried
    <3>2. call.attempts = 1
      BY <1>1, <3>1, UndisturbedCall
    <3>3. ~retried
      BY <1>3 DEF Policy!IsRetryableStatus, Policy!NeverRetry
    <3> QED
      BY <3>1, <3>2, <3>3 DEF Verdict
  <2> QED
    BY <2>1, <2>2
<1> QED
  BY <1>1, <1>2, <1>4, KeepsNeither

(* The call a check of an undisturbed run makes is answered at once. *)
LEMMA OnlyCall ==
    ASSUME RunInv, disturbances' = 0, NEW call, NEW eins, Sent(call, eins)
    PROVE  call.answered /\ call.attempts = 1
BY UndisturbedCall DEF Sent, RunInv, RecorderInv

(* The check that keeps the record. *)
LEMMA SingleCheckGoes ==
    ASSUME RunInv, FreshRun, disturbances' = 0, SingleCheck PROVE Goes
<1>1. PICK call \in Calls(2) :
        LET count == Charged(call, <<EIN>>)
            sent == Logged(runner, "GET", call, <<EIN>>, "plain")
        IN  /\ Sent(call, <<EIN>>)
            /\ runner' = IF ~call.answered THEN Concluded(sent, "fail")
                         ELSE Kept(Observed(sent, count),
                                       ShapeSingle(SingleResponse(world, count)))
  BY DEF SingleCheck
<1> DEFINE count == Charged(call, <<EIN>>)
           sent == Logged(runner, "GET", call, <<EIN>>, "plain")
           seen == Observed(sent, count)
           result == ShapeSingle(SingleResponse(world, count))
           kept == [seen EXCEPT !.single = result]
<1>2. call.answered
  BY <1>1, OnlyCall
<1>3. Unmoved(sent) /\ sent.log # {} /\ sent.bulk = runner.bulk
  BY LoggedIs DEF RunInv, RunnerOK
<1>4. Get(result.nonprofit, "ein").id = EIN
  BY SingleAnswers, EinIs DEF FreshRun, RecordOf
<1>5. runner' = Kept(seen, result)
  BY <1>1, <1>2
<1> HIDE DEF sent
<1>6. Unmoved(seen) /\ seen.log # {} /\ seen.bulk = runner.bulk
  BY <1>3, ObservedIs
<1>7. result = ShapeSingle(SingleResponse(world, count))
  OBVIOUS
<1> HIDE DEF seen, result, count
<1>8. runner' = Concluded(kept, "pass")
  BY <1>4, <1>5 DEF Kept
<1>9. Unmoved(kept) /\ kept.single = result /\ kept.log # {} /\ kept.bulk = runner.bulk
  <2>1. /\ DOMAIN kept = RunnerFields /\ kept.single = result
        /\ \A other \in RunnerFields \ {"single"} : kept[other] = seen[other]
    BY <1>6 DEF Unmoved, RunnerFields
  <2> HIDE DEF kept
  <2> QED
    BY <1>6, <2>1, WrittenIs
<1>10. Current.name = "single_check" /\ Current.name # CapturingCheck
  BY DEF SingleCheck, At, CapturingCheck
<1> HIDE DEF kept
<1> QED
  BY <1>7, <1>8, <1>9, <1>10 DEF Goes

(* The checks with one call that keep no response. *)
LEMMA OneCallGoes ==
    ASSUME RunInv, FreshRun, RecordedInv, FreshInv, disturbances' = 0,
           NormalizationEndToEnd \/ NotFound \/ RepeatCheck
    PROVE  Goes
<1> DEFINE sent(call, eins, spelling) == Logged(runner, "GET", call, eins, spelling)
<1>1. ASSUME NEW call, NEW eins, NEW spelling \in {"plain", "padded_and_hyphenated"}, NEW r,
             NEW count,
             r \in {sent(call, eins, spelling), Observed(sent(call, eins, spelling), count)}
      PROVE  Unmoved(r) /\ r.single = runner.single /\ r.bulk = runner.bulk
  <2> DEFINE s == sent(call, eins, spelling)
  <2>1. Unmoved(s) /\ s.single = runner.single /\ s.bulk = runner.bulk
    BY LoggedIs DEF RunInv, RunnerOK
  <2>2. r \in {s, Observed(s, count)}
    BY <1>1
  <2> HIDE DEF s
  <2> QED
    BY <2>1, <2>2, ObservedIs
<1>2. Current.name \notin {"single_check", CapturingCheck}
  BY DEF NormalizationEndToEnd, NotFound, RepeatCheck, At, CapturingCheck
<1>3. ASSUME NEW call, NEW eins, NEW spelling \in {"plain", "padded_and_hyphenated"}, NEW status,
             status # "fail", runner' = Concluded(sent(call, eins, spelling), status)
      PROVE  Goes
  <2> DEFINE r == sent(call, eins, spelling)
  <2>1. Unmoved(r) /\ r.single = runner.single /\ r.bulk = runner.bulk
    BY <1>1
  <2> QED
    BY <1>2, <1>3, <2>1, KeepsNeither
<1>4. ASSUME NEW call, NEW eins, NEW spelling \in {"plain", "padded_and_hyphenated"}, NEW status,
             NEW count, status # "fail",
             runner' = Concluded(Observed(sent(call, eins, spelling), count), status)
      PROVE  Goes
  <2> DEFINE r == Observed(sent(call, eins, spelling), count)
  <2>1. Unmoved(r) /\ r.single = runner.single /\ r.bulk = runner.bulk
    BY <1>1
  <2> QED
    BY <1>2, <1>4, <2>1, KeepsNeither
<1>5. CASE NormalizationEndToEnd
  <2>1. PICK call \in Calls(2) :
          LET count == Charged(call, <<EIN>>)
              record == ShapeSingle(SingleResponse(world, count)).nonprofit
              made == sent(call, <<EIN>>, "padded_and_hyphenated")
          IN  /\ Sent(call, <<EIN>>)
              /\ runner' = IF ~call.answered THEN Concluded(made, "fail")
                           ELSE Concluded(Observed(made, count),
                                          Verdict(Get(record, "ein").id # EIN, FALSE))
    BY <1>5 DEF NormalizationEndToEnd
  <2> DEFINE count == Charged(call, <<EIN>>)
             record == ShapeSingle(SingleResponse(world, count)).nonprofit
  <2>2. call.answered
    BY <2>1, OnlyCall
  <2>3. Get(record, "ein").id = EIN
    BY SingleAnswers, EinIs DEF FreshRun, RecordOf
  <2>4. Verdict(Get(record, "ein").id # EIN, FALSE) = "pass"
    BY <2>3 DEF Verdict
  <2>5. runner' = Concluded(Observed(sent(call, <<EIN>>, "padded_and_hyphenated"), count),
                            "pass")
    BY <2>1, <2>2, <2>4
  <2> QED
    BY <2>5, <1>4
<1>6. CASE NotFound
  <2>1. PICK call \in Calls(2) :
          LET made == sent(call, <<MISSING_EIN>>, "plain")
          IN  /\ Sent(call, <<MISSING_EIN>>)
              /\ runner' =
                  IF ~call.answered THEN Concluded(made, "fail")
                  ELSE IF world.missing = 404
                  THEN Concluded(made, Verdict(call.attempts # 1, FALSE))
                  ELSE Concluded(Observed(made, Charged(call, <<MISSING_EIN>>)), "warn")
    BY <1>6 DEF NotFound
  <2>2. call.answered /\ call.attempts = 1
    BY <2>1, OnlyCall
  <2>3. Verdict(call.attempts # 1, FALSE) = "pass"
    BY <2>2 DEF Verdict
  <2> QED
    BY <2>1, <2>2, <2>3, <1>3, <1>4
<1>7. CASE RepeatCheck
  <2>1. runner.step > 11 /\ HasRecord(runner) /\ runner.single.nonprofit = RecordOf(world)
    <3>1. Current.name = "a_repeat_check_is_stable" /\ runner.step \in DOMAIN Plan
      BY <1>7 DEF RepeatCheck, At
    <3>2. runner.step > 11
      BY <3>1, PlanStages, PlanHalves DEF Current, Staged
    <3> QED
      BY <3>2, FreshFinds
  <2>2. PICK call \in Calls(2) :
          LET count == Charged(call, <<EIN>>)
              second == ShapeSingle(SingleResponse(world, count))
              made == sent(call, <<EIN>>, "plain")
          IN  /\ Sent(call, <<EIN>>)
              /\ runner' =
                  IF ~call.answered THEN Concluded(made, "fail")
                  ELSE Concluded(Observed(made, count),
                                 Repeated(runner.single.nonprofit, second.nonprofit))
    BY <1>7, <2>1 DEF RepeatCheck
  <2> DEFINE count == Charged(call, <<EIN>>)
             second == ShapeSingle(SingleResponse(world, count))
  <2>3. call.answered
    BY <2>2, OnlyCall
  <2>4. Repeated(runner.single.nonprofit, second.nonprofit) # "fail"
    BY <2>1, SingleAnswers, RepeatedPasses DEF FreshRun, RecordOf
  <2>5. runner' = Concluded(Observed(sent(call, <<EIN>>, "plain"), count),
                            Repeated(runner.single.nonprofit, second.nonprofit))
    BY <2>2, <2>3
  <2> HIDE DEF count, second
  <2> QED
    BY <2>4, <2>5, <1>4
<1> QED
  BY <1>5, <1>6, <1>7

(* A batch is kept when it is the one the recorder kept. *)
LEMMA BulkWithAMissGoes ==
    ASSUME RunInv, FreshRun, FreshInv, disturbances' = 0, BulkWithAMiss PROVE Goes
<1>1. PICK call \in Calls(2) :
        LET sent == Logged(runner, "POST", call, MissBatch, "plain")
            count == Charged(call, MissBatch)
            response == BulkResponse(world, MissBatch, count)
        IN  /\ Sent(call, MissBatch)
            /\ runner' =
                IF ~call.answered THEN Concluded(sent, "fail")
                ELSE IF Refused(MissBatch)
                THEN Concluded([sent EXCEPT !.free_tier = TRUE], "pass")
                ELSE Concluded(Captured(Observed(sent, count), response),
                               Verdict(Organizations(response) = {},
                                       world.misses # "details"))
  BY DEF BulkWithAMiss
<1> DEFINE sent == Logged(runner, "POST", call, MissBatch, "plain")
           count == Charged(call, MissBatch)
           response == BulkResponse(world, MissBatch, count)
           seen == Observed(sent, count)
<1>2. call.answered
  BY <1>1, OnlyCall
<1>3. Unmoved(sent) /\ sent.bulk = runner.bulk /\ sent.single = runner.single
  BY LoggedIs DEF RunInv, RunnerOK
<1>4. /\ Current.name = "bulk_with_a_miss" /\ runner.step = 31
  <2>1. Current.name = "bulk_with_a_miss" /\ runner.step \in DOMAIN Plan
    BY DEF BulkWithAMiss, At
  <2> QED
    BY <2>1, PlanStages DEF Staged, Current
<1>5. Refused(MissBatch) <=> world.allowlisted
  BY BatchesAre
<1>6. CASE world.allowlisted
  <2>1. runner' = Concluded([sent EXCEPT !.free_tier = TRUE], "pass")
    BY <1>1, <1>2, <1>5, <1>6
  <2> HIDE DEF sent
  <2> DEFINE marked == [sent EXCEPT !.free_tier = TRUE]
  <2>2. Unmoved(marked) /\ marked.bulk = runner.bulk /\ marked.single = runner.single
    <3>1. /\ DOMAIN marked = RunnerFields
          /\ \A other \in RunnerFields \ {"free_tier"} : marked[other] = sent[other]
      BY <1>3 DEF Unmoved, RunnerFields
    <3> HIDE DEF marked
    <3> QED
      BY <1>3, <3>1, WrittenIs
  <2>3. Current.name \notin {"single_check", CapturingCheck}
    BY <1>4, <1>6 DEF CapturingCheck
  <2> QED
    BY <2>1, <2>2, <2>3, KeepsNeither
<1>7. CASE ~world.allowlisted
  <2> DEFINE status == Verdict(Organizations(response) = {}, world.misses # "details")
  <2>1. runner' = Concluded(Captured(seen, response), status)
    BY <1>1, <1>2, <1>5, <1>7
  <2> HIDE DEF sent
  <2>2. Unmoved(seen) /\ seen.bulk = runner.bulk /\ seen.single = runner.single
    BY <1>3, ObservedIs
  <2>3. response = BulkResponse(world, Batch(world), count)
    BY <1>7 DEF Batch
  <2>4. status # "fail"
    <3>1. Organizations(response) = Organizations(BulkSeen(world))
      BY <2>3, BulkAnswers DEF FreshRun
    <3>2. Organizations(BulkSeen(world)) # {}
      BY DEF FreshRun, BehavesAsDocumented
    <3> HIDE DEF response
    <3> QED
      BY <3>1, <3>2 DEF Verdict
  <2> HIDE DEF seen, response, count, status
  <2>5. ~Bulk(seen)
    BY <1>4, <2>2 DEF FreshInv, Captures, Bulk
  <2> DEFINE kept == [seen EXCEPT !.bulk = response]
  <2>6. runner' = Concluded(kept, status)
    BY <2>1, <2>5 DEF Captured
  <2>7. Unmoved(kept) /\ kept.bulk = response /\ kept.single = runner.single
    <3>1. /\ DOMAIN kept = RunnerFields /\ kept.bulk = response
          /\ \A other \in RunnerFields \ {"bulk"} : kept[other] = seen[other]
      BY <2>2 DEF Unmoved, RunnerFields
    <3> HIDE DEF kept
    <3> QED
      BY <2>2, <3>1, WrittenIs
  <2>8. Current.name # "single_check" /\ Current.name = CapturingCheck
    BY <1>4, <1>7 DEF CapturingCheck
  <2> HIDE DEF kept
  <2> QED
    BY <2>3, <2>4, <2>6, <2>7, <2>8 DEF Goes
<1> QED
  BY <1>6, <1>7

(* The batch with a duplicate is kept where the first one was refused. *)
LEMMA BulkOrderGoes ==
    ASSUME RunInv, RecordedInv, FreshRun, FreshInv, disturbances' = 0, BulkOrderAndDuplicates
    PROVE  Goes
<1>1. PICK call \in Calls(2) :
        LET sent == Logged(runner, "POST", call, DuplicateProbe, "plain")
            count == Charged(call, DuplicateProbe)
            response == BulkResponse(world, DuplicateProbe, count)
        IN  /\ Sent(call, DuplicateProbe)
            /\ runner' =
                IF ~call.answered THEN Concluded(sent, "fail")
                ELSE Concluded(Captured(Observed(sent, count), response),
                               Verdict(~IsInjective(Members(world, DuplicateProbe)), FALSE))
  BY DEF BulkOrderAndDuplicates
<1> DEFINE sent == Logged(runner, "POST", call, DuplicateProbe, "plain")
           count == Charged(call, DuplicateProbe)
           response == BulkResponse(world, DuplicateProbe, count)
           seen == Observed(sent, count)
<1>2. call.answered
  BY <1>1, OnlyCall
<1>3. Unmoved(sent) /\ sent.bulk = runner.bulk /\ sent.single = runner.single
  BY LoggedIs DEF RunInv, RunnerOK
<1>4. /\ Current.name = "bulk_order_and_duplicates" /\ runner.step = 32
  <2>1. Current.name = "bulk_order_and_duplicates" /\ runner.step \in DOMAIN Plan
    BY DEF BulkOrderAndDuplicates, At
  <2> QED
    BY <2>1, PlanStages DEF Staged, Current
<1>5. Verdict(~IsInjective(Members(world, DuplicateProbe)), FALSE) = "pass"
  BY BatchesAre DEF FreshRun, BehavesAsDocumented, Verdict
<1>6. runner' = Concluded(Captured(seen, response), "pass")
  BY <1>1, <1>2, <1>5
<1> HIDE DEF sent
<1>7. Unmoved(seen) /\ seen.bulk = runner.bulk /\ seen.single = runner.single
  BY <1>3, ObservedIs
<1>8. CASE ~world.allowlisted
  <2>1. Bulk(runner)
    BY <1>4, <1>8, FreshBulk DEF Captures
  <2> HIDE DEF seen
  <2>2. runner' = Concluded(seen, "pass")
    BY <1>6, <1>7, <2>1 DEF Captured, Bulk
  <2>3. Current.name \notin {"single_check", CapturingCheck}
    BY <1>4, <1>8 DEF CapturingCheck
  <2> QED
    BY <1>7, <2>2, <2>3, KeepsNeither
<1>9. CASE world.allowlisted
  <2>1. response = BulkResponse(world, Batch(world), count)
    BY <1>9 DEF Batch
  <2> HIDE DEF seen, response, count
  <2>2. ~Bulk(seen)
    BY <1>4, <1>7, <1>9 DEF FreshInv, Captures, Bulk
  <2> DEFINE kept == [seen EXCEPT !.bulk = response]
  <2>3. runner' = Concluded(kept, "pass")
    BY <1>6, <2>2 DEF Captured
  <2>4. Unmoved(kept) /\ kept.bulk = response /\ kept.single = runner.single
    <3>1. /\ DOMAIN kept = RunnerFields /\ kept.bulk = response
          /\ \A other \in RunnerFields \ {"bulk"} : kept[other] = seen[other]
      BY <1>7 DEF Unmoved, RunnerFields
    <3> HIDE DEF kept
    <3> QED
      BY <1>7, <3>1, WrittenIs
  <2>5. Current.name # "single_check" /\ Current.name = CapturingCheck
    BY <1>4, <1>9 DEF CapturingCheck
  <2> HIDE DEF kept
  <2> QED
    BY <2>1, <2>3, <2>4, <2>5 DEF Goes
<1> QED
  BY <1>8, <1>9

(* What the last two checks come to that no request was lost to. *)
LEMMA LastChecksGo ==
    ASSUME RunInv, FreshRun, disturbances' = 0, TimeoutAndCancellation \/ RateLimit
    PROVE  Goes
<1>1. Unmoved(runner) /\ disturbances \in Nat
  BY RunnerUnmoved DEF RunInv, RunnerOK, RecorderInv
<1>2. Current.name \notin {"single_check", CapturingCheck}
  BY DEF TimeoutAndCancellation, RateLimit, At, CapturingCheck
<1>3. ASSUME NEW r, Unmoved(r), r.single = runner.single, r.bulk = runner.bulk, NEW n,
             NEW status, status # "fail", runner' = Concluded([r EXCEPT !.sent = n], status)
      PROVE  Goes
  <2> DEFINE o == [r EXCEPT !.sent = n]
  <2>1. /\ DOMAIN o = RunnerFields
        /\ \A other \in RunnerFields \ {"sent"} : o[other] = r[other]
    BY <1>3 DEF Unmoved, RunnerFields
  <2>2. runner' = Concluded(o, status)
    BY <1>3
  <2> HIDE DEF o
  <2>3. Unmoved(o) /\ o.single = runner.single /\ o.bulk = runner.bulk
    BY <1>3, <2>1, WrittenIs
  <2> QED
    BY <1>2, <1>3, <2>2, <2>3, KeepsNeither
<1>4. CASE TimeoutAndCancellation
  <2>1. PICK status \in {"pass", "warn", "fail"} :
          /\ disturbances' = disturbances + IF status = "fail" THEN 1 ELSE 0
          /\ runner' = Concluded([runner EXCEPT !.sent = runner.sent + 1], status)
    BY <1>4 DEF TimeoutAndCancellation
  <2>2. status # "fail"
    BY <1>1, <2>1
  <2> QED
    BY <1>1, <1>3, <2>1, <2>2
<1>5. CASE RateLimit
  <2> DEFINE served == IF world.burst \in 1 .. RATE_LIMIT_ATTEMPTS THEN world.burst - 1
                       ELSE RATE_LIMIT_ATTEMPTS
             refused == served < RATE_LIMIT_ATTEMPTS
             last == IF refused THEN 1 ELSE 0
             seen == Observed(runner, counter + served)
  <2>1. \/ runner' = Concluded([seen EXCEPT !.sent = runner.sent + served + last],
                               Verdict(FALSE, ~refused))
        \/ disturbances' = disturbances + 1
    BY <1>5 DEF RateLimit
  <2>2. Verdict(FALSE, ~refused) # "fail"
    BY DEF Verdict
  <2>3. Unmoved(seen) /\ seen.single = runner.single /\ seen.bulk = runner.bulk
    BY <1>1, ObservedIs
  <2> QED
    <3>1. runner' = Concluded([seen EXCEPT !.sent = runner.sent + served + last],
                              Verdict(FALSE, ~refused))
      <4>1. disturbances' # disturbances + 1
        BY <1>1
      <4> HIDE DEF seen, served, refused, last
      <4> QED
        BY <2>1, <4>1
    <3> HIDE DEF seen, served, refused, last
    <3> QED
      BY <1>3, <2>2, <2>3, <3>1
<1> QED
  BY <1>4, <1>5

(* One check further. *)
LEMMA GoesKeeps ==
    ASSUME RunInv, FreshRun, FreshInv, Goes, runner.step \in DOMAIN Plan,
           UNCHANGED world
    PROVE  FreshInv'
<1>1. /\ runner.step \in Nat /\ runner.step > 0 /\ runner.step <= 44
      /\ Staged(Current, runner.step)
      /\ IsSequence(runner.results) /\ Len(runner.results) = runner.step - 1
  <2>1. runner.step \in 1 .. 44
    BY PlanHalves
  <2>2. runner.step \in Nat /\ runner.step > 0 /\ runner.step <= 44
    BY <2>1
  <2>3. Staged(Current, runner.step)
    BY PlanStages DEF Current
  <2> QED
    BY <2>2, <2>3 DEF RunInv, RunnerOK, PlaceInv
<1>2. PICK r, status :
        /\ Unmoved(r) /\ status # "fail" /\ runner' = Concluded(r, status)
        /\ IF Current.name = "single_check"
           THEN /\ r.log # {}
                /\ \E count : r.single = ShapeSingle(SingleResponse(world, count))
           ELSE r.single = runner.single
        /\ IF Current.name = CapturingCheck
           THEN \E count : r.bulk = BulkResponse(world, Batch(world), count)
           ELSE r.bulk = runner.bulk
  BY DEF Goes
<1>3. /\ runner'.step = runner.step + 1 /\ runner'.results = Append(runner.results, status)
      /\ runner'.log = r.log /\ runner'.single = r.single /\ runner'.bulk = r.bulk
  BY <1>2 DEF Concluded, Unmoved, RunnerFields
<1>4. /\ \A i \in DOMAIN runner.results : runner.results[i] # "fail"
      /\ \A request \in runner.log : WellAddressed(request)
      /\ runner.step > 11 => /\ runner.log # {}
                             /\ \E count : runner.single
                                              = ShapeSingle(SingleResponse(world, count))
      /\ Captures => \E count : runner.bulk = BulkResponse(world, Batch(world), count)
      /\ ~Captures => runner.bulk = <<>>
  BY <1>1 DEF FreshInv
<1>5. \A i \in DOMAIN runner'.results : runner'.results[i] # "fail"
  <2>1. /\ Len(runner'.results) = runner.step /\ IsSequence(runner'.results)
        /\ runner'.results[runner.step] = status
        /\ \A i \in 1 .. runner.step - 1 : runner'.results[i] = runner.results[i]
    BY <1>1, <1>3, Appended
  <2>2. DOMAIN runner'.results = 1 .. runner.step /\ DOMAIN runner.results = 1 .. runner.step - 1
    BY <1>1, <2>1, Appended
  <2> QED
    BY <1>1, <1>2, <1>4, <2>1, <2>2
<1>6. \A request \in runner'.log : WellAddressed(request)
  BY <1>2, <1>3, <1>4 DEF Unmoved
<1>7. runner'.step > 11 => /\ runner'.log # {}
                          /\ \E count : runner'.single
                                           = ShapeSingle(SingleResponse(world, count))
  <2>1. CASE runner.step > 11
    <3>1. Current.name # "single_check"
      BY <1>1, <2>1 DEF Staged
    <3> QED
      BY <1>2, <1>3, <1>4, <2>1, <3>1 DEF Unmoved
  <2>2. CASE runner.step = 11
    <3>1. Current.name = "single_check"
      BY <1>1, <2>2 DEF Staged
    <3> QED
      BY <1>2, <1>3, <3>1
  <2>3. CASE runner.step < 11
    BY <1>1, <1>3, <2>3
  <2> QED
    BY <1>1, <2>1, <2>2, <2>3
<1>8. Captures' <=> Captures \/ Current.name = CapturingCheck
  <2>1. Current.name = CapturingCheck <=>
          IF world.allowlisted THEN runner.step = 32 ELSE runner.step = 31
    BY <1>1 DEF Staged, CapturingCheck
  <2> QED
    BY <1>1, <1>3, <2>1 DEF Captures
<1>9. Captures => Current.name # CapturingCheck
  <2>1. Current.name = CapturingCheck =>
          IF world.allowlisted THEN runner.step = 32 ELSE runner.step = 31
    BY <1>1 DEF Staged, CapturingCheck
  <2> QED
    BY <1>1, <2>1 DEF Captures
<1>10. /\ Captures' => \E count : runner'.bulk = BulkResponse(world, Batch(world), count)
       /\ ~Captures' => runner'.bulk = <<>>
  BY <1>2, <1>3, <1>4, <1>8, <1>9
<1>11. runner'.step # 0
  BY <1>1, <1>3
<1> QED
  BY <1>5, <1>6, <1>7, <1>10, <1>11 DEF FreshInv

(* Every step of the two programs keeps the run fresh. *)
LEMMA FreshStep ==
    ASSUME RunInv, RecordedInv, FreshInv, [Next]_vars PROVE FreshInv'
<1>1. disturbances \in Nat /\ runner.step \in Nat /\ DOMAIN runner = RunnerFields
  BY DEF RunInv, RecorderInv, RunnerOK
<1>2. CASE UNCHANGED runner /\ runner.step = 0
  BY <1>2 DEF FreshInv
<1>3. CASE ~FreshRun' /\ (runner'.step > 0 \/ UNCHANGED runner)
  BY <1>1, <1>3 DEF FreshInv
<1>4. CASE Recorder
  BY <1>2, <1>4, RecorderBills DEF RunInv, PlaceInv, RunnerOK
<1>5. CASE Smoke /\ FreshRun' /\ ~Begin /\ ~Report
  <2>1. disturbances' = 0 /\ disturbances = 0 /\ UNCHANGED world
    BY <1>1, <1>5, UndisturbedStep DEF FreshRun, Next
  <2>2. UNCHANGED recorder /\ runner.step \in DOMAIN Plan
    BY <1>5
    DEF Smoke, RunFree, AuthenticationIsEnforced, RejectedKeysAreNotRetried, SingleCheck,
        NormalizationEndToEnd, NotFound, BulkWithAMiss, BulkOrderAndDuplicates, RepeatCheck,
        TimeoutAndCancellation, RateLimit, Interrupt, At
  <2>3. FreshRun
    BY <1>5, <2>1, <2>2 DEF FreshRun
  <2>4. ~Interrupt
    BY <1>1, <2>1 DEF Interrupt
  <2>5. Goes
    BY <1>5, <2>1, <2>3, <2>4, RunFreeGoes, UnbilledGoes, SingleCheckGoes, OneCallGoes,
       BulkWithAMissGoes, BulkOrderGoes, LastChecksGo
    DEF Smoke
  <2> QED
    BY <2>1, <2>2, <2>3, <2>5, GoesKeeps
<1>6. CASE Begin
  <2>1. UNCHANGED <<world, disturbances, recorder>> /\ runner.step = 0
    BY <1>6 DEF Begin
  <2>2. runner.log = {} /\ runner.bulk = <<>> /\ runner.results = <<>>
    BY <2>1 DEF FreshInv, RunInv, PlaceInv
  <2>3. /\ runner'.log = {} /\ runner'.bulk = <<>> /\ runner'.results = <<>>
        /\ runner'.step \in {0, 1}
    BY <1>1, <1>6, <2>1, <2>2 DEF Begin, RunnerFields
  <2>4. DOMAIN runner'.results = {}
    BY <2>3
  <2>5. ~Captures' /\ ~(runner'.step > 11)
    BY <2>3 DEF Captures
  <2> QED
    BY <2>3, <2>4, <2>5 DEF FreshInv
<1>7. CASE Report
  <2>0. runner.step = Len(Plan) + 1
    BY <1>7 DEF Report
  <2>1. /\ UNCHANGED <<world, disturbances, recorder>> /\ runner.step > 0
        /\ \E status : runner' = [runner EXCEPT !.exit = status]
    <3>1. runner.step > 0
      BY <2>0, PlanHalves
    <3> QED
      BY <1>7, <3>1 DEF Report
  <2>2. \A field \in RunnerFields \ {"exit"} : runner'[field] = runner[field]
    BY <1>1, <2>1 DEF RunnerFields
  <2>3. /\ runner'.step = runner.step /\ runner'.results = runner.results
        /\ runner'.log = runner.log /\ runner'.single = runner.single
        /\ runner'.bulk = runner.bulk
    BY <2>2 DEF RunnerFields
  <2> QED
    BY <2>1, <2>3 DEF FreshInv, FreshRun, Captures
<1>8. CASE Smoke /\ ~FreshRun' /\ ~Begin /\ ~Report
  <2>1. runner'.step > 0
    <3>1. runner.step > 0
      <4>1. runner.step \in DOMAIN Plan
        BY <1>8
        DEF Smoke, RunFree, AuthenticationIsEnforced, RejectedKeysAreNotRetried, SingleCheck,
            NormalizationEndToEnd, NotFound, BulkWithAMiss, BulkOrderAndDuplicates, RepeatCheck,
            TimeoutAndCancellation, RateLimit, Interrupt, At
      <4> QED
        BY <4>1, PlanHalves
    <3>2. CASE Interrupt
      BY <1>1, <3>1, <3>2 DEF Interrupt, RunnerFields
    <3>3. CASE CheckEffect
      <4>1. PICK r, status : Gathered(r) /\ runner' = Concluded(r, status)
        BY <3>3 DEF CheckEffect
      <4>2. runner'.step = runner.step + 1
        BY <4>1, ConcludedIs DEF RunInv
      <4> QED
        BY <1>1, <4>2
    <3> QED
      BY <1>8, <3>2, <3>3, Checks DEF RunInv
  <2> QED
    BY <1>3, <1>8, <2>1
<1>9. CASE Moves
  <2>1. disturbances' # 0 /\ UNCHANGED runner
    BY <1>1, <1>9 DEF Moves
  <2> QED
    BY <1>3, <2>1 DEF FreshRun
<1>10. CASE UNCHANGED vars
  BY <1>10 DEF vars, FreshInv, FreshRun, Captures
<1> QED
  BY <1>4, <1>5, <1>6, <1>7, <1>8, <1>9, <1>10 DEF Next

(* Nothing is sent to begin with. *)
LEMMA FreshStarts == Init => FreshInv
<1> SUFFICES ASSUME Init PROVE FreshInv
  OBVIOUS
<1>1. runner.step = 0 /\ runner.log = {} /\ runner.bulk = <<>>
  BY DEF Init, NewRunner
<1> QED
  BY <1>1 DEF FreshInv

(* A fresh run has no failed check. *)
LEMMA NothingFails == RunInv /\ FreshInv => NoFalseAlarm
<1> SUFFICES ASSUME RunInv, FreshInv, FreshRun PROVE Failed = {}
  BY DEF NoFalseAlarm, Undisturbing, FreshRun
<1>1. CASE runner.step = 0
  <2>1. DOMAIN runner.results = {}
    BY <1>1 DEF RunInv, PlaceInv
  <2> QED
    BY <2>1 DEF Failed
<1>2. CASE runner.step > 0
  BY <1>2 DEF FreshInv, Failed
<1> QED
  BY <1>1, <1>2 DEF RunInv, RunnerOK

(* A deployment that keeps what is documented, whose first deductibility row
   is not null, that did not move and lost nothing since it was recorded,
   fails no check: a red run of any such means something moved (the plan of smoke_live.py, record_baseline.py and
   contract.py). *)
THEOREM NoFalseAlarmTheorem == Spec => []NoFalseAlarm
<1>1. Init => RunInv /\ RecordedInv /\ FreshInv
  BY RunStarts, RecordedBegins, FreshStarts
<1>2. RunInv /\ RecordedInv /\ FreshInv /\ [Next]_vars => (RunInv /\ RecordedInv /\ FreshInv)'
  <2>1. RunInv => RecorderInv
    BY DEF RunInv
  <2> QED
    BY <2>1, RunStep, RecordedStep, FreshStep
<1>3. RunInv /\ RecordedInv /\ FreshInv => NoFalseAlarm
  BY NothingFails
<1> QED
  BY <1>1, <1>2, <1>3, PTL DEF Spec

=============================================================================
