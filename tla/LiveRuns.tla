------------------------------ MODULE LiveRuns ------------------------------
(***************************************************************************)
(* The two programs that call a live deployment and the file they share:   *)
(* scripts/record_baseline.py writes response_baseline.json, and           *)
(* scripts/smoke_live.py holds every run against it.  The recorder may     *)
(* stop while it is writing; a call may lose answers, be billed for them   *)
(* and be sent again; the deployment may move between two calls; the user  *)
(* may interrupt the run.  MaxDisturbances bounds how many of these happen *)
(* in one behaviour.                                                       *)
(*                                                                         *)
(* A world is what the deployment answers: the subject's record as each    *)
(* endpoint sends it, the second organization's, the deductibility rows,   *)
(* the rest of the envelope, and how it treats misses, duplicates,         *)
(* allowlists, wrong keys and bursts.                                      *)
(***************************************************************************)
EXTENDS LiveChecks, SequencesExt

CONSTANTS
    Worlds,           \* the deployments considered
    Later,            \* those one of them may turn into between two calls
    Recordings,       \* what may be on disk to begin with
    Settings,         \* how the recorder may be started
    FirstCount,       \* the billing counter before anything is sent
    MaxDisturbances

\* The target: production, or another one with or without --any-target.
RecorderSettings == [key : BOOLEAN, target : {"production", "allowed", "other"},
                     dry_run : BOOLEAN]

ASSUME LiveRunsAssumption ==
    /\ Later \subseteq Worlds
    /\ Settings \subseteq RecorderSettings
    /\ FirstCount \in Nat /\ MaxDisturbances \in Nat

VARIABLES
    world,         \* what the deployment answers now
    counter,       \* nonprofit_check_count, on the server
    disturbances,  \* losses, moves, crashes and interrupts so far
    disk,          \* response_baseline.json
    recorder,      \* record_baseline.py
    runner         \* smoke_live.py: the Runner, and its place in the plan

vars == <<world, counter, disturbances, disk, recorder, runner>>

(***************************************************************************)
(* The deployment                                                          *)
(***************************************************************************)

KnownEins == ToSet(BULK_EINS)

\* A key with an allowlist refuses a batch that reaches outside it before any
\* lookup; otherwise each entry that has a record is charged for.
Billable(eins) ==
    IF world.allowlisted /\ ~(ToSet(eins) \subseteq KnownEins) THEN 0
    ELSE Cardinality({i \in DOMAIN eins : eins[i] \in KnownEins})

RecordNodes(w, prefix, record) ==
    (prefix :> Of("object", "")) @@ Under(prefix, record) @@
    (IF Get(record, "organization_types").token # "array" THEN <<>>
     ELSE LET row(i) == prefix \o <<"organization_types", Element[i]>>
              rows == DOMAIN w.types
          IN  [node \in {row(i) : i \in rows} |->
                  IF w.types[CHOOSE i \in rows : row(i) = node] = <<>>
                  THEN Null ELSE Of("object", "")]
              @@ [node \in UNION {{Append(row(i), field) : field \in DOMAIN w.types[i]} :
                                  i \in rows} |->
                     w.types[CHOOSE i \in rows : SubSeq(node, 1, Len(node) - 1) = row(i)]
                         [node[Len(node)]]])

\* The billing counter goes into every answer of a deployment that reports it.
CountAt == <<"nonprofit_check_count">>
Counted(w, nodes, count) ==
    IF ~w.reports_count THEN nodes
    ELSE [node \in DOMAIN nodes \cup {CountAt} |->
            IF node = CountAt THEN Of("number", ToString(count)) ELSE nodes[node]]

SingleNodes(w) ==
    Under(<<>>, w.envelope) @@ (<<"errors">> :> Null) @@ RecordNodes(w, <<"data">>, w.subject)

SingleResponse(w, count) == Counted(w, SingleNodes(w), count)

\* One record for each EIN, in an order of the deployment's own; or one for
\* every entry.
Members(w, eins) ==
    IF w.repeats THEN SelectSeq(eins, LAMBDA ein : ein \in KnownEins)
    ELSE SetToSeq(ToSet(eins) \cap KnownEins)

ErrorNodes(w, eins) ==
    CASE ToSet(eins) \subseteq KnownEins -> <<"errors">> :> Null
      [] ~(ToSet(eins) \subseteq KnownEins) /\ w.misses = "text" ->
            <<"errors">> :> Of("text", "")
      [] ~(ToSet(eins) \subseteq KnownEins) /\ w.misses = "details" ->
            LET detail == <<"errors", "#1">>
            IN  (<<"errors">> :> Of("array", "")) @@ (detail :> Of("object", ""))
                @@ (Append(detail, "reason") :> Of("text", ""))
                @@ (Append(detail, "eins") :> Of("array", ""))
                @@ (detail \o <<"eins", "#1">> :> Of("digits:9", MISSING_EIN))

BulkNodes(w, eins) ==
    LET at(i) == RecordNodes(w, <<"data", Element[i]>>,
                             IF Members(w, eins)[i] = EIN THEN w.bulk_subject ELSE w.other)
        all(f, i) == f @@ at(i)
    IN  FoldLeft(all, Under(<<>>, w.envelope) @@ ErrorNodes(w, eins)
                      @@ (<<"data">> :> Of("array", "")),
                 [i \in 1 .. Len(Members(w, eins)) |-> i])

BulkResponse(w, eins, count) == Counted(w, BulkNodes(w, eins), count)

(***************************************************************************)
(* A call of the SDK: how many attempts it makes, whether the last one is  *)
(* answered, and how many of the lost ones were billed all the same        *)
(***************************************************************************)

Undisturbed == [attempts |-> 1, answered |-> TRUE, lost |-> 0]

\* An answered call lost the answers before its last, and one that fails all of
\* them; each of the lost may have been billed or not.
Calls(maxRetries) ==
    LET answers(call) == IF call.answered THEN 1 ELSE 0
        disturbed == {call \in [attempts : 1 .. maxRetries + 1, answered : BOOLEAN,
                                lost : 0 .. maxRetries + 1] :
                        /\ call.lost + answers(call) <= call.attempts
                        /\ ~call.answered => call.attempts = maxRetries + 1}
    IN  {Undisturbed} \cup (IF disturbances < MaxDisturbances THEN disturbed ELSE {})

Disturbed(call) == IF call = Undisturbed THEN 0 ELSE 1

Charged(call, eins) == counter + Billable(eins) * (call.lost + IF call.answered THEN 1 ELSE 0)

\* The effect of a call on the deployment's counter and on the disturbances.
Sent(call, eins) ==
    /\ counter' = Charged(call, eins)
    /\ disturbances' = disturbances + Disturbed(call)
    /\ UNCHANGED world

-----------------------------------------------------------------------------
(* record_baseline.py                                                      *)

BulkAttempts == <<MissBatch, DuplicateProbe>>

NotRun == -2   \* an exit status that is not there yet

Ending(recorded, status) == [recorded EXCEPT !.pc = "done", !.exit = status]

RecorderStarts ==
    /\ recorder.pc = "start"
    /\ recorder' = IF /\ recorder.settings.key
                      /\ recorder.settings.target # "other"
                   THEN [recorder EXCEPT !.pc = "single"]
                   ELSE Ending(recorder, 2)
    /\ UNCHANGED <<world, counter, disturbances, disk, runner>>

RecordSingle ==
    /\ recorder.pc = "single"
    /\ \E call \in Calls(2) :
        /\ Sent(call, <<EIN>>)
        /\ recorder' = [recorder EXCEPT
                !.pc = "bulk",
                !.single = IF call.answered
                           THEN SignatureOf(SingleResponse(world, Charged(call, <<EIN>>)))
                           ELSE Unrecorded]
    /\ UNCHANGED <<disk, runner>>

Refused(eins) == world.allowlisted /\ ~(ToSet(eins) \subseteq KnownEins)

\* The next batch in the order the smoke run keeps one, until one is recorded.
RecordBulk ==
    /\ recorder.pc = "bulk"
    /\ recorder.attempt <= Len(BulkAttempts)
    /\ LET eins == BulkAttempts[recorder.attempt]
       IN  \E call \in Calls(2) :
            /\ Sent(call, eins)
            /\ recorder' =
                IF call.answered /\ ~Refused(eins)
                THEN [recorder EXCEPT !.pc = "decide",
                        !.bulk = SignatureOf(BulkResponse(world, eins, Charged(call, eins)))]
                ELSE [recorder EXCEPT !.attempt = @ + 1,
                        !.pc = IF recorder.attempt = Len(BulkAttempts) THEN "decide" ELSE @]
    /\ UNCHANGED <<disk, runner>>

\* The file is read after everything was sent and paid for; what is not JSON
\* raises there.  Opening it for writing empties it.
Decide ==
    /\ recorder.pc = "decide"
    /\ IF \/ recorder.single = Unrecorded /\ recorder.bulk = Unrecorded
          \/ disk.state = "broken"
       THEN recorder' = Ending(recorder, 1) /\ UNCHANGED disk
       ELSE IF recorder.settings.dry_run
       THEN recorder' = Ending(recorder, 0) /\ UNCHANGED disk
       ELSE /\ recorder' = [recorder EXCEPT !.pc = "writing", !.existing = disk]
            /\ disk' = [state |-> "broken"]
    /\ UNCHANGED <<world, counter, disturbances, runner>>

\* Mutant: what could not be recorded is written as nothing.
HalfOverwriting(kind) == recorder[kind]

\* A half that could not be recorded keeps what was on disk.
Half(kind) ==
    IF recorder[kind] # Unrecorded THEN recorder[kind]
    ELSE IF Readable(recorder.existing) THEN recorder.existing[kind] ELSE Unrecorded

Write ==
    /\ recorder.pc = "writing"
    /\ disk' = [state |-> "recorded", single |-> Half("single"), bulk |-> Half("bulk"),
                target |-> recorder.settings.target]
    /\ recorder' = Ending(recorder, 0)
    /\ UNCHANGED <<world, counter, disturbances, runner>>

StopsWhileWriting ==
    /\ recorder.pc = "writing"
    /\ disturbances < MaxDisturbances
    /\ disturbances' = disturbances + 1
    /\ recorder' = Ending(recorder, 1)
    /\ UNCHANGED <<world, counter, disk, runner>>

-----------------------------------------------------------------------------
(* smoke_live.py: the plan                                                 *)

Check(name, cost) == [name |-> name, cost |-> cost]

PlanBeforeBulk == <<
    Check("configuration_and_redaction", 0),
    Check("configuration_is_validated", 0),
    Check("exported_surface", 0),
    Check("error_taxonomy", 0),
    Check("no_derived_verdicts", 0),
    Check("malformed_input_sends_nothing", 0),
    Check("EIN_helpers", 0),
    Check("bulk_batch_limit_is_local", 0),
    Check("authentication_is_enforced", 0),
    Check("rejected_keys_are_not_retried", 0),
    Check("single_check", 1),
    Check("envelope_shape", 0),
    Check("check_count_is_a_number", 0),
    Check("model_field_coverage", 0),
    Check("identity_fields", 0),
    Check("name_fields", 0),
    Check("address_fields", 0),
    Check("EIN_normalization_end_to_end", 1),
    Check("not_found", 1),
    Check("Publication_78_projection", 0),
    Check("BMF_projection", 0),
    Check("revocation_projection", 0),
    Check("OFAC_projection", 0),
    Check("OFAC_stays_four_valued", 0),
    Check("cross_source_conflict", 0),
    Check("foundation_classification", 0),
    Check("filing_and_exemption_metadata", 0),
    Check("data_freshness", 0),
    Check("raw_envelope_is_unmodified", 0),
    Check("no_wire_field_is_dropped", 0)>>

PlanFromBulk == <<
    Check("bulk_with_a_miss", Len(MissBatch)),
    Check("bulk_order_and_duplicates", Len(DuplicateProbe)),
    Check("bulk_and_single_agree", 0),
    Check("single_response_types", 0),
    Check("single_response_fields", 0),
    Check("bulk_response_types", 0),
    Check("bulk_response_fields", 0),
    Check("single_response_vs_recording", 0),
    Check("bulk_response_vs_recording", 0),
    Check("a_repeat_check_is_stable", 1),
    Check("documented_endpoints_and_methods", 0),
    Check("credentials_stay_off_the_wire", 0),
    Check("timeout_and_cancellation", 2),
    Check("rate_limit", RATE_LIMIT_ATTEMPTS)>>

Plan == PlanBeforeBulk \o PlanFromBulk

-----------------------------------------------------------------------------
(* smoke_live.py: the runner                                               *)

NoResult == [raw |-> <<>>]
Bulk(r) == r.bulk # <<>>

\* extra and opening are history for the properties: what attempts after the
\* first may have been billed, and the counter when the run began.
NewRunner(key) ==
    [key |-> key, step |-> 0, results |-> <<>>, spent |-> 0, sent |-> 0, log |-> {},
     start |-> None, end |-> None, single |-> NoResult, bulk |-> <<>>,
     free_tier |-> FALSE, exit |-> NotRun, extra |-> 0, opening |-> 0]

Current == Plan[runner.step]
At(name) == runner.step \in DOMAIN Plan /\ Current.name = name /\ runner.exit = NotRun

\* Mutant: a check that failed costs nothing.
ConcludedFreeOnFailure(r, status) ==
    [r EXCEPT !.step = @ + 1, !.spent = IF status = "fail" THEN @ ELSE @ + Current.cost,
              !.results = Append(@, status)]

\* One check is over: its cost stands whatever came of it.
Concluded(r, status) ==
    [r EXCEPT !.step = @ + 1, !.spent = @ + Current.cost, !.results = Append(@, status)]

\* Every attempt goes through the recording transport; attempts beyond the
\* first are not in any check's cost.
Logged(r, method, call, eins, spelling) ==
    [r EXCEPT !.sent = @ + call.attempts,
              !.log = @ \cup {[method |-> method, ein |-> NormalizeEin(spelling)]},
              !.extra = @ + Billable(eins) * (call.attempts - 1)]

\* Mutant: the count starts at zero.
ObservedFromZero(r, count) ==
    IF ~world.reports_count THEN r
    ELSE [r EXCEPT !.start = 0, !.end = count]

Observed(r, count) ==
    IF ~world.reports_count THEN r
    ELSE [r EXCEPT !.start = IF @ = None THEN count ELSE @, !.end = count]

\* The first bulk response of the run is the one later checks read.
Captured(r, response) == IF Bulk(r) THEN r ELSE [r EXCEPT !.bulk = response]

HasRecord(r) == r.single # NoResult

\* main: nothing starts without a key.
Begin ==
    /\ recorder.pc = "done"
    /\ runner.step = 0 /\ runner.exit = NotRun
    /\ runner' = IF runner.key THEN [runner EXCEPT !.step = 1, !.opening = counter]
                 ELSE [runner EXCEPT !.exit = 2]
    /\ UNCHANGED <<world, counter, disturbances, disk, recorder>>

\* A check of the record, of the raw response, or of the bulk response fails
\* when there is none to read.
FromRecord(status) == IF HasRecord(runner) THEN status ELSE "fail"
FromBulk(status) == IF Bulk(runner) THEN status ELSE "fail"

WellAddressed(request) ==
    /\ request.method \in {"GET", "POST"}
    /\ request.ein = NormalizeEin("plain")
WireStatus == Verdict(runner.log = {} \/ \E r \in runner.log : ~WellAddressed(r), FALSE)

\* Three checks look only at what the package exports, which is the same in
\* every run, and two note which fields of the record have a value.
Introspection == {"configuration_and_redaction", "exported_surface", "no_derived_verdicts"}
Notes == {"model_field_coverage", "address_fields"}

FreeStatus(name) ==
    LET result == runner.single
        record == runner.single.nonprofit
    IN  CASE name \in Introspection -> "pass"
          [] name \in Notes -> FromRecord("pass")
          [] name = "configuration_is_validated" -> ConfigurationIsValidated
          [] name = "error_taxonomy" -> ErrorTaxonomy
          [] name = "malformed_input_sends_nothing" -> MalformedInputSendsNothing
          [] name = "EIN_helpers" -> EinHelpers
          [] name = "bulk_batch_limit_is_local" -> BulkBatchLimitIsLocal
          [] name = "envelope_shape" -> FromRecord(EnvelopeShape(result))
          [] name = "check_count_is_a_number" -> FromRecord(CheckCountIsANumber(result))
          [] name = "identity_fields" -> FromRecord(IdentityFields(record))
          [] name = "name_fields" -> FromRecord(NameFields(record))
          [] name = "Publication_78_projection" ->
                FromRecord(SourceProjection(result, Pub78Fields, "warn"))
          [] name = "BMF_projection" -> FromRecord(SourceProjection(result, BmfFields, "warn"))
          [] name = "revocation_projection" ->
                FromRecord(SourceProjection(result, AroeFields, "pass"))
          [] name = "OFAC_projection" -> FromRecord(SourceProjection(result, OfacFields, "warn"))
          [] name = "OFAC_stays_four_valued" -> FromRecord(OfacStaysFourValued(record))
          [] name = "cross_source_conflict" -> FromRecord(CrossSourceConflict(record))
          [] name = "foundation_classification" -> FromRecord(FoundationClassification(record))
          [] name = "filing_and_exemption_metadata" ->
                FromRecord(FilingAndExemptionMetadata(record))
          [] name = "data_freshness" -> FromRecord(DataFreshness(record))
          [] name = "raw_envelope_is_unmodified" -> FromRecord(RawEnvelopeIsUnmodified(result))
          [] name = "no_wire_field_is_dropped" -> FromRecord(NoWireFieldIsDropped(result))
          [] name = "bulk_and_single_agree" ->
                FromRecord(FromBulk(BulkAndSingleAgree(result, runner.bulk)))
          [] name = "single_response_types" -> FromRecord(Types("single", result.raw))
          [] name = "single_response_fields" -> FromRecord(Fields("single", result.raw))
          [] name = "bulk_response_types" -> FromBulk(Types("bulk", runner.bulk))
          [] name = "bulk_response_fields" -> FromBulk(Fields("bulk", runner.bulk))
          [] name = "single_response_vs_recording" ->
                FromRecord(Recording("single", result.raw, disk))
          [] name = "bulk_response_vs_recording" -> FromBulk(Recording("bulk", runner.bulk, disk))
          [] OTHER -> WireStatus

Sending == {"authentication_is_enforced", "rejected_keys_are_not_retried", "single_check",
            "EIN_normalization_end_to_end", "not_found", "bulk_with_a_miss",
            "bulk_order_and_duplicates", "a_repeat_check_is_stable",
            "timeout_and_cancellation", "rate_limit"}

RunFree ==
    /\ runner.step \in DOMAIN Plan /\ runner.exit = NotRun
    /\ Current.name \notin Sending
    /\ runner' = Concluded(runner, FreeStatus(Current.name))
    /\ UNCHANGED <<world, counter, disturbances, disk, recorder>>

\* Sent with a made-up key, through transports of their own: neither logged
\* nor billed.
AuthenticationIsEnforced ==
    /\ At("authentication_is_enforced")
    /\ \E call \in Calls(0) :
        /\ disturbances' = disturbances + Disturbed(call)
        /\ runner' = Concluded(runner,
                Verdict(~call.answered,
                        Policy!ErrorFromStatus(world.wrong_key) # "Authentication"))
    /\ UNCHANGED <<world, counter, disk, recorder>>

RejectedKeysAreNotRetried ==
    LET retry == [retryable_statuses |-> {401, 403, 404, 429, 500}]
        retried == Policy!IsRetryableStatus(world.wrong_key, retry)
    IN  /\ At("rejected_keys_are_not_retried")
        /\ \E call \in Calls(2) :
            LET attempts == IF retried THEN 3 ELSE call.attempts
            IN  /\ disturbances' = disturbances + Disturbed(call)
                /\ runner' = Concluded(runner,
                        Verdict(attempts # 1,
                                call.answered /\ world.wrong_key \notin {401, 403, 404}))
        /\ UNCHANGED <<world, counter, disk, recorder>>

\* The response is kept only when it is the record that was asked for.
Kept(r, result) ==
    IF Get(result.nonprofit, "ein").id = EIN
    THEN Concluded([r EXCEPT !.single = result], "pass")
    ELSE Concluded(r, "fail")

SingleCheck ==
    /\ At("single_check")
    /\ \E call \in Calls(2) :
        LET count == Charged(call, <<EIN>>)
            sent == Logged(runner, "GET", call, <<EIN>>, "plain")
        IN  /\ Sent(call, <<EIN>>)
            /\ runner' = IF ~call.answered THEN Concluded(sent, "fail")
                         ELSE Kept(Observed(sent, count), ShapeSingle(SingleResponse(world, count)))
    /\ UNCHANGED <<disk, recorder>>

NormalizationEndToEnd ==
    /\ At("EIN_normalization_end_to_end")
    /\ \E call \in Calls(2) :
        LET sent == Logged(runner, "GET", call, <<EIN>>, "padded_and_hyphenated")
            count == Charged(call, <<EIN>>)
            record == ShapeSingle(SingleResponse(world, count)).nonprofit
        IN  /\ Sent(call, <<EIN>>)
            /\ runner' =
                IF ~call.answered THEN Concluded(sent, "fail")
                ELSE Concluded(Observed(sent, count), Verdict(Get(record, "ein").id # EIN, FALSE))
    /\ UNCHANGED <<disk, recorder>>

\* An answer lost on the way to the 404 counts against the check: it counts
\* every request, not only those after the 404.
NotFound ==
    /\ At("not_found")
    /\ \E call \in Calls(2) :
        LET sent == Logged(runner, "GET", call, <<MISSING_EIN>>, "plain")
        IN  /\ Sent(call, <<MISSING_EIN>>)
            /\ runner' =
                IF ~call.answered THEN Concluded(sent, "fail")
                ELSE IF world.missing = 404
                THEN Concluded(sent, Verdict(call.attempts # 1, FALSE))
                ELSE Concluded(Observed(sent, Charged(call, <<MISSING_EIN>>)), "warn")
    /\ UNCHANGED <<disk, recorder>>

BulkWithAMiss ==
    /\ At("bulk_with_a_miss")
    /\ \E call \in Calls(2) :
        LET sent == Logged(runner, "POST", call, MissBatch, "plain")
            count == Charged(call, MissBatch)
            response == BulkResponse(world, MissBatch, count)
        IN  /\ Sent(call, MissBatch)
            /\ runner' =
                IF ~call.answered THEN Concluded(sent, "fail")
                ELSE IF Refused(MissBatch)
                THEN Concluded([sent EXCEPT !.free_tier = TRUE], "pass")
                ELSE Concluded(Captured(Observed(sent, count), response),
                               Verdict(Organizations(response) = {},
                                       world.misses # "details"))
    /\ UNCHANGED <<disk, recorder>>

BulkOrderAndDuplicates ==
    /\ At("bulk_order_and_duplicates")
    /\ \E call \in Calls(2) :
        LET sent == Logged(runner, "POST", call, DuplicateProbe, "plain")
            count == Charged(call, DuplicateProbe)
            response == BulkResponse(world, DuplicateProbe, count)
        IN  /\ Sent(call, DuplicateProbe)
            /\ runner' =
                IF ~call.answered THEN Concluded(sent, "fail")
                ELSE Concluded(Captured(Observed(sent, count), response),
                               Verdict(~IsInjective(Members(world, DuplicateProbe)), FALSE))
    /\ UNCHANGED <<disk, recorder>>

RepeatCheck ==
    /\ At("a_repeat_check_is_stable")
    /\ IF ~HasRecord(runner)
       THEN /\ runner' = Concluded(runner, "fail")
            /\ UNCHANGED <<world, counter, disturbances>>
       ELSE \E call \in Calls(2) :
            LET sent == Logged(runner, "GET", call, <<EIN>>, "plain")
                count == Charged(call, <<EIN>>)
                second == ShapeSingle(SingleResponse(world, count))
            IN  /\ Sent(call, <<EIN>>)
                /\ runner' =
                    IF ~call.answered THEN Concluded(sent, "fail")
                    ELSE Concluded(Observed(sent, count),
                                   Repeated(runner.single.nonprofit, second.nonprofit))
    /\ UNCHANGED <<disk, recorder>>

\* One call starved of time and one cancelled as it starts: each may have been
\* billed, and the second goes through a client the log does not see.  An
\* answer that is an error, or another exception, fails the check.
TimeoutAndCancellation ==
    /\ At("timeout_and_cancellation")
    /\ \E status \in {"pass", "warn", "fail"}, billed \in 0 .. 2 :
        /\ status = "fail" => disturbances < MaxDisturbances
        /\ disturbances' = disturbances + IF status = "fail" THEN 1 ELSE 0
        /\ counter' = counter + billed
        /\ runner' = Concluded([runner EXCEPT !.sent = @ + 1], status)
    /\ UNCHANGED <<world, disk, recorder>>

\* Calls without retries until one is refused with 429, or the ceiling.
RateLimit ==
    LET served == IF world.burst \in 1 .. RATE_LIMIT_ATTEMPTS THEN world.burst - 1
                  ELSE RATE_LIMIT_ATTEMPTS
        refused == served < RATE_LIMIT_ATTEMPTS
        after(n, last) ==
            [Observed(runner, counter + n) EXCEPT !.sent = runner.sent + n + last]
    IN  /\ At("rate_limit")
        /\ \/ /\ counter' = counter + served
              /\ runner' = Concluded(after(served, IF refused THEN 1 ELSE 0),
                                     Verdict(FALSE, ~refused))
              /\ UNCHANGED disturbances
           \/ /\ disturbances < MaxDisturbances
              /\ disturbances' = disturbances + 1
              /\ \E n \in 0 .. served - 1, billed \in {0, 1} :
                    /\ counter' = counter + n + billed
                    /\ runner' = Concluded(IF n = 0 THEN [runner EXCEPT !.sent = @ + 1]
                                           ELSE after(n, 1), "fail")
        /\ UNCHANGED <<world, disk, recorder>>

\* KeyboardInterrupt: what was sent was paid for, and the check that was
\* running is neither in the results nor in what the run counts as spent.
Interrupt ==
    /\ runner.step \in DOMAIN Plan /\ runner.exit = NotRun
    /\ disturbances < MaxDisturbances
    /\ disturbances' = disturbances + 1
    /\ \E paid \in 0 .. Current.cost : counter' = counter + paid
    /\ runner' = [runner EXCEPT !.exit = 130]
    /\ UNCHANGED <<world, disk, recorder>>

\* The report is printed and the process exits.
Report ==
    /\ runner.step = Len(Plan) + 1 /\ runner.exit = NotRun
    /\ runner' = [runner EXCEPT !.exit =
            IF \E i \in DOMAIN runner.results : runner.results[i] = "fail" THEN 1 ELSE 0]
    /\ UNCHANGED <<world, counter, disturbances, disk, recorder>>

NextSends ==
    \/ recorder.pc \in {"single", "bulk"}
    \/ runner.step \in DOMAIN Plan /\ Current.name \in Sending

\* The deployment starts answering differently, seen by the next call only.
Moves ==
    /\ NextSends /\ runner.exit = NotRun
    /\ disturbances < MaxDisturbances
    /\ disturbances' = disturbances + 1
    /\ world' \in Later \ {world}
    /\ UNCHANGED <<counter, disk, recorder, runner>>

-----------------------------------------------------------------------------
Init ==
    /\ world \in Worlds
    /\ counter = FirstCount
    /\ disturbances = 0
    /\ disk \in Recordings
    /\ \E settings \in Settings :
        recorder = [pc |-> "start", settings |-> settings, single |-> Unrecorded,
                    bulk |-> Unrecorded, attempt |-> 1, existing |-> [state |-> "absent"],
                    exit |-> NotRun]
    /\ runner = NewRunner(recorder.settings.key)

Recorder == RecorderStarts \/ RecordSingle \/ RecordBulk \/ Decide \/ Write \/ StopsWhileWriting

Smoke ==
    \/ Begin \/ RunFree \/ AuthenticationIsEnforced \/ RejectedKeysAreNotRetried
    \/ SingleCheck \/ NormalizationEndToEnd \/ NotFound \/ BulkWithAMiss
    \/ BulkOrderAndDuplicates \/ RepeatCheck \/ TimeoutAndCancellation \/ RateLimit
    \/ Interrupt \/ Report

Next == Recorder \/ Smoke \/ Moves

Spec == Init /\ [][Next]_vars

-----------------------------------------------------------------------------
(* Properties                                                              *)

Failed == {Plan[i].name : i \in {i \in DOMAIN runner.results : runner.results[i] = "fail"}}

\* Node by node, against the contract: the field is predicted, and its value
\* has a form the field may have.
Conforms(kind, response) ==
    LET expected == ComposeExpected(Contract, kind)
    IN  \A node \in DOMAIN response :
            /\ Shape(node) \in DOMAIN expected
            /\ Permits(expected[Shape(node)], response[node].token)

\* A JSON document: its paths are sequences of steps, and there is one null.
HasPaths(response) == \A node \in DOMAIN response : node \in Seq(ToSet(node))
IsDocument(response) ==
    /\ HasPaths(response)
    /\ \A node \in DOMAIN response :
          /\ response[node].token \in JsonTokens
          /\ response[node].token = "null" => IsNull(response[node])

\* What is documented as a list is a list where it is sent at all.
ListsAreLists(kind, response) ==
    \A node \in DOMAIN response :
        Shape(node) \in ListPaths(kind) => response[node].token \in {"array", "null"}

BulkSeen(w) == BulkResponse(w, IF w.allowlisted THEN DuplicateProbe ELSE MissBatch, 0)

\* A deployment that keeps what the SDK documents: both responses as the
\* contract has them, a whole number for a code, the organization that was asked
\* for and under one name, codes beside their labels, a ruling date that is a
\* number, one record per duplicate, 401 or 403 for a wrong key.
BehavesAsDocumented(w) ==
    LET single == SingleResponse(w, 0)
        record == ShapeSingle(single).nonprofit
    IN  /\ \A kind \in {"single", "bulk"} :
            LET response == IF kind = "single" THEN single ELSE BulkSeen(w)
            IN  /\ IsDocument(response) /\ <<"data">> \in DOMAIN response
                /\ Conforms(kind, response) /\ ListsAreLists(kind, response)
        /\ {<<"code">>, <<"message">>} \subseteq DOMAIN single /\ IsInt(single[<<"code">>])
        /\ Get(record, "ein") = Of("digits:9", EIN)
        /\ Get(record, "organization_name").token = "text"
        /\ \E org \in Organizations(BulkSeen(w)) : Get(org, "ein") = Get(record, "ein")
        /\ \A org \in Organizations(BulkSeen(w)) :
            Get(org, "ein") = Get(record, "ein") =>
                Get(org, "organization_name") = Get(record, "organization_name")
        /\ \A description \in DOMAIN CodeOf : IsNull(Get(record, description))
                                              \/ CodeOf[description] \in DOMAIN record
        /\ \A date \in {"ruling_year", "ruling_month"} : ~NotAnInteger(Get(record, date))
        /\ w.reports_count /\ ~w.repeats /\ w.wrong_key \in {401, 403}

\* The list of deductibility rows starts with a row, not with a null.
FirstRowIsARow(w) ==
    LET single == SingleResponse(w, 0)
        first == Append(<<"data", "organization_types">>, Element[1])
    IN  first \in DOMAIN single => single[first].token = "object"

\* Nothing happened between the recording, which was written, and the check.
Undisturbing == disturbances = 0 /\ recorder.exit = 0 /\ ~recorder.settings.dry_run

\* A deployment that keeps its promises, did not move, lost nothing and was
\* recorded just before, fails no check, so long as its first deductibility row
\* is not null: a red run of any other means something moved.  (The contract
\* permits a null there, and describe_pub78 raises on it.)  The signatures,
\* the excuses for nulls and empty parents, the batch the recorder picks and
\* the order of the plan all have to agree for it.
NoFalseAlarm ==
    Undisturbing /\ BehavesAsDocumented(world) /\ FirstRowIsARow(world) => Failed = {}

\* A run that exits 0 saw a record of the subject that was asked for and a bulk
\* response, every node of both in a form the contract permits, the same name
\* from both endpoints, and no value in another form than the recording has.
NothingSlipsThrough ==
    runner.exit = 0 =>
        /\ HasRecord(runner) /\ Bulk(runner)
        /\ Conforms("single", runner.single.raw) /\ Conforms("bulk", runner.bulk)
        /\ Get(runner.single.nonprofit, "ein").id = EIN
        /\ \E org \in Organizations(runner.bulk) :
            Get(org, "organization_name") = Get(runner.single.nonprofit, "organization_name")
        /\ \A node \in DOMAIN runner.single.raw :
            LET then == disk.single[Shape(node)] \ {"null"}
                now == runner.single.raw[node].token
            IN  Shape(node) \in DOMAIN disk.single /\ Cardinality(then) = 1 /\ now # "null"
                    => now \in then

\* What a run is billed never exceeds the cost it declared for the checks it
\* ran, but for attempts the SDK sent again and a check that was interrupted:
\* the cost printed first is not a ceiling once an answer is lost.
BilledWithinBudget ==
    runner.step > 0 =>
        counter - runner.opening <=
            runner.spent + runner.extra + (IF runner.exit = 130 THEN Current.cost ELSE 0)

\* "+delta actually billed" in the summary never overstates the bill, and
\* misses the first billed check whenever that was the first count seen.
DeltaNeverOverstates ==
    runner.end # None => runner.end - runner.start <= counter - runner.opening

\* A recorder that could not record one half leaves the half on disk as it
\* was; only a stop in the middle of the write loses a recording, and any
\* other unsuccessful end leaves the file alone.
RecordingSurvives ==
    recorder.pc = "done" =>
        \A kind \in {"single", "bulk"} :
            /\ recorder.exit = 0 /\ Recorded(recorder.existing, kind) =>
                  Recorded(disk, kind) /\ disk[kind] \in {recorder.existing[kind], recorder[kind]}
            /\ disk.state = "broken" => disturbances > 0 \/ disk \in Recordings

=============================================================================
