----------------------------- MODULE LiveChecks -----------------------------
(***************************************************************************)
(* The checks of scripts/smoke_live.py that send nothing: what each makes  *)
(* of the responses, the recording and the package already at hand.  Every *)
(* operator gives the status of its check: "pass", "warn", or "fail" where *)
(* the code raises.  LiveRuns has the checks that send, and the runner.    *)
(***************************************************************************)
EXTENDS ClientSurface

CONSTANT Contract   \* response_contract.json, on the fields of the model

\* What the contract documents as a list.
ListPaths(kind) ==
    {<<"errors">>, <<"errors", "[]", "eins">>, RecordPath(kind) \o <<"organization_types">>}
    \cup (IF kind = "single" THEN {} ELSE {<<"data">>})

\* What response_contract.json says: of an answer it requires the data and the
\* elements of lists, and the fields that the checks below read have the forms
\* they ask for.
ContractAssumption ==
    LET expected == ComposeExpected(Contract, "single")
        permitted(field) == IF <<"data", field>> \in DOMAIN expected
                            THEN expected[<<"data", field>>] ELSE {}
    IN  /\ \A kind \in {"single", "bulk"} :
            /\ ListPaths(kind) \subseteq DOMAIN ComposeExpected(Contract, kind)
            /\ RequiredPathsOf(Contract, kind) \subseteq
                    {<<"data">>} \cup {Append(path, "[]") : path \in ListPaths(kind)}
        /\ expected[<<"code">>] = {"number"} /\ expected[<<"data">>] = {"null", "object"}
        /\ \A field \in {"organization_name", "organization_name_aka",
                         "pub78_organization_name", "bmf_organization_name"} :
              permitted(field) \subseteq {"string", "null"}
        /\ "boolean" \notin permitted("ofac_status")
        /\ permitted("irs_bmf_pub78_conflict") \subseteq {"boolean", "null"}
        /\ \A field \in {"filing_req_code", "exempt_status_code", "group_exemption"} :
              permitted(field) \subseteq {"string", "null"}

ASSUME ContractIsAsPublished == ContractAssumption

EIN == "e1"
BULK_EINS == <<"e1", "e2">>
MISSING_EIN == "e9"
BULK_PROBE_LIMIT == 3
RATE_LIMIT_ATTEMPTS == 10
MaxBulkEins == 50

Probe == SubSeq(BULK_EINS, 1, IF Len(BULK_EINS) < BULK_PROBE_LIMIT
                              THEN Len(BULK_EINS) ELSE BULK_PROBE_LIMIT)
MissBatch == Append(Probe, MISSING_EIN)
DuplicateProbe == <<BULK_EINS[2], BULK_EINS[1], BULK_EINS[2]>>

Verdict(raised, warned) == IF raised THEN "fail" ELSE IF warned THEN "warn" ELSE "pass"

Get(record, field) == IF field \in DOMAIN record THEN record[field] ELSE Null
IsText(value) == value.token \in StringTokens \cup DigitTokens

\* isinstance(value, int): a boolean is one, a number with a fraction is not.
IsInt(value) ==
    value.token = "boolean" \/ (value.token = "number" /\ value.id # "float")

-----------------------------------------------------------------------------
(* The package itself                                                      *)

UnusableConfigurations ==
    LET keyed == [Omitted EXCEPT !.api_key = "key"]
    IN  {Omitted,
         [Omitted EXCEPT !.api_key = "blank"],
         [Omitted EXCEPT !.api_key = "not_a_string"],
         [keyed EXCEPT !.base_url = "not a url"],
         [keyed EXCEPT !.base_url = "ftp://host"],
         [keyed EXCEPT !.timeout = "zero"],
         [keyed EXCEPT !.timeout = "infinite"],
         [keyed EXCEPT !.retry = Policy!Mapping([max_retries |-> -1])],
         [keyed EXCEPT !.environment = "staging"]}

ConfigurationIsValidated ==
    LET defaults == ResolveConfig([Omitted EXCEPT !.api_key = "key"])
        explicit == ResolveConfig([Omitted EXCEPT !.api_key = "key",
                                                  !.base_url = "https://host"])
    IN  Verdict(\/ \E options \in UnusableConfigurations :
                      ResolveConfig(options) # ConfigurationError
                \/ ConfigurationError \in {defaults, explicit}
                \/ defaults.timeout # "default"
                \/ defaults.base_url # "production"
                \/ defaults.environment # "production"
                \/ explicit.environment # "none", FALSE)

ErrorTaxonomy ==
    Verdict(\/ \E class \in ApiErrorClasses \ {"Api"} : OriginOf(class) # "api"
            \/ \E class \in LocalErrorClasses : OriginOf(class) # "local"
            \/ \E a, b \in ApiErrorClasses \cup LocalErrorClasses :
                  a # b /\ CategoryOf(a) = CategoryOf(b), FALSE)

\* What normalize_ein makes of a value: its nine digits, or an issue.
Malformed == "malformed"
NormalizeEin(value) ==
    IF value \in {"plain", "hyphenated", "padded_and_hyphenated"} THEN "digits" ELSE Malformed
IssuesOf(values) == {i \in DOMAIN values : NormalizeEin(values[i]) = Malformed}

\* A batch passes local validation when it is a list, is not empty, holds no
\* malformed entry and is no longer than the limit, after duplicates are
\* collapsed if they are to be.
ReachesTransport(issues, size, unique, dedupe) ==
    /\ issues = {}
    /\ size > 0
    /\ (IF dedupe THEN unique ELSE size) <= MaxBulkEins

MalformedInputSendsNothing ==
    LET malformed == <<"8 digits", "words", "empty", "none", "dotted", "number">>
    IN  Verdict(\/ \E i \in DOMAIN malformed : NormalizeEin(malformed[i]) # Malformed
                \/ ReachesTransport({}, 0, 0, FALSE)
                \/ ReachesTransport(IssuesOf(<<"plain", "words">>), 2, 2, FALSE), FALSE)

EinHelpers ==
    Verdict(\/ NormalizeEin("padded_and_hyphenated") # NormalizeEin("plain")
            \/ \E value \in {"8 digits", "none", "number"} : NormalizeEin(value) # Malformed
            \/ IssuesOf(<<"hyphenated", "words", "empty", "plain">>) # {2, 3}, FALSE)

BulkBatchLimitIsLocal ==
    Verdict(\/ ~ReachesTransport({}, MaxBulkEins, MaxBulkEins, FALSE)
            \/ ReachesTransport({}, MaxBulkEins + 1, MaxBulkEins + 1, FALSE)
            \/ ~ReachesTransport({}, MaxBulkEins + 10, 10, TRUE), FALSE)

-----------------------------------------------------------------------------
(* The envelope and the record of the single check                         *)

\* (The count is a whole number on every deployment here, so that it is an int
\* when it is read.)
EnvelopeShape(result) ==
    LET envelope == MembersAt(result.raw, <<>>)
        reported == {"timeTaken", "nonprofit_check_count"}
        mistyped == {field \in reported \cap DOMAIN envelope :
                        ~IsNull(envelope[field]) /\ NumberOf(envelope, field) = NoNumber}
    IN  Verdict(\/ ~({"code", "message", "data"} \subseteq DOMAIN envelope)
                \/ ~IsInt(Get(envelope, "code")),
                ~(reported \subseteq DOMAIN envelope) \/ mistyped # {})

CheckCountIsANumber(result) ==
    Verdict(Get(MembersAt(result.raw, <<>>), "nonprofit_check_count").token # "number", FALSE)

IdentityFields(record) ==
    Verdict(\/ Get(record, "ein").token # "digits:9"
            \/ ~IsText(Get(record, "organization_name"))
            \/ Get(record, "organization_name").token = "empty", FALSE)

NameFieldNames == {"organization_name", "organization_name_aka",
                   "pub78_organization_name", "bmf_organization_name"}
NameFields(record) ==
    Verdict(\E field \in NameFieldNames :
                LET name == Get(record, field) IN ~IsNull(name) /\ ~IsText(name), FALSE)

\* describe_pub78 asks the first of the deductibility rows for a member.  That
\* raises for a null row, and for anything but a list that Python takes as true.
Falsy == {Null, Of("empty", ""), Of("boolean", "false"), Of("number", "0")}
DescribePub78Raises(result) ==
    LET types == Get(result.nonprofit, "organization_types")
        members == MembersAt(result.raw, Append(RecordAt(result.raw), "organization_types"))
    IN  CASE types.token = "array" ->
                Element[1] \in DOMAIN members /\ members[Element[1]].token # "object"
          [] types.token = "object" -> DOMAIN members # {}
          [] OTHER -> types \notin Falsy

\* The descriptions of the other sources take every value as it comes.
DescribeRaises(result, mapping) == mapping = Pub78Fields /\ DescribePub78Raises(result)

SourceProjection(result, mapping, absent) ==
    LET record == result.nonprofit
        projected == Project(record, mapping)
        wire == {target \in DOMAIN mapping : mapping[target] \in DOMAIN record}
    IN  IF projected = NotReturned
        THEN Verdict(wire # {}, absent = "warn")
        ELSE Verdict(\/ DOMAIN projected # wire
                     \/ \E target \in wire : projected[target] # record[mapping[target]]
                     \/ DescribeRaises(result, mapping), FALSE)

OfacStaysFourValued(record) ==
    LET ofac == Project(record, OfacFields)
    IN  Verdict(ofac # NotReturned /\ ofac.status.token = "boolean", ofac = NotReturned)

CrossSourceConflict(record) ==
    Verdict(Get(record, "irs_bmf_pub78_conflict").token \notin {"null", "boolean"}, FALSE)

CodeOf == [foundation_code_description |-> "foundation_code",
           subsection_description |-> "bmf_subsection",
           foundation_type_description |-> "foundation_type_code"]
FoundationClassification(record) ==
    Verdict(\E description \in DOMAIN CodeOf :
                /\ ~IsNull(Get(record, description))
                /\ CodeOf[description] \notin DOMAIN record, FALSE)

\* int(str(value) or 0), of a ruling date that is not null, takes one run of
\* digits, whole numbers, the texts int() takes, and the empty string as zero.
NotAnInteger(value) ==
    /\ ~IsNull(value) /\ value # Of("empty", "") /\ value.token \notin OneGroup
    /\ ~(value.token = "number" /\ IsInt(value))
    /\ ~(value.token = "text" /\ value.id = "whole")
FilingAndExemptionMetadata(record) ==
    Verdict(\/ \E code \in {"filing_req_code", "exempt_status_code", "group_exemption"} :
                  Get(record, code).token \in {"array", "object"}
            \/ \E code \in {"ruling_year", "ruling_month"} : NotAnInteger(Get(record, code)),
            FALSE)

DateFields == {"report_date", "organization_info_last_modified", "most_recent_bmf",
               "most_recent_pub78", "revocation_date", "reinstatement_date"}
DataFreshness(record) ==
    LET given == {field \in DateFields : Get(record, field) \notin {Null, Of("empty", "")}}
        dated == {field \in given : record[field].token \in {"date", "date:iso"}}
    IN  Verdict(FALSE, \/ dated = {}
                       \/ dated # given
                       \/ \E field \in dated : record[field].id = "future")

RawEnvelopeIsUnmodified(result) ==
    Verdict(\/ result.nonprofit # MembersAt(result.raw, RecordAt(result.raw))
            \/ result.check_count # NumberOf(MembersAt(result.raw, <<>>),
                                             "nonprofit_check_count"), FALSE)

NoWireFieldIsDropped(result) ==
    LET wire == MembersAt(result.raw, RecordAt(result.raw))
    IN  Verdict(\E field \in DOMAIN wire : \/ field \notin DOMAIN result.nonprofit
                                           \/ result.nonprofit[field] # wire[field], FALSE)

-----------------------------------------------------------------------------
(* Bulk, and the two calls held against each other                         *)

Organizations(response) ==
    {MembersAt(response, <<"data", Element[i]>>) : i \in
        {i \in DOMAIN Element : /\ <<"data", Element[i]>> \in DOMAIN response
                                /\ response[<<"data", Element[i]>>].token = "object"}}

BulkAndSingleAgree(result, response) ==
    LET single == result.nonprofit
        twins == {org \in Organizations(response) : Get(org, "ein") = Get(single, "ein")}
        twin == CHOOSE org \in twins : TRUE
    IN  IF twins = {} THEN "fail"
        ELSE Verdict(Get(twin, "organization_name") # Get(single, "organization_name"),
                     DOMAIN twin # DOMAIN single)

\* Two calls for the same EIN: a different EIN is a failure, any field that
\* appeared, vanished or changed a warning.
Repeated(first, second) ==
    Verdict(\/ second = NoRecord
            \/ Get(second, "ein") # Get(first, "ein"), second # first)

-----------------------------------------------------------------------------
(* The contract and the recording                                          *)

Types(kind, response) ==
    Verdict(ContractDiff(ComposeExpected(Contract, kind), SignatureOf(response)) # {}, FALSE)

Fields(kind, response) ==
    LET diff == CoverageDiff(ComposeExpected(Contract, kind), SignatureOf(response),
                             RequiredPathsOf(Contract, kind))
    IN  Verdict(diff.added # {} \/ diff.removed # {}, FALSE)

\* The recording on disk: "absent", "broken" (not JSON), or its two halves,
\* each a signature or Unrecorded, and the deployment it says it is from.
Unrecorded == [path \in {} |-> {}]
Readable(disk) == disk.state = "recorded"
Recorded(disk, kind) == Readable(disk) /\ disk[kind] # Unrecorded

Recording(kind, response, disk) ==
    Verdict(\/ ~Recorded(disk, kind)
            \/ ~Quiet(BaselineDiff(disk[kind], SignatureOf(response))), FALSE)

=============================================================================
