---------------------------- MODULE MCLiveRuns ----------------------------
(* Deployments around one sound one: each departs from it in one respect. *)
EXTENDS LiveRuns

Text(id) == Of("text", id)
Flag(id) == Of("boolean", id)
OrNull(token) == {token, "null"}

Strings == {"organization_name", "organization_name_aka", "address_line1", "address_line2",
            "city", "state", "state_name", "zip", "filing_req_code", "pub78_church_message",
            "pub78_organization_name", "pub78_city", "pub78_state", "pub78_indicator",
            "most_recent_pub78", "bmf_church_message", "bmf_organization_name", "bmf_subsection",
            "subsection_description", "foundation_code", "foundation_code_description",
            "foundation_type_code", "foundation_type_description", "foundation_509a_status",
            "ruling_month", "ruling_year", "group_exemption", "exempt_status_code",
            "revocation_code", "revocation_date", "reinstatement_date"}

\* response_contract.json, whole.
MCContract ==
    [envelope |-> [code |-> {"number"}, message |-> {"string"},
                   errors |-> {"array", "null", "string"}, timeTaken |-> OrNull("number"),
                   nonprofit_check_count |-> OrNull("number")],
     errorDetail |-> [resource |-> {"string"}, reason |-> {"string"}, code |-> {"number"},
                      eins |-> {"array", "string"}],
     nonprofit |-> [field \in Strings |-> OrNull("string")]
                   @@ [ein |-> OrNull("digits:9"), pub78_ein |-> OrNull("digits:9"),
                       bmf_ein |-> OrNull("digits:9"), pactman_org_url |-> OrNull("url"),
                       pub78_verified |-> OrNull("boolean"), bmf_status |-> OrNull("boolean"),
                       irs_bmf_pub78_conflict |-> OrNull("boolean"),
                       organization_types |-> OrNull("array"),
                       ofac_status |-> OrNull("ofac-sentence"), report_date |-> OrNull("date"),
                       most_recent_bmf |-> OrNull("date"),
                       organization_info_last_modified |-> OrNull("date")],
     organizationType |-> [organization_type |-> OrNull("string"),
                           deductibility_limitation |-> OrNull("string"),
                           deductibility_status_description |-> OrNull("string")],
     required |-> [envelope |-> {}, errorDetail |-> {}, nonprofit |-> {},
                   organizationType |-> {}]]

Record(ein) ==
    [ein |-> Of("digits:9", ein), organization_name |-> Text(ein),
     pub78_verified |-> Flag("true"), bmf_status |-> Flag("true"),
     organization_types |-> Of("array", ""), foundation_code |-> Of("digits:2", "15"),
     foundation_code_description |-> Text("label"), ruling_month |-> Of("digits:2", "07"),
     ruling_year |-> Of("digits:4", "1987"),
     ofac_status |-> Of("ofac-sentence", ""), irs_bmf_pub78_conflict |-> Flag("false"),
     report_date |-> Of("date", "past")]

Row == [organization_type |-> Text("public charity"), deductibility_limitation |-> Text("50%")]

Sound ==
    [subject |-> Record("e1"), bulk_subject |-> Record("e1"), other |-> Record("e2"),
     types |-> <<Row, <<>> >>,
     envelope |-> [code |-> Of("number", "200"), message |-> Text("ok"),
                   timeTaken |-> Of("number", "3")],
     reports_count |-> TRUE, misses |-> "details", missing |-> 404, allowlisted |-> FALSE,
     wrong_key |-> 401, burst |-> 3, repeats |-> FALSE]

Both(record) == [Sound EXCEPT !.subject = record, !.bulk_subject = record]
Rows(rows) == [Sound EXCEPT !.types = rows]
With(field, value) == (field :> value) @@ Record("e1")
Without(fields) == [f \in DOMAIN Record("e1") \ fields |-> Record("e1")[f]]

\* The record response_baseline.json has, in full, with the forms it has there.
Recorded1(ein) ==
    [field \in {"address_line2", "bmf_church_message", "irs_bmf_pub78_conflict",
                "organization_name_aka", "pub78_church_message", "reinstatement_date",
                "revocation_code", "revocation_date"} |-> Null]
    @@ [field \in {"bmf_subsection", "exempt_status_code", "filing_req_code"} |->
            Of("digits:2", "03")]
    @@ [field \in {"most_recent_bmf", "most_recent_pub78",
                   "organization_info_last_modified"} |-> Of("date", "past")]
    @@ [field \in {"pub78_ein", "bmf_ein"} |-> Of("digits:9", ein)]
    @@ [group_exemption |-> Of("digits:4", "0000"), pub78_indicator |-> Of("digits:1", "0"),
        zip |-> Of("digits:5-4", "zip"), pactman_org_url |-> Of("url", ein)]
    @@ [field \in Strings |-> IF field \in DOMAIN Record(ein) THEN Record(ein)[field]
                              ELSE Text(field)]
    @@ Record(ein)

Production == [Both(Recorded1("e1")) EXCEPT !.other = Recorded1("e2"), !.types =
                    <<[Row EXCEPT !.deductibility_limitation = Text("60%")]
                      @@ [deductibility_status_description |-> Text("PC")]>>]

\* The subject without rows, the other organization without an OFAC sentence.
Nulls == [Both(With("organization_types", Null)) EXCEPT
            !.other = [Record("e2") EXCEPT !.ofac_status = Null]]

SoundWorlds ==
    {Sound, Production,
     [Sound EXCEPT !.allowlisted = TRUE],
     Nulls,
     [Sound EXCEPT !.types = <<>>, !.missing = 200, !.burst = 0]}

DepartedWorlds ==
    {Both(With("report_date", Of("date:iso", "past"))),
     Both(With("foundation_code", Text("PF"))),
     Both(With("ruling_year", Of("empty", "blank"))),
     Both(With("founded", Of("number", "1990"))),
     Both(Without({"foundation_code"})),
     Both(With("ofac_status", Flag("true"))),
     [Sound EXCEPT !.subject = Record("e2")],
     [Sound EXCEPT !.bulk_subject = With("bmf_status", Text("Active"))],
     [Sound EXCEPT !.bulk_subject = With("organization_name", Text("another"))],
     [Sound EXCEPT !.misses = "text"],
     Rows(<< <<>>, Row>>),
     Rows(<<Row, [Row EXCEPT !.deductibility_limitation = Of("number", "50")]>>),
     [Sound EXCEPT !.repeats = TRUE, !.reports_count = FALSE],
     [Sound EXCEPT !.wrong_key = 500]}

MCWorlds == SoundWorlds \cup DepartedWorlds
MCLater == {Nulls, Both(With("foundation_code", Text("PF"))),
            [Sound EXCEPT !.subject = Record("e2")], [Sound EXCEPT !.allowlisted = TRUE]}

Half1(record) == SignatureOf(<<"data">> :> Of("object", "") @@ Under(<<"data">>, record))
MCRecordings ==
    {[state |-> "absent"], [state |-> "broken"],
     [state |-> "recorded", single |-> Half1(Record("e1")), bulk |-> Half1(Record("e1")),
      target |-> "production"]}

\* Each target; and to production, a dry run, and a start without a key.
MCSettings ==
    {[key |-> TRUE, target |-> target, dry_run |-> FALSE] :
        target \in {"production", "allowed", "other"}}
    \cup {[key |-> TRUE, target |-> "production", dry_run |-> TRUE],
          [key |-> FALSE, target |-> "production", dry_run |-> FALSE]}
=============================================================================
