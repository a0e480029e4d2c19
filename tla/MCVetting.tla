----------------------------- MODULE MCVetting -----------------------------
(* Three EINs in batches of two.  The API says of the first what the programs
   tell apart, one thing at a time: of the second, the same record always; of
   the third, a record or nothing.  The first was approved as it is when
   nothing is held against it, the second never. *)
EXTENDS Vetting

MCEins == <<"e1", "e2", "e3">>

Sound(ein) ==
    [ein |-> ein, organization_name |-> "MEALS TODAY FDN", organization_name_aka |-> NULL,
     address_line1 |-> "50 LOWELL AVE", city |-> "WESTFIELD", state |-> "MA",
     zip |-> "01085-2643", bmf_status |-> "true", pub78_verified |-> "true",
     exempt_status_code |-> "01", foundation_type_code |-> "pc",
     subsection_description |-> "charity", revocation_code |-> NULL,
     revocation_date |-> NULL, reinstatement_date |-> NULL, ofac_status |-> "no match",
     irs_bmf_pub78_conflict |-> "false", most_recent_bmf |-> "last month",
     most_recent_pub78 |-> "last month", organization_info_last_modified |-> "last month"]

Without(record, fields) == [field \in DOMAIN record \ fields |-> record[field]]

Revoked == [Sound("e1") EXCEPT !.revocation_date = "last month"]

MCRecords ==
    [e1 |->
        {NoRecord, Sound("e1"), Revoked, [Revoked EXCEPT !.reinstatement_date = "last month"],
         [Sound("e1") EXCEPT !.ofac_status = "match"],
         [Sound("e1") EXCEPT !.ofac_status = NULL],
         [Sound("e1") EXCEPT !.ofac_status = "reworded"],
         Without(Sound("e1"), {"ofac_status", "city"}),
         [Sound("e1") EXCEPT !.irs_bmf_pub78_conflict = "true", !.city = NULL],
         [Sound("e1") EXCEPT !.pub78_verified = NULL, !.foundation_type_code = "pf"],
         [Sound("e1") EXCEPT !.bmf_status = "false", !.address_line1 = "1 MAIN ST"],
         [Sound("e1") EXCEPT !.most_recent_bmf = "last spring",
                             !.organization_name = "QUIET HARBOR"],
         [Sound("e1") EXCEPT !.most_recent_pub78 = "last year"],
         Without(Sound("e1"), SourceDates \cup {"ein"})},
     e2 |-> {Sound("e2")},
     e3 |-> {Sound("e3"), NoRecord}]

Applicant == [legal_name |-> "Meals Today Foundation, Inc.", address_line1 |-> "50 Lowell Avenue",
              city |-> "Westfield", state |-> "MA", zip |-> "01085"]

MCApplicants == [e1 |-> Applicant, e2 |-> [Applicant EXCEPT !.legal_name = "Quiet Harbor"],
                 e3 |-> Applicant]

MCApproved == [e1 |-> collect_findings(Sound("e1")), e2 |-> Nothing,
               e3 |-> collect_findings(Sound("e3"))]

MCRow ==
    [ein \in {"e1", "e2", "e3"} |->
        [field \in SYNCED_FIELDS |-> IF field = "city" THEN "Rockport" ELSE NULL]
        @@ [ein |-> ein, verified_at |-> 0, last_sync_attempt_at |-> 0]]

MCDaysOld == ("last month" :> 30 @@ "last spring" :> 100 @@ "last year" :> 400)

MCWords ==
    ("MEALS TODAY FDN" :> <<"MEALS", "TODAY", "FDN">>
     @@ "Meals Today Foundation, Inc." :> <<"MEALS", "TODAY", "FOUNDATION", "INC">>
     @@ "QUIET HARBOR" :> <<"QUIET", "HARBOR">> @@ "Quiet Harbor" :> <<"QUIET", "HARBOR">>)

MCNormalAddress ==
    ("50 LOWELL AVE" :> "50 LOWELL AVE" @@ "50 Lowell Avenue" :> "50 LOWELL AVE"
     @@ "1 MAIN ST" :> "1 MAIN ST" @@ "WESTFIELD" :> "WESTFIELD" @@ "Westfield" :> "WESTFIELD"
     @@ "MA" :> "MA" @@ "01085" :> "01085" @@ "01085-2643" :> "01085")
=============================================================================
