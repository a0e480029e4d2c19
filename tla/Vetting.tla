------------------------------ MODULE Vetting ------------------------------
(***************************************************************************)
(* The five workflow examples: programs that act on what the SDK tells     *)
(* them.  (python/examples: ex_26 to ex_30)                                *)
(*                                                                         *)
(* A behaviour runs one of them, again and again.  Between its calls and   *)
(* its runs the records of the API change, and any call may fail.  A       *)
(* failed call is caught by onboarding and by the payout gate; the others  *)
(* end with it, wherever they are.                                         *)
(***************************************************************************)
EXTENDS Screening, SequencesExt

CONSTANTS
    Eins,           \* sequence: the EINs each program is given
    Records,        \* EIN -> the records the API may hold; NoRecord for none
    Applicants,     \* EIN -> what its applicant submitted
    Approved,       \* EIN -> the findings stored when a payee was approved
    Row,            \* EIN -> the row the CRM has to begin with
    BatchSize,      \* MAX_BULK_EINS
    MaxRuns,        \* bound: how often the program is run
    MaxMoves        \* bound: how often a record of the API changes

Programs == {"onboarding", "grants", "crm", "payout", "portfolio"}
EinSet == ToSet(Eins)

(* No findings, and no record answered. *)
Nothing == NotReturned

(* Every list of EINs in the examples is without repetition. *)
ASSUME EinsAssumption ==
    /\ Len(Eins) \in Nat \ {0} /\ DOMAIN Eins = 1 .. Len(Eins)
    /\ \A i, j \in DOMAIN Eins : Eins[i] = Eins[j] => i = j

ASSUME VettingAssumption ==
    BatchSize \in Nat \ {0} /\ MaxRuns \in Nat /\ MaxMoves \in Nat

VARIABLES
    api,        \* EIN -> its record, now
    program,
    pc,         \* "idle", "asking", "deciding" or "aborted"
    next,       \* the index of the EIN, or of the batch's first EIN
    records,    \* by_ein or records: EIN -> the record this run was given
    entries,    \* what this run wrote: sequence of [ein, outcome, changes]
    snapshots,  \* PORTFOLIO: EIN -> last_findings
    rows,       \* CRM
    runs, moves,    \* (bounds)
    verified    \* (history) EIN -> the record of the last run that read one

vars == <<api, program, pc, next, records, entries, snapshots, rows, runs, moves, verified>>

Init ==
    /\ api \in {held \in [EinSet -> UNION {Records[ein] : ein \in EinSet}] :
                   \A ein \in EinSet : held[ein] \in Records[ein]}
    /\ program \in Programs
    /\ pc = "idle" /\ next = 1
    /\ records = [ein \in EinSet |-> Nothing]
    /\ entries = <<>>
    /\ snapshots = [ein \in EinSet |-> Nothing]
    /\ rows = Row
    /\ runs = 0 /\ moves = 0
    /\ verified = [ein \in EinSet |-> Nothing]

-----------------------------------------------------------------------------
(* The run and its calls.                                                  *)

Start ==
    /\ pc \in {"idle", "aborted"} /\ runs < MaxRuns
    /\ runs' = runs + 1
    /\ pc' = IF program \in {"onboarding", "payout"} THEN "deciding" ELSE "asking"
    /\ next' = 1
    /\ records' = [ein \in EinSet |-> Nothing]
    /\ entries' = <<>>
    /\ UNCHANGED <<api, program, snapshots, rows, moves, verified>>

(* The bulk programs ask for everything at once, the portfolio by batches. *)
Size == IF program = "portfolio" THEN BatchSize ELSE Len(Eins)
Batch == SubSeq(Eins, next, IF next + Size - 1 < Len(Eins) THEN next + Size - 1 ELSE Len(Eins))

(* What an answer keyed by its own `ein` says of an EIN. *)
Returned(ein) == IF pick(api[ein], "ein") = ein THEN api[ein] ELSE Nothing

(* check_bulk answers; a batch of which the API knows nothing is an error. *)
AskBatch ==
    /\ pc = "asking"
    /\ \E ein \in ToSet(Batch) : api[ein] # NoRecord
    /\ records' = [ein \in EinSet |->
                      IF ein \in ToSet(Batch) THEN Returned(ein) ELSE records[ein]]
    /\ \/ next + Size <= Len(Eins) /\ next' = next + Size /\ UNCHANGED pc
       \/ next + Size > Len(Eins) /\ next' = 1 /\ pc' = "deciding"
    /\ UNCHANGED <<api, program, entries, snapshots, rows, runs, moves, verified>>

(* It raises, for that or for any other reason, and nothing catches it. *)
Abort ==
    /\ pc = "asking"
    /\ pc' = "aborted"
    /\ UNCHANGED <<api, program, next, records, entries, snapshots, rows, runs, moves, verified>>

(* The end of one EIN's turn. *)
Finish ==
    IF next < Len(Eins) THEN next' = next + 1 /\ UNCHANGED pc
                        ELSE next' = 1 /\ pc' = "idle"

Ein == Eins[next]
Turn(name) == pc = "deciding" /\ program = name

Entry(outcome, changes) == [ein |-> Ein, outcome |-> outcome, changes |-> changes]
Writes(entry) == entries' = Append(entries, entry)

(* check(ein): the record, a 200 without one, or an error that is caught. *)
Checked == {Nothing} \cup ({api[Ein]} \ {NoRecord})

-----------------------------------------------------------------------------
(* ex_26: onboarding.                                                      *)

AddressComponents == {"address_line1", "city", "state", "zip"}

route(findings, name_outcome, address_outcomes) ==
    LET satisfied ==
            /\ concerns(findings, 120) = {}
            /\ is_agreement(name_outcome)
            /\ \A component \in AddressComponents : address_outcomes[component] # "mismatch"
            /\ findings.pub78_verified = "true"
    IN  CASE findings.revoked /\ ~findings.reinstated -> "reject"
          [] findings.ofac_state = "match" -> "reject"
          [] satisfied -> "approve"
          [] OTHER -> "manual_review"

RouteOf(record) ==
    LET applicant == Applicants[Ein]
    IN  route(collect_findings(record),
              compare_name(applicant.legal_name,
                           {pick(record, "organization_name"),
                            pick(record, "organization_name_aka")}),
              [component \in AddressComponents |->
                  compare_address_field(applicant[component], pick(record, component))])

Onboard ==
    /\ Turn("onboarding")
    /\ \E record \in Checked :
          /\ records' = [records EXCEPT ![Ein] = record]
          /\ Writes(Entry(IF record = Nothing THEN "manual_review" ELSE RouteOf(record), {}))
    /\ Finish
    /\ UNCHANGED <<api, program, snapshots, rows, runs, moves, verified>>

-----------------------------------------------------------------------------
(* ex_27: grant recommendations.                                           *)

screen(findings) ==
    LET issues == concerns(findings, 90)
    IN  CASE findings.ofac_state = "match" -> "blocked"
          [] findings.revoked /\ ~findings.reinstated -> "blocked"
          [] findings.irs_bmf_pub78_conflict = "true" -> "held"
          [] issues # {} -> "held"
          [] findings.foundation_type_code = "pf" -> "held"
          [] OTHER -> "advanced"

ScreenGrant ==
    /\ Turn("grants")
    /\ Writes(Entry(IF records[Ein] = Nothing THEN "held"
                    ELSE screen(collect_findings(records[Ein])), {}))
    /\ Finish
    /\ UNCHANGED <<api, program, records, snapshots, rows, runs, moves, verified>>

-----------------------------------------------------------------------------
(* ex_28: the CRM.                                                         *)

(* Of them, the ones that differ in how they are filled. *)
SYNCED_FIELDS ==
    {"organization_name", "organization_name_aka", "address_line1", "city", "state",
     "zip", "bmf_status", "pub78_verified", "organization_info_last_modified"}

(* _blank_row has them all. *)
ASSUME RowAssumption ==
    /\ Row = [ein \in EinSet |-> [field \in DOMAIN Row[ein] |-> Row[ein][field]]]
    /\ \A ein \in EinSet :
          SYNCED_FIELDS \cup {"verified_at"} \subseteq DOMAIN Row[ein]

(* Mutant: a null is written like any other value. *)
mergeNulls(row, nonprofit) ==
    [field \in DOMAIN row |->
        LET incoming == pick(nonprofit, field)
        IN  IF field \in SYNCED_FIELDS /\ incoming # NOT_RETURNED THEN incoming
            ELSE row[field]]

merge(row, nonprofit) ==
    [field \in DOMAIN row |->
        LET incoming == pick(nonprofit, field)
        IN  IF field \in SYNCED_FIELDS /\ ~Absent(incoming) THEN incoming ELSE row[field]]

(* A row without a record is left as it is, but for the attempt. *)
Synchronize ==
    /\ Turn("crm")
    /\ rows' = IF records[Ein] = Nothing
               THEN [rows EXCEPT ![Ein].last_sync_attempt_at = runs]
               ELSE [rows EXCEPT ![Ein] = [merge(@, records[Ein]) EXCEPT !.verified_at = runs]]
    /\ Finish
    /\ UNCHANGED <<api, program, records, entries, snapshots, runs, moves, verified>>

-----------------------------------------------------------------------------
(* ex_29: the recheck before a payment.                                    *)

BLOCKING_CHANGES ==
    {"revocation_code", "revocation_date", "ofac_state", "bmf_status", "pub78_verified",
     "irs_bmf_pub78_conflict"}

(* Findings are stored with all that are compared. *)
ASSUME ApprovedAssumption ==
    \A ein \in EinSet : Approved[ein] = Nothing \/ MATERIAL_FIELDS \subseteq DOMAIN Approved[ein]

Recheck ==
    /\ Turn("payout")
    /\ \E record \in Checked :
          LET current == collect_findings(record)
              changes == diff_findings(Approved[Ein], current)
              blocking == {change \in changes : change.field \in BLOCKING_CHANGES}
          IN  /\ records' = [records EXCEPT ![Ein] = record]
              /\ Writes(IF record = Nothing THEN Entry("hold", {})
                        ELSE IF blocking # {} \/ concerns(current, 120) # {}
                             THEN Entry("hold", changes) ELSE Entry("release", changes))
    /\ Finish
    /\ UNCHANGED <<api, program, snapshots, rows, runs, moves, verified>>

-----------------------------------------------------------------------------
(* ex_30: the portfolio.                                                   *)

outcome_for(findings, changes) ==
    CASE findings.ofac_state = "match" -> "suspend"
      [] findings.revoked /\ ~findings.reinstated -> "suspend"
      [] changes # {} \/ concerns(findings, 120) # {} -> "review"
      [] OTHER -> "retain"

(* Mutant: an organization without a record loses its snapshot. *)
AuditForgetting ==
    /\ Turn("portfolio")
    /\ LET record == records[Ein]
           findings == collect_findings(record)
           changes == IF snapshots[Ein] = Nothing THEN {}
                      ELSE diff_findings(snapshots[Ein], findings)
       IN  /\ Writes(IF record = Nothing THEN Entry("review", {})
                     ELSE Entry(outcome_for(findings, changes), changes))
           /\ snapshots' = [snapshots EXCEPT ![Ein] =
                               IF record = Nothing THEN Nothing ELSE findings]
           /\ verified' = IF record = Nothing THEN verified
                          ELSE [verified EXCEPT ![Ein] = record]
    /\ Finish
    /\ UNCHANGED <<api, program, records, rows, runs, moves>>

(* The first reading of an organization is a baseline, without changes; one
   that could not be read keeps the snapshot it had. *)
Audit ==
    /\ Turn("portfolio")
    /\ LET record == records[Ein]
           findings == collect_findings(record)
           changes == IF snapshots[Ein] = Nothing THEN {}
                      ELSE diff_findings(snapshots[Ein], findings)
       IN  IF record = Nothing
           THEN Writes(Entry("review", {})) /\ UNCHANGED <<snapshots, verified>>
           ELSE /\ Writes(Entry(outcome_for(findings, changes), changes))
                /\ snapshots' = [snapshots EXCEPT ![Ein] = findings]
                /\ verified' = [verified EXCEPT ![Ein] = record]
    /\ Finish
    /\ UNCHANGED <<api, program, records, rows, runs, moves>>

-----------------------------------------------------------------------------

(* The sources publish something new about an organization. *)
ApiMoves ==
    /\ moves < MaxMoves
    /\ moves' = moves + 1
    /\ \E ein \in EinSet : \E record \in Records[ein] \ {api[ein]} :
          api' = [api EXCEPT ![ein] = record]
    /\ UNCHANGED <<program, pc, next, records, entries, snapshots, rows, runs, verified>>

Next ==
    \/ Start \/ AskBatch \/ Abort \/ ApiMoves
    \/ Onboard \/ ScreenGrant \/ Synchronize \/ Recheck \/ Audit

Spec == Init /\ [][Next]_vars

-----------------------------------------------------------------------------
(* Properties, of the records the runs were answered with.                 *)

(* What the sources must have said of an organization that passes. *)
Dates(record) == {pick(record, field) : field \in SourceDates} \cap DOMAIN DaysOld

SaysNothingAgainst(record, limit) ==
    /\ pick(record, "ofac_status") \in NotIncluded \ WithUid
    /\ ~Truthy(pick(record, "revocation_code")) /\ ~Truthy(pick(record, "revocation_date"))
    /\ pick(record, "irs_bmf_pub78_conflict") # "true"
    /\ pick(record, "bmf_status") # "false" /\ pick(record, "pub78_verified") # "false"
    /\ Dates(record) # {}
    /\ \A date \in Dates(record) : DaysOld[date] <= limit

(* Of one entry, and the record its EIN was answered with. *)
Justified(entry, record) ==
    LET passes(outcome, limit) ==
            entry.outcome = outcome =>
                record # Nothing /\ SaysNothingAgainst(record, limit)
    IN  /\ passes("approve", 120) /\ passes("advanced", 90)
        /\ passes("release", 120) /\ passes("retain", 120)
        /\ entry.outcome = "approve" => pick(record, "pub78_verified") = "true"
        /\ entry.outcome = "advanced" => pick(record, "foundation_type_code") # "pf"
        /\ entry.outcome = "release" => pick(Approved[entry.ein], "ofac_state") = "no_match"
        /\ entry.outcome = "release" =>
              \A field \in BLOCKING_CHANGES \ {"ofac_state"} :
                  field \in DOMAIN Approved[entry.ein]
                  /\ pick(record, field) = Approved[entry.ein][field]

(* "A failed lookup is not new information", "an unreachable API is not
   evidence that anything is fine": nobody is approved, advanced, paid or
   retained in a run that was not given a record of that EIN, nor with a record
   that has a finding against it, an OFAC screening that cleared nothing
   or no date to judge its age by; an applicant not without a Publication 78
   listing either, nor a payee whose blocking fields are not those that were
   approved (route, screen, the recheck's decision, outcome_for). *)
NothingUnverifiedPasses ==
    \A i \in DOMAIN entries : Justified(entries[i], records[entries[i].ein])

(* "A null from the API is an absence of data, not an instruction to erase":
   a synchronization leaves in every field what was there or a value this run
   was given for it, never a null in the place of one, and says a row was
   verified only when it was given a record of it (merge and main of ex_28). *)
SyncNeverErases ==
    [][\A ein \in EinSet :
          /\ \A field \in SYNCED_FIELDS :
                rows'[ein][field] # rows[ein][field] =>
                    /\ ~Absent(rows'[ein][field])
                    /\ rows'[ein][field] = pick(records[ein], field)
          /\ rows'[ein].verified_at # rows[ein].verified_at =>
                pick(records[ein], "ein") = ein]_vars

(* "Records what changed": when a run over the portfolio has ended by itself,
   every organization has one entry, and its changes are those between the
   record of this run and the one that was last read before it, however many
   runs came to nothing in between; none is lost to a run that failed or that
   found no record (main of ex_30). *)
AuditTellsEveryChange ==
    [][program = "portfolio" /\ entries' # entries /\ entries' # <<>> =>
          LET entry == entries'[Len(entries')]
              before == verified[entry.ein]
              after == records[entry.ein]
          IN  /\ entry.ein = Eins[Len(entries')]
              /\ entry.changes =
                    IF before = Nothing \/ after = Nothing THEN {}
                    ELSE diff_findings(collect_findings(before), collect_findings(after))]_vars
=============================================================================
