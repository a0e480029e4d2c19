--------------------------- MODULE VettingProofs ---------------------------
(***************************************************************************)
(* What a workflow may conclude, for any list of EINs, any records of the  *)
(* API and any failures: that nobody passes unverified, that a             *)
(* synchronization erases nothing, and that an audit tells every change.   *)
(***************************************************************************)
EXTENDS Vetting, CountingLemmas

-----------------------------------------------------------------------------
(* Findings.                                                               *)

(* A projected field is the field it is mapped to, returned or not. *)
LEMMA ProjectedField ==
    ASSUME NEW record, NEW mapping, NEW target \in DOMAIN mapping, target # "returned"
    PROVE  pick(Project(record, mapping), target) = pick(record, mapping[target])
<1> DEFINE present == {t \in DOMAIN mapping : mapping[t] \in DOMAIN record}
<1>1. CASE present = {}
  <2>1. Project(record, mapping) = NotReturned
    BY <1>1 DEF Project
  <2>2. target \notin DOMAIN NotReturned
    BY DEF NotReturned
  <2>3. mapping[target] \notin DOMAIN record
    BY <1>1
  <2> QED
    BY <2>1, <2>2, <2>3 DEF pick
<1>2. CASE present # {}
  <2>1. Project(record, mapping) = [t \in present |-> record[mapping[t]]]
    BY <1>2 DEF Project
  <2> QED
    BY <2>1 DEF pick
<1> QED
  BY <1>1, <1>2

(* The findings, in the fields of the record they are read from. *)
LEMMA FindingsOf ==
    ASSUME NEW record
    PROVE  LET findings == collect_findings(record)
           IN  /\ findings.bmf_status = pick(record, "bmf_status")
               /\ findings.foundation_type_code = pick(record, "foundation_type_code")
               /\ findings.pub78_verified = pick(record, "pub78_verified")
               /\ findings.revocation_code = pick(record, "revocation_code")
               /\ findings.revocation_date = pick(record, "revocation_date")
               /\ findings.irs_bmf_pub78_conflict = pick(record, "irs_bmf_pub78_conflict")
               /\ findings.ofac_state = ofac_state(record)
               /\ findings.oldest_source_age_days = oldest_source_age_days(record)
               /\ findings.revoked \in BOOLEAN /\ findings.reinstated \in BOOLEAN
               /\ findings.bmf_returned \in BOOLEAN /\ findings.pub78_returned \in BOOLEAN
               /\ ~findings.revoked => /\ ~Truthy(pick(record, "revocation_code"))
                                       /\ ~Truthy(pick(record, "revocation_date"))
               /\ MATERIAL_FIELDS \subseteq DOMAIN findings
               /\ findings # Nothing
<1>1. /\ pick(Project(record, BmfFields), "status") = pick(record, "bmf_status")
      /\ pick(Project(record, BmfFields), "foundation_type_code")
            = pick(record, "foundation_type_code")
  BY ProjectedField DEF BmfFields
<1>2. pick(Project(record, Pub78Fields), "verified") = pick(record, "pub78_verified")
  BY ProjectedField DEF Pub78Fields
<1>3. /\ pick(Project(record, AroeFields), "revocation_code") = pick(record, "revocation_code")
      /\ pick(Project(record, AroeFields), "revocation_date") = pick(record, "revocation_date")
  BY ProjectedField DEF AroeFields
<1>4. collect_findings(record).revoked =
          (\/ Truthy(pick(record, "revocation_code"))
           \/ Truthy(pick(record, "revocation_date")))
  BY <1>3 DEF collect_findings
<1>5. DOMAIN collect_findings(record) # DOMAIN Nothing
  BY DEF collect_findings, Nothing, NotReturned
<1> QED
  BY <1>1, <1>2, <1>3, <1>4, <1>5 DEF collect_findings, MATERIAL_FIELDS, Truthy

(* A reading without a concern has nothing held against it. *)
LEMMA Unconcerned ==
    ASSUME NEW findings, NEW limit \in Int,
           findings.revoked \in BOOLEAN, findings.reinstated \in BOOLEAN,
           concerns(findings, limit) = {}
    PROVE  /\ ~findings.revoked
           /\ findings.ofac_state = "no_match"
           /\ findings.irs_bmf_pub78_conflict # "true"
           /\ findings.bmf_status # "false" /\ findings.pub78_verified # "false"
           /\ findings.oldest_source_age_days # None
           /\ ~(findings.oldest_source_age_days > limit)
<1> DEFINE age == findings.oldest_source_age_days
           holds ==
            [unreinstated |-> findings.revoked /\ ~findings.reinstated,
             lapsed |-> findings.revoked /\ findings.reinstated,
             ofac_match |-> findings.ofac_state = "match",
             ofac_unknown |-> findings.ofac_state \notin {"no_match", "match"},
             conflict |-> findings.irs_bmf_pub78_conflict = "true",
             not_exempt |-> findings.bmf_status = "false",
             not_listed |-> findings.pub78_verified = "false",
             no_bmf |-> ~findings.bmf_returned,
             no_pub78 |-> ~findings.pub78_returned,
             undatable |-> age = None,
             stale |-> age # None /\ age > limit]
<1>1. concerns(findings, limit) = {reason \in DOMAIN holds : holds[reason]}
  BY DEF concerns
<1>2. \A reason \in DOMAIN holds : ~holds[reason]
  <2> HIDE DEF holds
  <2> QED BY <1>1
<1>3. /\ ~(findings.revoked /\ ~findings.reinstated)
      /\ ~(findings.revoked /\ findings.reinstated)
  <2>1. ~holds["unreinstated"] /\ ~holds["lapsed"]
    BY <1>2
  <2> QED BY <2>1
<1>4. findings.ofac_state = "no_match"
  <2>1. ~holds["ofac_match"] /\ ~holds["ofac_unknown"]
    BY <1>2
  <2> QED BY <2>1
<1>5. /\ findings.irs_bmf_pub78_conflict # "true"
      /\ findings.bmf_status # "false" /\ findings.pub78_verified # "false"
  <2>1. ~holds["conflict"] /\ ~holds["not_exempt"] /\ ~holds["not_listed"]
    BY <1>2
  <2> QED BY <2>1
<1>6. age # None /\ ~(age > limit)
  <2>1. ~holds["undatable"] /\ ~holds["stale"]
    BY <1>2
  <2> QED BY <2>1
<1> QED
  BY <1>3, <1>4, <1>5, <1>6

(* A finite set of integers with an element has a greatest one: here, of the
   ages of the three dates. *)
LEMMA OldestDate ==
    ASSUME NEW record, Dates(record) # {}
    PROVE  LET age == oldest_source_age_days(record)
           IN  /\ age \in Int
               /\ \A date \in Dates(record) : DaysOld[date] <= age
<1> DEFINE ages == {DaysOld[date] : date \in Dates(record)}
           first == pick(record, "most_recent_bmf")
           second == pick(record, "most_recent_pub78")
           third == pick(record, "organization_info_last_modified")
<1>1. Dates(record) = {first, second, third} \cap DOMAIN DaysOld
  BY DEF Dates, SourceDates
<1>2. \A date \in Dates(record) : DaysOld[date] \in Int
  BY <1>1, DaysOldAssumption
<1>3. \E date \in Dates(record) : \A other \in Dates(record) : DaysOld[date] >= DaysOld[other]
  BY <1>1, <1>2
<1>4. \E age \in ages : \A other \in ages : age >= other
  BY <1>3
<1>5. oldest_source_age_days(record) = Max(ages)
  BY DEF oldest_source_age_days, Dates
<1>6. Max(ages) \in ages /\ \A other \in ages : Max(ages) >= other
  BY <1>4 DEF Max
<1> QED
  BY <1>2, <1>5, <1>6

(* No concern, then nothing against the organization. *)
LEMMA UnconcernedRecord ==
    ASSUME NEW record, NEW limit \in Int, concerns(collect_findings(record), limit) = {}
    PROVE  /\ SaysNothingAgainst(record, limit)
           /\ ofac_state(record) = "no_match"
<1> DEFINE findings == collect_findings(record)
<1>1. /\ findings.irs_bmf_pub78_conflict = pick(record, "irs_bmf_pub78_conflict")
      /\ findings.bmf_status = pick(record, "bmf_status")
      /\ findings.pub78_verified = pick(record, "pub78_verified")
      /\ findings.ofac_state = ofac_state(record)
      /\ findings.oldest_source_age_days = oldest_source_age_days(record)
      /\ findings.revoked \in BOOLEAN /\ findings.reinstated \in BOOLEAN
      /\ ~findings.revoked => /\ ~Truthy(pick(record, "revocation_code"))
                              /\ ~Truthy(pick(record, "revocation_date"))
  BY FindingsOf
<1>2. /\ ~findings.revoked /\ findings.ofac_state = "no_match"
      /\ findings.irs_bmf_pub78_conflict # "true"
      /\ findings.bmf_status # "false" /\ findings.pub78_verified # "false"
      /\ findings.oldest_source_age_days # None
      /\ ~(findings.oldest_source_age_days > limit)
  <2>1. concerns(findings, limit) = {}
    OBVIOUS
  <2> HIDE DEF findings
  <2> QED BY <1>1, <2>1, Unconcerned
<1>3. ofac_state(record) = "no_match"
  BY <1>1, <1>2
<1>4. pick(record, "ofac_status") \in NotIncluded \ WithUid
  <2>1. pick(Project(record, OfacFields), "status") = pick(record, "ofac_status")
    BY ProjectedField DEF OfacFields
  <2> QED
    BY <1>3, <2>1 DEF ofac_state
<1>5. Dates(record) # {}
  BY <1>1, <1>2 DEF oldest_source_age_days, Dates
<1>6. \A date \in Dates(record) : DaysOld[date] <= limit
  <2>1. PICK age \in Int : /\ age = oldest_source_age_days(record) /\ ~(age > limit)
                           /\ \A date \in Dates(record) : DaysOld[date] <= age
    BY <1>1, <1>2, <1>5, OldestDate
  <2>2. \A date \in Dates(record) : DaysOld[date] \in Int
    BY DaysOldAssumption DEF Dates
  <2> QED
    BY <2>1, <2>2
<1> QED
  BY <1>1, <1>2, <1>3, <1>4, <1>5, <1>6 DEF SaysNothingAgainst

(* What each program's decision says when it lets an organization pass. *)
LEMMA Routed ==
    ASSUME NEW findings, NEW name_outcome, NEW address_outcomes
    PROVE  LET outcome == route(findings, name_outcome, address_outcomes)
           IN  /\ outcome \in {"reject", "approve", "manual_review"}
               /\ outcome = "approve" => /\ concerns(findings, 120) = {}
                                         /\ findings.pub78_verified = "true"
<1> DEFINE satisfied ==
            /\ concerns(findings, 120) = {}
            /\ is_agreement(name_outcome)
            /\ \A component \in AddressComponents : address_outcomes[component] # "mismatch"
            /\ findings.pub78_verified = "true"
<1>1. CASE satisfied
  BY <1>1 DEF route
<1>2. CASE ~satisfied
  <2>1. route(findings, name_outcome, address_outcomes) \in {"reject", "manual_review"}
    BY <1>2 DEF route
  <2> QED BY <2>1
<1> QED BY <1>1, <1>2

LEMMA Screened ==
    ASSUME NEW findings
    PROVE  /\ screen(findings) \in {"blocked", "held", "advanced"}
           /\ screen(findings) = "advanced" => /\ concerns(findings, 90) = {}
                                               /\ findings.foundation_type_code # "pf"
<1> DEFINE clear == concerns(findings, 90) = {} /\ findings.foundation_type_code # "pf"
<1>1. CASE clear
  BY <1>1 DEF screen
<1>2. CASE ~clear
  <2>1. screen(findings) \in {"blocked", "held"}
    BY <1>2 DEF screen
  <2> QED BY <2>1
<1> QED BY <1>1, <1>2

LEMMA Judged ==
    ASSUME NEW findings, NEW changes
    PROVE  /\ outcome_for(findings, changes) \in {"suspend", "review", "retain"}
           /\ outcome_for(findings, changes) = "retain" => concerns(findings, 120) = {}
<1>1. CASE concerns(findings, 120) = {}
  BY <1>1 DEF outcome_for
<1>2. CASE concerns(findings, 120) # {}
  <2>1. outcome_for(findings, changes) \in {"suspend", "review"}
    BY <1>2 DEF outcome_for
  <2> QED BY <2>1
<1> QED BY <1>1, <1>2

-----------------------------------------------------------------------------
(* The invariant.                                                          *)

PassingOutcomes == {"approve", "advanced", "release", "retain"}

TypeInv ==
    /\ program \in Programs
    /\ pc \in {"idle", "asking", "deciding", "aborted"}
    /\ next \in Nat \ {0}
    /\ pc = "deciding" => next \in DOMAIN Eins
    /\ IsSequence(entries)
    /\ DOMAIN records = EinSet
    /\ DOMAIN snapshots = EinSet /\ DOMAIN verified = EinSet
    /\ DOMAIN rows = EinSet
    /\ \A ein \in EinSet : /\ rows[ein] = [field \in DOMAIN rows[ein] |-> rows[ein][field]]
                           /\ SYNCED_FIELDS \cup {"verified_at"} \subseteq DOMAIN rows[ein]

(* While a program decides, it has written one entry for each EIN before the
   one it is at; and nothing before. *)
ProgressInv ==
    /\ pc = "asking" => entries = <<>>
    /\ pc = "deciding" /\ program # "crm" => Len(entries) = next - 1
    /\ program = "crm" => entries = <<>>

(* The programs that ask in bulk know an answer by the `ein` in it. *)
AnsweredInv ==
    program \notin {"onboarding", "payout"} =>
        \A ein \in EinSet : records[ein] = Nothing \/ pick(records[ein], "ein") = ein

(* A snapshot is of the record that was last read. *)
SnapshotInv ==
    \A ein \in EinSet :
        snapshots[ein] = IF verified[ein] = Nothing THEN Nothing
                         ELSE collect_findings(verified[ein])

EntriesInv ==
    \A i \in 1 .. Len(entries) :
        /\ i \in DOMAIN Eins /\ entries[i].ein = Eins[i]
        /\ Justified(entries[i], records[Eins[i]])

VettingInv == TypeInv /\ ProgressInv /\ AnsweredInv /\ SnapshotInv /\ EntriesInv

LEMMA InitInv ==
    Init => VettingInv
<1> SUFFICES ASSUME Init PROVE VettingInv
  OBVIOUS
<1>1. IsSequence(entries) /\ Len(entries) = 0
  BY DEF Init, IsSequence
<1>2. /\ DOMAIN rows = EinSet
      /\ \A ein \in EinSet : /\ rows[ein] = [field \in DOMAIN rows[ein] |-> rows[ein][field]]
                             /\ SYNCED_FIELDS \cup {"verified_at"} \subseteq DOMAIN rows[ein]
  BY RowAssumption DEF Init
<1>3. TypeInv
  BY <1>1, <1>2 DEF Init, TypeInv, Programs
<1>4. ProgressInv /\ AnsweredInv /\ SnapshotInv
  BY DEF Init, ProgressInv, AnsweredInv, SnapshotInv
<1>5. EntriesInv
  BY <1>1 DEF EntriesInv
<1> QED
  BY <1>3, <1>4, <1>5 DEF VettingInv

(* The EIN whose turn it is is one of the list, and no other turn is its own. *)
LEMMA EinOfTurn ==
    ASSUME TypeInv, pc = "deciding"
    PROVE  /\ Ein \in EinSet /\ next \in 1 .. Len(Eins)
           /\ \A i \in 1 .. Len(Eins) : Eins[i] \in EinSet
           /\ \A i \in 1 .. Len(Eins) : i # next => Eins[i] # Ein
BY EinsAssumption DEF TypeInv, Ein, EinSet, ToSet

LEMMA TurnEnds ==
    ASSUME TypeInv, pc = "deciding", Finish
    PROVE  /\ pc' \in {"deciding", "idle"} /\ next' \in Nat \ {0}
           /\ pc' = "deciding" => next' = next + 1 /\ next' \in DOMAIN Eins
<1>1. next \in 1 .. Len(Eins) /\ Len(Eins) \in Nat
  BY EinOfTurn, EinsAssumption
<1> QED
  BY <1>1, EinsAssumption DEF Finish

(* A turn that writes a justified entry. *)
LEMMA EntryWritten ==
    ASSUME VettingInv, pc = "deciding", program # "crm", UNCHANGED program, Finish,
           NEW entry, Writes(entry), entry.ein = Ein,
           Justified(entry, records'[Ein]),
           \A ein \in EinSet \ {Ein} : records'[ein] = records[ein]
    PROVE  /\ IsSequence(entries') /\ ProgressInv' /\ EntriesInv'
           /\ Len(entries') = next /\ entries'[Len(entries')] = entry
           /\ entries' # <<>>
<1>1. /\ Ein \in EinSet /\ next \in 1 .. Len(Eins) /\ Len(Eins) \in Nat
      /\ \A i \in 1 .. Len(Eins) : Eins[i] \in EinSet
      /\ \A i \in 1 .. Len(Eins) : i # next => Eins[i] # Ein
  BY EinOfTurn, EinsAssumption DEF VettingInv
<1>2. Len(entries) = next - 1
  BY DEF VettingInv, ProgressInv
<1>3. /\ IsSequence(entries') /\ entries' # <<>>
      /\ Len(entries') = next /\ entries'[next] = entry
      /\ \A i \in 1 .. Len(entries) : entries'[i] = entries[i]
  BY <1>1, <1>2, Appended DEF VettingInv, TypeInv, Writes
<1>4. ProgressInv'
  BY <1>3, TurnEnds DEF VettingInv, ProgressInv
<1>5. EntriesInv'
  <2> SUFFICES ASSUME NEW i \in 1 .. next
               PROVE  /\ i \in DOMAIN Eins /\ entries'[i].ein = Eins[i]
                      /\ Justified(entries'[i], records'[Eins[i]])
    BY <1>3 DEF EntriesInv, Justified
  <2>1. CASE i = next
    BY <2>1, <1>1, <1>3, EinsAssumption DEF Ein
  <2>2. CASE i # next
    <3>1. i \in 1 .. Len(entries) /\ entries'[i] = entries[i]
      BY <2>2, <1>1, <1>2, <1>3
    <3>2. records'[Eins[i]] = records[Eins[i]]
      BY <2>2, <1>1
    <3> QED
      BY <3>1, <3>2 DEF VettingInv, EntriesInv
  <2> QED BY <2>1, <2>2
<1> QED
  BY <1>3, <1>4, <1>5

(* An entry without a passing outcome needs no justification; one with it needs
   a record that nothing is held against. *)
LEMMA HeldBack ==
    ASSUME NEW entry, NEW record, entry.outcome \notin PassingOutcomes
    PROVE  Justified(entry, record)
BY DEF Justified, PassingOutcomes

LEMMA OnboardStep ==
    ASSUME VettingInv, Onboard
    PROVE  VettingInv'
<1>1. PICK record \in Checked :
          /\ records' = [records EXCEPT ![Ein] = record]
          /\ Writes(Entry(IF record = Nothing THEN "manual_review" ELSE RouteOf(record), {}))
  BY DEF Onboard
<1> DEFINE entry == Entry(IF record = Nothing THEN "manual_review" ELSE RouteOf(record), {})
<1>2. /\ pc = "deciding" /\ program = "onboarding" /\ Finish
      /\ UNCHANGED <<api, program, snapshots, rows, runs, moves, verified>>
  BY DEF Onboard, Turn
<1>3. /\ Ein \in EinSet /\ records'[Ein] = record /\ DOMAIN records' = EinSet
      /\ \A ein \in EinSet \ {Ein} : records'[ein] = records[ein]
  BY <1>1, <1>2, EinOfTurn DEF VettingInv, TypeInv
<1>4. entry.ein = Ein /\ entry.outcome \in {"reject", "approve", "manual_review"}
  BY Routed DEF Entry, RouteOf
<1>5. Justified(entry, record)
  <2>1. CASE entry.outcome = "approve"
    <3>1. /\ record # Nothing
          /\ concerns(collect_findings(record), 120) = {}
          /\ collect_findings(record).pub78_verified = "true"
      BY <2>1, Routed DEF Entry, RouteOf
    <3>2. /\ SaysNothingAgainst(record, 120)
          /\ pick(record, "pub78_verified") = "true"
      BY <3>1, FindingsOf, UnconcernedRecord
    <3> QED
      BY <2>1, <3>1, <3>2 DEF Justified
  <2>2. CASE entry.outcome # "approve"
    BY <2>2, <1>4, HeldBack DEF PassingOutcomes
  <2> QED BY <2>1, <2>2
<1>6. IsSequence(entries') /\ ProgressInv' /\ EntriesInv'
  <2> HIDE DEF entry
  <2> QED BY <1>1, <1>2, <1>3, <1>4, <1>5, EntryWritten DEF entry
<1>7. TypeInv'
  BY <1>2, <1>3, <1>6, TurnEnds DEF VettingInv, TypeInv
<1>8. AnsweredInv' /\ SnapshotInv'
  BY <1>2 DEF VettingInv, AnsweredInv, SnapshotInv
<1> QED
  BY <1>6, <1>7, <1>8 DEF VettingInv

LEMMA ScreenGrantStep ==
    ASSUME VettingInv, ScreenGrant
    PROVE  VettingInv'
<1> DEFINE record == records[Ein]
           entry == Entry(IF record = Nothing THEN "held"
                          ELSE screen(collect_findings(record)), {})
<1>1. /\ pc = "deciding" /\ program = "grants" /\ Finish /\ Writes(entry)
      /\ UNCHANGED <<api, program, records, snapshots, rows, runs, moves, verified>>
  BY DEF ScreenGrant, Turn
<1>2. entry.ein = Ein /\ entry.outcome \in {"blocked", "held", "advanced"}
  BY Screened DEF Entry
<1>3. Justified(entry, record)
  <2>1. CASE entry.outcome = "advanced"
    <3>1. /\ record # Nothing
          /\ concerns(collect_findings(record), 90) = {}
          /\ collect_findings(record).foundation_type_code # "pf"
      BY <2>1, Screened DEF Entry
    <3>2. /\ SaysNothingAgainst(record, 90)
          /\ pick(record, "foundation_type_code") # "pf"
      BY <3>1, FindingsOf, UnconcernedRecord
    <3> QED
      BY <2>1, <3>1, <3>2 DEF Justified
  <2>2. CASE entry.outcome # "advanced"
    BY <2>2, <1>2, HeldBack DEF PassingOutcomes
  <2> QED BY <2>1, <2>2
<1>4. IsSequence(entries') /\ ProgressInv' /\ EntriesInv'
  <2>1. records'[Ein] = record
    BY <1>1
  <2> HIDE DEF entry
  <2> QED BY <1>1, <1>2, <1>3, <2>1, EntryWritten DEF entry
<1>5. TypeInv'
  BY <1>1, <1>4, TurnEnds DEF VettingInv, TypeInv
<1>6. AnsweredInv' /\ SnapshotInv'
  BY <1>1 DEF VettingInv, AnsweredInv, SnapshotInv
<1> QED
  BY <1>4, <1>5, <1>6 DEF VettingInv

(* A release: no blocking field differs from the approval, and no concern. *)
LEMMA Released ==
    ASSUME NEW ein \in EinSet, NEW record,
           concerns(collect_findings(record), 120) = {},
           \A change \in diff_findings(Approved[ein], collect_findings(record)) :
               change.field \notin BLOCKING_CHANGES
    PROVE  /\ pick(Approved[ein], "ofac_state") = "no_match"
           /\ \A field \in BLOCKING_CHANGES \ {"ofac_state"} :
                  field \in DOMAIN Approved[ein] /\ pick(record, field) = Approved[ein][field]
<1> DEFINE stored == Approved[ein]
           current == collect_findings(record)
<1>1. /\ current.bmf_status = pick(record, "bmf_status")
      /\ current.pub78_verified = pick(record, "pub78_verified")
      /\ current.revocation_code = pick(record, "revocation_code")
      /\ current.revocation_date = pick(record, "revocation_date")
      /\ current.irs_bmf_pub78_conflict = pick(record, "irs_bmf_pub78_conflict")
      /\ current.ofac_state = "no_match"
      /\ MATERIAL_FIELDS \subseteq DOMAIN current
  BY FindingsOf, UnconcernedRecord
<1>2. \A field \in BLOCKING_CHANGES : pick(stored, field) = pick(current, field)
  <2> SUFFICES ASSUME NEW field \in BLOCKING_CHANGES, pick(stored, field) # pick(current, field)
               PROVE  FALSE
    OBVIOUS
  <2> DEFINE change == [field |-> field, before |-> pick(stored, field),
                        after |-> pick(current, field)]
  <2>1. field \in MATERIAL_FIELDS
    BY DEF BLOCKING_CHANGES, MATERIAL_FIELDS
  <2>2. change \in diff_findings(stored, current)
    BY <2>1 DEF diff_findings
  <2>3. change.field = field
    OBVIOUS
  <2> QED
    BY <2>2, <2>3
<1>3. \A field \in BLOCKING_CHANGES : field \in MATERIAL_FIELDS /\ pick(current, field) = current[field]
  BY <1>1 DEF BLOCKING_CHANGES, MATERIAL_FIELDS, pick
<1>4. pick(stored, "ofac_state") = "no_match"
  <2>1. "ofac_state" \in BLOCKING_CHANGES
    BY DEF BLOCKING_CHANGES
  <2> HIDE DEF current
  <2> QED BY <1>1, <1>2, <1>3, <2>1
<1>5. stored # Nothing
  <2>1. pick(Nothing, "ofac_state") = NOT_RETURNED
    BY DEF pick, Nothing, NotReturned
  <2> QED
    BY <1>4, <2>1 DEF NOT_RETURNED
<1>6. \A field \in BLOCKING_CHANGES : field \in DOMAIN stored /\ pick(stored, field) = stored[field]
  BY <1>3, <1>5, ApprovedAssumption DEF pick
<1>7. \A field \in BLOCKING_CHANGES \ {"ofac_state"} : current[field] = pick(record, field)
  <2> HIDE DEF current
  <2> QED BY <1>1 DEF BLOCKING_CHANGES
<1> QED
  BY <1>2, <1>3, <1>4, <1>6, <1>7

LEMMA RecheckStep ==
    ASSUME VettingInv, Recheck
    PROVE  VettingInv'
<1> DEFINE changesOf(record) == diff_findings(Approved[Ein], collect_findings(record))
           blockingOf(record) == {change \in changesOf(record) : change.field \in BLOCKING_CHANGES}
           entryOf(record) ==
               IF record = Nothing THEN Entry("hold", {})
               ELSE IF blockingOf(record) # {} \/ concerns(collect_findings(record), 120) # {}
                    THEN Entry("hold", changesOf(record)) ELSE Entry("release", changesOf(record))
<1>1. PICK record \in Checked :
          /\ records' = [records EXCEPT ![Ein] = record]
          /\ Writes(entryOf(record))
  BY DEF Recheck
<1> DEFINE entry == entryOf(record)
<1>2. /\ pc = "deciding" /\ program = "payout" /\ Finish
      /\ UNCHANGED <<api, program, snapshots, rows, runs, moves, verified>>
  BY DEF Recheck, Turn
<1>3. /\ Ein \in EinSet /\ records'[Ein] = record /\ DOMAIN records' = EinSet
      /\ \A ein \in EinSet \ {Ein} : records'[ein] = records[ein]
  BY <1>1, <1>2, EinOfTurn DEF VettingInv, TypeInv
<1>4. entry.ein = Ein /\ entry.outcome \in {"hold", "release"}
  BY DEF Entry
<1>5. Justified(entry, record)
  <2>1. CASE entry.outcome = "release"
    <3>1. /\ record # Nothing /\ blockingOf(record) = {}
          /\ concerns(collect_findings(record), 120) = {}
      BY <2>1 DEF Entry
    <3>2. \A change \in changesOf(record) : change.field \notin BLOCKING_CHANGES
      <4> HIDE DEF changesOf
      <4> QED BY <3>1
    <3>3. SaysNothingAgainst(record, 120)
      BY <3>1, UnconcernedRecord
    <3>4. /\ pick(Approved[Ein], "ofac_state") = "no_match"
          /\ \A field \in BLOCKING_CHANGES \ {"ofac_state"} :
                field \in DOMAIN Approved[Ein] /\ pick(record, field) = Approved[Ein][field]
      BY <1>3, <3>1, <3>2, Released
    <3> HIDE DEF entry
    <3> QED
      BY <1>4, <2>1, <3>1, <3>3, <3>4 DEF Justified
  <2>2. CASE entry.outcome # "release"
    <3> HIDE DEF entry
    <3> QED BY <2>2, <1>4, HeldBack DEF PassingOutcomes
  <2> QED BY <2>1, <2>2
<1>6. IsSequence(entries') /\ ProgressInv' /\ EntriesInv'
  <2>1. Writes(entry)
    BY <1>1
  <2> HIDE DEF entry
  <2> QED BY <1>2, <1>3, <1>4, <1>5, <2>1, EntryWritten
<1>7. TypeInv'
  BY <1>2, <1>3, <1>6, TurnEnds DEF VettingInv, TypeInv
<1>8. AnsweredInv' /\ SnapshotInv'
  BY <1>2 DEF VettingInv, AnsweredInv, SnapshotInv
<1> QED
  BY <1>6, <1>7, <1>8 DEF VettingInv

(* An audit's turn: its entry, and the snapshot it leaves. *)
LEMMA AuditStep ==
    ASSUME VettingInv, Audit
    PROVE  /\ VettingInv'
           /\ LET entry == entries'[Len(entries')]
                  before == verified[entry.ein]
                  after == records[entry.ein]
              IN  /\ entry.ein = Eins[Len(entries')]
                  /\ entry.changes =
                        IF before = Nothing \/ after = Nothing THEN {}
                        ELSE diff_findings(collect_findings(before), collect_findings(after))
<1> DEFINE record == records[Ein]
           findings == collect_findings(record)
           changes == IF snapshots[Ein] = Nothing THEN {}
                      ELSE diff_findings(snapshots[Ein], findings)
           entry == IF record = Nothing THEN Entry("review", {})
                    ELSE Entry(outcome_for(findings, changes), changes)
<1>1. /\ pc = "deciding" /\ program = "portfolio" /\ Finish
      /\ UNCHANGED <<api, program, records, rows, runs, moves>>
  BY DEF Audit, Turn
<1>2. Writes(entry)
  BY DEF Audit
<1>3. /\ record = Nothing => UNCHANGED <<snapshots, verified>>
      /\ record # Nothing => /\ snapshots' = [snapshots EXCEPT ![Ein] = findings]
                             /\ verified' = [verified EXCEPT ![Ein] = record]
  BY DEF Audit
<1>4. /\ Ein \in EinSet
      /\ DOMAIN snapshots = EinSet /\ DOMAIN verified = EinSet
      /\ snapshots[Ein] = IF verified[Ein] = Nothing THEN Nothing
                          ELSE collect_findings(verified[Ein])
  BY <1>1, EinOfTurn DEF VettingInv, TypeInv, SnapshotInv
<1>5. /\ entry.ein = Ein /\ entry.outcome \in {"suspend", "review", "retain"}
      /\ entry.changes = IF record = Nothing THEN {} ELSE changes
  <2> HIDE DEF changes, findings
  <2> QED BY Judged DEF Entry
<1>6. Justified(entry, record)
  <2>1. CASE entry.outcome = "retain"
    <3>1. record # Nothing /\ concerns(findings, 120) = {}
      <4> HIDE DEF changes, findings
      <4> QED BY <2>1, Judged DEF Entry
    <3>2. SaysNothingAgainst(record, 120)
      BY <3>1, UnconcernedRecord
    <3> HIDE DEF entry
    <3> QED
      BY <2>1, <3>1, <3>2 DEF Justified
  <2>2. CASE entry.outcome # "retain"
    <3> HIDE DEF entry
    <3> QED BY <2>2, <1>5, HeldBack DEF PassingOutcomes
  <2> QED BY <2>1, <2>2
<1>7. /\ IsSequence(entries') /\ ProgressInv' /\ EntriesInv'
      /\ Len(entries') = next /\ entries'[Len(entries')] = entry
  <2>1. records'[Ein] = record
    BY <1>1
  <2> HIDE DEF entry
  <2> QED BY <1>1, <1>2, <1>5, <1>6, <2>1, EntryWritten
<1>8. TypeInv'
  <2>1. DOMAIN snapshots' = EinSet /\ DOMAIN verified' = EinSet
    BY <1>3, <1>4
  <2> QED
    BY <1>1, <1>7, <2>1, TurnEnds DEF VettingInv, TypeInv
<1>9. AnsweredInv'
  BY <1>1 DEF VettingInv, AnsweredInv
<1>10. SnapshotInv'
  <2> HIDE DEF findings
  <2>1. CASE record = Nothing
    BY <2>1, <1>3 DEF VettingInv, SnapshotInv
  <2>2. CASE record # Nothing
    <3> SUFFICES ASSUME NEW ein \in EinSet
                 PROVE  snapshots'[ein] = IF verified'[ein] = Nothing THEN Nothing
                                          ELSE collect_findings(verified'[ein])
      BY DEF SnapshotInv
    <3>1. CASE ein = Ein
      BY <2>2, <3>1, <1>3, <1>4 DEF findings
    <3>2. CASE ein # Ein
      BY <2>2, <3>2, <1>3, <1>4 DEF VettingInv, SnapshotInv
    <3> QED BY <3>1, <3>2
  <2> QED BY <2>1, <2>2
<1>11. changes = IF verified[Ein] = Nothing THEN {}
                 ELSE diff_findings(collect_findings(verified[Ein]), collect_findings(record))
  BY <1>4, FindingsOf
<1> HIDE DEF entry, changes, findings
<1> QED
  BY <1>5, <1>7, <1>8, <1>9, <1>10, <1>11 DEF VettingInv, Ein

(* What one row may become, and why. *)
RowKept(ein) ==
    /\ \A field \in SYNCED_FIELDS :
          rows'[ein][field] # rows[ein][field] =>
              /\ ~Absent(rows'[ein][field])
              /\ rows'[ein][field] = pick(records[ein], field)
    /\ rows'[ein].verified_at # rows[ein].verified_at =>
          pick(records[ein], "ein") = ein

LEMMA SynchronizeStep ==
    ASSUME VettingInv, Synchronize
    PROVE  VettingInv' /\ \A ein \in EinSet : RowKept(ein)
<1> DEFINE row == rows[Ein]
           merged == merge(row, records[Ein])
<1>1. /\ pc = "deciding" /\ program = "crm" /\ Finish
      /\ UNCHANGED <<api, program, records, entries, snapshots, runs, moves, verified>>
  BY DEF Synchronize, Turn
<1>2. /\ records[Ein] = Nothing =>
             rows' = [rows EXCEPT ![Ein] = [row EXCEPT !.last_sync_attempt_at = runs]]
      /\ records[Ein] # Nothing =>
             rows' = [rows EXCEPT ![Ein] = [merged EXCEPT !.verified_at = runs]]
  BY DEF Synchronize
<1>3. /\ Ein \in EinSet /\ DOMAIN rows = EinSet
      /\ row = [field \in DOMAIN row |-> row[field]]
      /\ SYNCED_FIELDS \cup {"verified_at"} \subseteq DOMAIN row
  BY <1>1, EinOfTurn DEF VettingInv, TypeInv
<1>4. "verified_at" \notin SYNCED_FIELDS /\ "last_sync_attempt_at" \notin SYNCED_FIELDS
  BY DEF SYNCED_FIELDS
<1>5. /\ merged = [field \in DOMAIN row |-> merged[field]]
      /\ \A field \in SYNCED_FIELDS :
            merged[field] = IF ~Absent(pick(records[Ein], field))
                            THEN pick(records[Ein], field) ELSE row[field]
  BY <1>3 DEF merge
<1>6. \A ein \in EinSet \ {Ein} : rows'[ein] = rows[ein]
  <2> HIDE DEF merged, row
  <2> QED BY <1>2, <1>3
<1>7. CASE records[Ein] = Nothing
  <2>1. rows'[Ein] = [row EXCEPT !.last_sync_attempt_at = runs] /\ DOMAIN rows' = EinSet
    BY <1>2, <1>3, <1>7
  <2>2. /\ rows'[Ein] = [field \in DOMAIN rows'[Ein] |-> rows'[Ein][field]]
        /\ SYNCED_FIELDS \cup {"verified_at"} \subseteq DOMAIN rows'[Ein]
        /\ \A field \in SYNCED_FIELDS \cup {"verified_at"} : rows'[Ein][field] = row[field]
    <3> HIDE DEF row
    <3> QED BY <1>3, <1>4, <2>1
  <2>3. \A ein \in EinSet : RowKept(ein)
    BY <1>6, <2>2 DEF RowKept
  <2>4. TypeInv'
    BY <1>1, <1>6, <2>1, <2>2, TurnEnds DEF VettingInv, TypeInv
  <2> QED
    BY <1>1, <2>3, <2>4 DEF VettingInv, ProgressInv, AnsweredInv, SnapshotInv, EntriesInv
<1>8. CASE records[Ein] # Nothing
  <2>1. rows'[Ein] = [merged EXCEPT !.verified_at = runs] /\ DOMAIN rows' = EinSet
    BY <1>2, <1>3, <1>8
  <2>2. /\ rows'[Ein] = [field \in DOMAIN rows'[Ein] |-> rows'[Ein][field]]
        /\ SYNCED_FIELDS \cup {"verified_at"} \subseteq DOMAIN rows'[Ein]
        /\ \A field \in SYNCED_FIELDS : rows'[Ein][field] = merged[field]
    <3> HIDE DEF row, merged
    <3> QED BY <1>3, <1>4, <1>5, <2>1
  <2>3. pick(records[Ein], "ein") = Ein
    BY <1>1, <1>3, <1>8 DEF VettingInv, AnsweredInv
  <2>4. \A ein \in EinSet : RowKept(ein)
    <3> HIDE DEF merged
    <3> QED BY <1>5, <1>6, <2>2, <2>3 DEF RowKept
  <2>5. TypeInv'
    BY <1>1, <1>6, <2>1, <2>2, TurnEnds DEF VettingInv, TypeInv
  <2> QED
    BY <1>1, <2>4, <2>5 DEF VettingInv, ProgressInv, AnsweredInv, SnapshotInv, EntriesInv
<1> QED
  BY <1>7, <1>8

(* The steps that begin, ask or give up, and the API's own. *)
LEMMA StartStep ==
    ASSUME VettingInv, Start
    PROVE  VettingInv' /\ entries' = <<>>
<1>1. /\ pc' = IF program \in {"onboarding", "payout"} THEN "deciding" ELSE "asking"
      /\ next' = 1 /\ entries' = <<>>
      /\ records' = [ein \in EinSet |-> Nothing]
      /\ UNCHANGED <<program, snapshots, rows, verified>>
  BY DEF Start
<1>2. IsSequence(entries') /\ Len(entries') = 0
  BY <1>1 DEF IsSequence
<1>3. TypeInv'
  BY <1>1, <1>2, EinsAssumption DEF VettingInv, TypeInv
<1>4. ProgressInv' /\ EntriesInv'
  BY <1>1, <1>2 DEF VettingInv, ProgressInv, EntriesInv
<1>5. AnsweredInv' /\ SnapshotInv'
  BY <1>1 DEF VettingInv, AnsweredInv, SnapshotInv
<1> QED
  BY <1>1, <1>3, <1>4, <1>5 DEF VettingInv

LEMMA AskBatchStep ==
    ASSUME VettingInv, AskBatch
    PROVE  VettingInv'
<1>1. /\ pc = "asking" /\ pc' \in {"asking", "deciding"}
      /\ records' = [ein \in EinSet |->
                        IF ein \in ToSet(Batch) THEN Returned(ein) ELSE records[ein]]
      /\ UNCHANGED <<program, entries, snapshots, rows, verified>>
  BY DEF AskBatch
<1>2. Size \in Nat
  BY EinsAssumption, VettingAssumption DEF Size
<1>3. pc' = "deciding" => next' = 1
  BY <1>1, <1>2 DEF AskBatch, VettingInv, TypeInv
<1>4. next' \in Nat \ {0}
  BY <1>1, <1>2 DEF AskBatch, VettingInv, TypeInv
<1>5. TypeInv'
  BY <1>1, <1>3, <1>4, EinsAssumption DEF VettingInv, TypeInv
<1>6. ProgressInv' /\ EntriesInv'
  <2>1. entries = <<>> /\ entries' = <<>>
    BY <1>1 DEF VettingInv, ProgressInv
  <2>2. Len(entries') = 0
    BY <2>1
  <2> QED
    BY <1>1, <1>3, <2>1, <2>2 DEF ProgressInv, EntriesInv
<1>7. AnsweredInv'
  BY <1>1 DEF VettingInv, AnsweredInv, Returned
<1>8. SnapshotInv'
  BY <1>1 DEF VettingInv, SnapshotInv
<1> QED
  BY <1>5, <1>6, <1>7, <1>8 DEF VettingInv

LEMMA OtherSteps ==
    ASSUME VettingInv, Abort \/ ApiMoves \/ UNCHANGED vars
    PROVE  VettingInv' /\ UNCHANGED entries
<1>1. /\ UNCHANGED <<program, records, entries, snapshots, rows, verified, next>>
      /\ pc' # pc => pc = "asking" /\ pc' = "aborted"
  BY DEF Abort, ApiMoves, vars
<1> QED
  BY <1>1 DEF VettingInv, TypeInv, ProgressInv, AnsweredInv, SnapshotInv, EntriesInv

LEMMA StepInv ==
    VettingInv /\ [Next]_vars => VettingInv'
BY StartStep, AskBatchStep, OtherSteps, OnboardStep, ScreenGrantStep, SynchronizeStep,
   RecheckStep, AuditStep DEF Next

LEMMA Invariance ==
    Spec => []VettingInv
BY InitInv, StepInv, PTL DEF Spec

-----------------------------------------------------------------------------
(* Theorems.                                                               *)

(* Nobody passes unverified: whatever the API answers, changes or fails to
   answer, an approval, an advancement, a release or a retention is of a record
   of this run with nothing against the organization (route, screen,
   outcome_for and the recheck's decision of ex_26, ex_27, ex_29 and ex_30). *)
THEOREM VerifiedTheorem ==
    Spec => []NothingUnverifiedPasses
<1>1. VettingInv => NothingUnverifiedPasses
  <2> SUFFICES ASSUME VettingInv, NEW i \in DOMAIN entries
               PROVE  Justified(entries[i], records[entries[i].ein])
    BY DEF NothingUnverifiedPasses
  <2>1. i \in 1 .. Len(entries)
    BY Appended DEF VettingInv, TypeInv
  <2> QED
    BY <2>1 DEF VettingInv, EntriesInv
<1> QED
  BY <1>1, Invariance, PTL

(* No synchronization erases a field, nor marks as verified a row no record was
   answered for (merge and main of ex_28). *)
THEOREM SyncTheorem ==
    Spec => SyncNeverErases
<1>1. VettingInv /\ [Next]_vars => \A ein \in EinSet : RowKept(ein)
  <2> SUFFICES ASSUME VettingInv, [Next]_vars
               PROVE  \A ein \in EinSet : RowKept(ein)
    OBVIOUS
  <2>1. CASE Synchronize
    BY <2>1, SynchronizeStep
  <2>2. CASE ~Synchronize
    <3>1. rows' = rows
      BY <2>2 DEF Next, vars, Start, AskBatch, Abort, ApiMoves, Onboard, ScreenGrant,
                  Recheck, Audit
    <3> QED
      BY <3>1 DEF RowKept
  <2> QED BY <2>1, <2>2
<1>2. (\A ein \in EinSet : RowKept(ein)) =>
        [\A ein \in EinSet :
          /\ \A field \in SYNCED_FIELDS :
                rows'[ein][field] # rows[ein][field] =>
                    /\ ~Absent(rows'[ein][field])
                    /\ rows'[ein][field] = pick(records[ein], field)
          /\ rows'[ein].verified_at # rows[ein].verified_at =>
                pick(records[ein], "ein") = ein]_vars
  BY DEF RowKept
<1> QED
  BY <1>1, <1>2, Invariance, PTL DEF Spec, SyncNeverErases

(* An audit's entry tells every change since the record last read, whatever
   runs failed in between (main of ex_30). *)
THEOREM AuditTheorem ==
    Spec => AuditTellsEveryChange
<1> DEFINE Told ==
        program = "portfolio" /\ entries' # entries /\ entries' # <<>> =>
          LET entry == entries'[Len(entries')]
              before == verified[entry.ein]
              after == records[entry.ein]
          IN  /\ entry.ein = Eins[Len(entries')]
              /\ entry.changes =
                    IF before = Nothing \/ after = Nothing THEN {}
                    ELSE diff_findings(collect_findings(before), collect_findings(after))
<1>1. VettingInv /\ [Next]_vars => Told
  <2> SUFFICES ASSUME VettingInv, [Next]_vars, program = "portfolio",
                      entries' # entries, entries' # <<>>
               PROVE  Audit
    BY AuditStep
  <2>1. ~(Onboard \/ ScreenGrant \/ Recheck)
    BY DEF Onboard, ScreenGrant, Recheck, Turn
  <2>2. ~(Start \/ AskBatch \/ Synchronize)
    BY StartStep DEF AskBatch, Synchronize
  <2>3. ~(Abort \/ ApiMoves \/ UNCHANGED vars)
    BY OtherSteps
  <2> QED
    BY <2>1, <2>2, <2>3 DEF Next
<1> QED
  BY <1>1, Invariance, PTL DEF Spec, AuditTellsEveryChange
=============================================================================
