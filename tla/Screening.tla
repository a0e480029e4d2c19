----------------------------- MODULE Screening -----------------------------
(***************************************************************************)
(* How the workflow examples read a record: one flat set of findings, the  *)
(* concerns in it, what changed since another reading, and whether a name  *)
(* or an address agrees with what was submitted.                           *)
(* (python/examples/lib: screening.py, matching.py, print.py)              *)
(*                                                                         *)
(* A record is a function from the names of the fields the API returned to *)
(* their values; every value is a string, true, false and null included.   *)
(***************************************************************************)
EXTENDS ClientSurface, FiniteSetsExt

CONSTANTS
    WithUid, NotIncluded,   \* the OFAC sentences in which each wording occurs
    DaysOld,                \* date -> its age; a text not in it is no date
    Words,                  \* name -> its words, in capitals
    NormalAddress           \* address line or ZIP -> its normal form

ASSUME DaysOldAssumption == \A date \in DOMAIN DaysOld : DaysOld[date] \in Int

NULL == "null"
NOT_RETURNED == "not returned"

Absent(value) == value \in {NULL, NOT_RETURNED}
Truthy(value) == value \notin {NULL, NOT_RETURNED, ""}

pick(source, key) == IF key \in DOMAIN source THEN source[key] ELSE NOT_RETURNED

-----------------------------------------------------------------------------
(* Findings.                                                               *)

(* A UID is a match, whatever else the sentence says. *)
ofac_state(nonprofit) ==
    LET ofac == Project(nonprofit, OfacFields)
        status == pick(ofac, "status")
    IN  CASE ofac = NotReturned -> "unavailable"
          [] Absent(status) -> "null"
          [] status \in WithUid -> "match"
          [] status \in NotIncluded \ WithUid -> "no_match"
          [] OTHER -> "unrecognized"

SourceDates == {"most_recent_bmf", "most_recent_pub78", "organization_info_last_modified"}

(* The oldest date that can be read; one that cannot is passed over. *)
oldest_source_age_days(nonprofit) ==
    LET dates == {pick(nonprofit, field) : field \in SourceDates} \cap DOMAIN DaysOld
    IN  IF dates = {} THEN None ELSE Max({DaysOld[date] : date \in dates})

collect_findings(nonprofit) ==
    LET bmf == Project(nonprofit, BmfFields)
        pub78 == Project(nonprofit, Pub78Fields)
        aroe == Project(nonprofit, AroeFields)
    IN  [organization_name |-> pick(nonprofit, "organization_name"),
         bmf_returned |-> bmf # NotReturned,
         bmf_status |-> pick(bmf, "status"),
         exempt_status_code |-> pick(bmf, "exempt_status_code"),
         foundation_type_code |-> pick(bmf, "foundation_type_code"),
         subsection_description |-> pick(bmf, "subsection_description"),
         pub78_returned |-> pub78 # NotReturned,
         pub78_verified |-> pick(pub78, "verified"),
         revocation_code |-> pick(aroe, "revocation_code"),
         revocation_date |-> pick(aroe, "revocation_date"),
         reinstatement_date |-> pick(aroe, "reinstatement_date"),
         revoked |-> \/ Truthy(pick(aroe, "revocation_code"))
                     \/ Truthy(pick(aroe, "revocation_date")),
         reinstated |-> Truthy(pick(aroe, "reinstatement_date")),
         ofac_state |-> ofac_state(nonprofit),
         irs_bmf_pub78_conflict |-> pick(nonprofit, "irs_bmf_pub78_conflict"),
         oldest_source_age_days |-> oldest_source_age_days(nonprofit)]

(* Mutant: a screening the API did not answer is no concern. *)
concernsOfMatchesOnly(findings, stale_after_days) ==
    {reason \in {"revoked", "match", "stale"} :
        \/ reason = "revoked" /\ findings.revoked
        \/ reason = "match" /\ findings.ofac_state = "match"
        \/ reason = "stale" /\ \/ findings.oldest_source_age_days = None
                               \/ findings.oldest_source_age_days > stale_after_days}

(* The reasons a workflow might want to stop. *)
concerns(findings, stale_after_days) ==
    LET age == findings.oldest_source_age_days
        holds ==
            [unreinstated |-> findings.revoked /\ ~findings.reinstated,
             lapsed |-> findings.revoked /\ findings.reinstated,
             ofac_match |-> findings.ofac_state = "match",
             ofac_unknown |-> findings.ofac_state \notin {"no_match", "match"},
             conflict |-> findings.irs_bmf_pub78_conflict = "true",
             not_exempt |-> findings.bmf_status = "false",
             not_listed |-> findings.pub78_verified = "false",
             no_bmf |-> ~findings.bmf_returned,
             no_pub78 |-> ~findings.pub78_returned,
             undatable |-> age = None,
             stale |-> age # None /\ age > stale_after_days]
    IN  {reason \in DOMAIN holds : holds[reason]}

MATERIAL_FIELDS ==
    {"organization_name", "bmf_status", "exempt_status_code", "pub78_verified",
     "revocation_code", "revocation_date", "reinstatement_date", "ofac_state",
     "irs_bmf_pub78_conflict", "foundation_type_code", "subsection_description"}

(* No earlier findings are findings without a field. *)
diff_findings(previous, current) ==
    {[field |-> field, before |-> pick(previous, field), after |-> pick(current, field)] :
        field \in {f \in MATERIAL_FIELDS : pick(previous, f) # pick(current, f)}}

-----------------------------------------------------------------------------
(* Names and addresses.                                                    *)

LEGAL_SUFFIXES == {"INC", "INCORPORATED", "LLC", "LTD", "CO", "CORP", "CORPORATION"}

ABBREVIATIONS ==
    ("&" :> "AND" @@ "ASSN" :> "ASSOCIATION" @@ "ASSOC" :> "ASSOCIATION" @@ "CTR" :> "CENTER"
     @@ "CENTRE" :> "CENTER" @@ "FDN" :> "FOUNDATION" @@ "FND" :> "FOUNDATION"
     @@ "INTL" :> "INTERNATIONAL" @@ "NATL" :> "NATIONAL" @@ "ORG" :> "ORGANIZATION"
     @@ "SOC" :> "SOCIETY" @@ "ST" :> "SAINT" @@ "UNIV" :> "UNIVERSITY"
     @@ "DEPT" :> "DEPARTMENT" @@ "MT" :> "MOUNT")

(* Abbreviations are spelled out and suffixes dropped from the end, but never
   the last word. *)
normalize_name(name) ==
    LET words == Words[name]
        expanded == [i \in DOMAIN words |->
                        IF words[i] \in DOMAIN ABBREVIATIONS
                        THEN ABBREVIATIONS[words[i]] ELSE words[i]]
        kept == {n \in DOMAIN words : n = 1 \/ expanded[n] \notin LEGAL_SUFFIXES}
    IN  IF words = <<>> THEN <<>> ELSE SubSeq(expanded, 1, Max(kept))

compare_name(submitted, candidates) ==
    LET comparable == {name \in candidates : ~Absent(name)}
    IN  CASE comparable = {} -> "not_returned"
          [] submitted \in comparable -> "exact"
          [] /\ submitted \notin comparable
             /\ \E name \in comparable : normalize_name(name) = normalize_name(submitted)
             -> "normalized"
          [] OTHER -> "mismatch"

compare_address_field(submitted, returned) ==
    CASE Absent(returned) -> "not_returned"
      [] ~Absent(returned) /\ ~Truthy(submitted) -> "not_submitted"
      [] ~Absent(returned) /\ Truthy(submitted) /\ submitted = returned -> "exact"
      [] OTHER -> IF NormalAddress[submitted] = NormalAddress[returned]
                  THEN "normalized" ELSE "mismatch"

is_agreement(outcome) == outcome \in {"exact", "normalized"}
=============================================================================
