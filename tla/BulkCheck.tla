----------------------------- MODULE BulkCheck -----------------------------
(***************************************************************************)
(* One check_bulk of the Python SDK, from the caller's list of EINs to the *)
(* organizations and the EINs without a record it is given back.           *)
(* (python/src/pactman_nonprofit_check_plus: client.py, ein.py, _http.py)  *)
(*                                                                         *)
(* The list is the caller's: another thread, or a task that runs while     *)
(* this one awaits an answer, may change it at any time.  The request may  *)
(* be lost and sent again.  The API may answer in any of the shapes the    *)
(* SDK has been taught.  BulkAgainstServer runs this client against the    *)
(* repository's own server.                                                *)
(***************************************************************************)
EXTENDS Integers, Sequences, SequencesExt

CONSTANTS
    Values,         \* what a list may hold: [kind, ein, style]
    MaxLength,      \* bound: the longest list a caller passes
    MaxBulkEins,    \* MAX_BULK_EINS
    Known,          \* the EINs the API has a record of
    MaxEdits,       \* bound: how often the caller changes its list
    MaxAttempts     \* max_retries + 1

(* An EIN with or without hyphen or blanks, or something that is not one:
   None, not a string, a blank string, a string of another shape. *)
Spelled(ein, style) == [kind |-> "ein", ein |-> ein, style |-> style]
Unusable(kind) == [kind |-> kind, ein |-> "no EIN", style |-> "plain"]

BulkKinds == {"missing", "not_a_string", "empty", "malformed"}

(* What is no EIN in an answer: an entry of `data` that is not an object, or a
   blank between two commas. *)
Noise == "noise"

ASSUME BulkCheckAssumption ==
    /\ MaxLength \in Nat /\ MaxBulkEins \in Nat /\ MaxAttempts \in Nat \ {0}
    /\ MaxEdits \in Nat
    /\ \A value \in Values : value.kind \in BulkKinds \cup {"ein"} /\ value.ein # Noise

(* What a caller may pass: a list, or by mistake the string of one EIN. *)
Lists == [kind : {"list"}, items : BoundedSeq(Values, MaxLength)]
BareString == [kind |-> "string", items |-> <<>>]

VARIABLES
    argument,       \* the caller's list, now
    dedupe,         \* the argument of that name
    pc,             \* where check_bulk is
    supplied,       \* the local of that name, the list as it was copied
    payload,        \* the body of the request
    requests,       \* the bodies put on the wire, attempt by attempt
    result,         \* what the caller is told
    passed,         \* (history) the argument when check_bulk was called
    edits           \* (history) the changes since

vars == <<argument, dedupe, pc, supplied, payload, requests, result, passed, edits>>

Pending == [kind |-> "pending"]

(* PactmanValidationError, with the reason and the failing indices. *)
Invalid(reason, indices) ==
    [kind |-> "invalid", reason |-> reason, indices |-> indices]

Init ==
    /\ argument \in Lists \cup {BareString}
    /\ dedupe \in BOOLEAN
    /\ pc = "idle"
    /\ supplied = <<>> /\ payload = <<>> /\ requests = <<>>
    /\ result = Pending
    /\ passed = argument /\ edits = 0

-----------------------------------------------------------------------------
(* Before anything is sent.                                                *)

Reject(reason, indices) ==
    /\ pc' = "done"
    /\ result' = Invalid(reason, indices)

(* The type checks of _bulk_payload, and list(eins). *)
Materialize ==
    /\ pc = "idle"
    /\ passed' = argument
    /\ supplied' = argument.items
    /\ \/ /\ argument.kind # "list" /\ Reject("not a sequence", {})
       \/ /\ argument.kind = "list" /\ argument.items = <<>>
          /\ Reject("no EIN", {})
       \/ /\ argument.kind = "list" /\ argument.items # <<>>
          /\ pc' = "validating" /\ UNCHANGED result
    /\ UNCHANGED <<argument, dedupe, payload, requests, edits>>

(* _ein_issue, for every value: all the failures are reported at once. *)
Issues(values) == {i \in DOMAIN values : values[i].kind # "ein"}

(* _clean: one EIN is one string, however it was spelled. *)
Clean(value) == value.ein

(* list(dict.fromkeys(normalized)) *)
FirstSeen(eins) ==
    FoldLeft(LAMBDA kept, ein : IF ein \in ToSet(kept) THEN kept
                                ELSE Append(kept, ein),
             <<>>, eins)

(* Mutant: equal spellings are dropped before they are normalized. *)
BodyOfSpellings(values) ==
    LET kept == IF dedupe THEN FirstSeen(values) ELSE values
    IN  [i \in DOMAIN kept |-> Clean(kept[i])]

BodyOf(values) ==
    LET normalized == [i \in DOMAIN values |-> Clean(values[i])]
    IN  IF dedupe THEN FirstSeen(normalized) ELSE normalized

(* Mutant: the caller's list is read again once it has been validated. *)
ValidateReadingAgain ==
    /\ pc = "validating"
    /\ \/ Issues(supplied) # {} /\ Reject("bad EIN", Issues(supplied))
          /\ UNCHANGED payload
       \/ /\ Issues(supplied) = {}
          /\ payload' = BodyOf(argument.items)
          /\ pc' = "sending" /\ UNCHANGED result
    /\ UNCHANGED <<argument, dedupe, supplied, requests, passed, edits>>

(* normalize_eins, the dedupe and the limit on what is left. *)
Validate ==
    /\ pc = "validating"
    /\ LET bad == Issues(supplied)
           body == BodyOf(supplied)
       IN  \/ bad # {} /\ Reject("bad EIN", bad) /\ UNCHANGED payload
           \/ /\ bad = {} /\ Len(body) > MaxBulkEins
              /\ Reject("too many", {}) /\ UNCHANGED payload
           \/ /\ bad = {} /\ Len(body) <= MaxBulkEins
              /\ payload' = body
              /\ pc' = "sending" /\ UNCHANGED result
    /\ UNCHANGED <<argument, dedupe, supplied, requests, passed, edits>>

-----------------------------------------------------------------------------
(* On the wire.                                                            *)

(* The plan serialized the payload once; every attempt sends that. *)
Send ==
    /\ pc = "sending"
    /\ requests' = Append(requests, payload)
    /\ pc' = "waiting"
    /\ UNCHANGED <<argument, dedupe, supplied, payload, result, passed, edits>>

Retry ==
    /\ pc = "waiting"
    /\ \/ /\ Len(requests) < MaxAttempts
          /\ pc' = "sending" /\ UNCHANGED result
       \/ /\ Len(requests) = MaxAttempts
          /\ pc' = "done" /\ result' = [kind |-> "failed"]
    /\ UNCHANGED <<argument, dedupe, supplied, payload, requests, passed, edits>>

(* What is left of a list without the entries of a set, repeated or not. *)
Dropping(list, set) ==
    FoldLeft(LAMBDA kept, entry : IF entry \in set THEN kept ELSE Append(kept, entry),
             <<>>, list)

(* SELECT ... WHERE ein IN (...): a repeated EIN is one row, in any order;
   an EIN without a record is named as often as it was asked for. *)
Matches(eins) == ToSet(eins) \cap Known
Misses(eins) == Dropping(eins, Known)

(* The shapes of a 200: `data` an array or wrapped in an object; `errors` a
   list or one object, its `eins` a list or text; noise in either. *)
DataOf(eins, shape) ==
    [shape |-> shape, entries |-> Append(SetToSeq(Matches(eins)), Noise)]

ErrorsOf(eins, shape, form) ==
    [shape |-> IF Misses(eins) = <<>> THEN "none" ELSE shape,
     details |-> <<[form |-> form, eins |-> <<Noise>> \o Misses(eins)]>>]

(* Mutant: only the published shape is understood. *)
ExtractPublishedOnly(data) ==
    IF data.shape = "array"
    THEN Dropping(data.entries, {Noise}) ELSE <<>>

(* _extract_organizations and _records. *)
ExtractOrganizations(data) ==
    IF data.shape \in {"array", "wrapped"}
    THEN Dropping(data.entries, {Noise}) ELSE <<>>

(* normalize_api_errors: a list, or one object as a list of it. *)
NormalizeApiErrors(errors) ==
    IF errors.shape \in {"list", "object"} THEN errors.details ELSE <<>>

(* _extract_not_found_eins: the EINs of every detail, as a list or as text
   with commas. *)
ExtractNotFoundEins(details) ==
    FlattenSeq([i \in DOMAIN details |->
        Dropping(details[i].eins, {Noise})])

(* The API answers the last request: with a 200, a 404 or another error that is
   not retried. *)
Answer(status, dataShape, errorShape, form) ==
    /\ pc = "waiting"
    /\ pc' = "done"
    /\ LET eins == requests[Len(requests)]
       IN  result' = IF status = 404 THEN [kind |-> "not found"]
                     ELSE IF status # 200 THEN [kind |-> "failed"]
                     ELSE [kind |-> "returned",
                           organizations |->
                              ExtractOrganizations(DataOf(eins, dataShape)),
                           not_found_eins |->
                              ExtractNotFoundEins(NormalizeApiErrors(
                                 ErrorsOf(eins, errorShape, form)))]
    /\ UNCHANGED <<argument, dedupe, supplied, payload, requests, passed, edits>>

-----------------------------------------------------------------------------

(* The caller changes one entry of its list, or adds one. *)
CallerEdits ==
    /\ pc \notin {"idle", "done"} /\ argument.kind = "list" /\ edits < MaxEdits
    /\ \E value \in Values :
          \/ \E i \in DOMAIN argument.items :
                argument' = [argument EXCEPT !.items[i] = value]
          \/ /\ Len(argument.items) < MaxLength
             /\ argument' = [argument EXCEPT !.items = Append(@, value)]
    /\ edits' = edits + 1
    /\ UNCHANGED <<dedupe, pc, supplied, payload, requests, result, passed>>

-----------------------------------------------------------------------------
(* Properties. *)

(* "If any one fails, the whole call raises identifying the offending index,
   and no request is made": a call is refused exactly when the list it was
   passed has a value that is no EIN, or too many or no EINs, and then nothing
   was sent and every offending index is reported (check_bulk). *)
AllOrNothing ==
    pc # "idle" /\ pc # "validating" =>
        LET items == passed.items
            eins == {items[i].ein : i \in DOMAIN items}
            size == IF dedupe THEN Cardinality(eins) ELSE Len(items)
            bad == {i \in DOMAIN items : items[i].kind # "ein"}
        IN  IF passed.kind = "list" /\ bad = {} /\ size \in 1 .. MaxBulkEins
            THEN result.kind # "invalid"
            ELSE result.kind = "invalid" /\ result.indices = bad /\ requests = <<>>

(* "Your EINs are sent exactly as supplied", in every attempt and whatever has
   become of the list since the call: the body has the EINs of the list that
   was passed, in its order, each as often as it is there or, with dedupe,
   once and where it first was. *)
SendsWhatWasPassed ==
    \A n \in DOMAIN requests :
        LET items == passed.items
            wanted == {i \in DOMAIN items : dedupe =>
                          \A j \in 1 .. i - 1 : items[j].ein # items[i].ein}
        IN  /\ Len(requests[n]) = Cardinality(wanted)
            /\ \A i \in wanted :
                  requests[n][Cardinality({j \in wanted : j <= i})] = items[i].ein

(* Every EIN passed is accounted for: it comes back as an organization or
   among not_found_eins, never as both and never as neither, whatever the
   shape of the response. *)
EveryEinAccountedFor ==
    result.kind = "returned" =>
        LET found == ToSet(result.organizations)
            missing == ToSet(result.not_found_eins)
        IN  /\ found \cup missing = {passed.items[i].ein : i \in DOMAIN passed.items}
            /\ found \cap missing = {}
=============================================================================
