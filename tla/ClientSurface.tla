--------------------------- MODULE ClientSurface ---------------------------
(***************************************************************************)
(* What a caller of the Python package sees: the options a client is built *)
(* with, the errors it raises, a result as it is shaped from the envelope, *)
(* and the grouped views over a record.  Pure operators; a record is a     *)
(* function from the names of the fields the API returned to their values  *)
(* (see ResponseContract for values and for paths in a response).          *)
(***************************************************************************)
EXTENDS Integers, ResponseContract

\* The retry policy in milliseconds.
Policy == INSTANCE RetryPolicy WITH Grain <- 1, Parts <- 1

\* None, where a number is expected.
None == -1

(***************************************************************************)
(* The options of a client.  Each is given by what the validation tells    *)
(* apart: "none" is an omitted option, and a number is one of "finite",    *)
(* "zero", "negative", "infinite", "boolean", "not_a_number".              *)
(***************************************************************************)

Omitted == [api_key |-> "none", environment |-> "none", base_url |-> "none",
            timeout |-> "none", retry |-> Policy!Keep, max_requests_per_second |-> "none"]

ConfigurationError == [raised |-> "PactmanConfigurationError"]

ValidApiKey(api_key) == api_key \in {"key", "padded key"}

KnownEnvironment(environment) == environment \in {"none", "production"}

\* A URL needs a scheme and a host, and the scheme must be http or https.
ValidBaseUrl(base_url) == base_url \in {"http://host", "https://host"}

BaseUrlUsable(options) ==
    IF options.base_url = "none"
    THEN KnownEnvironment(options.environment)
    ELSE ValidBaseUrl(options.base_url)

\* A timeout and a rate may be omitted; one that is given must be a finite
\* number above zero, and a boolean is no number.
PositiveOrOmitted(number) == number \in {"none", "finite"}

DefaultRetry == [max_retries |-> 2, initial_delay |-> 500, max_delay |-> 8000,
                 backoff_factor |-> 2, jitter |-> TRUE, respect_retry_after |-> TRUE,
                 retryable_statuses |-> {429, 500, 502, 503, 504}]

\* What a client is built with, or the error the constructor raises.  An
\* explicit base URL leaves no named environment, and is used even when the
\* environment given beside it is unknown.
ResolveConfig(options) ==
    LET retry == Policy!ResolveRetry(DefaultRetry, options.retry)
    IN  IF /\ ValidApiKey(options.api_key)
           /\ BaseUrlUsable(options)
           /\ PositiveOrOmitted(options.timeout)
           /\ retry # Policy!Rejected
           /\ PositiveOrOmitted(options.max_requests_per_second)
        THEN [base_url |-> IF options.base_url = "none" THEN "production"
                           ELSE options.base_url,
              environment |-> IF options.base_url = "none" THEN "production" ELSE "none",
              timeout |-> IF options.timeout = "none" THEN "default" ELSE options.timeout,
              retry |-> retry]
        ELSE ConfigurationError

(***************************************************************************)
(* Errors                                                                  *)
(***************************************************************************)

ApiErrorClasses == {"BadRequest", "Authentication", "Authorization", "NotFound",
                    "RateLimit", "Server", "Api"}
LocalErrorClasses == {"Validation", "Configuration", "Timeout", "Network"}

OriginOf(class) == IF class \in ApiErrorClasses THEN "api" ELSE "local"

CategoryOf(class) ==
    [BadRequest |-> "bad_request", Authentication |-> "authentication",
     Authorization |-> "authorization", NotFound |-> "not_found",
     RateLimit |-> "rate_limit", Server |-> "server", Api |-> "api",
     Validation |-> "validation", Configuration |-> "configuration",
     Timeout |-> "timeout", Network |-> "network"][class]

(***************************************************************************)
(* Results                                                                 *)
(***************************************************************************)

\* The members of the object at a path of a response.
MembersAt(response, path) ==
    [field \in {node[Len(node)] : node \in {n \in DOMAIN response :
                    Len(n) = Len(path) + 1 /\ SubSeq(n, 1, Len(path)) = path}} |->
        response[Append(path, field)]]

NoNumber == "none"

NumberOf(envelope, field) ==
    IF field \in DOMAIN envelope /\ envelope[field].token = "number"
    THEN envelope[field].id ELSE NoNumber

\* Where the record of a single check is: the object itself, or the first
\* element of an array when that is an object.  An empty sequence: nowhere.
RecordAt(response) ==
    LET isObject(path) == path \in DOMAIN response /\ response[path].token = "object"
        inArray == /\ <<"data">> \in DOMAIN response /\ response[<<"data">>].token = "array"
                   /\ isObject(<<"data", "#1">>)
    IN  IF isObject(<<"data">>) THEN <<"data">>
        ELSE IF inArray THEN <<"data", "#1">> ELSE <<>>

NoRecord == <<>>

ShapeSingle(response) ==
    [raw |-> response,
     check_count |-> NumberOf(MembersAt(response, <<>>), "nonprofit_check_count"),
     nonprofit |-> IF RecordAt(response) = <<>> THEN NoRecord
                   ELSE MembersAt(response, RecordAt(response))]

(***************************************************************************)
(* Sources: every mapped field the record carries, under its own name      *)
(***************************************************************************)

Pub78Fields ==
    [verified |-> "pub78_verified", organization_name |-> "pub78_organization_name",
     ein |-> "pub78_ein", city |-> "pub78_city", state |-> "pub78_state",
     indicator |-> "pub78_indicator", church_message |-> "pub78_church_message",
     organization_types |-> "organization_types", most_recent |-> "most_recent_pub78"]
BmfFields ==
    [status |-> "bmf_status", organization_name |-> "bmf_organization_name",
     ein |-> "bmf_ein", church_message |-> "bmf_church_message",
     subsection |-> "bmf_subsection", subsection_description |-> "subsection_description",
     foundation_code |-> "foundation_code",
     foundation_code_description |-> "foundation_code_description",
     foundation_type_code |-> "foundation_type_code",
     foundation_type_description |-> "foundation_type_description",
     foundation_509a_status |-> "foundation_509a_status",
     ruling_month |-> "ruling_month", ruling_year |-> "ruling_year",
     group_exemption |-> "group_exemption", exempt_status_code |-> "exempt_status_code",
     filing_req_code |-> "filing_req_code", most_recent |-> "most_recent_bmf"]
AroeFields ==
    [revocation_code |-> "revocation_code", revocation_date |-> "revocation_date",
     reinstatement_date |-> "reinstatement_date"]
OfacFields == [status |-> "ofac_status"]

NotReturned == [returned |-> FALSE]

Project(record, mapping) ==
    LET present == {target \in DOMAIN mapping : mapping[target] \in DOMAIN record}
    IN  IF present = {} THEN NotReturned
        ELSE [target \in present |-> record[mapping[target]]]

=============================================================================
