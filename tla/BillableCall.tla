---------------------------- MODULE BillableCall ----------------------------
(***************************************************************************)
(* What any client of the API promises its caller about one check: it      *)
(* costs at most Budget[c] requests, the API may serve (and bill) each of  *)
(* those once, possibly long after the client gave up on it, and the       *)
(* caller is handed a result only for a check the API did serve.  Nothing  *)
(* is sent once the caller has been told how the check ended.              *)
(*                                                                         *)
(* Timing, throttling, retry policy and the error taxonomy are left to the *)
(* transports that implement this.                                         *)
(***************************************************************************)
EXTENDS Integers

CONSTANTS
    Calls,      \* the calls made through the SDK
    Budget      \* Budget[c]: how many requests call c may cost at most

VARIABLES
    sent,       \* the requests put on the wire: <<call, attempt>>
    served,     \* those the API has carried out
    result      \* result[c]: what the caller of c has been told

callVars == <<sent, served, result>>

Init ==
    /\ sent = {} /\ served = {}
    /\ result = [c \in Calls |-> "pending"]

Send(c) ==
    /\ result[c] = "pending"
    /\ \E n \in 1 .. Budget[c] :
          <<c, n>> \notin sent /\ sent' = sent \cup {<<c, n>>}
    /\ UNCHANGED <<served, result>>

Serve ==
    /\ \E request \in sent \ served : served' = served \cup {request}
    /\ UNCHANGED <<sent, result>>

Deliver(c) ==
    /\ result[c] = "pending"
    /\ \E n \in 1 .. Budget[c] : <<c, n>> \in served
    /\ result' = [result EXCEPT ![c] = "delivered"]
    /\ UNCHANGED <<sent, served>>

(* Raised to the caller; the API may have served the check all the same. *)
Fail(c) ==
    /\ result[c] = "pending"
    /\ result' = [result EXCEPT ![c] = "failed"]
    /\ UNCHANGED <<sent, served>>

Next == Serve \/ \E c \in Calls : Send(c) \/ Deliver(c) \/ Fail(c)

Spec == Init /\ [][Next]_callVars
=============================================================================
