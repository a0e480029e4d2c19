------------------------- MODULE BulkAgainstServer -------------------------
(***************************************************************************)
(* A check_bulk of the Python SDK against the repository's own server,     *)
(* which other clients use at the same time.                               *)
(*                                                                         *)
(* An attempt whose connection the client has given up on is served all    *)
(* the same: its thread counts and refunds while the next attempt is on    *)
(* its way.                                                                *)
(***************************************************************************)
EXTENDS BulkCheck, MockServer

CONSTANT OtherRequests      \* what other clients may ask for

(* Each attempt opens a connection; the others are other clients'. *)
Attempts == 1 .. MaxAttempts
Others == Connections \ Attempts

ASSUME BulkAgainstServerAssumption ==
    /\ Attempts \subseteq Connections /\ Known = FixtureEins
    /\ \A request \in OtherRequests :
          /\ request.kind \in {"single", "bulk", "garbled", "elsewhere", "keyless"}
          /\ Len(request.eins) \in Nat /\ DOMAIN request.eins = 1 .. Len(request.eins)

allVars == <<vars, serverVars>>

-----------------------------------------------------------------------------

(* The client's own steps. *)
Client == (Materialize \/ Validate \/ Retry \/ CallerEdits) /\ UNCHANGED serverVars

Attempt == Send /\ Arrive(Len(requests) + 1, Bulk(payload))

(* The server's answer to the last attempt arrives. *)
Deliver ==
    /\ requests # <<>> /\ At(Len(requests), "answered")
    /\ \E dataShape \in {"array", "wrapped"}, errorShape \in {"list", "object"},
          form \in {"list", "text"} :
          Answer(handlers[Len(requests)].answer.status, dataShape, errorShape, form)
    /\ UNCHANGED serverVars

(* Another client asks for something, and need not wait for its answer. *)
AnotherAsks ==
    /\ \E c \in Others, request \in OtherRequests : Arrive(c, request)
    /\ UNCHANGED vars

Serving == ServerStep /\ UNCHANGED vars

CompositeInit == Init /\ ServerInit

CompositeNext == Client \/ Attempt \/ Deliver \/ AnotherAsks \/ Serving

CompositeSpec == CompositeInit /\ [][CompositeNext]_allVars

-----------------------------------------------------------------------------
(* The property of the server, of this composition.                        *)

(* "Unmatched EINs are refunded": however the threads interleave, and whether
   or not a client waited for its answer, the count of checks is what was
   served and what is about to be given back; the count an answer reports is
   never below what has been billed by then, and above it by no more than the
   refunds other threads have yet to make (_State, _handle_bulk and the error
   envelopes of the mock server). *)
BillsWhatItServes == [][UsedIsServedAndOwed' /\ ToldWithinRefunds]_allVars
=============================================================================
