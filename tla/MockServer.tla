----------------------------- MODULE MockServer -----------------------------
(***************************************************************************)
(* The repository's stand-in for the API, and its count of checks.         *)
(* (python/scripts/mock_server.py)                                         *)
(*                                                                         *)
(* Every connection has a thread of its own.  The threads share one count  *)
(* of the checks used and one budget of transient failures; each access to *)
(* either is a step of its own, under the lock or, where an error reports  *)
(* the count, without it.  A thread whose client has gone works on.        *)
(*                                                                         *)
(* A list holds EINs, known or not.  Entries of other JSON types that can  *)
(* be hashed are unknown EINs; an array or an object among the entries     *)
(* would make the handler raise (line 289) after the list was counted and  *)
(* before the refund, and is not modelled: no SDK sends one.               *)
(***************************************************************************)
EXTENDS Integers, Sequences, SequencesExt, FiniteSetsExt

CONSTANTS
    Connections,         \* the connections a client may open
    FixtureEins,         \* the EINs with a fixture
    TRANSIENT_FAILURES,  \* how often the control EIN fails before it succeeds
    MAX_BULK_EINS

(* The EINs that ask for a behaviour rather than a record. *)
RateLimited == "rate_limited"
Transient == "transient_failure"
Slow == "slow"

ASSUME MockServerAssumption ==
    /\ IsFiniteSet(Connections)
    /\ TRANSIENT_FAILURES \in Nat /\ MAX_BULK_EINS \in Nat
    /\ FixtureEins \cap {RateLimited, Transient, Slow} = {}

VARIABLES
    used,           \* checks_used_this_cycle
    failuresLeft,   \* _transient_failures_left
    handlers        \* connection -> the thread that serves it

serverVars == <<used, failuresLeft, handlers>>

(* A request for one EIN, for a list of them, with a body that is no list, to
   another path, or without the key. *)
Single(ein) == [kind |-> "single", eins |-> <<ein>>]
Bulk(eins) == [kind |-> "bulk", eins |-> eins]
Garbled == [kind |-> "garbled", eins |-> <<>>]
Elsewhere == [kind |-> "elsewhere", eins |-> <<>>]
Keyless == [kind |-> "keyless", eins |-> <<>>]

NoAnswer == [status |-> 0]
NoCount == -1       \* an answer outside the envelope has none
Waiting == [pc |-> "waiting", request |-> Keyless, answer |-> NoAnswer]

(* A server in use for some time: the checks are counted from here. *)
ServerInit ==
    /\ used = 0
    /\ failuresLeft \in 0 .. TRANSIENT_FAILURES
    /\ handlers = [c \in Connections |-> Waiting]

-----------------------------------------------------------------------------

At(c, pc) == handlers[c].pc = pc
EinOf(c) == handlers[c].request.eins[1]
Moves(c, pc) == handlers' = [handlers EXCEPT ![c].pc = pc]

(* The error of a status, or the success, with the count it reports. *)
Answers(c, status, count) ==
    handlers' = [handlers EXCEPT ![c].pc = "answered",
                                 ![c].answer = [status |-> status, count |-> count]]

Arrive(c, request) ==
    /\ At(c, "waiting")
    /\ handlers' = [handlers EXCEPT ![c] = [@ EXCEPT !.pc = "arrived", !.request = request]]
    /\ UNCHANGED <<used, failuresLeft>>

(* Refusals that need nothing but the request and a look at the count. *)
RefusedWith(request) ==
    CASE request.kind = "keyless" -> 401
      [] request.kind = "elsewhere" -> 404
      [] request.kind = "garbled" -> 400
      [] request.kind = "bulk" /\ Len(request.eins) > MAX_BULK_EINS -> 400
      [] request.kind = "single" /\ request.eins = <<RateLimited>> -> 429
      [] request.kind = "single" /\ request.eins # <<RateLimited>>
         /\ request.eins[1] \notin FixtureEins \cup {Transient, Slow} -> 404
      [] OTHER -> 0

Refuse(c) ==
    /\ At(c, "arrived")
    /\ RefusedWith(handlers[c].request) # 0
    /\ Answers(c, RefusedWith(handlers[c].request),
               IF handlers[c].request \in {Keyless, Elsewhere} THEN NoCount ELSE used)
    /\ UNCHANGED <<used, failuresLeft>>

(* take_transient_failure; the 503 reads the count after the lock is let go. *)
TakeTransientFailure(c) ==
    /\ At(c, "arrived")
    /\ handlers[c].request = Single(Transient)
    /\ IF failuresLeft > 0
       THEN failuresLeft' = failuresLeft - 1 /\ Moves(c, "failing")
       ELSE failuresLeft' = TRANSIENT_FAILURES /\ Moves(c, "serving")
    /\ UNCHANGED used

Fail(c) ==
    /\ At(c, "failing")
    /\ Answers(c, 503, used)
    /\ UNCHANGED <<used, failuresLeft>>

(* consume(1), at once or, for the slow EIN, whenever its sleep is over. *)
Serve(c) ==
    /\ \/ At(c, "serving")
       \/ /\ At(c, "arrived") /\ handlers[c].request.kind = "single"
          /\ EinOf(c) \in FixtureEins \cup {Slow}
    /\ used' = used + 1
    /\ Answers(c, 200, used + 1)
    /\ UNCHANGED failuresLeft

(* The first step of a list: every EIN in it is counted, repeated or not. *)
Count(c) ==
    /\ At(c, "arrived")
    /\ handlers[c].request.kind = "bulk"
    /\ RefusedWith(handlers[c].request) = 0
    /\ used' = used + Len(handlers[c].request.eins)
    /\ Moves(c, "counted")
    /\ UNCHANGED failuresLeft

(* Where a list has an EIN with a fixture, and where it has another. *)
Found(c) == {i \in DOMAIN handlers[c].request.eins : handlers[c].request.eins[i] \in FixtureEins}
NotFound(c) == DOMAIN handlers[c].request.eins \ Found(c)

(* Mutant: a repeated miss is given back once. *)
RefundOnce(c) ==
    LET count == used - Cardinality({handlers[c].request.eins[i] : i \in NotFound(c)})
    IN  /\ At(c, "counted")
        /\ used' = count
        /\ Answers(c, IF Found(c) = {} THEN 404 ELSE 200, count)
        /\ UNCHANGED failuresLeft

(* The second: the EINs without a record are given back. *)
Refund(c) ==
    LET count == used - Cardinality(NotFound(c))
    IN  /\ At(c, "counted")
        /\ used' = count
        /\ Answers(c, IF Found(c) = {} THEN 404 ELSE 200, count)
        /\ UNCHANGED failuresLeft

ServerStep ==
    \E c \in Connections :
        Refuse(c) \/ TakeTransientFailure(c) \/ Fail(c) \/ Serve(c) \/ Count(c) \/ Refund(c)

-----------------------------------------------------------------------------
(* What the count stands for.                                              *)

(* What a connection is billed for: the EINs of its request that have a
   record, as often as they were asked for, or the one check it was served. *)
Due(c) ==
    LET handler == handlers[c]
    IN  CASE handler.request.kind = "bulk" /\ handler.pc \in {"counted", "answered"}
             /\ RefusedWith(handler.request) = 0 -> Cardinality(Found(c))
          [] handler.request.kind = "single" /\ handler.answer.status = 200 -> 1
          [] OTHER -> 0

(* What will be given back to it. *)
Owed(c) == IF At(c, "counted") THEN Cardinality(NotFound(c)) ELSE 0

Total(f(_)) == MapThenSumSet(f, Connections)

UsedIsServedAndOwed == used = Total(Due) + Total(Owed)

(* Of a step that answers. *)
ToldWithinRefunds ==
    \A c \in Connections :
        /\ handlers[c].answer = NoAnswer /\ handlers'[c].answer # NoAnswer
        /\ handlers'[c].answer.count # NoCount
        => /\ handlers'[c].answer.count >= Total(Due)'
           /\ handlers'[c].answer.count <= Total(Due)' + Total(Owed)'
=============================================================================
