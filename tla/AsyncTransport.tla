--------------------------- MODULE AsyncTransport ---------------------------
(***************************************************************************)
(* The asynchronous Python transport: one AsyncPactmanClient shared by     *)
(* tasks of an event loop, each inside AsyncTransport.send for one call.   *)
(* (python/src/pactman_nonprofit_check_plus/_http.py, lines 296-381)       *)
(*                                                                         *)
(* The loop of send is the synchronous one with an await at every wait, so *)
(* its steps are those of SyncTransport, restricted to what one event loop *)
(* can do: a task runs alone from one await to the next, and nothing is    *)
(* awaited between the head of the loop and the claim of a slot.  What is  *)
(* new is cancellation, which is thrown into a task where it awaits.       *)
(***************************************************************************)
EXTENDS SyncTransport

VARIABLE cancelled      \* cancelled[c]: c's task has been cancelled

asyncVars == <<vars, cancelled>>

AsyncInit == Init /\ cancelled = [c \in Calls |-> FALSE]

Running(c) == pc[c] \in {"throttle", "claiming"}

LoopFree == \A c \in Calls : ~Running(c)

(* A task goes on from its await, unless a cancellation is due to it. *)
Resume(c) ==
    /\ Running(c) \/ (LoopFree /\ ~cancelled[c])
    /\ Run(c)
    /\ UNCHANGED cancelled

(* The owner of the task, or asyncio.wait_for around it, calls cancel(). *)
Cancel(c) ==
    /\ LoopFree
    /\ pc[c] # "done" /\ ~cancelled[c]
    /\ cancelled' = [cancelled EXCEPT ![c] = TRUE]
    /\ UNCHANGED vars

(* Mutant: `except BaseException` in _attempt takes the cancellation for a
   failure of the network. *)
ThrowCaught(c) ==
    /\ LoopFree
    /\ cancelled[c] /\ pc[c] # "done"
    /\ IF pc[c] = "in_flight"
       THEN AttemptFails(c, "Network") /\ cancelled' = [cancelled EXCEPT ![c] = FALSE]
       ELSE /\ pc' = [pc EXCEPT ![c] = "done"]
            /\ outcome' = [outcome EXCEPT ![c] = Ended("Cancelled", attempts[c])]
            /\ timer' = [timer EXCEPT ![c] = 0]
            /\ since' = [since EXCEPT ![c] = 0]
            /\ UNCHANGED <<now, attempts, throttleVars, wireVars, last, notBefore,
                           cancelled>>

(* Mutant: time.sleep where asyncio.sleep is meant. *)
ThrowUnlessAsleep(c) ==
    /\ LoopFree
    /\ cancelled[c] /\ pc[c] # "done"
    /\ pc[c] \in {"throttled", "backing_off"} => now >= timer[c]
    /\ pc' = [pc EXCEPT ![c] = "done"]
    /\ outcome' = [outcome EXCEPT ![c] = Ended("Cancelled", attempts[c])]
    /\ timer' = [timer EXCEPT ![c] = 0]
    /\ since' = [since EXCEPT ![c] = 0]
    /\ UNCHANGED <<now, attempts, throttleVars, wireVars, last, notBefore,
                   cancelled>>

(* CancelledError is thrown at the await.  It is no Exception, so _attempt
   does not catch it, and it leaves send; the claimed slot is not returned. *)
Throw(c) ==
    /\ LoopFree
    /\ cancelled[c] /\ pc[c] # "done"
    /\ pc' = [pc EXCEPT ![c] = "done"]
    /\ outcome' = [outcome EXCEPT ![c] = Ended("Cancelled", attempts[c])]
    /\ timer' = [timer EXCEPT ![c] = 0]
    /\ since' = [since EXCEPT ![c] = 0]
    /\ UNCHANGED <<now, attempts, throttleVars, wireVars, last, notBefore,
                   cancelled>>

AsyncNext ==
    \/ (Serve \/ Tick) /\ UNCHANGED cancelled
    \/ \E c \in Calls : Resume(c) \/ Cancel(c) \/ Throw(c)

AsyncSpec == AsyncInit /\ [][AsyncNext]_asyncVars

(* The event loop runs what is ready; no timer is ever required to fire. *)
PromptSpec ==
    /\ AsyncSpec
    /\ \A c \in Calls : /\ WF_asyncVars(Throw(c))
                        /\ WF_asyncVars(Running(c) /\ Resume(c))

-----------------------------------------------------------------------------
(* Properties. *)

(* "Cancelling the surrounding task cancels the in-flight request and any
   planned retries, and CancelledError propagates untouched": from the moment
   a call is cancelled it puts nothing on the wire and can only end as
   cancelled, wherever the cancellation finds it (AsyncTransport.send). *)
CancellationIsFinal ==
    [][\A c \in Calls : cancelled[c] /\ outcome[c] = Pending =>
          /\ {r \in sent' : r[1] = c} = {r \in sent : r[1] = c}
          /\ outcome'[c].kind \in {"pending", "Cancelled"}
          /\ cancelled'[c]]_asyncVars

(* A cancelled call ends without waiting for any sleep or timeout to pass. *)
CancelledCallEnds == \A c \in Calls : cancelled[c] ~> pc[c] = "done"

(* The promises of cost and pace of the synchronous transport, with tasks that
   may be cancelled (AsyncTransport.send, _throttle). *)
KeepsItsPromises == ImplementsBillableCall /\ ImplementsRateCeiling
=============================================================================
