------------------------------ MODULE OrderedCalls ------------------------------
(***************************************************************************)
(* What an HTTP client session promises its callers: the calls made on it  *)
(* are settled in the order they were made, each once, each with its own   *)
(* answer and not the answer to another call, and once a call has failed   *)
(* no later call of the session is answered.                               *)
(***************************************************************************)
EXTENDS Naturals

CONSTANTS Sessions,    \* the sessions, one connection each
          MaxRequests  \* bound: calls made on one session

Requests == 1..MaxRequests
Errors == {"bad_request", "bad_response", "session_closed"}

VARIABLES promise,     \* how a call stands
          answer       \* the call a received answer was meant for, 0 if none

vars == <<promise, answer>>

Init == /\ promise = [s \in Sessions |-> [r \in Requests |-> "unsent"]]
        /\ answer = [s \in Sessions |-> [r \in Requests |-> 0]]

(* The caller makes its next call.                                         *)
Call(s) ==
    \E r \in Requests :
        /\ promise[s][r] = "unsent"
        /\ \A q \in 1..(r - 1) : promise[s][q] # "unsent"
        /\ promise' = [promise EXCEPT ![s][r] = "pending"]
        /\ UNCHANGED answer

(* The oldest open call is answered, if every call before it was.          *)
Answer(s) ==
    \E r \in Requests :
        /\ promise[s][r] = "pending"
        /\ \A q \in 1..(r - 1) : promise[s][q] = "value"
        /\ promise' = [promise EXCEPT ![s][r] = "value"]
        /\ answer' = [answer EXCEPT ![s][r] = r]

(* The oldest open calls, up to some last one, fail with the same error.   *)
Fail(s) ==
    \E error \in Errors, last \in Requests :
        /\ promise[s][last] = "pending"
        /\ promise' = [promise EXCEPT ![s] = [r \in Requests |->
                          IF r <= last /\ @[r] = "pending" THEN error ELSE @[r]]]
        /\ UNCHANGED answer

Next == \E s \in Sessions : Call(s) \/ Answer(s) \/ Fail(s)

Spec == Init /\ [][Next]_vars

=================================================================================
