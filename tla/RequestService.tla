--------------------------- MODULE RequestService ---------------------------
(***************************************************************************)
(* What a backend connection promises to the sessions that push requests   *)
(* into it: a request is answered once, with its own reply or with an      *)
(* error; a reply means that redis has executed it; redis executes it at   *)
(* most once, and after an error perhaps, and perhaps later.               *)
(***************************************************************************)
EXTENDS Naturals

CONSTANTS Requests

VARIABLES
    state,      \* of each request: "new", "pushed", "replied" or "failed"
    ran         \* how often redis has executed each request

vars == <<state, ran>>

Init == state = [r \in Requests |-> "new"] /\ ran = [r \in Requests |-> 0]

Push(r) ==
    /\ state[r] = "new"
    /\ state' = [state EXCEPT ![r] = "pushed"]
    /\ UNCHANGED ran

Run(r) ==
    /\ state[r] \in {"pushed", "failed"} /\ ran[r] = 0
    /\ ran' = [ran EXCEPT ![r] = 1]
    /\ UNCHANGED state

Reply(r) ==
    /\ state[r] = "pushed" /\ ran[r] = 1
    /\ state' = [state EXCEPT ![r] = "replied"]
    /\ UNCHANGED ran

Fail(r) ==
    /\ state[r] = "pushed"
    /\ state' = [state EXCEPT ![r] = "failed"]
    /\ UNCHANGED ran

Next == \E r \in Requests : Push(r) \/ Run(r) \/ Reply(r) \/ Fail(r)

Spec == Init /\ [][Next]_vars
=============================================================================
