----------------------------- MODULE ChatContract -----------------------------
(***************************************************************************)
(* What a client of POST /chat may rely on, without providers, policies or *)
(* retries: a request that is accepted is answered once and for good; a    *)
(* refused prompt costs no provider call; a text comes only after a call;  *)
(* nothing is spent on a request after its answer.                         *)
(***************************************************************************)
EXTENDS Naturals

CONSTANT Reqs

VARIABLES state,      \* "new", "pending" or the kind of the answer
          calls       \* provider calls made for each request

contractvars == <<state, calls>>

Answers == {"refused", "checked", "unchecked", "fallback", "error"}

Init ==
    /\ state = [r \in Reqs |-> "new"]
    /\ calls = [r \in Reqs |-> 0]

Accept(r) ==
    /\ state[r] = "new"
    /\ state' = [state EXCEPT ![r] = "pending"]
    /\ UNCHANGED calls

Call(r) ==
    /\ state[r] = "pending"
    /\ calls' = [calls EXCEPT ![r] = @ + 1]
    /\ UNCHANGED state

Answer(r, kind) ==
    /\ state[r] = "pending"
    /\ kind = "refused" => calls[r] = 0
    /\ kind \in {"checked", "unchecked", "fallback"} => calls[r] > 0
    /\ kind = "fallback" => calls[r] > 1
    /\ state' = [state EXCEPT ![r] = kind]
    /\ UNCHANGED calls

Next ==
    \E r \in Reqs :
        \/ Accept(r)
        \/ Call(r)
        \/ \E kind \in Answers : Answer(r, kind)

Spec == Init /\ [][Next]_contractvars

-----------------------------------------------------------------------------
(***************************************************************************)
(* Every accepted request is answered.                                     *)
(***************************************************************************)
EveryRequestAnswered ==
    \A r \in Reqs : (state[r] = "pending") ~> (state[r] \in Answers)
=============================================================================
