-------------------------- MODULE ProcessorPromise --------------------------
(* What the punch processor client promises the handlers that call it: an     *)
(* effect per attempt at the most, whenever it arrives; a success only after  *)
(* an effect; and one answer.  A failure promises nothing: the effect may be  *)
(* there already, or come later.                                              *)
EXTENDS Naturals

CONSTANTS
    Calls,      \* outbound calls
    MaxRetries  \* MAX_RETRIES

VARIABLES
    state,      \* what the caller knows of its call
    performed   \* the attempts of each call that had their effect

vars == <<state, performed>>

Attempts == 0..MaxRetries

Init ==
    /\ state = [c \in Calls |-> "idle"]
    /\ performed = [c \in Calls |-> {}]

Submit(c) ==
    /\ state[c] = "idle"
    /\ state' = [state EXCEPT ![c] = "pending"]
    /\ UNCHANGED performed

Perform(c) ==
    /\ state[c] # "idle"
    /\ \E a \in Attempts \ performed[c] : performed' = [performed EXCEPT ![c] = @ \union {a}]
    /\ UNCHANGED state

Succeed(c) ==
    /\ state[c] = "pending"
    /\ performed[c] # {}
    /\ state' = [state EXCEPT ![c] = "ok"]
    /\ UNCHANGED performed

Fail(c) ==
    /\ state[c] = "pending"
    /\ state' = [state EXCEPT ![c] = "failed"]
    /\ UNCHANGED performed

\* The process of the callers stops: nobody is told.
Crash ==
    /\ state' = [c \in Calls |-> IF state[c] = "pending" THEN "failed" ELSE state[c]]
    /\ UNCHANGED performed

Next ==
    \/ \E c \in Calls : Submit(c) \/ Perform(c) \/ Succeed(c) \/ Fail(c)
    \/ Crash

Spec == Init /\ [][Next]_vars
=============================================================================
