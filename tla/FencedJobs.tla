----------------------------- MODULE FencedJobs -----------------------------
(***************************************************************************)
(* The abstract specification of the scraper task queue                    *)
(* (ScraperTaskStore implements it): jobs that are handed out, possibly    *)
(* many times, each time under a larger token, and that are closed at most *)
(* once, with the result of the worker that was handed the last token.     *)
(***************************************************************************)
EXTENDS Naturals

CONSTANT JobIds

VARIABLES
    state,      \* absent -> open -> done | failed | withdrawn; failed -> done
    token,      \* how often the job was handed out
    result      \* the token under which the result was accepted, 0 for none

vars == <<state, token, result>>

Init ==
    /\ state = [j \in JobIds |-> "absent"]
    /\ token = [j \in JobIds |-> 0]
    /\ result = [j \in JobIds |-> 0]

Offer(j) ==
    /\ state[j] = "absent"
    /\ state' = [state EXCEPT ![j] = "open"]
    /\ UNCHANGED <<token, result>>

HandOut(j) ==
    /\ state[j] = "open"
    /\ token' = [token EXCEPT ![j] = @ + 1]
    /\ UNCHANGED <<state, result>>

\* A late success still counts after a failure was reported, a second success
\* never does.
Finish(j) ==
    /\ state[j] \in {"open", "failed"}
    /\ token[j] > 0
    /\ state' = [state EXCEPT ![j] = "done"]
    /\ result' = [result EXCEPT ![j] = token[j]]
    /\ UNCHANGED token

GiveUp(j) ==
    /\ state[j] = "open"
    /\ token[j] > 0
    /\ state' = [state EXCEPT ![j] = "failed"]
    /\ UNCHANGED <<token, result>>

\* Clearing the queue withdraws the open jobs, some or all of them.
Withdraw(gone) ==
    /\ \A j \in gone : state[j] = "open"
    /\ state' = [j \in JobIds |-> IF j \in gone THEN "withdrawn" ELSE state[j]]
    /\ token' = [j \in JobIds |-> IF j \in gone THEN 0 ELSE token[j]]
    /\ UNCHANGED result

Next ==
    \/ \E j \in JobIds : Offer(j) \/ HandOut(j) \/ Finish(j) \/ GiveUp(j)
    \/ \E gone \in SUBSET JobIds : Withdraw(gone)

Spec == Init /\ [][Next]_vars

=============================================================================
