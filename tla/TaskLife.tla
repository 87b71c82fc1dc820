-------------------------------- MODULE TaskLife --------------------------------
(***************************************************************************)
(* What a governed task promises: its attempts are opened one after the    *)
(* other while the grant is in force, only a failed one is followed by     *)
(* another, what has succeeded or was cancelled is final, and every opened *)
(* attempt is closed.                                                      *)
(***************************************************************************)
EXTENDS Naturals

CONSTANT Tasks

VARIABLES
    authority,  \* of each task: "NONE", "ACTIVE", or how it ended
    attempt,    \* the last attempt
    status      \* "NONE", "RUNNING" or how the last attempt was closed

vars == <<authority, attempt, status>>

Repeatable == {"NONE", "FAILED", "TIMED_OUT", "REQUIRES_REVIEW"}
Closed == {"SUCCEEDED", "FAILED", "TIMED_OUT", "CANCELLED", "REQUIRES_REVIEW"}

Init ==
    /\ authority = [t \in Tasks |-> "NONE"]
    /\ attempt = [t \in Tasks |-> 0]
    /\ status = [t \in Tasks |-> "NONE"]

Grant(t) ==
    /\ authority[t] = "NONE"
    /\ authority' = [authority EXCEPT ![t] = "ACTIVE"]
    /\ UNCHANGED <<attempt, status>>

End(t) ==
    /\ authority[t] = "ACTIVE"
    /\ \E s \in {"REVOKED", "EXPIRED"} : authority' = [authority EXCEPT ![t] = s]
    /\ UNCHANGED <<attempt, status>>

Open(t) ==
    /\ authority[t] = "ACTIVE"
    /\ status[t] \in Repeatable
    /\ attempt' = [attempt EXCEPT ![t] = @ + 1]
    /\ status' = [status EXCEPT ![t] = "RUNNING"]
    /\ UNCHANGED authority

Close(t) ==
    /\ status[t] = "RUNNING"
    /\ \E s \in Closed : status' = [status EXCEPT ![t] = s]
    /\ UNCHANGED <<authority, attempt>>

Next == \E t \in Tasks : Grant(t) \/ End(t) \/ Open(t) \/ Close(t)

SafeSpec == Init /\ [][Next]_vars

Spec == SafeSpec /\ \A t \in Tasks : WF_vars(Close(t))
================================================================================
