------------------------------- MODULE WriteOnce -------------------------------
(***************************************************************************)
(* What an append-only table of reports promises to its callers: a key is  *)
(* written at most once, and every answer about it is what was written.    *)
(***************************************************************************)
CONSTANTS Keys, None
VARIABLES stored, answered    \* the row of a key; the answers given about it

Init == stored = [k \in Keys |-> None] /\ answered = [k \in Keys |-> {}]

Write(k) ==
    /\ stored[k] = None
    /\ stored'[k] # None
    /\ stored' = [stored EXCEPT ![k] = stored'[k]]
    /\ answered' = [answered EXCEPT ![k] = {stored'[k]}]

Answer(k) ==
    /\ stored[k] # None
    /\ answered' = [answered EXCEPT ![k] = @ \cup {stored[k]}]
    /\ UNCHANGED stored

Next == \E k \in Keys : Write(k) \/ Answer(k)

Spec == Init /\ [][Next]_<<stored, answered>>
================================================================================
