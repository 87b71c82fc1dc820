-------------------------- MODULE ReliableDelivery ---------------------------
(***************************************************************************)
(* What the durable event path promises, whatever fails in between: every  *)
(* recorded event is applied once or buried, in the order of its source,   *)
(* and is acknowledged only after that.                                    *)
(***************************************************************************)
EXTENDS Naturals, Sequences

CONSTANTS Events, Source

VARIABLES fate, recorded, acknowledged

deliveryVars == <<fate, recorded, acknowledged>>

Settled(e) == fate[e] \in {"applied", "buried"}

Earlier(e) ==
    {f \in Events : \E i, j \in DOMAIN recorded :
        i < j /\ recorded[i] = f /\ recorded[j] = e /\ Source[f] = Source[e]}

Init ==
    /\ fate = [e \in Events |-> "unknown"]
    /\ recorded = <<>>
    /\ acknowledged = {}

Record(e) ==
    /\ fate[e] = "unknown"
    /\ fate' = [fate EXCEPT ![e] = "pending"]
    /\ recorded' = Append(recorded, e)
    /\ UNCHANGED acknowledged

Settle(e) ==
    /\ fate[e] = "pending"
    /\ \A f \in Earlier(e) : Settled(f)
    /\ \E end \in {"applied", "buried"} : fate' = [fate EXCEPT ![e] = end]
    /\ UNCHANGED <<recorded, acknowledged>>

Acknowledge(e) ==
    /\ Settled(e)
    /\ e \notin acknowledged
    /\ acknowledged' = acknowledged \cup {e}
    /\ UNCHANGED <<fate, recorded>>

Next == \E e \in Events : Record(e) \/ Settle(e) \/ Acknowledge(e)

Fairness == \A e \in Events : WF_deliveryVars(Settle(e)) /\ WF_deliveryVars(Acknowledge(e))

(* What a behaviour never does, and what it does in the end. *)
SafeSpec == Init /\ [][Next]_deliveryVars

Spec == SafeSpec /\ Fairness
=============================================================================
