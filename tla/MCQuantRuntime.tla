---------------------------- MODULE MCQuantRuntime ---------------------------
(* Instances of QuantRuntime for TLC. *)
EXTENDS QuantRuntime, TLC

CONSTANTS s1, s2, retry, cancel, trigger, bogus, d1, d2, k1, k2

Kinds == [c \in Commands |-> CASE c \in {s1, s2} -> "summary"
                               [] c = retry -> "retry"
                               [] c = cancel -> "cancel"
                               [] c = trigger -> "review"
                               [] OTHER -> "unknown"]
Keys == [c \in Commands |-> IF c \in {s1, s2} THEN k1 ELSE IF c = bogus THEN k2 ELSE c]
Targets == [c \in Commands |-> s1]
FirstDay == [c \in Commands |-> d1]
OneDay == <<d1>>
TwoDays == <<d1, d2>>
=============================================================================
