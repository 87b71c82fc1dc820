----------------------------- MODULE MCFactorLoop -----------------------------
(* An instance of FactorLoop for TLC: two variants of one skeleton in one  *)
(* batch, a repeated leaf in the other.                                    *)
EXTENDS FactorLoop

Tree(windows) == [ops |-> [i \in DOMAIN windows |-> [op |-> "rank", window |-> windows[i]]], field |-> "close"]

MCUniverse == {Tree(<<>>), Tree(<<5>>), Tree(<<10>>)}
MCBatches == {<<Tree(<<5>>), Tree(<<10>>)>>, <<Tree(<<>>), Tree(<<>>)>>}
=============================================================================
