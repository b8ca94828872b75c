---------------------------- MODULE MCReproduction --------------------------
(* One verdict of the control arm that passes its gate and one that has     *)
(* drifted; a primary verdict that replicates, one exactly at the margin    *)
(* and one without its none-rate; a frozen input that would replicate, and  *)
(* a file that is no JSON.                                                  *)
EXTENDS Reproduction, TLC

CONSTANTS control1, drifted1, below1, margin1, gap1, frozen1, broken1

Good == [verdict |-> "NO_CHANNEL_CONFORMANCE", rho_hat |-> 1000000, power |-> 1000000,
         tv_bar |-> 38065, permutation_reject |-> FALSE, none_rate_max_observed |-> 0]
AtMargin == [Good EXCEPT !.tv_bar = 100000]
Gap == [Good EXCEPT !.none_rate_max_observed = Malformed]

Drifted == [Good EXCEPT !.tv_bar = 90000]

MCVerdict == {control1, drifted1, below1, margin1, gap1, frozen1, broken1}
MCObjects == MCVerdict \ {broken1}
MCQuantities == control1 :> Good @@ drifted1 :> Drifted @@ below1 :> Good
                @@ margin1 :> AtMargin @@ gap1 :> Gap @@ frozen1 :> Good
MCEdited == {[Sealed EXCEPT !.from = 110000]}
MCBy == [v \in MCVerdict |-> IF v \in {control1, drifted1} THEN "control" ELSE "primary"]
MCClaims == {"R1", "R2"}
=============================================================================
