-------------------------- MODULE MCVerdictLanding --------------------------
(* Two verdicts of the control arm that may land one after the other, one  *)
(* of the primary arm with moved thresholds, and a copy of a frozen input. *)
EXTENDS VerdictLanding, TLC

CONSTANTS control1, control2, moved1, frozen1

MCVerdict == {control1, control2, moved1, frozen1}
MCFrozen == {frozen1}
MCConforming == MCVerdict \ {moved1}
MCBy == control1 :> "control" @@ control2 :> "control"
        @@ moved1 :> "primary" @@ frozen1 :> "control"
=============================================================================
