---------------------------- MODULE MCPhaseWheel ----------------------------
(* One quick agent and one slow one that dwells after it has moved, on a    *)
(* wheel whose cognition handler may outlast its period.                    *)
EXTENDS PhaseWheel, TLC

CONSTANTS quick, slow

Both == <<quick, slow>>
MCPeriod == quick :> 2 @@ slow :> 4
MCDwell == quick :> 0 @@ slow :> 5
MCEventPeriod == "physics" :> 2 @@ "cognition" :> 3 @@ "heartbeat" :> 2
=============================================================================
