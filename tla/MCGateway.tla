----------------------------- MODULE MCGateway -----------------------------
(* Small gateways: clients that race for the last slot, and clients with   *)
(* different subscriptions whose queues overflow.                          *)
EXTENDS Gateway

CONSTANTS s1, s2, agentA, agentB

TwoSessions == {s1, s2}
OneSession == {s1}

\* A global envelope between two scoped ones.
MCTargets == <<{agentA}, {}, {agentB}, {agentA, agentB}, {agentB}, {}>>
OneAgentEach == {{}, {agentA}, {agentB}}
AllOrOne == {{}, {agentA}}
=============================================================================
