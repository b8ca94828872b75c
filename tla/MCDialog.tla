------------------------------- MODULE MCDialog -------------------------------
EXTENDS DialogRuntime

MCAgents == 1 .. 3
MCTwoAgents == 1 .. 2
MCZones == {"peripatos", "study"}
MCReflective == {"peripatos"}

\* Agent 1 runs out of turns before agent 2 does.
MCTwoBudget == [a \in MCTwoAgents |-> IF a = 1 THEN 1 ELSE 2]
=============================================================================
