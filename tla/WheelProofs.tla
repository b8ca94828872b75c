----------------------------- MODULE WheelProofs -----------------------------
(***************************************************************************)
(* Proofs about the scheduler, for any agents, periods, dwells, handler    *)
(* durations and delays: the minimum gap between the consumed steps of an  *)
(* agent, and that no observation is lost.                                 *)
(***************************************************************************)
EXTENDS PhaseWheel, TLAPS

\* The part of the types the arguments need.
Timers ==
  /\ due \in [Event -> Int]
  /\ nextDue \in [Agents -> Nat]
  /\ dwelling \in [Agents -> Nat]
  /\ since \in [Agents -> Nat]
  /\ outcome \in [Agents -> Outcome]
  /\ elapsed \in Nat

Counts ==
  /\ produced \in [Agents -> Nat]
  /\ pending \in [Agents -> Nat]
  /\ seen \in [Agents -> Nat]

\* While its step is under way an agent is protected by the handler having
\* read the clock before it; at any other time by its own deadline.  An agent
\* whose step was not consumed is still due, so that it cannot pass for one
\* that has not stepped.
Gap(a) ==
  IF outcome[a] = "none"
    THEN since[a] + nextDue[a] >= Period[a]
    ELSE /\ nextDue[a] = 0 /\ dwelling[a] = 0
         /\ pc = "gather" => since[a] >= elapsed \/ since[a] >= Period[a]

GapInv == Timers /\ \A a \in Agents : Gap(a)

-----------------------------------------------------------------------------
(* Observations *)

CountInv == Counts /\ InjectedSurvives

\* An arrival is counted and queued.
LEMMA ObserveKeeps ==
  ASSUME CountInv, NEW who, Observe(who), seen' = seen
  PROVE  CountInv'
BY DEF CountInv, Counts, InjectedSurvives, Observe

\* Every step keeps the count.
LEMMA NextCounts == CountInv /\ [Next]_vars => CountInv'
<1> SUFFICES ASSUME CountInv, [Next]_vars PROVE CountInv'
  OBVIOUS
<1> USE DEF obs
<1>1. ASSUME NEW e \in Event, Wake(e) PROVE CountInv'
  BY <1>1 DEF Wake, CountInv, Counts, InjectedSurvives
<1>2. CASE OnPhysicsTick
  BY <1>2, ObserveKeeps DEF OnPhysicsTick
<1>3. CASE OnHeartbeatTick
  BY <1>3 DEF OnHeartbeatTick, CountInv, Counts, InjectedSurvives
<1>4. CASE OnCognitionTick
  BY <1>4 DEF OnCognitionTick, CountInv, Counts, InjectedSurvives
<1>5. ASSUME NEW a \in Agents, StepEnds(a) \/ InjectObservation(a)
      PROVE  CountInv'
  BY <1>5, ObserveKeeps
  DEF StepEnds, InjectObservation, CountInv, Counts, InjectedSurvives
<1>6. ASSUME NEW n \in 0..Len(Roster), Consume(n) PROVE CountInv'
  BY <1>6, ObserveKeeps DEF Consume
<1>7. CASE DriveDone \/ Thinking \/ Driving \/ UNCHANGED vars
  BY <1>7 DEF DriveDone, Thinking, Driving, vars, CountInv, Counts, InjectedSurvives
<1> QED
  BY <1>1, <1>2, <1>3, <1>4, <1>5, <1>6, <1>7 DEF Next, Loop

\* Every observation is queued or was handed to a step (tick.py:718-726,
\* 1694-1695), for any agents, however steps, arrivals and raising trace
\* sinks interleave.
THEOREM NoObservationLost == Spec => []InjectedSurvives
<1>1. Init => CountInv
  BY DEF Init, CountInv, Counts, InjectedSurvives
<1>2. CountInv => InjectedSurvives
  BY DEF CountInv
<1> QED BY <1>1, <1>2, NextCounts, PTL DEF Spec

-----------------------------------------------------------------------------
(* The minimum gap *)

\* The timers keep their types as time goes by.
LEMMA PassTyped ==
  ASSUME Timers, NEW d \in Nat, Pass(d)
  PROVE  /\ due' \in [Event -> Int]
         /\ nextDue' \in [Agents -> Nat]
         /\ dwelling' \in [Agents -> Nat]
         /\ since' \in [Agents -> Nat]
<1>1. Period \in [Agents -> Nat]
  BY WheelAssumption
<1> QED BY <1>1 DEF Timers, Pass, Longer, Shorter

\* Time going by shortens a deadline by no more than it lengthens the gap.
LEMMA PassKeepsGap ==
  ASSUME Timers, NEW d \in Nat, Pass(d), NEW a \in Agents
  PROVE  /\ since'[a] >= since[a] + d \/ since'[a] >= Period[a]
         /\ since[a] + nextDue[a] >= Period[a]
              => since'[a] + nextDue'[a] >= Period[a]
         /\ nextDue[a] = 0 => nextDue'[a] = 0
         /\ dwelling[a] = 0 => dwelling'[a] = 0
<1>1. /\ since'[a] = Shorter(since[a] + d, Period[a])
      /\ nextDue'[a] = Longer(nextDue[a] - d, 0)
      /\ dwelling'[a] = Longer(dwelling[a] - d, 0)
  BY DEF Pass
<1>2. since[a] \in Nat /\ nextDue[a] \in Nat /\ dwelling[a] \in Nat /\ Period[a] \in Nat
  BY WheelAssumption DEF Timers
<1> QED
  BY <1>1, <1>2 DEF Shorter, Longer

\* At the start every agent is due.
LEMMA InitGap == Init => GapInv
<1> SUFFICES ASSUME Init PROVE GapInv
  OBVIOUS
<1> USE WheelAssumption DEF Init
<1>1. Timers
  BY DEF Timers, Outcome
<1>2. ASSUME NEW a \in Agents PROVE Gap(a)
  BY DEF Gap
<1> QED BY <1>1, <1>2 DEF GapInv

\* Every step keeps the gap.
LEMMA NextGap ==
  ASSUME GapInv, [Next]_vars
  PROVE  GapInv'
<1> USE DEF GapInv
<1>1. Period \in [Agents -> Nat] /\ EventPeriod \in [Event -> Nat]
  BY WheelAssumption
<1>2. ASSUME NEW e \in Event, Wake(e)
      PROVE  GapInv'
  <2>1. PICK jitter \in 0..MaxJitter :
          Pass(IF due[e] > 0 THEN due[e] + jitter ELSE 0)
    BY <1>2 DEF Wake
  <2> DEFINE d == IF due[e] > 0 THEN due[e] + jitter ELSE 0
  <2>2. d \in Nat
    BY WheelAssumption DEF Timers
  <2>3. pc = "sleep" /\ pc' = e /\ pc' # "gather" /\ elapsed' = elapsed /\ outcome' = outcome
    BY <1>2 DEF Wake, Event
  <2> HIDE DEF d
  <2>4. Pass(d)
    BY <2>1 DEF d
  <2>5. Timers'
    BY <2>2, <2>3, <2>4, PassTyped DEF Timers
  <2>6. ASSUME NEW a \in Agents PROVE Gap(a)'
    BY <2>2, <2>3, <2>4, PassKeepsGap DEF Gap
  <2> QED BY <2>5, <2>6
<1>3. CASE OnPhysicsTick
  BY <1>1, <1>3 DEF OnPhysicsTick, Reschedule, NextDue, Timers, Gap, Event
<1>4. CASE OnHeartbeatTick
  BY <1>1, <1>4 DEF OnHeartbeatTick, Reschedule, NextDue, Timers, Gap, Event
<1>5. CASE OnCognitionTick
  BY <1>1, <1>5 DEF OnCognitionTick, DueAgents, IsDue, Timers, Gap, Outcome
<1>6. ASSUME NEW a \in Agents, StepEnds(a)
      PROVE  GapInv'
  BY <1>6 DEF StepEnds, Timers, Gap, Outcome, wheel
<1>7. ASSUME NEW a \in Agents, InjectObservation(a)
      PROVE  GapInv'
  BY <1>7 DEF InjectObservation, Timers, Gap, wheel
<1>8. ASSUME NEW n \in 0..Len(Roster), Consume(n)
      PROVE  GapInv'
  <2> DEFINE done == {a \in Consumable(n) : outcome[a] # "none"}
             moved == {a \in done : outcome[a] = "moved"}
  <2>1. /\ pc = "gather" /\ since' = since /\ elapsed' = elapsed
        /\ nextDue' = [a \in Agents |->
             IF a \in done THEN NextCognition(a) ELSE nextDue[a]]
        /\ dwelling' = [a \in Agents |->
             IF a \in moved /\ Dwell[a] > 0 THEN Dwell[a] ELSE dwelling[a]]
        /\ outcome' = [a \in Agents |->
             IF a \in done THEN "none" ELSE outcome[a]]
    BY <1>8 DEF Consume
  <2>2. pc' # "gather" /\ due' \in [Event -> Int]
    BY <1>8, <1>1 DEF Consume, Reschedule, NextDue, Timers, Event
  <2>3. moved \subseteq done /\ \A a \in done : outcome[a] # "none"
    OBVIOUS
  <2>4. \A a \in Agents : NextCognition(a) \in Nat /\ NextCognition(a) + elapsed >= Period[a]
    BY <1>1 DEF NextCognition, Longer, Timers
  <2>5. Dwell \in [Agents -> Nat]
    BY WheelAssumption
  <2> HIDE DEF done, moved
  <2>6. Timers'
    BY <2>1, <2>2, <2>4, <2>5 DEF Timers, Outcome
  <2>7. ASSUME NEW a \in Agents PROVE Gap(a)'
    <3>1. {since[a], Period[a], elapsed, NextCognition(a)} \subseteq Nat /\ Gap(a)
      BY <1>1, <2>4 DEF Timers
    <3>2. CASE a \in done
      <4>1. nextDue'[a] = NextCognition(a) /\ outcome'[a] = "none" /\ outcome[a] # "none"
        BY <3>2, <2>1, <2>3
      <4> QED BY <4>1, <3>1, <2>1, <2>4 DEF Gap
    <3>3. CASE a \notin done
      <4>1. /\ nextDue'[a] = nextDue[a] /\ outcome'[a] = outcome[a]
            /\ dwelling'[a] = dwelling[a]
        BY <3>3, <2>1, <2>3
      <4> QED BY <4>1, <3>1, <2>1, <2>2 DEF Gap
    <3> QED BY <3>2, <3>3
  <2> QED BY <2>6, <2>7
<1>9. CASE DriveDone
  BY <1>1, <1>9 DEF DriveDone, Reschedule, NextDue, Timers, Gap, Event
<1>10. CASE Thinking
  <2>1. pc' = pc /\ outcome' = outcome /\ elapsed' = elapsed + 1 /\ Pass(1)
    BY <1>10 DEF Thinking
  <2>2. Timers'
    BY <2>1, PassTyped DEF Timers
  <2>3. ASSUME NEW a \in Agents PROVE Gap(a)'
    <3>1. /\ {since[a], since'[a], nextDue[a], nextDue'[a], elapsed, Period[a]} \subseteq Nat
          /\ Gap(a)
      BY <2>2, <1>1 DEF Timers
    <3>2. /\ since'[a] >= since[a] + 1 \/ since'[a] >= Period[a]
          /\ since[a] + nextDue[a] >= Period[a]
               => since'[a] + nextDue'[a] >= Period[a]
          /\ nextDue[a] = 0 => nextDue'[a] = 0
          /\ dwelling[a] = 0 => dwelling'[a] = 0
      BY <2>1, PassKeepsGap
    <3> QED BY <2>1, <3>1, <3>2 DEF Gap
  <2> QED BY <2>2, <2>3
<1>11. CASE Driving
  <2>1. pc = "drive" /\ pc' = pc /\ outcome' = outcome /\ elapsed' = elapsed + 1 /\ Pass(1)
    BY <1>11 DEF Driving
  <2>2. Timers'
    BY <2>1, PassTyped DEF Timers
  <2>3. ASSUME NEW a \in Agents PROVE Gap(a)'
    <3>1. /\ {since[a], since'[a], nextDue[a], nextDue'[a], elapsed, Period[a]} \subseteq Nat
          /\ Gap(a)
      BY <2>2, <1>1 DEF Timers
    <3>2. /\ since'[a] >= since[a] + 1 \/ since'[a] >= Period[a]
          /\ since[a] + nextDue[a] >= Period[a]
               => since'[a] + nextDue'[a] >= Period[a]
          /\ nextDue[a] = 0 => nextDue'[a] = 0
          /\ dwelling[a] = 0 => dwelling'[a] = 0
      BY <2>1, PassKeepsGap
    <3> QED BY <2>1, <3>1, <3>2 DEF Gap
  <2> QED BY <2>2, <2>3
<1>12. CASE UNCHANGED vars
  BY <1>12 DEF vars, Timers, Gap
<1> QED
  BY <1>2, <1>3, <1>4, <1>5, <1>6, <1>7, <1>8, <1>9, <1>10, <1>11, <1>12
  DEF Next, Loop

\* An agent that starts a step has let its period go by since the last one
\* (tick.py:1445-1468), whatever the loop's delays, the duration of the steps
\* and the dwells, unless a raising trace sink kept the last one from being
\* consumed.
THEOREM MinimumGap == Spec => MinGap
<1> DEFINE Apart == \A a \in Agents :
             Starts(a) /\ outcome[a] = "none" => since[a] >= Period[a]
<1>1. ASSUME GapInv, Next, NEW a \in Agents, Starts(a), outcome[a] = "none"
      PROVE  since[a] >= Period[a]
  <2>1. OnCognitionTick
    <3>1. pc = "cognition"
      BY <1>1 DEF Starts
    <3> QED BY <3>1, <1>1 DEF Next, Loop, Wake, OnPhysicsTick, OnHeartbeatTick,
      Consume, DriveDone, Thinking, Driving, StepEnds, InjectObservation
  <2>2. IsDue(a)
    BY <2>1, <1>1 DEF OnCognitionTick, Starts
  <2> QED BY <2>2, <1>1, WheelAssumption DEF IsDue, GapInv, Gap, Timers
<1>2. GapInv /\ [Next]_vars => [Apart]_vars
  BY <1>1
<1>3. GapInv /\ [Next]_vars => GapInv'
  BY NextGap
<1> QED BY <1>2, <1>3, InitGap, PTL DEF Spec, MinGap
=============================================================================
