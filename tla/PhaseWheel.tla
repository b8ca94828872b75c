----------------------------- MODULE PhaseWheel -----------------------------
(***************************************************************************)
(* The scheduler of WorldRuntime (world/tick.py): one coroutine pops the   *)
(* earliest of three periodic events and awaits its handler, and the       *)
(* cognition handler steps only the agents that are due and not dwelling.  *)
(*                                                                         *)
(* Deadlines are kept relative to the clock, so that time can go on for    *)
(* ever: due[e] is due_at - now (negative while the loop is late), and an  *)
(* agent's timers count down to 0, below which the code does not look.     *)
(* The unit of time is abstract; the 1e-6 tolerance of the due check only  *)
(* absorbs floating-point error and has no counterpart.                    *)
(***************************************************************************)
EXTENDS Integers, Sequences, FiniteSets

CONSTANTS
  Roster,       \* the registered agents, in registration order
  Period,       \* agent -> cognition_period_s
  Dwell,        \* agent -> dwell_time_s
  EventPeriod,  \* event -> period of its handler
  Cycle,        \* a common multiple of the event periods
  MaxJitter,    \* how late a sleep may end
  MaxStep,      \* bound: how long a round of cognition steps takes
  MaxDrive,     \* bound: how long driving the dialog turns takes
  MaxLag,       \* bound: how late the loop may get
  MaxObs,       \* bound: observations per agent
  SinkMayRaise  \* whether a trace sink can raise

Agents == {Roster[i] : i \in DOMAIN Roster}
Event == {"physics", "cognition", "heartbeat"}
Outcome == {"none", "running", "ok", "moved", "raised"}

ASSUME WheelAssumption ==
  /\ Cardinality(Agents) = Len(Roster)
  /\ Period \in [Agents -> Nat \ {0}] /\ Dwell \in [Agents -> Nat]
  /\ EventPeriod \in [Event -> Nat \ {0}]
  /\ Cycle \in Nat \ {0} /\ \A e \in Event : Cycle % EventPeriod[e] = 0
  /\ {MaxJitter, MaxStep, MaxDrive, MaxLag, MaxObs} \subseteq Nat
  /\ SinkMayRaise \in BOOLEAN

VARIABLES
  pc,           \* what the loop does: sleep, a handler, a stage of cognition
  due,          \* when each event is due, from now
  order,        \* the events by age on the heap (seq): breaks ties
  phase,        \* time since run() modulo Cycle
  nextDue,      \* agent -> until next_cognition_due
  dwelling,     \* agent -> until dwell_until
  elapsed,      \* time since this cognition tick read the clock
  outcome,      \* agent -> how its step of this cognition tick went
  pending,      \* agent -> number of observations queued
  produced,     \* agent -> number of observations ever queued
  seen,         \* agent -> number of observations handed to a step
  since         \* agent -> time since its last step began (up to Period)

wheel == <<due, order, phase, nextDue, dwelling, elapsed, since>>
obs == <<pending, produced, seen>>
vars == <<pc, due, order, phase, nextDue, dwelling, elapsed, outcome,
          pending, produced, seen, since>>

Longer(a, b) == IF a > b THEN a ELSE b
Shorter(a, b) == IF a < b THEN a ELSE b

\* An agent that has never stepped is due at once.
Init ==
  /\ pc = "sleep"
  /\ due = EventPeriod
  /\ order = <<"physics", "cognition", "heartbeat">>
  /\ phase = 0
  /\ nextDue = [a \in Agents |-> 0]
  /\ dwelling = [a \in Agents |-> 0]
  /\ elapsed = 0
  /\ outcome = [a \in Agents |-> "none"]
  /\ pending = [a \in Agents |-> 0]
  /\ produced = [a \in Agents |-> 0]
  /\ seen = [a \in Agents |-> 0]
  /\ since = Period

-----------------------------------------------------------------------------
\* d units of time go by.
Pass(d) ==
  /\ \A e \in Event : due[e] - d >= -MaxLag
  /\ due' = [e \in Event |-> due[e] - d]
  /\ phase' = (phase + d) % Cycle
  /\ nextDue' = [a \in Agents |-> Longer(nextDue[a] - d, 0)]
  /\ dwelling' = [a \in Agents |-> Longer(dwelling[a] - d, 0)]
  /\ since' = [a \in Agents |-> Shorter(since[a] + d, Period[a])]

Position(e) == CHOOSE i \in DOMAIN order : order[i] = e

\* The head of the heap: least due_at, then least seq.
Earliest(e) ==
  \A f \in Event \ {e} :
    due[e] < due[f] \/ (due[e] = due[f] /\ Position(e) < Position(f))

\* The loop sleeps until the event is due; it never sleeps if it is late.
Wake(e) ==
  /\ pc = "sleep"
  /\ Earliest(e)
  /\ \E jitter \in 0..MaxJitter :
       Pass(IF due[e] > 0 THEN due[e] + jitter ELSE 0)
  /\ pc' = e
  /\ UNCHANGED <<order, elapsed, outcome, obs>>

\* Anti-drift: the previous due time plus the period.
NextDue(e) == due[e] + EventPeriod[e]

\* The event goes back on the heap with a new seq, its handler failed or not.
Reschedule(e) ==
  /\ due' = [due EXCEPT ![e] = NextDue(e)]
  /\ order' = Append(SelectSeq(order, LAMBDA f : f # e), e)
  /\ pc' = "sleep"

\* Faulty variant: what is observed replaces what was queued.
ObserveReplacing(who) ==
  /\ \A a \in who : produced[a] < MaxObs
  /\ produced' = [a \in Agents |-> IF a \in who THEN produced[a] + 1 ELSE produced[a]]
  /\ pending' = [a \in Agents |-> IF a \in who THEN 1 ELSE pending[a]]

Observe(who) ==
  /\ \A a \in who : produced[a] < MaxObs
  /\ produced' = [a \in Agents |-> IF a \in who THEN produced[a] + 1 ELSE produced[a]]
  /\ pending' = [a \in Agents |-> IF a \in who THEN pending[a] + 1 ELSE pending[a]]

\* The physics handler never awaits; it may leave an observation with any
\* agents (zone, proximity, affordance and time-of-day crossings).
OnPhysicsTick ==
  /\ pc = "physics"
  /\ \E who \in SUBSET Agents : Observe(who)
  /\ Reschedule("physics")
  /\ UNCHANGED <<phase, nextDue, dwelling, elapsed, since, outcome, seen>>

OnHeartbeatTick ==
  /\ pc = "heartbeat"
  /\ Reschedule("heartbeat")
  /\ UNCHANGED <<phase, nextDue, dwelling, elapsed, since, outcome, obs>>

\* inject_observation, from any other task while this one awaits.
InjectObservation(a) ==
  /\ pc \in {"sleep", "gather", "drive"}
  /\ Observe({a})
  /\ UNCHANGED <<pc, wheel, outcome, seen>>

-----------------------------------------------------------------------------
(* The cognition handler *)

\* Faulty variant: an agent steps at fixed moments, not once its gap is over.
IsDueOnBeat(a) == dwelling[a] = 0 /\ phase % Period[a] = 0

\* The dwell is over and so is the gap since the last step.
IsDue(a) == dwelling[a] = 0 /\ nextDue[a] = 0
DueAgents == {a \in Agents : IsDue(a)}

\* The clock is read, the due agents take their observations, and their
\* steps start together.
OnCognitionTick ==
  /\ pc = "cognition"
  /\ pc' = IF DueAgents = {} THEN "drive" ELSE "gather"
  /\ outcome' = [a \in Agents |-> IF IsDue(a) THEN "running" ELSE "none"]
  /\ seen' = [a \in Agents |-> IF IsDue(a) THEN seen[a] + pending[a] ELSE seen[a]]
  /\ pending' = [a \in Agents |-> IF IsDue(a) THEN 0 ELSE pending[a]]
  /\ since' = [a \in Agents |-> IF IsDue(a) THEN 0 ELSE since[a]]
  /\ elapsed' = 0
  /\ UNCHANGED <<due, order, phase, nextDue, dwelling, produced>>

\* A step returns, with or without a move, or raises.
StepEnds(a) ==
  /\ pc = "gather"
  /\ outcome[a] = "running"
  /\ \E out \in {"ok", "moved", "raised"} : outcome' = [outcome EXCEPT ![a] = out]
  /\ UNCHANGED <<pc, wheel, obs>>

\* Steps take their time.
Thinking ==
  /\ pc = "gather"
  /\ \E a \in Agents : outcome[a] = "running"
  /\ elapsed < MaxStep
  /\ Pass(1) /\ elapsed' = elapsed + 1
  /\ UNCHANGED <<pc, order, outcome, obs>>

\* The agents whose turn to have a result consumed has come when the loop
\* over the results has got past the first n of the roster.
Consumable(n) == {Roster[i] : i \in 1..n}

\* Faulty variant: the gap is counted from when the event was due.
NextCognitionOnGrid(a) == Longer(due["cognition"] + Period[a], 0)

\* next_cognition_due: the clock as read at the start, plus the period.
NextCognition(a) == Longer(Period[a] - elapsed, 0)

\* All steps have ended and their results are consumed one after the other;
\* a raising trace sink of the (n+1)-st agent aborts the handler, and the
\* agents from there on keep their old deadlines.  A consumed result may
\* leave a follow-up observation.
Consume(n) ==
  /\ pc = "gather"
  /\ \A a \in Agents : outcome[a] # "running"
  /\ \/ n = Len(Roster)
     \/ /\ SinkMayRaise /\ n \in 0..(Len(Roster) - 1)
        /\ outcome[Roster[n + 1]] \in {"ok", "moved"}
  /\ LET done == {a \in Consumable(n) : outcome[a] # "none"}
         moved == {a \in done : outcome[a] = "moved"} IN
     /\ nextDue' = [a \in Agents |->
          IF a \in done THEN NextCognition(a) ELSE nextDue[a]]
     /\ dwelling' = [a \in Agents |->
          IF a \in moved /\ Dwell[a] > 0 THEN Dwell[a] ELSE dwelling[a]]
     /\ outcome' = [a \in Agents |-> IF a \in done THEN "none" ELSE outcome[a]]
     /\ \E who \in SUBSET {a \in done : outcome[a] # "raised"} : Observe(who)
  /\ IF n = Len(Roster)
       THEN pc' = "drive" /\ UNCHANGED <<due, order>>
       ELSE Reschedule("cognition")
  /\ UNCHANGED <<phase, elapsed, since, seen>>

\* The dialog tick and the turns it drives (see DialogRuntime) end the
\* handler; generating the turns takes time.
Driving ==
  /\ pc = "drive"
  /\ elapsed < MaxStep + MaxDrive
  /\ Pass(1) /\ elapsed' = elapsed + 1
  /\ UNCHANGED <<pc, order, outcome, obs>>

DriveDone ==
  /\ pc = "drive"
  /\ Reschedule("cognition")
  /\ elapsed' = 0
  /\ UNCHANGED <<phase, nextDue, dwelling, since, outcome, obs>>

-----------------------------------------------------------------------------
Loop ==
  \/ \E e \in Event : Wake(e)
  \/ OnPhysicsTick \/ OnHeartbeatTick \/ OnCognitionTick
  \/ \E n \in 0..Len(Roster) : Consume(n)
  \/ DriveDone

Next ==
  \/ Loop \/ Thinking \/ Driving
  \/ \E a \in Agents : StepEnds(a) \/ InjectObservation(a)

Spec == Init /\ [][Next]_vars

\* The loop runs when it can, and every step ends: the LLM client's timeout
\* and its fallback see to that.
LiveSpec == Spec /\ WF_vars(Loop) /\ \A a \in Agents : WF_vars(StepEnds(a))

-----------------------------------------------------------------------------
(* What is claimed of the scheduler. *)

Starts(a) == pc = "cognition" /\ outcome'[a] = "running"

\* cognition_period_s is the minimum gap between two steps of an agent
\* (tick.py:1457), also when the loop is late and its cognition events come in
\* a burst, or when a step took longer than the period or raised.  The only
\* exception is an agent whose last step was never consumed.
MinGap ==
  [][\A a \in Agents :
       Starts(a) /\ outcome[a] = "none" => since[a] >= Period[a]]_vars

\* Every observation is either still queued or was handed to a step, also one
\* that arrives while the agent's step is running (tick.py:1694-1695).
InjectedSurvives == \A a \in Agents : produced[a] = pending[a] + seen[a]

\* No agent is starved: not by its siblings, not by the phase of its period
\* against the global one, not by dwelling, not by a loop that runs late; nor
\* are the other two handlers, even if cognition is always late.
NobodyStarves ==
  /\ \A a \in Agents : []<>(outcome[a] = "running")
  /\ []<>(pc = "heartbeat") /\ []<>(pc = "physics")

-----------------------------------------------------------------------------
(* What comments say, refuted *)

\* "`cognition_period_s` is the *minimum* gap between this agent's cognition
\* steps" (tick.py:1457), without the exception.
MinGapAlways ==
  [][\A a \in Agents : Starts(a) => since[a] >= Period[a]]_vars
=============================================================================
