----------------------------- MODULE Apparatus -----------------------------
(***************************************************************************)
(* The two programs that drive CognitionStep.  The live world: handlers     *)
(* that gather the steps of all agents, write their results back, let a      *)
(* dialog turn change the bonds, and physics ticks in between, until the     *)
(* world is stopped, with steps cut off wherever they are, and the store    *)
(* closed.  The embodied loop: one agent, each tick one step and some        *)
(* physics, first with the language model and recorded, then replayed from  *)
(* the record on a new store.                                              *)
(***************************************************************************)
EXTENDS CognitionStep

CONSTANTS
  Start,        \* where each agent stands at first
  Speed,        \* of the motion in a physics tick
  LoopThread,   \* the event loop, when it calls the store itself
  Observable,   \* what may be injected in the live world
  MaxRounds, MaxPhysics, MaxInjected, MaxStoreErrors,   \* bounds, live
  LoopAgent, Ticks, PhysicsPerTick,                     \* of the embodied loop
  Seen          \* what its observation factory returns at each tick

\* What comes from outside; transitions and crossings only physics reports, and
\* every memory a caller of its own adds has an id of its own, a UUID.
Given == Observable \cup UNION {Range(Seen[t]) : t \in 0..Ticks}

ASSUME ApparatusAssumption ==
  /\ LoopThread \in Thread \ Agents /\ LoopAgent \in Agents
  /\ Ticks \in Nat /\ PhysicsPerTick \in Nat \ {0}
  /\ \A t \in 0..Ticks : Seen[t] \in Seq(Given) /\ Seen[t] # <<>>
  /\ \A c, d \in Calls : c.op = "add" /\ d.op \in {"add", "upsert"} /\ c.id = d.id => c = d
  /\ \A ev \in Given : ev.kind \notin {"zone", "proximity"}
  /\ \A a \in Agents : Start[a] \in Zones
  /\ Speed \in Nat

VARIABLES
  heading,   \* Kinematics.destination of each agent
  dist,      \* the distances the last physics tick saw
  world,     \* the live world: where its handler is, counters
  loop       \* the embodied loop and its recorder

vars == <<storeVars, stepVars, heading, dist, world, loop>>

Bodies == [a \in Agents |-> agent[a].body]

NewAgent(a) ==
  [tick |-> 0, body |-> DefaultSpawn(Start[a]), mode |-> DefaultMode[Start[a]],
   bond |-> [b \in Agents \ {a} |-> 0]]

NewLoop == [run |-> "record", tick |-> 0, physics |-> 0, demand |-> Ticks, seed |-> 0,
            tape |-> <<>>, index |-> 0, served |-> 0, trace |-> <<>>, lost |-> <<>>,
            move |-> NoMove, recorded |-> None, end |-> "running"]

Fresh ==
  /\ agent = [a \in Agents |-> NewAgent(a)]
  /\ pending = [a \in Agents |-> <<>>]
  /\ step = [a \in Agents |-> Idle]
  /\ rng = [cycle |-> 0, micro |-> 0]
  /\ fails = [embedding |-> 0, chat |-> 0, store |-> 0]
  /\ heading = [a \in Agents |-> Nowhere]
  /\ dist = [pair |-> Nowhere, prop |-> [a \in Agents |-> Nowhere]]

Init ==
  /\ StoreInit /\ Fresh
  /\ ecl \in BOOLEAN
  /\ \E handler \in IF ecl THEN {"none"} ELSE {"idle", "alone"} :
       world = [handler |-> handler, round |-> 0, physics |-> 0, injected |-> 0, turns |-> 0]
  /\ \E seed \in {0, 1} :
       loop = IF ecl THEN [NewLoop EXCEPT !.seed = seed] ELSE [NewLoop EXCEPT !.end = "none"]

-----------------------------------------------------------------------------
(* The physics of a tick: motion of each, separation, then what is seen.    *)

There == [a \in Agents |-> StepKinematics(agent[a].body, heading[a], Speed)]

\* Only agents of the live world come in pairs.
Apart(there) ==
  IF ecl \/ Cardinality(Agents) < 2 THEN there
  ELSE LET p == Separated(there[1], there[2]) IN [there EXCEPT ![1] = p[1], ![2] = p[2]]

Physics(there, apart) ==
  LET d == IF ecl THEN Nowhere ELSE Distance(apart[1].x, apart[2].x)
      prop == [a \in Agents |-> Distance(apart[a].x, PropPlace)] IN
  /\ agent' = [a \in Agents |-> [agent[a] EXCEPT !.body = apart[a]]]
  /\ heading' = [a \in Agents |-> Heading(agent[a].body, heading[a], Speed)]
  /\ pending' = [a \in Agents |->
                   pending[a] \o Moved(agent[a].body, there[a])
                   \o (IF ecl THEN <<>> ELSE Crossed(dist.pair, d, 3 - a))
                   \o Reached(dist.prop[a], prop[a])]
  /\ dist' = [pair |-> d, prop |-> prop]

-----------------------------------------------------------------------------
(* The write-back of a result *)

\* The state is what the step made of the state it began with; a target is
\* resolved and becomes the heading.
Consumed(a) ==
  IF step[a].at = "raised" THEN agent[a] ELSE step[a].self

HeadingAfter(a) ==
  IF step[a].at = "raised" \/ step[a].move.to = Nowhere THEN heading[a]
  ELSE Resolve(step[a].move.to)

Finished(a) == step[a].at \in {"answered", "raised"}

ConsumeResults(S) ==
  /\ \A a \in S : Finished(a)
  /\ agent' = [a \in Agents |-> IF a \in S THEN Consumed(a) ELSE agent[a]]
  /\ heading' = [a \in Agents |-> IF a \in S THEN HeadingAfter(a) ELSE heading[a]]
  /\ step' = [a \in Agents |-> IF a \in S THEN Idle ELSE step[a]]

-----------------------------------------------------------------------------
(* The live world *)

Inject(a, ev) ==
  /\ ~ecl /\ world.handler \in {"idle", "steps"} /\ world.injected < MaxInjected
  /\ pending' = [pending EXCEPT ![a] = Append(@, ev)]
  /\ world' = [world EXCEPT !.injected = @ + 1]
  /\ UNCHANGED <<storeVars, agent, step, ecl, rng, fails, heading, dist, loop>>

LivePhysics ==
  /\ world.handler = "idle" /\ world.physics < MaxPhysics
  /\ Physics(There, Apart(There))
  /\ world' = [world EXCEPT !.physics = @ + 1]
  /\ UNCHANGED <<storeVars, step, ecl, rng, fails, loop>>

\* asyncio.gather over the agents.
StartHandler ==
  /\ world.handler = "idle" /\ world.round < MaxRounds
  /\ world' = [world EXCEPT !.handler = "steps", !.round = @ + 1, !.physics = 0]
  /\ step' = [a \in Agents |-> [at |-> "due", serial |-> world.round + 1]]
  /\ UNCHANGED <<storeVars, agent, pending, ecl, rng, fails, heading, dist, loop>>

LiveChat(a) ==
  /\ world.handler = "steps"
  /\ \/ Fallback(a) /\ fails.chat < MaxFallbacks /\ fails' = [fails EXCEPT !.chat = @ + 1]
     \/ \E zone \in Zones \cup {None} : Plan(a, zone)
  /\ UNCHANGED <<heading, dist, world, loop>>

\* Faulty variant: the results are kept until the dialog has had its turn.
ConsumeAfterDialog ==
  /\ \A a \in Agents : Finished(a)
  /\ \/ /\ world.handler = "steps"
        /\ world' = [world EXCEPT !.handler = "dialog"]
        /\ UNCHANGED <<agent, heading, step>>
     \/ world.handler = "idle" /\ ConsumeResults(Agents) /\ world' = world
  /\ UNCHANGED <<storeVars, pending, ecl, rng, fails, dist, loop>>

Consume ==
  /\ world.handler = "steps"
  /\ ConsumeResults(Agents)
  /\ world' = [world EXCEPT !.handler = "dialog"]
  /\ UNCHANGED <<storeVars, pending, ecl, rng, fails, dist, loop>>

\* A turn is recorded: the sink stores it, on the event loop, ...
TurnStored ==
  /\ world.handler = "dialog"
  /\ Submit(LoopThread, AddDialogTurn(<<"dialog", world.turns>>, world.round))
  /\ world' = [world EXCEPT !.handler = "turn"]
  /\ UNCHANGED <<stepVars, heading, dist, loop>>

\* apply_affinity_delta: the bond counts one more interaction.
AffinityApplied(s, b) == [s EXCEPT !.bond[b] = @ + 1]

\* ... and the bonds of both follow.  A turn that the store could not keep
\* raises before that.
TurnBonds ==
  /\ world.handler = "turn" /\ thread[LoopThread].at \in {"done", "failed"}
  /\ IF thread[LoopThread].at = "done"
     THEN /\ agent' = [a \in Agents |-> AffinityApplied(agent[a], 3 - a)]
          /\ world' = [world EXCEPT !.handler = "idle", !.turns = @ + 1]
     ELSE agent' = agent /\ world' = [world EXCEPT !.handler = "idle"]
  /\ UNCHANGED <<storeVars, pending, step, ecl, rng, fails, heading, dist, loop>>

NoDialog ==
  /\ world.handler = "dialog"
  /\ world' = [world EXCEPT !.handler = "idle"]
  /\ UNCHANGED <<storeVars, stepVars, heading, dist, loop>>

\* The handler is cancelled, and with it every step; the threads go on.
Stop ==
  /\ world.handler \in {"idle", "steps", "dialog"}
  /\ world' = [world EXCEPT !.handler = "stopped"]
  /\ step' = [a \in Agents |-> Idle]
  /\ UNCHANGED <<storeVars, agent, pending, ecl, rng, fails, heading, dist, loop>>

CloseStore ==
  /\ world.handler = "stopped"
  /\ Close \/ CloseUnderLock
  /\ UNCHANGED <<stepVars, heading, dist, world, loop>>

\* The store alone: any thread may make any call of Calls, and close() come.
Alone ==
  /\ world.handler = "alone"
  /\ \/ \E t \in Agents, c \in Calls : Submit(t, c)
     \/ Close \/ CloseUnderLock
  /\ UNCHANGED <<stepVars, heading, dist, world, loop>>

StoreError(t) ==
  /\ ~ecl /\ fails.store < MaxStoreErrors /\ Error(t)
  /\ fails' = [fails EXCEPT !.store = @ + 1]
  /\ UNCHANGED <<agent, pending, step, ecl, rng, heading, dist, world, loop>>

-----------------------------------------------------------------------------
(* The embodied loop *)

Looping == loop.end = "running"

\* A tick: the factory's observations, and the step begins.
LoopBegin ==
  /\ Looping /\ loop.tick < loop.demand /\ loop.physics = 0 /\ step[LoopAgent].at = "idle"
  /\ pending' = [pending EXCEPT ![LoopAgent] = @ \o Seen[loop.tick]]
  /\ step' = [step EXCEPT ![LoopAgent] = [at |-> "due", serial |-> agent[LoopAgent].tick]]
  /\ loop' = [loop EXCEPT !.served = Len(loop.tape)]
  /\ UNCHANGED <<storeVars, agent, ecl, rng, fails, heading, dist, world>>

\* RecordReplayChatClient.chat: what the model said, or what it had said.
Said == IF loop.run = "record"
        THEN {"raised", "unparseable", None} \cup Zones
        ELSE IF loop.index < Len(loop.recorded.tape)
             THEN {loop.recorded.tape[loop.index + 1]} ELSE {}

Fires(n) == (n + loop.seed) % 2 = 0

LoopChat(said, up) ==
  /\ Looping /\ said \in Said
  /\ loop.run = "record" /\ said \in {"raised", "unparseable"} => fails.chat < MaxFallbacks
  /\ IF said \in {"raised", "unparseable"}
     THEN /\ up /\ Fallback(LoopAgent)
          /\ fails' = IF loop.run = "record" THEN [fails EXCEPT !.chat = @ + 1] ELSE fails
     ELSE PlanEcl(LoopAgent, Biased(said, Fires(rng.cycle)), up)
  /\ loop' = [loop EXCEPT !.tape = Append(@, said), !.index = @ + 1,
                          !.lost = IF up THEN @ ELSE Append(@, <<loop.tick, "move">>)]
  /\ UNCHANGED <<heading, dist, world>>

\* Nothing is left to replay: EclReplayError ends the run.
Exhausted ==
  /\ Looping /\ loop.run = "replay" /\ step[LoopAgent].at = "chat" /\ Said = {}
  /\ loop' = [loop EXCEPT !.end = "exhausted"]
  /\ UNCHANGED <<storeVars, stepVars, heading, dist, world>>

Decision(a) == <<"decision", loop.tick, Last(loop.tape), step[a].fell, step[a].move>>

\* The result is consumed and the decision recorded; a tick that served
\* another number of calls than one, or raised, ends the run.
LoopConsume ==
  LET a == LoopAgent IN
  /\ Looping /\ Finished(a)
  /\ IF step[a].at = "raised" \/ Len(loop.tape) # loop.served + 1
     THEN /\ loop' = [loop EXCEPT !.end = "raised"]
          /\ UNCHANGED <<agent, heading, step>>
     ELSE /\ ConsumeResults({a})
          /\ loop' = [loop EXCEPT !.trace = Append(@, Decision(a)), !.move = step[a].move,
                                  !.physics = PhysicsPerTick]
  /\ UNCHANGED <<storeVars, pending, ecl, rng, fails, dist, world>>

\* A physics tick, with the row that the trace keeps of it.
LoopPhysics ==
  /\ Looping /\ loop.physics > 0
  /\ Physics(There, Apart(There))
  /\ loop' = [loop EXCEPT !.physics = @ - 1,
                !.tick = IF loop.physics = 1 THEN @ + 1 ELSE @,
                !.trace = Append(@, <<"row", loop.tick, There[LoopAgent], loop.move>>)]
  /\ UNCHANGED <<storeVars, step, ecl, rng, fails, world>>

\* Faulty variant: the streams go on where the record left them.
Drawn(r) == r

\* The streams are drawn anew.
Redrawn(r) == [cycle |-> 0, micro |-> 0]

\* The record is complete: a replay of as many ticks, or of one more, on a
\* new store and with the streams drawn anew.
Replay ==
  /\ Looping /\ loop.run = "record" /\ loop.tick = loop.demand
  /\ \E demand \in {Ticks, Ticks + 1} :
       loop' = [NewLoop EXCEPT !.run = "replay", !.demand = demand, !.seed = loop.seed,
                  !.recorded = [tape |-> loop.tape, trace |-> loop.trace, lost |-> loop.lost]]
  /\ conn' = None /\ opened' = 0 /\ open' = {} /\ lock' = None /\ db' = Empty
  /\ thread' = [t \in Thread |-> Rest] /\ closing' = [at |-> "no", conn |-> None]
  /\ agent' = [a \in Agents |-> NewAgent(a)]
  /\ pending' = [a \in Agents |-> <<>>]
  /\ rng' = Redrawn(rng)
  /\ heading' = [a \in Agents |-> Nowhere]
  /\ dist' = [pair |-> Nowhere, prop |-> [a \in Agents |-> Nowhere]]
  /\ UNCHANGED <<step, ecl, fails, world>>

LoopEnd ==
  /\ Looping /\ loop.run = "replay" /\ loop.tick = loop.demand
  /\ loop' = [loop EXCEPT !.end = "complete"]
  /\ UNCHANGED <<storeVars, stepVars, heading, dist, world>>

\* Which embeddings were unavailable, of one run of the loop.
Outages(a) ==
  IF fails'.embedding = fails.embedding \/ ~ecl THEN loop
  ELSE [loop EXCEPT !.lost = Append(@, <<loop.tick, step[a].at, Cardinality(step[a].new)>>)]

StepOf(a) ==
  /\ IF ecl THEN Looping ELSE world.handler = "steps"
  /\ StepNext(a)
  /\ loop' = Outages(a)
  /\ UNCHANGED <<heading, dist, world>>

InStore(t) ==
  /\ ThreadNext(t)
  /\ UNCHANGED <<stepVars, heading, dist, world, loop>>

-----------------------------------------------------------------------------
Live ==
  \/ LivePhysics \/ StartHandler \/ Consume
  \/ TurnStored \/ TurnBonds \/ NoDialog \/ Stop \/ CloseStore \/ Alone
  \/ \E a \in Agents : LiveChat(a) \/ \E ev \in Observable : Inject(a, ev)
  \/ \E t \in Thread : StoreError(t)

Loop ==
  \/ LoopBegin \/ Exhausted \/ LoopConsume \/ LoopPhysics \/ Replay \/ LoopEnd
  \/ \E said \in {"raised", "unparseable", None} \cup Zones, up \in BOOLEAN : LoopChat(said, up)

Next ==
  \/ Live \/ Loop
  \/ \E a \in Agents : StepOf(a)
  \/ \E t \in Thread : InStore(t)

Spec == Init /\ [][Next]_vars

\* Some thread that can run does, and a coroutine whose await is over is
\* resumed; the chat and the embeddings answer or time out; a closing store
\* takes the lock when it is free.
FairSpec ==
  /\ Spec
  /\ WF_vars(\E t \in Thread : InStore(t))
  /\ \A a \in Agents : WF_vars(StepOf(a) \/ LiveChat(a))
  /\ WF_vars(CloseStore) /\ WF_vars(Consume)

-----------------------------------------------------------------------------
(* What is claimed of the live world, the store and the loop. *)

\* What a step has written stays written, each memory with the vector it was
\* given, whatever the other step, a failing statement, a cancellation or the
\* end of the store did meanwhile; and no vector is left without its row
\* (store.py:405-500).  The last id of a step may still be on its way.
WritesAreWhole ==
  /\ VectorsHaveRows
  /\ \A a \in Agents : "new" \in DOMAIN step[a] =>
       \A id \in step[a].new :
         id \in DOMAIN db.row
         \/ /\ step[a].at \in {"write", "raised"}
            /\ \A i \in step[a].new : i[3] <= id[3]
  /\ \A a \in Agents :
       thread[a].at \in {"done", "failed"} /\ thread[a].call.op = "add" =>
         LET c == thread[a].call IN
         c.id \in DOMAIN db.row =>
           IF c.vec = None THEN c.id \notin DOMAIN db.vec
           ELSE c.id \in DOMAIN db.vec /\ db.vec[c.id] = c.vec

\* One observation is the next of its kind after another, or the latest.
Follows(events, i, j) ==
  /\ i < j /\ events[j].kind = events[i].kind
  /\ \A k \in (i + 1)..(j - 1) : events[k].kind # events[i].kind
Latest(events, i) == \A k \in (i + 1)..Len(events) : events[k].kind # events[i].kind

\* Transitions that link up and end in a zone.
Linked(events, zone) ==
  \A i \in DOMAIN events : events[i].kind = "zone" =>
    /\ \A j \in DOMAIN events : Follows(events, i, j) => events[j].from = events[i].to
    /\ Latest(events, i) => events[i].to = zone

\* Crossings that alternate and end on a side of the threshold.
Alternating(events, near) ==
  \A i \in DOMAIN events : events[i].kind = "proximity" =>
    /\ \A j \in DOMAIN events :
         Follows(events, i, j) => events[j].crossing # events[i].crossing
    /\ Latest(events, i) => (events[i].crossing = "enter") = near

\* What waits to be observed is a true history: the transitions link up and
\* end in the zone the body is tagged with, though the nudge of separation
\* moves bodies across a wall without a word (tick.py:1273-1287); the crossings
\* of a pair alternate and end on the side where the two are.
EventsTellTheTruth ==
  \A a \in Agents :
    /\ Linked(pending[a], agent[a].body.zone)
    /\ Alternating(pending[a], dist.pair < Threshold)

\* A shift joins the observations of its step, and of those before it the last
\* that asks for a mode has decided mode and reason.
Explains(obs, shift) ==
  LET deciding == {i \in 1..(Len(obs) - 1) : Candidate(obs[i]) # None} IN
  /\ shift = Last(obs)
  /\ deciding # {}
  /\ shift.mode = Candidate(obs[Max(deciding)])
  /\ shift.reason = ReasonOf(obs[Max(deciding)])

\* The reason told of a mode shift is that of the observation that decided the
\* mode, though two rules in two files decide which one that is
\* (cycle.py:1913-1943, fsm.py:168-207).
ReasonExplains ==
  \A a \in Agents : ("shift" \in DOMAIN step[a] /\ step[a].shift # None) =>
    Explains(step[a].obs, step[a].shift)

\* No interaction is lost: a bond counts every turn that was stored, although
\* each step writes back the state it read when it began (tick.py:826-831).
BondsKeepUp ==
  world.handler \notin {"turn", "alone", "none"} =>
    \A a \in Agents : \A b \in Agents \ {a} :
      agent[a].bond[b] = Cardinality(DOMAIN db.turn)

\* A replay retraces the record decision by decision and row by row, moves and
\* the memories they came from included, as long as the embeddings were
\* unavailable at the same calls, which the record does not keep
\* (loop.py:205-280, 446-453); and when it is asked for more than was recorded
\* it stops there.
ReplayReproduces ==
  loop.run = "replay" =>
    /\ loop.lost = loop.recorded.lost => IsPrefix(loop.trace, loop.recorded.trace)
    /\ IsPrefix(loop.tape, loop.recorded.tape)
    /\ loop.end = "complete" => loop.demand = Ticks /\ loop.tape = loop.recorded.tape

\* Closing waits for the statement that is running and then ends, and the
\* threads nobody waits for any more come to rest (store.py:366-383).
StoreCloses ==
  (world.handler = "stopped")
    ~> (closing.at = "done" /\ \A t \in Thread : thread[t].at \in {"idle", "done", "failed"})
=============================================================================
