----------------------------- MODULE StoreProofs -----------------------------
(***************************************************************************)
(* What the live world, the embodied loop and a caller of its own do with   *)
(* the store and with one another, for any threads, calls, geometry and     *)
(* bounds.  First the store: no statement is executed on a closed           *)
(* connection and no two threads are in the database at once.  The store is *)
(* a module of its own with seven variables; what the rest of the apparatus *)
(* does to them is a step of the store, nothing, or a new store.  Then the  *)
(* write-back: nobody else touches the body and the bonds of an agent       *)
(* whose step is running, so the bonds count every stored turn.  Then the   *)
(* observations that wait: they link up and end where the bodies are.  Then *)
(* the writes: no memory is there in part, and none is lost.  Then the       *)
(* reasons of mode shifts: the two rules look at the same observation.      *)
(* Last the replay: the loop is a machine that depends on nothing but its    *)
(* own state and what it hears, so a replay that hears the same retraces    *)
(* its record.                                                             *)
(***************************************************************************)
EXTENDS Apparatus, TLAPS, FiniteSetTheorems

\* Only its holder is inside; a connection that was taken out of the store to be
\* closed is not the one the store uses, and no later one is the same.
StoreInv ==
  /\ thread = [t \in Thread |-> thread[t]]
  /\ opened \in Nat /\ open \subseteq 1..opened
  /\ conn # None => conn \in open
  /\ \A t \in Thread : Inside(t) => lock = t /\ thread[t].conn \in open
  /\ closing.at = "waiting" => closing.conn \in 1..opened /\ (conn = None \/ conn # closing.conn)

NewStore ==
  /\ conn' = None /\ opened' = 0 /\ open' = {}
  /\ thread' = [t \in Thread |-> Rest] /\ closing' = [at |-> "no", conn |-> None]
  /\ lock' = None /\ db' = Empty

\* Everything that may happen to the store.
StoreStep ==
  \/ \E t \in Thread : (\E c : Submit(t, c)) \/ ThreadNext(t) \/ Error(t)
  \/ Close \/ CloseUnderLock \/ NewStore \/ UNCHANGED storeVars

\* The connection a thread is on is one of those that are open, and two threads
\* that are inside both hold the one lock.
LEMMA InvMeansDiscipline == StoreInv => ConnectionDiscipline
BY DEF StoreInv, ConnectionDiscipline

\* A store nobody has used yet satisfies the invariant (MemoryStore.__init__).
LEMMA FreshStore ==
  ASSUME conn = None, opened = 0, open = {}, thread = [t \in Thread |-> Rest],
         closing = [at |-> "no", conn |-> None]
  PROVE  StoreInv
BY DEF StoreInv, Rest, Outside, Inside

\* A thread that waits for the lock is outside (asyncio.to_thread).
LEMMA SubmitKeeps ==
  ASSUME StoreInv, NEW t \in Thread, NEW c, Submit(t, c)
  PROVE  StoreInv'
BY DEF StoreInv, Submit, Outside, Inside

\* A connection that is opened by a call that was queued when the store was
\* closed is a new one: the one that is being closed stays apart.
LEMMA EnterKeeps ==
  ASSUME StoreInv, NEW t \in Thread, Enter(t)
  PROVE  StoreInv'
<1> USE ConnectionAssumption
<1>1. /\ thread' = [thread EXCEPT ![t] = Running(thread[t].call, 0, conn', db)]
      /\ lock = None /\ lock' = t /\ closing' = closing
  BY DEF Enter
<1>2. CASE conn # None
  <2>1. UNCHANGED <<conn, opened, open>>
    BY <1>2 DEF Enter
  <2> QED BY <1>1, <1>2, <2>1 DEF StoreInv, Running, Inside
<1>3. CASE conn = None
  <2>1. opened' = opened + 1 /\ conn' = opened + 1 /\ open' = open \cup {opened + 1}
    BY <1>3 DEF Enter
  <2> QED BY <1>1, <1>3, <2>1 DEF StoreInv, Running, Inside
<1> QED BY <1>2, <1>3

\* The thread goes on on its connection, or leaves and gives the lock back.
LEMMA ExecuteKeeps ==
  ASSUME StoreInv, NEW t \in Thread, Execute(t)
  PROVE  StoreInv'
<1>1. /\ Inside(t) /\ UNCHANGED <<conn, opened, open, closing>>
      /\ \/ /\ lock' = lock
            /\ \E d : thread' = [thread EXCEPT ![t] =
                        Running(thread[t].call, thread[t].n + 1, thread[t].conn, d)]
         \/ /\ lock' = None
            /\ thread' = [thread EXCEPT ![t] = Outside("failed", thread[t].call, None)]
  BY DEF Execute, Inside
<1> QED BY <1>1 DEF StoreInv, Running, Outside, Inside

\* Neither does the end of a call, with the commit or with the error.
LEMMA LeaveKeeps ==
  ASSUME StoreInv, NEW t \in Thread, Leave(t) \/ Error(t)
  PROVE  StoreInv'
<1>1. /\ Inside(t) /\ UNCHANGED <<conn, opened, open, closing>>
      /\ \E at \in {"done", "failed"} : \E out :
           thread' = [thread EXCEPT ![t] = Outside(at, thread[t].call, out)]
  BY DEF Leave, Error, Inside
<1> QED BY <1>1 DEF StoreInv, Outside, Inside

\* What close() takes out of the store is no longer what the store uses; the
\* threads that are inside stay on it and it stays open.
LEMMA CloseKeeps ==
  ASSUME StoreInv, Close
  PROVE  StoreInv'
<1>1. /\ conn' = None /\ UNCHANGED <<opened, open, thread, lock>>
      /\ \/ closing' = [at |-> "done", conn |-> None]
         \/ conn # None /\ closing' = [at |-> "waiting", conn |-> conn]
  BY DEF Close
<1> QED BY <1>1 DEF StoreInv, Inside

\* Nobody holds the lock, so nobody is on the connection that goes.
LEMMA CloseUnderLockKeeps ==
  ASSUME StoreInv, CloseUnderLock
  PROVE  StoreInv'
<1> USE ConnectionAssumption
<1>1. /\ closing.at = "waiting" /\ lock = None /\ open' = open \ {closing.conn}
      /\ closing' = [at |-> "done", conn |-> None]
      /\ UNCHANGED <<conn, opened, lock, thread>>
  BY DEF CloseUnderLock
<1>2. \A t \in Thread : ~Inside(t)
  BY <1>1 DEF StoreInv
<1> QED BY <1>1, <1>2 DEF StoreInv, Inside

\* Every step of the store keeps the invariant: one lemma per operation.
LEMMA StoreStepKeeps ==
  ASSUME StoreInv, StoreStep
  PROVE  StoreInv'
<1>1. ASSUME NEW t \in Thread, NEW c, Submit(t, c) PROVE StoreInv'
  BY <1>1, SubmitKeeps
<1>2. ASSUME NEW t \in Thread, ThreadNext(t) \/ Error(t) PROVE StoreInv'
  BY <1>2, EnterKeeps, ExecuteKeeps, LeaveKeeps DEF ThreadNext
<1>3. CASE NewStore
  BY <1>3 DEF NewStore, StoreInv, Rest, Outside, Inside
<1>4. CASE UNCHANGED storeVars
  BY <1>4 DEF storeVars, StoreInv, Inside
<1> QED BY <1>1, <1>2, <1>3, <1>4, CloseKeeps, CloseUnderLockKeeps DEF StoreStep

-----------------------------------------------------------------------------
(* What the rest of the apparatus does to the store *)

\* A step of an agent submits calls to the agent's own thread: it writes its
\* observations, reads, and marks what it has read.
LEMMA CognitionSubmits ==
  ASSUME NEW a \in Agents, StepNext(a)
  PROVE  \/ UNCHANGED storeVars
         \/ \E c : Submit(a, c) /\ c.op \in {"list", "vectors", "mark"}
         \/ \E up \in BOOLEAN : WriteObservation(a, up)
<1>2. CASE Begin(a) \/ StoreRaised(a) \/ Marked(a) \/ ResolveMove(a)
  BY <1>2 DEF Begin, StoreRaised, Marked, ResolveMove
<1>3. ASSUME NEW ag, NEW pool
      PROVE  ListByAgent(ag, pool).op = "list" /\ ListWorldScope(ag, pool).op = "list"
  BY DEF ListByAgent, ListWorldScope
<1>4. ASSUME NEW ids
      PROVE  GetEmbeddings(ids).op = "vectors" /\ MarkRecalled(ids).op = "mark"
  BY DEF GetEmbeddings, MarkRecalled
<1>5. ASSUME NEW up \in BOOLEAN, Feel(a, up)
      PROVE  UNCHANGED storeVars \/ Submit(a, ListByAgent(a, Pool))
  BY <1>5 DEF Feel
<1>6. ASSUME FetchVectors(a) PROVE Submit(a, GetEmbeddings(DOMAIN thread[a].out))
  BY <1>6 DEF FetchVectors
<1>7. ASSUME NextScope(a) PROVE Submit(a, ListWorldScope(a, Pool))
  BY <1>7 DEF NextScope
<1>8. ASSUME Mark(a) PROVE UNCHANGED storeVars \/ \E ids : Submit(a, MarkRecalled(ids))
  BY <1>8 DEF Mark
<1> QED BY <1>2, <1>3, <1>4, <1>5, <1>6, <1>7, <1>8 DEF StepNext

\* A step of cognition is a call of its own thread, or none.
LEMMA CognitionIsStoreStep ==
  ASSUME NEW a \in Agents, StepNext(a)
  PROVE  StoreStep
<1>1. a \in Thread
  BY StepAssumption
<1>2. ASSUME NEW up \in BOOLEAN, WriteObservation(a, up) PROVE \E c : Submit(a, c)
  BY <1>2 DEF WriteObservation
<1> QED BY <1>1, <1>2, CognitionSubmits DEF StoreStep

\* The live world uses the store for dialog turns, closes it, and meets its
\* errors; its other steps leave it alone.
LEMMA LiveIsStoreStep ==
  ASSUME Live
  PROVE  StoreStep
<1> USE ApparatusAssumption, StepAssumption DEF StoreStep
<1>1. CASE LivePhysics \/ StartHandler \/ Consume \/ TurnBonds \/ NoDialog \/ Stop
  BY <1>1 DEF LivePhysics, StartHandler, Consume, TurnBonds, NoDialog, Stop
<1>2. CASE TurnStored
  BY <1>2 DEF TurnStored
<1>3. CASE CloseStore
  BY <1>3 DEF CloseStore
<1>4. CASE Alone
  BY <1>4 DEF Alone
<1>5. ASSUME NEW a \in Agents, LiveChat(a) PROVE StoreStep
  BY <1>5 DEF LiveChat, Fallback, Plan
<1>6. ASSUME NEW a \in Agents, NEW ev \in Observable, Inject(a, ev) PROVE StoreStep
  BY <1>6 DEF Inject
<1>7. ASSUME NEW t \in Thread, StoreError(t) PROVE StoreStep
  BY <1>7 DEF StoreError
<1> QED BY <1>1, <1>2, <1>3, <1>4, <1>5, <1>6, <1>7 DEF Live

\* The embodied loop leaves the store to the agent's step, and starts a replay
\* on a new one.
LEMMA LoopIsStoreStep ==
  ASSUME Loop
  PROVE  StoreStep
<1> USE ApparatusAssumption, StepAssumption DEF StoreStep
<1>1. CASE LoopBegin \/ Exhausted \/ LoopConsume \/ LoopPhysics \/ LoopEnd
  BY <1>1 DEF LoopBegin, Exhausted, LoopConsume, LoopPhysics, LoopEnd
<1>2. CASE Replay
  BY <1>2 DEF Replay, NewStore
<1>3. ASSUME NEW said \in {"raised", "unparseable", None} \cup Zones, NEW up \in BOOLEAN,
             LoopChat(said, up)
      PROVE  StoreStep
  <2>1. Fallback(LoopAgent) \/ PlanEcl(LoopAgent, Biased(said, Fires(rng.cycle)), up)
    BY <1>3 DEF LoopChat
  <2> QED BY <2>1 DEF Fallback, PlanEcl
<1> QED BY <1>1, <1>2, <1>3 DEF Loop

-----------------------------------------------------------------------------
\* Whatever the apparatus does, the store makes a step of its own or none.
LEMMA NextIsStoreStep ==
  ASSUME [Next]_vars
  PROVE  StoreStep
<1>1. ASSUME NEW a \in Agents, StepOf(a) PROVE StoreStep
  BY <1>1, CognitionIsStoreStep DEF StepOf
<1>2. ASSUME NEW t \in Thread, InStore(t) PROVE StoreStep
  BY <1>2 DEF InStore, StoreStep
<1>3. CASE UNCHANGED vars
  BY <1>3 DEF vars, StoreStep
<1> QED BY <1>1, <1>2, <1>3, LiveIsStoreStep, LoopIsStoreStep DEF Next

\* Statements stay inside an open connection and are executed by one thread at
\* a time, whatever is cancelled, fails or is still queued when the store is
\* closed (store.py:77-93, 366-383).
THEOREM StatementsStayInside == Spec => []ConnectionDiscipline
<1>1. Init => StoreInv
  BY FreshStore DEF Init, StoreInit
<1>2. StoreInv /\ [Next]_vars => StoreInv'
  BY NextIsStoreStep, StoreStepKeeps
<1>3. StoreInv => ConnectionDiscipline
  BY InvMeansDiscipline
<1> QED BY <1>1, <1>2, <1>3, PTL DEF Spec

-----------------------------------------------------------------------------
(* Steps and their agents: while a step runs, nobody else moves its agent or *)
(* changes its bonds, so what it writes back at the end is still true.       *)

Busy == {"write", "rows", "vectors", "mark", "chat", "answered"}
Handlers == {"none", "idle", "alone", "steps", "dialog", "turn", "stopped"}
Worlds == [handler : Handlers, round : Nat, physics : Nat, injected : Nat, turns : Nat]

\* A step has the body and the bonds of its agent.
Holds(a) ==
  step[a].at \in Busy =>
    step[a].self.body = agent[a].body /\ step[a].self.bond = agent[a].bond

\* Steps run in a handler of the live world, or in the part of a tick of the loop
\* that comes before the physics.
WorldInv ==
  /\ ecl \in BOOLEAN
  /\ world \in Worlds
  /\ world.handler = "none" <=> ecl
  /\ ~ecl => loop.end = "none"
  /\ step = [a \in Agents |-> step[a]] /\ agent = [a \in Agents |-> agent[a]]
  /\ pending = [a \in Agents |-> pending[a]] /\ heading = [a \in Agents |-> heading[a]]
  /\ \A a \in Agents : Holds(a)
  /\ ~ecl /\ world.handler # "steps" => \A a \in Agents : step[a].at = "idle"
  /\ loop.tick \in Nat /\ loop.demand \in Nat /\ loop.physics \in Nat
  /\ ecl => \A a \in Agents :
       a # LoopAgent \/ loop.physics > 0 \/ loop.tick = loop.demand => step[a].at = "idle"

\* A step that keeps the body and the bonds of another record of a step.
Keeps(r, s) == r.self.body = s.self.body /\ r.self.bond = s.self.bond

\* The records a step goes through keep the state the step began with, but for
\* its mode and its tick (CognitionCycle.step).
LEMMA RecordsKeep ==
  ASSUME NEW s, NEW x, NEW y
  PROVE  /\ Keeps(Shifted(s), s)
         /\ Retrieving(s, x, y).self = s.self
         /\ Prompted(s).self = s.self
         /\ Keeps(Result(s, x, y), s)
<1>1. Shifted(s).self.body = s.self.body
  BY DEF Shifted
<1>2. Shifted(s).self.bond = s.self.bond
  BY DEF Shifted
<1>3. Retrieving(s, x, y).self = s.self
  BY DEF Retrieving
<1>4. Prompted(s).self = s.self
  BY DEF Prompted
<1>5. Result(s, x, y).self = [s.self EXCEPT !.tick = @ + 1]
  BY DEF Result
<1>6. [s.self EXCEPT !.tick = @ + 1].body = s.self.body
  OBVIOUS
<1>7. [s.self EXCEPT !.tick = @ + 1].bond = s.self.bond
  OBVIOUS
<1> QED BY <1>1, <1>2, <1>3, <1>4, <1>5, <1>6, <1>7 DEF Keeps

\* A step of an agent changes its own record.
LEMMA OneRecord ==
  ASSUME NEW a \in Agents, NEW r, step = [b \in Agents |-> step[b]],
         step' = [step EXCEPT ![a] = r]
  PROVE  /\ step' = [b \in Agents |-> step'[b]] /\ step'[a] = r
         /\ \A b \in Agents : b # a => step'[b] = step[b]
OBVIOUS

\* What a step does of its own: it starts with its agent, and keeps what it has
\* of it.
LEMMA StepHolds ==
  ASSUME NEW a \in Agents, step = [b \in Agents |-> step[b]], StepNext(a)
  PROVE  /\ step' = [b \in Agents |-> step'[b]]
         /\ \A b \in Agents : b # a => step'[b] = step[b]
         /\ step[a].at # "idle" /\ step'[a].at # "idle"
         /\ step'[a].at \in Busy =>
              step'[a].self = agent[a] \/ (step[a].at \in Busy /\ Keeps(step'[a], step[a]))
<1> DEFINE Same(r) == \/ r.at \in Busy /\ Keeps(r, step[a])
                      \/ r.at \in Busy /\ r.self = agent[a]
                      \/ r.at = "raised"
<1>1. ASSUME NEW r, step' = [step EXCEPT ![a] = r], step[a].at # "idle",
             step[a].at = "due" => r.at \notin Busy \/ r.self = agent[a],
             step[a].at # "due" => step[a].at \in Busy, Same(r)
      PROVE  /\ step' = [b \in Agents |-> step'[b]]
             /\ \A b \in Agents : b # a => step'[b] = step[b]
             /\ step[a].at # "idle" /\ step'[a].at # "idle"
             /\ step'[a].at \in Busy =>
                  step'[a].self = agent[a] \/ (step[a].at \in Busy /\ Keeps(step'[a], step[a]))
  <2>1. /\ step' = [b \in Agents |-> step'[b]] /\ step'[a] = r
        /\ \A b \in Agents : b # a => step'[b] = step[b]
    BY <1>1, OneRecord
  <2> QED BY <1>1, <2>1 DEF Busy
<1>2. CASE Begin(a)
  <2> DEFINE r == [at |-> "write", serial |-> step[a].serial, n |-> 0, obs |-> pending[a],
                   self |-> agent[a], new |-> {}, shift |-> None]
  <2>1. step' = [step EXCEPT ![a] = r] /\ step[a].at = "due"
    BY <1>2 DEF Begin
  <2>2. r.at = "write" /\ r.self = agent[a]
    OBVIOUS
  <2> HIDE DEF r
  <2> QED BY <1>1, <2>1, <2>2 DEF Busy
<1>3. CASE StoreRaised(a)
  <2> DEFINE r == [at |-> "raised", new |-> step[a].new]
  <2>1. step' = [step EXCEPT ![a] = r] /\ step[a].at \in {"write", "mark", "rows", "vectors"}
    BY <1>3 DEF StoreRaised
  <2>2. r.at = "raised"
    OBVIOUS
  <2> HIDE DEF r
  <2> QED BY <1>1, <2>1, <2>2 DEF Busy
<1>4. ASSUME NEW r, step' = [step EXCEPT ![a] = r], step[a].at \in Busy, r.at \in Busy,
             Keeps(r, step[a])
      PROVE  /\ step' = [b \in Agents |-> step'[b]]
             /\ \A b \in Agents : b # a => step'[b] = step[b]
             /\ step[a].at # "idle" /\ step'[a].at # "idle"
             /\ step'[a].at \in Busy =>
                  step'[a].self = agent[a] \/ (step[a].at \in Busy /\ Keeps(step'[a], step[a]))
  BY <1>1, <1>4 DEF Busy
<1>5. ASSUME NEW up \in BOOLEAN, WriteObservation(a, up)
      PROVE  \E r : /\ step' = [step EXCEPT ![a] = r]
                    /\ step[a].at \in Busy /\ r.at \in Busy /\ Keeps(r, step[a])
  <2> DEFINE id == FreshId(a, step[a].n)
             r == [step[a] EXCEPT !.n = @ + 1, !.new = @ \cup {id}]
  <2>1. step' = [step EXCEPT ![a].n = @ + 1, ![a].new = @ \cup {id}] /\ step[a].at = "write"
    BY <1>5 DEF WriteObservation
  <2> HIDE DEF id
  <2>2. step' = [step EXCEPT ![a] = r]
    BY <2>1
  <2>3. r.at = step[a].at
    OBVIOUS
  <2>4. r.self = step[a].self
    OBVIOUS
  <2> HIDE DEF r
  <2> QED BY <2>1, <2>2, <2>3, <2>4 DEF Busy, Keeps
<1>6. ASSUME NEW up \in BOOLEAN, Feel(a, up)
      PROVE  \E r : /\ step' = [step EXCEPT ![a] = r]
                    /\ step[a].at \in Busy /\ r.at \in Busy /\ Keeps(r, step[a])
  <2>1. /\ step[a].at = "write"
        /\ \/ step' = [step EXCEPT ![a] = Prompted(Shifted(step[a]))]
           \/ \E query : step' = [step EXCEPT ![a] = Retrieving(Shifted(step[a]), "prompt", query)]
    BY <1>6 DEF Feel
  <2>2. Prompted(Shifted(step[a])).at = "chat"
    BY DEF Prompted
  <2>3. \A query : Retrieving(Shifted(step[a]), "prompt", query).at = "rows"
    BY DEF Retrieving
  <2>4. Keeps(Prompted(Shifted(step[a])), step[a])
    BY RecordsKeep DEF Keeps
  <2>5. ASSUME NEW query
        PROVE  Keeps(Retrieving(Shifted(step[a]), "prompt", query), step[a])
    <3>1. Retrieving(Shifted(step[a]), "prompt", query).self = Shifted(step[a]).self
      BY RecordsKeep
    <3>2. Keeps(Shifted(step[a]), step[a])
      BY RecordsKeep
    <3> QED BY <3>1, <3>2 DEF Keeps
  <2> QED BY <2>1, <2>2, <2>3, <2>4, <2>5 DEF Busy
<1>7. CASE FetchVectors(a)
  <2> DEFINE r == [step[a] EXCEPT !.at = "vectors", !.rows = thread[a].out]
  <2>1. step' = [step EXCEPT ![a].at = "vectors", ![a].rows = thread[a].out] /\ step[a].at = "rows"
    BY <1>7 DEF FetchVectors
  <2>2. step' = [step EXCEPT ![a] = r]
    BY <2>1
  <2>3. r.at = "vectors"
    OBVIOUS
  <2>4. r.self = step[a].self
    OBVIOUS
  <2> HIDE DEF r
  <2> QED BY <1>4, <2>1, <2>2, <2>3, <2>4 DEF Busy, Keeps
<1>8. CASE NextScope(a)
  <2>1. PICK top : step' = [step EXCEPT ![a] = [@ EXCEPT !.at = "rows", !.world = TRUE,
                                                         !.rows = <<>>, !.top = top]]
    BY <1>8 DEF NextScope
  <2>2. step[a].at \in {"rows", "vectors"}
    BY <1>8 DEF NextScope, ScopeRanked
  <2> DEFINE r == [step[a] EXCEPT !.at = "rows", !.world = TRUE, !.rows = <<>>, !.top = top]
  <2>3. step' = [step EXCEPT ![a] = r]
    BY <2>1
  <2>4. r.at = "rows"
    OBVIOUS
  <2>5. r.self = step[a].self
    OBVIOUS
  <2> HIDE DEF r
  <2> QED BY <1>4, <2>2, <2>3, <2>4, <2>5 DEF Busy, Keeps
<1>9. CASE Mark(a)
  <2>1. step[a].at \in {"rows", "vectors"}
    BY <1>9 DEF Mark, ScopeRanked
  <2>2. \/ step' = [step EXCEPT ![a] = Prompted(step[a])]
        \/ \E top : step' = [step EXCEPT ![a] =
                               [Prompted(step[a]) EXCEPT !.at = "mark", !.top = top]]
    BY <1>9 DEF Mark
  <2>3. Prompted(step[a]).at = "chat"
    BY DEF Prompted
  <2>4. Prompted(step[a]).self = step[a].self
    BY RecordsKeep
  <2>5. ASSUME NEW top PROVE [Prompted(step[a]) EXCEPT !.at = "mark", !.top = top].at = "mark"
    BY DEF Prompted
  <2>6. ASSUME NEW top
        PROVE  [Prompted(step[a]) EXCEPT !.at = "mark", !.top = top].self = step[a].self
    BY DEF Prompted
  <2>7. CASE step' = [step EXCEPT ![a] = Prompted(step[a])]
    BY <1>4, <2>1, <2>3, <2>4, <2>7 DEF Busy, Keeps
  <2>8. ASSUME NEW top, NEW r, r = [Prompted(step[a]) EXCEPT !.at = "mark", !.top = top]
        PROVE  r.at = "mark" /\ r.self = step[a].self
    BY <2>5, <2>6, <2>8
  <2>9. ASSUME NEW top, step' = [step EXCEPT ![a] =
                                   [Prompted(step[a]) EXCEPT !.at = "mark", !.top = top]]
        PROVE  \E r : /\ step' = [step EXCEPT ![a] = r]
                      /\ step[a].at \in Busy /\ r.at \in Busy /\ Keeps(r, step[a])
    <3> DEFINE r == [Prompted(step[a]) EXCEPT !.at = "mark", !.top = top]
    <3>1. step' = [step EXCEPT ![a] = r] /\ r.at = "mark" /\ r.self = step[a].self
      BY <2>8, <2>9
    <3> HIDE DEF r
    <3> QED BY <2>1, <3>1 DEF Busy, Keeps
  <2> QED BY <1>4, <2>2, <2>7, <2>9
<1>10. CASE Marked(a)
  <2> DEFINE r == [step[a] EXCEPT !.at = "chat"]
  <2>1. step' = [step EXCEPT ![a].at = "chat"] /\ step[a].at = "mark"
    BY <1>10 DEF Marked
  <2>2. step' = [step EXCEPT ![a] = r]
    BY <2>1
  <2>3. r.at = "chat"
    OBVIOUS
  <2>4. r.self = step[a].self
    OBVIOUS
  <2> HIDE DEF r
  <2> QED BY <1>4, <2>1, <2>2, <2>3, <2>4 DEF Busy, Keeps
<1>11. CASE ResolveMove(a)
  <2>1. step[a].at \in {"rows", "vectors"}
    BY <1>11 DEF ResolveMove, ScopeRanked
  <2>2. \E move : step' = [step EXCEPT ![a] = Result(step[a], FALSE, move)]
    BY <1>11 DEF ResolveMove
  <2>3. \A move : Result(step[a], FALSE, move).at = "answered"
    BY DEF Result
  <2>4. \A move : Keeps(Result(step[a], FALSE, move), step[a])
    BY RecordsKeep
  <2> QED BY <1>4, <2>1, <2>2, <2>3, <2>4 DEF Busy
<1> QED BY <1>2, <1>3, <1>4, <1>5, <1>6, <1>7, <1>8, <1>9, <1>10, <1>11 DEF StepNext

\* The chat ends a step, or sends it to look for a place; what it says is only
\* taken by a step that waits for it.
LEMMA ChatHolds ==
  ASSUME NEW a \in Agents, step = [b \in Agents |-> step[b]],
         \/ Fallback(a) \/ \E zone : Plan(a, zone) \/ \E up : PlanEcl(a, zone, up)
  PROVE  /\ step' = [b \in Agents |-> step'[b]]
         /\ \A b \in Agents : b # a => step'[b] = step[b]
         /\ step[a].at # "idle" /\ step'[a].at # "idle"
         /\ step'[a].at \in Busy => step[a].at \in Busy /\ Keeps(step'[a], step[a])
<1>1. step[a].at = "chat"
  BY DEF Fallback, Plan, PlanEcl
<1>2. \/ \E fell, move : step' = [step EXCEPT ![a] = Result(step[a], fell, move)]
      \/ step' = [step EXCEPT ![a] = [at |-> "raised", new |-> step[a].new]]
      \/ \E zone : step' = [step EXCEPT ![a] =
           [Retrieving(step[a], "move", "forage") EXCEPT !.zone = zone]]
  BY DEF Fallback, Plan, PlanEcl
<1>3. ASSUME NEW r, step' = [step EXCEPT ![a] = r],
             r.at = "raised" \/ (r.at \in Busy /\ Keeps(r, step[a]))
      PROVE  /\ step' = [b \in Agents |-> step'[b]]
             /\ \A b \in Agents : b # a => step'[b] = step[b]
             /\ step[a].at # "idle" /\ step'[a].at # "idle"
             /\ step'[a].at \in Busy => step[a].at \in Busy /\ Keeps(step'[a], step[a])
  BY <1>1, <1>3, OneRecord DEF Busy
<1>4. ASSUME NEW fell, NEW move
      PROVE  Result(step[a], fell, move).at \in Busy /\ Keeps(Result(step[a], fell, move), step[a])
  <2>1. Result(step[a], fell, move).at = "answered"
    BY DEF Result
  <2> QED BY <2>1, RecordsKeep DEF Busy
<1>5. [at |-> "raised", new |-> step[a].new].at = "raised"
  OBVIOUS
<1>6. ASSUME NEW r, NEW zone, r = [Retrieving(step[a], "move", "forage") EXCEPT !.zone = zone]
      PROVE  r.at \in Busy /\ Keeps(r, step[a])
  <2>1. r.at = "rows"
    BY <1>6 DEF Retrieving
  <2>2. r.self = step[a].self
    BY <1>6 DEF Retrieving
  <2> QED BY <2>1, <2>2 DEF Busy, Keeps
<1>7. CASE \E fell, move : step' = [step EXCEPT ![a] = Result(step[a], fell, move)]
  BY <1>3, <1>4, <1>7
<1>8. CASE step' = [step EXCEPT ![a] = [at |-> "raised", new |-> step[a].new]]
  BY <1>3, <1>5, <1>8
<1>9. ASSUME NEW zone, step' = [step EXCEPT ![a] =
                         [Retrieving(step[a], "move", "forage") EXCEPT !.zone = zone]]
      PROVE  \E r : /\ step' = [step EXCEPT ![a] = r]
                    /\ r.at \in Busy /\ Keeps(r, step[a])
  BY <1>6, <1>9
<1> QED BY <1>2, <1>3, <1>7, <1>8, <1>9

\* A program at rest, with or without a loop, is where it should be.
LEMMA InitWorld == Init => WorldInv
<1> SUFFICES ASSUME Init PROVE WorldInv
  OBVIOUS
<1>1. /\ ecl \in BOOLEAN
      /\ world \in Worlds
      /\ world.handler = "none" <=> ecl
  BY DEF Init, Handlers, Worlds
<1>2. /\ NewLoop.tick = 0 /\ NewLoop.demand = Ticks /\ NewLoop.physics = 0
  BY DEF NewLoop
<1>3. /\ ~ecl => loop.end = "none"
      /\ loop.tick = 0 /\ loop.demand = Ticks /\ loop.physics = 0
  <2>1. CASE ecl
    <3>1. PICK seed : loop = [NewLoop EXCEPT !.seed = seed]
      BY <2>1 DEF Init
    <3>2. loop.tick = NewLoop.tick
      BY <3>1
    <3>3. loop.demand = NewLoop.demand
      BY <3>1
    <3>4. loop.physics = NewLoop.physics
      BY <3>1
    <3> QED BY <1>2, <2>1, <3>2, <3>3, <3>4
  <2>2. CASE ~ecl
    <3>1. loop = [NewLoop EXCEPT !.end = "none"]
      BY <2>2 DEF Init
    <3>2. loop.tick = NewLoop.tick
      BY <3>1
    <3>3. loop.demand = NewLoop.demand
      BY <3>1
    <3>4. loop.physics = NewLoop.physics
      BY <3>1
    <3>5. loop.end = "none"
      BY <3>1
    <3> QED BY <1>2, <2>2, <3>2, <3>3, <3>4, <3>5
  <2> QED BY <1>1, <2>1, <2>2 DEF Worlds
<1>4. /\ step = [a \in Agents |-> Idle] /\ agent = [a \in Agents |-> NewAgent(a)]
      /\ pending = [a \in Agents |-> <<>>] /\ heading = [a \in Agents |-> Nowhere]
  BY DEF Init, Fresh
<1>5. /\ step = [a \in Agents |-> step[a]] /\ agent = [a \in Agents |-> agent[a]]
      /\ pending = [a \in Agents |-> pending[a]] /\ heading = [a \in Agents |-> heading[a]]
  BY <1>4
<1>6. \A a \in Agents : step[a].at = "idle"
  BY <1>4 DEF Idle
<1> QED BY <1>1, <1>3, <1>5, <1>6, ApparatusAssumption DEF WorldInv, Holds, Busy

\* The handler moves on where no step runs, and the agents with it.
LEMMA NobodyRuns ==
  ASSUME WorldInv, ecl' = ecl, loop' = loop,
         step' = [a \in Agents |-> step'[a]], agent' = [a \in Agents |-> agent'[a]],
         pending' = [a \in Agents |-> pending'[a]], heading' = [a \in Agents |-> heading'[a]],
         \A a \in Agents : step'[a].at = "idle",
         world' \in Worlds,
         world'.handler = "none" <=> world.handler = "none"
  PROVE  WorldInv'
BY DEF WorldInv, Holds, Busy

\* A step of one agent, when the handler is at its steps or the loop at its step.
LEMMA OneSteps ==
  ASSUME WorldInv, NEW a \in Agents, ecl' = ecl, world' = world, agent' = agent,
         heading' = heading, pending' = [b \in Agents |-> pending'[b]],
         step' = [b \in Agents |-> step'[b]],
         \A b \in Agents : b # a => step'[b] = step[b],
         step[a].at # "idle",
         step'[a].at \in Busy =>
           step'[a].self = agent[a] \/ (step[a].at \in Busy /\ Keeps(step'[a], step[a])),
         ~ecl => loop'.end = loop.end,
         loop'.tick = loop.tick, loop'.demand = loop.demand, loop'.physics = loop.physics
  PROVE  WorldInv'
<1>1. ASSUME NEW b \in Agents PROVE Holds(b)'
  BY DEF WorldInv, Holds, Keeps
<1>2. ~ecl' /\ world'.handler # "steps" => \A b \in Agents : step'[b].at = "idle"
  BY DEF WorldInv
<1>3. ecl' => \A b \in Agents :
        b # LoopAgent \/ loop'.physics > 0 \/ loop'.tick = loop'.demand => step'[b].at = "idle"
  BY DEF WorldInv
<1> QED BY <1>1, <1>2, <1>3 DEF WorldInv

\* A step of an agent's own (CognitionCycle.step).
LEMMA StepOfKeepsWorld ==
  ASSUME WorldInv, NEW a \in Agents, StepOf(a)
  PROVE  WorldInv'
<1>1. StepNext(a) /\ world' = world /\ heading' = heading /\ loop' = Outages(a)
  BY DEF StepOf
<1>2. /\ step = [b \in Agents |-> step[b]] /\ pending = [b \in Agents |-> pending[b]]
  BY DEF WorldInv
<1>3. ecl' = ecl /\ agent' = agent /\ pending' = [b \in Agents |-> pending'[b]]
  BY <1>1, <1>2 DEF StepNext, Begin, StoreRaised, WriteObservation, Feel, FetchVectors, NextScope,
    Mark, Marked, ResolveMove
<1>4. \/ loop' = loop
      \/ ecl /\ \E l : loop' = [loop EXCEPT !.lost = l]
  BY <1>1 DEF Outages
<1>5. ASSUME NEW l, NEW m, m = [loop EXCEPT !.lost = l]
      PROVE  m.tick = loop.tick /\ m.demand = loop.demand /\ m.physics = loop.physics
  <2>1. m.tick = loop.tick
    BY <1>5
  <2>2. m.demand = loop.demand
    BY <1>5
  <2>3. m.physics = loop.physics
    BY <1>5
  <2> QED BY <2>1, <2>2, <2>3
<1>6. /\ loop'.tick = loop.tick /\ loop'.demand = loop.demand /\ loop'.physics = loop.physics
      /\ ~ecl => loop'.end = loop.end
  BY <1>4, <1>5
<1> HIDE DEF Busy
<1>7. /\ step' = [b \in Agents |-> step'[b]]
      /\ \A b \in Agents : b # a => step'[b] = step[b]
      /\ step[a].at # "idle" /\ step'[a].at # "idle"
      /\ step'[a].at \in Busy =>
           step'[a].self = agent[a] \/ (step[a].at \in Busy /\ Keeps(step'[a], step[a]))
  BY <1>1, <1>2, StepHolds
<1> QED BY <1>1, <1>3, <1>6, <1>7, OneSteps

\* The answer of the language model, in the live world and in the loop.
LEMMA ChatKeepsWorld ==
  ASSUME WorldInv, NEW a \in Agents,
         \/ LiveChat(a)
         \/ a = LoopAgent /\ \E said, up : LoopChat(said, up)
  PROVE  WorldInv'
<1>1. /\ step = [b \in Agents |-> step[b]] /\ pending = [b \in Agents |-> pending[b]]
  BY DEF WorldInv
<1>2. /\ \/ Fallback(a)
         \/ \E zone : Plan(a, zone)
         \/ \E zone, up : PlanEcl(a, zone, up)
      /\ world' = world /\ heading' = heading
  BY DEF LiveChat, LoopChat
<1>3. /\ ecl' = ecl /\ agent' = agent /\ pending' = pending
  BY <1>2 DEF Fallback, Plan, PlanEcl
<1>4. \/ loop' = loop
      \/ loop.end # "none" /\ \E t, i, l : loop' = [loop EXCEPT !.tape = t, !.index = i, !.lost = l]
  <2>1. CASE LiveChat(a)
    BY <2>1 DEF LiveChat
  <2>2. ASSUME NEW said, NEW up, LoopChat(said, up)
        PROVE  loop.end # "none" /\ \E t, i, l : loop' = [loop EXCEPT !.tape = t, !.index = i, !.lost = l]
    <3>1. loop.end # "none"
      BY <2>2 DEF LoopChat, Looping
    <3>2. loop' = [loop EXCEPT !.tape = Append(loop.tape, said), !.index = loop.index + 1,
                     !.lost = IF up THEN loop.lost ELSE Append(loop.lost, <<loop.tick, "move">>)]
      BY <2>2 DEF LoopChat
    <3> QED BY <3>1, <3>2
  <2> QED BY <2>1, <2>2
<1>6. /\ loop'.tick = loop.tick /\ loop'.demand = loop.demand /\ loop'.physics = loop.physics
      /\ loop' = loop \/ loop.end # "none"
  <2>1. CASE loop' = loop
    BY <2>1
  <2>2. ASSUME NEW t, NEW i, NEW l, loop' = [loop EXCEPT !.tape = t, !.index = i, !.lost = l]
        PROVE  loop'.tick = loop.tick /\ loop'.demand = loop.demand /\ loop'.physics = loop.physics
    <3>1. loop'.tick = loop.tick
      BY <2>2
    <3>2. loop'.demand = loop.demand
      BY <2>2
    <3>3. loop'.physics = loop.physics
      BY <2>2
    <3> QED BY <3>1, <3>2, <3>3
  <2> QED BY <1>4, <2>1, <2>2
<1>7. /\ step' = [b \in Agents |-> step'[b]]
      /\ \A b \in Agents : b # a => step'[b] = step[b]
      /\ step[a].at # "idle" /\ step'[a].at # "idle"
      /\ step'[a].at \in Busy => step[a].at \in Busy /\ Keeps(step'[a], step[a])
  BY <1>1, <1>2, ChatHolds
<1>8. pending' = [b \in Agents |-> pending'[b]]
  BY <1>1, <1>3
<1>9. ~ecl => loop'.end = loop.end
  BY <1>6 DEF WorldInv
<1> QED BY <1>2, <1>3, <1>6, <1>7, <1>8, <1>9, OneSteps

\* Two fields of the world change.
LEMMA WorldFields ==
  ASSUME NEW w \in Worlds, NEW h \in Handlers, NEW n \in Nat, NEW m \in Nat
  PROVE  /\ [w EXCEPT !.handler = h, !.turns = n] \in Worlds
         /\ [w EXCEPT !.handler = h, !.turns = n].handler = h
         /\ [w EXCEPT !.handler = h, !.round = n, !.physics = m] \in Worlds
         /\ [w EXCEPT !.handler = h, !.round = n, !.physics = m].handler = h
<1>1. [w EXCEPT !.handler = h, !.turns = n] \in Worlds
  BY Zenon DEF Worlds
<1>2. [w EXCEPT !.handler = h, !.round = n, !.physics = m] \in Worlds
  BY Zenon DEF Worlds
<1>3. [w EXCEPT !.handler = h, !.turns = n].handler = h
  BY Zenon DEF Worlds
<1>4. [w EXCEPT !.handler = h, !.round = n, !.physics = m].handler = h
  BY Zenon DEF Worlds
<1> QED BY <1>1, <1>2, <1>3, <1>4

\* The handlers of the live world that no step runs in.
LEMMA HandlersKeepWorld ==
  ASSUME WorldInv, LivePhysics \/ Consume \/ TurnStored \/ TurnBonds \/ NoDialog \/ Stop
                   \/ CloseStore \/ Alone \/ \E t \in Thread : StoreError(t)
  PROVE  WorldInv'
<1>1. world \in Worlds
  BY DEF WorldInv
<1>2. /\ step = [a \in Agents |-> step[a]] /\ agent = [a \in Agents |-> agent[a]]
      /\ pending = [a \in Agents |-> pending[a]] /\ heading = [a \in Agents |-> heading[a]]
  BY DEF WorldInv
<1>3. CASE LivePhysics
  <2>1. /\ world.handler = "idle" /\ ecl' = ecl /\ loop' = loop /\ step' = step
        /\ agent' = [a \in Agents |-> agent'[a]] /\ pending' = [a \in Agents |-> pending'[a]]
        /\ heading' = [a \in Agents |-> heading'[a]]
    BY <1>3 DEF LivePhysics, Physics
  <2>2. world' = [world EXCEPT !.physics = world.physics + 1]
    BY <1>3 DEF LivePhysics
  <2>3. /\ world' \in Worlds
        /\ world'.handler = "idle"
    BY <1>1, <2>1, <2>2 DEF Worlds
  <2> QED BY <1>2, <2>1, <2>3, NobodyRuns DEF WorldInv
<1>4. CASE Consume
  <2>1. /\ world.handler = "steps" /\ ecl' = ecl /\ loop' = loop /\ pending' = pending
        /\ agent' = [a \in Agents |-> agent'[a]] /\ step' = [a \in Agents |-> step'[a]]
        /\ heading' = [a \in Agents |-> heading'[a]] /\ \A a \in Agents : step'[a].at = "idle"
    BY <1>4 DEF Consume, ConsumeResults, Idle
  <2>2. world' = [world EXCEPT !.handler = "dialog"]
    BY <1>4 DEF Consume
  <2>3. /\ world' \in Worlds
        /\ world'.handler = "dialog"
    BY <1>1, <2>1, <2>2 DEF Handlers, Worlds
  <2>4. pending' = [a \in Agents |-> pending'[a]]
    BY <1>2, <2>1
  <2> QED BY <2>1, <2>3, <2>4, NobodyRuns
<1>5. CASE TurnStored
  <2>1. world.handler = "dialog" /\ UNCHANGED <<stepVars, heading, loop>>
    BY <1>5 DEF TurnStored
  <2>2. world' = [world EXCEPT !.handler = "turn"]
    BY <1>5 DEF TurnStored
  <2>3. /\ world' \in Worlds
        /\ world'.handler = "turn"
    BY <1>1, <2>1, <2>2 DEF Handlers, Worlds
  <2> QED BY <1>2, <2>1, <2>3, NobodyRuns DEF WorldInv, stepVars
<1>6. CASE TurnBonds
  <2>1. /\ world.handler = "turn" /\ ecl' = ecl /\ loop' = loop /\ step' = step
        /\ pending' = pending /\ heading' = heading /\ agent' = [a \in Agents |-> agent'[a]]
    BY <1>2, <1>6 DEF TurnBonds
  <2>2. \/ world' = [world EXCEPT !.handler = "idle", !.turns = world.turns + 1]
        \/ world' = [world EXCEPT !.handler = "idle"]
    BY <1>6 DEF TurnBonds
  <2>3. /\ world' \in Worlds
        /\ world'.handler = "idle"
    <3>1. CASE world' = [world EXCEPT !.handler = "idle"]
      BY <1>1, <3>1 DEF Handlers, Worlds
    <3>2. CASE world' = [world EXCEPT !.handler = "idle", !.turns = world.turns + 1]
      <4>1. "idle" \in Handlers /\ world.turns + 1 \in Nat /\ world \in Worlds
        BY <1>1 DEF Handlers, Worlds
      <4> QED BY <3>2, <4>1, WorldFields DEF Worlds
    <3> QED BY <2>2, <3>1, <3>2
  <2> QED BY <1>2, <2>1, <2>3, NobodyRuns DEF WorldInv
<1>7. CASE NoDialog
  <2>1. world.handler = "dialog" /\ UNCHANGED <<stepVars, heading, loop>>
    BY <1>7 DEF NoDialog
  <2>2. world' = [world EXCEPT !.handler = "idle"]
    BY <1>7 DEF NoDialog
  <2>3. /\ world' \in Worlds
        /\ world'.handler = "idle"
    BY <1>1, <2>1, <2>2 DEF Handlers, Worlds
  <2> QED BY <1>2, <2>1, <2>3, NobodyRuns DEF WorldInv, stepVars
<1>8. CASE Stop
  <2>1. /\ world.handler \in {"idle", "steps", "dialog"} /\ UNCHANGED <<agent, pending, ecl, heading, loop>>
        /\ step' = [a \in Agents |-> step'[a]] /\ \A a \in Agents : step'[a].at = "idle"
    BY <1>8 DEF Stop, Idle
  <2>2. world' = [world EXCEPT !.handler = "stopped"]
    BY <1>8 DEF Stop
  <2>3. /\ world' \in Worlds
        /\ world'.handler = "stopped"
    BY <1>1, <2>1, <2>2 DEF Handlers, Worlds
  <2> QED BY <1>2, <2>1, <2>3, NobodyRuns
<1>9. CASE CloseStore \/ Alone \/ \E t \in Thread : StoreError(t)
  <2>1. UNCHANGED <<agent, pending, step, ecl, heading, world, loop>>
    BY <1>9 DEF CloseStore, Alone, StoreError, stepVars
  <2> QED BY <2>1 DEF WorldInv, Holds
<1> QED BY <1>3, <1>4, <1>5, <1>6, <1>7, <1>8, <1>9

\* What begins a round, and what is told to an agent from outside.
LEMMA BeginningsKeepWorld ==
  ASSUME WorldInv, StartHandler \/ \E a \in Agents, ev \in Observable : Inject(a, ev)
  PROVE  WorldInv'
<1>1. world \in Worlds
  BY DEF WorldInv
<1>2. CASE StartHandler
  <2>1. /\ world.handler = "idle" /\ UNCHANGED <<agent, pending, ecl, heading, loop>>
        /\ step' = [a \in Agents |-> [at |-> "due", serial |-> world.round + 1]]
    BY <1>2 DEF StartHandler
  <2>2. world' = [world EXCEPT !.handler = "steps", !.round = world.round + 1, !.physics = 0]
    BY <1>2 DEF StartHandler
  <2>3. /\ world' \in Worlds
        /\ world'.handler = "steps"
    <3>1. "steps" \in Handlers /\ world.round + 1 \in Nat /\ 0 \in Nat /\ world \in Worlds
      BY <1>1 DEF Handlers, Worlds
    <3> QED BY <2>2, <3>1, WorldFields DEF Worlds
  <2>4. step' = [a \in Agents |-> step'[a]] /\ \A a \in Agents : step'[a].at = "due"
    BY <2>1
  <2> QED BY <2>1, <2>3, <2>4 DEF WorldInv, Holds, Busy
<1>3. ASSUME NEW a \in Agents, NEW ev \in Observable, Inject(a, ev)
      PROVE  WorldInv'
  <2>1. /\ UNCHANGED <<agent, step, ecl, heading, loop>>
        /\ pending' = [pending EXCEPT ![a] = Append(@, ev)]
    BY <1>3 DEF Inject
  <2>2. world' = [world EXCEPT !.injected = world.injected + 1]
    BY <1>3 DEF Inject
  <2>3. /\ world' \in Worlds
        /\ world'.handler = world.handler
    BY <1>1, <2>2 DEF Worlds
  <2>4. pending' = [b \in Agents |-> pending'[b]]
    BY <2>1 DEF WorldInv
  <2> QED BY <2>1, <2>3, <2>4 DEF WorldInv, Holds
<1> QED BY <1>2, <1>3

\* The embodied loop: a step is under way only before the physics of a tick.
LEMMA LoopKeepsWorld ==
  ASSUME WorldInv, LoopBegin \/ Exhausted \/ LoopConsume \/ LoopPhysics \/ Replay \/ LoopEnd
  PROVE  WorldInv'
<1> USE ApparatusAssumption
<1>1. ecl /\ ecl' = ecl /\ world' = world
  BY DEF WorldInv, LoopBegin, Exhausted, LoopConsume, LoopPhysics, Replay, LoopEnd, Looping, stepVars
<1>2. /\ step = [a \in Agents |-> step[a]] /\ agent = [a \in Agents |-> agent[a]]
      /\ pending = [a \in Agents |-> pending[a]] /\ heading = [a \in Agents |-> heading[a]]
      /\ loop.tick \in Nat /\ loop.demand \in Nat /\ loop.physics \in Nat
      /\ \A a \in Agents :
           a # LoopAgent \/ loop.physics > 0 \/ loop.tick = loop.demand => step[a].at = "idle"
  BY <1>1 DEF WorldInv
<1>3. CASE LoopBegin
  <2>1. /\ loop.physics = 0 /\ loop.tick < loop.demand /\ agent' = agent /\ heading' = heading
        /\ pending' = [pending EXCEPT ![LoopAgent] = @ \o Seen[loop.tick]]
        /\ step' = [step EXCEPT ![LoopAgent] = [at |-> "due", serial |-> agent[LoopAgent].tick]]
    BY <1>3 DEF LoopBegin
  <2>2. loop' = [loop EXCEPT !.served = Len(loop.tape)]
    BY <1>3 DEF LoopBegin
  <2>3. loop'.tick = loop.tick
    BY <2>2
  <2>4. loop'.demand = loop.demand
    BY <2>2
  <2>5. loop'.physics = loop.physics
    BY <2>2
  <2>6. /\ step' = [a \in Agents |-> step'[a]] /\ step'[LoopAgent].at = "due"
        /\ \A a \in Agents : a # LoopAgent => step'[a] = step[a]
        /\ pending' = [a \in Agents |-> pending'[a]]
    BY <1>2, <2>1
  <2>7. \A a \in Agents : Holds(a)'
    BY <2>1, <2>6 DEF WorldInv, Holds, Busy
  <2> QED BY <1>1, <1>2, <2>1, <2>3, <2>4, <2>5, <2>6, <2>7 DEF WorldInv
<1>4. CASE Exhausted \/ LoopEnd
  <2>1. UNCHANGED <<stepVars, heading>>
    BY <1>4 DEF Exhausted, LoopEnd
  <2>2. \E e : loop' = [loop EXCEPT !.end = e]
    BY <1>4 DEF Exhausted, LoopEnd
  <2>3. loop'.tick = loop.tick
    BY <2>2
  <2>4. loop'.demand = loop.demand
    BY <2>2
  <2>5. loop'.physics = loop.physics
    BY <2>2
  <2> QED BY <1>1, <2>1, <2>3, <2>4, <2>5 DEF WorldInv, Holds, stepVars
<1>5. CASE LoopConsume
  <2>1. pending' = pending
    BY <1>5 DEF LoopConsume
  <2>2. CASE step[LoopAgent].at = "raised" \/ Len(loop.tape) # loop.served + 1
    <3>1. UNCHANGED <<agent, heading, step>>
      BY <1>5, <2>2 DEF LoopConsume
    <3>2. loop' = [loop EXCEPT !.end = "raised"]
      BY <1>5, <2>2 DEF LoopConsume
    <3>3. loop'.tick = loop.tick
      BY <3>2
    <3>4. loop'.demand = loop.demand
      BY <3>2
    <3>5. loop'.physics = loop.physics
      BY <3>2
    <3> QED BY <1>1, <2>1, <3>1, <3>3, <3>4, <3>5 DEF WorldInv, Holds
  <2>3. CASE ~(step[LoopAgent].at = "raised" \/ Len(loop.tape) # loop.served + 1)
    <3>1. ConsumeResults({LoopAgent})
      BY <1>5, <2>3 DEF LoopConsume
    <3>2. \E t, m : loop' = [loop EXCEPT !.trace = t, !.move = m, !.physics = PhysicsPerTick]
      BY <1>5, <2>3 DEF LoopConsume
    <3>3. loop'.tick = loop.tick
      BY <3>2
    <3>4. loop'.demand = loop.demand
      BY <3>2
    <3>5. loop'.physics = PhysicsPerTick
      BY <3>2
    <3>6. /\ agent' = [a \in Agents |-> agent'[a]] /\ step' = [a \in Agents |-> step'[a]]
          /\ heading' = [a \in Agents |-> heading'[a]]
          /\ \A a \in Agents : step'[a] = IF a = LoopAgent THEN Idle ELSE step[a]
      BY <3>1 DEF ConsumeResults
    <3>7. Idle.at = "idle"
      BY DEF Idle
    <3>8. \A a \in Agents : step'[a].at = "idle"
      BY <1>2, <3>6, <3>7
    <3> QED BY <1>1, <2>1, <3>3, <3>4, <3>5, <3>6, <3>8 DEF WorldInv, Holds, Busy
  <2> QED BY <2>2, <2>3
<1>6. CASE LoopPhysics
  <2>1. /\ loop.physics > 0 /\ step' = step
        /\ agent' = [a \in Agents |-> agent'[a]] /\ pending' = [a \in Agents |-> pending'[a]]
        /\ heading' = [a \in Agents |-> heading'[a]]
    BY <1>6 DEF LoopPhysics, Physics
  <2>2. PICK r : loop' = [loop EXCEPT !.physics = loop.physics - 1,
                     !.tick = IF loop.physics = 1 THEN loop.tick + 1 ELSE loop.tick,
                     !.trace = Append(loop.trace, r)]
    BY <1>6 DEF LoopPhysics
  <2>3. loop'.tick = IF loop.physics = 1 THEN loop.tick + 1 ELSE loop.tick
    BY <2>2
  <2>4. loop'.demand = loop.demand
    BY <2>2
  <2>5. loop'.physics = loop.physics - 1
    BY <2>2
  <2>6. loop'.tick \in Nat /\ loop'.physics \in Nat
    BY <1>2, <2>1, <2>3, <2>5
  <2>7. \A a \in Agents : step'[a].at = "idle"
    BY <1>2, <2>1
  <2> QED BY <1>1, <1>2, <2>1, <2>4, <2>6, <2>7 DEF WorldInv, Holds, Busy
<1>7. CASE Replay
  <2>1. /\ loop.tick = loop.demand /\ step' = step
        /\ agent' = [a \in Agents |-> agent'[a]] /\ pending' = [a \in Agents |-> pending'[a]]
        /\ heading' = [a \in Agents |-> heading'[a]]
    BY <1>7 DEF Replay
  <2> DEFINE recorded == [tape |-> loop.tape, trace |-> loop.trace, lost |-> loop.lost]
  <2>2. PICK demand \in {Ticks, Ticks + 1} :
          loop' = [NewLoop EXCEPT !.run = "replay", !.demand = demand, !.seed = loop.seed,
                     !.recorded = recorded]
    BY <1>7 DEF Replay
  <2> HIDE DEF recorded
  <2>3. loop'.tick = 0
    BY <2>2 DEF NewLoop
  <2>4. loop'.demand \in {Ticks, Ticks + 1}
    <3>1. loop'.demand = demand
      BY <2>2 DEF NewLoop
    <3> QED BY <3>1
  <2>5. loop'.physics = 0
    BY <2>2 DEF NewLoop
  <2>6. \A a \in Agents : step'[a].at = "idle"
    BY <1>2, <2>1
  <2> QED BY <1>1, <1>2, <2>1, <2>3, <2>4, <2>5, <2>6 DEF WorldInv, Holds, Busy
<1> QED BY <1>3, <1>4, <1>5, <1>6, <1>7

\* Every step keeps it.
LEMMA NextKeepsWorld == WorldInv /\ [Next]_vars => WorldInv'
<1> SUFFICES ASSUME WorldInv, [Next]_vars PROVE WorldInv'
  OBVIOUS
<1>1. CASE UNCHANGED vars
  BY <1>1 DEF vars, stepVars, WorldInv, Holds
<1>2. ASSUME NEW a \in Agents, StepOf(a) PROVE WorldInv'
  BY <1>2, StepOfKeepsWorld
<1>3. ASSUME NEW t \in Thread, InStore(t) PROVE WorldInv'
  BY <1>3 DEF InStore, stepVars, WorldInv, Holds
<1>4. CASE Live
  BY <1>4, HandlersKeepWorld, BeginningsKeepWorld, ChatKeepsWorld DEF Live
<1>5. CASE Loop
  BY <1>5, LoopKeepsWorld, ChatKeepsWorld, ApparatusAssumption DEF Loop
<1> QED BY <1>1, <1>2, <1>3, <1>4, <1>5 DEF Next

-----------------------------------------------------------------------------
(* Turns and bonds *)

\* The statement that a call executes next, by the operation it names.
LEMMA StatementIs ==
  ASSUME NEW c, NEW n \in Nat, n < StatementsOf(c), NEW d0, NEW d
  PROVE  LET s == Statement(c, n + 1, d0, d) IN
         \/ c.op = "add" /\ n = 0 /\ s = InsertRow(d, c.id, c.row)
         \/ c.op = "add" /\ n = 1 /\ c.vec # None /\ s = InsertVec(d, c.id, c.vec)
         \/ c.op = "upsert" /\ n = 0 /\ s = ReplaceRow(d, c.id, c.row)
         \/ c.op = "upsert" /\ n = 1 /\ s = DeleteVec(d, {c.id})
         \/ c.op = "upsert" /\ n = 2 /\ c.vec # None /\ s = InsertVec(d, c.id, c.vec)
         \/ c.op = "evict" /\ n = 0 /\ s = DeleteRows(d, Evicted(d0, c))
         \/ c.op = "evict" /\ n = 1 /\ s = DeleteVec(d, Evicted(d0, c))
         \/ c.op = "mark" /\ n = 0 /\ s = Recall(d, c.ids)
         \/ c.op = "turn" /\ n = 0 /\ s = InsertTurn(d, c.key, c.turn)
<1>1. /\ c.op = "add" => StatementsOf(c) = IF c.vec = None THEN 1 ELSE 2
      /\ c.op = "upsert" => StatementsOf(c) = IF c.vec = None THEN 2 ELSE 3
      /\ c.op = "evict" => StatementsOf(c) = 2
      /\ c.op \in {"mark", "turn"} => StatementsOf(c) = 1
      /\ c.op \notin {"add", "upsert", "evict", "mark", "turn"} => StatementsOf(c) = 0
  BY DEF StatementsOf
<1>2. CASE c.op = "add"
  <2>1. n = 0 \/ (n = 1 /\ c.vec # None)
    BY <1>1, <1>2
  <2> QED BY <1>2, <2>1 DEF Statement
<1>3. CASE c.op = "upsert"
  <2>1. n = 0 \/ n = 1 \/ (n = 2 /\ c.vec # None)
    BY <1>1, <1>3
  <2> QED BY <1>3, <2>1 DEF Statement
<1>4. CASE c.op = "evict"
  <2>1. n = 0 \/ n = 1
    BY <1>1, <1>4
  <2> QED BY <1>4, <2>1 DEF Statement
<1>5. CASE c.op \in {"mark", "turn"}
  <2>1. n = 0
    BY <1>1, <1>5
  <2> QED BY <1>5, <2>1 DEF Statement
<1> QED BY <1>1, <1>2, <1>3, <1>4, <1>5

\* Only a recorded turn adds to the turns (add_dialog_turn_sync).
LEMMA StatementTurns ==
  ASSUME NEW c, NEW n \in Nat, n < StatementsOf(c), NEW d0, NEW d,
         Statement(c, n + 1, d0, d) # Fails
  PROVE  DOMAIN Statement(c, n + 1, d0, d).turn =
           IF c.op = "turn" THEN DOMAIN d.turn \cup {c.key} ELSE DOMAIN d.turn
<1>1. ASSUME NEW id, NEW r, InsertRow(d, id, r) # Fails PROVE InsertRow(d, id, r).turn = d.turn
  BY <1>1 DEF InsertRow
<1>2. ASSUME NEW id, NEW r, InsertVec(d, id, r) # Fails PROVE InsertVec(d, id, r).turn = d.turn
  BY <1>2 DEF InsertVec
<1>3. ASSUME NEW id, NEW r PROVE ReplaceRow(d, id, r).turn = d.turn
  BY DEF ReplaceRow
<1>4. ASSUME NEW ids PROVE DeleteVec(d, ids).turn = d.turn
  BY DEF DeleteVec
<1>5. ASSUME NEW ids PROVE DeleteRows(d, ids).turn = d.turn
  BY DEF DeleteRows
<1>6. ASSUME NEW ids PROVE Recall(d, ids).turn = d.turn
  BY DEF Recall
<1>7. ASSUME NEW key, NEW t PROVE DOMAIN InsertTurn(d, key, t).turn = DOMAIN d.turn \cup {key}
  <2>1. CASE key \in DOMAIN d.turn
    BY <2>1 DEF InsertTurn
  <2>2. CASE key \notin DOMAIN d.turn
    BY <2>2 DEF InsertTurn
  <2> QED BY <2>1, <2>2
<1> DEFINE s == Statement(c, n + 1, d0, d)
<1>8. /\ s # Fails
      /\ \/ c.op = "add" /\ n = 0 /\ s = InsertRow(d, c.id, c.row)
         \/ c.op = "add" /\ n = 1 /\ c.vec # None /\ s = InsertVec(d, c.id, c.vec)
         \/ c.op = "upsert" /\ n = 0 /\ s = ReplaceRow(d, c.id, c.row)
         \/ c.op = "upsert" /\ n = 1 /\ s = DeleteVec(d, {c.id})
         \/ c.op = "upsert" /\ n = 2 /\ c.vec # None /\ s = InsertVec(d, c.id, c.vec)
         \/ c.op = "evict" /\ n = 0 /\ s = DeleteRows(d, Evicted(d0, c))
         \/ c.op = "evict" /\ n = 1 /\ s = DeleteVec(d, Evicted(d0, c))
         \/ c.op = "mark" /\ n = 0 /\ s = Recall(d, c.ids)
         \/ c.op = "turn" /\ n = 0 /\ s = InsertTurn(d, c.key, c.turn)
  BY StatementIs
<1> HIDE DEF s
<1>9. IF c.op = "turn" THEN DOMAIN s.turn = DOMAIN d.turn \cup {c.key} ELSE s.turn = d.turn
  BY <1>1, <1>2, <1>3, <1>4, <1>5, <1>6, <1>7, <1>8
<1> QED BY <1>9 DEF s

\* What a thread that is inside has made of the turns.
TurnsInside(t) ==
  Inside(t) =>
    /\ thread[t].n \in Nat
    /\ DOMAIN thread[t].txn.turn =
         IF thread[t].call.op = "turn" /\ thread[t].n > 0
         THEN DOMAIN db.turn \cup {thread[t].call.key} ELSE DOMAIN db.turn
AllTurnsInside == \A t \in Thread : TurnsInside(t)

\* A step of a thread: what it has made of the turns counts when it is done.
LEMMA ThreadTurns ==
  ASSUME StoreInv, AllTurnsInside, NEW t \in Thread, ThreadNext(t) \/ Error(t)
  PROVE  /\ AllTurnsInside'
         /\ thread[t].at \in {"queued", "inside"} /\ thread'[t].call = thread[t].call
         /\ \A u \in Thread : u # t => thread'[u] = thread[u]
         /\ \/ thread'[t].at \in {"inside", "failed"} /\ DOMAIN db'.turn = DOMAIN db.turn
            \/ /\ thread'[t].at = "done"
               /\ DOMAIN db'.turn = IF thread[t].call.op = "turn"
                                    THEN DOMAIN db.turn \cup {thread[t].call.key}
                                    ELSE DOMAIN db.turn
<1> USE DEF StoreInv, AllTurnsInside, TurnsInside, Inside
<1>1. CASE Enter(t)
  <2>1. /\ thread' = [thread EXCEPT ![t] = Running(thread[t].call, 0, conn', db)]
        /\ thread[t].at = "queued" /\ lock = None /\ db' = db
    BY <1>1 DEF Enter
  <2>2. \A u \in Thread : ~Inside(u)
    BY <2>1, ConnectionAssumption
  <2>3. /\ thread'[t] = Running(thread[t].call, 0, conn', db)
        /\ \A u \in Thread : u # t => thread'[u] = thread[u]
    BY <2>1
  <2> QED BY <2>1, <2>2, <2>3 DEF Running
<1>2. CASE Execute(t)
  <2> DEFINE d == Statement(thread[t].call, thread[t].n + 1, db, thread[t].txn)
  <2>1. /\ Inside(t) /\ thread[t].n < StatementsOf(thread[t].call) /\ db' = db
        /\ \/ /\ d # Fails
              /\ thread' = [thread EXCEPT ![t] =
                   Running(thread[t].call, thread[t].n + 1, thread[t].conn, d)]
           \/ thread' = [thread EXCEPT ![t] = Outside("failed", thread[t].call, None)]
    BY <1>2 DEF Execute
  <2>2. d # Fails => DOMAIN d.turn = IF thread[t].call.op = "turn"
                       THEN DOMAIN thread[t].txn.turn \cup {thread[t].call.key}
                       ELSE DOMAIN thread[t].txn.turn
    <3> SUFFICES ASSUME d # Fails
                 PROVE  DOMAIN d.turn = IF thread[t].call.op = "turn"
                          THEN DOMAIN thread[t].txn.turn \cup {thread[t].call.key}
                          ELSE DOMAIN thread[t].txn.turn
      OBVIOUS
    <3> DEFINE c == thread[t].call
               n == thread[t].n
               x == thread[t].txn
    <3>1. n \in Nat /\ n < StatementsOf(c) /\ Statement(c, n + 1, db, x) # Fails
      BY <2>1
    <3> HIDE DEF c, n, x
    <3>2. DOMAIN Statement(c, n + 1, db, x).turn =
            IF c.op = "turn" THEN DOMAIN x.turn \cup {c.key} ELSE DOMAIN x.turn
      BY <3>1, StatementTurns
    <3> QED BY <3>2 DEF c, n, x
  <2> HIDE DEF d
  <2>3. \A u \in Thread : Inside(u) => u = t
    BY <2>1
  <2>4. CASE /\ d # Fails
             /\ thread' = [thread EXCEPT ![t] =
                  Running(thread[t].call, thread[t].n + 1, thread[t].conn, d)]
    <3>1. /\ thread'[t] = Running(thread[t].call, thread[t].n + 1, thread[t].conn, d)
          /\ \A u \in Thread : u # t => thread'[u] = thread[u]
      BY <2>4
    <3>2. /\ thread'[t].at = "inside" /\ thread'[t].call = thread[t].call
          /\ thread'[t].n = thread[t].n + 1 /\ thread'[t].txn = d
      BY <3>1 DEF Running
    <3>3. /\ thread[t].n \in Nat
          /\ DOMAIN d.turn = IF thread[t].call.op = "turn"
                             THEN DOMAIN db.turn \cup {thread[t].call.key} ELSE DOMAIN db.turn
      BY <2>1, <2>2, <2>4
    <3>4. TurnsInside(t)'
      BY <2>1, <3>2, <3>3
    <3>5. ASSUME NEW u \in Thread, u # t PROVE TurnsInside(u)'
      BY <2>1, <2>3, <3>1, <3>5
    <3> QED BY <2>1, <3>1, <3>2, <3>4, <3>5
  <2>5. CASE thread' = [thread EXCEPT ![t] = Outside("failed", thread[t].call, None)]
    <3>1. /\ thread'[t] = Outside("failed", thread[t].call, None)
          /\ \A u \in Thread : u # t => thread'[u] = thread[u]
      BY <2>5
    <3> QED BY <2>1, <2>3, <3>1 DEF Outside
  <2> QED BY <2>1, <2>4, <2>5
<1>3. CASE Leave(t)
  <2>1. /\ Inside(t) /\ thread[t].n = StatementsOf(thread[t].call) /\ db' = thread[t].txn
        /\ \E out : thread' = [thread EXCEPT ![t] = Outside("done", thread[t].call, out)]
    BY <1>3 DEF Leave
  <2>2. thread[t].call.op = "turn" => StatementsOf(thread[t].call) = 1
    BY DEF StatementsOf
  <2>3. \A u \in Thread : Inside(u) => u = t
    BY <2>1
  <2>4. PICK out : thread' = [thread EXCEPT ![t] = Outside("done", thread[t].call, out)]
    BY <2>1
  <2>5. /\ thread'[t] = Outside("done", thread[t].call, out)
        /\ \A u \in Thread : u # t => thread'[u] = thread[u]
    BY <2>4
  <2> QED BY <2>1, <2>2, <2>3, <2>5 DEF Outside
<1>4. CASE Error(t)
  <2>1. /\ Inside(t) /\ db' = db
        /\ thread' = [thread EXCEPT ![t] = Outside("failed", thread[t].call, None)]
    BY <1>4 DEF Error
  <2>2. /\ thread'[t] = Outside("failed", thread[t].call, None)
        /\ \A u \in Thread : u # t => thread'[u] = thread[u]
    BY <2>1
  <2> QED BY <2>1, <2>2 DEF Outside
<1> QED BY <1>1, <1>2, <1>3, <1>4 DEF ThreadNext

\* A call that is submitted is not inside.
LEMMA SubmitTurns ==
  ASSUME StoreInv, AllTurnsInside, NEW t \in Thread, NEW c, Submit(t, c)
  PROVE  /\ AllTurnsInside' /\ db' = db
         /\ thread'[t].at = "queued" /\ thread'[t].call = c
         /\ \A u \in Thread : u # t => thread'[u] = thread[u]
<1>1. /\ thread' = [thread EXCEPT ![t] = Outside("queued", c, None)] /\ db' = db
  BY DEF Submit
<1>2. /\ thread'[t] = Outside("queued", c, None)
      /\ \A u \in Thread : u # t => thread'[u] = thread[u]
  BY <1>1 DEF StoreInv
<1> QED BY <1>1, <1>2 DEF AllTurnsInside, TurnsInside, Inside, Outside

\* The dialogs of n turns.
Kept(keys, n) ==
  /\ IsFiniteSet(keys) /\ Cardinality(keys) = n
  /\ \A key \in keys : \E k \in 0..(n - 1) : key = <<"dialog", k>>

\* One more turn is one more key.
LEMMA OneMoreKept ==
  ASSUME NEW keys, NEW n \in Nat, Kept(keys, n)
  PROVE  Kept(keys \cup {<<"dialog", n>>}, n + 1)
<1> DEFINE key == <<"dialog", n>>
<1>1. key \notin keys
  <2> SUFFICES ASSUME key \in keys PROVE FALSE
    OBVIOUS
  <2>1. PICK k \in 0..(n - 1) : key = <<"dialog", k>>
    BY DEF Kept
  <2> QED BY <2>1
<1>2. IsFiniteSet(keys \cup {key}) /\ Cardinality(keys \cup {key}) = n + 1
  BY <1>1, FS_AddElement DEF Kept
<1>3. ASSUME NEW x \in keys \cup {key} PROVE \E k \in 0..((n + 1) - 1) : x = <<"dialog", k>>
  BY DEF Kept
<1> QED BY <1>2, <1>3 DEF Kept

Turning == world.handler = "turn"
TurnKey == <<"dialog", world.turns>>
TurnDone == Turning /\ thread[LoopThread].at = "done"

\* Turns are recorded by the event loop, one at a time, and each counts once for
\* both: the bonds are behind only from the commit to their own update.
TurnsCounted ==
  /\ \A t \in Thread : t # LoopThread /\ thread[t].at \in {"queued", "inside"} =>
       thread[t].call.op # "turn"
  /\ Turning => /\ thread[LoopThread].at \in {"queued", "inside", "done", "failed"}
                /\ thread[LoopThread].call.op = "turn" /\ thread[LoopThread].call.key = TurnKey
  /\ ~Turning => thread[LoopThread].at \notin {"queued", "inside"}
  /\ Kept(DOMAIN db.turn, IF TurnDone THEN world.turns + 1 ELSE world.turns)
  /\ \A a \in Agents : agent[a].bond = [b \in Agents \ {a} |-> world.turns]

Living == world.handler \notin {"none", "alone"}
BondInv == StoreInv /\ WorldInv /\ AllTurnsInside /\ (Living => TurnsCounted)

\* At first no turn is stored and no bond counts one.
LEMMA InitBonds == Init => BondInv
<1> SUFFICES ASSUME Init PROVE BondInv
  OBVIOUS
<1>1. StoreInv /\ WorldInv
  BY FreshStore, InitWorld DEF Init, StoreInit
<1>2. /\ thread = [t \in Thread |-> Rest] /\ db = Empty /\ Rest.at = "idle"
      /\ agent = [a \in Agents |-> NewAgent(a)] /\ world.handler \in {"none", "idle", "alone"}
      /\ world.turns = 0
  BY DEF Init, StoreInit, Fresh, Rest, Outside
<1>3. AllTurnsInside
  BY <1>2 DEF AllTurnsInside, TurnsInside, Inside
<1>4. DOMAIN Empty.turn = {}
  BY DEF Empty
<1>5. Kept(DOMAIN db.turn, 0)
  BY <1>2, <1>4, FS_EmptySet DEF Kept
<1>6. \A a \in Agents : agent[a].bond = [b \in Agents \ {a} |-> 0]
  BY <1>2 DEF NewAgent
<1>7. ~Turning /\ ~TurnDone /\ \A t \in Thread : thread[t].at = "idle"
  BY <1>2 DEF Turning, TurnDone
<1>8. TurnsCounted
  <2>1. LoopThread \in Thread
    BY ApparatusAssumption
  <2>2. thread[LoopThread].at = "idle"
    BY <1>7, <2>1
  <2> QED BY <1>2, <1>5, <1>6, <1>7, <2>2 DEF TurnsCounted
<1> QED BY <1>1, <1>3, <1>8 DEF BondInv

\* A step of a thread is one of those that count, or changes no turn.
LEMMA ThreadsCount ==
  ASSUME BondInv, NEW t \in Thread, ThreadNext(t) \/ Error(t), world' = world, agent' = agent
  PROVE  AllTurnsInside' /\ (Living' => TurnsCounted')
<1> USE ApparatusAssumption DEF Turning, TurnDone, TurnKey
<1>1. /\ AllTurnsInside'
      /\ thread[t].at \in {"queued", "inside"} /\ thread'[t].call = thread[t].call
      /\ \A u \in Thread : u # t => thread'[u] = thread[u]
      /\ \/ thread'[t].at \in {"inside", "failed"} /\ DOMAIN db'.turn = DOMAIN db.turn
         \/ /\ thread'[t].at = "done"
            /\ DOMAIN db'.turn = IF thread[t].call.op = "turn"
                                 THEN DOMAIN db.turn \cup {thread[t].call.key}
                                 ELSE DOMAIN db.turn
  BY ThreadTurns DEF BondInv
<1> SUFFICES ASSUME Living PROVE TurnsCounted'
  BY <1>1 DEF Living
<1>2. TurnsCounted /\ world.turns \in Nat
  BY DEF BondInv, WorldInv, Worlds
<1>3. /\ \A u \in Thread : u # LoopThread /\ thread'[u].at \in {"queued", "inside"} =>
           thread'[u].call.op # "turn"
      /\ Turning' => /\ thread'[LoopThread].at \in {"queued", "inside", "done", "failed"}
                     /\ thread'[LoopThread].call.op = "turn"
                     /\ thread'[LoopThread].call.key = TurnKey'
      /\ ~Turning' => thread'[LoopThread].at \notin {"queued", "inside"}
  BY <1>1, <1>2 DEF TurnsCounted
<1>4. Kept(DOMAIN db'.turn, IF TurnDone' THEN world'.turns + 1 ELSE world'.turns)
  <2>1. CASE t = LoopThread
    <3>1. Turning /\ ~TurnDone /\ Kept(DOMAIN db.turn, world.turns)
      BY <1>1, <1>2, <2>1 DEF TurnsCounted
    <3>2. Kept(DOMAIN db.turn \cup {TurnKey}, world.turns + 1)
      BY <1>2, <3>1, OneMoreKept
    <3> QED BY <1>1, <1>2, <2>1, <3>1, <3>2 DEF TurnsCounted
  <2>2. CASE t # LoopThread
    <3>1. DOMAIN db'.turn = DOMAIN db.turn /\ (TurnDone' <=> TurnDone)
      BY <1>1, <1>2, <2>2 DEF TurnsCounted
    <3> QED BY <1>2, <3>1 DEF TurnsCounted
  <2> QED BY <2>1, <2>2
<1>5. \A a \in Agents : agent'[a].bond = [b \in Agents \ {a} |-> world'.turns]
  BY ZenonT(60), <1>2 DEF TurnsCounted
<1> QED BY <1>3, <1>4, <1>5 DEF TurnsCounted

\* Whatever leaves the turns, the bonds and the thread of the event loop alone.
LEMMA TurnsStayCounted ==
  ASSUME TurnsCounted, Turning' <=> Turning, world'.turns = world.turns,
         \A a \in Agents : agent'[a].bond = agent[a].bond,
         thread'[LoopThread] = thread[LoopThread], db' = db,
         \A t \in Thread : t # LoopThread /\ thread'[t].at \in {"queued", "inside"} =>
           thread'[t].call.op # "turn"
  PROVE  TurnsCounted'
<1>1. (TurnDone' <=> TurnDone) /\ TurnKey' = TurnKey
  BY DEF TurnDone, TurnKey
<1>2. Kept(DOMAIN db'.turn, IF TurnDone' THEN world'.turns + 1 ELSE world'.turns)
  BY <1>1 DEF TurnsCounted
<1> QED BY <1>1, <1>2 DEF TurnsCounted

\* The calls of a step are no turns.
LEMMA StepsCountNothing ==
  ASSUME BondInv, NEW a \in Agents, StepOf(a)
  PROVE  AllTurnsInside' /\ (Living' => TurnsCounted')
<1> USE ApparatusAssumption, StepAssumption
<1>1. StepNext(a) /\ world' = world
  BY DEF StepOf
<1>2. agent' = agent
  BY ZenonT(60), <1>1 DEF StepNext, Begin, StoreRaised, WriteObservation, Feel, FetchVectors, NextScope, Mark,
    Marked, ResolveMove
<1>3. ASSUME NEW up \in BOOLEAN, WriteObservation(a, up)
      PROVE  \E c : Submit(a, c) /\ c.op = "add"
  BY <1>3 DEF WriteObservation, Add
<1>4. UNCHANGED storeVars \/ \E c : Submit(a, c) /\ c.op # "turn"
  BY <1>1, <1>3, CognitionSubmits
<1>5. CASE UNCHANGED storeVars
  <2>1. thread' = thread /\ db' = db
    BY <1>5 DEF storeVars
  <2>2. AllTurnsInside'
    BY <2>1 DEF BondInv, AllTurnsInside, TurnsInside, Inside
  <2>3. Living' => TurnsCounted'
    BY <1>1, <1>2, <2>1, TurnsStayCounted DEF BondInv, TurnsCounted, Living, Turning
  <2> QED BY <2>2, <2>3
<1>6. ASSUME NEW c, Submit(a, c), c.op # "turn"
      PROVE  AllTurnsInside' /\ (Living' => TurnsCounted')
  <2>1. /\ AllTurnsInside' /\ db' = db /\ thread'[a].at = "queued" /\ thread'[a].call = c
        /\ \A u \in Thread : u # a => thread'[u] = thread[u]
    BY <1>6, SubmitTurns DEF BondInv
  <2>2. Living' => TurnsCounted'
    BY <1>1, <1>2, <1>6, <2>1, TurnsStayCounted DEF BondInv, TurnsCounted, Living, Turning
  <2> QED BY <2>1, <2>2
<1> QED BY <1>4, <1>5, <1>6

\* Physics, the start and the end of a round, a chat: no turn and no bond.
LEMMA QuietHandlers ==
  ASSUME BondInv,
         \/ LivePhysics \/ StartHandler \/ Consume \/ NoDialog \/ Stop \/ CloseStore
         \/ \E a \in Agents : LiveChat(a) \/ \E ev \in Observable : Inject(a, ev)
  PROVE  AllTurnsInside' /\ (Living' => TurnsCounted')
<1>1. thread' = thread /\ db' = db
  BY DEF LivePhysics, StartHandler, Consume, NoDialog, Stop, CloseStore, Close, CloseUnderLock,
    LiveChat, Fallback, Plan, Inject, storeVars
<1>2. AllTurnsInside'
  BY <1>1 DEF BondInv, AllTurnsInside, TurnsInside, Inside
<1>3. ASSUME world.handler \notin {"none", "alone", "turn"}, world'.handler # "turn",
             world'.turns = world.turns, \A a \in Agents : agent'[a].bond = agent[a].bond
      PROVE  Living' => TurnsCounted'
  BY <1>1, <1>3, TurnsStayCounted DEF BondInv, TurnsCounted, Living, Turning
<1>4. CASE LivePhysics
  <2>1. world.handler = "idle" /\ agent' = [a \in Agents |-> [agent[a] EXCEPT
                                                !.body = Apart(There)[a]]]
    BY <1>4 DEF LivePhysics, Physics
  <2>2. world' = [world EXCEPT !.physics = world.physics + 1]
    BY <1>4 DEF LivePhysics
  <2>3. world'.handler = world.handler /\ world'.turns = world.turns
    BY <2>2 DEF BondInv, WorldInv, Worlds
  <2>4. ASSUME NEW a \in Agents PROVE agent'[a].bond = agent[a].bond
    <3> DEFINE b == Apart(There)[a]
               r == [agent[a] EXCEPT !.body = b]
    <3>1. agent'[a] = r
      BY <2>1
    <3>2. ASSUME NEW c PROVE [agent[a] EXCEPT !.body = c].bond = agent[a].bond
      OBVIOUS
    <3>3. r.bond = agent[a].bond
      BY <3>2
    <3> HIDE DEF r
    <3> QED BY <3>1, <3>3
  <2> QED BY <1>2, <1>3, <2>1, <2>3, <2>4
<1>5. CASE StartHandler
  <2>1. world.handler = "idle" /\ agent' = agent
    BY <1>5 DEF StartHandler
  <2>2. world' = [world EXCEPT !.handler = "steps", !.round = world.round + 1, !.physics = 0]
    BY <1>5 DEF StartHandler
  <2>3. world'.handler = "steps"
    BY <2>2, Zenon DEF BondInv, WorldInv, Worlds
  <2>4. world'.turns = world.turns
    BY <2>2
  <2> QED BY <1>2, <1>3, <2>1, <2>3, <2>4
<1>6. CASE Consume
  <2>1. /\ world.handler = "steps" /\ ConsumeResults(Agents)
        /\ world' = [world EXCEPT !.handler = "dialog"]
    BY <1>6 DEF Consume
  <2>2. world'.handler = "dialog" /\ world'.turns = world.turns
    BY <2>1 DEF BondInv, WorldInv, Worlds
  <2>3. ASSUME NEW a \in Agents PROVE agent'[a].bond = agent[a].bond
    <3>1. /\ agent'[a] = Consumed(a) /\ step[a].at \in {"answered", "raised"} /\ Holds(a)
      BY <2>1 DEF ConsumeResults, Finished, BondInv, WorldInv
    <3> QED BY <3>1 DEF Consumed, Holds, Busy
  <2> QED BY <1>2, <1>3, <2>1, <2>2, <2>3
<1>7. CASE NoDialog
  <2>1. /\ world.handler = "dialog" /\ agent' = agent
        /\ world' = [world EXCEPT !.handler = "idle"]
    BY <1>7 DEF NoDialog, stepVars
  <2>2. world'.handler = "idle" /\ world'.turns = world.turns
    BY <2>1 DEF BondInv, WorldInv, Worlds
  <2> QED BY <1>2, <1>3, <2>1, <2>2
<1>8. CASE Stop
  <2>1. /\ world.handler \in {"idle", "steps", "dialog"} /\ agent' = agent
        /\ world' = [world EXCEPT !.handler = "stopped"]
    BY <1>8 DEF Stop
  <2>2. world'.handler = "stopped" /\ world'.turns = world.turns
    BY <2>1 DEF BondInv, WorldInv, Worlds
  <2> QED BY <1>2, <1>3, <2>1, <2>2
<1>9. CASE CloseStore
  BY <1>2, <1>3, <1>9 DEF CloseStore, stepVars
<1>10. ASSUME NEW a \in Agents, LiveChat(a) PROVE Living' => TurnsCounted'
  BY <1>3, <1>10 DEF LiveChat, Fallback, Plan
<1>11. ASSUME NEW a \in Agents, NEW ev \in Observable, Inject(a, ev)
       PROVE  Living' => TurnsCounted'
  <2>1. world.handler \in {"idle", "steps"} /\ agent' = agent
    BY <1>11 DEF Inject
  <2>2. world' = [world EXCEPT !.injected = world.injected + 1]
    BY <1>11 DEF Inject
  <2>3. world'.handler = world.handler /\ world'.turns = world.turns
    BY <2>2 DEF BondInv, WorldInv, Worlds
  <2> QED BY <1>3, <2>1, <2>3
<1> QED BY <1>2, <1>4, <1>5, <1>6, <1>7, <1>8, <1>9, <1>10, <1>11

\* A turn of the dialog goes to the store under a key that is new.
LEMMA TurnStoredCounts ==
  ASSUME BondInv, TurnStored
  PROVE  AllTurnsInside' /\ (Living' => TurnsCounted')
<1> USE ApparatusAssumption
<1> DEFINE c == AddDialogTurn(<<"dialog", world.turns>>, world.round)
<1>1. /\ world.handler = "dialog" /\ Submit(LoopThread, c) /\ agent' = agent
      /\ world' = [world EXCEPT !.handler = "turn"]
  BY DEF TurnStored, stepVars
<1>2. c.op = "turn" /\ c.key = <<"dialog", world.turns>>
  BY DEF AddDialogTurn
<1> HIDE DEF c
<1>3. world'.handler = "turn" /\ world'.turns = world.turns
  BY <1>1 DEF BondInv, WorldInv, Worlds
<1>4. /\ AllTurnsInside' /\ db' = db
      /\ thread'[LoopThread].at = "queued" /\ thread'[LoopThread].call = c
      /\ \A u \in Thread : u # LoopThread => thread'[u] = thread[u]
  BY <1>1, SubmitTurns DEF BondInv
<1>5. TurnsCounted /\ ~Turning /\ ~TurnDone /\ ~TurnDone' /\ Turning'
  BY <1>1, <1>3, <1>4 DEF BondInv, Living, Turning, TurnDone
<1> QED BY ZenonT(60), <1>1, <1>2, <1>3, <1>4, <1>5 DEF TurnsCounted, TurnKey

\* A turn that is kept counts for both, one that is not for nobody.
LEMMA TurnBondsCount ==
  ASSUME Agents = {1, 2}, BondInv, TurnBonds
  PROVE  AllTurnsInside' /\ (Living' => TurnsCounted')
<1> USE ApparatusAssumption
<1>1. /\ world.handler = "turn" /\ thread' = thread /\ db' = db
      /\ thread[LoopThread].at \in {"done", "failed"}
  BY DEF TurnBonds, storeVars
<1>2. AllTurnsInside'
  BY <1>1 DEF BondInv, AllTurnsInside, TurnsInside, Inside
<1>3. TurnsCounted /\ Turning /\ world.turns \in Nat
  BY <1>1 DEF BondInv, Living, Turning, WorldInv, Worlds
<1>4. CASE thread[LoopThread].at = "done"
  <2>1. /\ agent' = [a \in Agents |-> AffinityApplied(agent[a], 3 - a)]
        /\ world' = [world EXCEPT !.handler = "idle", !.turns = world.turns + 1]
    BY <1>4 DEF TurnBonds
  <2>2. world'.handler = "idle"
    BY <2>1, Zenon DEF BondInv, WorldInv, Worlds
  <2>3. world'.turns = world.turns + 1
    BY <2>1, Zenon DEF BondInv, WorldInv, Worlds
  <2>4. ASSUME NEW a \in Agents
        PROVE  agent'[a].bond = [b \in Agents \ {a} |-> world.turns + 1]
    <3> DEFINE old == agent[a]
    <3>1. agent'[a] = [old EXCEPT !.bond[3 - a] = @ + 1]
      BY <2>1 DEF AffinityApplied
    <3>2. agent'[a].bond = [old.bond EXCEPT ![3 - a] = @ + 1]
      BY <3>1
    <3>3. old.bond = [b \in Agents \ {a} |-> world.turns] /\ Agents \ {a} = {3 - a}
      BY <1>3 DEF TurnsCounted
    <3> HIDE DEF old
    <3> QED BY <3>2, <3>3
  <2>5. ~Turning' /\ ~TurnDone' /\ TurnDone
    BY <1>3, <1>4, <2>2 DEF Turning, TurnDone
  <2>6. Kept(DOMAIN db'.turn, world'.turns)
    BY <1>1, <1>3, <2>3, <2>5 DEF TurnsCounted
  <2>7. \A a \in Agents : agent'[a].bond = [b \in Agents \ {a} |-> world'.turns]
    BY <2>3, <2>4
  <2> QED BY <1>1, <1>2, <1>3, <1>4, <2>5, <2>6, <2>7 DEF TurnsCounted
<1>5. CASE thread[LoopThread].at = "failed"
  <2>1. agent' = agent /\ world' = [world EXCEPT !.handler = "idle"]
    BY <1>5 DEF TurnBonds
  <2>2. world'.handler = "idle" /\ world'.turns = world.turns
    BY <2>1 DEF BondInv, WorldInv, Worlds
  <2>3. ~Turning' /\ ~TurnDone' /\ ~TurnDone
    BY <1>3, <1>5, <2>2 DEF Turning, TurnDone
  <2> QED BY <1>1, <1>2, <1>3, <1>5, <2>1, <2>2, <2>3 DEF TurnsCounted
<1> QED BY <1>1, <1>4, <1>5

\* Every step keeps the bonds up with the turns.
LEMMA NextCounts ==
  ASSUME Agents = {1, 2}, BondInv, [Next]_vars
  PROVE  BondInv'
<1>1. StoreInv' /\ WorldInv'
  BY NextIsStoreStep, StoreStepKeeps, NextKeepsWorld DEF BondInv
<1> SUFFICES AllTurnsInside' /\ (Living' => TurnsCounted')
  BY <1>1 DEF BondInv
<1>2. CASE UNCHANGED vars
  <2>1. thread' = thread /\ db' = db /\ world' = world /\ agent' = agent
    BY <1>2 DEF vars, storeVars, stepVars
  <2> QED BY <2>1 DEF BondInv, AllTurnsInside, TurnsInside, Inside, Living, TurnsCounted, Turning,
    TurnDone, TurnKey
<1>3. ASSUME NEW a \in Agents, StepOf(a) PROVE AllTurnsInside' /\ (Living' => TurnsCounted')
  BY <1>3, StepsCountNothing
<1>4. ASSUME NEW t \in Thread, InStore(t) PROVE AllTurnsInside' /\ (Living' => TurnsCounted')
  BY <1>4, ThreadsCount DEF InStore, stepVars
<1>5. CASE Alone
  <2>1. ~Living' /\ ((\E t \in Agents, c \in Calls : Submit(t, c)) \/ (thread' = thread /\ db' = db))
    BY <1>5 DEF Alone, Living, Close, CloseUnderLock
  <2>2. ASSUME thread' = thread, db' = db PROVE AllTurnsInside'
    BY <2>2 DEF BondInv, AllTurnsInside, TurnsInside, Inside
  <2> QED BY <2>1, <2>2, SubmitTurns, StepAssumption DEF BondInv
<1>6. ASSUME NEW t \in Thread, StoreError(t) PROVE AllTurnsInside' /\ (Living' => TurnsCounted')
  BY <1>6, ThreadsCount DEF StoreError
<1>7. CASE Live
  BY <1>5, <1>6, <1>7, QuietHandlers, TurnStoredCounts, TurnBondsCount DEF Live
<1>8. CASE Loop
  <2>1. ~Living'
    BY <1>8, <1>1 DEF BondInv, WorldInv, Living, Loop, LoopBegin, Exhausted, LoopConsume,
      LoopPhysics, Replay, LoopEnd, LoopChat, Looping
  <2>2. \/ thread' = thread /\ db' = db
        \/ \E c : Submit(LoopAgent, c)
        \/ thread' = [t \in Thread |-> Rest]
    BY <1>8 DEF Loop, LoopBegin, Exhausted, LoopConsume, LoopPhysics, Replay, LoopEnd, LoopChat,
      Fallback, PlanEcl, storeVars
  <2>3. ASSUME thread' = thread, db' = db PROVE AllTurnsInside'
    BY <2>3 DEF BondInv, AllTurnsInside, TurnsInside, Inside
  <2>4. ASSUME thread' = [t \in Thread |-> Rest] PROVE AllTurnsInside'
    BY <2>4 DEF Rest, Outside, AllTurnsInside, TurnsInside, Inside
  <2>5. ASSUME NEW c, Submit(LoopAgent, c) PROVE AllTurnsInside'
    BY <2>5, SubmitTurns, StepAssumption, ApparatusAssumption DEF BondInv
  <2> QED BY <2>1, <2>2, <2>3, <2>4, <2>5
<1> QED BY <1>2, <1>3, <1>4, <1>7, <1>8 DEF Next

\* In a world of two the bonds count every turn that was stored and no other,
\* although every step writes back bonds it read before its first await, turns
\* may fail to be stored, and steps are cut off anywhere (tick.py:826-831).
THEOREM NoInteractionIsLost == ASSUME Agents = {1, 2} PROVE Spec => []BondsKeepUp
<1>1. BondInv => BondsKeepUp
  <2> SUFFICES ASSUME BondInv, world.handler \notin {"turn", "alone", "none"},
                      NEW a \in Agents, NEW b \in Agents \ {a}
               PROVE  agent[a].bond[b] = Cardinality(DOMAIN db.turn)
    BY DEF BondsKeepUp
  <2>1. TurnsCounted /\ ~TurnDone
    BY DEF BondInv, Living, TurnDone, Turning
  <2> QED BY <2>1 DEF TurnsCounted, Kept
<1>2. BondInv /\ [Next]_vars => BondInv'
  BY NextCounts
<1> QED BY InitBonds, <1>1, <1>2, PTL DEF Spec

-----------------------------------------------------------------------------
(* Events: what waits to be observed is true of where the bodies are. *)

AnySeq(q) == \E S : q \in Seq(S)

\* What is appended comes last and leaves the rest in place.
LEMMA AnyAppend ==
  ASSUME NEW q, AnySeq(q), NEW ev
  PROVE  /\ AnySeq(Append(q, ev)) /\ Len(Append(q, ev)) = Len(q) + 1 /\ Len(q) \in Nat
         /\ Append(q, ev)[Len(q) + 1] = ev
         /\ \A i \in 1..Len(q) : Append(q, ev)[i] = q[i]
         /\ DOMAIN Append(q, ev) = 1..(Len(q) + 1) /\ DOMAIN q = 1..Len(q)
<1>1. PICK S : q \in Seq(S)
  BY DEF AnySeq
<1>2. q \in Seq(S \cup {ev})
  BY <1>1
<1>3. Append(q, ev) \in Seq(S \cup {ev})
  BY <1>2
<1> QED BY <1>2, <1>3 DEF AnySeq

\* A transition from the zone where the history ends takes it to where it leads.
LEMMA LinkedAppend ==
  ASSUME NEW q, AnySeq(q), NEW zone, Linked(q, zone), NEW ev,
         ev.kind = "zone", ev.from = zone
  PROVE  Linked(Append(q, ev), ev.to)
<1> DEFINE p == Append(q, ev)
           n == Len(q)
<1>1. /\ AnySeq(p) /\ Len(p) = n + 1 /\ n \in Nat /\ p[n + 1] = ev
      /\ \A i \in 1..n : p[i] = q[i]
      /\ DOMAIN p = 1..(n + 1) /\ DOMAIN q = 1..n
  BY AnyAppend
<1> HIDE DEF p, n
<1> SUFFICES Linked(p, ev.to)
  BY DEF p
<1>0. Len(q) = n
  BY DEF n
<1>2. ASSUME NEW i \in 1..(n + 1), p[i].kind = "zone", NEW j \in 1..(n + 1), Follows(p, i, j)
      PROVE  p[j].from = p[i].to
  <2>1. i < j /\ i \in 1..n
    BY <1>1, <1>2 DEF Follows
  <2>2. CASE j = n + 1
    <3>1. Latest(q, i)
      BY <1>0, <1>1, <1>2, <2>1, <2>2 DEF Follows, Latest
    <3> QED BY <1>1, <1>2, <2>1, <2>2, <3>1 DEF Linked
  <2>3. CASE j # n + 1
    <3>1. j \in 1..n /\ Follows(q, i, j)
      BY <1>1, <1>2, <2>1, <2>3 DEF Follows
    <3> QED BY <1>1, <1>2, <2>1, <3>1 DEF Linked
  <2> QED BY <2>2, <2>3
<1>3. ASSUME NEW i \in 1..(n + 1), p[i].kind = "zone", Latest(p, i) PROVE p[i].to = ev.to
  <2>1. i = n + 1
    BY <1>1, <1>3 DEF Latest
  <2> QED BY <1>1, <2>1
<1> QED BY <1>1, <1>2, <1>3 DEF Linked

\* An observation of another kind changes nothing of a history.
LEMMA OtherAppend ==
  ASSUME NEW q, AnySeq(q), NEW ev
  PROVE  /\ \A zone : Linked(q, zone) /\ ev.kind # "zone" => Linked(Append(q, ev), zone)
         /\ \A near : Alternating(q, near) /\ ev.kind # "proximity" =>
                        Alternating(Append(q, ev), near)
<1> DEFINE p == Append(q, ev)
           n == Len(q)
<1>1. /\ Len(p) = n + 1 /\ n \in Nat /\ p[n + 1] = ev
      /\ \A i \in 1..n : p[i] = q[i]
      /\ DOMAIN p = 1..(n + 1) /\ DOMAIN q = 1..n
  BY AnyAppend
<1>0. Len(q) = n
  OBVIOUS
<1> HIDE DEF p, n
<1>2. ASSUME NEW i \in 1..(n + 1), p[i].kind # ev.kind
      PROVE  /\ i \in 1..n /\ p[i] = q[i]
             /\ Latest(p, i) => Latest(q, i)
             /\ \A j \in 1..(n + 1) : Follows(p, i, j) =>
                  j \in 1..n /\ Follows(q, i, j) /\ p[j] = q[j]
  <2>1. i \in 1..n /\ p[i] = q[i]
    BY <1>1, <1>2
  <2>2. Latest(p, i) => Latest(q, i)
    BY <1>0, <1>1, <2>1 DEF Latest
  <2>3. ASSUME NEW j \in 1..(n + 1), Follows(p, i, j)
        PROVE  j \in 1..n /\ Follows(q, i, j) /\ p[j] = q[j]
    <3>1. j \in 1..n
      BY <1>1, <1>2, <2>3 DEF Follows
    <3> QED BY <1>1, <2>1, <2>3, <3>1 DEF Follows
  <2> QED BY <2>1, <2>2, <2>3
<1>3. ASSUME NEW zone, Linked(q, zone), ev.kind # "zone" PROVE Linked(p, zone)
  BY <1>1, <1>2, <1>3 DEF Linked
<1>4. ASSUME NEW near, Alternating(q, near), ev.kind # "proximity" PROVE Alternating(p, near)
  BY <1>1, <1>2, <1>4 DEF Alternating
<1> QED BY <1>3, <1>4 DEF p

\* A crossing takes the history to the other side.
LEMMA AlternatingAppend ==
  ASSUME NEW q, AnySeq(q), NEW near \in BOOLEAN, Alternating(q, near), NEW ev,
         ev.kind = "proximity", ev.crossing = IF near THEN "leave" ELSE "enter"
  PROVE  Alternating(Append(q, ev), ~near)
<1> DEFINE p == Append(q, ev)
           n == Len(q)
<1>1. /\ Len(p) = n + 1 /\ n \in Nat /\ p[n + 1] = ev
      /\ \A i \in 1..n : p[i] = q[i]
      /\ DOMAIN p = 1..(n + 1) /\ DOMAIN q = 1..n
  BY AnyAppend
<1>0. Len(q) = n
  OBVIOUS
<1> HIDE DEF p, n
<1>2. ASSUME NEW i \in 1..(n + 1), p[i].kind = "proximity", NEW j \in 1..(n + 1),
             Follows(p, i, j)
      PROVE  p[j].crossing # p[i].crossing
  <2>1. i < j /\ i \in 1..n
    BY <1>1, <1>2 DEF Follows
  <2>2. CASE j = n + 1
    <3>1. Latest(q, i)
      BY <1>0, <1>1, <1>2, <2>1, <2>2 DEF Follows, Latest
    <3>2. (q[i].crossing = "enter") = near
      BY <1>1, <1>2, <2>1, <3>1 DEF Alternating
    <3> QED BY <1>1, <2>1, <2>2, <3>2
  <2>3. CASE j # n + 1
    <3>1. j \in 1..n /\ Follows(q, i, j)
      BY <1>1, <1>2, <2>1, <2>3 DEF Follows
    <3> QED BY <1>1, <1>2, <2>1, <3>1 DEF Alternating
  <2> QED BY <2>2, <2>3
<1>3. ASSUME NEW i \in 1..(n + 1), p[i].kind = "proximity", Latest(p, i)
      PROVE  (p[i].crossing = "enter") = ~near
  <2>1. i = n + 1
    BY <1>1, <1>3 DEF Latest
  <2> QED BY <1>1, <2>1
<1> QED BY <1>1, <1>2, <1>3 DEF Alternating, p

\* Nothing, or one more observation.
LEMMA NoneOrOne ==
  ASSUME NEW q, AnySeq(q), NEW ev
  PROVE  q \o <<>> = q /\ q \o <<ev>> = Append(q, ev)
<1>1. PICK S : q \in Seq(S)
  BY DEF AnySeq
<1>2. q \in Seq(S \cup {ev})
  BY <1>1
<1> QED BY <1>1, <1>2

NoMeeting(q) == \A i \in DOMAIN q : q[i].kind # "proximity"

\* Where nobody met, the crossings alternate.
LEMMA NoMeetingAlternates ==
  ASSUME NEW q, NoMeeting(q), NEW near PROVE Alternating(q, near)
BY DEF NoMeeting, Alternating

\* Another observation that is no crossing leaves it so.
LEMMA NoMeetingAppend ==
  ASSUME NEW q, AnySeq(q), NoMeeting(q), NEW ev, ev.kind # "proximity"
  PROVE  NoMeeting(Append(q, ev))
<1> DEFINE p == Append(q, ev)
           n == Len(q)
<1>1. /\ n \in Nat /\ p[n + 1] = ev /\ \A i \in 1..n : p[i] = q[i]
      /\ DOMAIN p = 1..(n + 1) /\ DOMAIN q = 1..n
  BY AnyAppend
<1> HIDE DEF p, n
<1> SUFFICES ASSUME NEW i \in 1..(n + 1) PROVE p[i].kind # "proximity"
  BY <1>1 DEF NoMeeting, p
<1>2. CASE i = n + 1
  BY <1>1, <1>2
<1>3. CASE i \in 1..n
  BY <1>1, <1>3 DEF NoMeeting
<1> QED BY <1>1, <1>2, <1>3

\* What comes from outside changes nothing of a history (inject_observation).
LEMMA GivenConcat ==
  ASSUME NEW q, AnySeq(q), NEW s \in Seq(Given)
  PROVE  /\ AnySeq(q \o s)
         /\ \A zone : Linked(q, zone) => Linked(q \o s, zone)
         /\ \A near : Alternating(q, near) => Alternating(q \o s, near)
         /\ NoMeeting(q) => NoMeeting(q \o s)
<1> DEFINE p == q \o s
           n == Len(q)
           m == Len(s)
<1>1. PICK S : q \in Seq(S)
  BY DEF AnySeq
<1>2. q \in Seq(S \cup Given) /\ s \in Seq(S \cup Given)
  BY <1>1
<1>3. AnySeq(p)
  BY <1>2 DEF AnySeq
<1>4. /\ n \in Nat /\ m \in Nat /\ Len(p) = n + m
      /\ \A i \in 1..n : p[i] = q[i]
      /\ DOMAIN p = 1..(n + m) /\ DOMAIN q = 1..n
  BY <1>2
<1>5. ASSUME NEW i \in (n + 1)..(n + m) PROVE p[i].kind \notin {"zone", "proximity"}
  <2>1. i - n \in 1..m /\ p[i] = s[i - n]
    BY <1>2, <1>5
  <2>2. s[i - n] \in Given
    BY <2>1
  <2> QED BY <2>1, <2>2, ApparatusAssumption
<1>0. Len(q) = n
  OBVIOUS
<1> HIDE DEF p, n, m
<1>6. ASSUME NEW i \in 1..(n + m), p[i].kind \in {"zone", "proximity"}
      PROVE  /\ i \in 1..n /\ p[i] = q[i]
             /\ Latest(p, i) => Latest(q, i)
             /\ \A j \in 1..(n + m) : Follows(p, i, j) =>
                  j \in 1..n /\ Follows(q, i, j) /\ p[j] = q[j]
  <2>1. i \in 1..n /\ p[i] = q[i]
    BY <1>4, <1>5, <1>6
  <2>2. Latest(p, i) => Latest(q, i)
    BY <1>0, <1>4, <2>1 DEF Latest
  <2>3. ASSUME NEW j \in 1..(n + m), Follows(p, i, j)
        PROVE  j \in 1..n /\ Follows(q, i, j) /\ p[j] = q[j]
    <3>1. j \in 1..n
      BY <1>4, <1>5, <1>6, <2>3 DEF Follows
    <3> QED BY <1>4, <2>1, <2>3, <3>1 DEF Follows
  <2> QED BY <2>1, <2>2, <2>3
<1>7. ASSUME NEW zone, Linked(q, zone) PROVE Linked(p, zone)
  BY <1>4, <1>6, <1>7 DEF Linked
<1>8. ASSUME NEW near, Alternating(q, near) PROVE Alternating(p, near)
  BY <1>4, <1>6, <1>8 DEF Alternating
<1>9. NoMeeting(q) => NoMeeting(p)
  BY <1>4, <1>6 DEF NoMeeting
<1> QED BY <1>3, <1>7, <1>8, <1>9 DEF p

\* A transition is reported as it happens, from the zone the body was tagged
\* with (_on_physics_tick).
LEMMA MovedTells ==
  ASSUME NEW q, AnySeq(q), NEW before, NEW after, Linked(q, before.zone)
  PROVE  LET p == q \o Moved(before, after) IN
         /\ AnySeq(p) /\ Linked(p, after.zone)
         /\ \A near : Alternating(q, near) => Alternating(p, near)
         /\ NoMeeting(q) => NoMeeting(p)
<1>1. CASE before.zone = after.zone
  BY <1>1, NoneOrOne DEF Moved
<1>2. CASE before.zone # after.zone
  <2> DEFINE ev == ZoneTransition(before.zone, after.zone)
  <2>1. ev.kind = "zone" /\ ev.from = before.zone /\ ev.to = after.zone
    BY DEF ZoneTransition
  <2>2. Moved(before, after) = <<ev>>
    BY <1>2 DEF Moved
  <2> HIDE DEF ev
  <2>3. AnySeq(Append(q, ev)) /\ Linked(Append(q, ev), after.zone)
    BY <2>1, AnyAppend, LinkedAppend
  <2>4. \A near : Alternating(q, near) => Alternating(Append(q, ev), near)
    BY <2>1, OtherAppend
  <2>5. NoMeeting(q) => NoMeeting(Append(q, ev))
    BY <2>1, NoMeetingAppend
  <2> QED BY <2>2, <2>3, <2>4, <2>5, NoneOrOne
<1> QED BY <1>1, <1>2

\* The edge of a prop is another kind of observation (_fire_affordance_events).
LEMMA ReachedTells ==
  ASSUME NEW q, AnySeq(q), NEW d1, NEW d2
  PROVE  LET p == q \o Reached(d1, d2) IN
         /\ AnySeq(p)
         /\ \A zone : Linked(q, zone) => Linked(p, zone)
         /\ \A near : Alternating(q, near) => Alternating(p, near)
         /\ NoMeeting(q) => NoMeeting(p)
<1>1. CASE Reached(d1, d2) = <<>>
  BY <1>1, NoneOrOne
<1>2. CASE Reached(d1, d2) = <<Affordance>>
  <2> DEFINE ev == Affordance
  <2>1. ev.kind = "affordance"
    BY DEF Affordance
  <2> HIDE DEF ev
  <2>2. AnySeq(Append(q, ev))
    BY AnyAppend
  <2>3. /\ \A zone : Linked(q, zone) => Linked(Append(q, ev), zone)
        /\ \A near : Alternating(q, near) => Alternating(Append(q, ev), near)
    BY <2>1, OtherAppend
  <2>4. NoMeeting(q) => NoMeeting(Append(q, ev))
    BY <2>1, NoMeetingAppend
  <2> QED BY <1>2, <2>2, <2>3, <2>4, NoneOrOne DEF ev
<1> QED BY <1>1, <1>2 DEF Reached

\* A crossing is reported by the tick that makes it (_fire_proximity_events).
LEMMA CrossedTells ==
  ASSUME NEW q, AnySeq(q), NEW prev \in Int \cup {Nowhere}, NEW now \in Int, NEW other,
         prev = Nowhere => NoMeeting(q), Alternating(q, prev < Threshold)
  PROVE  LET p == q \o Crossed(prev, now, other) IN
         /\ AnySeq(p) /\ Alternating(p, now < Threshold)
         /\ \A zone : Linked(q, zone) => Linked(p, zone)
<1>1. ASSUME NEW near \in BOOLEAN, Alternating(q, near), NEW crossing,
             crossing = IF near THEN "leave" ELSE "enter"
      PROVE  LET p == q \o <<Proximity(other, crossing)>> IN
             /\ AnySeq(p) /\ Alternating(p, ~near)
             /\ \A zone : Linked(q, zone) => Linked(p, zone)
  <2> DEFINE ev == Proximity(other, crossing)
  <2>1. ev.kind = "proximity" /\ ev.crossing = crossing
    BY DEF Proximity
  <2> HIDE DEF ev
  <2>2. AnySeq(Append(q, ev)) /\ Alternating(Append(q, ev), ~near)
    BY <1>1, <2>1, AnyAppend, AlternatingAppend
  <2>3. \A zone : Linked(q, zone) => Linked(Append(q, ev), zone)
    BY <2>1, OtherAppend
  <2> QED BY <2>2, <2>3, NoneOrOne DEF ev
<1>2. CASE prev = Nowhere
  <2>1. Crossed(prev, now, other) = <<>>
    BY <1>2 DEF Crossed
  <2> QED BY <1>2, <2>1, NoneOrOne, NoMeetingAlternates
<1>3. CASE prev # Nowhere
  <2>1. prev \in Int /\ Threshold \in Int /\ Nowhere \notin Int
    BY <1>3, BodyAssumption
  <2>2. CASE prev >= Threshold /\ now < Threshold
    <3>1. (prev < Threshold) = FALSE /\ (now < Threshold) = TRUE
      BY <2>1, <2>2
    <3>2. Crossed(prev, now, other) = <<Proximity(other, "enter")>>
      BY <1>3, <2>1, <2>2 DEF Crossed
    <3> QED BY <1>1, <3>1, <3>2
  <2>3. CASE prev < Threshold /\ now >= Threshold
    <3>1. (prev < Threshold) = TRUE /\ (now < Threshold) = FALSE
      BY <2>1, <2>3
    <3>2. Crossed(prev, now, other) = <<Proximity(other, "leave")>>
      BY <1>3, <2>1, <2>3 DEF Crossed
    <3> QED BY <1>1, <3>1, <3>2
  <2>4. CASE (prev < Threshold) = (now < Threshold)
    <3>1. Crossed(prev, now, other) = <<>>
      BY <1>3, <2>1, <2>4 DEF Crossed
    <3> QED BY <2>4, <3>1, NoneOrOne
  <2> QED BY <2>1, <2>2, <2>3, <2>4
<1> QED BY <1>2, <1>3

\* A body of the live world, wherever its tag says it is.
IsBody(b) == b = [x |-> b.x, zone |-> b.zone] /\ b.x \in Int

\* A distance is a number.
LEMMA DistanceInt == ASSUME NEW x \in Int, NEW y \in Int PROVE Distance(x, y) \in Int
BY DEF Distance

\* Motion and the nudge keep a body a body, and the nudge keeps its tag
\* (step_kinematics, _apply_separation_force).
LEMMA KinematicsBody ==
  ASSUME NEW b, IsBody(b), NEW dest, dest = Nowhere \/ dest.x \in Int
  PROVE  IsBody(StepKinematics(b, dest, Speed))
<1>1. CASE dest = Nowhere
  BY <1>1 DEF StepKinematics
<1>2. CASE dest # Nowhere
  <2> DEFINE x == IF Distance(b.x, dest.x) <= Speed THEN dest.x
                  ELSE IF b.x < dest.x THEN b.x + Speed ELSE b.x - Speed
  <2>1. x \in Int
    BY <1>2, ApparatusAssumption DEF IsBody
  <2>2. StepKinematics(b, dest, Speed) = [x |-> x, zone |-> LocateZone(x)]
    BY <1>2 DEF StepKinematics
  <2> HIDE DEF x
  <2> QED BY <2>1, <2>2 DEF IsBody
<1> QED BY <1>1, <1>2

\* Bodies that are pushed apart keep their tags (_apply_separation_force).
LEMMA SeparatedBodies ==
  ASSUME NEW a, NEW b, IsBody(a), IsBody(b)
  PROVE  /\ IsBody(Separated(a, b)[1]) /\ Separated(a, b)[1].zone = a.zone
         /\ IsBody(Separated(a, b)[2]) /\ Separated(a, b)[2].zone = b.zone
<1>1. CASE Distance(a.x, b.x) >= Radius
  BY <1>1 DEF Separated
<1>2. CASE ~(Distance(a.x, b.x) >= Radius)
  <2> DEFINE u == IF a.x >= b.x THEN Push ELSE -Push
  <2>1. Separated(a, b) = <<[a EXCEPT !.x = @ + u], [b EXCEPT !.x = @ - u]>>
    BY <1>2 DEF Separated
  <2>2. u \in Int
    BY BodyAssumption
  <2> HIDE DEF u
  <2>3. ASSUME NEW c, IsBody(c), NEW v \in Int
        PROVE  IsBody([c EXCEPT !.x = v]) /\ [c EXCEPT !.x = v].zone = c.zone
    <3>1. [c EXCEPT !.x = v] = [x |-> v, zone |-> c.zone]
      BY <2>3 DEF IsBody
    <3> QED BY <2>3, <3>1 DEF IsBody
  <2> DEFINE v == a.x + u
             w == b.x - u
  <2>4. v \in Int /\ w \in Int
    BY <2>2 DEF IsBody
  <2>5. Separated(a, b) = <<[a EXCEPT !.x = v], [b EXCEPT !.x = w]>>
    BY <2>1
  <2> HIDE DEF v, w
  <2> DEFINE c == [a EXCEPT !.x = v]
             d == [b EXCEPT !.x = w]
  <2>6. IsBody(c) /\ c.zone = a.zone /\ IsBody(d) /\ d.zone = b.zone
    BY <2>3, <2>4
  <2>7. Separated(a, b) = <<c, d>>
    BY <2>5
  <2> HIDE DEF c, d
  <2> QED BY <2>6, <2>7
<1> QED BY <1>1, <1>2

\* Where a step may send its body.
Aims(s) ==
  /\ s.at \in {"rows", "vectors"} => s.why = "prompt"
  /\ s.at = "answered" =>
       s.move.to = Nowhere \/ (s.move.to.x \in Int /\ s.move.to.zone \in Zones)

\* A step of the live world only looks for the memories of its prompt.
LEMMA StepAims ==
  ASSUME NEW a \in Agents, step = [b \in Agents |-> step[b]], StepNext(a), Aims(step[a])
  PROVE  Aims(step'[a])
<1>1. ASSUME NEW r, step' = [step EXCEPT ![a] = r], Aims(r) PROVE Aims(step'[a])
  BY <1>1, OneRecord
<1>2. ASSUME NEW r, r.at \in {"write", "raised", "chat", "mark"} PROVE Aims(r)
  BY <1>2 DEF Aims
<1>3. ASSUME NEW r, r.at \in {"rows", "vectors"}, r.why = "prompt" PROVE Aims(r)
  BY <1>3 DEF Aims
<1>4. CASE Begin(a)
  <2> DEFINE r == [at |-> "write", serial |-> step[a].serial, n |-> 0, obs |-> pending[a],
                   self |-> agent[a], new |-> {}, shift |-> None]
  <2>1. step' = [step EXCEPT ![a] = r]
    BY <1>4 DEF Begin
  <2>2. r.at = "write"
    OBVIOUS
  <2> HIDE DEF r
  <2> QED BY <1>1, <1>2, <2>1, <2>2
<1>5. CASE StoreRaised(a)
  <2> DEFINE r == [at |-> "raised", new |-> step[a].new]
  <2>1. step' = [step EXCEPT ![a] = r]
    BY <1>5 DEF StoreRaised
  <2>2. r.at = "raised"
    OBVIOUS
  <2> HIDE DEF r
  <2> QED BY <1>1, <1>2, <2>1, <2>2
<1>6. ASSUME NEW up \in BOOLEAN, WriteObservation(a, up) PROVE Aims(step'[a])
  <2> DEFINE id == FreshId(a, step[a].n)
             r == [step[a] EXCEPT !.n = @ + 1, !.new = @ \cup {id}]
  <2>1. step' = [step EXCEPT ![a].n = @ + 1, ![a].new = @ \cup {id}] /\ step[a].at = "write"
    BY <1>6 DEF WriteObservation
  <2> HIDE DEF id
  <2>2. step' = [step EXCEPT ![a] = r]
    BY <2>1
  <2>3. r.at = step[a].at
    OBVIOUS
  <2> HIDE DEF r
  <2> QED BY <1>1, <1>2, <2>1, <2>2, <2>3
<1>7. ASSUME NEW up \in BOOLEAN, Feel(a, up) PROVE Aims(step'[a])
  <2>1. \/ step' = [step EXCEPT ![a] = Prompted(Shifted(step[a]))]
        \/ \E query : step' = [step EXCEPT ![a] = Retrieving(Shifted(step[a]), "prompt", query)]
    BY <1>7 DEF Feel
  <2>2. Prompted(Shifted(step[a])).at = "chat"
    BY DEF Prompted
  <2>3. \A query : /\ Retrieving(Shifted(step[a]), "prompt", query).at = "rows"
                   /\ Retrieving(Shifted(step[a]), "prompt", query).why = "prompt"
    BY DEF Retrieving
  <2> QED BY <1>1, <1>2, <1>3, <2>1, <2>2, <2>3
<1>8. CASE FetchVectors(a)
  <2> DEFINE r == [step[a] EXCEPT !.at = "vectors", !.rows = thread[a].out]
  <2>1. step' = [step EXCEPT ![a].at = "vectors", ![a].rows = thread[a].out] /\ step[a].at = "rows"
    BY <1>8 DEF FetchVectors
  <2>2. step' = [step EXCEPT ![a] = r]
    BY <2>1
  <2>3. r.at = "vectors"
    OBVIOUS
  <2>4. r.why = step[a].why
    OBVIOUS
  <2>5. step[a].why = "prompt"
    BY <2>1 DEF Aims
  <2> HIDE DEF r
  <2> QED BY <1>1, <1>3, <2>2, <2>3, <2>4, <2>5
<1>9. CASE NextScope(a)
  <2>1. PICK top : step' = [step EXCEPT ![a] = [@ EXCEPT !.at = "rows", !.world = TRUE,
                                                         !.rows = <<>>, !.top = top]]
    BY <1>9 DEF NextScope
  <2>2. step[a].why = "prompt"
    BY <1>9 DEF NextScope, ScopeRanked, Aims
  <2> DEFINE r == [step[a] EXCEPT !.at = "rows", !.world = TRUE, !.rows = <<>>, !.top = top]
  <2>3. step' = [step EXCEPT ![a] = r]
    BY <2>1
  <2>4. r.at = "rows"
    OBVIOUS
  <2>5. r.why = step[a].why
    OBVIOUS
  <2> HIDE DEF r
  <2> QED BY <1>1, <1>3, <2>2, <2>3, <2>4, <2>5
<1>10. CASE Mark(a)
  <2>2. \/ step' = [step EXCEPT ![a] = Prompted(step[a])]
        \/ \E top : step' = [step EXCEPT ![a] =
                               [Prompted(step[a]) EXCEPT !.at = "mark", !.top = top]]
    BY <1>10 DEF Mark
  <2>3. Prompted(step[a]).at = "chat"
    BY DEF Prompted
  <2>4. ASSUME NEW top PROVE [Prompted(step[a]) EXCEPT !.at = "mark", !.top = top].at = "mark"
    BY DEF Prompted
  <2>5. CASE step' = [step EXCEPT ![a] = Prompted(step[a])]
    BY <1>1, <1>2, <2>3, <2>5
  <2>6. ASSUME NEW top, step' = [step EXCEPT ![a] =
                                   [Prompted(step[a]) EXCEPT !.at = "mark", !.top = top]]
        PROVE  Aims(step'[a])
    <3> DEFINE r == [Prompted(step[a]) EXCEPT !.at = "mark", !.top = top]
    <3>1. step' = [step EXCEPT ![a] = r] /\ r.at = "mark"
      BY <2>4, <2>6
    <3> HIDE DEF r
    <3> QED BY <1>1, <1>2, <3>1
  <2> QED BY <2>2, <2>5, <2>6
<1>11. CASE Marked(a)
  <2> DEFINE r == [step[a] EXCEPT !.at = "chat"]
  <2>1. step' = [step EXCEPT ![a].at = "chat"]
    BY <1>11 DEF Marked
  <2>2. step' = [step EXCEPT ![a] = r]
    BY <2>1
  <2>3. r.at = "chat"
    OBVIOUS
  <2> HIDE DEF r
  <2> QED BY <1>1, <1>2, <2>2, <2>3
<1>12. ~ResolveMove(a)
  BY DEF ResolveMove, ScopeRanked, Aims
<1> QED BY <1>4, <1>5, <1>6, <1>7, <1>8, <1>9, <1>10, <1>11, <1>12 DEF StepNext

\* The answer of the language model names a zone, and the target keeps the
\* place where the body is (_build_envelopes).
LEMMA ChatAims ==
  ASSUME NEW a \in Agents, step = [b \in Agents |-> step[b]], LiveChat(a), Holds(a),
         IsBody(agent[a].body)
  PROVE  Aims(step'[a])
<1>1. step[a].at = "chat" /\ step[a].self.body.x \in Int
  BY DEF LiveChat, Fallback, Plan, Holds, Busy, IsBody
<1>2. ASSUME NEW r, step' = [step EXCEPT ![a] = r], Aims(r) PROVE Aims(step'[a])
  BY <1>2, OneRecord
<1>3. ASSUME NEW s, NEW fell, NEW move,
             move.to = Nowhere \/ (move.to.x \in Int /\ move.to.zone \in Zones)
      PROVE  Aims(Result(s, fell, move))
  <2>1. Result(s, fell, move).at = "answered"
    BY DEF Result
  <2>2. Result(s, fell, move).move = move
    BY DEF Result
  <2> QED BY <1>3, <2>1, <2>2 DEF Aims
<1>4. NoMove.to = Nowhere
  BY DEF NoMove
<1>5. CASE Fallback(a)
  BY <1>2, <1>3, <1>4, <1>5 DEF Fallback
<1>6. ASSUME NEW zone \in Zones \cup {None}, Plan(a, zone) PROVE Aims(step'[a])
  <2>1. CASE zone = None
    BY <1>2, <1>3, <1>4, <1>6, <2>1 DEF Plan
  <2>2. CASE zone # None
    <3> DEFINE move == [to |-> [x |-> step[a].self.body.x, zone |-> zone], from |-> {}]
    <3>1. step' = [step EXCEPT ![a] = Result(step[a], FALSE, move)]
      BY <1>6, <2>2 DEF Plan
    <3>2. move.to.x \in Int /\ move.to.zone \in Zones
      BY <1>1, <1>6, <2>2
    <3> HIDE DEF move
    <3> QED BY <1>2, <1>3, <3>1, <3>2
  <2> QED BY <2>1, <2>2
<1> QED BY <1>5, <1>6 DEF LiveChat

\* A target becomes a place (_consume_result).
LEMMA ResolvedPlace ==
  ASSUME NEW to, to.x \in Int, to.zone \in Zones PROVE Resolve(to).x \in Int
<1>1. Centre[to.zone] \in Int
  <2>1. PICK i \in DOMAIN ZoneOrder : to.zone = ZoneOrder[i]
    BY DEF Zones, Range
  <2> QED BY <2>1, BodyAssumption
<1>2. DefaultSpawn(to.zone).x \in Int
  BY <1>1 DEF DefaultSpawn
<1> QED BY <1>2 DEF Resolve

\* The bodies of the live world, what their distance was at the last physics
\* tick, and the crossings that wait to be observed.
MeetingsTrue ==
  /\ dist.pair \in Int \cup {Nowhere}
  /\ \A a \in Agents :
       /\ Alternating(pending[a], dist.pair < Threshold)
       /\ dist.pair = Nowhere => NoMeeting(pending[a])
       /\ IsBody(agent[a].body)
       /\ heading[a] = Nowhere \/ heading[a].x \in Int
       /\ Aims(step[a])

EventInv ==
  /\ WorldInv
  /\ ecl => loop.demand <= Ticks + 1
  /\ \A a \in Agents : AnySeq(pending[a]) /\ Linked(pending[a], agent[a].body.zone)
  /\ ecl => \A a \in Agents : NoMeeting(pending[a])
  /\ ~ecl => MeetingsTrue

\* A step that moves no body and reports nothing.
LEMMA EventsStay ==
  ASSUME EventInv, WorldInv', ecl' = ecl, ecl => loop'.demand <= Ticks + 1,
         dist' = dist, \A a \in Agents : pending'[a] = pending[a] \/ pending'[a] = <<>>,
         \A a \in Agents : agent'[a].body = agent[a].body,
         ~ecl => \A a \in Agents : heading'[a] = Nowhere \/ heading'[a].x \in Int,
         ~ecl => \A a \in Agents : Aims(step'[a])
  PROVE  EventInv'
<1>1. /\ AnySeq(<<>>) /\ NoMeeting(<<>>)
      /\ \A zone : Linked(<<>>, zone)
      /\ \A near : Alternating(<<>>, near)
  <2>1. <<>> \in Seq({}) /\ DOMAIN <<>> = {}
    OBVIOUS
  <2> QED BY <2>1 DEF AnySeq, NoMeeting, Linked, Alternating
<1>2. ASSUME NEW a \in Agents
      PROVE  /\ AnySeq(pending'[a]) /\ Linked(pending'[a], agent'[a].body.zone)
             /\ ecl => NoMeeting(pending'[a])
             /\ ~ecl => /\ Alternating(pending'[a], dist.pair < Threshold)
                        /\ dist.pair = Nowhere => NoMeeting(pending'[a])
                        /\ IsBody(agent'[a].body)
  <2>1. CASE pending'[a] = pending[a]
    BY <2>1 DEF EventInv, MeetingsTrue
  <2>2. CASE pending'[a] = <<>>
    BY <1>1, <2>2 DEF EventInv, MeetingsTrue
  <2> QED BY <2>1, <2>2
<1>3. ~ecl => MeetingsTrue'
  BY <1>2 DEF EventInv, MeetingsTrue
<1> QED BY <1>2, <1>3 DEF EventInv

\* At first nothing waits to be observed.
LEMMA InitEvents == Init => EventInv
<1> SUFFICES ASSUME Init PROVE EventInv
  OBVIOUS
<1>1. WorldInv
  BY InitWorld
<1>2. /\ agent = [a \in Agents |-> NewAgent(a)] /\ pending = [a \in Agents |-> <<>>]
      /\ step = [a \in Agents |-> Idle] /\ heading = [a \in Agents |-> Nowhere]
      /\ dist = [pair |-> Nowhere, prop |-> [a \in Agents |-> Nowhere]]
  BY DEF Init, Fresh
<1>3. ASSUME NEW a \in Agents PROVE IsBody(agent[a].body)
  <2>1. NewAgent(a).body = DefaultSpawn(Start[a])
    BY DEF NewAgent
  <2>2. Centre[Start[a]] \in Int
    <3>1. PICK i \in DOMAIN ZoneOrder : Start[a] = ZoneOrder[i]
      BY ApparatusAssumption DEF Zones, Range
    <3> QED BY <3>1, BodyAssumption
  <2> QED BY <1>2, <2>1, <2>2 DEF IsBody, DefaultSpawn
<1>4. /\ AnySeq(<<>>) /\ NoMeeting(<<>>)
      /\ \A zone : Linked(<<>>, zone)
      /\ \A near : Alternating(<<>>, near)
  <2>1. <<>> \in Seq({}) /\ DOMAIN <<>> = {}
    OBVIOUS
  <2> QED BY <2>1 DEF AnySeq, NoMeeting, Linked, Alternating
<1>5. Aims(Idle)
  BY DEF Aims, Idle
<1>6. ecl => loop.demand <= Ticks + 1
  <2> SUFFICES ASSUME ecl PROVE loop.demand = Ticks
    BY ApparatusAssumption
  <2>1. PICK seed : loop = [NewLoop EXCEPT !.seed = seed]
    BY DEF Init
  <2> QED BY <2>1 DEF NewLoop
<1>7. MeetingsTrue
  BY <1>2, <1>3, <1>4, <1>5 DEF MeetingsTrue
<1> QED BY <1>1, <1>2, <1>4, <1>6, <1>7 DEF EventInv

\* Where the bodies of a pair are after a physics tick.
LEMMA ApartBodies ==
  ASSUME Agents = {1, 2}, ~ecl, NEW there, there = [a \in Agents |-> there[a]],
         \A a \in Agents : IsBody(there[a])
  PROVE  \A a \in Agents : IsBody(Apart(there)[a]) /\ Apart(there)[a].zone = there[a].zone
<1>1. Cardinality(Agents) = 2
  <2>1. Cardinality({1}) = 1 /\ IsFiniteSet({1})
    BY FS_Singleton
  <2>2. Cardinality({1} \cup {2}) = 2
    BY <2>1, FS_AddElement
  <2>3. {1} \cup {2} = {1, 2}
    OBVIOUS
  <2> QED BY <2>2, <2>3
<1> DEFINE p == Separated(there[1], there[2])
<1>2. Apart(there) = [there EXCEPT ![1] = p[1], ![2] = p[2]]
  BY <1>1 DEF Apart
<1>3. /\ IsBody(p[1]) /\ p[1].zone = there[1].zone
      /\ IsBody(p[2]) /\ p[2].zone = there[2].zone
  BY SeparatedBodies
<1> HIDE DEF p
<1>4. Apart(there)[1] = p[1] /\ Apart(there)[2] = p[2]
  BY <1>2
<1> QED BY <1>3, <1>4

\* A physics tick reports what it does (_on_physics_tick).
LEMMA PhysicsTells ==
  ASSUME EventInv, Agents = {1, 2}, LivePhysics, WorldInv'
  PROVE  EventInv'
<1>1. ~ecl /\ ecl' = ecl /\ step' = step
  BY DEF LivePhysics, EventInv, WorldInv
<1> DEFINE apart == Apart(There)
           d == Distance(apart[1].x, apart[2].x)
           prop == [a \in Agents |-> Distance(apart[a].x, PropPlace)]
<1>2. \A a \in Agents : IsBody(There[a])
  BY <1>1, KinematicsBody DEF There, EventInv, MeetingsTrue
<1>3. \A a \in Agents : IsBody(apart[a]) /\ apart[a].zone = There[a].zone
  <2>1. There = [a \in Agents |-> There[a]]
    BY DEF There
  <2> QED BY <1>1, <1>2, <2>1, ApartBodies
<1>4. d \in Int
  BY <1>3, DistanceInt DEF IsBody
<1>5. /\ agent' = [a \in Agents |-> [agent[a] EXCEPT !.body = apart[a]]]
      /\ heading' = [a \in Agents |-> Heading(agent[a].body, heading[a], Speed)]
      /\ pending' = [a \in Agents |->
                       pending[a] \o Moved(agent[a].body, There[a])
                       \o Crossed(dist.pair, d, 3 - a) \o Reached(dist.prop[a], prop[a])]
      /\ dist' = [pair |-> d, prop |-> prop]
  BY <1>1 DEF LivePhysics, Physics
<1> HIDE DEF apart, d, prop
<1>6. dist'.pair = d
  BY <1>5
<1>7. ASSUME NEW a \in Agents
      PROVE  /\ AnySeq(pending'[a]) /\ Linked(pending'[a], agent'[a].body.zone)
             /\ Alternating(pending'[a], d < Threshold)
             /\ IsBody(agent'[a].body)
             /\ heading'[a] = Nowhere \/ heading'[a].x \in Int
  <2> DEFINE moved == pending[a] \o Moved(agent[a].body, There[a])
             crossed == moved \o Crossed(dist.pair, d, 3 - a)
             reached == crossed \o Reached(dist.prop[a], prop[a])
  <2>1. /\ AnySeq(moved) /\ Linked(moved, There[a].zone)
        /\ Alternating(moved, dist.pair < Threshold)
        /\ dist.pair = Nowhere => NoMeeting(moved)
    BY <1>1, MovedTells DEF EventInv, MeetingsTrue
  <2>2. pending'[a] = reached
    BY <1>5
  <2>3. dist.pair \in Int \cup {Nowhere}
    BY <1>1 DEF EventInv, MeetingsTrue
  <2> HIDE DEF moved
  <2>4. /\ AnySeq(crossed) /\ Linked(crossed, There[a].zone)
        /\ Alternating(crossed, d < Threshold)
    BY <1>4, <2>1, <2>3, CrossedTells
  <2> HIDE DEF crossed
  <2>5. /\ AnySeq(reached) /\ Linked(reached, There[a].zone)
        /\ Alternating(reached, d < Threshold)
    BY <2>4, ReachedTells
  <2> HIDE DEF reached
  <2>6. agent'[a].body = apart[a]
    <3>1. ASSUME NEW c PROVE [agent[a] EXCEPT !.body = c].body = c
      OBVIOUS
    <3>2. agent'[a] = [agent[a] EXCEPT !.body = apart[a]]
      BY <1>5
    <3> QED BY <3>1, <3>2
  <2>7. heading'[a] = Nowhere \/ heading'[a].x \in Int
    BY <1>1, <1>5 DEF Heading, EventInv, MeetingsTrue
  <2> QED BY <1>3, <2>2, <2>5, <2>6, <2>7
<1>8. MeetingsTrue'
  <2>1. d # Nowhere /\ d \in Int \cup {Nowhere}
    BY <1>4, BodyAssumption
  <2>2. \A a \in Agents : Aims(step'[a])
    BY <1>1 DEF EventInv, MeetingsTrue
  <2> QED BY <1>6, <1>7, <2>1, <2>2 DEF MeetingsTrue
<1> QED BY <1>1, <1>7, <1>8 DEF EventInv

\* So does one of the loop, where nobody meets.
LEMMA LoopPhysicsTells ==
  ASSUME EventInv, LoopPhysics, WorldInv'
  PROVE  EventInv'
<1>1. ecl /\ ecl' = ecl
  BY DEF LoopPhysics, Looping, EventInv, WorldInv
<1>2. Apart(There) = There
  BY <1>1 DEF Apart
<1> DEFINE prop == [a \in Agents |-> Distance(There[a].x, PropPlace)]
<1>3. /\ agent' = [a \in Agents |-> [agent[a] EXCEPT !.body = There[a]]]
      /\ pending' = [a \in Agents |->
                       pending[a] \o Moved(agent[a].body, There[a])
                       \o <<>> \o Reached(dist.prop[a], prop[a])]
  BY <1>1, <1>2 DEF LoopPhysics, Physics
<1> HIDE DEF prop
<1>4. ASSUME NEW a \in Agents
      PROVE  /\ AnySeq(pending'[a]) /\ Linked(pending'[a], agent'[a].body.zone)
             /\ NoMeeting(pending'[a])
  <2> DEFINE moved == pending[a] \o Moved(agent[a].body, There[a])
             reached == moved \o Reached(dist.prop[a], prop[a])
  <2>1. AnySeq(moved) /\ Linked(moved, There[a].zone) /\ NoMeeting(moved)
    BY <1>1, MovedTells DEF EventInv
  <2>2. pending'[a] = moved \o <<>> \o Reached(dist.prop[a], prop[a])
    BY <1>3
  <2> HIDE DEF moved
  <2>3. pending'[a] = reached
    BY <2>1, <2>2, NoneOrOne
  <2>4. AnySeq(reached) /\ Linked(reached, There[a].zone) /\ NoMeeting(reached)
    BY <2>1, ReachedTells
  <2> HIDE DEF reached
  <2>5. agent'[a].body = There[a]
    <3>1. ASSUME NEW c PROVE [agent[a] EXCEPT !.body = c].body = c
      OBVIOUS
    <3>2. agent'[a] = [agent[a] EXCEPT !.body = There[a]]
      BY <1>3
    <3> QED BY <3>1, <3>2
  <2> QED BY <2>3, <2>4, <2>5
<1>5. loop'.demand = loop.demand
  <2>1. loop' = [loop EXCEPT !.physics = loop.physics - 1,
                !.tick = IF loop.physics = 1 THEN loop.tick + 1 ELSE loop.tick,
                !.trace = Append(loop.trace, <<"row", loop.tick, There[LoopAgent], loop.move>>)]
    BY DEF LoopPhysics
  <2>2. \A x, y, z : [loop EXCEPT !.physics = x, !.tick = y, !.trace = z].demand = loop.demand
    OBVIOUS
  <2> QED BY <2>1, <2>2
<1> QED BY <1>1, <1>4, <1>5 DEF EventInv

\* Observations of outside join what waits (inject_observation).
LEMMA InjectTells ==
  ASSUME EventInv, NEW a \in Agents, NEW ev \in Observable, Inject(a, ev), WorldInv'
  PROVE  EventInv'
<1>1. /\ ~ecl /\ ecl' = ecl /\ agent' = agent /\ step' = step /\ heading' = heading
      /\ dist' = dist /\ pending' = [pending EXCEPT ![a] = Append(pending[a], ev)]
  BY DEF Inject
<1>2. ev.kind # "zone" /\ ev.kind # "proximity"
  BY ApparatusAssumption DEF Given
<1>3. pending = [b \in Agents |-> pending[b]]
  BY DEF EventInv, WorldInv
<1>4. ASSUME NEW b \in Agents PROVE pending'[b] = pending[b] \/ pending'[b] = Append(pending[b], ev)
  BY <1>1, <1>3
<1>5. ASSUME NEW b \in Agents
      PROVE  /\ AnySeq(pending'[b]) /\ Linked(pending'[b], agent'[b].body.zone)
             /\ Alternating(pending'[b], dist.pair < Threshold)
             /\ dist.pair = Nowhere => NoMeeting(pending'[b])
  <2>1. CASE pending'[b] = pending[b]
    BY <1>1, <2>1 DEF EventInv, MeetingsTrue
  <2>2. CASE pending'[b] = Append(pending[b], ev)
    BY <1>1, <1>2, <2>2, AnyAppend, OtherAppend, NoMeetingAppend DEF EventInv, MeetingsTrue
  <2> QED BY <1>4, <2>1, <2>2
<1>6. MeetingsTrue'
  BY <1>1, <1>5 DEF EventInv, MeetingsTrue
<1> QED BY <1>1, <1>5, <1>6 DEF EventInv

\* A tick of the loop begins with what its factory returns.
LEMMA LoopBeginTells ==
  ASSUME EventInv, LoopBegin, WorldInv'
  PROVE  EventInv'
<1>1. /\ ecl /\ ecl' = ecl /\ agent' = agent
      /\ pending' = [pending EXCEPT ![LoopAgent] = pending[LoopAgent] \o Seen[loop.tick]]
  BY DEF LoopBegin, Looping, EventInv, WorldInv
<1>2. Seen[loop.tick] \in Seq(Given)
  <2>1. loop.tick \in 0..Ticks
    BY <1>1, ApparatusAssumption DEF LoopBegin, EventInv, WorldInv
  <2> QED BY <2>1, ApparatusAssumption
<1>3. pending = [b \in Agents |-> pending[b]] /\ LoopAgent \in Agents
  BY ApparatusAssumption DEF EventInv, WorldInv
<1>4. ASSUME NEW b \in Agents
      PROVE  /\ AnySeq(pending'[b]) /\ Linked(pending'[b], agent'[b].body.zone)
             /\ NoMeeting(pending'[b])
  <2>1. CASE b # LoopAgent
    <3>1. pending'[b] = pending[b]
      BY <1>1, <1>3, <2>1
    <3> QED BY <1>1, <3>1 DEF EventInv
  <2>2. CASE b = LoopAgent
    <3>1. pending'[b] = pending[b] \o Seen[loop.tick]
      BY <1>1, <1>3, <2>2
    <3> QED BY <1>1, <1>2, <3>1, GivenConcat DEF EventInv
  <2> QED BY <2>1, <2>2
<1>5. loop'.demand = loop.demand
  <2>1. loop' = [loop EXCEPT !.served = Len(loop.tape)]
    BY DEF LoopBegin
  <2>2. \A x : [loop EXCEPT !.served = x].demand = loop.demand
    OBVIOUS
  <2> QED BY <2>1, <2>2
<1> QED BY <1>1, <1>4, <1>5 DEF EventInv

\* A replay begins with nothing to observe.
LEMMA ReplayTells ==
  ASSUME EventInv, Replay, WorldInv'
  PROVE  EventInv'
<1>1. ecl /\ ecl' = ecl /\ pending' = [a \in Agents |-> <<>>]
  BY DEF Replay, Looping, EventInv, WorldInv
<1>2. /\ AnySeq(<<>>) /\ NoMeeting(<<>>)
      /\ \A zone : Linked(<<>>, zone)
  <2>1. <<>> \in Seq({}) /\ DOMAIN <<>> = {}
    OBVIOUS
  <2> QED BY <2>1 DEF AnySeq, NoMeeting, Linked
<1>3. loop'.demand <= Ticks + 1
  <2> DEFINE recorded == [tape |-> loop.tape, trace |-> loop.trace, lost |-> loop.lost]
  <2>1. PICK demand \in {Ticks, Ticks + 1} :
          loop' = [NewLoop EXCEPT !.run = "replay", !.demand = demand, !.seed = loop.seed,
                                  !.recorded = recorded]
    BY DEF Replay
  <2>2. \A s, r : [NewLoop EXCEPT !.run = "replay", !.demand = demand, !.seed = s,
                                  !.recorded = r].demand = demand
    BY DEF NewLoop
  <2> HIDE DEF recorded
  <2>3. loop'.demand = demand
    BY <2>1, <2>2
  <2> QED BY <2>1, <2>3, ApparatusAssumption
<1> QED BY <1>1, <1>2, <1>3 DEF EventInv

\* Steps read what waits, and move nobody.
LEMMA StepsTell ==
  ASSUME EventInv, NEW a \in Agents, StepOf(a) \/ LiveChat(a), WorldInv'
  PROVE  EventInv'
<1>1. /\ dist' = dist /\ heading' = heading /\ agent' = agent /\ ecl' = ecl
      /\ loop' = Outages(a) \/ loop' = loop
  BY ZenonT(60) DEF StepOf, LiveChat, Fallback, Plan, StepNext, Begin, StoreRaised, WriteObservation, Feel,
    FetchVectors, NextScope, Mark, Marked, ResolveMove
<1>2. /\ step = [b \in Agents |-> step[b]] /\ pending = [b \in Agents |-> pending[b]]
      /\ \A b \in Agents : Holds(b)
  BY DEF EventInv, WorldInv
<1>3. pending' = pending \/ pending' = [pending EXCEPT ![a] = <<>>]
  BY ZenonT(60) DEF StepOf, LiveChat, Fallback, Plan, StepNext, Begin, StoreRaised, WriteObservation, Feel,
    FetchVectors, NextScope, Mark, Marked, ResolveMove
<1>4. \A b \in Agents : pending'[b] = pending[b] \/ pending'[b] = <<>>
  BY <1>2, <1>3
<1>5. \A b \in Agents : b # a => step'[b] = step[b]
  BY <1>2, StepHolds, ChatHolds DEF StepOf, LiveChat
<1>6. ~ecl => Aims(step'[a])
  BY <1>2, StepAims, ChatAims DEF StepOf, EventInv, MeetingsTrue
<1>7. loop'.demand = loop.demand
  <2>1. \A l : [loop EXCEPT !.lost = l].demand = loop.demand
    OBVIOUS
  <2> QED BY <1>1, <2>1 DEF Outages
<1> QED BY <1>1, <1>4, <1>5, <1>6, <1>7, EventsStay DEF EventInv, MeetingsTrue

\* So do the handlers: what they write back are the bodies the steps began
\* with, and those are still where they were.
LEMMA HandlersTell ==
  ASSUME EventInv, WorldInv',
         \/ StartHandler \/ Consume \/ TurnStored \/ TurnBonds \/ NoDialog \/ Stop
         \/ CloseStore \/ Alone \/ \E t \in Thread : StoreError(t) \/ InStore(t)
  PROVE  EventInv'
<1>1. dist' = dist /\ ecl' = ecl /\ pending' = pending /\ loop' = loop
  BY DEF StartHandler, Consume, TurnStored, TurnBonds, NoDialog, Stop, CloseStore, Alone,
    StoreError, InStore, stepVars
<1>2. ASSUME agent' = agent, heading' = heading,
             \A a \in Agents : step'[a] = step[a] \/ step'[a].at \in {"idle", "due"}
      PROVE  EventInv'
  <2>1. \A a \in Agents : Aims(step[a]) => Aims(step'[a])
    BY <1>2 DEF Aims
  <2> QED BY <1>1, <1>2, <2>1, EventsStay DEF EventInv, MeetingsTrue
<1>3. CASE \/ TurnStored \/ NoDialog \/ CloseStore \/ Alone
           \/ \E t \in Thread : StoreError(t) \/ InStore(t)
  BY <1>2, <1>3 DEF TurnStored, NoDialog, CloseStore, Alone, StoreError, InStore, stepVars
<1>4. CASE StartHandler
  BY <1>2, <1>4 DEF StartHandler
<1>5. CASE Stop
  BY <1>2, <1>5 DEF Stop, Idle
<1>6. CASE TurnBonds
  <2>1. ASSUME NEW a \in Agents PROVE agent'[a].body = agent[a].body
    <3>1. ASSUME NEW s, NEW b PROVE AffinityApplied(s, b).body = s.body
      BY DEF AffinityApplied
    <3>2. agent'[a] = agent[a] \/ agent'[a] = AffinityApplied(agent[a], 3 - a)
      BY <1>6 DEF TurnBonds
    <3> QED BY <3>1, <3>2
  <2>2. heading' = heading /\ step' = step
    BY <1>6 DEF TurnBonds
  <2> QED BY <1>1, <2>1, <2>2, EventsStay DEF EventInv, MeetingsTrue
<1>7. CASE Consume
  <2>1. /\ \A a \in Agents : Finished(a)
        /\ agent' = [a \in Agents |-> Consumed(a)]
        /\ heading' = [a \in Agents |-> HeadingAfter(a)]
        /\ step' = [a \in Agents |-> Idle]
    BY <1>7 DEF Consume, ConsumeResults
  <2>2. ASSUME NEW a \in Agents PROVE agent'[a].body = agent[a].body
    BY <2>1 DEF Consumed, Finished, EventInv, WorldInv, Holds, Busy
  <2>3. ASSUME NEW a \in Agents, ~ecl PROVE heading'[a] = Nowhere \/ heading'[a].x \in Int
    BY <2>1, <2>3, ResolvedPlace DEF HeadingAfter, Finished, EventInv, MeetingsTrue, Aims
  <2>4. \A a \in Agents : Aims(step'[a])
    BY <2>1 DEF Aims, Idle
  <2> QED BY <1>1, <2>2, <2>3, <2>4, EventsStay DEF EventInv
<1> QED BY <1>3, <1>4, <1>5, <1>6, <1>7

\* The rest of the loop.
LEMMA LoopTells ==
  ASSUME EventInv, WorldInv',
         Exhausted \/ LoopConsume \/ LoopEnd \/ \E said, up : LoopChat(said, up)
  PROVE  EventInv'
<1>1. ecl /\ ecl' = ecl /\ dist' = dist /\ pending' = pending
  BY DEF Exhausted, LoopConsume, LoopEnd, LoopChat, Fallback, PlanEcl, Looping, EventInv, WorldInv,
    stepVars, ConsumeResults
<1>2. ASSUME NEW a \in Agents PROVE agent'[a].body = agent[a].body
  <2>1. agent' = agent \/ (ConsumeResults({LoopAgent}) /\ Finished(LoopAgent))
    BY DEF Exhausted, LoopConsume, LoopEnd, LoopChat, Fallback, PlanEcl, stepVars
  <2> QED BY <2>1 DEF ConsumeResults, Consumed, Finished, EventInv, WorldInv, Holds, Busy
<1>3. loop'.demand = loop.demand
  <2>1. \A x : [loop EXCEPT !.end = x].demand = loop.demand
    OBVIOUS
  <2>2. \A x, y, z : [loop EXCEPT !.trace = x, !.move = y, !.physics = z].demand = loop.demand
    OBVIOUS
  <2>3. \A x, y, z : [loop EXCEPT !.tape = x, !.index = y, !.lost = z].demand = loop.demand
    OBVIOUS
  <2>4. CASE \E said, up : LoopChat(said, up)
    <3>1. \E x, y, z : loop' = [loop EXCEPT !.tape = x, !.index = y, !.lost = z]
      BY <2>4 DEF LoopChat
    <3> QED BY <2>3, <3>1
  <2>5. CASE Exhausted \/ LoopEnd
    <3>1. \E x : loop' = [loop EXCEPT !.end = x]
      BY <2>5 DEF Exhausted, LoopEnd
    <3> QED BY <2>1, <3>1
  <2>6. CASE LoopConsume
    <3>1. \/ \E x : loop' = [loop EXCEPT !.end = x]
          \/ \E x, y, z : loop' = [loop EXCEPT !.trace = x, !.move = y, !.physics = z]
      BY <2>6 DEF LoopConsume
    <3>2. ASSUME NEW x, loop' = [loop EXCEPT !.end = x] PROVE loop'.demand = loop.demand
      BY <2>1, <3>2
    <3>3. ASSUME NEW x, NEW y, NEW z, loop' = [loop EXCEPT !.trace = x, !.move = y, !.physics = z]
          PROVE  loop'.demand = loop.demand
      BY <2>2, <3>3
    <3> QED BY <3>1, <3>2, <3>3
  <2> QED BY <2>4, <2>5, <2>6
<1> QED BY <1>1, <1>2, <1>3, EventsStay DEF EventInv

\* Every step keeps the histories true.
LEMMA NextTells ==
  ASSUME Agents = {1, 2}, EventInv, [Next]_vars
  PROVE  EventInv'
<1>1. WorldInv'
  BY NextKeepsWorld DEF EventInv
<1>2. CASE UNCHANGED vars
  BY <1>1, <1>2, EventsStay DEF vars, stepVars, EventInv, MeetingsTrue
<1>3. CASE Live
  BY <1>1, <1>3, PhysicsTells, InjectTells, StepsTell, HandlersTell DEF Live
<1>4. CASE Loop
  BY <1>1, <1>4, LoopPhysicsTells, LoopBeginTells, ReplayTells, LoopTells DEF Loop
<1>5. ASSUME NEW a \in Agents, StepOf(a) PROVE EventInv'
  BY <1>1, <1>5, StepsTell
<1>6. ASSUME NEW t \in Thread, InStore(t) PROVE EventInv'
  BY <1>1, <1>6, HandlersTell
<1> QED BY <1>2, <1>3, <1>4, <1>5, <1>6 DEF Next

\* What waits to be observed is true, of any geometry, any pace and any order of
\* physics ticks, steps, cancellations and injected observations.
THEOREM EventsAreTrue == ASSUME Agents = {1, 2} PROVE Spec => []EventsTellTheTruth
<1>1. EventInv => EventsTellTheTruth
  BY NoMeetingAlternates DEF EventInv, WorldInv, MeetingsTrue, EventsTellTheTruth
<1>2. EventInv /\ [Next]_vars => EventInv'
  BY NextTells
<1> QED BY <1>1, <1>2, InitEvents, PTL DEF Spec

-----------------------------------------------------------------------------
(* Writes: a memory is in the database as a whole or not at all.              *)

\* The vector of a memory that is added is the one it was given.
HasVec(d, e) ==
  IF e.vec = None THEN e.id \notin DOMAIN d.vec
  ELSE e.id \in DOMAIN d.vec /\ d.vec[e.id] = e.vec

\* A database with no vector without its row and no memory of E without its
\* vector.
Sound(d, E) ==
  /\ DOMAIN d.vec \subseteq DOMAIN d.row
  /\ \A e \in E : e.op = "add" /\ e.id \in DOMAIN d.row => HasVec(d, e)

\* What n statements of c have made of d0 in a transaction: on the way it is not
\* sound, between the row of a memory and its vector and between the rows that
\* are evicted and their vectors.
RowsMidway(c, n, d0, x) ==
  /\ DOMAIN x.vec \subseteq
       DOMAIN x.row \cup (IF c.op = "evict" /\ n = 1 THEN Evicted(d0, c) ELSE {})
  /\ c.op \in {"add", "upsert"} /\ n > 0 => c.id \in DOMAIN x.row
  /\ c.op = "evict" /\ n > 0 => DOMAIN x.row \cap Evicted(d0, c) = {}
  /\ c.op # "evict" => DOMAIN d0.row \subseteq DOMAIN x.row
  /\ DOMAIN x.row \subseteq DOMAIN d0.row \cup (IF c.op \in {"add", "upsert"} THEN {c.id} ELSE {})
VecsMidway(c, n, x, E) ==
  \A e \in E : e.op = "add" /\ e.id \in DOMAIN x.row =>
    IF c.op = "add" /\ n = 1 /\ e = c THEN e.id \notin DOMAIN x.vec ELSE HasVec(x, e)
Midway(c, n, d0, x, E) == RowsMidway(c, n, d0, x) /\ VecsMidway(c, n, x, E)

\* No two writes give the same id, but for one that is repeated.
OwnId(c, E) ==
  \A e \in E : e.op = "add" /\ c.op \in {"add", "upsert"} /\ c.id = e.id => c = e

\* The rows and the vectors that the statements leave (store.py:405-500, 752-792).
LEMMA RowInserted ==
  ASSUME NEW d, NEW id, NEW r, NEW s, s = InsertRow(d, id, r), s # Fails
  PROVE  id \notin DOMAIN d.row /\ s.vec = d.vec /\ DOMAIN s.row = DOMAIN d.row \cup {id}
<1>1. id \notin DOMAIN d.row
  BY DEF InsertRow
<1>2. InsertRow(d, id, r).vec = d.vec
  BY <1>1 DEF InsertRow
<1>3. DOMAIN InsertRow(d, id, r).row = DOMAIN d.row \cup {id}
  BY <1>1 DEF InsertRow
<1> QED BY <1>1, <1>2, <1>3

\* What the statements do to rows and vectors: an INSERT of a vector, ...
LEMMA VecInserted ==
  ASSUME NEW d, NEW id, NEW v, NEW s, s = InsertVec(d, id, v), s # Fails
  PROVE  /\ id \notin DOMAIN d.vec /\ s.row = d.row
         /\ DOMAIN s.vec = DOMAIN d.vec \cup {id} /\ s.vec[id] = v
         /\ \A i \in DOMAIN d.vec : i # id /\ s.vec[i] = d.vec[i]
<1>1. id \notin DOMAIN d.vec
  BY DEF InsertVec
<1>2. InsertVec(d, id, v).row = d.row
  BY <1>1 DEF InsertVec
<1>3. InsertVec(d, id, v).vec =
        [i \in DOMAIN d.vec \cup {id} |-> IF i = id THEN v ELSE d.vec[i]]
  BY <1>1 DEF InsertVec
<1>4. \A i \in DOMAIN d.vec : i # id
  BY <1>1
<1> QED BY <1>1, <1>2, <1>3, <1>4

\* ... an INSERT OR REPLACE of a row, ...
LEMMA RowReplaced ==
  ASSUME NEW d, NEW id, NEW r, NEW s, s = ReplaceRow(d, id, r)
  PROVE  s.vec = d.vec /\ DOMAIN s.row = DOMAIN d.row \cup {id}
<1>1. ReplaceRow(d, id, r).vec = d.vec
  BY DEF ReplaceRow
<1>2. DOMAIN ReplaceRow(d, id, r).row = DOMAIN d.row \cup {id}
  BY DEF ReplaceRow
<1> QED BY <1>1, <1>2

\* ... a DELETE of vectors, ...
LEMMA VecsDeleted ==
  ASSUME NEW d, NEW ids, NEW s, s = DeleteVec(d, ids)
  PROVE  /\ s.row = d.row /\ DOMAIN s.vec = DOMAIN d.vec \ ids
         /\ \A i \in DOMAIN d.vec \ ids : s.vec[i] = d.vec[i]
<1>1. DeleteVec(d, ids).row = d.row
  BY DEF DeleteVec
<1>2. DeleteVec(d, ids).vec = [i \in DOMAIN d.vec \ ids |-> d.vec[i]]
  BY DEF DeleteVec, Restrict
<1> QED BY <1>1, <1>2

\* ... a DELETE of rows, ...
LEMMA RowsDeleted ==
  ASSUME NEW d, NEW ids, NEW s, s = DeleteRows(d, ids)
  PROVE  s.vec = d.vec /\ DOMAIN s.row = DOMAIN d.row \ ids
<1>1. DeleteRows(d, ids).vec = d.vec
  BY DEF DeleteRows
<1>2. DOMAIN DeleteRows(d, ids).row = DOMAIN d.row \ ids
  BY DEF DeleteRows, Restrict
<1> QED BY <1>1, <1>2

\* ... the UPDATE of recalls, ...
LEMMA RowsStay ==
  ASSUME NEW d, NEW ids
  PROVE  Recall(d, ids).vec = d.vec /\ DOMAIN Recall(d, ids).row = DOMAIN d.row
<1>1. Recall(d, ids).vec = d.vec
  BY DEF Recall
<1>2. DOMAIN Recall(d, ids).row = DOMAIN d.row
  BY DEF Recall
<1> QED BY <1>1, <1>2

\* ... and the INSERT of a turn.
LEMMA RowsAndVecsStay ==
  ASSUME NEW d, NEW key, NEW r
  PROVE  InsertTurn(d, key, r).vec = d.vec /\ InsertTurn(d, key, r).row = d.row
<1>1. InsertTurn(d, key, r).vec = d.vec
  BY DEF InsertTurn
<1>2. InsertTurn(d, key, r).row = d.row
  BY DEF InsertTurn
<1> QED BY <1>1, <1>2

\* Each statement takes a transaction one further on its way.
LEMMA StatementWhole ==
  ASSUME NEW c, NEW n \in Nat, n < StatementsOf(c), NEW d0, NEW x, NEW E,
         Midway(c, n, d0, x, E), OwnId(c, E), Statement(c, n + 1, d0, x) # Fails
  PROVE  Midway(c, n + 1, d0, Statement(c, n + 1, d0, x), E)
<1> DEFINE s == Statement(c, n + 1, d0, x)
<1>1. /\ s # Fails
      /\ \/ c.op = "add" /\ n = 0 /\ s = InsertRow(x, c.id, c.row)
         \/ c.op = "add" /\ n = 1 /\ c.vec # None /\ s = InsertVec(x, c.id, c.vec)
         \/ c.op = "upsert" /\ n = 0 /\ s = ReplaceRow(x, c.id, c.row)
         \/ c.op = "upsert" /\ n = 1 /\ s = DeleteVec(x, {c.id})
         \/ c.op = "upsert" /\ n = 2 /\ c.vec # None /\ s = InsertVec(x, c.id, c.vec)
         \/ c.op = "evict" /\ n = 0 /\ s = DeleteRows(x, Evicted(d0, c))
         \/ c.op = "evict" /\ n = 1 /\ s = DeleteVec(x, Evicted(d0, c))
         \/ c.op = "mark" /\ n = 0 /\ s = Recall(x, c.ids)
         \/ c.op = "turn" /\ n = 0 /\ s = InsertTurn(x, c.key, c.turn)
  BY StatementIs
<1> SUFFICES Midway(c, n + 1, d0, s, E)
  OBVIOUS
<1> HIDE DEF s
<1>2. CASE c.op = "add" /\ n = 0 /\ s = InsertRow(x, c.id, c.row)
  <2>1. /\ c.id \notin DOMAIN x.row /\ s.vec = x.vec
        /\ DOMAIN s.row = DOMAIN x.row \cup {c.id}
    BY <1>1, <1>2, RowInserted
  <2>2. RowsMidway(c, n + 1, d0, s)
    BY <1>2, <2>1 DEF Midway, RowsMidway
  <2>3. VecsMidway(c, n + 1, s, E)
    BY <1>2, <2>1 DEF Midway, RowsMidway, VecsMidway, OwnId, HasVec
  <2> QED BY <2>2, <2>3 DEF Midway
<1>3. CASE c.op = "add" /\ n = 1 /\ c.vec # None /\ s = InsertVec(x, c.id, c.vec)
  <2>1. /\ c.id \notin DOMAIN x.vec /\ s.row = x.row
        /\ DOMAIN s.vec = DOMAIN x.vec \cup {c.id} /\ s.vec[c.id] = c.vec
        /\ \A i \in DOMAIN x.vec : i # c.id /\ s.vec[i] = x.vec[i]
    BY <1>1, <1>3, VecInserted
  <2>2. RowsMidway(c, n + 1, d0, s)
    BY <1>3, <2>1 DEF Midway, RowsMidway
  <2>3. VecsMidway(c, n + 1, s, E)
    BY <1>3, <2>1 DEF Midway, RowsMidway, VecsMidway, OwnId, HasVec
  <2> QED BY <2>2, <2>3 DEF Midway
<1>4. CASE c.op = "upsert" /\ n = 0 /\ s = ReplaceRow(x, c.id, c.row)
  <2>1. s.vec = x.vec /\ DOMAIN s.row = DOMAIN x.row \cup {c.id}
    BY <1>4, RowReplaced
  <2>2. RowsMidway(c, n + 1, d0, s)
    BY <1>4, <2>1 DEF Midway, RowsMidway
  <2>3. VecsMidway(c, n + 1, s, E)
    BY <1>4, <2>1 DEF Midway, RowsMidway, VecsMidway, OwnId, HasVec
  <2> QED BY <2>2, <2>3 DEF Midway
<1>5. CASE c.op = "upsert" /\ n = 1 /\ s = DeleteVec(x, {c.id})
  <2>1. /\ s.row = x.row /\ DOMAIN s.vec = DOMAIN x.vec \ {c.id}
        /\ \A i \in DOMAIN x.vec \ {c.id} : s.vec[i] = x.vec[i]
    BY <1>5, VecsDeleted
  <2>2. RowsMidway(c, n + 1, d0, s)
    BY <1>5, <2>1 DEF Midway, RowsMidway
  <2>3. VecsMidway(c, n + 1, s, E)
    BY <1>5, <2>1 DEF Midway, RowsMidway, VecsMidway, OwnId, HasVec
  <2> QED BY <2>2, <2>3 DEF Midway
<1>6. CASE c.op = "upsert" /\ n = 2 /\ c.vec # None /\ s = InsertVec(x, c.id, c.vec)
  <2>1. /\ c.id \notin DOMAIN x.vec /\ s.row = x.row
        /\ DOMAIN s.vec = DOMAIN x.vec \cup {c.id} /\ s.vec[c.id] = c.vec
        /\ \A i \in DOMAIN x.vec : i # c.id /\ s.vec[i] = x.vec[i]
    BY <1>1, <1>6, VecInserted
  <2>2. RowsMidway(c, n + 1, d0, s)
    BY <1>6, <2>1 DEF Midway, RowsMidway
  <2>3. VecsMidway(c, n + 1, s, E)
    BY <1>6, <2>1 DEF Midway, RowsMidway, VecsMidway, OwnId, HasVec
  <2> QED BY <2>2, <2>3 DEF Midway
<1>7. CASE c.op = "evict" /\ n = 0 /\ s = DeleteRows(x, Evicted(d0, c))
  <2>1. s.vec = x.vec /\ DOMAIN s.row = DOMAIN x.row \ Evicted(d0, c)
    BY <1>7, RowsDeleted
  <2>2. RowsMidway(c, n + 1, d0, s)
    BY <1>7, <2>1 DEF Midway, RowsMidway
  <2>3. VecsMidway(c, n + 1, s, E)
    BY <1>7, <2>1 DEF Midway, RowsMidway, VecsMidway, OwnId, HasVec
  <2> QED BY <2>2, <2>3 DEF Midway
<1>8. CASE c.op = "evict" /\ n = 1 /\ s = DeleteVec(x, Evicted(d0, c))
  <2>1. /\ s.row = x.row /\ DOMAIN s.vec = DOMAIN x.vec \ Evicted(d0, c)
        /\ \A i \in DOMAIN x.vec \ Evicted(d0, c) : s.vec[i] = x.vec[i]
    BY <1>8, VecsDeleted
  <2>2. RowsMidway(c, n + 1, d0, s)
    BY <1>8, <2>1 DEF Midway, RowsMidway
  <2>3. VecsMidway(c, n + 1, s, E)
    BY <1>8, <2>1 DEF Midway, RowsMidway, VecsMidway, OwnId, HasVec
  <2> QED BY <2>2, <2>3 DEF Midway
<1>9. CASE c.op = "mark" /\ n = 0 /\ s = Recall(x, c.ids)
  <2>1. s.vec = x.vec /\ DOMAIN s.row = DOMAIN x.row
    BY <1>9, RowsStay
  <2>2. RowsMidway(c, n + 1, d0, s)
    BY <1>9, <2>1 DEF Midway, RowsMidway
  <2>3. VecsMidway(c, n + 1, s, E)
    BY <1>9, <2>1 DEF Midway, RowsMidway, VecsMidway, OwnId, HasVec
  <2> QED BY <2>2, <2>3 DEF Midway
<1>10. CASE c.op = "turn" /\ n = 0 /\ s = InsertTurn(x, c.key, c.turn)
  <2>1. s.vec = x.vec /\ DOMAIN s.row = DOMAIN x.row
    BY <1>10, RowsAndVecsStay
  <2>2. RowsMidway(c, n + 1, d0, s)
    BY <1>10, <2>1 DEF Midway, RowsMidway
  <2>3. VecsMidway(c, n + 1, s, E)
    BY <1>10, <2>1 DEF Midway, RowsMidway, VecsMidway, OwnId, HasVec
  <2> QED BY <2>2, <2>3 DEF Midway
<1> QED BY <1>1, <1>2, <1>3, <1>4, <1>5, <1>6, <1>7, <1>8, <1>9, <1>10

\* The first statement finds a sound database, and the last leaves one.
LEMMA WholeAtTheEnds ==
  ASSUME NEW c, NEW d0, NEW x, NEW E
  PROVE  /\ Sound(d0, E) => Midway(c, 0, d0, d0, E)
         /\ Midway(c, StatementsOf(c), d0, x, E) =>
              /\ Sound(x, E)
              /\ c.op = "add" => c.id \in DOMAIN x.row
<1>1. ASSUME Sound(d0, E) PROVE Midway(c, 0, d0, d0, E)
  BY <1>1 DEF Sound, Midway, RowsMidway, VecsMidway
<1>2. ASSUME Midway(c, StatementsOf(c), d0, x, E)
      PROVE  Sound(x, E) /\ (c.op = "add" => c.id \in DOMAIN x.row)
  <2>1. /\ c.op = "add" => StatementsOf(c) = IF c.vec = None THEN 1 ELSE 2
        /\ c.op = "evict" => StatementsOf(c) = 2
    BY DEF StatementsOf
  <2> QED BY <1>2, <2>1 DEF Sound, Midway, RowsMidway, VecsMidway, HasVec
<1> QED BY <1>1, <1>2

\* What is committed is sound, and what a thread is doing to it will be.
Txn(t, E) ==
  Inside(t) =>
    thread[t].n \in Nat /\ Midway(thread[t].call, thread[t].n, db, thread[t].txn, E)
AllSound(E) == Sound(db, E) /\ \A t \in Thread : Txn(t, E)

\* A thread takes its call one further, or gives it up; what was there stays,
\* unless it evicts, and a memory whose call is done is there.
LEMMA ThreadSound ==
  ASSUME StoreInv, NEW E, AllSound(E), NEW t \in Thread, OwnId(thread[t].call, E),
         ThreadNext(t) \/ Error(t)
  PROVE  /\ AllSound(E)'
         /\ thread[t].at \in {"queued", "inside"} /\ thread'[t].call = thread[t].call
         /\ thread'[t].at \in {"inside", "done", "failed"}
         /\ \A u \in Thread : u # t => thread'[u] = thread[u]
         /\ thread[t].call.op # "evict" => DOMAIN db.row \subseteq DOMAIN db'.row
         /\ thread'[t].at = "done" /\ thread[t].call.op = "add" =>
              thread[t].call.id \in DOMAIN db'.row
         /\ DOMAIN db'.row \subseteq
              DOMAIN db.row \cup (IF thread[t].call.op \in {"add", "upsert"}
                                  THEN {thread[t].call.id} ELSE {})
<1> DEFINE c == thread[t].call
           n == thread[t].n
           x == thread[t].txn
<1>1. CASE Enter(t)
  <2>1. /\ thread' = [thread EXCEPT ![t] = Running(c, 0, conn', db)]
        /\ thread[t].at = "queued" /\ lock = None /\ db' = db
    BY <1>1 DEF Enter
  <2>2. \A u \in Thread : ~Inside(u)
    BY <2>1, ConnectionAssumption DEF StoreInv
  <2>3. /\ thread'[t] = Running(c, 0, conn', db)
        /\ \A u \in Thread : u # t => thread'[u] = thread[u]
    BY <2>1 DEF StoreInv
  <2>4. /\ thread'[t].at = "inside" /\ thread'[t].call = c
        /\ thread'[t].n = 0 /\ thread'[t].txn = db
    BY <2>3 DEF Running
  <2> HIDE DEF c
  <2>5. Midway(c, 0, db, db, E)
    BY WholeAtTheEnds DEF AllSound
  <2>6. Txn(t, E)'
    BY <2>1, <2>4, <2>5 DEF Txn
  <2>7. ASSUME NEW u \in Thread, u # t PROVE Txn(u, E)'
    BY <2>1, <2>2, <2>3, <2>7 DEF Txn, Inside
  <2>8. AllSound(E)'
    BY <2>1, <2>6, <2>7 DEF AllSound
  <2> QED BY <2>1, <2>3, <2>4, <2>8 DEF c
<1>2. CASE Execute(t)
  <2> DEFINE d == Statement(c, n + 1, db, x)
  <2>1. /\ Inside(t) /\ n < StatementsOf(c) /\ db' = db
        /\ \/ d # Fails /\ thread' = [thread EXCEPT ![t] = Running(c, n + 1, thread[t].conn, d)]
           \/ thread' = [thread EXCEPT ![t] = Outside("failed", c, None)]
    BY <1>2 DEF Execute, Inside
  <2>2. n \in Nat /\ Midway(c, n, db, x, E)
    BY <2>1 DEF AllSound, Txn
  <2>3. \A u \in Thread : Inside(u) => u = t
    BY <2>1 DEF StoreInv
  <2>4. CASE d # Fails /\ thread' = [thread EXCEPT ![t] = Running(c, n + 1, thread[t].conn, d)]
    <3>1. /\ thread'[t] = Running(c, n + 1, thread[t].conn, d)
          /\ \A u \in Thread : u # t => thread'[u] = thread[u]
      BY <2>4 DEF StoreInv
    <3>2. Midway(c, n + 1, db, d, E)
      <4> HIDE DEF c, n, x
      <4> QED BY <2>1, <2>2, <2>4, StatementWhole DEF c
    <3> HIDE DEF d
    <3>3. /\ thread'[t].at = "inside" /\ thread'[t].call = c
          /\ thread'[t].n = n + 1 /\ thread'[t].txn = d
      BY <3>1 DEF Running
    <3> HIDE DEF c, n, x
    <3>4. Txn(t, E)'
      BY <2>1, <2>2, <3>2, <3>3 DEF Txn
    <3>5. ASSUME NEW u \in Thread, u # t PROVE Txn(u, E)'
      BY <2>1, <2>3, <3>1, <3>5 DEF Txn, Inside
    <3>6. AllSound(E)'
      BY <2>1, <3>4, <3>5 DEF AllSound
    <3> QED BY <2>1, <3>1, <3>3, <3>6 DEF c, Inside
  <2>5. CASE thread' = [thread EXCEPT ![t] = Outside("failed", c, None)]
    <3>1. /\ thread'[t] = Outside("failed", c, None)
          /\ \A u \in Thread : u # t => thread'[u] = thread[u]
      BY <2>5 DEF StoreInv
    <3>2. thread'[t].at = "failed" /\ thread'[t].call = c
      BY <3>1 DEF Outside
    <3> HIDE DEF c, n, x, d
    <3>3. ASSUME NEW u \in Thread PROVE Txn(u, E)'
      BY <2>1, <2>3, <3>1, <3>2, <3>3 DEF Txn, Inside
    <3>4. AllSound(E)'
      BY <2>1, <3>3 DEF AllSound
    <3> QED BY <2>1, <3>1, <3>2, <3>4 DEF c, Inside
  <2> QED BY <2>1, <2>4, <2>5
<1>3. CASE Leave(t)
  <2>1. Inside(t) /\ n = StatementsOf(c) /\ db' = x
    BY <1>3 DEF Leave, Inside
  <2>2. Midway(c, n, db, x, E)
    BY <2>1 DEF AllSound, Txn
  <2>3. \A u \in Thread : Inside(u) => u = t
    BY <2>1 DEF StoreInv
  <2>4. PICK out : thread' = [thread EXCEPT ![t] = Outside("done", c, out)]
    BY <1>3 DEF Leave
  <2>5. /\ thread'[t] = Outside("done", c, out)
        /\ \A u \in Thread : u # t => thread'[u] = thread[u]
    BY <2>4 DEF StoreInv
  <2>6. thread'[t].at = "done" /\ thread'[t].call = c
    BY <2>5 DEF Outside
  <2> HIDE DEF c, n, x
  <2>7. Sound(x, E) /\ (c.op = "add" => c.id \in DOMAIN x.row)
    BY <2>1, <2>2, WholeAtTheEnds
  <2>8. /\ c.op # "evict" => DOMAIN db.row \subseteq DOMAIN x.row
        /\ DOMAIN x.row \subseteq
             DOMAIN db.row \cup (IF c.op \in {"add", "upsert"} THEN {c.id} ELSE {})
    BY <2>2 DEF Midway, RowsMidway
  <2>9. ASSUME NEW u \in Thread PROVE Txn(u, E)'
    BY <2>3, <2>5, <2>6, <2>9 DEF Txn, Inside
  <2>10. AllSound(E)'
    BY <2>1, <2>7, <2>9 DEF AllSound
  <2> QED BY <2>1, <2>5, <2>6, <2>7, <2>8, <2>10 DEF c, Inside
<1>4. CASE Error(t)
  <2>1. Inside(t) /\ db' = db /\ thread' = [thread EXCEPT ![t] = Outside("failed", c, None)]
    BY <1>4 DEF Error, Inside
  <2>2. \A u \in Thread : Inside(u) => u = t
    BY <2>1 DEF StoreInv
  <2>3. /\ thread'[t] = Outside("failed", c, None)
        /\ \A u \in Thread : u # t => thread'[u] = thread[u]
    BY <2>1 DEF StoreInv
  <2>4. thread'[t].at = "failed" /\ thread'[t].call = c
    BY <2>3 DEF Outside
  <2> HIDE DEF c, n, x
  <2>5. ASSUME NEW u \in Thread PROVE Txn(u, E)'
    BY <2>1, <2>2, <2>3, <2>4, <2>5 DEF Txn, Inside
  <2>6. AllSound(E)'
    BY <2>1, <2>5 DEF AllSound
  <2> QED BY <2>1, <2>3, <2>4, <2>6 DEF c, Inside
<1> QED BY <1>1, <1>2, <1>3, <1>4 DEF ThreadNext

\* A call that waits changes nothing yet.
LEMMA SubmitSound ==
  ASSUME StoreInv, NEW E, AllSound(E), NEW t \in Thread, NEW c, Submit(t, c)
  PROVE  /\ AllSound(E)' /\ db' = db
         /\ thread'[t].at = "queued" /\ thread'[t].call = c
         /\ \A u \in Thread : u # t => thread'[u] = thread[u]
<1>1. thread' = [thread EXCEPT ![t] = Outside("queued", c, None)] /\ db' = db
  BY DEF Submit
<1>2. /\ thread'[t] = Outside("queued", c, None)
      /\ \A u \in Thread : u # t => thread'[u] = thread[u]
  BY <1>1 DEF StoreInv
<1>3. thread'[t].at = "queued" /\ thread'[t].call = c
  BY <1>2 DEF Outside
<1>4. ASSUME NEW u \in Thread PROVE Txn(u, E)'
  BY <1>1, <1>2, <1>3 DEF AllSound, Txn, Inside
<1> QED BY <1>1, <1>2, <1>3, <1>4 DEF AllSound

\* A memory that nobody has a trace of may be given next.
LEMMA OneMoreSound ==
  ASSUME NEW E, AllSound(E), NEW e,
         e.op = "add" => /\ e.id \notin DOMAIN db.row
                         /\ \A t \in Thread : Inside(t) => e.id \notin DOMAIN thread[t].txn.row
  PROVE  AllSound(E \cup {e})
<1>1. Sound(db, E \cup {e})
  BY DEF AllSound, Sound
<1>2. ASSUME NEW t \in Thread PROVE Txn(t, E \cup {e})
  BY DEF AllSound, Txn, Midway, VecsMidway
<1> QED BY <1>1, <1>2 DEF AllSound

\* A store that is sound for some calls is sound for fewer.
LEMMA FewerSound == ASSUME NEW E, NEW F, F \subseteq E, AllSound(E) PROVE AllSound(F)
BY DEF AllSound, Sound, Txn, Midway, VecsMidway

\* What a step has written, and what it knows of its own tick.
Ticking(r, s) ==
  /\ r.new = s.new
  /\ r.at = "raised" \/ r.self.tick = IF r.at = "answered" THEN s.self.tick + 1 ELSE s.self.tick

\* The records a step goes through keep its ids and its tick, but for the result.
LEMMA RecordsTick ==
  ASSUME NEW s, NEW x, NEW y
  PROVE  /\ Shifted(s).new = s.new /\ Shifted(s).self.tick = s.self.tick
         /\ Retrieving(s, x, y).new = s.new
         /\ Prompted(s).new = s.new
         /\ Result(s, x, y).new = s.new /\ Result(s, x, y).self.tick = s.self.tick + 1
<1>1. Shifted(s).new = s.new
  BY DEF Shifted
<1>2. Shifted(s).self.tick = s.self.tick
  BY DEF Shifted
<1>3. Retrieving(s, x, y).new = s.new
  BY DEF Retrieving
<1>4. Prompted(s).new = s.new
  BY DEF Prompted
<1>5. Result(s, x, y).new = s.new
  BY DEF Result
<1>6. Result(s, x, y).self = [s.self EXCEPT !.tick = s.self.tick + 1]
  BY DEF Result
<1>7. \A v : [s.self EXCEPT !.tick = v].tick = v
  OBVIOUS
<1> QED BY <1>1, <1>2, <1>3, <1>4, <1>5, <1>6, <1>7

\* A step begins, writes, or goes on with what it has written; it goes on once
\* the last write is answered, and ends here when one failed.
LEMMA StepWrites ==
  ASSUME NEW a \in Agents, step = [b \in Agents |-> step[b]], StepNext(a)
  PROVE  \/ /\ Begin(a) /\ step[a].at = "due"
            /\ step'[a].at = "write" /\ step'[a].serial = step[a].serial
            /\ step'[a].n = 0 /\ step'[a].new = {} /\ step'[a].self = agent[a]
         \/ /\ \E up \in BOOLEAN : WriteObservation(a, up)
            /\ step[a].at = "write" /\ step'[a].at = "write"
            /\ step'[a].serial = step[a].serial /\ step'[a].n = step[a].n + 1
            /\ step'[a].new = step[a].new \cup {FreshId(a, step[a].n)}
            /\ step'[a].self = step[a].self
         \/ /\ step[a].at \in Busy \ {"answered"}
            /\ step'[a].at \in (Busy \ {"write"}) \cup {"raised"}
            /\ Ticking(step'[a], step[a])
            /\ step[a].at = "write" =>
                 IF step'[a].at = "raised" THEN thread[a].at = "failed"
                 ELSE step[a].n > 0 => thread[a].at = "done"
            /\ ~\E up \in BOOLEAN : WriteObservation(a, up)
<1> DEFINE Went(r) == /\ step[a].at \in Busy \ {"answered"}
                      /\ r.at \in (Busy \ {"write"}) \cup {"raised"}
                      /\ Ticking(r, step[a])
                      /\ step[a].at = "write" =>
                           IF r.at = "raised" THEN thread[a].at = "failed"
                           ELSE step[a].n > 0 => thread[a].at = "done"
<1>1. ASSUME NEW r, step' = [step EXCEPT ![a] = r] PROVE step'[a] = r
  BY <1>1, OneRecord
<1>2. CASE Begin(a)
  <2> DEFINE r == [at |-> "write", serial |-> step[a].serial, n |-> 0, obs |-> pending[a],
                   self |-> agent[a], new |-> {}, shift |-> None]
  <2>1. step' = [step EXCEPT ![a] = r] /\ step[a].at = "due"
    BY <1>2 DEF Begin
  <2>2. r.at = "write" /\ r.serial = step[a].serial /\ r.n = 0 /\ r.new = {} /\ r.self = agent[a]
    OBVIOUS
  <2> HIDE DEF r
  <2> QED BY <1>1, <1>2, <2>1, <2>2
<1>3. ASSUME NEW up \in BOOLEAN, WriteObservation(a, up)
      PROVE  /\ step[a].at = "write" /\ step'[a].at = "write"
             /\ step'[a].serial = step[a].serial /\ step'[a].n = step[a].n + 1
             /\ step'[a].new = step[a].new \cup {FreshId(a, step[a].n)}
             /\ step'[a].self = step[a].self
  <2> DEFINE id == FreshId(a, step[a].n)
             n == step[a].n + 1
             new == step[a].new \cup {id}
             r == [step[a] EXCEPT !.n = n, !.new = new]
  <2>1. step' = [step EXCEPT ![a].n = step[a].n + 1, ![a].new = step[a].new \cup {id}]
        /\ step[a].at = "write"
    BY <1>3 DEF WriteObservation
  <2>2. step' = [step EXCEPT ![a] = r]
    BY <2>1
  <2> HIDE DEF id, n, new
  <2>3. r.at = step[a].at
    OBVIOUS
  <2>4. r.serial = step[a].serial
    OBVIOUS
  <2>5. r.n = n
    OBVIOUS
  <2>6. r.new = new
    OBVIOUS
  <2>7. r.self = step[a].self
    OBVIOUS
  <2> HIDE DEF r
  <2> QED BY <1>1, <2>1, <2>2, <2>3, <2>4, <2>5, <2>6, <2>7 DEF id, n, new
<1>4. ASSUME StoreRaised(a) PROVE Went(step'[a])
  <2> DEFINE r == [at |-> "raised", new |-> step[a].new]
  <2>1. /\ step' = [step EXCEPT ![a] = r] /\ step[a].at \in {"write", "mark", "rows", "vectors"}
        /\ thread[a].at = "failed"
    BY <1>4 DEF StoreRaised
  <2>2. r.at = "raised" /\ r.new = step[a].new
    OBVIOUS
  <2> HIDE DEF r
  <2>3. Went(r)
    BY <2>1, <2>2 DEF Busy, Ticking
  <2> QED BY <1>1, <2>1, <2>3
<1>5. ASSUME NEW up \in BOOLEAN, Feel(a, up) PROVE Went(step'[a])
  <2>1. /\ step[a].at = "write"
        /\ step[a].n > 0 => thread[a].at = "done"
        /\ \/ step' = [step EXCEPT ![a] = Prompted(Shifted(step[a]))]
           \/ \E query : step' = [step EXCEPT ![a] = Retrieving(Shifted(step[a]), "prompt", query)]
    BY <1>5 DEF Feel, Answered
  <2>2. Prompted(Shifted(step[a])).at = "chat"
    BY DEF Prompted
  <2>3. \A query : Retrieving(Shifted(step[a]), "prompt", query).at = "rows"
    BY DEF Retrieving
  <2>4. Ticking(Prompted(Shifted(step[a])), step[a])
    BY <2>2, RecordsTick, RecordsKeep DEF Ticking
  <2>5. ASSUME NEW query PROVE Ticking(Retrieving(Shifted(step[a]), "prompt", query), step[a])
    BY <2>3, RecordsTick, RecordsKeep DEF Ticking
  <2>6. ASSUME NEW r, step' = [step EXCEPT ![a] = r], r.at \in {"chat", "rows"},
               Ticking(r, step[a])
        PROVE  Went(step'[a])
    BY <1>1, <2>1, <2>6 DEF Busy
  <2> HIDE DEF Went
  <2> QED BY <2>1, <2>2, <2>3, <2>4, <2>5, <2>6
<1>6. ASSUME NEW r, step' = [step EXCEPT ![a] = r], step[a].at \in {"rows", "vectors", "mark"},
             r.at \in {"rows", "vectors", "mark", "chat"},
             r.new = step[a].new, r.self = step[a].self
      PROVE  Went(step'[a])
  BY <1>1, <1>6 DEF Busy, Ticking
<1> HIDE DEF Went
<1>7. ASSUME FetchVectors(a) PROVE Went(step'[a])
  <2> DEFINE r == [step[a] EXCEPT !.at = "vectors", !.rows = thread[a].out]
  <2>1. step' = [step EXCEPT ![a].at = "vectors", ![a].rows = thread[a].out] /\ step[a].at = "rows"
    BY <1>7 DEF FetchVectors
  <2>2. step' = [step EXCEPT ![a] = r]
    BY <2>1
  <2>3. r.at = "vectors"
    OBVIOUS
  <2>4. r.self = step[a].self
    OBVIOUS
  <2>5. r.new = step[a].new
    OBVIOUS
  <2> HIDE DEF r
  <2> QED BY <1>6, <2>1, <2>2, <2>3, <2>4, <2>5
<1>8. ASSUME NextScope(a) PROVE Went(step'[a])
  <2>1. PICK top : step' = [step EXCEPT ![a] = [@ EXCEPT !.at = "rows", !.world = TRUE,
                                                         !.rows = <<>>, !.top = top]]
    BY <1>8 DEF NextScope
  <2>2. step[a].at \in {"rows", "vectors"}
    BY <1>8 DEF NextScope, ScopeRanked
  <2> DEFINE r == [step[a] EXCEPT !.at = "rows", !.world = TRUE, !.rows = <<>>, !.top = top]
  <2>3. step' = [step EXCEPT ![a] = r]
    BY <2>1
  <2>4. r.at = "rows"
    OBVIOUS
  <2>5. r.self = step[a].self
    OBVIOUS
  <2>6. r.new = step[a].new
    OBVIOUS
  <2> HIDE DEF r
  <2> QED BY <1>6, <2>2, <2>3, <2>4, <2>5, <2>6
<1>9. ASSUME Mark(a) PROVE Went(step'[a])
  <2>1. step[a].at \in {"rows", "vectors"}
    BY <1>9 DEF Mark, ScopeRanked
  <2>2. \/ step' = [step EXCEPT ![a] = Prompted(step[a])]
        \/ \E top : step' = [step EXCEPT ![a] =
                               [Prompted(step[a]) EXCEPT !.at = "mark", !.top = top]]
    BY <1>9 DEF Mark
  <2>3. /\ Prompted(step[a]).at = "chat" /\ Prompted(step[a]).self = step[a].self
        /\ Prompted(step[a]).new = step[a].new
    BY RecordsKeep, RecordsTick DEF Prompted
  <2>4. ASSUME NEW p, NEW top PROVE [p EXCEPT !.at = "mark", !.top = top].self = p.self
    OBVIOUS
  <2>5. ASSUME NEW p, NEW top PROVE [p EXCEPT !.at = "mark", !.top = top].new = p.new
    OBVIOUS
  <2>6. ASSUME NEW top PROVE [Prompted(step[a]) EXCEPT !.at = "mark", !.top = top].at = "mark"
    BY DEF Prompted
  <2>7. CASE step' = [step EXCEPT ![a] = Prompted(step[a])]
    BY <1>6, <2>1, <2>3, <2>7
  <2>8. ASSUME NEW top, step' = [step EXCEPT ![a] =
                                   [Prompted(step[a]) EXCEPT !.at = "mark", !.top = top]]
        PROVE  Went(step'[a])
    <3> DEFINE p == Prompted(step[a])
               r == [p EXCEPT !.at = "mark", !.top = top]
    <3>1. step' = [step EXCEPT ![a] = r] /\ r.at = "mark"
      BY <2>6, <2>8
    <3>2. p.self = step[a].self /\ p.new = step[a].new
      BY <2>3
    <3> HIDE DEF p
    <3>3. r.self = p.self /\ r.new = p.new
      BY <2>4, <2>5
    <3> HIDE DEF r
    <3> QED BY <1>6, <2>1, <3>1, <3>2, <3>3
  <2> QED BY <2>2, <2>7, <2>8
<1>10. ASSUME Marked(a) PROVE Went(step'[a])
  <2> DEFINE r == [step[a] EXCEPT !.at = "chat"]
  <2>1. step' = [step EXCEPT ![a].at = "chat"] /\ step[a].at = "mark"
    BY <1>10 DEF Marked
  <2>2. step' = [step EXCEPT ![a] = r]
    BY <2>1
  <2>3. r.at = "chat"
    OBVIOUS
  <2>4. r.self = step[a].self
    OBVIOUS
  <2>5. r.new = step[a].new
    OBVIOUS
  <2> HIDE DEF r
  <2> QED BY <1>6, <2>1, <2>2, <2>3, <2>4, <2>5
<1>11. ASSUME ResolveMove(a) PROVE Went(step'[a])
  <2>1. step[a].at \in {"rows", "vectors"}
    BY <1>11 DEF ResolveMove, ScopeRanked
  <2>2. PICK move : step' = [step EXCEPT ![a] = Result(step[a], FALSE, move)]
    BY <1>11 DEF ResolveMove
  <2>3. Result(step[a], FALSE, move).at = "answered"
    BY DEF Result
  <2> DEFINE r == Result(step[a], FALSE, move)
  <2>4. r.new = step[a].new /\ r.self.tick = step[a].self.tick + 1
    <3>1. \A s, x, y : Result(s, x, y).new = s.new /\ Result(s, x, y).self.tick = s.self.tick + 1
      BY RecordsTick
    <3> QED BY <3>1
  <2> HIDE DEF r
  <2>5. r.at = "answered"
    BY <2>3 DEF r
  <2>6. Ticking(r, step[a])
    BY <2>4, <2>5 DEF Ticking
  <2> QED BY <1>1, <2>1, <2>2, <2>5, <2>6 DEF Busy, r, Went
<1> HIDE DEF Went
<1>12. ASSUME NEW up \in BOOLEAN, WriteObservation(a, up)
       PROVE  step'[a].at = "write"
  BY <1>3, <1>12
<1>13. ASSUME Went(step'[a])
       PROVE  /\ step[a].at \in Busy \ {"answered"}
              /\ step'[a].at \in (Busy \ {"write"}) \cup {"raised"}
              /\ Ticking(step'[a], step[a])
              /\ step[a].at = "write" =>
                   IF step'[a].at = "raised" THEN thread[a].at = "failed"
                   ELSE step[a].n > 0 => thread[a].at = "done"
              /\ ~\E up \in BOOLEAN : WriteObservation(a, up)
  BY <1>12, <1>13 DEF Went, Busy
<1> QED BY <1>2, <1>3, <1>4, <1>5, <1>7, <1>8, <1>9, <1>10, <1>11, <1>13 DEF StepNext

\* The chat writes nothing.
LEMMA ChatWrites ==
  ASSUME NEW a \in Agents, step = [b \in Agents |-> step[b]],
         LiveChat(a) \/ (a = LoopAgent /\ \E said, up : LoopChat(said, up))
  PROVE  /\ step[a].at = "chat" /\ step'[a].at \in {"answered", "raised", "rows"}
         /\ Ticking(step'[a], step[a])
         /\ UNCHANGED storeVars \/ Submit(a, ListByAgent(a, Pool))
<1>1. \/ Fallback(a)
      \/ \E zone : Plan(a, zone)
      \/ \E zone, up : PlanEcl(a, zone, up)
  BY DEF LiveChat, LoopChat
<1>2. step[a].at = "chat" /\ (UNCHANGED storeVars \/ Submit(a, ListByAgent(a, Pool)))
  BY <1>1 DEF Fallback, Plan, PlanEcl
<1>3. \/ \E fell, move : step' = [step EXCEPT ![a] = Result(step[a], fell, move)]
      \/ step' = [step EXCEPT ![a] = [at |-> "raised", new |-> step[a].new]]
      \/ \E zone : step' = [step EXCEPT ![a] =
           [Retrieving(step[a], "move", "forage") EXCEPT !.zone = zone]]
  BY <1>1 DEF Fallback, Plan, PlanEcl
<1>4. ASSUME NEW r, step' = [step EXCEPT ![a] = r], r.at \in {"answered", "raised", "rows"},
             Ticking(r, step[a])
      PROVE  step'[a].at \in {"answered", "raised", "rows"} /\ Ticking(step'[a], step[a])
  BY <1>4, OneRecord
<1>5. ASSUME NEW fell, NEW move, NEW r, r = Result(step[a], fell, move)
      PROVE  r.at = "answered" /\ Ticking(r, step[a])
  <2>1. Result(step[a], fell, move).at = "answered"
    BY DEF Result
  <2>2. /\ Result(step[a], fell, move).new = step[a].new
        /\ Result(step[a], fell, move).self.tick = step[a].self.tick + 1
    BY RecordsTick
  <2> QED BY <1>5, <2>1, <2>2 DEF Ticking
<1>6. ASSUME NEW r, r = [at |-> "raised", new |-> step[a].new]
      PROVE  r.at = "raised" /\ Ticking(r, step[a])
  BY <1>6 DEF Ticking
<1>7. ASSUME NEW zone, NEW r, r = [Retrieving(step[a], "move", "forage") EXCEPT !.zone = zone]
      PROVE  r.at = "rows" /\ Ticking(r, step[a])
  <2>1. r.at = "rows"
    BY <1>7 DEF Retrieving
  <2>2. r.self = step[a].self
    BY <1>7 DEF Retrieving
  <2>3. r.new = step[a].new
    BY <1>7 DEF Retrieving
  <2> QED BY <2>1, <2>2, <2>3 DEF Ticking
<1>8. ASSUME NEW fell, NEW move, step' = [step EXCEPT ![a] = Result(step[a], fell, move)]
      PROVE  step'[a].at \in {"answered", "raised", "rows"} /\ Ticking(step'[a], step[a])
  <2> DEFINE r == Result(step[a], fell, move)
  <2>1. step' = [step EXCEPT ![a] = r] /\ r.at = "answered" /\ Ticking(r, step[a])
    BY <1>5, <1>8
  <2> HIDE DEF r
  <2> QED BY <1>4, <2>1
<1>9. ASSUME step' = [step EXCEPT ![a] = [at |-> "raised", new |-> step[a].new]]
      PROVE  step'[a].at \in {"answered", "raised", "rows"} /\ Ticking(step'[a], step[a])
  <2> DEFINE r == [at |-> "raised", new |-> step[a].new]
  <2>1. step' = [step EXCEPT ![a] = r] /\ r.at = "raised" /\ Ticking(r, step[a])
    BY <1>6, <1>9
  <2> HIDE DEF r
  <2> QED BY <1>4, <2>1
<1>10. ASSUME NEW zone, step' = [step EXCEPT ![a] =
                          [Retrieving(step[a], "move", "forage") EXCEPT !.zone = zone]]
       PROVE  step'[a].at \in {"answered", "raised", "rows"} /\ Ticking(step'[a], step[a])
  <2> DEFINE r == [Retrieving(step[a], "move", "forage") EXCEPT !.zone = zone]
  <2>1. step' = [step EXCEPT ![a] = r] /\ r.at = "rows" /\ Ticking(r, step[a])
    BY <1>7, <1>10
  <2> HIDE DEF r
  <2> QED BY <1>4, <2>1
<1> QED BY <1>2, <1>3, <1>8, <1>9, <1>10

-----------------------------------------------------------------------------
\* The serial number of the steps of now.
Clock == IF ecl THEN agent[LoopAgent].tick ELSE world.round

\* The kth id of the sth step of b has been given and will not be given again.
Past(b, s, k) ==
  \/ s < Clock
  \/ /\ s = Clock /\ step[b].at # "due" /\ ~(ecl /\ step[b].at = "idle")
     /\ step[b].at = "write" => k < step[b].n
PastId(b, id) == \E s \in Nat, k \in Nat : id = <<b, s, k>> /\ Past(b, s, k)

\* The calls that were made.
Known == {thread[t].call : t \in {u \in Thread : thread[u].at # "idle"}}

\* What a step has written is there, but for its last write before it is answered.
Wrote(a) ==
  LET s == step[a] IN
  /\ s.at \in Busy \cup {"idle", "due", "raised"}
  /\ s.at = "idle" => s = Idle
  /\ s.at = "due" => s = [at |-> "due", serial |-> s.serial]
  /\ s.at \in {"due", "write"} => s.serial = Clock
  /\ s.at = "write" =>
       /\ s.n \in Nat
       /\ \A id \in s.new : \E k \in 0..(s.n - 1) :
            id = <<a, Clock, k>> /\ (id \in DOMAIN db.row \/ k = s.n - 1)
       /\ s.n > 0 => /\ thread[a].at # "idle" /\ thread[a].call.op = "add"
                     /\ thread[a].call.id = <<a, Clock, s.n - 1>>
  /\ s.at = "raised" =>
       \A id \in s.new : id \in DOMAIN db.row \/ \A i \in s.new : i[3] <= id[3]
  /\ s.at \in Busy \ {"write"} => s.new \subseteq DOMAIN db.row
  /\ ecl /\ s.at \in Busy =>
       s.self.tick = IF s.at = "answered" THEN agent[a].tick + 1 ELSE agent[a].tick

\* A call of the apparatus is none that deletes or replaces, and what it adds has
\* an id of its own.
Ours(t) ==
  thread[t].at # "idle" =>
    /\ thread[t].call.op \in {"add", "list", "vectors", "mark", "turn"}
    /\ thread[t].call.op = "add" =>
         /\ t \in Agents /\ PastId(t, thread[t].call.id)
         /\ thread[t].at = "done" => thread[t].call.id \in DOMAIN db.row

Written ==
  /\ Clock \in Nat
  /\ AllSound(Known)
  /\ \A t \in Thread : Ours(t)
  /\ \A id \in DOMAIN db.row : \E b \in Agents : PastId(b, id)
  /\ \A a \in Agents : Wrote(a)

\* The store alone, with the calls of a caller of its own.
AloneInv ==
  /\ AllSound(Calls)
  /\ \A t \in Thread : thread[t].at # "idle" => thread[t].call \in Calls
  /\ \A a \in Agents : step[a] = Idle

WholeInv ==
  StoreInv /\ WorldInv /\ IF world.handler = "alone" THEN AloneInv ELSE Written

\* An id stays given as long as the steps go on.
GoesOn(b) ==
  \/ Clock' > Clock
  \/ /\ Clock' = Clock
     /\ \/ step'[b] = step[b]
        \/ step[b].at = "due" \/ (ecl /\ step[b].at = "idle")
        \/ step'[b].at \notin {"due", "idle", "write"}
        \/ /\ step[b].at = "write" /\ step'[b].at = "write"
           /\ step[b].n \in Nat /\ step'[b].n \in Nat /\ step'[b].n >= step[b].n
        \/ ~ecl /\ step'[b].at = "idle"

\* A given id stays given.
LEMMA PastStays ==
  ASSUME Clock \in Nat, Clock' \in Nat, ecl' = ecl, NEW b \in Agents, GoesOn(b)
  PROVE  \A id : PastId(b, id) => PastId(b, id)'
<1> SUFFICES ASSUME NEW s \in Nat, NEW k \in Nat, Past(b, s, k) PROVE Past(b, s, k)'
  BY DEF PastId
<1> HIDE DEF Clock
<1> QED BY DEF Past, GoesOn

\* A step of the apparatus that leaves the store alone.
LEMMA QuietWritten ==
  ASSUME Written, thread' = thread, db' = db, ecl' = ecl, Clock' \in Nat,
         \A b \in Agents : GoesOn(b), \A a \in Agents : Wrote(a)'
  PROVE  Written'
<1>1. AllSound(Known)'
  BY DEF Written, Known, AllSound, Txn, Inside
<1>2. \A b \in Agents : \A id : PastId(b, id) => PastId(b, id)'
  BY PastStays DEF Written
<1>3. ASSUME NEW t \in Thread PROVE Ours(t)'
  BY <1>2 DEF Written, Ours
<1> QED BY <1>1, <1>2, <1>3 DEF Written

\* A new store, before any step.
FreshState ==
  /\ thread = [t \in Thread |-> Rest] /\ db = Empty
  /\ step = [a \in Agents |-> Idle] /\ Clock \in Nat

\* A new store is sound.
LEMMA FreshSound == FreshState => \A E : AllSound(E)
<1> SUFFICES ASSUME FreshState, NEW E PROVE AllSound(E)
  OBVIOUS
<1>1. \A t \in Thread : ~Inside(t)
  BY DEF FreshState, Inside, Rest, Outside
<1>2. DOMAIN Empty.row = {} /\ DOMAIN Empty.vec = {}
  BY DEF Empty
<1> QED BY <1>1, <1>2 DEF FreshState, AllSound, Sound, Txn

\* On a new store nothing is missing.
LEMMA FreshWritten == FreshState => Written
<1> SUFFICES ASSUME FreshState PROVE Written
  OBVIOUS
<1>1. \A t \in Thread : thread[t].at = "idle"
  BY DEF FreshState, Rest, Outside
<1>2. DOMAIN Empty.row = {}
  BY DEF Empty
<1>3. ASSUME NEW a \in Agents PROVE Wrote(a)
  BY DEF Wrote, FreshState, Idle, Busy
<1> QED BY <1>1, <1>2, <1>3, FreshSound DEF FreshState, Written, Ours

\* At first nothing was written.
LEMMA InitWhole == Init => WholeInv
<1> SUFFICES ASSUME Init PROVE WholeInv
  OBVIOUS
<1>1. StoreInv /\ WorldInv
  BY FreshStore, InitWorld DEF Init, StoreInit
<1>2. /\ thread = [t \in Thread |-> Rest] /\ db = Empty
      /\ step = [a \in Agents |-> Idle] /\ agent = [a \in Agents |-> NewAgent(a)]
  BY DEF Init, StoreInit, Fresh
<1>3. agent[LoopAgent].tick = 0
  <2>1. NewAgent(LoopAgent).tick = 0
    BY DEF NewAgent
  <2> QED BY <1>2, <2>1, ApparatusAssumption
<1>4. world.round \in Nat
  BY <1>1 DEF WorldInv, Worlds
<1>5. FreshState
  BY <1>2, <1>3, <1>4 DEF FreshState, Clock
<1>6. \A t \in Thread : thread[t].at = "idle"
  BY <1>2 DEF Rest, Outside
<1>7. AloneInv
  BY <1>2, <1>5, <1>6, FreshSound DEF AloneInv
<1> QED BY <1>1, <1>5, <1>7, FreshWritten DEF WholeInv

-----------------------------------------------------------------------------
\* What a step has written stays so, when its call goes on and rows come.
LEMMA StayWrote ==
  ASSUME NEW a \in Agents, Wrote(a), step'[a] = step[a], ecl' = ecl, Clock' = Clock,
         DOMAIN db.row \subseteq DOMAIN db'.row,
         thread[a].at # "idle" => thread'[a].at # "idle" /\ thread'[a].call = thread[a].call,
         ecl => agent'[a].tick = agent[a].tick
  PROVE  Wrote(a)'
<1> HIDE DEF Clock
<1> DEFINE s == step[a]
<1>0. step'[a] = s
  OBVIOUS
<1> HIDE DEF s
<1>1. /\ s.at \in Busy \cup {"idle", "due", "raised"}
      /\ s.at = "idle" => s = Idle
      /\ s.at = "due" => s = [at |-> "due", serial |-> s.serial]
      /\ s.at \in {"due", "write"} => s.serial = Clock'
  BY DEF Wrote, s
<1>2. s.at = "write" =>
       /\ s.n \in Nat
       /\ \A id \in s.new : \E k \in 0..(s.n - 1) :
            id = <<a, Clock', k>> /\ (id \in DOMAIN db'.row \/ k = s.n - 1)
       /\ s.n > 0 => /\ thread'[a].at # "idle" /\ thread'[a].call.op = "add"
                     /\ thread'[a].call.id = <<a, Clock', s.n - 1>>
  BY DEF Wrote, s
<1>3. /\ s.at = "raised" =>
           \A id \in s.new : id \in DOMAIN db'.row \/ \A i \in s.new : i[3] <= id[3]
      /\ s.at \in Busy \ {"write"} => s.new \subseteq DOMAIN db'.row
  BY DEF Wrote, s
<1>4. ecl' /\ s.at \in Busy =>
        s.self.tick = IF s.at = "answered" THEN agent'[a].tick + 1 ELSE agent'[a].tick
  BY DEF Wrote, s
<1> QED BY <1>0, <1>1, <1>2, <1>3, <1>4 DEF Wrote

\* A step that goes on has written everything, and one that gives up all but the
\* last.
LEMMA WentWrote ==
  ASSUME NEW a \in Agents, Wrote(a), Ours(a), a \in Thread,
         step[a].at \in Busy \ {"answered"}, step'[a].at \in (Busy \ {"write"}) \cup {"raised"},
         Ticking(step'[a], step[a]),
         step[a].at = "write" /\ step'[a].at # "raised" /\ step[a].n > 0 => thread[a].at = "done",
         db' = db, ecl' = ecl, agent' = agent, Clock \in Nat
  PROVE  Wrote(a)'
<1> DEFINE s == step[a]
           r == step'[a]
           rows == DOMAIN db.row
<1>1. /\ s.at \in Busy \ {"answered"} /\ r.at \in (Busy \ {"write"}) \cup {"raised"}
      /\ r.new = s.new
      /\ r.at = "raised" \/ r.self.tick = IF r.at = "answered" THEN s.self.tick + 1 ELSE s.self.tick
  BY DEF Ticking
<1> HIDE DEF Clock
<1>2. s.at = "write" =>
        /\ s.n \in Nat
        /\ \A id \in s.new : \E k \in 0..(s.n - 1) :
             id = <<a, Clock, k>> /\ (id \in rows \/ k = s.n - 1)
        /\ r.at # "raised" /\ s.n > 0 => <<a, Clock, s.n - 1>> \in rows
  BY DEF Wrote, Ours
<1>3. /\ s.at # "write" => s.new \subseteq rows
      /\ ecl => s.self.tick = agent[a].tick
  BY DEF Wrote, Busy
<1> HIDE DEF s, r, rows
<1>4. CASE r.at = "raised"
  <2>1. ASSUME NEW id \in s.new, id \notin rows, NEW i \in s.new PROVE i[3] <= id[3]
    <3>1. s.at = "write"
      BY <1>3, <2>1
    <3>2. id = <<a, Clock, s.n - 1>> /\ s.n \in Nat
      BY <1>2, <2>1, <3>1
    <3>3. PICK k \in 0..(s.n - 1) : i = <<a, Clock, k>>
      BY <1>2, <2>1, <3>1
    <3> QED BY <3>2, <3>3
  <2>2. \A id \in r.new : id \in rows \/ \A i \in r.new : i[3] <= id[3]
    BY <1>1, <2>1
  <2> QED BY <1>4, <2>2 DEF Wrote, Busy, r, rows
<1>5. CASE r.at \in Busy \ {"write"}
  <2>1. ASSUME NEW id \in s.new, s.at = "write" PROVE id \in rows
    <3>1. r.at # "raised"
      BY <1>5 DEF Busy
    <3>2. PICK k \in 0..(s.n - 1) : id = <<a, Clock, k>> /\ (id \in rows \/ k = s.n - 1)
      BY <1>2, <2>1
    <3>3. s.n \in Nat /\ (s.n > 0 => <<a, Clock, s.n - 1>> \in rows)
      BY <1>2, <2>1, <3>1
    <3> QED BY <3>2, <3>3
  <2>2. r.new \subseteq rows
    BY <1>1, <1>3, <2>1
  <2>3. ecl => r.self.tick = IF r.at = "answered" THEN agent[a].tick + 1 ELSE agent[a].tick
    BY <1>1, <1>3, <1>5 DEF Busy
  <2> QED BY <1>5, <2>2, <2>3 DEF Wrote, Busy, r, rows
<1> QED BY <1>1, <1>4, <1>5

\* A call of the apparatus that is handed to a thread: what it adds was never
\* given before.
LEMMA SubmitWritten ==
  ASSUME StoreInv, Written, NEW t \in Thread, NEW c, Submit(t, c),
         c.op \in {"add", "list", "vectors", "mark", "turn"},
         c.op = "add" => /\ t \in Agents /\ PastId(t, c.id)'
                         /\ ~\E b \in Agents : PastId(b, c.id),
         ecl' = ecl, Clock' \in Nat, \A b \in Agents : GoesOn(b), \A a \in Agents : Wrote(a)'
  PROVE  Written'
<1> HIDE DEF Clock
<1>1. PICK E : E = Known \cup {c}
  OBVIOUS
<1>2. AllSound(Known) /\ AllSound(Known \cup {c})
  <2>1. ASSUME c.op = "add" PROVE c.id \notin DOMAIN db.row
    BY <2>1 DEF Written
  <2>2. ASSUME c.op = "add", NEW u \in Thread, Inside(u)
        PROVE  c.id \notin DOMAIN thread[u].txn.row
    <3>1. /\ thread[u].at # "idle"
          /\ DOMAIN thread[u].txn.row \subseteq DOMAIN db.row \cup
               (IF thread[u].call.op \in {"add", "upsert"} THEN {thread[u].call.id} ELSE {})
      BY <2>2 DEF Written, AllSound, Txn, Midway, RowsMidway, Inside
    <3>2. thread[u].call.op \in {"add", "upsert"} => u \in Agents /\ PastId(u, thread[u].call.id)
      BY <3>1 DEF Written, Ours
    <3> QED BY <2>1, <2>2, <3>1, <3>2
  <2> HIDE DEF Known
  <2>3. AllSound(Known)
    BY DEF Written
  <2> QED BY <2>1, <2>2, <2>3, OneMoreSound
<1>3. /\ AllSound(E)' /\ db' = db
      /\ thread'[t].at = "queued" /\ thread'[t].call = c
      /\ \A u \in Thread : u # t => thread'[u] = thread[u]
  BY <1>1, <1>2, SubmitSound
<1>4. AllSound(Known)'
  <2>1. Known' \subseteq E
    BY <1>1, <1>3 DEF Known
  <2> HIDE DEF Known
  <2> QED BY <1>3, <2>1 DEF AllSound, Sound, Txn, Midway, VecsMidway
<1>5. \A b \in Agents : \A id : PastId(b, id) => PastId(b, id)'
  BY PastStays DEF Written
<1>6. ASSUME NEW u \in Thread PROVE Ours(u)'
  <2>1. CASE u = t
    BY <1>3, <2>1 DEF Ours
  <2>2. CASE u # t
    <3>1. thread'[u] = thread[u] /\ Ours(u)
      BY <1>3, <2>2 DEF Written
    <3> QED BY <1>3, <1>5, <3>1 DEF Ours
  <2> QED BY <2>1, <2>2
<1>7. \A id \in DOMAIN db'.row : \E b \in Agents : PastId(b, id)'
  BY <1>3, <1>5 DEF Written
<1> QED BY <1>4, <1>6, <1>7 DEF Written

\* A thread goes on: it writes what it was called with, or nothing.
LEMMA ThreadWritten ==
  ASSUME StoreInv, Written, NEW t \in Thread, ThreadNext(t) \/ Error(t),
         step' = step, ecl' = ecl, agent' = agent, world' = world
  PROVE  Written'
<1>0. Clock' = Clock
  BY DEF Clock
<1>00. Clock \in Nat
  BY DEF Written
<1> HIDE DEF Clock
<1>1. PICK E : E = Known
  OBVIOUS
<1>2. thread[t].at \in {"queued", "inside"}
  BY DEF ThreadNext, Enter, Execute, Leave, Error
<1>3. /\ thread[t].call.op \in {"add", "list", "vectors", "mark", "turn"}
      /\ thread[t].call.op = "add" => t \in Agents /\ PastId(t, thread[t].call.id)
  BY <1>2 DEF Written, Ours
<1>4. OwnId(thread[t].call, E)
  <2> SUFFICES ASSUME NEW e \in E, e.op = "add", thread[t].call.op = "add",
                      thread[t].call.id = e.id
               PROVE  thread[t].call = e
    BY <1>3 DEF OwnId
  <2>1. PICK u \in Thread : thread[u].at # "idle" /\ e = thread[u].call
    BY <1>1 DEF Known
  <2>2. u \in Agents /\ PastId(u, e.id)
    BY <2>1 DEF Written, Ours
  <2>3. PastId(t, e.id)
    BY <1>3
  <2>4. u = t
    BY <2>2, <2>3 DEF PastId
  <2> QED BY <2>1, <2>4
<1>5. AllSound(E)
  BY <1>1 DEF Written
<1>6. /\ AllSound(E)'
      /\ thread'[t].call = thread[t].call
      /\ thread'[t].at \in {"inside", "done", "failed"}
      /\ \A u \in Thread : u # t => thread'[u] = thread[u]
      /\ thread[t].call.op # "evict" => DOMAIN db.row \subseteq DOMAIN db'.row
      /\ thread'[t].at = "done" /\ thread[t].call.op = "add" =>
           thread[t].call.id \in DOMAIN db'.row
      /\ DOMAIN db'.row \subseteq
           DOMAIN db.row \cup (IF thread[t].call.op \in {"add", "upsert"}
                               THEN {thread[t].call.id} ELSE {})
  BY <1>4, <1>5, ThreadSound
<1>7. DOMAIN db.row \subseteq DOMAIN db'.row
  BY <1>3, <1>6
<1>8. AllSound(Known)'
  <2>1. Known' \subseteq E
    BY <1>1, <1>2, <1>6 DEF Known
  <2> HIDE DEF Known
  <2> QED BY <1>6, <2>1 DEF AllSound, Sound, Txn, Midway, VecsMidway
<1>9. \A b \in Agents : \A id : PastId(b, id) <=> PastId(b, id)'
  BY <1>0 DEF PastId, Past
<1>10. ASSUME NEW u \in Thread PROVE Ours(u)'
  <2>1. CASE u = t
    BY <1>3, <1>6, <1>9, <2>1 DEF Ours
  <2>2. CASE u # t
    <3>1. thread'[u] = thread[u] /\ Ours(u)
      BY <1>6, <2>2 DEF Written
    <3> QED BY <1>7, <1>9, <3>1 DEF Ours
  <2> QED BY <2>1, <2>2
<1>11. \A id \in DOMAIN db'.row : \E b \in Agents : PastId(b, id)'
  BY <1>3, <1>6, <1>9 DEF Written
<1>12. ASSUME NEW a \in Agents PROVE Wrote(a)'
  <2>1. thread[a].at # "idle" => thread'[a].at # "idle" /\ thread'[a].call = thread[a].call
    BY <1>6, StepAssumption
  <2>2. Wrote(a)
    BY DEF Written
  <2> QED BY <1>0, <1>7, <2>1, <2>2, StayWrote
<1> QED BY <1>0, <1>00, <1>8, <1>10, <1>11, <1>12 DEF Written

\* The agents that do not step have written what they have.
LEMMA OthersWrote ==
  ASSUME NEW a \in Agents, Written, ecl' = ecl, Clock' = Clock, agent' = agent, db' = db,
         \A b \in Agents : b # a => step'[b] = step[b],
         \A b \in Agents : b # a => thread'[b] = thread[b]
  PROVE  \A b \in Agents : b # a => Wrote(b)' /\ GoesOn(b)
<1> SUFFICES ASSUME NEW b \in Agents, b # a PROVE Wrote(b)' /\ GoesOn(b)
  OBVIOUS
<1>1. Wrote(b) /\ step'[b] = step[b] /\ thread'[b] = thread[b]
  BY DEF Written
<1> HIDE DEF Clock
<1>2. Wrote(b)'
  BY <1>1, StayWrote
<1> QED BY <1>1, <1>2 DEF GoesOn

\* A step or the chat goes on, and reads or marks at most.
LEMMA WentWritten ==
  ASSUME StoreInv, WorldInv, Written, NEW a \in Agents,
         step[a].at \in Busy \ {"answered"}, step'[a].at \in (Busy \ {"write"}) \cup {"raised"},
         Ticking(step'[a], step[a]),
         step[a].at = "write" /\ step'[a].at # "raised" /\ step[a].n > 0 => thread[a].at = "done",
         \A b \in Agents : b # a => step'[b] = step[b],
         ecl' = ecl, agent' = agent, world' = world,
         \/ UNCHANGED storeVars
         \/ \E c : Submit(a, c) /\ c.op \in {"list", "vectors", "mark"}
  PROVE  Written'
<1>1. Clock' = Clock /\ Clock \in Nat /\ Wrote(a) /\ a \in Thread /\ Ours(a)
  BY StepAssumption DEF Clock, Written
<1> HIDE DEF Clock
<1>2. db' = db /\ \A b \in Agents : b # a => thread'[b] = thread[b]
  BY StepAssumption, <1>1 DEF storeVars, Submit, StoreInv
<1>3. Wrote(a)'
  BY <1>1, <1>2, WentWrote
<1>4. GoesOn(a)
  BY <1>1 DEF GoesOn, Busy
<1>5. \A b \in Agents : Wrote(b)' /\ GoesOn(b)
  BY <1>1, <1>2, <1>3, <1>4, OthersWrote
<1>6. CASE UNCHANGED storeVars
  BY <1>1, <1>2, <1>5, <1>6, QuietWritten DEF storeVars
<1>7. ASSUME NEW c, Submit(a, c), c.op \in {"list", "vectors", "mark"} PROVE Written'
  <2>1. c.op \in {"add", "list", "vectors", "mark", "turn"} /\ c.op # "add"
    BY <1>7
  <2> QED BY <1>1, <1>5, <1>7, <2>1, SubmitWritten
<1> QED BY <1>6, <1>7

\* What moves no step, no call and no clock.
LEMMA StillWritten ==
  ASSUME Written, step' = step, thread' = thread, db' = db, ecl' = ecl, Clock' = Clock,
         ecl => \A a \in Agents : agent'[a].tick = agent[a].tick
  PROVE  Written'
<1>1. Clock \in Nat
  BY DEF Written
<1> HIDE DEF Clock
<1>2. ASSUME NEW a \in Agents PROVE Wrote(a)' /\ GoesOn(a)
  <2>1. Wrote(a)
    BY DEF Written
  <2>2. Wrote(a)'
    BY <2>1, StayWrote
  <2> QED BY <2>2 DEF GoesOn
<1> QED BY <1>1, <1>2, QuietWritten

\* The physics moves bodies.
LEMMA PhysicsTicks ==
  ASSUME NEW there, NEW apart, Physics(there, apart)
  PROVE  \A a \in Agents : agent'[a].tick = agent[a].tick
<1>1. agent' = [a \in Agents |-> [agent[a] EXCEPT !.body = apart[a]]]
  BY DEF Physics
<1>2. ASSUME NEW s, NEW v PROVE [s EXCEPT !.body = v].tick = s.tick
  OBVIOUS
<1>3. ASSUME NEW a \in Agents PROVE agent'[a].tick = agent[a].tick
  <2> DEFINE r == [agent[a] EXCEPT !.body = apart[a]]
  <2>1. agent'[a] = r
    BY <1>1
  <2>2. r.tick = agent[a].tick
    BY <1>2
  <2> HIDE DEF r
  <2> QED BY <2>1, <2>2
<1> QED BY <1>3

\* The handlers of the live world: a new round gives new serial numbers.
LEMMA HandlersWritten ==
  ASSUME StoreInv, WorldInv, Written,
         \/ LivePhysics \/ StartHandler \/ Consume \/ TurnStored \/ TurnBonds \/ NoDialog \/ Stop
         \/ CloseStore \/ \E a \in Agents, ev \in Observable : Inject(a, ev)
  PROVE  Written'
<1>1. ~ecl /\ ecl' = ecl /\ world \in Worlds /\ Clock = world.round /\ Clock' = world'.round
  BY DEF WorldInv, Clock, LivePhysics, StartHandler, Consume, TurnStored, TurnBonds, NoDialog, Stop,
    CloseStore, Inject, stepVars
<1>2. Clock \in Nat
  BY DEF Written
<1>3. \A h : [world EXCEPT !.handler = h].round = world.round
  OBVIOUS
<1>11. \A h, n : [world EXCEPT !.handler = h, !.turns = n].round = world.round
  OBVIOUS
<1>12. \A n : [world EXCEPT !.physics = n].round = world.round
  OBVIOUS
<1>13. \A n : [world EXCEPT !.injected = n].round = world.round
  OBVIOUS
<1>4. CASE LivePhysics
  <2>1. /\ step' = step /\ thread' = thread /\ db' = db
        /\ world' = [world EXCEPT !.physics = world.physics + 1]
    BY <1>4 DEF LivePhysics, storeVars
  <2>2. Clock' = Clock
    BY <1>1, <1>3, <1>11, <1>12, <1>13, <2>1
  <2> HIDE DEF Clock
  <2> QED BY <1>1, <2>1, <2>2, StillWritten
<1>5. CASE TurnBonds \/ NoDialog
  <2>1. /\ step' = step /\ thread' = thread /\ db' = db
        /\ \/ world' = [world EXCEPT !.handler = "idle", !.turns = world.turns + 1]
           \/ world' = [world EXCEPT !.handler = "idle"]
    BY <1>5 DEF TurnBonds, NoDialog, storeVars, stepVars
  <2>3. world'.round = world.round
    <3> DEFINE n == world.turns + 1
    <3>1. \/ world' = [world EXCEPT !.handler = "idle", !.turns = n]
          \/ world' = [world EXCEPT !.handler = "idle"]
      BY <2>1
    <3> HIDE DEF n
    <3>2. CASE world' = [world EXCEPT !.handler = "idle", !.turns = n]
      BY <3>2, <1>11
    <3> QED BY <3>1, <3>2, <1>3
  <2>2. Clock' = Clock
    BY <1>1, <2>3
  <2> HIDE DEF Clock
  <2> QED BY <1>1, <2>1, <2>2, StillWritten
<1>6. CASE CloseStore
  <2>1. step' = step /\ thread' = thread /\ db' = db /\ world' = world
    BY <1>6 DEF CloseStore, Close, CloseUnderLock, stepVars
  <2>2. Clock' = Clock
    BY <1>1, <2>1
  <2> HIDE DEF Clock
  <2> QED BY <1>1, <2>1, <2>2, StillWritten
<1>7. ASSUME NEW a \in Agents, NEW ev \in Observable, Inject(a, ev) PROVE Written'
  <2>1. /\ step' = step /\ thread' = thread /\ db' = db
        /\ world' = [world EXCEPT !.injected = world.injected + 1]
    BY <1>7 DEF Inject, storeVars
  <2>2. Clock' = Clock
    BY <1>1, <1>3, <1>11, <1>12, <1>13, <2>1
  <2> HIDE DEF Clock
  <2> QED BY <1>1, <2>1, <2>2, StillWritten
<1>8. CASE Consume \/ Stop
  <2>1. /\ \A a \in Agents : step'[a] = Idle
        /\ thread' = thread /\ db' = db
        /\ \E h : world' = [world EXCEPT !.handler = h]
    BY <1>8 DEF Consume, Stop, ConsumeResults, storeVars
  <2>2. Clock' = Clock
    BY <1>1, <1>3, <1>11, <1>12, <1>13, <2>1
  <2> HIDE DEF Clock
  <2>3. Idle.at = "idle"
    BY DEF Idle
  <2>4. ASSUME NEW a \in Agents PROVE Wrote(a)' /\ GoesOn(a)
    BY <1>1, <2>1, <2>2, <2>3 DEF Wrote, GoesOn, Busy
  <2> QED BY <1>1, <1>2, <2>1, <2>2, <2>4, QuietWritten
<1>9. CASE StartHandler
  <2>1. /\ step' = [a \in Agents |-> [at |-> "due", serial |-> world.round + 1]]
        /\ thread' = thread /\ db' = db
        /\ world' = [world EXCEPT !.handler = "steps", !.round = world.round + 1, !.physics = 0]
    BY <1>9 DEF StartHandler, storeVars
  <2>2. world'.round = world.round + 1
    BY <1>1, <2>1, Zenon DEF Worlds
  <2>3. Clock' = Clock + 1 /\ Clock' \in Nat /\ Clock' > Clock
    BY <1>1, <1>2, <2>2
  <2>4. Clock' = world.round + 1
    BY <1>1, <2>2
  <2> HIDE DEF Clock
  <2> DEFINE r == [at |-> "due", serial |-> world.round + 1]
  <2>5. r.at = "due" /\ r.serial = Clock' /\ r = [at |-> "due", serial |-> r.serial]
    BY <2>4
  <2>6. \A a \in Agents : step'[a] = r
    BY <2>1
  <2> HIDE DEF r
  <2>7. ASSUME NEW a \in Agents PROVE Wrote(a)' /\ GoesOn(a)
    BY <2>3, <2>5, <2>6 DEF Wrote, GoesOn, Busy
  <2> QED BY <1>1, <2>1, <2>3, <2>7, QuietWritten
<1>10. CASE TurnStored
  <2> DEFINE c == AddDialogTurn(<<"dialog", world.turns>>, world.round)
  <2>1. /\ Submit(LoopThread, c) /\ step' = step /\ agent' = agent
        /\ world' = [world EXCEPT !.handler = "turn"]
    BY <1>10 DEF TurnStored, stepVars
  <2>2. Clock' = Clock
    BY <1>1, <1>3, <1>11, <1>12, <1>13, <2>1
  <2> HIDE DEF Clock
  <2>3. c.op = "turn"
    BY DEF AddDialogTurn
  <2> HIDE DEF c
  <2>4. c.op \in {"add", "list", "vectors", "mark", "turn"} /\ c.op # "add"
    BY <2>3
  <2>5. db' = db /\ \A a \in Agents : thread'[a] = thread[a]
    BY <2>1, StepAssumption, ApparatusAssumption DEF Submit, StoreInv
  <2>6. ASSUME NEW a \in Agents PROVE Wrote(a)' /\ GoesOn(a)
    <3>1. Wrote(a)
      BY DEF Written
    <3>2. Wrote(a)'
      BY <1>1, <2>1, <2>2, <2>5, <3>1, StayWrote
    <3> QED BY <2>1, <2>2, <3>2 DEF GoesOn
  <2>7. LoopThread \in Thread
    BY ApparatusAssumption
  <2> QED BY <1>1, <1>2, <2>1, <2>2, <2>4, <2>6, <2>7, SubmitWritten
<1> QED BY <1>4, <1>5, <1>6, <1>7, <1>8, <1>9, <1>10

\* The ticks of the loop: a tick that has written its result back gives new
\* serial numbers.
LEMMA LoopWritten ==
  ASSUME StoreInv, WorldInv, Written,
         LoopBegin \/ Exhausted \/ LoopConsume \/ LoopPhysics \/ LoopEnd
  PROVE  Written'
<1>1. /\ ecl /\ ecl' = ecl /\ thread' = thread /\ db' = db
      /\ Clock = agent[LoopAgent].tick /\ Clock' = agent'[LoopAgent].tick
  <2>1. loop.end # "none" /\ ecl' = ecl /\ thread' = thread /\ db' = db
    BY DEF LoopBegin, Exhausted, LoopConsume, LoopPhysics, LoopEnd, Looping, storeVars, stepVars
  <2> QED BY <2>1 DEF WorldInv, Clock
<1>2. Clock \in Nat /\ LoopAgent \in Agents
  BY ApparatusAssumption DEF Written
<1>3. CASE Exhausted \/ LoopEnd \/ (LoopConsume /\ step' = step /\ agent' = agent)
  <2>1. step' = step /\ agent' = agent
    BY <1>3 DEF Exhausted, LoopEnd, stepVars
  <2>2. Clock' = Clock
    BY <1>1, <2>1
  <2> HIDE DEF Clock
  <2> QED BY <1>1, <2>1, <2>2, StillWritten
<1>4. CASE LoopPhysics
  <2>1. step' = step /\ Physics(There, Apart(There))
    BY <1>4 DEF LoopPhysics
  <2>2. \A a \in Agents : agent'[a].tick = agent[a].tick
    BY <2>1, PhysicsTicks
  <2>3. Clock' = Clock
    BY <1>1, <1>2, <2>2
  <2> HIDE DEF Clock
  <2> QED BY <1>1, <2>1, <2>2, <2>3, StillWritten
<1>5. CASE LoopBegin
  <2> DEFINE r == [at |-> "due", serial |-> agent[LoopAgent].tick]
  <2>1. /\ step' = [step EXCEPT ![LoopAgent] = r] /\ agent' = agent
        /\ step[LoopAgent].at = "idle"
    BY <1>5 DEF LoopBegin
  <2>2. Clock' = Clock
    BY <1>1, <2>1
  <2>3. r.at = "due" /\ r.serial = Clock' /\ r = [at |-> "due", serial |-> r.serial]
    BY <1>1, <2>2
  <2> HIDE DEF Clock, r
  <2>4. step'[LoopAgent] = r /\ \A b \in Agents : b # LoopAgent => step'[b] = step[b]
    BY <1>2, <2>1 DEF WorldInv
  <2>5. ASSUME NEW a \in Agents PROVE Wrote(a)' /\ GoesOn(a)
    <3>1. CASE a = LoopAgent
      BY <1>1, <2>1, <2>2, <2>3, <2>4, <3>1 DEF Wrote, GoesOn, Busy
    <3>2. CASE a # LoopAgent
      <4>1. Wrote(a) /\ step'[a] = step[a]
        BY <2>4, <3>2 DEF Written
      <4>2. Wrote(a)'
        BY <1>1, <2>1, <2>2, <4>1, StayWrote
      <4> QED BY <2>2, <4>1, <4>2 DEF GoesOn
    <3> QED BY <3>1, <3>2
  <2> QED BY <1>1, <1>2, <2>2, <2>5, QuietWritten
<1>6. CASE LoopConsume /\ ~(step' = step /\ agent' = agent)
  <2>1. /\ Finished(LoopAgent) /\ step[LoopAgent].at # "raised" /\ ConsumeResults({LoopAgent})
    BY <1>6 DEF LoopConsume
  <2>2. /\ step[LoopAgent].at = "answered"
        /\ agent'[LoopAgent] = step[LoopAgent].self
        /\ step'[LoopAgent] = Idle
        /\ \A a \in Agents : a # LoopAgent => step'[a] = step[a]
    BY <1>2, <2>1 DEF ConsumeResults, Finished, Consumed
  <2>3. step[LoopAgent].self.tick = agent[LoopAgent].tick + 1
    BY <1>1, <1>2, <2>2 DEF Written, Wrote, Busy
  <2>4. Clock' = Clock + 1
    BY <1>1, <2>2, <2>3
  <2> HIDE DEF Clock
  <2>5. \A a \in Agents : a # LoopAgent => step[a].at = "idle"
    BY <1>1 DEF WorldInv
  <2>6. Idle.at = "idle"
    BY DEF Idle
  <2>7. ASSUME NEW a \in Agents PROVE step'[a] = Idle
    BY <2>2, <2>5 DEF Written, Wrote
  <2>8. Clock' \in Nat /\ Clock' > Clock
    BY <1>2, <2>4
  <2>9. ASSUME NEW a \in Agents PROVE Wrote(a)' /\ GoesOn(a)
    BY <2>6, <2>7, <2>8 DEF Wrote, GoesOn, Busy
  <2> QED BY <1>1, <2>8, <2>9, QuietWritten
<1> QED BY <1>3, <1>4, <1>5, <1>6

\* A replay begins with a new store and at tick 0.
LEMMA ReplayWritten ==
  ASSUME WorldInv, Written, Replay
  PROVE  Written'
<1>1. /\ ecl /\ ecl' = ecl /\ step' = step /\ db' = Empty
      /\ thread' = [t \in Thread |-> Rest] /\ agent' = [a \in Agents |-> NewAgent(a)]
      /\ loop.tick = loop.demand
  BY DEF Replay, Looping, WorldInv
<1>2. agent'[LoopAgent].tick = 0
  <2>1. NewAgent(LoopAgent).tick = 0
    BY DEF NewAgent
  <2> QED BY <1>1, <2>1, ApparatusAssumption
<1>3. step = [a \in Agents |-> Idle]
  <2>1. \A a \in Agents : step[a] = Idle
    BY <1>1 DEF WorldInv, Written, Wrote
  <2> QED BY <2>1 DEF WorldInv
<1>4. FreshState'
  BY <1>1, <1>2, <1>3 DEF FreshState, Clock
<1>5. FreshState' => Written'
  BY FreshWritten, PTL
<1> QED BY <1>4, <1>5

\* A step begins, adds a memory with an id of its own, or goes on.
LEMMA StepWritten ==
  ASSUME StoreInv, WorldInv, Written, NEW a \in Agents, StepOf(a)
  PROVE  Written'
<1>1. StepNext(a) /\ world' = world
  BY DEF StepOf
<1>2. ecl' = ecl /\ agent' = agent
  BY ZenonT(60), <1>1 DEF StepNext, Begin, StoreRaised, WriteObservation, Feel, FetchVectors, NextScope,
    Mark, Marked, ResolveMove
<1>3. step = [b \in Agents |-> step[b]]
  BY DEF WorldInv
<1>4. \A b \in Agents : b # a => step'[b] = step[b]
  BY <1>1, <1>3, StepHolds
<1>5. /\ Clock' = Clock /\ Clock \in Nat /\ Wrote(a) /\ Ours(a) /\ a \in Thread
  BY <1>1, <1>2, StepAssumption DEF Clock, Written
<1> HIDE DEF Clock
<1>6. CASE /\ Begin(a) /\ step[a].at = "due"
           /\ step'[a].at = "write" /\ step'[a].serial = step[a].serial
           /\ step'[a].n = 0 /\ step'[a].new = {} /\ step'[a].self = agent[a]
  <2>1. thread' = thread /\ db' = db
    BY <1>6 DEF Begin, storeVars
  <2>2. Wrote(a)' /\ GoesOn(a)
    BY <1>2, <1>5, <1>6 DEF Wrote, GoesOn, Busy
  <2>3. \A b \in Agents : Wrote(b)' /\ GoesOn(b)
    BY <1>2, <1>4, <1>5, <2>1, <2>2, OthersWrote
  <2> QED BY <1>2, <1>5, <2>1, <2>3, QuietWritten
<1>7. CASE /\ \E up \in BOOLEAN : WriteObservation(a, up)
           /\ step[a].at = "write" /\ step'[a].at = "write"
           /\ step'[a].serial = step[a].serial /\ step'[a].n = step[a].n + 1
           /\ step'[a].new = step[a].new \cup {FreshId(a, step[a].n)}
           /\ step'[a].self = step[a].self
  <2> DEFINE n == step[a].n
             id == <<a, Clock, n>>
  <2>1. n \in Nat /\ FreshId(a, n) = id
    BY <1>5, <1>7 DEF Wrote, FreshId
  <2>2. PICK c : Submit(a, c) /\ c.op = "add" /\ c.id = id
    <3>1. PICK r, v : Submit(a, Add(FreshId(a, n), r, v))
      BY <1>7 DEF WriteObservation
    <3>2. Add(FreshId(a, n), r, v).op = "add" /\ Add(FreshId(a, n), r, v).id = FreshId(a, n)
      BY DEF Add
    <3> QED BY <2>1, <3>1, <3>2
  <2>3. n > 0 => thread[a].at = "done"
    BY <1>7 DEF WriteObservation, Answered
  <2>4. /\ \A i \in step[a].new : \E k \in 0..(n - 1) :
             i = <<a, Clock, k>> /\ (i \in DOMAIN db.row \/ k = n - 1)
        /\ n > 0 => <<a, Clock, n - 1>> \in DOMAIN db.row
    BY <1>5, <1>7, <2>3 DEF Wrote, Ours
  <2>5. /\ db' = db /\ thread'[a].at = "queued" /\ thread'[a].call = c
        /\ \A u \in Thread : u # a => thread'[u] = thread[u]
    <3>1. \A E : AllSound(E) /\ StoreInv /\ Submit(a, c) =>
            /\ db' = db /\ thread'[a].at = "queued" /\ thread'[a].call = c
            /\ \A u \in Thread : u # a => thread'[u] = thread[u]
      BY <1>5, SubmitSound
    <3>2. AllSound(Known)
      BY DEF Written
    <3> QED BY <2>2, <3>1, <3>2
  <2>6. /\ step'[a].n = n + 1 /\ step'[a].new = step[a].new \cup {id}
        /\ step[a].serial = Clock /\ step[a].n = n
        /\ ecl => step[a].self.tick = agent[a].tick
    BY <1>5, <1>7, <2>1 DEF Wrote, Busy
  <2> HIDE DEF n
  <2>7. ASSUME NEW i \in step'[a].new
        PROVE  \E k \in 0..(n + 1 - 1) :
                 i = <<a, Clock', k>> /\ (i \in DOMAIN db'.row \/ k = n + 1 - 1)
    <3>1. CASE i = id
      BY <1>5, <2>1, <3>1
    <3>2. CASE i # id
      <4>1. PICK k \in 0..(n - 1) : i = <<a, Clock, k>> /\ (i \in DOMAIN db.row \/ k = n - 1)
        BY <2>4, <2>6, <2>7, <3>2
      <4>2. k \in 0..(n + 1 - 1) /\ (k = n - 1 => n > 0)
        BY <2>1, <4>1
      <4>3. i \in DOMAIN db'.row
        BY <2>4, <2>5, <4>1, <4>2
      <4> QED BY <1>5, <4>1, <4>2, <4>3
    <3> QED BY <3>1, <3>2
  <2>8. n + 1 \in Nat /\ n + 1 - 1 = n
    BY <2>1
  <2>9. Wrote(a)'
    <3>1. /\ step'[a].at = "write" /\ step'[a].serial = Clock' /\ step'[a].n \in Nat
          /\ ecl' => step'[a].self.tick = agent'[a].tick
      BY <1>2, <1>5, <1>7, <2>6, <2>8
    <3>2. \A i \in step'[a].new : \E k \in 0..(step'[a].n - 1) :
            i = <<a, Clock', k>> /\ (i \in DOMAIN db'.row \/ k = step'[a].n - 1)
      <4>1. ASSUME NEW i \in step'[a].new
            PROVE  \E k \in 0..(step'[a].n - 1) :
                     i = <<a, Clock', k>> /\ (i \in DOMAIN db'.row \/ k = step'[a].n - 1)
        <5>1. PICK k \in 0..(n + 1 - 1) :
                i = <<a, Clock', k>> /\ (i \in DOMAIN db'.row \/ k = n + 1 - 1)
          BY <2>7
        <5>2. step'[a].n - 1 = n + 1 - 1
          BY <2>1, <2>6
        <5> QED BY <5>1, <5>2
      <4> QED BY <4>1
    <3>4. step'[a].n - 1 = n
      BY <2>1, <2>6, <2>8
    <3>3. /\ thread'[a].at # "idle" /\ thread'[a].call.op = "add"
          /\ thread'[a].call.id = <<a, Clock', step'[a].n - 1>>
      BY <1>5, <2>2, <2>5, <3>4
    <3> QED BY <3>1, <3>2, <3>3 DEF Wrote, Busy
  <2>10. GoesOn(a)
    BY <1>5, <1>7, <2>1, <2>6, <2>8 DEF GoesOn
  <2>11. \A b \in Agents : b # a => thread'[b] = thread[b]
    BY <2>5, StepAssumption
  <2>12. \A b \in Agents : Wrote(b)' /\ GoesOn(b)
    BY <1>2, <1>4, <1>5, <2>5, <2>9, <2>10, <2>11, OthersWrote
  <2>13. PastId(a, c.id)'
    BY <1>2, <1>5, <1>7, <2>1, <2>2, <2>6, <2>8 DEF PastId, Past
  <2>14. ~\E b \in Agents : PastId(b, c.id)
    BY <1>7, <2>1, <2>2, <2>6 DEF PastId, Past
  <2>15. c.op \in {"add", "list", "vectors", "mark", "turn"} /\ Clock' \in Nat
    BY <1>5, <2>2
  <2> QED BY <1>2, <1>5, <2>2, <2>12, <2>13, <2>14, <2>15, SubmitWritten
<1>8. CASE /\ step[a].at \in Busy \ {"answered"}
           /\ step'[a].at \in (Busy \ {"write"}) \cup {"raised"}
           /\ Ticking(step'[a], step[a])
           /\ step[a].at = "write" =>
                IF step'[a].at = "raised" THEN thread[a].at = "failed"
                ELSE step[a].n > 0 => thread[a].at = "done"
           /\ ~\E up \in BOOLEAN : WriteObservation(a, up)
  <2>1. \/ UNCHANGED storeVars
        \/ \E c : Submit(a, c) /\ c.op \in {"list", "vectors", "mark"}
    BY <1>1, <1>8, CognitionSubmits
  <2> QED BY <1>1, <1>2, <1>4, <1>8, <2>1, WentWritten
<1> QED BY <1>1, <1>3, <1>6, <1>7, <1>8, StepWrites

\* An answer of the model writes nothing.
LEMMA ChatWritten ==
  ASSUME StoreInv, WorldInv, Written, NEW a \in Agents,
         LiveChat(a) \/ (a = LoopAgent /\ \E said, up : LoopChat(said, up))
  PROVE  Written'
<1>1. step = [b \in Agents |-> step[b]]
  BY DEF WorldInv
<1>2. /\ world' = world
      /\ Fallback(a) \/ \E zone : Plan(a, zone) \/ \E up : PlanEcl(a, zone, up)
  BY DEF LiveChat, LoopChat
<1>3. ecl' = ecl /\ agent' = agent
  BY <1>2 DEF Fallback, Plan, PlanEcl
<1>4. \A b \in Agents : b # a => step'[b] = step[b]
  BY <1>1, <1>2, ChatHolds
<1>5. /\ step[a].at = "chat" /\ step'[a].at \in {"answered", "raised", "rows"}
      /\ Ticking(step'[a], step[a])
      /\ UNCHANGED storeVars \/ Submit(a, ListByAgent(a, Pool))
  BY <1>1, ChatWrites
<1>6. ListByAgent(a, Pool).op = "list"
  BY DEF ListByAgent
<1>7. /\ step[a].at \in Busy \ {"answered"} /\ step[a].at # "write"
      /\ step'[a].at \in (Busy \ {"write"}) \cup {"raised"}
  BY <1>5 DEF Busy
<1>8. \/ UNCHANGED storeVars
      \/ \E c : Submit(a, c) /\ c.op \in {"list", "vectors", "mark"}
  BY <1>5, <1>6
<1> QED BY <1>2, <1>3, <1>4, <1>5, <1>7, <1>8, WentWritten

\* The store alone: nobody steps, and every call is one of Calls.
LEMMA AloneStays ==
  ASSUME StoreInv, AloneInv,
         \/ \E t \in Agents, c \in Calls : Submit(t, c) /\ step' = step
         \/ (Close \/ CloseUnderLock) /\ step' = step
         \/ \E t \in Thread : (ThreadNext(t) \/ Error(t)) /\ step' = step
         \/ UNCHANGED <<thread, db, step>>
  PROVE  AloneInv'
<1>1. PICK E : E = Calls
  OBVIOUS
<1>2. AllSound(E)
  BY <1>1 DEF AloneInv
<1>3. ASSUME NEW t \in Agents, NEW c \in Calls, Submit(t, c), step' = step PROVE AloneInv'
  <2>1. t \in Thread
    BY StepAssumption
  <2>2. /\ AllSound(E)' /\ thread'[t].call = c
        /\ \A u \in Thread : u # t => thread'[u] = thread[u]
    BY <1>2, <1>3, <2>1, SubmitSound
  <2>3. AllSound(Calls)'
    BY <1>1, <2>2
  <2> QED BY <1>3, <2>2, <2>3 DEF AloneInv
<1>4. CASE UNCHANGED <<thread, db, step>>
  <2>1. AllSound(Calls)'
    BY <1>4 DEF AloneInv, AllSound, Txn, Inside
  <2> QED BY <1>4, <2>1 DEF AloneInv
<1>5. CASE (Close \/ CloseUnderLock) /\ step' = step
  BY <1>4, <1>5 DEF Close, CloseUnderLock
<1>6. ASSUME NEW t \in Thread, ThreadNext(t) \/ Error(t), step' = step PROVE AloneInv'
  <2>1. thread[t].at # "idle"
    BY <1>6 DEF ThreadNext, Enter, Execute, Leave, Error
  <2>2. thread[t].call \in Calls
    BY <2>1 DEF AloneInv
  <2>3. OwnId(thread[t].call, E)
    BY <1>1, <2>2, ApparatusAssumption DEF OwnId
  <2>4. /\ AllSound(E)' /\ thread'[t].call = thread[t].call
        /\ \A u \in Thread : u # t => thread'[u] = thread[u]
    BY <1>2, <1>6, <2>3, ThreadSound
  <2>5. AllSound(Calls)'
    BY <1>1, <2>4
  <2> QED BY <1>6, <2>2, <2>4, <2>5 DEF AloneInv
<1> QED BY <1>3, <1>4, <1>5, <1>6

\* Nobody comes to use the store alone, and nobody else to use it then.
LEMMA AloneOrNot ==
  ASSUME WorldInv, [Next]_vars
  PROVE  /\ world'.handler = "alone" <=> world.handler = "alone"
         /\ world.handler = "alone" =>
              \/ Alone \/ UNCHANGED vars
              \/ \E t \in Thread : InStore(t) \/ StoreError(t)
<1>1. world \in Worlds /\ (ecl => world.handler = "none") /\ (Looping => ecl)
  BY DEF WorldInv, Looping
<1>2. ASSUME NEW h, NEW v, NEW w, NEW u
      PROVE  /\ [u EXCEPT !.physics = v].handler = u.handler
             /\ [u EXCEPT !.injected = v].handler = u.handler
  OBVIOUS
<1>3. \A h : [world EXCEPT !.handler = h].handler = h
  BY <1>1 DEF Worlds
<1>4. CASE LivePhysics
  <2>1. world.handler = "idle" /\ world' = [world EXCEPT !.physics = world.physics + 1]
    BY <1>4 DEF LivePhysics
  <2>2. world'.handler = world.handler
    BY <2>1
  <2> QED BY <2>1, <2>2
<1>5. CASE StartHandler
  <2>1. /\ world.handler = "idle"
        /\ world' = [world EXCEPT !.handler = "steps", !.round = world.round + 1, !.physics = 0]
    BY <1>5 DEF StartHandler
  <2>2. world'.handler = "steps"
    BY <1>1, <2>1, Zenon DEF Worlds
  <2> QED BY <2>1, <2>2
<1>6. CASE Consume \/ TurnStored \/ NoDialog \/ Stop
  <2>1. /\ world.handler # "alone"
        /\ \E h \in {"dialog", "turn", "idle", "stopped"} : world' = [world EXCEPT !.handler = h]
    BY <1>6 DEF Consume, TurnStored, NoDialog, Stop
  <2> QED BY <1>3, <2>1
<1>7. CASE TurnBonds
  <2>1. /\ world.handler = "turn"
        /\ \/ world' = [world EXCEPT !.handler = "idle", !.turns = world.turns + 1]
           \/ world' = [world EXCEPT !.handler = "idle"]
    BY <1>7 DEF TurnBonds
  <2>2. world'.handler = "idle"
    <3>1. CASE world' = [world EXCEPT !.handler = "idle", !.turns = world.turns + 1]
      BY <1>1, <3>1, Zenon DEF Worlds
    <3> QED BY <1>3, <2>1, <3>1
  <2> QED BY <2>1, <2>2
<1>8. CASE CloseStore
  BY <1>8 DEF CloseStore
<1>9. CASE Alone \/ UNCHANGED vars \/ \E t \in Thread : InStore(t) \/ StoreError(t)
  <2>1. world' = world
    BY <1>9 DEF Alone, vars, InStore, StoreError
  <2> QED BY <1>9, <2>1
<1>10. ASSUME NEW a \in Agents, NEW ev \in Observable, Inject(a, ev)
       PROVE  world.handler # "alone" /\ world'.handler = world.handler
  <2>1. /\ world.handler \in {"idle", "steps"}
        /\ world' = [world EXCEPT !.injected = world.injected + 1]
    BY <1>10 DEF Inject
  <2>2. world'.handler = world.handler
    BY <2>1
  <2> QED BY <2>1, <2>2
<1>11. ASSUME NEW a \in Agents, LiveChat(a) \/ StepOf(a)
       PROVE  world.handler # "alone" /\ world' = world
  BY <1>1, <1>11 DEF LiveChat, StepOf
<1>12. ASSUME Loop PROVE world.handler # "alone" /\ world' = world
  BY <1>1, <1>12 DEF Loop, LoopBegin, Exhausted, LoopConsume, LoopPhysics, Replay, LoopEnd, LoopChat
<1> QED BY <1>4, <1>5, <1>6, <1>7, <1>8, <1>9, <1>10, <1>11, <1>12 DEF Next, Live

\* Every step keeps the writes whole.
LEMMA NextWhole == WholeInv /\ [Next]_vars => WholeInv'
<1> SUFFICES ASSUME WholeInv, [Next]_vars PROVE WholeInv'
  OBVIOUS
<1>1. StoreInv /\ WorldInv
  BY DEF WholeInv
<1>2. StoreInv' /\ WorldInv'
  BY <1>1, NextIsStoreStep, StoreStepKeeps, NextKeepsWorld
<1>3. CASE world.handler = "alone"
  <2>1. /\ world'.handler = "alone"
        /\ \/ Alone \/ UNCHANGED vars
           \/ \E t \in Thread : InStore(t) \/ StoreError(t)
    BY <1>1, <1>3, AloneOrNot
  <2>2. \/ \E t \in Agents, c \in Calls : Submit(t, c) /\ step' = step
        \/ (Close \/ CloseUnderLock) /\ step' = step
        \/ \E t \in Thread : (ThreadNext(t) \/ Error(t)) /\ step' = step
        \/ UNCHANGED <<thread, db, step>>
    BY <2>1 DEF Alone, InStore, StoreError, vars, storeVars, stepVars
  <2>3. AloneInv
    BY <1>3 DEF WholeInv
  <2>4. AloneInv'
    BY <1>1, <2>2, <2>3, AloneStays
  <2> QED BY <1>2, <2>1, <2>4 DEF WholeInv
<1>4. CASE world.handler # "alone"
  <2>1. world'.handler # "alone" /\ Written
    BY <1>1, <1>4, AloneOrNot DEF WholeInv
  <2>2. ASSUME \/ LivePhysics \/ StartHandler \/ Consume \/ TurnStored \/ TurnBonds \/ NoDialog
               \/ Stop \/ CloseStore \/ \E a \in Agents, ev \in Observable : Inject(a, ev)
        PROVE  Written'
    BY <1>1, <2>1, <2>2, HandlersWritten
  <2>3. ASSUME LoopBegin \/ Exhausted \/ LoopConsume \/ LoopPhysics \/ LoopEnd PROVE Written'
    BY <1>1, <2>1, <2>3, LoopWritten
  <2>4. ASSUME Replay PROVE Written'
    BY <1>1, <2>1, <2>4, ReplayWritten
  <2>5. ASSUME NEW a \in Agents, StepOf(a) PROVE Written'
    BY <1>1, <2>1, <2>5, StepWritten
  <2>6. ASSUME NEW a \in Agents, LiveChat(a) PROVE Written'
    BY <1>1, <2>1, <2>6, ChatWritten
  <2>7. ASSUME \E said, up : LoopChat(said, up) PROVE Written'
    <3>1. LoopAgent \in Agents
      BY ApparatusAssumption
    <3> QED BY <1>1, <2>1, <2>7, <3>1, ChatWritten
  <2>8. ASSUME NEW t \in Thread, InStore(t) \/ StoreError(t) PROVE Written'
    <3>1. /\ ThreadNext(t) \/ Error(t)
          /\ step' = step /\ ecl' = ecl /\ agent' = agent /\ world' = world
      BY <2>8 DEF InStore, StoreError, stepVars
    <3> QED BY <1>1, <2>1, <3>1, ThreadWritten
  <2>9. ASSUME UNCHANGED vars PROVE Written'
    <3>1. /\ step' = step /\ thread' = thread /\ db' = db /\ ecl' = ecl /\ agent' = agent
          /\ world' = world
      BY <2>9 DEF vars, storeVars, stepVars
    <3>2. Clock' = Clock
      BY <3>1 DEF Clock
    <3> HIDE DEF Clock
    <3> QED BY <2>1, <3>1, <3>2, StillWritten
  <2>10. ~Alone
    BY <1>4 DEF Alone
  <2>11. Written'
    BY <2>2, <2>3, <2>4, <2>5, <2>6, <2>7, <2>8, <2>9, <2>10 DEF Next, Live, Loop
  <2> QED BY <1>2, <2>1, <2>11 DEF WholeInv
<1> QED BY <1>3, <1>4

\* What was written is there as a whole.
LEMMA WholeMeansWritten == WholeInv => WritesAreWhole
<1> SUFFICES ASSUME WholeInv PROVE WritesAreWhole
  OBVIOUS
<1>1. PICK E : /\ AllSound(E)
               /\ \A t \in Thread : thread[t].at # "idle" => thread[t].call \in E
  BY DEF WholeInv, AloneInv, Written, Known
<1>2. VectorsHaveRows
  BY <1>1 DEF VectorsHaveRows, AllSound, Sound
<1>3. ASSUME NEW a \in Agents, thread[a].at \in {"done", "failed"}, thread[a].call.op = "add",
             thread[a].call.id \in DOMAIN db.row
      PROVE  HasVec(db, thread[a].call)
  <2>1. thread[a].call \in E
    BY <1>1, <1>3, StepAssumption
  <2> QED BY <1>1, <1>3, <2>1 DEF AllSound, Sound
<1>4. ASSUME NEW a \in Agents, "new" \in DOMAIN step[a], NEW id \in step[a].new,
             id \notin DOMAIN db.row
      PROVE  step[a].at \in {"write", "raised"} /\ \A i \in step[a].new : i[3] <= id[3]
  <2>1. "new" \notin DOMAIN Idle
    BY DEF Idle
  <2>2. Wrote(a)
    BY <1>4, <2>1 DEF WholeInv, AloneInv, Written
  <2>3. \A r, v : r = [at |-> "due", serial |-> v] => "new" \notin DOMAIN r
    OBVIOUS
  <2>4. step[a].at \notin {"idle", "due"}
    BY <1>4, <2>1, <2>2, <2>3 DEF Wrote
  <2>5. step[a].at \in {"write", "raised"}
    BY <1>4, <2>2, <2>4 DEF Wrote
  <2>6. ASSUME step[a].at = "write", NEW i \in step[a].new PROVE i[3] <= id[3]
    <3> HIDE DEF Clock
    <3> DEFINE n == step[a].n
    <3>1. /\ n \in Nat /\ \E k \in 0..(n - 1) : id = <<a, Clock, k>> /\ k = n - 1
          /\ \E k \in 0..(n - 1) : i = <<a, Clock, k>>
      BY <1>4, <2>2, <2>6 DEF Wrote
    <3> HIDE DEF n
    <3> QED BY <3>1
  <2>7. ASSUME step[a].at = "raised", NEW i \in step[a].new PROVE i[3] <= id[3]
    BY <1>4, <2>2, <2>7 DEF Wrote
  <2> QED BY <2>5, <2>6, <2>7
<1> QED BY <1>2, <1>3, <1>4 DEF WritesAreWhole, HasVec

\* What a step has written stays written, each memory with the vector it was
\* given and no vector without its memory, but for the last write of a step that
\* may be on its way: whatever other steps, failing statements, cancellations and
\* the end of the store come between (store.py:405-500).
THEOREM NothingIsHalfWritten == Spec => []WritesAreWhole
<1>1. Init => WholeInv
  BY InitWhole
<1>2. WholeInv /\ [Next]_vars => WholeInv'
  BY NextWhole
<1>3. WholeInv => WritesAreWhole
  BY WholeMeansWritten
<1> QED BY <1>1, <1>2, <1>3, PTL DEF Spec

-----------------------------------------------------------------------------
\* The reasons of the mode shifts. First the two loops they come from.

\* Every set of natural numbers that is not empty has a smallest.
LEMMA SmallestNat ==
  ASSUME NEW T \in SUBSET Nat, T # {}
  PROVE  \E x \in T : \A y \in T : x <= y
<1> DEFINE U == {0..n : n \in T}
<1>1. U \subseteq FiniteSubsetsOf(Nat)
  <2>1. \A n \in T : (0..n) \subseteq Nat OBVIOUS
  <2>2. \A n \in T : IsFiniteSet(0..n) BY FS_Interval
  <2> QED BY <2>1, <2>2 DEF FiniteSubsetsOf
<1>2. U # {}
  OBVIOUS
<1>3. PICK s \in U : \A y \in U : ~(<<y, s>> \in StrictSubsetOrdering(Nat))
  <2> HIDE DEF U
  <2> QED BY <1>1, <1>2, FS_StrictSubsetOrderingWellFounded, WFMin
<1>4. PICK x \in T : s = 0..x
  OBVIOUS
<1>5. ASSUME NEW y \in T, ~(x <= y) PROVE FALSE
  <2>1. (0..y) \in SUBSET Nat /\ (0..x) \in SUBSET Nat /\ (0..y) \subseteq (0..x)
        /\ x \in 0..x /\ x \notin 0..y
    BY <1>5
  <2>2. <<0..y, 0..x>> \in StrictSubsetOrdering(Nat)
    BY <2>1 DEF StrictSubsetOrdering
  <2> QED BY <1>3, <1>4, <2>2
<1> QED BY <1>5

\* A value of S that is carried along a sequence of n, each time by what stands
\* there: the loops over zones and observations. Some function carries it, so
\* their recursive definitions name one.
StepsOf(G, n, S) == G \in [(1..n) \X S -> S]
Carries(f, G, n, S, b) ==
  f \in [0..n -> S] /\ f[0] = b /\ \A i \in 1..n : f[i] = G[<<i, f[i - 1]>>]

\* There is a function that carries a value along the steps.
LEMMA CarriedAlong ==
  ASSUME NEW n \in Nat, NEW S, NEW b \in S, NEW G, StepsOf(G, n, S)
  PROVE  \E f : Carries(f, G, n, S, b)
<1> DEFINE T == {k \in 0..n : ~\E f : Carries(f, G, k, S, b)}
<1>1. SUFFICES ASSUME T # {} PROVE FALSE
  OBVIOUS
<1>2. PICK k \in T : \A j \in T : k <= j
  <2>1. T \in SUBSET Nat
    OBVIOUS
  <2> HIDE DEF T
  <2> QED BY <1>1, <2>1, SmallestNat
<1>3. k # 0
  <2> DEFINE f == [i \in 0..0 |-> b]
  <2>1. Carries(f, G, 0, S, b)
    BY DEF Carries
  <2> HIDE DEF f
  <2> QED BY <2>1
<1>4. k \in 1..n
  BY <1>3
<1>5. PICK f : Carries(f, G, k - 1, S, b)
  <2>1. k - 1 \in 0..n /\ ~(k <= k - 1)
    BY <1>4
  <2> QED BY <1>2, <2>1
<1> DEFINE x == G[<<k, f[k - 1]>>]
           g == [i \in 0..k |-> IF i = k THEN x ELSE f[i]]
<1>6. x \in S
  <2>1. f[k - 1] \in S
    BY <1>4, <1>5 DEF Carries
  <2> QED BY <1>4, <2>1 DEF StepsOf
<1> HIDE DEF x
<1>7. Carries(g, G, k, S, b)
  <2>1. g \in [0..k -> S] /\ g[0] = b
    BY <1>4, <1>5, <1>6 DEF Carries
  <2>2. ASSUME NEW i \in 1..k PROVE g[i] = G[<<i, g[i - 1]>>]
    <3>1. i - 1 \in 0..(k - 1) /\ g[i - 1] = f[i - 1]
      BY <1>4, <2>2
    <3>2. CASE i = k
      <4>1. g[k] = x
        BY <1>4
      <4> HIDE DEF g
      <4> QED BY <3>1, <3>2, <4>1 DEF x
    <3>3. CASE i # k
      BY <1>4, <1>5, <3>1, <3>3 DEF Carries
    <3> QED BY <3>2, <3>3
  <2> HIDE DEF g
  <2> QED BY <2>1, <2>2 DEF Carries
<1> HIDE DEF g
<1> QED BY <1>7

\* The nearest of the zones is a zone (locate_zone).
LEMMA LocatedIsZone == ASSUME NEW x, Zones # {} PROVE LocateZone(x) \in Zones
<1> DEFINE n == Len(ZoneOrder)
           Nearer(i, k) == ~(Distance(x, Centre[ZoneOrder[i]]) < Distance(x, Centre[ZoneOrder[k]]))
           Looks(f) == f = [i \in 1..n |-> IF i > 1 /\ Nearer(i, f[i - 1]) THEN f[i - 1] ELSE i]
           best == CHOOSE f : Looks(f)
<1>1. LocateZone(x) = ZoneOrder[best[n]]
  BY DEF LocateZone
<1>2. n \in Nat /\ n # 0 /\ DOMAIN ZoneOrder = 1..n
  BY BodyAssumption DEF Zones, Range
<1> HIDE DEF n, Nearer
<1>3. PICK f : Looks(f)
  <2> DEFINE S == 1..n
             G == [p \in (1..n) \X S |-> IF p[1] > 1 /\ Nearer(p[1], p[2]) THEN p[2] ELSE p[1]]
  <2>1. StepsOf(G, n, S) /\ 1 \in S
    BY <1>2 DEF StepsOf
  <2>2. \A i \in 1..n, k \in S : G[<<i, k>>] = IF i > 1 /\ Nearer(i, k) THEN k ELSE i
    OBVIOUS
  <2> HIDE DEF G, S
  <2>3. PICK f : Carries(f, G, n, S, 1)
    <3> HIDE DEF best, Looks
    <3> QED BY <1>2, <2>1, CarriedAlong
  <2> DEFINE g == [i \in 1..n |-> f[i]]
  <2>4. ASSUME NEW i \in 1..n
        PROVE  g[i] = IF i > 1 /\ Nearer(i, g[i - 1]) THEN g[i - 1] ELSE i
    <3>1. i - 1 \in 0..n /\ f[i - 1] \in S
      BY <1>2, <2>3 DEF Carries
    <3>2. g[i] = IF i > 1 /\ Nearer(i, f[i - 1]) THEN f[i - 1] ELSE i
      BY <2>2, <2>3, <3>1 DEF Carries
    <3>3. i > 1 => g[i - 1] = f[i - 1]
      BY <1>2
    <3> QED BY <3>2, <3>3
  <2> HIDE DEF g
  <2>5. g = [i \in 1..n |-> g[i]]
    BY DEF g
  <2>6. Looks(g)
    BY <2>4, <2>5
  <2> HIDE DEF Looks
  <2> QED BY <2>6
<1>4. Looks(best)
  <2> HIDE DEF Looks
  <2> QED BY <1>3
<1> HIDE DEF best
<1>5. \A i \in 1..n : best[i] = IF i > 1 /\ Nearer(i, best[i - 1]) THEN best[i - 1] ELSE i
  BY <1>4
<1> HIDE DEF Looks
<1> DEFINE T == {i \in 1..n : best[i] \notin 1..n}
<1>6. T = {}
  <2> SUFFICES ASSUME T # {} PROVE FALSE
    OBVIOUS
  <2>1. PICK i \in T : \A j \in T : i <= j
    <3>1. T \in SUBSET Nat
      OBVIOUS
    <3> HIDE DEF T
    <3> QED BY <3>1, SmallestNat
  <2>2. i \in 1..n /\ best[i] = best[i - 1] /\ i > 1
    BY <1>2, <1>5, <2>1
  <2>3. i - 1 \in 1..n /\ i - 1 \in T
    BY <1>2, <2>1, <2>2
  <2> QED BY <2>1, <2>2, <2>3
<1>7. best[n] \in 1..n
  BY <1>2, <1>6
<1> QED BY <1>1, <1>2, <1>7 DEF Zones, Range

\* A set of indices has a last one.
LEMMA LastOf ==
  ASSUME NEW n \in Nat, NEW D \in SUBSET (1..n), D # {}
  PROVE  Max(D) \in D /\ \A i \in D : i <= Max(D)
<1> DEFINE T == {n - i : i \in D}
<1>1. T \in SUBSET Nat /\ T # {}
  <2>1. \A i \in D : i \in 1..n
    OBVIOUS
  <2>2. \A i \in D : n - i \in Nat
    BY <2>1
  <2> QED BY <2>2
<1>2. PICK x \in T : \A y \in T : x <= y
  <2> HIDE DEF T
  <2> QED BY <1>1, SmallestNat
<1>3. PICK m \in D : x = n - m
  OBVIOUS
<1>4. ASSUME NEW i \in D PROVE m >= i
  <2>1. n - m <= n - i
    BY <1>2, <1>3
  <2>2. i \in 1..n /\ m \in 1..n
    OBVIOUS
  <2> HIDE DEF T
  <2> QED BY <2>1, <2>2
<1>5. Max(D) \in D /\ \A i \in D : Max(D) >= i
  BY <1>4 DEF Max
<1> QED BY <1>5

\* The observations that ask for a mode.
Asking(obs) == {i \in DOMAIN obs : Candidate(obs[i]) # None}

\* The fold over the observations ends with the mode the last one that asks for
\* one asks for (next_mode).
LEMMA LatestWins ==
  ASSUME NEW current, NEW obs, Len(obs) \in Nat, DOMAIN obs = 1..Len(obs)
  PROVE  NextMode(current, obs) = IF Asking(obs) = {} THEN current
                                  ELSE Candidate(obs[Max(Asking(obs))])
<1> DEFINE n == Len(obs)
           c(i) == Candidate(obs[i])
           Folds(f) == f = [i \in 0..n |-> IF i = 0 THEN current
                                           ELSE IF c(i) = None THEN f[i - 1] ELSE c(i)]
           mode == CHOOSE f : Folds(f)
<1>1. NextMode(current, obs) = mode[n]
  BY DEF NextMode
<1>2. n \in Nat /\ DOMAIN obs = 1..n
  OBVIOUS
<1>3. Asking(obs) = {i \in 1..n : c(i) # None}
  BY DEF Asking
<1> HIDE DEF n, c
<1>4. PICK f : Folds(f)
  <2> DEFINE S == {current} \cup {c(i) : i \in 1..n}
             G == [p \in (1..n) \X S |-> IF c(p[1]) = None THEN p[2] ELSE c(p[1])]
  <2>1. StepsOf(G, n, S) /\ current \in S
    BY DEF StepsOf
  <2>2. \A i \in 1..n, m \in S : G[<<i, m>>] = IF c(i) = None THEN m ELSE c(i)
    OBVIOUS
  <2> HIDE DEF G, S
  <2>3. PICK f : Carries(f, G, n, S, current)
    <3> HIDE DEF mode, Folds
    <3> QED BY <1>2, <2>1, CarriedAlong
  <2>4. ASSUME NEW i \in 0..n
        PROVE  f[i] = IF i = 0 THEN current ELSE IF c(i) = None THEN f[i - 1] ELSE c(i)
    <3>1. CASE i = 0
      BY <2>3, <3>1 DEF Carries
    <3>2. CASE i # 0
      <4>1. i \in 1..n /\ i - 1 \in 0..n
        BY <1>2, <3>2
      <4>2. f[i - 1] \in S
        BY <2>3, <4>1 DEF Carries
      <4> QED BY <2>2, <2>3, <3>2, <4>1, <4>2 DEF Carries
    <3> QED BY <3>1, <3>2
  <2>5. f = [i \in 0..n |-> f[i]]
    BY <2>3 DEF Carries
  <2>6. Folds(f)
    BY <2>4, <2>5
  <2> HIDE DEF Folds
  <2> QED BY <2>6
<1>5. Folds(mode)
  <2> HIDE DEF Folds
  <2> QED BY <1>4
<1> HIDE DEF mode
<1>6. \A i \in 0..n : mode[i] = IF i = 0 THEN current
                                ELSE IF c(i) = None THEN mode[i - 1] ELSE c(i)
  BY <1>5
<1> HIDE DEF Folds
<1>7. ASSUME NEW m \in 0..n, \A i \in (m + 1)..n : c(i) = None
      PROVE  mode[n] = mode[m]
  <2> DEFINE T == {i \in m..n : mode[i] # mode[m]}
  <2> SUFFICES ASSUME T # {} PROVE FALSE
    BY <1>2
  <2>1. PICK i \in T : \A j \in T : i <= j
    <3>1. T \in SUBSET Nat
      BY <1>2
    <3> HIDE DEF T
    <3> QED BY <3>1, SmallestNat
  <2>2. i \in (m + 1)..n /\ i \in 0..n /\ i - 1 \in m..n /\ i # 0
    BY <1>2, <2>1
  <2>3. c(i) = None
    BY <1>7, <2>2
  <2>4. mode[i] = mode[i - 1]
    BY <1>6, <2>2, <2>3
  <2>5. mode[i - 1] = mode[m]
    BY <2>1, <2>2
  <2> QED BY <2>1, <2>4, <2>5
<1>8. CASE Asking(obs) = {}
  <2>1. \A i \in (0 + 1)..n : c(i) = None
    BY <1>3, <1>8
  <2>2. mode[n] = mode[0] /\ mode[0] = current
    BY <1>2, <1>6, <1>7, <2>1
  <2> QED BY <1>1, <1>8, <2>2
<1>9. CASE Asking(obs) # {}
  <2> DEFINE D == Asking(obs)
  <2>1. D \in SUBSET (1..n) /\ D # {}
    BY <1>3, <1>9
  <2> HIDE DEF D
  <2>2. PICK m \in D : Max(D) = m /\ \A i \in D : i <= m
    BY <1>2, <2>1, LastOf
  <2>3. m \in 1..n /\ m \in 0..n /\ c(m) # None
    BY <1>2, <1>3, <2>1, <2>2 DEF D
  <2>4. ASSUME NEW i \in (m + 1)..n PROVE c(i) = None
    <3>1. i \in 1..n /\ ~(i <= m)
      BY <2>3, <2>4
    <3> QED BY <1>3, <2>2, <3>1 DEF D
  <2>5. mode[n] = mode[m] /\ mode[m] = c(m)
    BY <1>6, <1>7, <2>3, <2>4
  <2>6. Candidate(obs[Max(Asking(obs))]) = c(m)
    BY <2>2 DEF c, D
  <2> QED BY <1>1, <1>9, <2>5, <2>6
<1> QED BY <1>8, <1>9

-----------------------------------------------------------------------------
\* The FSM follows every observation the rule of the reasons looks at.
Followed(ev) == ev.kind \in {"zone", "internal", "shift"} => Candidate(ev) # None
AllFollowed(q) == AnySeq(q) /\ \A i \in DOMAIN q : Followed(q[i])

\* It does so of what comes from outside: internal events are the recognised
\* ones, and a mode shift that is injected is none the caller has already made.
GivenIsFollowed == \A ev \in Given : Followed(ev)

\* What is followed may be put after what is followed.
LEMMA FollowedConcat ==
  ASSUME NEW q, AllFollowed(q), NEW s, AllFollowed(s)
  PROVE  AllFollowed(q \o s)
<1>1. PICK S : q \in Seq(S)
  BY DEF AllFollowed, AnySeq
<1>2. PICK T : s \in Seq(T)
  BY DEF AllFollowed, AnySeq
<1> DEFINE U == S \cup T
           p == q \o s
           n == Len(q)
           m == Len(s)
<1>3. q \in Seq(U) /\ s \in Seq(U)
  BY <1>1, <1>2
<1>4. /\ p \in Seq(U) /\ n \in Nat /\ m \in Nat /\ Len(p) = n + m
      /\ \A i \in 1..n : p[i] = q[i]
      /\ \A i \in 1..m : p[n + i] = s[i]
      /\ DOMAIN p = 1..(n + m) /\ DOMAIN q = 1..n /\ DOMAIN s = 1..m
  BY <1>3
<1> HIDE DEF p, n, m, U
<1>5. ASSUME NEW i \in 1..(n + m) PROVE Followed(p[i])
  <2>1. CASE i \in 1..n
    BY <1>4, <2>1 DEF AllFollowed
  <2>2. CASE i \notin 1..n
    <3>1. i - n \in 1..m /\ n + (i - n) = i
      BY <1>4, <2>2
    <3>2. p[i] = s[i - n]
      BY <1>4, <3>1
    <3> QED BY <1>4, <3>1, <3>2 DEF AllFollowed
  <2> QED BY <2>1, <2>2
<1> QED BY <1>4, <1>5 DEF AllFollowed, AnySeq, p

\* Nothing at all is followed, and so is one observation by itself.
LEMMA FollowedShort ==
  /\ AllFollowed(<<>>)
  /\ \A ev : Followed(ev) => AllFollowed(<<ev>>)
<1>1. AllFollowed(<<>>)
  <2>1. <<>> \in Seq({}) /\ DOMAIN <<>> = {}
    OBVIOUS
  <2> QED BY <2>1 DEF AllFollowed, AnySeq
<1>2. ASSUME NEW ev, Followed(ev) PROVE AllFollowed(<<ev>>)
  <2>1. <<ev>> \in Seq({ev}) /\ DOMAIN <<ev>> = {1} /\ <<ev>>[1] = ev
    OBVIOUS
  <2> HIDE DEF Followed
  <2> QED BY <1>2, <2>1 DEF AllFollowed, AnySeq
<1> QED BY <1>1, <1>2

\* One more observation at the end of what waits.
LEMMA FollowedAppend ==
  ASSUME NEW q, AllFollowed(q), NEW ev, Followed(ev)
  PROVE  AllFollowed(Append(q, ev))
<1>1. AllFollowed(q \o <<ev>>)
  BY FollowedConcat, FollowedShort
<1>2. q \o <<ev>> = Append(q, ev)
  BY NoneOrOne DEF AllFollowed
<1> QED BY <1>1, <1>2

\* What a physics tick reports.
LEMMA ReportsFollowed ==
  ASSUME NEW before, NEW after, after.zone \in Zones, NEW d1, NEW d2, NEW other, NEW p1, NEW p2
  PROVE  AllFollowed(Moved(before, after)) /\ AllFollowed(Crossed(d1, d2, other))
         /\ AllFollowed(Reached(p1, p2))
<1>1. Followed(ZoneTransition(before.zone, after.zone))
  <2>1. /\ ZoneTransition(before.zone, after.zone).kind = "zone"
        /\ ZoneTransition(before.zone, after.zone).to = after.zone
    BY DEF ZoneTransition
  <2> QED BY <2>1, StepAssumption DEF Followed, Candidate
<1>2. \A crossing : Followed(Proximity(other, crossing))
  <2>1. \A crossing : Proximity(other, crossing).kind = "proximity"
    BY DEF Proximity
  <2> QED BY <2>1 DEF Followed
<1>3. Followed(Affordance)
  BY DEF Affordance, Followed
<1>4. Moved(before, after) = <<>> \/ Moved(before, after) = <<ZoneTransition(before.zone, after.zone)>>
  BY DEF Moved
<1>5. Crossed(d1, d2, other) = <<>> \/ \E crossing : Crossed(d1, d2, other) = <<Proximity(other, crossing)>>
  BY DEF Crossed
<1>6. Reached(p1, p2) = <<>> \/ Reached(p1, p2) = <<Affordance>>
  BY DEF Reached
<1> QED BY <1>1, <1>2, <1>3, <1>4, <1>5, <1>6, FollowedShort

-----------------------------------------------------------------------------
\* A shift of the step, if there is one, is explained by its observations.
Explained(s) == s.shift # None => Explains(s.obs, s.shift)

\* What a step carries at each of its points: before it feels, observations that
\* are followed and no shift; from then on, the explanation of its shift.
Minds(s) ==
  /\ s.at \in Busy \cup {"idle", "due", "raised"}
  /\ s.at = "write" => AllFollowed(s.obs) /\ s.shift = None /\ {"obs", "shift"} \subseteq DOMAIN s
  /\ s.at \in Busy \ {"write"} => Explained(s)
  /\ s.at \notin Busy => "shift" \notin DOMAIN s

\* The two rules look at the same observation: which the FSM follows last, is
\* the last that may shift a mode (_maybe_apply_erre_fsm).
LEMMA ShiftIsExplained ==
  ASSUME NEW s, AllFollowed(s.obs), s.shift = None, {"obs", "shift"} \subseteq DOMAIN s
  PROVE  Explained(Shifted(s))
<1> DEFINE obs == s.obs
           mode == NextMode(s.self.mode, obs)
           ev == ModeShift(mode, InferShiftReason(obs))
           all == Append(obs, ev)
           D == Asking(obs)
<1>1. CASE mode = s.self.mode
  BY <1>1 DEF Shifted, Explained
<1>2. CASE mode # s.self.mode
  <2>1. Shifted(s) = [s EXCEPT !.self.mode = mode, !.obs = all, !.shift = ev]
    BY <1>2 DEF Shifted
  <2>2. Shifted(s).obs = all /\ Shifted(s).shift = ev
    <3> HIDE DEF all, ev, mode
    <3> QED BY <2>1
  <2>3. ev.mode = mode /\ ev.reason = InferShiftReason(obs)
    BY DEF ModeShift
  <2> HIDE DEF ev
  <2>4. /\ AnySeq(all) /\ Len(all) = Len(obs) + 1 /\ Len(obs) \in Nat
        /\ all[Len(obs) + 1] = ev /\ \A i \in 1..Len(obs) : all[i] = obs[i]
        /\ DOMAIN obs = 1..Len(obs)
    BY AnyAppend DEF AllFollowed
  <2>5. mode = IF D = {} THEN s.self.mode ELSE Candidate(obs[Max(D)])
    BY <2>4, LatestWins
  <2>6. D # {} /\ mode = Candidate(obs[Max(D)])
    BY <1>2, <2>5
  <2>7. Shifting(obs) = D
    <3>1. ASSUME NEW x PROVE Candidate(x) # None => x.kind \in {"zone", "internal", "shift"}
      BY DEF Candidate
    <3> QED BY <3>1 DEF Shifting, Asking, AllFollowed, Followed
  <2>8. InferShiftReason(obs) = ReasonOf(obs[Max(D)])
    BY <2>6, <2>7 DEF InferShiftReason
  <2> HIDE DEF mode, all, obs
  <2>9. D \in SUBSET (1..Len(obs)) /\ Max(D) \in D
    <3>1. D \in SUBSET (1..Len(obs))
      BY <2>4 DEF Asking
    <3> HIDE DEF D
    <3> QED BY <2>4, <2>6, <3>1, LastOf
  <2>10. D = {i \in 1..(Len(all) - 1) : Candidate(all[i]) # None}
    <3>1. Len(all) - 1 = Len(obs)
      BY <2>4
    <3> QED BY <2>4, <3>1 DEF Asking
  <2>11. all[Max(D)] = obs[Max(D)]
    BY <2>4, <2>9
  <2>12. Last(all) = ev
    BY <2>4 DEF Last
  <2> HIDE DEF D
  <2>13. Explains(all, ev)
    BY <2>3, <2>6, <2>8, <2>10, <2>11, <2>12 DEF Explains
  <2> QED BY <2>2, <2>13 DEF Explained
<1> QED BY <1>1, <1>2

\* A record that keeps what the step has observed and the shift keeps the
\* explanation.
LEMMA MindsOn ==
  ASSUME NEW r, NEW s, r.at \in Busy \ {"write"}, r.obs = s.obs, r.shift = s.shift, Explained(s)
  PROVE  Minds(r)
BY DEF Minds, Explained, Busy

\* A step whose store raised has no shift any more.
LEMMA RaisedMinds == \A x : Minds([at |-> "raised", new |-> x])
<1> SUFFICES ASSUME NEW x PROVE Minds([at |-> "raised", new |-> x])
  OBVIOUS
<1> DEFINE r == [at |-> "raised", new |-> x]
<1>1. r.at = "raised" /\ "shift" \notin DOMAIN r
  OBVIOUS
<1> HIDE DEF r
<1> QED BY <1>1 DEF Minds, Busy, r

\* Neither has one that has not begun.
LEMMA IdleMinds ==
  /\ Minds(Idle)
  /\ \A n : Minds([at |-> "due", serial |-> n])
<1>1. Idle.at = "idle" /\ "shift" \notin DOMAIN Idle
  BY DEF Idle
<1>2. ASSUME NEW n PROVE Minds([at |-> "due", serial |-> n])
  <2> DEFINE r == [at |-> "due", serial |-> n]
  <2>1. r.at = "due" /\ "shift" \notin DOMAIN r
    OBVIOUS
  <2> HIDE DEF r
  <2> QED BY <2>1 DEF Minds, Busy, r
<1> QED BY <1>1, <1>2 DEF Minds, Busy

\* The records of a step carry its observations and its shift.
LEMMA RecordsMind ==
  ASSUME NEW s, Explained(s), NEW x, NEW y
  PROVE  /\ Minds(Retrieving(s, x, y))
         /\ Minds(Prompted(s)) /\ Minds([Prompted(s) EXCEPT !.at = "mark", !.top = x])
         /\ Minds(Result(s, x, y))
<1>1. /\ Retrieving(s, x, y).at = "rows" /\ Retrieving(s, x, y).obs = s.obs
      /\ Retrieving(s, x, y).shift = s.shift
  BY DEF Retrieving
<1>2. Prompted(s).at = "chat" /\ Prompted(s).obs = s.obs /\ Prompted(s).shift = s.shift
  BY DEF Prompted
<1>3. Minds([Prompted(s) EXCEPT !.at = "mark", !.top = x])
  <2> DEFINE r == [Prompted(s) EXCEPT !.at = "mark", !.top = x]
  <2>1. r.at = "mark" /\ r.obs = s.obs /\ r.shift = s.shift
    BY DEF Prompted
  <2> HIDE DEF r
  <2> QED BY <2>1, MindsOn DEF Busy, r
<1>4. Result(s, x, y).at = "answered" /\ Result(s, x, y).obs = s.obs /\ Result(s, x, y).shift = s.shift
  BY DEF Result
<1> QED BY <1>1, <1>2, <1>3, <1>4, MindsOn DEF Busy

\* A step of its own keeps it: it begins with what waits, feels, and carries on.
LEMMA StepMinds ==
  ASSUME NEW a \in Agents, step = [b \in Agents |-> step[b]], StepNext(a), Minds(step[a]),
         AllFollowed(pending[a])
  PROVE  Minds(step'[a])
<1>1. ASSUME NEW r, step' = [step EXCEPT ![a] = r], Minds(r) PROVE Minds(step'[a])
  BY <1>1, OneRecord
<1>2. CASE Begin(a)
  <2> DEFINE r == [at |-> "write", serial |-> step[a].serial, n |-> 0, obs |-> pending[a],
                   self |-> agent[a], new |-> {}, shift |-> None]
  <2>1. step' = [step EXCEPT ![a] = r]
    BY <1>2 DEF Begin
  <2>2. r.at = "write" /\ r.obs = pending[a] /\ r.shift = None /\ {"obs", "shift"} \subseteq DOMAIN r
    OBVIOUS
  <2> HIDE DEF r
  <2>3. Minds(r)
    BY <2>2 DEF Minds, Busy
  <2> QED BY <1>1, <2>1, <2>3
<1>3. CASE StoreRaised(a)
  BY <1>1, <1>3, RaisedMinds DEF StoreRaised
<1>4. ASSUME NEW up \in BOOLEAN, WriteObservation(a, up) PROVE Minds(step'[a])
  <2> DEFINE id == FreshId(a, step[a].n)
             r == [step[a] EXCEPT !.n = @ + 1, !.new = @ \cup {id}]
  <2>1. step' = [step EXCEPT ![a].n = @ + 1, ![a].new = @ \cup {id}] /\ step[a].at = "write"
    BY <1>4 DEF WriteObservation
  <2> HIDE DEF id
  <2>2. step' = [step EXCEPT ![a] = r]
    BY <2>1
  <2>3. r.at = "write" /\ r.obs = step[a].obs /\ r.shift = step[a].shift /\ DOMAIN r = DOMAIN step[a]
    BY <2>1
  <2> HIDE DEF r
  <2>4. Minds(r)
    BY <2>1, <2>3 DEF Minds, Busy
  <2> QED BY <1>1, <2>2, <2>4
<1>5. ASSUME NEW up \in BOOLEAN, Feel(a, up) PROVE Minds(step'[a])
  <2>1. \/ step' = [step EXCEPT ![a] = Prompted(Shifted(step[a]))]
        \/ \E query : step' = [step EXCEPT ![a] = Retrieving(Shifted(step[a]), "prompt", query)]
    BY <1>5 DEF Feel
  <2>2. step[a].at = "write"
    BY <1>5 DEF Feel
  <2>3. Explained(Shifted(step[a]))
    BY <2>2, ShiftIsExplained DEF Minds
  <2> QED BY <1>1, <2>1, <2>3, RecordsMind
<1>6. CASE FetchVectors(a)
  <2> DEFINE r == [step[a] EXCEPT !.at = "vectors", !.rows = thread[a].out]
  <2>1. step' = [step EXCEPT ![a].at = "vectors", ![a].rows = thread[a].out] /\ step[a].at = "rows"
    BY <1>6 DEF FetchVectors
  <2>2. step' = [step EXCEPT ![a] = r]
    BY <2>1
  <2>3. r.at = "vectors"
    OBVIOUS
  <2>4. r.obs = step[a].obs
    OBVIOUS
  <2>5. r.shift = step[a].shift
    OBVIOUS
  <2> HIDE DEF r
  <2>6. Minds(r)
    BY <2>1, <2>3, <2>4, <2>5, MindsOn DEF Minds, Busy
  <2> QED BY <1>1, <2>2, <2>6
<1>7. CASE NextScope(a)
  <2>1. PICK top : step' = [step EXCEPT ![a] = [@ EXCEPT !.at = "rows", !.world = TRUE,
                                                         !.rows = <<>>, !.top = top]]
    BY <1>7 DEF NextScope
  <2>2. step[a].at \in {"rows", "vectors"}
    BY <1>7 DEF NextScope, ScopeRanked
  <2> DEFINE r == [step[a] EXCEPT !.at = "rows", !.world = TRUE, !.rows = <<>>, !.top = top]
  <2>3. step' = [step EXCEPT ![a] = r]
    BY <2>1
  <2>4. r.at = "rows"
    OBVIOUS
  <2>5. r.obs = step[a].obs
    OBVIOUS
  <2>6. r.shift = step[a].shift
    OBVIOUS
  <2> HIDE DEF r
  <2>7. Minds(r)
    BY <2>2, <2>4, <2>5, <2>6, MindsOn DEF Minds, Busy
  <2> QED BY <1>1, <2>3, <2>7
<1>8. CASE Mark(a)
  <2>1. step[a].at \in {"rows", "vectors"}
    BY <1>8 DEF Mark, ScopeRanked
  <2>2. \/ step' = [step EXCEPT ![a] = Prompted(step[a])]
        \/ \E top : step' = [step EXCEPT ![a] =
                               [Prompted(step[a]) EXCEPT !.at = "mark", !.top = top]]
    BY <1>8 DEF Mark
  <2>3. Explained(step[a])
    BY <2>1 DEF Minds, Busy
  <2> QED BY <1>1, <2>2, <2>3, RecordsMind
<1>9. CASE Marked(a)
  <2> DEFINE r == [step[a] EXCEPT !.at = "chat"]
  <2>1. step' = [step EXCEPT ![a].at = "chat"] /\ step[a].at = "mark"
    BY <1>9 DEF Marked
  <2>2. step' = [step EXCEPT ![a] = r]
    BY <2>1
  <2>3. r.at = "chat"
    OBVIOUS
  <2>4. r.obs = step[a].obs
    OBVIOUS
  <2>5. r.shift = step[a].shift
    OBVIOUS
  <2> HIDE DEF r
  <2>6. Minds(r)
    BY <2>1, <2>3, <2>4, <2>5, MindsOn DEF Minds, Busy
  <2> QED BY <1>1, <2>2, <2>6
<1>10. CASE ResolveMove(a)
  <2>1. step[a].at \in {"rows", "vectors"}
    BY <1>10 DEF ResolveMove, ScopeRanked
  <2>2. \E move : step' = [step EXCEPT ![a] = Result(step[a], FALSE, move)]
    BY <1>10 DEF ResolveMove
  <2>3. Explained(step[a])
    BY <2>1 DEF Minds, Busy
  <2> QED BY <1>1, <2>2, <2>3, RecordsMind
<1> QED BY <1>2, <1>3, <1>4, <1>5, <1>6, <1>7, <1>8, <1>9, <1>10 DEF StepNext

\* So does the answer of the language model, or of the tape.
LEMMA ChatMinds ==
  ASSUME NEW a \in Agents, step = [b \in Agents |-> step[b]], Minds(step[a]),
         \/ Fallback(a) \/ (\E zone : Plan(a, zone)) \/ \E zone, up : PlanEcl(a, zone, up)
  PROVE  Minds(step'[a])
<1>1. ASSUME NEW r, step' = [step EXCEPT ![a] = r], Minds(r) PROVE Minds(step'[a])
  BY <1>1, OneRecord
<1>2. step[a].at = "chat"
  BY DEF Fallback, Plan, PlanEcl
<1>3. Explained(step[a])
  BY <1>2 DEF Minds, Busy
<1>4. \/ \E fell, move : step' = [step EXCEPT ![a] = Result(step[a], fell, move)]
      \/ step' = [step EXCEPT ![a] = [at |-> "raised", new |-> step[a].new]]
      \/ \E zone : step' = [step EXCEPT ![a] =
                              [Retrieving(step[a], "move", "forage") EXCEPT !.zone = zone]]
  BY DEF Fallback, Plan, PlanEcl
<1>5. ASSUME NEW zone PROVE Minds([Retrieving(step[a], "move", "forage") EXCEPT !.zone = zone])
  <2> DEFINE r == [Retrieving(step[a], "move", "forage") EXCEPT !.zone = zone]
  <2>1. r.at = "rows" /\ r.obs = step[a].obs /\ r.shift = step[a].shift
    BY DEF Retrieving
  <2> HIDE DEF r
  <2> QED BY <1>3, <2>1, MindsOn DEF Busy, r
<1> QED BY <1>1, <1>3, <1>4, <1>5, RecordsMind, RaisedMinds

-----------------------------------------------------------------------------
\* A body and the zone it is tagged with.
InZone(b) == b = [x |-> b.x, zone |-> b.zone] /\ b.zone \in Zones

\* What waits is followed, bodies are tagged with zones, and every step minds.
MindInv ==
  /\ WorldInv
  /\ ecl => loop.demand <= Ticks + 1
  /\ \A a \in Agents : AllFollowed(pending[a]) /\ InZone(agent[a].body) /\ Minds(step[a])

\* A moved body is tagged with the nearest zone (step_kinematics).
LEMMA MovedInZone == ASSUME NEW b, InZone(b), NEW dest PROVE InZone(StepKinematics(b, dest, Speed))
<1>1. CASE dest = Nowhere
  BY <1>1 DEF StepKinematics
<1>2. CASE dest # Nowhere
  <2> DEFINE x == IF Distance(b.x, dest.x) <= Speed THEN dest.x
                  ELSE IF b.x < dest.x THEN b.x + Speed ELSE b.x - Speed
  <2>1. StepKinematics(b, dest, Speed) = [x |-> x, zone |-> LocateZone(x)]
    BY <1>2 DEF StepKinematics
  <2> HIDE DEF x
  <2>2. LocateZone(x) \in Zones
    BY LocatedIsZone DEF InZone
  <2> QED BY <2>1, <2>2 DEF InZone
<1> QED BY <1>1, <1>2

\* Pushing two bodies apart leaves their tags (_apply_separation_force).
LEMMA ApartInZone ==
  ASSUME NEW there, there = [a \in Agents |-> there[a]], NEW a \in Agents, InZone(there[a])
  PROVE  InZone(Apart(there)[a])
<1>1. ASSUME NEW c, InZone(c), NEW v PROVE InZone([c EXCEPT !.x = v])
  <2>1. [c EXCEPT !.x = v] = [x |-> v, zone |-> c.zone]
    BY <1>1 DEF InZone
  <2> QED BY <1>1, <2>1 DEF InZone
<1> DEFINE p == Separated(there[1], there[2])
<1>2. Apart(there) = there \/ Apart(there) = [there EXCEPT ![1] = p[1], ![2] = p[2]]
  BY DEF Apart
<1>3. /\ InZone(there[1]) => InZone(p[1])
      /\ InZone(there[2]) => InZone(p[2])
  <2>1. CASE Distance(there[1].x, there[2].x) >= Radius
    BY <2>1 DEF Separated
  <2>2. CASE ~(Distance(there[1].x, there[2].x) >= Radius)
    <3> DEFINE u == IF there[1].x >= there[2].x THEN Push ELSE -Push
               v == there[1].x + u
               w == there[2].x - u
    <3>1. Separated(there[1], there[2]) = <<[there[1] EXCEPT !.x = v], [there[2] EXCEPT !.x = w]>>
      BY <2>2 DEF Separated
    <3> HIDE DEF u, v, w
    <3>2. p[1] = [there[1] EXCEPT !.x = v] /\ p[2] = [there[2] EXCEPT !.x = w]
      BY <3>1
    <3> QED BY <1>1, <3>2
  <2> QED BY <2>1, <2>2
<1> HIDE DEF p
<1>4. Apart(there)[a] = there[a] \/ (a = 1 /\ Apart(there)[a] = p[1]) \/ (a = 2 /\ Apart(there)[a] = p[2])
  BY <1>2
<1> QED BY <1>3, <1>4

\* It holds at the start: bodies are spawned in zones and nothing waits.
LEMMA InitMind == Init => MindInv
<1> SUFFICES ASSUME Init PROVE MindInv
  OBVIOUS
<1>1. WorldInv
  BY InitWorld
<1>2. /\ agent = [a \in Agents |-> NewAgent(a)] /\ pending = [a \in Agents |-> <<>>]
      /\ step = [a \in Agents |-> Idle]
  BY DEF Init, Fresh
<1>3. ASSUME NEW a \in Agents PROVE InZone(agent[a].body)
  <2>1. NewAgent(a).body = [x |-> Centre[Start[a]], zone |-> Start[a]]
    BY DEF NewAgent, DefaultSpawn
  <2> QED BY <1>2, <2>1, ApparatusAssumption DEF InZone
<1>4. ecl => loop.demand <= Ticks + 1
  <2> SUFFICES ASSUME ecl PROVE loop.demand = Ticks
    BY ApparatusAssumption
  <2>1. PICK seed : loop = [NewLoop EXCEPT !.seed = seed]
    BY DEF Init
  <2> QED BY <2>1 DEF NewLoop
<1> QED BY <1>1, <1>2, <1>3, <1>4, FollowedShort, IdleMinds DEF MindInv

\* A physics tick of either program reports what the FSM follows.
LEMMA PhysicsMinds ==
  ASSUME MindInv, LivePhysics \/ LoopPhysics, WorldInv'
  PROVE  MindInv'
<1>1. step' = step /\ ecl' = ecl
  BY DEF LivePhysics, LoopPhysics
<1> DEFINE apart == Apart(There)
           d == IF ecl THEN Nowhere ELSE Distance(apart[1].x, apart[2].x)
           prop == [a \in Agents |-> Distance(apart[a].x, PropPlace)]
           crossed(a) == IF ecl THEN <<>> ELSE Crossed(dist.pair, d, 3 - a)
<1>2. /\ agent' = [a \in Agents |-> [agent[a] EXCEPT !.body = apart[a]]]
      /\ pending' = [a \in Agents |->
                       pending[a] \o Moved(agent[a].body, There[a])
                       \o crossed(a) \o Reached(dist.prop[a], prop[a])]
  BY ZenonT(60) DEF LivePhysics, LoopPhysics, Physics
<1>3. There = [a \in Agents |-> There[a]] /\ \A a \in Agents : InZone(There[a])
  BY MovedInZone DEF There, MindInv
<1>4. \A a \in Agents : InZone(apart[a])
  BY <1>3, ApartInZone
<1>5. ASSUME NEW a \in Agents PROVE AllFollowed(crossed(a))
  BY <1>3, ReportsFollowed, FollowedShort DEF InZone
<1> HIDE DEF apart, d, prop, crossed
<1>6. ASSUME NEW a \in Agents
      PROVE  AllFollowed(pending'[a]) /\ InZone(agent'[a].body)
  <2> DEFINE moved == Moved(agent[a].body, There[a])
             reached == Reached(dist.prop[a], prop[a])
  <2>1. AllFollowed(moved) /\ AllFollowed(reached) /\ AllFollowed(pending[a])
    BY <1>3, ReportsFollowed DEF InZone, MindInv
  <2>2. pending'[a] = pending[a] \o moved \o crossed(a) \o reached
    BY <1>2
  <2> HIDE DEF moved, reached
  <2>3. AllFollowed(pending'[a])
    BY <1>5, <2>1, <2>2, FollowedConcat
  <2>4. agent'[a].body = apart[a]
    <3>1. ASSUME NEW c PROVE [agent[a] EXCEPT !.body = c].body = c
      OBVIOUS
    <3>2. agent'[a] = [agent[a] EXCEPT !.body = apart[a]]
      BY <1>2
    <3> QED BY <3>1, <3>2
  <2> QED BY <1>4, <2>3, <2>4
<1>7. ecl => loop'.demand = loop.demand
  <2>1. \A x, y, z : [loop EXCEPT !.physics = x, !.tick = y, !.trace = z].demand = loop.demand
    OBVIOUS
  <2>2. ASSUME NEW x, NEW y, NEW z, loop' = [loop EXCEPT !.physics = x, !.tick = y, !.trace = z]
        PROVE  loop'.demand = loop.demand
    BY <2>1, <2>2
  <2>3. \/ loop' = loop
        \/ \E x, y, z : loop' = [loop EXCEPT !.physics = x, !.tick = y, !.trace = z]
    BY DEF LivePhysics, LoopPhysics
  <2> QED BY <2>2, <2>3
<1> QED BY <1>1, <1>6, <1>7 DEF MindInv

\* A step that reports nothing of the bodies.
LEMMA MindStays ==
  ASSUME MindInv, WorldInv', ecl' = ecl, ecl => loop'.demand <= Ticks + 1,
         \A a \in Agents : /\ AllFollowed(pending'[a])
                           /\ agent'[a].body = agent[a].body
                           /\ Minds(step'[a])
  PROVE  MindInv'
BY DEF MindInv

\* What is injected, and what a tick of the loop begins with.
LEMMA OutsideMinds ==
  ASSUME MindInv, GivenIsFollowed, WorldInv',
         LoopBegin \/ \E a \in Agents, ev \in Observable : Inject(a, ev)
  PROVE  MindInv'
<1>1. agent' = agent /\ ecl' = ecl
  BY DEF LoopBegin, Inject
<1>2. pending = [b \in Agents |-> pending[b]] /\ step = [b \in Agents |-> step[b]]
  BY DEF MindInv, WorldInv
<1>3. CASE LoopBegin
  <2>1. /\ ecl /\ pending' = [pending EXCEPT ![LoopAgent] = pending[LoopAgent] \o Seen[loop.tick]]
        /\ step' = [step EXCEPT ![LoopAgent] = [at |-> "due", serial |-> agent[LoopAgent].tick]]
        /\ loop' = [loop EXCEPT !.served = Len(loop.tape)]
    BY <1>3 DEF LoopBegin, Looping, MindInv, WorldInv
  <2>2. Seen[loop.tick] \in Seq(Given)
    <3>1. loop.tick \in 0..Ticks
      BY <1>3, <2>1, ApparatusAssumption DEF LoopBegin, MindInv, WorldInv
    <3> QED BY <3>1, ApparatusAssumption
  <2>3. AllFollowed(Seen[loop.tick])
    <3>1. \A i \in DOMAIN Seen[loop.tick] : Seen[loop.tick][i] \in Given
      BY <2>2
    <3> QED BY <2>2, <3>1 DEF AllFollowed, AnySeq, GivenIsFollowed
  <2>4. AllFollowed(pending[LoopAgent] \o Seen[loop.tick])
    BY <2>3, FollowedConcat, ApparatusAssumption DEF MindInv
  <2>5. \A a \in Agents : AllFollowed(pending'[a]) /\ Minds(step'[a])
    BY <1>2, <2>1, <2>4, IdleMinds DEF MindInv
  <2>6. loop'.demand = loop.demand
    <3>1. \A x : [loop EXCEPT !.served = x].demand = loop.demand
      OBVIOUS
    <3> QED BY <2>1, <3>1
  <2> QED BY <1>1, <2>5, <2>6, MindStays DEF MindInv
<1>4. ASSUME NEW a \in Agents, NEW ev \in Observable, Inject(a, ev) PROVE MindInv'
  <2>1. ~ecl /\ pending' = [pending EXCEPT ![a] = Append(pending[a], ev)] /\ step' = step
    BY <1>4 DEF Inject
  <2>2. AllFollowed(Append(pending[a], ev))
    BY FollowedAppend DEF MindInv, GivenIsFollowed, Given
  <2>3. \A b \in Agents : AllFollowed(pending'[b]) /\ Minds(step'[b])
    BY <1>2, <2>1, <2>2 DEF MindInv
  <2> QED BY <1>1, <2>1, <2>3, MindStays
<1> QED BY <1>3, <1>4

\* Steps and answers.
LEMMA StepsMind ==
  ASSUME MindInv, WorldInv', NEW a \in Agents,
         StepOf(a) \/ LiveChat(a) \/ (a = LoopAgent /\ \E said, up : LoopChat(said, up))
  PROVE  MindInv'
<1>1. agent' = agent /\ ecl' = ecl
  BY ZenonT(60) DEF StepOf, LiveChat, LoopChat, Fallback, Plan, PlanEcl, StepNext, Begin, StoreRaised,
    WriteObservation, Feel, FetchVectors, NextScope, Mark, Marked, ResolveMove
<1>2. /\ step = [b \in Agents |-> step[b]] /\ pending = [b \in Agents |-> pending[b]]
  BY DEF MindInv, WorldInv
<1>3. pending' = pending \/ pending' = [pending EXCEPT ![a] = <<>>]
  BY ZenonT(60) DEF StepOf, LiveChat, LoopChat, Fallback, Plan, PlanEcl, StepNext, Begin, StoreRaised,
    WriteObservation, Feel, FetchVectors, NextScope, Mark, Marked, ResolveMove
<1>4. \A b \in Agents : AllFollowed(pending'[b])
  BY <1>2, <1>3, FollowedShort DEF MindInv
<1>5. StepNext(a) \/ Fallback(a) \/ (\E zone : Plan(a, zone)) \/ \E zone, up : PlanEcl(a, zone, up)
  BY DEF StepOf, LiveChat, LoopChat
<1>6. \A b \in Agents : b # a => step'[b] = step[b]
  BY <1>2, <1>5, StepHolds, ChatHolds
<1>7. Minds(step'[a])
  BY <1>2, <1>5, StepMinds, ChatMinds DEF MindInv
<1>8. loop'.demand = loop.demand
  <2>1. CASE StepOf(a) \/ LiveChat(a)
    <3>1. loop' = loop \/ \E l : loop' = [loop EXCEPT !.lost = l]
      BY <2>1 DEF StepOf, LiveChat, Outages
    <3>2. \A l : [loop EXCEPT !.lost = l].demand = loop.demand
      OBVIOUS
    <3>3. ASSUME NEW l, loop' = [loop EXCEPT !.lost = l] PROVE loop'.demand = loop.demand
      BY <3>2, <3>3
    <3> QED BY <3>1, <3>3
  <2>2. ASSUME NEW said, NEW up, LoopChat(said, up) PROVE loop'.demand = loop.demand
    <3>1. \A x, y, z : [loop EXCEPT !.tape = x, !.index = y, !.lost = z].demand = loop.demand
      OBVIOUS
    <3>2. PICK x, y, z : loop' = [loop EXCEPT !.tape = x, !.index = y, !.lost = z]
      BY <2>2 DEF LoopChat
    <3> QED BY <3>1, <3>2
  <2> QED BY <2>1, <2>2
<1>9. \A b \in Agents : Minds(step'[b])
  BY <1>6, <1>7 DEF MindInv
<1> QED BY <1>1, <1>4, <1>8, <1>9, MindStays DEF MindInv

\* The handlers, the rest of the loop, and the store.
LEMMA OthersMind ==
  ASSUME MindInv, WorldInv',
         \/ StartHandler \/ Consume \/ TurnStored \/ TurnBonds \/ NoDialog \/ Stop
         \/ CloseStore \/ Alone \/ Exhausted \/ LoopConsume \/ LoopEnd
         \/ \E t \in Thread : StoreError(t) \/ InStore(t)
  PROVE  MindInv'
<1>1. ecl' = ecl /\ pending' = pending
  BY DEF StartHandler, Consume, TurnStored, TurnBonds, NoDialog, Stop, CloseStore, Alone,
    Exhausted, LoopConsume, LoopEnd, StoreError, InStore, stepVars, ConsumeResults
<1>2. loop'.demand = loop.demand
  <2>1. \A x : [loop EXCEPT !.end = x].demand = loop.demand
    OBVIOUS
  <2>2. \A x, y, z : [loop EXCEPT !.trace = x, !.move = y, !.physics = z].demand = loop.demand
    OBVIOUS
  <2>3. ASSUME NEW x, loop' = [loop EXCEPT !.end = x] PROVE loop'.demand = loop.demand
    BY <2>1, <2>3
  <2>4. ASSUME NEW x, NEW y, NEW z, loop' = [loop EXCEPT !.trace = x, !.move = y, !.physics = z]
        PROVE  loop'.demand = loop.demand
    BY <2>2, <2>4
  <2>5. \/ loop' = loop \/ \E x : loop' = [loop EXCEPT !.end = x]
        \/ \E x, y, z : loop' = [loop EXCEPT !.trace = x, !.move = y, !.physics = z]
    BY DEF StartHandler, Consume, TurnStored, TurnBonds, NoDialog, Stop, CloseStore, Alone,
      Exhausted, LoopConsume, LoopEnd, StoreError, InStore
  <2> QED BY <2>3, <2>4, <2>5
<1>3. ASSUME NEW a \in Agents
      PROVE  \/ step'[a] = step[a] \/ step'[a] = Idle
             \/ \E n : step'[a] = [at |-> "due", serial |-> n]
  BY DEF StartHandler, Consume, TurnStored, TurnBonds, NoDialog, Stop, CloseStore, Alone,
    Exhausted, LoopConsume, LoopEnd, StoreError, InStore, stepVars, ConsumeResults
<1>4. ASSUME NEW a \in Agents PROVE agent'[a].body = agent[a].body
  <2>1. \/ agent' = agent \/ (Finished(a) /\ agent'[a] = Consumed(a))
        \/ agent'[a] = agent[a] \/ agent'[a] = AffinityApplied(agent[a], 3 - a)
    BY DEF StartHandler, Consume, TurnStored, TurnBonds, NoDialog, Stop, CloseStore, Alone,
      Exhausted, LoopConsume, LoopEnd, StoreError, InStore, stepVars, ConsumeResults
  <2>2. AffinityApplied(agent[a], 3 - a).body = agent[a].body
    BY DEF AffinityApplied
  <2>3. Finished(a) => Consumed(a).body = agent[a].body
    BY DEF Consumed, Finished, MindInv, WorldInv, Holds, Busy
  <2> QED BY <2>1, <2>2, <2>3
<1>5. \A a \in Agents : Minds(step'[a])
  BY <1>3, IdleMinds DEF MindInv
<1> QED BY <1>1, <1>2, <1>4, <1>5, MindStays DEF MindInv

\* A replay begins anew.
LEMMA ReplayMinds ==
  ASSUME MindInv, Replay, WorldInv'
  PROVE  MindInv'
<1>1. /\ ecl' = ecl /\ pending' = [a \in Agents |-> <<>>] /\ step' = step
      /\ agent' = [a \in Agents |-> NewAgent(a)]
  BY DEF Replay
<1>2. ASSUME NEW a \in Agents PROVE InZone(agent'[a].body)
  <2>1. NewAgent(a).body = [x |-> Centre[Start[a]], zone |-> Start[a]]
    BY DEF NewAgent, DefaultSpawn
  <2> QED BY <1>1, <2>1, ApparatusAssumption DEF InZone
<1>3. loop'.demand <= Ticks + 1
  <2> DEFINE recorded == [tape |-> loop.tape, trace |-> loop.trace, lost |-> loop.lost]
  <2>1. PICK demand \in {Ticks, Ticks + 1} :
          loop' = [NewLoop EXCEPT !.run = "replay", !.demand = demand, !.seed = loop.seed,
                                  !.recorded = recorded]
    BY DEF Replay
  <2>2. \A s, r : [NewLoop EXCEPT !.run = "replay", !.demand = demand, !.seed = s,
                                  !.recorded = r].demand = demand
    BY DEF NewLoop
  <2> HIDE DEF recorded
  <2>3. loop'.demand = demand
    BY <2>1, <2>2
  <2> QED BY <2>1, <2>3, ApparatusAssumption
<1> QED BY <1>1, <1>2, <1>3, FollowedShort DEF MindInv

\* Every step of the live world and of the loop keeps it.
LEMMA NextMinds ==
  ASSUME GivenIsFollowed, MindInv, [Next]_vars
  PROVE  MindInv'
<1>1. WorldInv'
  BY NextKeepsWorld DEF MindInv
<1>2. CASE UNCHANGED vars
  BY <1>1, <1>2 DEF vars, stepVars, MindInv
<1>3. CASE Live
  BY <1>1, <1>3, PhysicsMinds, OutsideMinds, StepsMind, OthersMind DEF Live
<1>4. CASE Loop
  BY <1>1, <1>4, PhysicsMinds, OutsideMinds, StepsMind, OthersMind, ReplayMinds,
     ApparatusAssumption DEF Loop
<1>5. ASSUME NEW a \in Agents, StepOf(a) PROVE MindInv'
  BY <1>1, <1>5, StepsMind
<1>6. ASSUME NEW t \in Thread, InStore(t) PROVE MindInv'
  BY <1>1, <1>6, OthersMind
<1> QED BY <1>2, <1>3, <1>4, <1>5, <1>6 DEF Next

\* The reason of a shift is that of the observation that decided the mode, of
\* any observations the FSM follows, in the live world and in the loop.
THEOREM ReasonsAreTrue == ASSUME GivenIsFollowed PROVE Spec => []ReasonExplains
<1>1. MindInv => ReasonExplains
  <2> SUFFICES ASSUME MindInv, NEW a \in Agents, "shift" \in DOMAIN step[a], step[a].shift # None
               PROVE  Explains(step[a].obs, step[a].shift)
    BY DEF ReasonExplains
  <2>1. Minds(step[a])
    BY DEF MindInv
  <2> QED BY <2>1 DEF Minds, Explained
<1>2. MindInv /\ [Next]_vars => MindInv'
  BY NextMinds
<1> QED BY <1>1, <1>2, InitMind, PTL DEF Spec

-----------------------------------------------------------------------------
(* What the best of a ranking is: a replay ranks the same memories the same *)
(* way only if the ranking leaves nothing open.                              *)

\* Of a set that is finite some element is greatest by a measure.
LEMMA GreatestOf ==
  ASSUME NEW S, IsFiniteSet(S), S # {}, NEW f, \A x \in S : f[x] \in Int
  PROVE  \E x \in S : \A y \in S : f[y] <= f[x]
<1> DEFINE Above(x) == {y \in S : f[y] > f[x]}
           U == {Above(x) : x \in S}
<1>1. U \subseteq FiniteSubsetsOf(S)
  <2>1. \A x \in S : Above(x) \in SUBSET S /\ IsFiniteSet(Above(x))
    BY FS_Subset
  <2> HIDE DEF Above
  <2> QED BY <2>1 DEF FiniteSubsetsOf
<1>2. U # {}
  OBVIOUS
<1>3. PICK s \in U : \A y \in U : ~(<<y, s>> \in StrictSubsetOrdering(S))
  <2> HIDE DEF U
  <2> QED BY <1>1, <1>2, FS_StrictSubsetOrderingWellFounded, WFMin
<1>4. PICK x \in S : s = Above(x)
  OBVIOUS
<1>5. ASSUME NEW y \in S, ~(f[y] <= f[x]) PROVE FALSE
  <2>1. y \in Above(x) /\ y \notin Above(y)
    BY <1>5
  <2>2. Above(y) \subseteq Above(x)
    BY <1>5
  <2>3. Above(y) \in SUBSET S /\ Above(x) \in SUBSET S /\ Above(y) \in U
    OBVIOUS
  <2> HIDE DEF Above, U
  <2>4. <<Above(y), Above(x)>> \in StrictSubsetOrdering(S)
    BY <2>1, <2>2, <2>3 DEF StrictSubsetOrdering
  <2> QED BY <1>3, <1>4, <2>3, <2>4
<1> QED BY <1>5

\* The newest rows of a fetch are some of those that match.
LEMMA NewestAreSome ==
  ASSUME NEW d, NEW ids, IsFiniteSet(ids), \A i \in ids : d.row[i].at \in Int, NEW pool \in Nat
  PROVE  Newest(d, ids, pool) \subseteq ids
<1> DEFINE at == [i \in ids |-> d.row[i].at]
           Top(S, k) == S \in SUBSET ids /\ Cardinality(S) = k
                        /\ \A x \in S, y \in ids \ S : at[x] >= at[y]
           n == Cardinality(ids)
           T == {k \in 0..n : ~\E S : Top(S, k)}
<1>1. n \in Nat
  BY FS_CardinalityType
<1>2. T = {}
  <2> SUFFICES ASSUME T # {} PROVE FALSE
    OBVIOUS
  <2>1. PICK k \in T : \A j \in T : k <= j
    <3>1. T \in SUBSET Nat
      BY <1>1
    <3> HIDE DEF T
    <3> QED BY <3>1, SmallestNat
  <2>2. k # 0
    <3>1. Top({}, 0)
      BY FS_EmptySet
    <3> HIDE DEF Top
    <3> QED BY <2>1, <3>1
  <2>3. PICK S : Top(S, k - 1)
    <3>1. k - 1 \in 0..n /\ ~(k <= k - 1)
      BY <1>1, <2>1, <2>2
    <3> HIDE DEF Top
    <3> QED BY <2>1, <3>1
  <2>4. IsFiniteSet(S) /\ IsFiniteSet(ids \ S) /\ ids \ S # {}
    <3>1. IsFiniteSet(S) /\ IsFiniteSet(ids \ S)
      BY <2>3, FS_Subset
    <3>2. S # ids
      BY <1>1, <2>1, <2>2, <2>3
    <3> QED BY <2>3, <3>1, <3>2
  <2>5. PICK x \in ids \ S : \A y \in ids \ S : at[y] <= at[x]
    <3>1. \A y \in ids \ S : at[y] \in Int
      OBVIOUS
    <3> HIDE DEF at
    <3> QED BY <2>4, <3>1, GreatestOf
  <2>6. Cardinality(S \cup {x}) = k
    <3>1. Cardinality(S \cup {x}) = Cardinality(S) + 1
      BY <2>4, <2>5, FS_AddElement
    <3> QED BY <1>1, <2>1, <2>2, <2>3, <3>1
  <2>7. Top(S \cup {x}, k)
    <3>1. \A y \in ids : at[y] \in Int
      OBVIOUS
    <3> HIDE DEF at
    <3>2. ASSUME NEW u \in S \cup {x}, NEW v \in ids \ (S \cup {x}) PROVE at[u] >= at[v]
      BY <2>3, <2>5, <3>1
    <3> QED BY <2>3, <2>5, <2>6, <3>2
  <2> HIDE DEF Top
  <2> QED BY <2>1, <2>7
<1> DEFINE k == IF Cardinality(ids) < pool THEN Cardinality(ids) ELSE pool
<1>3. k \in 0..n
  BY <1>1
<1> HIDE DEF k
<1>4. PICK S : Top(S, k)
  <2> HIDE DEF Top
  <2> QED BY <1>2, <1>3
<1>5. S \in kSubset(k, ids) /\ \A x \in S, y \in ids \ S : d.row[x].at >= d.row[y].at
  BY <1>4 DEF kSubset
<1>6. Newest(d, ids, pool) = CHOOSE R \in kSubset(k, ids) :
                               \A x \in R, y \in ids \ R : d.row[x].at >= d.row[y].at
  BY DEF Newest, k
<1>7. Newest(d, ids, pool) \in kSubset(k, ids)
  BY <1>5, <1>6
<1> QED BY <1>7 DEF kSubset

-----------------------------------------------------------------------------
\* Rows whose ids are tuples of three numbers.
Ids3 == {i \in Seq(Int) : Len(i) = 3}
RowOK(r) == r.at \in Int /\ r.imp \in Int /\ r.recalls \in Int
Rows(f) == IsFiniteSet(DOMAIN f) /\ DOMAIN f \subseteq Ids3 /\ \A i \in DOMAIN f : RowOK(f[i])

\* What is put together of two sequences.
LEMMA Length ==
  ASSUME NEW S, NEW p \in Seq(S), NEW q \in Seq(S)
  PROVE  p \o q \in Seq(S) /\ Len(p \o q) = Len(p) + Len(q)
OBVIOUS

\* Element by element.
LEMMA Joined ==
  ASSUME NEW S, NEW n \in Nat, NEW m \in Nat, NEW p \in Seq(S), Len(p) = n,
         NEW q \in Seq(S), Len(q) = m, NEW r, r = p \o q
  PROVE  /\ r \in [1..(n + m) -> S]
         /\ \A i \in 1..n : r[i] = p[i]
         /\ \A i \in 1..m : r[n + i] = q[i]
<1>1. r \in Seq(S) /\ Len(r) = n + m
  BY Length
<1>2. \A i \in 1..m : r[n + i] = q[i]
  OBVIOUS
<1>3. \A i \in 1..n : r[i] = p[i]
  OBVIOUS
<1>4. ASSUME NEW t \in Seq(S), Len(t) = n + m PROVE t \in [1..(n + m) -> S]
  BY <1>4
<1>5. r \in [1..(n + m) -> S]
  BY <1>1, <1>4
<1> QED BY <1>2, <1>3, <1>5

\* The key is a total order: of two memories one is before the other (_rank_scope).
LEMMA KeyIsTotal ==
  ASSUME NEW m, NEW n, m.id \in Ids3, n.id \in Ids3, m.id # n.id,
         m.strength \in Int, n.strength \in Int, m.row.at \in Int, n.row.at \in Int
  PROVE  Before(m, n) \/ Before(n, m)
<1> DEFINE k == SortKey(m)
           l == SortKey(n)
           a == 2
           b == 3
           Z == Int
<1>1. a \in Nat /\ b \in Nat /\ a + b \in Nat
  OBVIOUS
<1>2. \A x \in Ids3 : x \in Seq(Z) /\ Len(x) = b
  BY DEF Ids3
<1>3. PICK p \in Seq(Z) : Len(p) = a /\ SortKey(m) = p \o m.id
  <2>1. <<-m.strength, m.row.at>> \in Seq(Z) /\ Len(<<-m.strength, m.row.at>>) = a
    OBVIOUS
  <2> QED BY <2>1 DEF SortKey
<1>4. PICK q \in Seq(Z) : Len(q) = a /\ SortKey(n) = q \o n.id
  <2>1. <<-n.strength, n.row.at>> \in Seq(Z) /\ Len(<<-n.strength, n.row.at>>) = a
    OBVIOUS
  <2> QED BY <2>1 DEF SortKey
<1> HIDE DEF a, b, Z
<1>5. k \in [1..(a + b) -> Z] /\ \A i \in 1..b : k[a + i] = m.id[i]
  <2> DEFINE id == m.id
  <2>1. id \in Seq(Z) /\ Len(id) = b /\ k = p \o id /\ p \in Seq(Z) /\ Len(p) = a
    BY <1>2, <1>3
  <2> HIDE DEF id, k
  <2>2. k \in [1..(a + b) -> Z]
    BY <1>1, <2>1, Joined
  <2>3. \A i \in 1..b : k[a + i] = id[i]
    BY <1>1, <2>1, Joined
  <2> QED BY <2>2, <2>3 DEF id
<1>6. l \in [1..(a + b) -> Z] /\ \A i \in 1..b : l[a + i] = n.id[i]
  <2> DEFINE id == n.id
  <2>1. id \in Seq(Z) /\ Len(id) = b /\ l = q \o id /\ q \in Seq(Z) /\ Len(q) = a
    BY <1>2, <1>4
  <2> HIDE DEF id, l
  <2>2. l \in [1..(a + b) -> Z]
    BY <1>1, <2>1, Joined
  <2>3. \A i \in 1..b : l[a + i] = id[i]
    BY <1>1, <2>1, Joined
  <2> QED BY <2>2, <2>3 DEF id
<1>7. PICK i \in 1..b : m.id[i] # n.id[i]
  <2>1. ASSUME NEW x \in [1..b -> Z], NEW y \in [1..b -> Z], \A i \in 1..b : x[i] = y[i]
        PROVE  x = y
    BY <1>1, <2>1
  <2>2. m.id \in [1..b -> Z] /\ n.id \in [1..b -> Z]
    BY <1>1, <1>2
  <2> QED BY <2>1, <2>2
<1> DEFINE T == {j \in 1..(a + b) : k[j] # l[j]}
<1> HIDE DEF k, l
<1>8. T # {} /\ T \in SUBSET Nat
  <2>1. a + i \in 1..(a + b) /\ k[a + i] # l[a + i]
    BY <1>1, <1>5, <1>6, <1>7
  <2> QED BY <2>1
<1>9. PICK j \in T : \A x \in T : j <= x
  <2> HIDE DEF T
  <2> QED BY <1>8, SmallestNat
<1>10. j \in DOMAIN k /\ j \in DOMAIN l /\ k[j] \in Int /\ l[j] \in Int /\ k[j] # l[j]
  BY <1>5, <1>6, <1>9 DEF Z
<1>11. \A x \in 1..(j - 1) : k[x] = l[x]
  BY <1>1, <1>9
<1> QED BY <1>10, <1>11 DEF Before, k, l

\* So there is only one choice of the best.
LEMMA OneTop ==
  ASSUME NEW rows, Rows(rows), NEW vecs, NEW q, NEW now \in Int, NEW k,
         NEW S \in Tops(Ranked(rows, vecs, q, now), k), NEW T \in Tops(Ranked(rows, vecs, q, now), k)
  PROVE  S = T
<1> DEFINE strength(i) == Strength(rows[i], vecs[i], q, now)
           mem(i) == [id |-> i, row |-> rows[i], strength |-> strength(i)]
           R == Ranked(rows, vecs, q, now)
<1>1. R = {mem(i) : i \in DOMAIN rows}
  BY DEF Ranked
<1>2. IsFiniteSet(R)
  <2> DEFINE f == [i \in DOMAIN rows |-> mem(i)]
  <2> HIDE DEF mem
  <2>1. f \in Surjection(DOMAIN rows, R)
    BY <1>1 DEF Surjection
  <2> QED BY <2>1, FS_Surjection DEF Rows
<1>3. ASSUME NEW i \in DOMAIN rows PROVE strength(i) \in Int
  <2> DEFINE r == rows[i]
             c == CosineSimilarity(vecs[i], q)
             b == r.imp * (5 + r.recalls)
  <2>1. c \in {0, 1}
    BY DEF CosineSimilarity
  <2>2. r.imp \in Int /\ r.recalls \in Int /\ r.at \in Int
    BY <1>3 DEF Rows, RowOK
  <2>3. b \in Int
    BY <2>2
  <2> HIDE DEF b
  <2>4. b * Horizon \in Int
    BY <2>3, HorizonAssumption
  <2>5. Greatest(0, now - r.at) \in Int
    BY <2>2 DEF Greatest
  <2>6. b * Horizon - Greatest(0, now - r.at) \in Int
    BY <2>4, <2>5
  <2>7. c * (b * Horizon - Greatest(0, now - r.at)) \in Int
    BY <2>1, <2>6
  <2>8. strength(i) = c * (b * Horizon - Greatest(0, now - r.at))
    BY DEF Strength, b
  <2> QED BY <2>7, <2>8
<1>4. ASSUME NEW m \in R, NEW n \in R, m # n PROVE Before(m, n) \/ Before(n, m)
  <2>1. PICK i \in DOMAIN rows : m = mem(i)
    BY <1>1
  <2>2. PICK j \in DOMAIN rows : n = mem(j)
    BY <1>1
  <2>3. i # j
    BY <1>4, <2>1, <2>2
  <2>4. /\ m.id = i /\ m.row = rows[i] /\ m.strength = strength(i)
        /\ n.id = j /\ n.row = rows[j] /\ n.strength = strength(j)
    <3> HIDE DEF strength
    <3> QED BY <2>1, <2>2
  <2> HIDE DEF strength
  <2>5. i \in Ids3 /\ j \in Ids3 /\ rows[i].at \in Int /\ rows[j].at \in Int
    BY DEF Rows, RowOK
  <2> QED BY <1>3, <2>3, <2>4, <2>5, KeyIsTotal
<1> HIDE DEF R, strength, mem
<1>5. /\ S \subseteq R /\ T \subseteq R /\ Cardinality(S) = Cardinality(T)
      /\ \A m \in S, n \in R \ S : ~Before(n, m)
      /\ \A m \in T, n \in R \ T : ~Before(n, m)
  BY DEF Tops, kSubset, R
<1>6. IsFiniteSet(S) /\ IsFiniteSet(T)
  BY <1>2, <1>5, FS_Subset
<1>7. S \subseteq T \/ T \subseteq S
  BY <1>4, <1>5
<1> QED BY <1>5, <1>6, <1>7, FS_Subset

-----------------------------------------------------------------------------
\* What the rest of a run of the loop depends on: what its one agent, its one
\* thread at a time and the recorder have come to.
Work(at, c, n, txn, out) == [at |-> at, call |-> c, n |-> n, txn |-> txn, out |-> out]
Awaiting(c) == Work("queued", c, 0, None, None)

Here ==
  [w |-> Work(thread[LoopAgent].at, thread[LoopAgent].call, thread[LoopAgent].n,
              thread[LoopAgent].txn, thread[LoopAgent].out),
   db |-> db, agent |-> agent[LoopAgent], pending |-> pending[LoopAgent],
   step |-> step[LoopAgent], rng |-> rng, heading |-> heading[LoopAgent],
   prop |-> dist.prop[LoopAgent], tick |-> loop.tick, physics |-> loop.physics,
   tape |-> loop.tape, trace |-> loop.trace, lost |-> loop.lost, move |-> loop.move,
   seed |-> loop.seed]

\* What the actions of the loop make of it, c being what they may choose: what
\* the model says, and whether the embeddings answer.
Entered(p) == [p EXCEPT !.w = Work("inside", p.w.call, 0, p.db, None)]

Executed(p) ==
  LET d == Statement(p.w.call, p.w.n + 1, p.db, p.w.txn) IN
  [p EXCEPT !.w = IF d # Fails THEN Work("inside", p.w.call, p.w.n + 1, d, None)
                  ELSE Work("failed", p.w.call, 0, None, None)]

Left(p) ==
  [p EXCEPT !.db = p.w.txn, !.w = Work("done", p.w.call, 0, None, Answer(p.db, p.w.call))]

Due(p) ==
  [p EXCEPT !.pending = p.pending \o Seen[p.tick],
            !.step = [at |-> "due", serial |-> p.agent.tick]]

Begun(p) ==
  [p EXCEPT !.pending = <<>>,
            !.step = [at |-> "write", serial |-> p.step.serial, n |-> 0, obs |-> p.pending,
                      self |-> p.agent, new |-> {}, shift |-> None]]

\* Where in a run an embedding is asked for.
Label(p) ==
  IF p.step.at = "chat" THEN <<p.tick, "move">>
  ELSE <<p.tick, p.step.at, Cardinality(p.step.new)>>

Missing(p, up) == IF up THEN p.lost ELSE Append(p.lost, Label(p))

Noted(p, up) ==
  LET s == p.step  ev == s.obs[s.n + 1] IN
  [p EXCEPT !.step = [s EXCEPT !.n = s.n + 1,
                               !.new = s.new \cup {<<LoopAgent, s.serial, s.n>>}],
            !.w = Awaiting(Add(<<LoopAgent, s.serial, s.n>>,
                               [kind |-> "episodic", agent |-> LoopAgent, at |-> s.self.tick,
                                imp |-> Importance(ev), recalls |-> 0, loc |-> s.self.body,
                                about |-> Topic(ev)],
                               IF up THEN Topic(ev) ELSE None)),
            !.lost = Missing(p, up)]

Felt(p, up) ==
  LET felt == Shifted(p.step)
      asked == Retrieving(felt, "prompt", IF felt.obs = <<>> THEN None ELSE Topic(Last(felt.obs))) IN
  [p EXCEPT !.step = IF up THEN asked ELSE Prompted(felt),
            !.w = IF up THEN Awaiting(ListByAgent(LoopAgent, Pool)) ELSE p.w,
            !.rng = [p.rng EXCEPT !.cycle = p.rng.cycle + 1],
            !.lost = Missing(p, up)]

GivenUp(p) == [p EXCEPT !.step = [at |-> "raised", new |-> p.step.new]]

Fetching(p) ==
  [p EXCEPT !.step = [p.step EXCEPT !.at = "vectors", !.rows = p.w.out],
            !.w = Awaiting(GetEmbeddings(DOMAIN p.w.out))]

Best(p) ==
  IF p.step.at = "rows" THEN p.step.top
  ELSE p.step.top \cup
         CHOOSE T \in Tops(Ranked(p.step.rows, p.w.out, p.step.query, RetrievalNow), K(p.step)) : TRUE

Widened(p) ==
  [p EXCEPT !.step = [p.step EXCEPT !.at = "rows", !.world = TRUE, !.rows = <<>>, !.top = Best(p)],
            !.w = Awaiting(ListWorldScope(LoopAgent, Pool))]

Marking(p) ==
  IF Best(p) = {} THEN [p EXCEPT !.step = Prompted(p.step)]
  ELSE [p EXCEPT !.step = [Prompted(p.step) EXCEPT !.at = "mark", !.top = Best(p)],
                 !.w = Awaiting(MarkRecalled(Ids(Best(p))))]

MarkedOn(p) == [p EXCEPT !.step = [p.step EXCEPT !.at = "chat"]]

Moving(p) ==
  [p EXCEPT !.step = Result(p.step, FALSE, Destination(Best(p), p.step.zone, p.rng.micro)),
            !.rng = IF Weight(Best(p)) > 0 THEN [p.rng EXCEPT !.micro = p.rng.micro + 1] ELSE p.rng]

Wordless == {"raised", "unparseable"}

Wanted(p, said) == Biased(said, (p.rng.cycle + p.seed) % 2 = 0)

Answering(p, said, up) ==
  LET s == p.step  zone == Wanted(p, said)
      told == [p EXCEPT !.tape = Append(p.tape, said), !.lost = Missing(p, up)]
      drawn == [p.rng EXCEPT !.cycle = p.rng.cycle + Draws(zone)] IN
  IF said \in Wordless THEN [told EXCEPT !.step = Result(s, TRUE, NoMove)]
  ELSE IF zone = None THEN [told EXCEPT !.step = Result(s, FALSE, NoMove), !.rng = drawn]
  ELSE IF ~up THEN [told EXCEPT !.step = [at |-> "raised", new |-> s.new], !.rng = drawn]
  ELSE [told EXCEPT !.step = [Retrieving(s, "move", "forage") EXCEPT !.zone = zone], !.rng = drawn,
                    !.w = Awaiting(ListByAgent(LoopAgent, Pool))]

Settled(p) ==
  LET s == p.step IN
  [p EXCEPT !.agent = s.self, !.step = Idle, !.move = s.move, !.physics = PhysicsPerTick,
            !.heading = IF s.move.to = Nowhere THEN p.heading ELSE Resolve(s.move.to),
            !.trace = Append(p.trace, <<"decision", p.tick, Last(p.tape), s.fell, s.move>>)]

Noticed(p, there, d) == p.pending \o Moved(p.agent.body, there) \o <<>> \o Reached(p.prop, d)

Passed(p) ==
  LET there == StepKinematics(p.agent.body, p.heading, Speed)
      d == Distance(there.x, PropPlace) IN
  [p EXCEPT !.agent = [p.agent EXCEPT !.body = there], !.prop = d,
            !.heading = Heading(p.agent.body, p.heading, Speed),
            !.pending = Noticed(p, there, d),
            !.physics = p.physics - 1, !.tick = IF p.physics = 1 THEN p.tick + 1 ELSE p.tick,
            !.trace = Append(p.trace, <<"row", p.tick, there, p.move>>)]

After(p, c) ==
  IF p.w.at = "queued" THEN Entered(p)
  ELSE IF p.w.at = "inside" THEN IF p.w.n < StatementsOf(p.w.call) THEN Executed(p) ELSE Left(p)
  ELSE IF p.step.at = "idle" THEN IF p.physics > 0 THEN Passed(p) ELSE Due(p)
  ELSE IF p.step.at = "due" THEN Begun(p)
  ELSE IF p.step.at = "chat" THEN Answering(p, c.said, c.up)
  ELSE IF p.step.at = "answered" THEN Settled(p)
  ELSE IF p.w.at = "failed" THEN GivenUp(p)
  ELSE IF p.step.at = "write" THEN IF p.step.n < Len(p.step.obs) THEN Noted(p, c.up) ELSE Felt(p, c.up)
  ELSE IF p.step.at = "mark" THEN MarkedOn(p)
  ELSE IF p.step.at = "rows" /\ p.w.out # <<>> THEN Fetching(p)
  ELSE IF ~p.step.world THEN Widened(p)
  ELSE IF p.step.why = "prompt" THEN Marking(p) ELSE Moving(p)

\* Where there is something to choose.
Free(p) == p.w.at \notin {"queued", "inside", "failed"}
Asks(p) == Free(p) /\ p.step.at \in {"write", "chat"}
Chats(p) == Free(p) /\ p.step.at = "chat"

Sayings == Wordless \cup {None} \cup Zones

Legal(p, c) ==
  /\ c = [said |-> c.said, up |-> c.up] /\ c.up \in BOOLEAN
  /\ IF p.step.at = "chat" THEN c.said \in Sayings ELSE c.said = None
  /\ Asks(p) \/ c.up

\* An embedding that may still be missing.
IsLabel(l) == l[1] \in Nat /\ (l[2] = "move" \/ l[3] \in Nat)
Prompting(s) == s.at \in {"mark", "chat"} \/ (s.at \in {"rows", "vectors"} /\ s.why = "prompt")
Ahead(l, p) ==
  \/ l[1] > p.tick
  \/ /\ l[1] = p.tick /\ p.physics = 0
     /\ \/ p.step.at \in {"idle", "due"}
        \/ p.step.at = "write" /\ (l[2] = "move" \/ l[3] >= Cardinality(p.step.new))
        \/ Prompting(p.step) /\ l[2] = "move"

\* Where an agent's step is, what waits for what.
CallOK(c) ==
  \/ c.op = "add" /\ c.id \in Ids3 /\ RowOK(c.row)
  \/ c.op = "list" /\ c.pool = Pool
  \/ c.op \in {"vectors", "mark"}

DbOK(d) == Rows(d.row)

WorkOK(w) ==
  /\ w.at \in {"idle", "queued", "inside", "done", "failed"}
  /\ w.at \in {"queued", "inside"} => CallOK(w.call)
  /\ w.at = "inside" => w.n \in Nat /\ DbOK(w.txn)
  /\ w.at = "done" /\ w.call.op = "list" => Rows(w.out)

Waits(s) == s.at \in {"rows", "vectors", "mark"} \/ (s.at = "write" /\ s.n > 0)

StepOK(p) ==
  LET s == p.step  w == p.w IN
  /\ s.at \in Busy \cup {"idle", "due", "raised"}
  /\ w.at \in {"queued", "inside"} => Waits(s)
  /\ w.at = "failed" => Waits(s) \/ s.at = "raised"
  /\ s.at = "rows" => w.call.op = "list"
  /\ s.at = "vectors" => w.call.op = "vectors" /\ Rows(s.rows)
  /\ s.at \in {"due", "write"} => s.serial \in Nat
  /\ s.at \in {"rows", "vectors"} => w.at # "idle"
  /\ s.at = "write" => /\ s.n \in Nat
                       /\ IsFiniteSet(s.new) /\ \A id \in s.new : id[3] \in Nat /\ id[3] < s.n
  /\ s.at \in Busy => s.self.tick \in Nat
  /\ s.at \in {"rows", "vectors"} => s.why \in {"prompt", "move"} /\ s.world \in BOOLEAN

\* How many answers of the language model there are.
CountOK(p) ==
  LET s == p.step IN
  /\ p.physics > 0 => s.at = "idle"
  /\ s.at \in {"idle", "due", "write"} \/ Prompting(s) =>
       Len(p.tape) = IF p.physics > 0 THEN p.tick + 1 ELSE p.tick
  /\ s.at = "answered" \/ (s.at \in {"rows", "vectors"} /\ s.why = "move") => Len(p.tape) = p.tick + 1

Good(p) ==
  /\ p.tick \in Nat /\ p.physics \in Nat /\ p.agent.tick \in Nat
  /\ AnySeq(p.tape) /\ AnySeq(p.trace) /\ AnySeq(p.lost) /\ \A l \in Range(p.lost) : IsLabel(l)
  /\ DbOK(p.db) /\ WorkOK(p.w) /\ StepOK(p) /\ CountOK(p)

Grows(s, t) == t = s \/ \E x : t = Append(s, x)

\* What a step does to what is recorded and to what may still be missing.
Fine(p, c, q) ==
  /\ Good(q) /\ q.seed = p.seed
  /\ IF Chats(p) THEN q.tape = Append(p.tape, c.said) ELSE q.tape = p.tape
  /\ Grows(p.trace, q.trace)
  /\ q.lost = Missing(p, c.up)
  /\ \A l : IsLabel(l) /\ Ahead(l, q) => Ahead(l, p)
  /\ Asks(p) => IsLabel(Label(p)) /\ Ahead(Label(p), p) /\ ~Ahead(Label(p), q)

-----------------------------------------------------------------------------
(* Every step of such a state leads to one that is good again, and what it   *)
(* records grows.                                                           *)

\* A step that asks for nothing and leaves the clock, the tape and the row of
\* misses alone.
LEMMA Quiet ==
  ASSUME NEW p, NEW c, NEW q, Good(p), Legal(p, c), Good(q), ~Asks(p),
         q.tick = p.tick, q.physics = p.physics,
         q.tape = p.tape, q.trace = p.trace, q.lost = p.lost, q.seed = p.seed,
         \/ q.step = p.step
         \/ p.step.at \in {"idle", "due"}
         \/ Prompting(p.step) /\ q.step.at \notin {"idle", "due", "write"}
         \/ q.step.at \in {"answered", "raised"}
         \/ q.step.at \in {"rows", "vectors"} /\ q.step.why = "move"
  PROVE  Fine(p, c, q)
<1>1. c.up /\ ~Chats(p)
  BY DEF Asks, Legal, Chats
<1>2. ASSUME NEW l, IsLabel(l), Ahead(l, q) PROVE Ahead(l, p)
  <2>1. l[1] \in Nat /\ p.tick \in Nat
    BY <1>2 DEF IsLabel, Good
  <2>2. CASE l[1] > q.tick
    BY <2>1, <2>2 DEF Ahead
  <2>3. CASE ~(l[1] > q.tick)
    BY <1>2, <2>1, <2>3 DEF Ahead, Prompting
  <2> QED BY <2>2, <2>3
<1> QED BY <1>1, <1>2 DEF Fine, Grows, Missing

\* A thread enters: nothing is asked for.
LEMMA EnteredFine ==
  ASSUME NEW p, NEW c, NEW q, q = Entered(p), Good(p), Legal(p, c), p.w.at = "queued"
  PROVE  Fine(p, c, q)
<1>1. q.w = Work("inside", p.w.call, 0, p.db, None)
  BY DEF Entered
<1>2. /\ q.db = p.db /\ q.agent = p.agent /\ q.pending = p.pending /\ q.step = p.step
      /\ q.tick = p.tick /\ q.physics = p.physics /\ q.tape = p.tape /\ q.trace = p.trace
      /\ q.lost = p.lost /\ q.seed = p.seed
  BY DEF Entered
<1> HIDE DEF Entered
<1>4. Good(q)
  BY <1>1, <1>2 DEF Good, DbOK, WorkOK, Work, StepOK, CountOK
<1> QED BY <1>2, <1>4, Quiet DEF Asks, Free

\* What a statement makes of a database.
LEMMA StatementOK ==
  ASSUME NEW c, CallOK(c), NEW n \in Nat, n < StatementsOf(c), NEW d0, NEW d, DbOK(d),
         Statement(c, n + 1, d0, d) # Fails
  PROVE  DbOK(Statement(c, n + 1, d0, d))
<1> DEFINE s == Statement(c, n + 1, d0, d)
<1>1. /\ s # Fails
      /\ \/ c.op = "add" /\ n = 0 /\ s = InsertRow(d, c.id, c.row)
         \/ c.op = "add" /\ n = 1 /\ s = InsertVec(d, c.id, c.vec)
         \/ c.op = "mark" /\ n = 0 /\ s = Recall(d, c.ids)
  BY StatementIs DEF CallOK
<1> HIDE DEF s
<1>2. CASE c.op = "mark"
  <2> DEFINE f == [i \in DOMAIN d.row |-> IF i \in c.ids THEN [d.row[i] EXCEPT !.recalls = @ + 1] ELSE d.row[i]]
  <2>1. Recall(d, c.ids).row = f
    BY DEF Recall
  <2>2. ASSUME NEW i \in DOMAIN d.row PROVE RowOK(f[i])
    <3>1. d.row[i].at \in Int /\ d.row[i].imp \in Int /\ d.row[i].recalls \in Int
      BY DEF DbOK, Rows, RowOK
    <3> QED BY <3>1 DEF RowOK
  <2>3. DOMAIN f = DOMAIN d.row
    OBVIOUS
  <2> HIDE DEF f
  <2>4. s.row = f
    BY <1>1, <1>2, <2>1
  <2> QED BY <2>2, <2>3, <2>4 DEF DbOK, Rows, s
<1>3. CASE s = InsertVec(d, c.id, c.vec)
  <2>1. s.row = d.row
    BY <1>1, <1>3, VecInserted
  <2> QED BY <2>1 DEF DbOK, s
<1>4. CASE c.op = "add" /\ s = InsertRow(d, c.id, c.row)
  <2> DEFINE f == [i \in DOMAIN d.row \cup {c.id} |-> IF i = c.id THEN c.row ELSE d.row[i]]
  <2>1. c.id \notin DOMAIN d.row
    BY <1>1, <1>4, RowInserted
  <2>2. InsertRow(d, c.id, c.row).row = f
    BY <2>1 DEF InsertRow
  <2>3. c.id \in Ids3 /\ RowOK(c.row)
    BY <1>4 DEF CallOK
  <2>4. DOMAIN f = DOMAIN d.row \cup {c.id} /\ IsFiniteSet(DOMAIN f)
    BY FS_AddElement DEF DbOK, Rows
  <2>5. \A i \in DOMAIN f : RowOK(f[i])
    BY <2>3 DEF DbOK, Rows
  <2> HIDE DEF f
  <2>6. s.row = f
    BY <1>4, <2>2
  <2> QED BY <2>3, <2>4, <2>5, <2>6 DEF DbOK, Rows, s
<1> QED BY <1>1, <1>2, <1>3, <1>4

\* A statement is executed, or fails.
LEMMA ExecutedFine ==
  ASSUME NEW p, NEW c, NEW q, q = Executed(p), Good(p), Legal(p, c), p.w.at = "inside",
         p.w.n < StatementsOf(p.w.call)
  PROVE  Fine(p, c, q)
<1> DEFINE d == Statement(p.w.call, p.w.n + 1, p.db, p.w.txn)
<1>1. q.w = IF d # Fails THEN Work("inside", p.w.call, p.w.n + 1, d, None)
            ELSE Work("failed", p.w.call, 0, None, None)
  BY DEF Executed
<1>2. /\ q.db = p.db /\ q.agent = p.agent /\ q.pending = p.pending /\ q.step = p.step
      /\ q.tick = p.tick /\ q.physics = p.physics /\ q.tape = p.tape /\ q.trace = p.trace
      /\ q.lost = p.lost /\ q.seed = p.seed
  BY DEF Executed
<1>3. d # Fails => DbOK(d)
  BY StatementOK DEF Good, WorkOK
<1>4. WorkOK(q.w)
  <2>1. CallOK(p.w.call) /\ p.w.n \in Nat /\ p.w.n + 1 \in Nat
    BY DEF Good, WorkOK
  <2> HIDE DEF d
  <2> QED BY <1>1, <1>3, <2>1 DEF WorkOK, Work
<1>5. q.w.at \in {"inside", "failed"} /\ q.w.call = p.w.call
  BY <1>1 DEF Work
<1> HIDE DEF d
<1>6. StepOK(q)
  BY <1>2, <1>5 DEF Good, StepOK
<1>7. Good(q)
  BY <1>2, <1>4, <1>6 DEF Good, CountOK
<1> QED BY <1>2, <1>7, Quiet DEF Asks, Free

\* What a fetch gives is rows.
LEMMA FetchedOK ==
  ASSUME NEW c, c.pool = Pool, NEW d, DbOK(d)
  PROVE  Rows(Fetched(d, c))
<1> DEFINE E == Newest(d, Matching(d, c, "episodic"), c.pool)
           S == Newest(d, Matching(d, c, "semantic"), c.pool)
<1>1. ASSUME NEW kind PROVE Newest(d, Matching(d, c, kind), c.pool) \subseteq DOMAIN d.row
  <2> DEFINE M == Matching(d, c, kind)
  <2>1. M \in SUBSET DOMAIN d.row /\ \A i \in M : d.row[i].at \in Int
    BY DEF Matching, DbOK, Rows, RowOK
  <2> HIDE DEF M
  <2>2. IsFiniteSet(M)
    BY <2>1, FS_Subset DEF DbOK, Rows
  <2>3. Newest(d, M, c.pool) \subseteq M
    BY <2>1, <2>2, NewestAreSome, StepAssumption
  <2> QED BY <2>1, <2>3 DEF M
<1>2. E \in SUBSET DOMAIN d.row /\ S \in SUBSET DOMAIN d.row
  BY <1>1
<1>3. Fetched(d, c) = [i \in E \cup S |-> d.row[i]]
  BY DEF Fetched, Restrict
<1> HIDE DEF E, S
<1>4. IsFiniteSet(E \cup S)
  BY <1>2, FS_Subset DEF DbOK, Rows
<1> QED BY <1>2, <1>3, <1>4 DEF DbOK, Rows

\* The call leaves the connection with its answer.
LEMMA LeftFine ==
  ASSUME NEW p, NEW c, NEW q, q = Left(p), Good(p), Legal(p, c), p.w.at = "inside"
  PROVE  Fine(p, c, q)
<1>1. q.w = Work("done", p.w.call, 0, None, Answer(p.db, p.w.call)) /\ q.db = p.w.txn
  BY DEF Left
<1>2. /\ q.agent = p.agent /\ q.pending = p.pending /\ q.step = p.step
      /\ q.tick = p.tick /\ q.physics = p.physics /\ q.tape = p.tape /\ q.trace = p.trace
      /\ q.lost = p.lost /\ q.seed = p.seed
  BY DEF Left
<1>3. DbOK(q.db)
  BY <1>1 DEF Good, WorkOK
<1>4. q.w.at = "done" /\ q.w.call = p.w.call /\ q.w.out = Answer(p.db, p.w.call)
  BY <1>1 DEF Work
<1>5. p.w.call.op = "list" => Rows(q.w.out)
  <2>1. p.w.call.op = "list" => p.w.call.pool = Pool /\ Answer(p.db, p.w.call) = Fetched(p.db, p.w.call)
    BY DEF Good, WorkOK, CallOK, Answer
  <2> QED BY <1>4, <2>1, FetchedOK DEF Good
<1>6. WorkOK(q.w)
  BY <1>4, <1>5 DEF WorkOK
<1>7. StepOK(q)
  BY <1>2, <1>4 DEF Good, StepOK
<1>8. Good(q)
  BY <1>2, <1>3, <1>6, <1>7 DEF Good, CountOK
<1> QED BY <1>2, <1>8, Quiet DEF Asks, Free

\* A call that waits for its thread.
LEMMA AwaitingOK ==
  ASSUME NEW c, CallOK(c)
  PROVE  WorkOK(Awaiting(c)) /\ Awaiting(c).at = "queued" /\ Awaiting(c).call = c
BY DEF Awaiting, Work, WorkOK

\* A tick begins.
LEMMA DueFine ==
  ASSUME NEW p, NEW c, NEW q, q = Due(p), Good(p), Legal(p, c), Free(p),
         p.step.at = "idle", ~(p.physics > 0)
  PROVE  Fine(p, c, q)
<1>1. q.step = [at |-> "due", serial |-> p.agent.tick]
  BY DEF Due
<1>2. /\ q.w = p.w /\ q.db = p.db /\ q.agent = p.agent
      /\ q.tick = p.tick /\ q.physics = p.physics /\ q.tape = p.tape /\ q.trace = p.trace
      /\ q.lost = p.lost /\ q.seed = p.seed
  BY DEF Due
<1>3. q.step.at = "due" /\ q.step.serial \in Nat
  BY <1>1 DEF Good
<1>4. StepOK(q)
  BY <1>2, <1>3 DEF Good, StepOK, Free, Busy, Waits
<1>5. CountOK(q)
  BY <1>2, <1>3 DEF Good, CountOK, Prompting
<1>6. Good(q)
  BY <1>2, <1>4, <1>5 DEF Good
<1> QED BY <1>2, <1>6, Quiet DEF Asks

\* The step takes what is pending.
LEMMA BegunFine ==
  ASSUME NEW p, NEW c, NEW q, q = Begun(p), Good(p), Legal(p, c), Free(p),
         p.step.at = "due"
  PROVE  Fine(p, c, q)
<1>1. q.step = [at |-> "write", serial |-> p.step.serial, n |-> 0, obs |-> p.pending,
                self |-> p.agent, new |-> {}, shift |-> None]
  BY DEF Begun
<1>2. /\ q.w = p.w /\ q.db = p.db /\ q.agent = p.agent
      /\ q.tick = p.tick /\ q.physics = p.physics /\ q.tape = p.tape /\ q.trace = p.trace
      /\ q.lost = p.lost /\ q.seed = p.seed
  BY DEF Begun
<1>3. /\ q.step.at = "write" /\ q.step.serial = p.step.serial /\ q.step.n = 0
      /\ q.step.self = p.agent /\ q.step.new = {}
  BY <1>1
<1>4. StepOK(q)
  <2>1. IsFiniteSet({})
    BY FS_EmptySet
  <2> QED BY <1>2, <1>3, <2>1 DEF Good, StepOK, Free, Busy, Waits
<1>5. CountOK(q)
  BY <1>2, <1>3 DEF Good, CountOK, Prompting
<1>6. Good(q)
  BY <1>2, <1>4, <1>5 DEF Good
<1> QED BY <1>2, <1>6, Quiet DEF Asks

\* An exception of the store leaves the step.
LEMMA GivenUpFine ==
  ASSUME NEW p, NEW c, NEW q, q = GivenUp(p), Good(p), Legal(p, c), p.w.at = "failed"
  PROVE  Fine(p, c, q)
<1>1. q.step = [at |-> "raised", new |-> p.step.new]
  BY DEF GivenUp
<1>2. /\ q.w = p.w /\ q.db = p.db /\ q.agent = p.agent
      /\ q.tick = p.tick /\ q.physics = p.physics /\ q.tape = p.tape /\ q.trace = p.trace
      /\ q.lost = p.lost /\ q.seed = p.seed
  BY DEF GivenUp
<1>3. q.step.at = "raised"
  BY <1>1
<1>4. StepOK(q)
  BY <1>2, <1>3 DEF Good, StepOK, Busy, Waits
<1>5. CountOK(q)
  BY <1>2, <1>3 DEF Good, StepOK, CountOK, Prompting, Waits
<1>6. Good(q)
  BY <1>2, <1>4, <1>5 DEF Good
<1> QED BY <1>2, <1>3, <1>6, Quiet DEF Asks, Free

\* The embeddings of the rows are asked for.
LEMMA FetchingFine ==
  ASSUME NEW p, NEW c, NEW q, q = Fetching(p), Good(p), Legal(p, c), Free(p),
         p.step.at = "rows"
  PROVE  Fine(p, c, q)
<1>1. /\ q.step = [p.step EXCEPT !.at = "vectors", !.rows = p.w.out]
      /\ q.w = Awaiting(GetEmbeddings(DOMAIN p.w.out))
  BY DEF Fetching
<1>2. /\ q.db = p.db /\ q.agent = p.agent
      /\ q.tick = p.tick /\ q.physics = p.physics /\ q.tape = p.tape /\ q.trace = p.trace
      /\ q.lost = p.lost /\ q.seed = p.seed
  BY DEF Fetching
<1> DEFINE r == [p.step EXCEPT !.at = "vectors", !.rows = p.w.out]
<1>3. r.at = "vectors"
  OBVIOUS
<1>4. r.rows = p.w.out
  OBVIOUS
<1>5. r.self = p.step.self
  OBVIOUS
<1>6. r.why = p.step.why
  OBVIOUS
<1>7. r.world = p.step.world
  OBVIOUS
<1> HIDE DEF r
<1>8. q.step = r
  BY <1>1 DEF r
<1>9. WorkOK(q.w) /\ q.w.at = "queued" /\ q.w.call.op = "vectors"
  BY <1>1, AwaitingOK DEF CallOK, GetEmbeddings
<1>10. Rows(p.w.out)
  BY DEF Good, WorkOK, StepOK, Free
<1>11. StepOK(q)
  BY <1>3, <1>4, <1>5, <1>6, <1>7, <1>8, <1>9, <1>10 DEF Good, StepOK, Busy, Waits
<1>12. CountOK(q)
  BY <1>2, <1>3, <1>6, <1>8 DEF Good, CountOK, Prompting
<1>13. Good(q)
  BY <1>2, <1>9, <1>11, <1>12 DEF Good
<1>14. Prompting(p.step) \/ q.step.why = "move"
  BY <1>6, <1>8 DEF Prompting, Good, StepOK
<1> QED BY <1>2, <1>3, <1>8, <1>13, <1>14, Quiet DEF Asks

\* The second scope is asked for.
LEMMA WidenedFine ==
  ASSUME NEW p, NEW c, NEW q, q = Widened(p), Good(p), Legal(p, c), Free(p),
         p.step.at \in {"rows", "vectors"}
  PROVE  Fine(p, c, q)
<1> DEFINE r == [p.step EXCEPT !.at = "rows", !.world = TRUE, !.rows = <<>>, !.top = Best(p)]
<1>1. q.step = r /\ q.w = Awaiting(ListWorldScope(LoopAgent, Pool))
  BY DEF Widened
<1>2. /\ q.db = p.db /\ q.agent = p.agent
      /\ q.tick = p.tick /\ q.physics = p.physics /\ q.tape = p.tape /\ q.trace = p.trace
      /\ q.lost = p.lost /\ q.seed = p.seed
  BY DEF Widened
<1>3. r.at = "rows"
  OBVIOUS
<1>4. r.self = p.step.self
  OBVIOUS
<1>5. r.why = p.step.why
  OBVIOUS
<1>6. r.world = TRUE
  OBVIOUS
<1> HIDE DEF r
<1>7. WorkOK(q.w) /\ q.w.at = "queued" /\ q.w.call.op = "list"
  BY <1>1, AwaitingOK DEF CallOK, ListWorldScope
<1>8. StepOK(q)
  BY <1>1, <1>3, <1>4, <1>5, <1>6, <1>7 DEF Good, StepOK, Busy, Waits
<1>9. CountOK(q)
  BY <1>1, <1>2, <1>3, <1>5 DEF Good, CountOK, Prompting
<1>10. Good(q)
  BY <1>2, <1>7, <1>8, <1>9 DEF Good
<1>11. Prompting(p.step) \/ q.step.why = "move"
  BY <1>1, <1>5 DEF Prompting, Good, StepOK
<1> QED BY <1>1, <1>2, <1>3, <1>10, <1>11, Quiet DEF Asks

\* The memories of the prompt are marked, or there are none.
LEMMA MarkingFine ==
  ASSUME NEW p, NEW c, NEW q, q = Marking(p), Good(p), Legal(p, c), Free(p),
         p.step.at \in {"rows", "vectors"}, p.step.why = "prompt"
  PROVE  Fine(p, c, q)
<1> DEFINE r == [Prompted(p.step) EXCEPT !.at = "mark", !.top = Best(p)]
<1>1. \/ q.step = Prompted(p.step) /\ q.w = p.w
      \/ q.step = r /\ q.w = Awaiting(MarkRecalled(Ids(Best(p))))
  BY DEF Marking
<1>2. /\ q.db = p.db /\ q.agent = p.agent
      /\ q.tick = p.tick /\ q.physics = p.physics /\ q.tape = p.tape /\ q.trace = p.trace
      /\ q.lost = p.lost /\ q.seed = p.seed
  BY DEF Marking
<1>3. Prompted(p.step).at = "chat" /\ Prompted(p.step).self = p.step.self
  BY DEF Prompted
<1>4. r.at = "mark"
  BY DEF Prompted
<1>5. r.self = Prompted(p.step).self
  BY DEF Prompted
<1> HIDE DEF r
<1>6. LET w == Awaiting(MarkRecalled(Ids(Best(p)))) IN WorkOK(w) /\ w.at = "queued"
  BY AwaitingOK DEF CallOK, MarkRecalled
<1>7. WorkOK(q.w) /\ q.step.self = p.step.self
      /\ \/ q.step.at = "chat" /\ q.w = p.w
         \/ q.step.at = "mark" /\ q.w.at = "queued"
  BY <1>1, <1>3, <1>4, <1>5, <1>6 DEF Good
<1>8. StepOK(q)
  BY <1>7 DEF Good, StepOK, Busy, Waits, Free
<1>9. CountOK(q)
  BY <1>2, <1>7 DEF Good, CountOK, Prompting
<1>10. Good(q)
  BY <1>2, <1>7, <1>8, <1>9 DEF Good
<1>11. Prompting(p.step)
  BY DEF Prompting
<1> QED BY <1>2, <1>7, <1>10, <1>11, Quiet DEF Asks

\* Once they are marked the model is asked.
LEMMA MarkedOnFine ==
  ASSUME NEW p, NEW c, NEW q, q = MarkedOn(p), Good(p), Legal(p, c), Free(p),
         p.step.at = "mark"
  PROVE  Fine(p, c, q)
<1> DEFINE r == [p.step EXCEPT !.at = "chat"]
<1>1. q.step = r
  BY DEF MarkedOn
<1>2. /\ q.w = p.w /\ q.db = p.db /\ q.agent = p.agent
      /\ q.tick = p.tick /\ q.physics = p.physics /\ q.tape = p.tape /\ q.trace = p.trace
      /\ q.lost = p.lost /\ q.seed = p.seed
  BY DEF MarkedOn
<1>3. r.at = "chat"
  OBVIOUS
<1>4. r.self = p.step.self
  OBVIOUS
<1> HIDE DEF r
<1>8. StepOK(q)
  BY <1>1, <1>2, <1>3, <1>4 DEF Good, StepOK, Busy, Waits, Free
<1>9. CountOK(q)
  BY <1>1, <1>2, <1>3 DEF Good, CountOK, Prompting
<1>10. Good(q)
  BY <1>2, <1>8, <1>9 DEF Good
<1>11. Prompting(p.step)
  BY DEF Prompting
<1> QED BY <1>1, <1>2, <1>3, <1>10, <1>11, Quiet DEF Asks

\* The move is resolved.
LEMMA MovingFine ==
  ASSUME NEW p, NEW c, NEW q, q = Moving(p), Good(p), Legal(p, c), Free(p),
         p.step.at \in {"rows", "vectors"}, p.step.why = "move"
  PROVE  Fine(p, c, q)
<1>1. q.step = Result(p.step, FALSE, Destination(Best(p), p.step.zone, p.rng.micro))
  BY DEF Moving
<1>2. /\ q.w = p.w /\ q.db = p.db /\ q.agent = p.agent
      /\ q.tick = p.tick /\ q.physics = p.physics /\ q.tape = p.tape /\ q.trace = p.trace
      /\ q.lost = p.lost /\ q.seed = p.seed
  BY DEF Moving
<1>3. q.step.at = "answered"
  BY <1>1 DEF Result
<1>4. q.step.at = "answered" /\ q.step.self.tick = p.step.self.tick + 1
  <2>1. \E x, y : q.step = Result(p.step, x, y)
    BY <1>1
  <2> QED BY <1>3, <2>1, RecordsTick
<1>8. StepOK(q)
  BY <1>2, <1>4 DEF Good, StepOK, Busy, Waits, Free
<1>9. CountOK(q)
  BY <1>2, <1>4 DEF Good, CountOK, Prompting
<1>10. Good(q)
  BY <1>2, <1>8, <1>9 DEF Good
<1> QED BY <1>2, <1>4, <1>10, Quiet DEF Asks

\* What is noted of the embeddings that were missing stays a row of labels.
LEMMA MissingOK ==
  ASSUME NEW p, Good(p), IsLabel(Label(p)), NEW up
  PROVE  AnySeq(Missing(p, up)) /\ \A l \in Range(Missing(p, up)) : IsLabel(l)
<1>1. AnySeq(p.lost) /\ \A l \in Range(p.lost) : IsLabel(l)
  BY DEF Good
<1>2. CASE up
  BY <1>1, <1>2 DEF Missing
<1>3. CASE ~up
  <2> DEFINE lost == p.lost
             label == Label(p)
  <2>1. Missing(p, up) = Append(lost, label)
    BY <1>3 DEF Missing
  <2>2. AnySeq(lost) /\ \A i \in DOMAIN lost : IsLabel(lost[i])
    BY <1>1 DEF Range
  <2>3. IsLabel(label)
    OBVIOUS
  <2> HIDE DEF lost, label
  <2>4. /\ AnySeq(Append(lost, label)) /\ Len(lost) \in Nat
        /\ Append(lost, label)[Len(lost) + 1] = label
        /\ \A i \in 1..Len(lost) : Append(lost, label)[i] = lost[i]
        /\ DOMAIN Append(lost, label) = 1..(Len(lost) + 1) /\ DOMAIN lost = 1..Len(lost)
    BY <2>2, AnyAppend
  <2>5. ASSUME NEW i \in DOMAIN Append(lost, label) PROVE IsLabel(Append(lost, label)[i])
    <3>1. i \in 1..Len(lost) \/ i = Len(lost) + 1
      BY <2>4
    <3> QED BY <2>2, <2>3, <2>4, <3>1
  <2> QED BY <2>1, <2>4, <2>5 DEF Range
<1> QED BY <1>2, <1>3

\* An observation is written, with its embedding or without.
LEMMA NotedFine ==
  ASSUME NEW p, NEW c, NEW q, q = Noted(p, c.up), Good(p), Legal(p, c), Free(p),
         p.step.at = "write"
  PROVE  Fine(p, c, q)
<1> DEFINE s == p.step
           ev == s.obs[s.n + 1]
           id == <<LoopAgent, s.serial, s.n>>
           row == [kind |-> "episodic", agent |-> LoopAgent, at |-> s.self.tick,
                   imp |-> Importance(ev), recalls |-> 0, loc |-> s.self.body, about |-> Topic(ev)]
           call == Add(id, row, IF c.up THEN Topic(ev) ELSE None)
           r == [s EXCEPT !.n = s.n + 1, !.new = s.new \cup {id}]
<1>1. q.step = r /\ q.w = Awaiting(call) /\ q.lost = Missing(p, c.up)
  BY DEF Noted
<1>2. /\ q.db = p.db /\ q.agent = p.agent
      /\ q.tick = p.tick /\ q.physics = p.physics /\ q.tape = p.tape /\ q.trace = p.trace
      /\ q.seed = p.seed
  BY DEF Noted
<1>3. r.at = s.at
  OBVIOUS
<1>4. r.n = s.n + 1
  OBVIOUS
<1>5. r.new = s.new \cup {id}
  OBVIOUS
<1>6. r.self = s.self /\ r.serial = s.serial
  OBVIOUS
<1>7. /\ s.n \in Nat /\ s.serial \in Nat /\ s.self.tick \in Nat /\ LoopAgent \in Nat
      /\ IsFiniteSet(s.new) /\ \A i \in s.new : i[3] \in Nat /\ i[3] < s.n
      /\ ~(p.physics > 0) /\ p.physics \in Nat
  BY StepAssumption, ApparatusAssumption DEF Good, StepOK, CountOK, Busy
<1>8. id \in Ids3 /\ id[3] = s.n
  BY <1>7 DEF Ids3
<1>9. RowOK(row)
  <2>1. Importance(ev) \in Int
    BY DEF Importance
  <2> QED BY <1>7, <2>1 DEF RowOK
<1>10. CallOK(call)
  <2> HIDE DEF id, row
  <2>1. call.op = "add" /\ call.id = id /\ call.row = row
    BY DEF Add
  <2> QED BY <1>8, <1>9, <2>1 DEF CallOK
<1> HIDE DEF call, id, r
<1>11. WorkOK(q.w) /\ q.w.at = "queued"
  BY <1>1, <1>10, AwaitingOK
<1>12. IsFiniteSet(r.new) /\ Cardinality(r.new) = Cardinality(s.new) + 1
       /\ Cardinality(s.new) \in Nat /\ \A i \in r.new : i[3] \in Nat /\ i[3] < r.n
  <2>1. id \notin s.new
    BY <1>7, <1>8
  <2>2. IsFiniteSet(r.new) /\ Cardinality(r.new) = Cardinality(s.new) + 1
    BY ZenonT(60), <1>5, <1>7, <2>1, FS_AddElement
  <2>3. Cardinality(s.new) \in Nat
    BY <1>7, FS_CardinalityType
  <2>4. \A i \in r.new : i[3] \in Nat /\ i[3] < r.n
    BY <1>4, <1>5, <1>7, <1>8
  <2> QED BY <2>2, <2>3, <2>4
<1>13. StepOK(q)
  BY <1>1, <1>3, <1>4, <1>6, <1>7, <1>11, <1>12 DEF StepOK, Busy, Waits
<1>14. CountOK(q)
  BY <1>1, <1>2, <1>3 DEF Good, CountOK, Prompting
<1>15. Label(p) = <<p.tick, "write", Cardinality(s.new)>>
  BY DEF Label
<1>16. IsLabel(Label(p))
  BY <1>12, <1>15 DEF IsLabel, Good
<1>17. Good(q)
  BY <1>1, <1>2, <1>11, <1>13, <1>14, <1>16, MissingOK DEF Good
<1>18. Ahead(Label(p), p)
  BY <1>7, <1>12, <1>15 DEF Ahead
<1>19. ~Ahead(Label(p), q)
  <2>1. p.tick \in Nat /\ q.step.at = "write" /\ Cardinality(q.step.new) = Cardinality(s.new) + 1
    BY <1>1, <1>3, <1>12 DEF Good
  <2> QED BY <1>2, <1>12, <1>15, <2>1 DEF Ahead, Prompting
<1>20. ASSUME NEW l, IsLabel(l), Ahead(l, q) PROVE Ahead(l, p)
  <2>1. p.tick \in Nat /\ q.step.at = "write" /\ Cardinality(q.step.new) = Cardinality(s.new) + 1
    BY <1>1, <1>3, <1>12 DEF Good
  <2>2. l[1] \in Nat /\ (l[2] = "move" \/ l[3] \in Nat)
    BY <1>20 DEF IsLabel
  <2> QED BY <1>2, <1>12, <1>20, <2>1, <2>2 DEF Ahead, Prompting
<1> QED BY <1>1, <1>2, <1>16, <1>17, <1>18, <1>19, <1>20 DEF Fine, Chats, Grows

\* The prompt is put together, with memories or without.
LEMMA FeltFine ==
  ASSUME NEW p, NEW c, NEW q, q = Felt(p, c.up), Good(p), Legal(p, c), Free(p),
         p.step.at = "write"
  PROVE  Fine(p, c, q)
<1> DEFINE s == p.step
           felt == Shifted(s)
           query == IF felt.obs = <<>> THEN None ELSE Topic(Last(felt.obs))
           asked == Retrieving(felt, "prompt", query)
<1>1. /\ q.step = IF c.up THEN asked ELSE Prompted(felt)
      /\ q.w = IF c.up THEN Awaiting(ListByAgent(LoopAgent, Pool)) ELSE p.w
      /\ q.lost = Missing(p, c.up)
  BY DEF Felt
<1>2. /\ q.db = p.db /\ q.agent = p.agent
      /\ q.tick = p.tick /\ q.physics = p.physics /\ q.tape = p.tape /\ q.trace = p.trace
      /\ q.seed = p.seed
  BY DEF Felt
<1>3. felt.self.tick = s.self.tick
  BY RecordsTick
<1>4. asked.at = "rows" /\ asked.why = "prompt" /\ asked.self = felt.self
  BY DEF Retrieving
<1>5. asked.world = FALSE
  BY DEF Retrieving
<1>6. Prompted(felt).at = "chat" /\ Prompted(felt).self = felt.self
  BY DEF Prompted
<1> HIDE DEF asked, query, felt
<1>7. /\ s.self.tick \in Nat /\ IsFiniteSet(s.new) /\ ~(p.physics > 0) /\ p.physics \in Nat
  BY DEF Good, StepOK, CountOK, Busy
<1>8. LET w == Awaiting(ListByAgent(LoopAgent, Pool)) IN
      WorkOK(w) /\ w.at = "queued" /\ w.call.op = "list"
  BY AwaitingOK DEF CallOK, ListByAgent
<1>9. /\ WorkOK(q.w) /\ q.step.self.tick \in Nat
      /\ \/ /\ q.step.at = "rows" /\ q.step.why = "prompt" /\ q.step.world = FALSE
            /\ q.w.at = "queued" /\ q.w.call.op = "list"
         \/ q.step.at = "chat" /\ q.w = p.w
  BY <1>1, <1>3, <1>4, <1>5, <1>6, <1>7, <1>8 DEF Good
<1>10. StepOK(q)
  BY <1>9 DEF Good, StepOK, Busy, Waits, Free
<1>11. CountOK(q)
  BY <1>2, <1>9 DEF Good, CountOK, Prompting
<1>12. Cardinality(s.new) \in Nat
  BY <1>7, FS_CardinalityType
<1>13. Label(p) = <<p.tick, "write", Cardinality(s.new)>>
  BY DEF Label
<1>14. IsLabel(Label(p))
  BY <1>12, <1>13 DEF IsLabel, Good
<1>15. Good(q)
  BY <1>1, <1>2, <1>9, <1>10, <1>11, <1>14, MissingOK DEF Good
<1>16. Ahead(Label(p), p)
  BY <1>7, <1>12, <1>13 DEF Ahead
<1>17. ~Ahead(Label(p), q)
  BY <1>2, <1>9, <1>13 DEF Ahead, Good
<1>18. ASSUME NEW l, IsLabel(l), Ahead(l, q) PROVE Ahead(l, p)
  BY <1>2, <1>9, <1>18 DEF Ahead, Prompting
<1> QED BY <1>1, <1>2, <1>14, <1>15, <1>16, <1>17, <1>18 DEF Fine, Chats, Grows

\* The model answers.
LEMMA AnsweringFine ==
  ASSUME NEW p, NEW c, NEW q, q = Answering(p, c.said, c.up), Good(p), Legal(p, c), Free(p),
         p.step.at = "chat"
  PROVE  Fine(p, c, q)
<1> DEFINE s == p.step
           zone == Wanted(p, c.said)
<1>1. /\ q.db = p.db /\ q.agent = p.agent
      /\ q.tick = p.tick /\ q.physics = p.physics /\ q.trace = p.trace /\ q.seed = p.seed
  BY DEF Answering
<1>2. q.tape = Append(p.tape, c.said)
  BY DEF Answering
<1>3. q.lost = Missing(p, c.up)
  BY DEF Answering
<1>4. \/ (\E x, y : q.step = Result(s, x, y)) /\ q.w = p.w
      \/ q.step = [at |-> "raised", new |-> s.new] /\ q.w = p.w
      \/ /\ q.step = [Retrieving(s, "move", "forage") EXCEPT !.zone = zone]
         /\ q.w = Awaiting(ListByAgent(LoopAgent, Pool))
  <2>1. CASE c.said \in Wordless
    <3>1. q.step = Result(s, TRUE, NoMove)
      BY <2>1 DEF Answering
    <3>2. q.w = p.w
      BY <2>1 DEF Answering
    <3> QED BY <3>1, <3>2
  <2>2. CASE c.said \notin Wordless /\ zone = None
    <3>1. q.step = Result(s, FALSE, NoMove)
      BY <2>2 DEF Answering
    <3>2. q.w = p.w
      BY <2>2 DEF Answering
    <3> QED BY <3>1, <3>2
  <2>3. CASE c.said \notin Wordless /\ zone # None /\ ~c.up
    BY <2>3 DEF Answering
  <2>4. CASE c.said \notin Wordless /\ zone # None /\ c.up
    BY <2>4 DEF Answering
  <2> QED BY <2>1, <2>2, <2>3, <2>4
<1>5. \A x, y : Result(s, x, y).at = "answered"
  BY DEF Result
<1> DEFINE r == [Retrieving(s, "move", "forage") EXCEPT !.zone = zone]
<1>6. r.at = "rows" /\ r.why = "move" /\ r.self = s.self
  BY DEF Retrieving
<1>7. r.world = FALSE
  BY DEF Retrieving
<1>8. LET w == Awaiting(ListByAgent(LoopAgent, Pool)) IN
      WorkOK(w) /\ w.at = "queued" /\ w.call.op = "list"
  BY AwaitingOK DEF CallOK, ListByAgent
<1>9. s.self.tick \in Nat /\ p.physics \in Nat /\ ~(p.physics > 0) /\ Len(p.tape) = p.tick
      /\ p.tick \in Nat
  BY DEF Good, StepOK, CountOK, Busy, Prompting
<1> HIDE DEF r
<1>10. /\ WorkOK(q.w)
       /\ \/ q.step.at = "answered" /\ q.step.self.tick \in Nat /\ q.w = p.w
          \/ q.step.at = "raised" /\ q.w = p.w
          \/ /\ q.step.at = "rows" /\ q.step.why = "move" /\ q.step.world = FALSE
             /\ q.step.self.tick \in Nat /\ q.w.at = "queued" /\ q.w.call.op = "list"
  <2>1. CASE (\E x, y : q.step = Result(s, x, y)) /\ q.w = p.w
    BY <1>5, <1>9, <2>1, RecordsTick DEF Good
  <2>2. CASE q.step = [at |-> "raised", new |-> s.new] /\ q.w = p.w
    BY <2>2 DEF Good
  <2>3. CASE q.step = r /\ q.w = Awaiting(ListByAgent(LoopAgent, Pool))
    BY <1>6, <1>7, <1>8, <1>9, <2>3
  <2> QED BY <1>4, <2>1, <2>2, <2>3 DEF r
<1>11. AnySeq(q.tape) /\ Len(q.tape) = p.tick + 1
  BY <1>2, <1>9, AnyAppend DEF Good
<1>12. StepOK(q)
  BY <1>10 DEF Good, StepOK, Busy, Waits, Free
<1>13. CountOK(q)
  BY <1>1, <1>9, <1>10, <1>11 DEF CountOK, Prompting
<1>14. Label(p) = <<p.tick, "move">>
  BY DEF Label
<1>15. IsLabel(Label(p))
  BY <1>9, <1>14 DEF IsLabel
<1>16. Good(q)
  BY <1>1, <1>3, <1>10, <1>11, <1>12, <1>13, <1>15, MissingOK DEF Good
<1>17. Ahead(Label(p), p)
  BY <1>9, <1>14 DEF Ahead, Prompting
<1>18. ~Ahead(Label(p), q)
  BY <1>1, <1>9, <1>10, <1>14 DEF Ahead, Prompting
<1>19. ASSUME NEW l, IsLabel(l), Ahead(l, q) PROVE Ahead(l, p)
  BY <1>1, <1>10, <1>19 DEF Ahead, Prompting
<1> QED BY <1>1, <1>2, <1>3, <1>15, <1>16, <1>17, <1>18, <1>19 DEF Fine, Chats, Grows

\* The result is consumed and the decision recorded.
LEMMA SettledFine ==
  ASSUME NEW p, NEW c, NEW q, q = Settled(p), Good(p), Legal(p, c), Free(p),
         p.step.at = "answered"
  PROVE  Fine(p, c, q)
<1>1. /\ q.step = Idle /\ q.agent = p.step.self /\ q.physics = PhysicsPerTick
      /\ q.trace = Append(p.trace, <<"decision", p.tick, Last(p.tape), p.step.fell, p.step.move>>)
  BY DEF Settled
<1>2. /\ q.w = p.w /\ q.db = p.db /\ q.tick = p.tick /\ q.tape = p.tape
      /\ q.lost = p.lost /\ q.seed = p.seed
  BY DEF Settled
<1>3. q.step.at = "idle"
  BY <1>1 DEF Idle
<1>4. /\ PhysicsPerTick \in Nat /\ PhysicsPerTick > 0 /\ p.step.self.tick \in Nat
      /\ Len(p.tape) = p.tick + 1
  BY ApparatusAssumption DEF Good, StepOK, CountOK, Busy
<1>5. AnySeq(q.trace)
  <2>1. AnySeq(p.trace)
    BY DEF Good
  <2> DEFINE x == <<"decision", p.tick, Last(p.tape), p.step.fell, p.step.move>>
  <2> HIDE DEF x
  <2>2. AnySeq(Append(p.trace, x))
    BY <2>1, AnyAppend
  <2> QED BY <1>1, <2>2 DEF x
<1>6. StepOK(q)
  BY <1>2, <1>3 DEF Good, StepOK, Free, Busy, Waits
<1>7. CountOK(q)
  BY <1>1, <1>2, <1>3, <1>4 DEF CountOK, Prompting
<1>8. Good(q)
  BY <1>1, <1>2, <1>4, <1>5, <1>6, <1>7 DEF Good
<1>9. \A l : Ahead(l, q) => Ahead(l, p)
  BY <1>1, <1>2, <1>4 DEF Ahead
<1>10. c.up /\ ~Asks(p) /\ ~Chats(p)
  BY DEF Asks, Chats, Legal
<1> QED BY <1>1, <1>2, <1>8, <1>9, <1>10 DEF Fine, Missing, Grows

\* A physics tick passes.
LEMMA PassedFine ==
  ASSUME NEW p, NEW c, NEW q, q = Passed(p), Good(p), Legal(p, c), Free(p),
         p.step.at = "idle", p.physics > 0
  PROVE  Fine(p, c, q)
<1> DEFINE there == StepKinematics(p.agent.body, p.heading, Speed)
           row == <<"row", p.tick, there, p.move>>
<1>1. /\ q.agent = [p.agent EXCEPT !.body = there] /\ q.physics = p.physics - 1
      /\ q.tick = IF p.physics = 1 THEN p.tick + 1 ELSE p.tick
      /\ q.trace = Append(p.trace, row)
  BY DEF Passed
<1>2. /\ q.w = p.w /\ q.db = p.db /\ q.step = p.step /\ q.tape = p.tape
      /\ q.lost = p.lost /\ q.seed = p.seed
  BY DEF Passed
<1>3. [p.agent EXCEPT !.body = there].tick = p.agent.tick
  OBVIOUS
<1> HIDE DEF there, row
<1>4. p.physics \in Nat /\ p.tick \in Nat /\ p.agent.tick \in Nat /\ Len(p.tape) = p.tick + 1
  BY DEF Good, CountOK
<1>5. AnySeq(q.trace)
  <2>1. AnySeq(p.trace)
    BY DEF Good
  <2>2. AnySeq(Append(p.trace, row))
    BY <2>1, AnyAppend
  <2> QED BY <1>1, <2>2
<1>6. StepOK(q)
  BY <1>2 DEF Good, StepOK, Free, Busy, Waits
<1>7. CountOK(q)
  BY <1>1, <1>2, <1>4 DEF CountOK, Prompting
<1>8. Good(q)
  BY <1>1, <1>2, <1>3, <1>4, <1>5, <1>6, <1>7 DEF Good
<1>9. \A l : IsLabel(l) /\ Ahead(l, q) => Ahead(l, p)
  BY <1>1, <1>2, <1>4 DEF Ahead, IsLabel
<1>10. c.up /\ ~Asks(p) /\ ~Chats(p)
  BY DEF Asks, Chats, Legal
<1> QED BY <1>1, <1>2, <1>8, <1>9, <1>10 DEF Fine, Missing, Grows

\* What a step makes of a good state is good, whatever it chooses.
LEMMA AfterFine ==
  ASSUME NEW p, NEW c, Good(p), Legal(p, c), p.step.at # "raised"
  PROVE  Fine(p, c, After(p, c))
<1>1. CASE p.w.at = "queued"
  BY <1>1, EnteredFine DEF After
<1>2. CASE p.w.at = "inside"
  <2>1. CASE p.w.n < StatementsOf(p.w.call)
    BY <1>2, <2>1, ExecutedFine DEF After
  <2>2. CASE ~(p.w.n < StatementsOf(p.w.call))
    BY <1>2, <2>2, LeftFine DEF After
  <2> QED BY <2>1, <2>2
<1>3. CASE p.w.at = "failed"
  <2>1. p.step.at \in {"write", "rows", "vectors", "mark"}
    BY <1>3 DEF Good, StepOK, Waits
  <2>2. After(p, c) = GivenUp(p)
    BY <1>3, <2>1 DEF After
  <2> QED BY <1>3, <2>2, GivenUpFine
<1>4. CASE Free(p)
  <2>1. p.w.at \notin {"queued", "inside", "failed"}
    BY <1>4 DEF Free
  <2>2. p.step.at \in Busy \cup {"idle", "due"}
    BY DEF Good, StepOK
  <2>3. CASE p.step.at = "idle"
    BY <1>4, <2>1, <2>3, PassedFine, DueFine DEF After
  <2>4. CASE p.step.at = "due"
    BY <1>4, <2>1, <2>4, BegunFine DEF After
  <2>5. CASE p.step.at = "chat"
    BY <1>4, <2>1, <2>5, AnsweringFine DEF After
  <2>6. CASE p.step.at = "answered"
    BY <1>4, <2>1, <2>6, SettledFine DEF After
  <2>7. CASE p.step.at = "write"
    BY <1>4, <2>1, <2>7, NotedFine, FeltFine DEF After
  <2>8. CASE p.step.at = "mark"
    BY <1>4, <2>1, <2>8, MarkedOnFine DEF After
  <2>9. CASE p.step.at \in {"rows", "vectors"}
    <3>1. CASE p.step.at = "rows" /\ p.w.out # <<>>
      BY <1>4, <2>1, <3>1, FetchingFine DEF After
    <3>2. CASE ~(p.step.at = "rows" /\ p.w.out # <<>>) /\ ~p.step.world
      <4>1. After(p, c) = Widened(p)
        BY <2>1, <2>9, <3>2 DEF After
      <4> QED BY <1>4, <2>9, <4>1, WidenedFine
    <3>3. CASE ~(p.step.at = "rows" /\ p.w.out # <<>>) /\ p.step.world /\ p.step.why = "prompt"
      <4>1. After(p, c) = Marking(p)
        BY <2>1, <2>9, <3>3 DEF After
      <4> QED BY <1>4, <2>9, <3>3, <4>1, MarkingFine
    <3>4. CASE ~(p.step.at = "rows" /\ p.w.out # <<>>) /\ p.step.world /\ p.step.why # "prompt"
      <4>1. After(p, c) = Moving(p) /\ p.step.why = "move"
        BY <2>1, <2>9, <3>4 DEF After, Good, StepOK
      <4> QED BY <1>4, <2>9, <4>1, MovingFine
    <3> QED BY <3>1, <3>2, <3>3, <3>4
  <2> QED BY <2>2, <2>3, <2>4, <2>5, <2>6, <2>7, <2>8, <2>9 DEF Busy
<1> QED BY <1>1, <1>2, <1>3, <1>4 DEF Good, WorkOK, Free

-----------------------------------------------------------------------------
(* A run of the loop is a run of that machine: every action of Apparatus that *)
(* moves the loop is a step of it.                                          *)

Choice(said, up) == [said |-> said, up |-> up]

\* What the loop relies on: one thread and one step are all that goes on.
OnlyHere ==
  /\ \A t \in Thread : t # LoopAgent => thread[t].at = "idle"
  /\ \A a \in Agents : a # LoopAgent => step[a].at = "idle"

LoopState ==
  /\ StoreInv /\ WorldInv /\ OnlyHere /\ Good(Here) /\ ecl /\ Looping
  /\ fails.embedding \in Nat

\* A step of the loop is a step of its state.
Goes(said, up) ==
  /\ Here' = After(Here, Choice(said, up)) /\ Legal(Here, Choice(said, up))
  /\ step[LoopAgent].at # "raised"

\* What the state is made of, now ...
LEMMA HereFields ==
  /\ Here.w.at = thread[LoopAgent].at /\ Here.w.call = thread[LoopAgent].call
  /\ Here.w.n = thread[LoopAgent].n /\ Here.w.txn = thread[LoopAgent].txn
  /\ Here.w.out = thread[LoopAgent].out
  /\ Here.db = db /\ Here.agent = agent[LoopAgent] /\ Here.pending = pending[LoopAgent]
  /\ Here.step = step[LoopAgent] /\ Here.rng = rng /\ Here.heading = heading[LoopAgent]
  /\ Here.prop = dist.prop[LoopAgent] /\ Here.tick = loop.tick /\ Here.physics = loop.physics
  /\ Here.tape = loop.tape /\ Here.trace = loop.trace /\ Here.lost = loop.lost
  /\ Here.move = loop.move /\ Here.seed = loop.seed
BY DEF Here, Work

\* ... and next.
LEMMA HereFieldsNext ==
  /\ Here'.w = Work(thread'[LoopAgent].at, thread'[LoopAgent].call, thread'[LoopAgent].n,
                    thread'[LoopAgent].txn, thread'[LoopAgent].out)
  /\ Here'.db = db' /\ Here'.agent = agent'[LoopAgent] /\ Here'.pending = pending'[LoopAgent]
  /\ Here'.step = step'[LoopAgent] /\ Here'.rng = rng' /\ Here'.heading = heading'[LoopAgent]
  /\ Here'.prop = dist'.prop[LoopAgent] /\ Here'.tick = loop'.tick /\ Here'.physics = loop'.physics
  /\ Here'.tape = loop'.tape /\ Here'.trace = loop'.trace /\ Here'.lost = loop'.lost
  /\ Here'.move = loop'.move /\ Here'.seed = loop'.seed
BY DEF Here

\* What a state consists of.
Fields == {"w", "db", "agent", "pending", "step", "rng", "heading", "prop", "tick", "physics",
           "tape", "trace", "lost", "move", "seed"}
IsState(p) == p = [x \in Fields |-> p[x]]

\* It has these parts and no others.
LEMMA HereIsState == IsState(Here) /\ IsState(Here')
<1>1. IsState(Here)
  BY DEF IsState, Here, Fields
<1>2. IsState(Here')
  BY DEF IsState, Here, Fields
<1> QED BY <1>1, <1>2

\* States that agree in all their parts are the same.
LEMMA SameState ==
  ASSUME NEW p, IsState(p), NEW q, IsState(q),
         q.w = p.w, q.db = p.db, q.agent = p.agent, q.pending = p.pending, q.step = p.step,
         q.rng = p.rng, q.heading = p.heading, q.prop = p.prop, q.tick = p.tick,
         q.physics = p.physics, q.tape = p.tape, q.trace = p.trace, q.lost = p.lost,
         q.move = p.move, q.seed = p.seed
  PROVE  p = q
BY DEF IsState, Fields

\* So is what follows a state.
LEMMA AfterIsState ==
  ASSUME NEW p, IsState(p), NEW c
  PROVE  IsState(After(p, c))
<1>1. IsState(Entered(p)) /\ IsState(Executed(p)) /\ IsState(Left(p))
  BY ZenonT(60) DEF IsState, Entered, Executed, Left
<1>2. IsState(Due(p)) /\ IsState(Begun(p)) /\ IsState(Settled(p)) /\ IsState(Passed(p))
  BY DEF IsState, Due, Begun, Settled, Passed
<1>3. IsState(GivenUp(p)) /\ IsState(MarkedOn(p)) /\ IsState(Fetching(p)) /\ IsState(Widened(p))
  BY DEF IsState, GivenUp, MarkedOn, Fetching, Widened
<1>4. IsState(Marking(p)) /\ IsState(Moving(p))
  BY ZenonT(60) DEF IsState, Marking, Moving
<1>5. IsState(Noted(p, c.up)) /\ IsState(Felt(p, c.up))
  BY ZenonT(60) DEF IsState, Noted, Felt
<1>6. IsState(Answering(p, c.said, c.up))
  BY DEF IsState, Answering
<1> QED BY <1>1, <1>2, <1>3, <1>4, <1>5, <1>6 DEF After

\* The parts of a choice.
LEMMA ChoiceIs ==
  ASSUME NEW said, NEW up
  PROVE  Choice(said, up).said = said /\ Choice(said, up).up = up
BY DEF Choice

\* Where the model is not asked it says nothing.
LEMMA SilentLegal ==
  ASSUME NEW p, p.step.at # "chat"
  PROVE  Legal(p, Choice(None, TRUE))
BY DEF Legal, Choice

\* One thread moves on.
LEMMA OneThread ==
  ASSUME thread = [t \in Thread |-> thread[t]], NEW r, thread' = [thread EXCEPT ![LoopAgent] = r]
  PROVE  thread'[LoopAgent] = r /\ \A t \in Thread : t # LoopAgent => thread'[t] = thread[t]
<1>1. LoopAgent \in Thread
  BY StepAssumption, ApparatusAssumption
<1> QED BY <1>1

\* One step moves on.
LEMMA OneStep ==
  ASSUME step = [a \in Agents |-> step[a]], NEW r, step' = [step EXCEPT ![LoopAgent] = r]
  PROVE  step'[LoopAgent] = r /\ \A a \in Agents : a # LoopAgent => step'[a] = step[a]
<1>1. LoopAgent \in Agents
  BY ApparatusAssumption
<1> QED BY <1>1

\* A call is submitted: the agent awaits it.
LEMMA SubmitHere ==
  ASSUME thread = [t \in Thread |-> thread[t]], NEW c, Submit(LoopAgent, c)
  PROVE  /\ Work(thread'[LoopAgent].at, thread'[LoopAgent].call, thread'[LoopAgent].n,
                 thread'[LoopAgent].txn, thread'[LoopAgent].out) = Awaiting(c)
         /\ UNCHANGED db
         /\ \A t \in Thread : t # LoopAgent => thread'[t] = thread[t]
<1>1. thread' = [thread EXCEPT ![LoopAgent] = Outside("queued", c, None)] /\ UNCHANGED db
  BY DEF Submit
<1>2. thread'[LoopAgent] = Outside("queued", c, None)
      /\ \A t \in Thread : t # LoopAgent => thread'[t] = thread[t]
  BY <1>1, OneThread
<1> QED BY <1>1, <1>2 DEF Outside, Awaiting

\* The thread of the agent enters the connection.
LEMMA EnterGoes ==
  ASSUME LoopState, Enter(LoopAgent), UNCHANGED <<stepVars, heading, dist, world, loop>>
  PROVE  Goes(None, TRUE) /\ OnlyHere'
<1> DEFINE v == Work("inside", thread[LoopAgent].call, 0, db, None)
<1>1. /\ thread[LoopAgent].at = "queued" /\ UNCHANGED db
      /\ thread' = [thread EXCEPT ![LoopAgent] = Running(thread[LoopAgent].call, 0, conn', db)]
  BY DEF Enter
<1>2. /\ thread'[LoopAgent] = Running(thread[LoopAgent].call, 0, conn', db)
      /\ \A t \in Thread : t # LoopAgent => thread'[t] = thread[t]
  BY <1>1, OneThread DEF LoopState, StoreInv
<1>3. Work(thread'[LoopAgent].at, thread'[LoopAgent].call, thread'[LoopAgent].n,
           thread'[LoopAgent].txn, thread'[LoopAgent].out) = v
  BY <1>2 DEF Running
<1>4. Entered(Here) = [Here EXCEPT !.w = v]
  BY HereFields DEF Entered
<1> HIDE DEF v
<1>5. Here' = [Here EXCEPT !.w = v]
  BY <1>1, <1>3 DEF Here, stepVars
<1>6. /\ step[LoopAgent].at \notin {"chat", "raised"}
  BY <1>1, HereFields DEF LoopState, Good, StepOK, Waits
<1>7. After(Here, Choice(None, TRUE)) = Entered(Here)
  BY <1>1, HereFields DEF After
<1>8. OnlyHere'
  BY <1>2 DEF LoopState, OnlyHere, stepVars
<1> QED BY <1>4, <1>5, <1>6, <1>7, <1>8, HereFields, SilentLegal DEF Goes

\* It executes a statement.
LEMMA ExecuteGoes ==
  ASSUME LoopState, Execute(LoopAgent), UNCHANGED <<stepVars, heading, dist, world, loop>>
  PROVE  Goes(None, TRUE) /\ OnlyHere'
<1> DEFINE t == thread[LoopAgent]
           d == Statement(t.call, t.n + 1, db, t.txn)
           v == IF d # Fails THEN Work("inside", t.call, t.n + 1, d, None)
                ELSE Work("failed", t.call, 0, None, None)
           r == IF d # Fails THEN Running(t.call, t.n + 1, t.conn, d)
                ELSE Outside("failed", t.call, None)
<1>1. /\ t.at = "inside" /\ t.n < StatementsOf(t.call) /\ UNCHANGED db
      /\ thread' = [thread EXCEPT ![LoopAgent] = r]
  BY DEF Execute
<1>2. thread'[LoopAgent] = r /\ \A u \in Thread : u # LoopAgent => thread'[u] = thread[u]
  BY <1>1, OneThread DEF LoopState, StoreInv
<1>4. Executed(Here) = [Here EXCEPT !.w = v]
  BY HereFields DEF Executed
<1> HIDE DEF d
<1>3. Work(thread'[LoopAgent].at, thread'[LoopAgent].call, thread'[LoopAgent].n,
           thread'[LoopAgent].txn, thread'[LoopAgent].out) = v
  BY <1>2 DEF Running, Outside
<1> HIDE DEF v, r
<1>5. Here' = [Here EXCEPT !.w = v]
  BY <1>1, <1>3 DEF Here, stepVars
<1>6. /\ step[LoopAgent].at \notin {"chat", "raised"}
  BY <1>1, HereFields DEF LoopState, Good, StepOK, Waits
<1>7. After(Here, Choice(None, TRUE)) = Executed(Here)
  BY <1>1, HereFields DEF After
<1>8. OnlyHere'
  BY <1>2 DEF LoopState, OnlyHere, stepVars
<1> QED BY <1>4, <1>5, <1>6, <1>7, <1>8, HereFields, SilentLegal DEF Goes

\* It leaves the connection.
LEMMA LeaveGoes ==
  ASSUME LoopState, Leave(LoopAgent), UNCHANGED <<stepVars, heading, dist, world, loop>>
  PROVE  Goes(None, TRUE) /\ OnlyHere'
<1> DEFINE t == thread[LoopAgent]
           v == Work("done", t.call, 0, None, Answer(db, t.call))
           r == Outside("done", t.call, Answer(db, t.call))
           x == t.txn
<1>1. /\ t.at = "inside" /\ t.n = StatementsOf(t.call) /\ db' = x
      /\ thread' = [thread EXCEPT ![LoopAgent] = r]
  BY DEF Leave
<1>2. thread'[LoopAgent] = r /\ \A u \in Thread : u # LoopAgent => thread'[u] = thread[u]
  BY <1>1, OneThread DEF LoopState, StoreInv
<1>3. Here'.w = v
  BY <1>2, HereFieldsNext DEF Outside
<1> DEFINE q == Left(Here)
<1>4. /\ q.w = Here'.w /\ q.db = Here'.db
      /\ q.agent = Here'.agent /\ q.pending = Here'.pending /\ q.step = Here'.step
      /\ q.rng = Here'.rng /\ q.heading = Here'.heading /\ q.prop = Here'.prop
      /\ q.tick = Here'.tick /\ q.physics = Here'.physics
      /\ q.tape = Here'.tape /\ q.trace = Here'.trace /\ q.lost = Here'.lost
      /\ q.move = Here'.move /\ q.seed = Here'.seed
  BY <1>1, <1>3, HereFields, HereFieldsNext DEF Left, stepVars
<1>6. /\ step[LoopAgent].at \notin {"chat", "raised"}
  BY <1>1, HereFields DEF LoopState, Good, StepOK, Waits
<1>7. After(Here, Choice(None, TRUE)) = q
  <2>1. ~(Here.w.n < StatementsOf(Here.w.call))
    BY <1>1, HereFields DEF LoopState, Good, WorkOK
  <2> QED BY <1>1, <2>1, HereFields DEF After
<1>8. OnlyHere'
  BY <1>2 DEF LoopState, OnlyHere, stepVars
<1> HIDE DEF q
<1>9. Here' = After(Here, Choice(None, TRUE))
  BY <1>4, <1>7, SameState, AfterIsState, HereIsState
<1> QED BY <1>6, <1>8, <1>9, HereFields, SilentLegal DEF Goes

\* Two states are the same in all their parts.
Same(q, p) ==
  /\ q.w = p.w /\ q.db = p.db /\ q.agent = p.agent /\ q.pending = p.pending /\ q.step = p.step
  /\ q.rng = p.rng /\ q.heading = p.heading /\ q.prop = p.prop /\ q.tick = p.tick
  /\ q.physics = p.physics /\ q.tape = p.tape /\ q.trace = p.trace /\ q.lost = p.lost
  /\ q.move = p.move /\ q.seed = p.seed

\* A step that arrives at the state that follows.
LEMMA Arrived ==
  ASSUME NEW said, NEW up, Same(After(Here, Choice(said, up)), Here'),
         Legal(Here, Choice(said, up)), step[LoopAgent].at # "raised"
  PROVE  Goes(said, up)
BY SameState, AfterIsState, HereIsState DEF Same, Goes

\* No embedding was asked for.
LEMMA NoOutage ==
  ASSUME UNCHANGED fails, loop' = Outages(LoopAgent)
  PROVE  loop' = loop
BY DEF Outages

\* One step of one agent is no step of another.
LEMMA OthersRest ==
  ASSUME LoopState,
         \A t \in Thread : t # LoopAgent => thread'[t] = thread[t],
         \A a \in Agents : a # LoopAgent => step'[a] = step[a]
  PROVE  OnlyHere'
BY DEF LoopState, OnlyHere

\* The store stays as it is.
LEMMA Stay ==
  ASSUME UNCHANGED storeVars
  PROVE  /\ \A t \in Thread : thread'[t] = thread[t]
         /\ UNCHANGED <<thread, db>>
BY DEF storeVars

\* The step of the agent begins.
LEMMA BeginGoes ==
  ASSUME LoopState, Begin(LoopAgent), loop' = Outages(LoopAgent), UNCHANGED <<heading, dist, world>>
  PROVE  Goes(None, TRUE) /\ OnlyHere'
<1> DEFINE r == [at |-> "write", serial |-> step[LoopAgent].serial, n |-> 0,
                 obs |-> pending[LoopAgent], self |-> agent[LoopAgent], new |-> {},
                 shift |-> None]
<1>1. /\ step[LoopAgent].at = "due" /\ step' = [step EXCEPT ![LoopAgent] = r]
      /\ pending' = [pending EXCEPT ![LoopAgent] = <<>>]
      /\ UNCHANGED <<agent, rng, fails, storeVars>>
  BY DEF Begin
<1>2. step'[LoopAgent] = r /\ \A a \in Agents : a # LoopAgent => step'[a] = step[a]
  BY <1>1, OneStep DEF LoopState, WorldInv
<1>3. pending'[LoopAgent] = <<>>
  BY <1>1, ApparatusAssumption DEF LoopState, WorldInv
<1>4. loop' = loop
  BY <1>1, NoOutage
<1>5. thread[LoopAgent].at \notin {"queued", "inside"}
  BY <1>1, HereFields DEF LoopState, Good, StepOK, Waits
<1>6. After(Here, Choice(None, TRUE)) = Begun(Here)
  BY <1>1, <1>5, HereFields DEF After
<1>7. Begun(Here).step = r
  BY HereFields DEF Begun
<1> HIDE DEF r
<1>8. Same(Begun(Here), Here')
  BY ZenonT(60), <1>1, <1>2, <1>3, <1>4, <1>7, HereFields, HereFieldsNext, Stay DEF Same, Begun, Here
<1>9. Legal(Here, Choice(None, TRUE))
  BY <1>1, HereFields, SilentLegal
<1> QED BY <1>1, <1>2, <1>6, <1>8, <1>9, Arrived, OthersRest, Stay

\* It raises what the store raised.
LEMMA RaisedGoes ==
  ASSUME LoopState, StoreRaised(LoopAgent), loop' = Outages(LoopAgent),
         UNCHANGED <<heading, dist, world>>
  PROVE  Goes(None, TRUE) /\ OnlyHere'
<1> DEFINE r == [at |-> "raised", new |-> step[LoopAgent].new]
<1>1. /\ step[LoopAgent].at \in {"write", "mark", "rows", "vectors"}
      /\ thread[LoopAgent].at = "failed" /\ step' = [step EXCEPT ![LoopAgent] = r]
      /\ UNCHANGED <<agent, pending, rng, fails, storeVars>>
  BY DEF StoreRaised
<1>2. step'[LoopAgent] = r /\ \A a \in Agents : a # LoopAgent => step'[a] = step[a]
  BY <1>1, OneStep DEF LoopState, WorldInv
<1>4. loop' = loop
  BY <1>1, NoOutage
<1>6. After(Here, Choice(None, TRUE)) = GivenUp(Here)
  BY <1>1, HereFields DEF After
<1>7. GivenUp(Here).step = r
  BY HereFields DEF GivenUp
<1> HIDE DEF r
<1>8. Same(GivenUp(Here), Here')
  BY <1>1, <1>2, <1>4, <1>7, HereFields, HereFieldsNext, Stay DEF Same, GivenUp, Here
<1>9. Legal(Here, Choice(None, TRUE))
  BY <1>1, HereFields, SilentLegal
<1> QED BY <1>1, <1>2, <1>6, <1>8, <1>9, Arrived, OthersRest, Stay

\* What an embedding that is missing adds.
LEMMA Outage ==
  ASSUME LoopState, NEW up \in BOOLEAN, Embeds(up), loop' = Outages(LoopAgent),
         step[LoopAgent].at = "write"
  PROVE  /\ loop'.lost = Missing(Here, up) /\ loop'.tick = loop.tick
         /\ loop'.physics = loop.physics /\ loop'.tape = loop.tape /\ loop'.trace = loop.trace
         /\ loop'.move = loop.move /\ loop'.seed = loop.seed
<1>1. CASE up
  BY <1>1, NoOutage, HereFields DEF Embeds, Missing
<1>2. CASE ~up
  <2> DEFINE l == <<loop.tick, step[LoopAgent].at, Cardinality(step[LoopAgent].new)>>
  <2>1. fails' = [fails EXCEPT !.embedding = fails.embedding + 1]
    BY <1>2 DEF Embeds
  <2>2. fails'.embedding # fails.embedding
    BY <2>1 DEF LoopState
  <2>3. l = Label(Here)
    BY HereFields DEF Label
  <2>4. loop' = [loop EXCEPT !.lost = Append(loop.lost, l)]
    BY <2>2 DEF Outages, LoopState
  <2> HIDE DEF l
  <2> QED BY <1>2, <2>3, <2>4, HereFields DEF Missing
<1> QED BY <1>1, <1>2

\* It writes an observation.
LEMMA WriteGoes ==
  ASSUME LoopState, NEW up \in BOOLEAN, WriteObservation(LoopAgent, up),
         loop' = Outages(LoopAgent), UNCHANGED <<heading, dist, world>>
  PROVE  Goes(None, up) /\ OnlyHere'
<1> DEFINE s == step[LoopAgent]
           ev == s.obs[s.n + 1]
           id == <<LoopAgent, s.serial, s.n>>
           row == [kind |-> "episodic", agent |-> LoopAgent, at |-> s.self.tick,
                   imp |-> Importance(ev), recalls |-> 0, loc |-> s.self.body,
                   about |-> Topic(ev)]
           call == Add(id, row, IF up THEN Topic(ev) ELSE None)
           r == [s EXCEPT !.n = s.n + 1, !.new = s.new \cup {id}]
<1>1. /\ s.at = "write" /\ s.n < Len(s.obs) /\ (s.n > 0 => thread[LoopAgent].at = "done")
      /\ Embeds(up) /\ UNCHANGED <<agent, pending, rng>>
  BY DEF WriteObservation, Answered
<1>2. Submit(LoopAgent, call)
  BY DEF WriteObservation, FreshId, Formed, LoopState
<1>3. step' = [step EXCEPT ![LoopAgent] = r]
  BY DEF WriteObservation, FreshId
<1>4. Noted(Here, up).step = r
  BY HereFields DEF Noted
<1>5. Noted(Here, up).w = Awaiting(call)
  BY HereFields DEF Noted
<1> HIDE DEF r, call
<1>6. step'[LoopAgent] = r /\ \A a \in Agents : a # LoopAgent => step'[a] = step[a]
  BY <1>3, OneStep DEF LoopState, WorldInv
<1>7. /\ Here'.w = Awaiting(call) /\ UNCHANGED db
      /\ \A t \in Thread : t # LoopAgent => thread'[t] = thread[t]
  BY <1>2, SubmitHere, HereFieldsNext DEF LoopState, StoreInv
<1>8. thread[LoopAgent].at \notin {"queued", "inside", "failed"}
  BY <1>1, HereFields DEF LoopState, Good, StepOK, Waits
<1>9. After(Here, Choice(None, up)) = Noted(Here, up)
  BY <1>1, <1>8, HereFields, ChoiceIs DEF After
<1>10. Noted(Here, up).lost = Missing(Here, up)
  BY DEF Noted
<1>11. Same(Noted(Here, up), Here')
  <2>1. Here'.step = r /\ Here'.lost = Missing(Here, up)
    BY <1>1, <1>6, HereFieldsNext, Outage
  <2>2. LET q == Noted(Here, up) IN
        /\ q.db = Here'.db /\ q.agent = Here'.agent /\ q.pending = Here'.pending
        /\ q.rng = Here'.rng /\ q.heading = Here'.heading /\ q.prop = Here'.prop
        /\ q.tick = Here'.tick /\ q.physics = Here'.physics /\ q.tape = Here'.tape
        /\ q.trace = Here'.trace /\ q.move = Here'.move /\ q.seed = Here'.seed
    BY <1>1, <1>7, HereFields, HereFieldsNext, Outage DEF Noted
  <2> QED BY <1>4, <1>5, <1>7, <1>10, <2>1, <2>2 DEF Same
<1>12. Legal(Here, Choice(None, up))
  BY <1>1, <1>8, HereFields, ChoiceIs DEF Legal, Choice, Asks, Free
<1> QED BY <1>1, <1>6, <1>7, <1>9, <1>11, <1>12, Arrived, OthersRest

\* It retrieves for the prompt.
LEMMA FeelGoes ==
  ASSUME LoopState, NEW up \in BOOLEAN, Feel(LoopAgent, up),
         loop' = Outages(LoopAgent), UNCHANGED <<heading, dist, world>>
  PROVE  Goes(None, up) /\ OnlyHere'
<1> DEFINE s == step[LoopAgent]
           felt == Shifted(s)
           asked == Retrieving(felt, "prompt",
                               IF felt.obs = <<>> THEN None ELSE Topic(Last(felt.obs)))
           r == IF up THEN asked ELSE Prompted(felt)
           call == ListByAgent(LoopAgent, Pool)
<1>1. /\ s.at = "write" /\ s.n = Len(s.obs) /\ (s.n > 0 => thread[LoopAgent].at = "done")
      /\ Embeds(up) /\ rng' = [rng EXCEPT !.cycle = rng.cycle + 1] /\ UNCHANGED <<agent, pending>>
  BY DEF Feel, Answered
<1>2. IF up THEN Submit(LoopAgent, call) ELSE UNCHANGED storeVars
  BY DEF Feel
<1>3. step' = [step EXCEPT ![LoopAgent] = r]
  BY DEF Feel
<1>4. Felt(Here, up).step = r
  BY HereFields DEF Felt
<1>5. Felt(Here, up).w = IF up THEN Awaiting(call) ELSE Here.w
  BY HereFields DEF Felt
<1> HIDE DEF r, call
<1>6. step'[LoopAgent] = r /\ \A a \in Agents : a # LoopAgent => step'[a] = step[a]
  BY <1>3, OneStep DEF LoopState, WorldInv
<1>7. /\ Here'.w = IF up THEN Awaiting(call) ELSE Here.w
      /\ UNCHANGED db
      /\ \A t \in Thread : t # LoopAgent => thread'[t] = thread[t]
  <2>1. CASE up
    BY <1>2, <2>1, SubmitHere, HereFieldsNext DEF LoopState, StoreInv
  <2>2. CASE ~up
    BY <1>2, <2>2, Stay, HereFieldsNext DEF Here
  <2> QED BY <2>1, <2>2
<1>8. thread[LoopAgent].at \notin {"queued", "inside", "failed"}
  BY <1>1, HereFields DEF LoopState, Good, StepOK, Waits
<1>9. After(Here, Choice(None, up)) = Felt(Here, up)
  <2>1. ~(s.n < Len(s.obs))
    BY <1>1, HereFields DEF LoopState, Good, StepOK
  <2> QED BY <1>1, <1>8, <2>1, HereFields, ChoiceIs DEF After
<1>10. Felt(Here, up).lost = Missing(Here, up)
  BY DEF Felt
<1>11. Same(Felt(Here, up), Here')
  <2>1. Here'.step = r /\ Here'.lost = Missing(Here, up)
    BY <1>1, <1>6, HereFieldsNext, Outage
  <2>2. LET q == Felt(Here, up) IN
        /\ q.db = Here'.db /\ q.agent = Here'.agent /\ q.pending = Here'.pending
        /\ q.rng = Here'.rng /\ q.heading = Here'.heading /\ q.prop = Here'.prop
        /\ q.tick = Here'.tick /\ q.physics = Here'.physics /\ q.tape = Here'.tape
        /\ q.trace = Here'.trace /\ q.move = Here'.move /\ q.seed = Here'.seed
    BY <1>1, <1>7, HereFields, HereFieldsNext, Outage DEF Felt
  <2> QED BY <1>4, <1>5, <1>7, <1>10, <2>1, <2>2 DEF Same
<1>12. Legal(Here, Choice(None, up))
  BY <1>1, <1>8, HereFields, ChoiceIs DEF Legal, Choice, Asks, Free
<1> QED BY <1>1, <1>6, <1>7, <1>9, <1>11, <1>12, Arrived, OthersRest

\* What is retrieved is what the ranking determines: no two rankings are the best.
LEMMA TopIs ==
  ASSUME LoopState, ScopeRanked(LoopAgent), NEW top \in Chosen(LoopAgent)
  PROVE  top = Best(Here)
<1>1. CASE step[LoopAgent].at = "rows"
  BY <1>1, HereFields DEF Chosen, Best
<1>2. CASE step[LoopAgent].at = "vectors"
  <2> DEFINE s == step[LoopAgent]
             R == Tops(Ranked(s.rows, thread[LoopAgent].out, s.query, RetrievalNow), K(s))
  <2>1. PICK T \in R : top = s.top \cup T
    BY <1>2 DEF Chosen, Now, LoopState
  <2>2. Best(Here) = s.top \cup CHOOSE S \in R : TRUE
    BY <1>2, HereFields DEF Best
  <2>3. Rows(s.rows) /\ RetrievalNow \in Int
    BY <1>2, HereFields, StepAssumption DEF LoopState, Good, StepOK
  <2>4. \A S \in R : S = T
    BY <2>1, <2>3, OneTop
  <2> HIDE DEF R
  <2>5. (CHOOSE S \in R : TRUE) = T
    BY <2>1, <2>4
  <2> QED BY <2>1, <2>2, <2>5
<1> QED BY <1>1, <1>2 DEF ScopeRanked

\* The step fetches the embeddings.
LEMMA FetchGoes ==
  ASSUME LoopState, FetchVectors(LoopAgent), loop' = Outages(LoopAgent),
         UNCHANGED <<heading, dist, world>>
  PROVE  Goes(None, TRUE) /\ OnlyHere'
<1> DEFINE s == step[LoopAgent]
           out == thread[LoopAgent].out
           r == [s EXCEPT !.at = "vectors", !.rows = out]
           call == GetEmbeddings(DOMAIN out)
           q == Fetching(Here)
<1>1. /\ s.at = "rows" /\ thread[LoopAgent].at = "done" /\ out # <<>>
      /\ Submit(LoopAgent, call)
      /\ step' = [step EXCEPT ![LoopAgent].at = "vectors", ![LoopAgent].rows = out]
      /\ UNCHANGED <<agent, pending, rng, fails>>
  BY DEF FetchVectors, Answered
<1>2. step' = [step EXCEPT ![LoopAgent] = r]
  BY <1>1
<1>4. q.step = r
  BY HereFields DEF Fetching
<1>5. q.w = Awaiting(call)
  BY HereFields DEF Fetching
<1> HIDE DEF r, call
<1>6. step'[LoopAgent] = r /\ \A a \in Agents : a # LoopAgent => step'[a] = step[a]
  BY <1>2, OneStep DEF LoopState, WorldInv
<1>7. /\ Here'.w = Awaiting(call) /\ UNCHANGED db
      /\ \A t \in Thread : t # LoopAgent => thread'[t] = thread[t]
  BY <1>1, SubmitHere, HereFieldsNext DEF LoopState, StoreInv
<1>8. loop' = loop
  BY <1>1, NoOutage
<1>9. After(Here, Choice(None, TRUE)) = q
  BY <1>1, HereFields DEF After
<1>10. /\ q.db = Here'.db /\ q.agent = Here'.agent /\ q.pending = Here'.pending
       /\ q.rng = Here'.rng /\ q.heading = Here'.heading /\ q.prop = Here'.prop
       /\ q.tick = Here'.tick /\ q.physics = Here'.physics /\ q.tape = Here'.tape
       /\ q.trace = Here'.trace /\ q.lost = Here'.lost /\ q.move = Here'.move
       /\ q.seed = Here'.seed
  BY <1>1, <1>7, <1>8, HereFields, HereFieldsNext DEF Fetching
<1> HIDE DEF q
<1>11. Same(q, Here')
  BY <1>4, <1>5, <1>6, <1>7, <1>10, HereFieldsNext DEF Same
<1>12. Legal(Here, Choice(None, TRUE))
  BY <1>1, HereFields, SilentLegal
<1> QED BY <1>1, <1>6, <1>7, <1>9, <1>11, <1>12, Arrived, OthersRest

\* It goes on to the second scope.
LEMMA ScopeGoes ==
  ASSUME LoopState, NextScope(LoopAgent), loop' = Outages(LoopAgent),
         UNCHANGED <<heading, dist, world>>
  PROVE  Goes(None, TRUE) /\ OnlyHere'
<1> DEFINE s == step[LoopAgent]
           call == ListWorldScope(LoopAgent, Pool)
           q == Widened(Here)
<1>1. /\ ScopeRanked(LoopAgent) /\ ~s.world
      /\ Submit(LoopAgent, call)
      /\ UNCHANGED <<agent, pending, rng, fails>>
  BY DEF NextScope
<1> DEFINE top == Best(Here)
           r == [s EXCEPT !.at = "rows", !.world = TRUE, !.rows = <<>>, !.top = top]
<1>2. step' = [step EXCEPT ![LoopAgent] = r]
  <2>1. PICK best \in Chosen(LoopAgent) :
          step' = [step EXCEPT ![LoopAgent] = [@ EXCEPT !.at = "rows", !.world = TRUE,
                                                        !.rows = <<>>, !.top = best]]
    BY DEF NextScope
  <2>2. best = top
    BY <1>1, TopIs
  <2> HIDE DEF top
  <2> QED BY <2>1, <2>2
<1>4. q.step = r
  BY HereFields DEF Widened
<1>5. q.w = Awaiting(call)
  BY HereFields DEF Widened
<1> HIDE DEF top, r, call
<1>6. step'[LoopAgent] = r /\ \A a \in Agents : a # LoopAgent => step'[a] = step[a]
  BY <1>2, OneStep DEF LoopState, WorldInv
<1>7. /\ Here'.w = Awaiting(call) /\ UNCHANGED db
      /\ \A t \in Thread : t # LoopAgent => thread'[t] = thread[t]
  BY <1>1, SubmitHere, HereFieldsNext DEF LoopState, StoreInv
<1>8. loop' = loop
  BY <1>1, NoOutage
<1>9. After(Here, Choice(None, TRUE)) = q
  BY <1>1, HereFields DEF After, ScopeRanked, Answered
<1>10. /\ q.db = Here'.db /\ q.agent = Here'.agent /\ q.pending = Here'.pending
       /\ q.rng = Here'.rng /\ q.heading = Here'.heading /\ q.prop = Here'.prop
       /\ q.tick = Here'.tick /\ q.physics = Here'.physics /\ q.tape = Here'.tape
       /\ q.trace = Here'.trace /\ q.lost = Here'.lost /\ q.move = Here'.move
       /\ q.seed = Here'.seed
  BY <1>1, <1>7, <1>8, HereFields, HereFieldsNext DEF Widened
<1> HIDE DEF q
<1>11. Same(q, Here')
  BY <1>4, <1>5, <1>6, <1>7, <1>10, HereFieldsNext DEF Same
<1>12. Legal(Here, Choice(None, TRUE)) /\ s.at # "raised"
  BY <1>1, HereFields, SilentLegal DEF ScopeRanked
<1> QED BY <1>1, <1>6, <1>7, <1>9, <1>11, <1>12, Arrived, OthersRest

\* It marks what it recalled.
LEMMA MarkGoes ==
  ASSUME LoopState, Mark(LoopAgent), loop' = Outages(LoopAgent),
         UNCHANGED <<heading, dist, world>>
  PROVE  Goes(None, TRUE) /\ OnlyHere'
<1> DEFINE s == step[LoopAgent]
           top == Best(Here)
           call == MarkRecalled(Ids(top))
           q == Marking(Here)
           r == IF top = {} THEN Prompted(s) ELSE [Prompted(s) EXCEPT !.at = "mark", !.top = top]
<1>1. /\ ScopeRanked(LoopAgent) /\ s.world /\ s.why = "prompt"
      /\ UNCHANGED <<agent, pending, rng, fails>>
  BY DEF Mark
<1>2. /\ step' = [step EXCEPT ![LoopAgent] = r]
      /\ IF top = {} THEN UNCHANGED storeVars ELSE Submit(LoopAgent, call)
  <2>1. PICK best \in Chosen(LoopAgent) :
          IF best = {}
          THEN step' = [step EXCEPT ![LoopAgent] = Prompted(s)] /\ UNCHANGED storeVars
          ELSE /\ step' = [step EXCEPT ![LoopAgent] =
                                  [Prompted(s) EXCEPT !.at = "mark", !.top = best]]
               /\ Submit(LoopAgent, MarkRecalled(Ids(best)))
    BY DEF Mark
  <2>2. best = top
    BY <1>1, TopIs
  <2> HIDE DEF top
  <2> QED BY <2>1, <2>2
<1>4. q.step = r
  BY HereFields DEF Marking
<1>5. q.w = IF top = {} THEN Here.w ELSE Awaiting(call)
  BY HereFields DEF Marking
<1> HIDE DEF top, r, call
<1>6. step'[LoopAgent] = r /\ \A a \in Agents : a # LoopAgent => step'[a] = step[a]
  BY <1>2, OneStep DEF LoopState, WorldInv
<1>7. /\ Here'.w = (IF top = {} THEN Here.w ELSE Awaiting(call)) /\ UNCHANGED db
      /\ \A t \in Thread : t # LoopAgent => thread'[t] = thread[t]
  <2>1. CASE top # {}
    BY <1>2, <2>1, SubmitHere, HereFieldsNext DEF LoopState, StoreInv
  <2>2. CASE top = {}
    BY <1>2, <2>2, Stay, HereFieldsNext DEF Here
  <2> QED BY <2>1, <2>2
<1>8. loop' = loop
  BY <1>1, NoOutage
<1>9. After(Here, Choice(None, TRUE)) = q
  BY <1>1, HereFields DEF After, ScopeRanked, Answered
<1>10. /\ q.db = Here'.db /\ q.agent = Here'.agent /\ q.pending = Here'.pending
       /\ q.rng = Here'.rng /\ q.heading = Here'.heading /\ q.prop = Here'.prop
       /\ q.tick = Here'.tick /\ q.physics = Here'.physics /\ q.tape = Here'.tape
       /\ q.trace = Here'.trace /\ q.lost = Here'.lost /\ q.move = Here'.move
       /\ q.seed = Here'.seed
  BY <1>1, <1>7, <1>8, HereFields, HereFieldsNext DEF Marking
<1> HIDE DEF q
<1>11. Same(q, Here')
  BY <1>4, <1>5, <1>6, <1>7, <1>10, HereFieldsNext DEF Same
<1>12. Legal(Here, Choice(None, TRUE)) /\ s.at # "raised"
  BY <1>1, HereFields, SilentLegal DEF ScopeRanked
<1> QED BY <1>1, <1>6, <1>7, <1>9, <1>11, <1>12, Arrived, OthersRest

\* It has marked it.
LEMMA MarkedGoes ==
  ASSUME LoopState, Marked(LoopAgent), loop' = Outages(LoopAgent),
         UNCHANGED <<heading, dist, world>>
  PROVE  Goes(None, TRUE) /\ OnlyHere'
<1> DEFINE s == step[LoopAgent]
           q == MarkedOn(Here)
           r == [s EXCEPT !.at = "chat"]
<1>1. /\ s.at = "mark" /\ thread[LoopAgent].at = "done"
      /\ step' = [step EXCEPT ![LoopAgent].at = "chat"]
      /\ UNCHANGED <<agent, pending, rng, fails, storeVars>>
  BY DEF Marked, Answered
<1>2. step' = [step EXCEPT ![LoopAgent] = r]
  BY <1>1
<1>4. q.step = r
  BY HereFields DEF MarkedOn
<1> HIDE DEF r
<1>6. step'[LoopAgent] = r /\ \A a \in Agents : a # LoopAgent => step'[a] = step[a]
  BY <1>2, OneStep DEF LoopState, WorldInv
<1>8. loop' = loop
  BY <1>1, NoOutage
<1>9. After(Here, Choice(None, TRUE)) = q
  BY <1>1, HereFields DEF After
<1>10. /\ q.w = Here'.w /\ q.db = Here'.db /\ q.agent = Here'.agent /\ q.pending = Here'.pending
       /\ q.rng = Here'.rng /\ q.heading = Here'.heading /\ q.prop = Here'.prop
       /\ q.tick = Here'.tick /\ q.physics = Here'.physics /\ q.tape = Here'.tape
       /\ q.trace = Here'.trace /\ q.lost = Here'.lost /\ q.move = Here'.move
       /\ q.seed = Here'.seed
  BY <1>1, <1>8, HereFields, HereFieldsNext, Stay DEF MarkedOn, Here
<1> HIDE DEF q
<1>11. Same(q, Here')
  BY <1>4, <1>6, <1>10, HereFieldsNext DEF Same
<1>12. Legal(Here, Choice(None, TRUE)) /\ s.at # "raised"
  BY <1>1, HereFields, SilentLegal
<1> QED BY <1>1, <1>6, <1>9, <1>11, <1>12, Arrived, OthersRest, Stay

\* It resolves the move.
LEMMA MoveGoes ==
  ASSUME LoopState, ResolveMove(LoopAgent), loop' = Outages(LoopAgent),
         UNCHANGED <<heading, dist, world>>
  PROVE  Goes(None, TRUE) /\ OnlyHere'
<1> DEFINE s == step[LoopAgent]
           top == Best(Here)
           q == Moving(Here)
           r == Result(s, FALSE, Destination(top, s.zone, rng.micro))
<1>1. /\ ScopeRanked(LoopAgent) /\ s.world /\ s.why = "move"
      /\ UNCHANGED <<agent, pending, fails, storeVars>>
  BY DEF ResolveMove
<1>2. /\ step' = [step EXCEPT ![LoopAgent] = r]
      /\ rng' = IF Weight(top) > 0 THEN [rng EXCEPT !.micro = rng.micro + 1] ELSE rng
  <2>1. PICK best \in Chosen(LoopAgent) :
          /\ step' = [step EXCEPT ![LoopAgent] =
                        Result(s, FALSE, Destination(best, s.zone, rng.micro))]
          /\ rng' = IF Weight(best) > 0 THEN [rng EXCEPT !.micro = rng.micro + 1] ELSE rng
    BY DEF ResolveMove
  <2>2. best = top
    BY <1>1, TopIs
  <2> HIDE DEF top
  <2> QED BY <2>1, <2>2
<1>4. q.step = r
  BY HereFields DEF Moving
<1>5. q.rng = IF Weight(top) > 0 THEN [rng EXCEPT !.micro = rng.micro + 1] ELSE rng
  BY HereFields DEF Moving
<1> HIDE DEF r, top
<1>6. step'[LoopAgent] = r /\ \A a \in Agents : a # LoopAgent => step'[a] = step[a]
  BY <1>2, OneStep DEF LoopState, WorldInv
<1>8. loop' = loop
  BY <1>1, NoOutage
<1>9. After(Here, Choice(None, TRUE)) = q
  BY <1>1, HereFields DEF After, ScopeRanked, Answered
<1>10. /\ q.w = Here'.w /\ q.db = Here'.db /\ q.agent = Here'.agent /\ q.pending = Here'.pending
       /\ q.heading = Here'.heading /\ q.prop = Here'.prop
       /\ q.tick = Here'.tick /\ q.physics = Here'.physics /\ q.tape = Here'.tape
       /\ q.trace = Here'.trace /\ q.lost = Here'.lost /\ q.move = Here'.move
       /\ q.seed = Here'.seed
  BY <1>1, <1>8, HereFields, HereFieldsNext, Stay DEF Moving, Here
<1> HIDE DEF q
<1>11. Same(q, Here')
  BY <1>2, <1>4, <1>5, <1>6, <1>10, HereFieldsNext DEF Same
<1>12. Legal(Here, Choice(None, TRUE)) /\ s.at # "raised"
  BY <1>1, HereFields, SilentLegal DEF ScopeRanked
<1> QED BY <1>1, <1>6, <1>9, <1>11, <1>12, Arrived, OthersRest, Stay

\* The loop begins a tick.
LEMMA LoopBeginGoes ==
  ASSUME LoopState, LoopBegin
  PROVE  Goes(None, TRUE) /\ OnlyHere'
<1> DEFINE r == [at |-> "due", serial |-> agent[LoopAgent].tick]
           q == Due(Here)
<1>1. /\ loop.physics = 0 /\ step[LoopAgent].at = "idle"
      /\ pending' = [pending EXCEPT ![LoopAgent] = pending[LoopAgent] \o Seen[loop.tick]]
      /\ step' = [step EXCEPT ![LoopAgent] = r]
      /\ loop' = [loop EXCEPT !.served = Len(loop.tape)]
      /\ UNCHANGED <<storeVars, agent, rng, heading, dist>>
  BY DEF LoopBegin
<1>2. q.step = r
  BY HereFields DEF Due
<1> HIDE DEF r
<1>3. step'[LoopAgent] = r /\ \A a \in Agents : a # LoopAgent => step'[a] = step[a]
  BY <1>1, OneStep DEF LoopState, WorldInv
<1>4. pending'[LoopAgent] = pending[LoopAgent] \o Seen[loop.tick]
  BY <1>1, ApparatusAssumption DEF LoopState, WorldInv
<1>5. /\ loop'.tick = loop.tick /\ loop'.physics = loop.physics /\ loop'.tape = loop.tape
      /\ loop'.trace = loop.trace /\ loop'.lost = loop.lost /\ loop'.move = loop.move
      /\ loop'.seed = loop.seed
  BY <1>1
<1>6. thread[LoopAgent].at \notin {"queued", "inside"}
  BY <1>1, HereFields DEF LoopState, Good, StepOK, Waits
<1>7. After(Here, Choice(None, TRUE)) = q
  BY <1>1, <1>6, HereFields DEF After
<1>8. /\ q.w = Here'.w /\ q.db = Here'.db /\ q.agent = Here'.agent /\ q.pending = Here'.pending
      /\ q.rng = Here'.rng /\ q.heading = Here'.heading /\ q.prop = Here'.prop
      /\ q.tick = Here'.tick /\ q.physics = Here'.physics /\ q.tape = Here'.tape
      /\ q.trace = Here'.trace /\ q.lost = Here'.lost /\ q.move = Here'.move
      /\ q.seed = Here'.seed
  BY ZenonT(60), <1>1, <1>4, <1>5, HereFields, HereFieldsNext, Stay DEF Due, Here
<1> HIDE DEF q
<1>9. Same(q, Here')
  BY <1>2, <1>3, <1>8, HereFieldsNext DEF Same
<1>10. Legal(Here, Choice(None, TRUE)) /\ step[LoopAgent].at # "raised"
  BY <1>1, HereFields, SilentLegal
<1> QED BY <1>1, <1>3, <1>7, <1>9, <1>10, Arrived, OthersRest, Stay

\* The loop consumes a result.
LEMMA ConsumeGoes ==
  ASSUME LoopState, LoopConsume, loop'.end = "running"
  PROVE  Goes(None, TRUE) /\ OnlyHere'
<1> DEFINE s == step[LoopAgent]
           q == Settled(Here)
           d == <<"decision", loop.tick, Last(loop.tape), s.fell, s.move>>
<1>1. s.at # "raised" /\ s.at = "answered"
  <2>1. ASSUME s.at = "raised" PROVE FALSE
    <3>1. loop' = [loop EXCEPT !.end = "raised"]
      BY <2>1 DEF LoopConsume
    <3>2. loop'.end = "raised"
      BY <3>1
    <3> QED BY <3>2
  <2>2. s.at \in {"answered", "raised"}
    BY DEF LoopConsume, Finished
  <2> QED BY <2>1, <2>2
<1>2. /\ ConsumeResults({LoopAgent})
      /\ loop' = [loop EXCEPT !.trace = Append(loop.trace, d), !.move = s.move,
                              !.physics = PhysicsPerTick]
      /\ UNCHANGED <<storeVars, pending, rng, dist>>
  <2>2. ASSUME Len(loop.tape) # loop.served + 1 PROVE FALSE
    <3>1. loop' = [loop EXCEPT !.end = "raised"]
      BY <2>2 DEF LoopConsume
    <3>2. loop'.end = "raised"
      BY <3>1
    <3> QED BY <3>2
  <2> QED BY <1>1, <2>2 DEF LoopConsume, Decision
<1> HIDE DEF d
<1>3. /\ agent'[LoopAgent] = s.self
      /\ heading'[LoopAgent] = IF s.move.to = Nowhere THEN heading[LoopAgent] ELSE Resolve(s.move.to)
      /\ step'[LoopAgent] = Idle /\ \A a \in Agents : a # LoopAgent => step'[a] = step[a]
  BY <1>1, <1>2, ApparatusAssumption DEF ConsumeResults, Consumed, HeadingAfter
<1>5. /\ loop'.tick = loop.tick /\ loop'.physics = PhysicsPerTick /\ loop'.tape = loop.tape
      /\ loop'.trace = Append(loop.trace, d) /\ loop'.lost = loop.lost /\ loop'.move = s.move
      /\ loop'.seed = loop.seed
  BY <1>2
<1>6. thread[LoopAgent].at \notin {"queued", "inside"}
  BY <1>1, HereFields DEF LoopState, Good, StepOK, Waits
<1>7. After(Here, Choice(None, TRUE)) = q
  BY <1>1, <1>6, HereFields DEF After
<1>8. /\ q.w = Here'.w /\ q.db = Here'.db /\ q.agent = Here'.agent /\ q.pending = Here'.pending
      /\ q.rng = Here'.rng /\ q.heading = Here'.heading /\ q.prop = Here'.prop
      /\ q.tick = Here'.tick /\ q.physics = Here'.physics /\ q.tape = Here'.tape
      /\ q.lost = Here'.lost /\ q.move = Here'.move /\ q.seed = Here'.seed
  BY <1>2, <1>3, <1>5, HereFields, HereFieldsNext, Stay DEF Settled, Here
<1>9. q.trace = Here'.trace
  <2>1. q.trace = Append(loop.trace, d)
    BY HereFields DEF Settled, d
  <2> QED BY <1>5, <2>1, HereFieldsNext
<1>10. q.step = Here'.step
  BY <1>3, HereFieldsNext DEF Settled
<1> HIDE DEF q
<1>11. Same(q, Here')
  BY <1>8, <1>9, <1>10 DEF Same
<1>12. Legal(Here, Choice(None, TRUE)) /\ step[LoopAgent].at # "raised"
  BY <1>1, HereFields, SilentLegal
<1> QED BY <1>2, <1>3, <1>7, <1>11, <1>12, Arrived, OthersRest, Stay

\* The loop makes a physics tick.
LEMMA PhysicsGoes ==
  ASSUME LoopState, LoopPhysics
  PROVE  Goes(None, TRUE) /\ OnlyHere'
<1> DEFINE b == StepKinematics(agent[LoopAgent].body, heading[LoopAgent], Speed)
           row == <<"row", loop.tick, b, loop.move>>
           dd == Distance(b.x, PropPlace)
           q == Passed(Here)
<1>1. /\ loop.physics > 0 /\ Physics(There, There)
      /\ loop' = [loop EXCEPT !.physics = loop.physics - 1,
                              !.tick = IF loop.physics = 1 THEN loop.tick + 1 ELSE loop.tick,
                              !.trace = Append(loop.trace, <<"row", loop.tick, There[LoopAgent], loop.move>>)]
      /\ UNCHANGED <<storeVars, step, rng>>
  BY DEF LoopPhysics, Apart, LoopState
<1>2. LoopAgent \in Agents
  BY ApparatusAssumption
<1>3. There[LoopAgent] = b
  BY <1>2 DEF There
<1>4. step[LoopAgent].at = "idle"
  BY <1>1, HereFields DEF LoopState, Good, CountOK
<1>5. agent'[LoopAgent] = [agent[LoopAgent] EXCEPT !.body = b]
  BY <1>1, <1>2, <1>3 DEF Physics
<1>6. heading'[LoopAgent] = Heading(agent[LoopAgent].body, heading[LoopAgent], Speed)
  BY <1>1, <1>2 DEF Physics
<1>7. dist'.prop[LoopAgent] = dd
  BY <1>1, <1>2, <1>3 DEF Physics
<1>8. pending'[LoopAgent] = pending[LoopAgent] \o Moved(agent[LoopAgent].body, b) \o <<>>
                            \o Reached(dist.prop[LoopAgent], dd)
  BY <1>1, <1>2, <1>3 DEF Physics, LoopState
<1>9. /\ loop'.tick = (IF loop.physics = 1 THEN loop.tick + 1 ELSE loop.tick)
      /\ loop'.physics = loop.physics - 1 /\ loop'.tape = loop.tape
      /\ loop'.lost = loop.lost /\ loop'.move = loop.move /\ loop'.seed = loop.seed
  BY <1>1
<1>10. loop'.trace = Append(loop.trace, row)
  BY <1>1, <1>3
<1>11. thread[LoopAgent].at \notin {"queued", "inside"}
  BY <1>4, HereFields DEF LoopState, Good, StepOK, Waits
<1>12. After(Here, Choice(None, TRUE)) = q
  BY <1>1, <1>4, <1>11, HereFields DEF After
<1>13. /\ q.agent = [agent[LoopAgent] EXCEPT !.body = b]
       /\ q.heading = Heading(agent[LoopAgent].body, heading[LoopAgent], Speed)
       /\ q.prop = dd
       /\ q.pending = pending[LoopAgent] \o Moved(agent[LoopAgent].body, b) \o <<>>
                      \o Reached(dist.prop[LoopAgent], dd)
       /\ q.trace = Append(loop.trace, row)
  <2>1. q.agent = [agent[LoopAgent] EXCEPT !.body = b]
    BY HereFields DEF Passed
  <2>2. q.heading = Heading(agent[LoopAgent].body, heading[LoopAgent], Speed)
    BY HereFields DEF Passed
  <2>3. q.prop = dd
    BY HereFields DEF Passed
  <2>4. q.pending = pending[LoopAgent] \o Moved(agent[LoopAgent].body, b) \o <<>>
                    \o Reached(dist.prop[LoopAgent], dd)
    <3> DEFINE there == StepKinematics(Here.agent.body, Here.heading, Speed)
               far == Distance(there.x, PropPlace)
    <3>1. q.pending = Noticed(Here, there, far)
      BY DEF Passed
    <3>2. there = b /\ far = dd
      BY HereFields
    <3> HIDE DEF there, far, b, dd, q
    <3> QED BY <3>1, <3>2, HereFields DEF Noticed
  <2>5. q.trace = Append(loop.trace, row)
    BY HereFields DEF Passed
  <2> QED BY <2>1, <2>2, <2>3, <2>4, <2>5
<1>14. /\ q.w = Here'.w /\ q.db = Here'.db /\ q.rng = Here'.rng /\ q.step = Here'.step
       /\ q.tick = Here'.tick /\ q.physics = Here'.physics /\ q.tape = Here'.tape
       /\ q.lost = Here'.lost /\ q.move = Here'.move /\ q.seed = Here'.seed
  BY <1>1, <1>9, HereFields, HereFieldsNext, Stay DEF Passed, Here
<1> HIDE DEF q, b, row, dd
<1>15. Same(q, Here')
  BY <1>5, <1>6, <1>7, <1>8, <1>10, <1>13, <1>14, HereFieldsNext DEF Same
<1>16. Legal(Here, Choice(None, TRUE)) /\ step[LoopAgent].at # "raised"
  BY <1>4, HereFields, SilentLegal
<1> QED BY <1>1, <1>12, <1>15, <1>16, Arrived, OthersRest, Stay

\* The recorder hands over what the model says, or said.
LEMMA ChatGoes ==
  ASSUME LoopState, NEW said \in Sayings, NEW up \in BOOLEAN, LoopChat(said, up)
  PROVE  Goes(said, up) /\ OnlyHere'
<1> DEFINE s == step[LoopAgent]
           zone == Biased(said, Fires(rng.cycle))
           q == Answering(Here, said, up)
<1>1. /\ loop' = [loop EXCEPT !.tape = Append(loop.tape, said), !.index = loop.index + 1,
                    !.lost = IF up THEN loop.lost ELSE Append(loop.lost, <<loop.tick, "move">>)]
      /\ UNCHANGED <<heading, dist>>
  BY DEF LoopChat
<1>2. s.at = "chat" /\ UNCHANGED <<agent, pending>>
  BY DEF LoopChat, Fallback, PlanEcl
<1>3. zone = Wanted(Here, said)
  BY HereFields DEF Wanted, Fires
<1>4. /\ loop'.tick = loop.tick /\ loop'.physics = loop.physics
      /\ loop'.tape = Append(loop.tape, said) /\ loop'.trace = loop.trace
      /\ loop'.lost = (IF up THEN loop.lost ELSE Append(loop.lost, <<loop.tick, "move">>))
      /\ loop'.move = loop.move /\ loop'.seed = loop.seed
  BY <1>1
<1>5. loop'.lost = Missing(Here, up)
  BY <1>2, <1>4, HereFields DEF Missing, Label
<1>6. thread[LoopAgent].at \notin {"queued", "inside", "failed"}
  BY <1>2, HereFields DEF LoopState, Good, StepOK, Waits
<1>7. After(Here, Choice(said, up)) = q
  BY <1>2, <1>6, HereFields, ChoiceIs DEF After
<1>8. /\ q.agent = Here.agent /\ q.pending = Here.pending /\ q.heading = Here.heading
      /\ q.prop = Here.prop /\ q.tick = Here.tick /\ q.physics = Here.physics
      /\ q.trace = Here.trace /\ q.move = Here.move /\ q.seed = Here.seed /\ q.db = Here.db
  BY DEF Answering
<1>9. q.tape = Append(Here.tape, said)
  BY DEF Answering
<1>10. q.lost = Missing(Here, up)
  BY DEF Answering
<1>11. /\ q.step = Here'.step /\ q.rng = Here'.rng /\ q.w = Here'.w /\ UNCHANGED db
       /\ \A t \in Thread : t # LoopAgent => thread'[t] = thread[t]
       /\ \A a \in Agents : a # LoopAgent => step'[a] = step[a]
  <2>1. CASE said \in Wordless
    <3> DEFINE r == Result(s, TRUE, NoMove)
    <3>1. step' = [step EXCEPT ![LoopAgent] = r] /\ UNCHANGED <<rng, storeVars>>
      BY <2>1 DEF LoopChat, Fallback, Wordless
    <3>2. q.step = r
      BY <2>1, HereFields DEF Answering
    <3>3. q.rng = Here.rng /\ q.w = Here.w
      BY <2>1 DEF Answering
    <3> HIDE DEF r
    <3>4. step'[LoopAgent] = r /\ \A a \in Agents : a # LoopAgent => step'[a] = step[a]
      BY <3>1, OneStep DEF LoopState, WorldInv
    <3>5. Here'.w = Here.w
      BY <3>1, Stay DEF Here
    <3> HIDE DEF q
    <3> QED BY <3>1, <3>2, <3>3, <3>4, <3>5, Stay, HereFields, HereFieldsNext
  <2>2. CASE said \notin Wordless
    <3> DEFINE drawn == [rng EXCEPT !.cycle = rng.cycle + Draws(zone)]
    <3>1. PlanEcl(LoopAgent, zone, up)
      BY <2>2 DEF LoopChat, Wordless
    <3>2. rng' = drawn /\ (zone = None => up)
      BY <3>1 DEF PlanEcl
    <3>3. q.rng = drawn
      BY <1>3, <2>2, HereFields DEF Answering
    <3>4. CASE zone = None
      <4> DEFINE r == Result(s, FALSE, NoMove)
      <4>1. step' = [step EXCEPT ![LoopAgent] = r] /\ UNCHANGED storeVars
        BY <3>1, <3>4 DEF PlanEcl
      <4>2. q.step = r
        BY <1>3, <2>2, <3>4, HereFields DEF Answering
      <4>3. q.w = Here.w
        BY <1>3, <2>2, <3>4 DEF Answering
      <4> HIDE DEF r
      <4>4. step'[LoopAgent] = r /\ \A a \in Agents : a # LoopAgent => step'[a] = step[a]
        BY <4>1, OneStep DEF LoopState, WorldInv
      <4>5. Here'.w = Here.w
        BY <4>1, Stay DEF Here
      <4> HIDE DEF q, drawn
      <4> QED BY <3>2, <3>3, <4>1, <4>2, <4>3, <4>4, <4>5, Stay, HereFieldsNext
    <3>5. CASE zone # None /\ ~up
      <4> DEFINE r == [at |-> "raised", new |-> s.new]
      <4>1. step' = [step EXCEPT ![LoopAgent] = r] /\ UNCHANGED storeVars
        BY <3>1, <3>5 DEF PlanEcl
      <4>2. q.step = r
        BY <1>3, <2>2, <3>5, HereFields DEF Answering
      <4>3. q.w = Here.w
        BY <1>3, <2>2, <3>5 DEF Answering
      <4> HIDE DEF r
      <4>4. step'[LoopAgent] = r /\ \A a \in Agents : a # LoopAgent => step'[a] = step[a]
        BY <4>1, OneStep DEF LoopState, WorldInv
      <4>5. Here'.w = Here.w
        BY <4>1, Stay DEF Here
      <4> HIDE DEF q, drawn
      <4> QED BY <3>2, <3>3, <4>1, <4>2, <4>3, <4>4, <4>5, Stay, HereFieldsNext
    <3>6. CASE zone # None /\ up
      <4> DEFINE r == [Retrieving(s, "move", "forage") EXCEPT !.zone = zone]
                 call == ListByAgent(LoopAgent, Pool)
      <4>1. step' = [step EXCEPT ![LoopAgent] = r] /\ Submit(LoopAgent, call)
        BY <3>1, <3>6 DEF PlanEcl
      <4>2. q.step = r
        BY <1>3, <2>2, <3>6, HereFields DEF Answering
      <4>3. q.w = Awaiting(call)
        BY <1>3, <2>2, <3>6 DEF Answering
      <4> HIDE DEF r, call
      <4>4. step'[LoopAgent] = r /\ \A a \in Agents : a # LoopAgent => step'[a] = step[a]
        BY <4>1, OneStep DEF LoopState, WorldInv
      <4>5. /\ Here'.w = Awaiting(call) /\ UNCHANGED db
            /\ \A t \in Thread : t # LoopAgent => thread'[t] = thread[t]
        BY <4>1, SubmitHere, HereFieldsNext DEF LoopState, StoreInv
      <4> HIDE DEF q, drawn
      <4> QED BY <3>2, <3>3, <4>2, <4>3, <4>4, <4>5, HereFieldsNext
    <3> QED BY <3>4, <3>5, <3>6
  <2> QED BY <2>1, <2>2
<1> HIDE DEF q
<1>12. Same(q, Here')
  BY <1>1, <1>2, <1>4, <1>5, <1>8, <1>9, <1>10, <1>11, HereFields, HereFieldsNext DEF Same
<1>13. Legal(Here, Choice(said, up)) /\ s.at # "raised"
  BY <1>2, <1>6, HereFields, ChoiceIs DEF Legal, Choice, Asks, Free
<1> QED BY <1>7, <1>11, <1>12, <1>13, Arrived, OthersRest

\* What goes on with the recorder while the run goes on.
Runs(said, up) ==
  /\ Goes(said, up) /\ OnlyHere'
  /\ loop'.run = loop.run /\ loop'.demand = loop.demand /\ loop'.recorded = loop.recorded
  /\ loop'.end = loop.end
  /\ fails'.embedding \in Nat
  /\ step[LoopAgent].at = "idle" /\ loop.physics = 0 => loop.tick # loop.demand
  /\ \/ loop'.index = loop.index /\ loop'.tape = loop.tape
     \/ loop'.index = loop.index + 1 /\ loop'.tape = Append(loop.tape, said) /\ said \in Said

\* No handler of the live world runs in the loop.
LEMMA NoLive ==
  ASSUME ecl, world.handler = "none", Live
  PROVE  FALSE
<1>1. ASSUME NEW a \in Agents, LiveChat(a) PROVE FALSE
  BY <1>1 DEF LiveChat
<1>2. ASSUME NEW a \in Agents, NEW ev \in Observable, Inject(a, ev) PROVE FALSE
  BY <1>2 DEF Inject
<1>3. ASSUME NEW t \in Thread, StoreError(t) PROVE FALSE
  BY <1>3 DEF StoreError
<1> QED BY <1>1, <1>2, <1>3 DEF Live, LivePhysics, StartHandler, Consume, TurnStored, TurnBonds,
                                NoDialog, Stop, CloseStore, Alone

\* Outages are counted.
LEMMA EmbedsCounts ==
  ASSUME fails.embedding \in Nat, NEW up \in BOOLEAN, Embeds(up)
  PROVE  fails'.embedding \in Nat
<1>1. CASE up
  BY <1>1 DEF Embeds
<1>2. CASE ~up
  <2>1. fails' = [fails EXCEPT !.embedding = fails.embedding + 1]
    BY <1>2 DEF Embeds
  <2>2. fails'.embedding = fails.embedding + 1
    BY <2>1
  <2> QED BY <2>2
<1> QED BY <1>1, <1>2

\* A step of the agent is one of the run.
LEMMA StepRuns ==
  ASSUME LoopState, NEW a \in Agents, StepOf(a)
  PROVE  \E said, up : Runs(said, up)
<1>1. StepNext(a) /\ loop' = Outages(a) /\ UNCHANGED <<heading, dist, world>>
  BY DEF StepOf
<1>2. step[a].at # "idle"
  BY <1>1, StepHolds DEF LoopState, WorldInv
<1>3. a = LoopAgent
  BY <1>2 DEF LoopState, OnlyHere
<1>4. /\ loop'.run = loop.run /\ loop'.demand = loop.demand /\ loop'.recorded = loop.recorded
      /\ loop'.end = loop.end /\ loop'.index = loop.index /\ loop'.tape = loop.tape
  <2>1. CASE loop' = loop
    BY <2>1
  <2>2. CASE \E x : loop' = [loop EXCEPT !.lost = x]
    BY <2>2
  <2> QED BY <1>1, <2>1, <2>2 DEF Outages
<1>5. ASSUME UNCHANGED fails PROVE fails'.embedding \in Nat
  BY <1>5 DEF LoopState
<1>6. ASSUME NEW said, NEW up, Goes(said, up), OnlyHere', fails'.embedding \in Nat
      PROVE  Runs(said, up)
  BY <1>2, <1>3, <1>4, <1>6 DEF Runs
<1>7. CASE Begin(a)
  <2>1. UNCHANGED fails
    BY <1>7 DEF Begin
  <2> QED BY <1>1, <1>3, <1>5, <1>6, <1>7, <2>1, BeginGoes
<1>8. CASE StoreRaised(a)
  <2>1. UNCHANGED fails
    BY <1>8 DEF StoreRaised
  <2> QED BY <1>1, <1>3, <1>5, <1>6, <1>8, <2>1, RaisedGoes
<1>9. ASSUME NEW up \in BOOLEAN, WriteObservation(a, up) PROVE \E said, v : Runs(said, v)
  <2>1. Embeds(up)
    BY <1>9 DEF WriteObservation
  <2>2. Goes(None, up) /\ OnlyHere'
    BY <1>1, <1>3, <1>9, WriteGoes
  <2> QED BY <1>6, <2>1, <2>2, EmbedsCounts DEF LoopState
<1>10. ASSUME NEW up \in BOOLEAN, Feel(a, up) PROVE \E said, v : Runs(said, v)
  <2>1. Embeds(up)
    BY <1>10 DEF Feel
  <2>2. Goes(None, up) /\ OnlyHere'
    BY <1>1, <1>3, <1>10, FeelGoes
  <2> QED BY <1>6, <2>1, <2>2, EmbedsCounts DEF LoopState
<1>11. CASE FetchVectors(a)
  <2>1. UNCHANGED fails
    BY <1>11 DEF FetchVectors
  <2> QED BY <1>1, <1>3, <1>5, <1>6, <1>11, <2>1, FetchGoes
<1>12. CASE NextScope(a)
  <2>1. UNCHANGED fails
    BY <1>12 DEF NextScope
  <2> QED BY <1>1, <1>3, <1>5, <1>6, <1>12, <2>1, ScopeGoes
<1>13. CASE Mark(a)
  <2>1. UNCHANGED fails
    BY <1>13 DEF Mark
  <2> QED BY <1>1, <1>3, <1>5, <1>6, <1>13, <2>1, MarkGoes
<1>14. CASE Marked(a)
  <2>1. UNCHANGED fails
    BY <1>14 DEF Marked
  <2> QED BY <1>1, <1>3, <1>5, <1>6, <1>14, <2>1, MarkedGoes
<1>15. CASE ResolveMove(a)
  <2>1. UNCHANGED fails
    BY <1>15 DEF ResolveMove
  <2> QED BY <1>1, <1>3, <1>5, <1>6, <1>15, <2>1, MoveGoes
<1> QED BY <1>1, <1>7, <1>8, <1>9, <1>10, <1>11, <1>12, <1>13, <1>14, <1>15 DEF StepNext

\* So is a step of the store ...
LEMMA StoreRuns ==
  ASSUME LoopState, NEW t \in Thread, InStore(t)
  PROVE  \E said, up : Runs(said, up)
<1>1. ThreadNext(t) /\ UNCHANGED <<stepVars, heading, dist, world, loop>>
  BY DEF InStore
<1>2. thread[t].at \in {"queued", "inside"}
  BY <1>1 DEF ThreadNext, Enter, Execute, Leave
<1>3. t = LoopAgent
  BY <1>2 DEF LoopState, OnlyHere
<1>4. Goes(None, TRUE) /\ OnlyHere'
  BY <1>1, <1>3, EnterGoes, ExecuteGoes, LeaveGoes DEF ThreadNext
<1>5. step[LoopAgent].at # "idle"
  BY <1>2, <1>3, HereFields DEF LoopState, Good, StepOK, Waits
<1>6. UNCHANGED loop /\ fails' = fails
  BY <1>1 DEF stepVars
<1> QED BY <1>4, <1>5, <1>6 DEF Runs, LoopState

\* ... and of the loop itself, but for the end of the run and for the replay.
LEMMA LoopRuns ==
  ASSUME LoopState, Loop, loop'.end = "running"
  PROVE  Replay \/ \E said, up : Runs(said, up)
<1>1. CASE LoopBegin
  <2>1. loop' = [loop EXCEPT !.served = Len(loop.tape)] /\ UNCHANGED fails
    BY <1>1 DEF LoopBegin
  <2>2. /\ loop'.run = loop.run /\ loop'.demand = loop.demand /\ loop'.recorded = loop.recorded
        /\ loop'.end = loop.end /\ loop'.index = loop.index /\ loop'.tape = loop.tape
    BY <2>1
  <2>3. loop.tick # loop.demand
    BY <1>1 DEF LoopBegin, LoopState, WorldInv
  <2> QED BY <1>1, <2>1, <2>2, <2>3, LoopBeginGoes DEF Runs, LoopState
<1>2. CASE Exhausted \/ LoopEnd
  <2>1. loop' = [loop EXCEPT !.end = "exhausted"] \/ loop' = [loop EXCEPT !.end = "complete"]
    BY <1>2 DEF Exhausted, LoopEnd
  <2>2. ASSUME NEW x, loop' = [loop EXCEPT !.end = x] PROVE loop'.end = x
    BY <2>2
  <2> QED BY <2>1, <2>2
<1>3. CASE LoopConsume
  <2>1. Goes(None, TRUE) /\ OnlyHere'
    BY <1>3, ConsumeGoes
  <2>2. UNCHANGED fails /\ step[LoopAgent].at # "idle"
    BY <1>3 DEF LoopConsume, Finished
  <2>3. \/ loop' = [loop EXCEPT !.end = "raised"]
        \/ \E x, y : loop' = [loop EXCEPT !.trace = x, !.move = y, !.physics = PhysicsPerTick]
    BY <1>3 DEF LoopConsume
  <2>4. /\ loop'.run = loop.run /\ loop'.demand = loop.demand /\ loop'.recorded = loop.recorded
        /\ loop'.index = loop.index /\ loop'.tape = loop.tape
    <3>1. CASE loop' = [loop EXCEPT !.end = "raised"]
      BY <3>1
    <3>2. ASSUME NEW x, NEW y,
                 loop' = [loop EXCEPT !.trace = x, !.move = y, !.physics = PhysicsPerTick]
          PROVE  /\ loop'.run = loop.run /\ loop'.demand = loop.demand
                 /\ loop'.recorded = loop.recorded
                 /\ loop'.index = loop.index /\ loop'.tape = loop.tape
      BY <3>2
    <3> QED BY <2>3, <3>1, <3>2
  <2> QED BY <2>1, <2>2, <2>4 DEF Runs, LoopState, Looping
<1>4. CASE LoopPhysics
  <2>1. Goes(None, TRUE) /\ OnlyHere'
    BY <1>4, PhysicsGoes
  <2>2. UNCHANGED fails /\ loop.physics # 0
    BY <1>4 DEF LoopPhysics
  <2>3. \E x, y, z : loop' = [loop EXCEPT !.physics = x, !.tick = y, !.trace = z]
    BY <1>4 DEF LoopPhysics
  <2>4. /\ loop'.run = loop.run /\ loop'.demand = loop.demand /\ loop'.recorded = loop.recorded
        /\ loop'.end = loop.end /\ loop'.index = loop.index /\ loop'.tape = loop.tape
    BY <2>3
  <2> QED BY <2>1, <2>2, <2>4 DEF Runs, LoopState
<1>5. ASSUME NEW said \in {"raised", "unparseable", None} \cup Zones, NEW up \in BOOLEAN,
             LoopChat(said, up)
      PROVE  Runs(said, up)
  <2>1. Goes(said, up) /\ OnlyHere'
    BY <1>5, ChatGoes DEF Sayings, Wordless
  <2>2. step[LoopAgent].at # "idle" /\ said \in Said
    BY <1>5 DEF LoopChat, Fallback, PlanEcl
  <2>3. \E x : loop' = [loop EXCEPT !.tape = Append(loop.tape, said), !.index = loop.index + 1,
                                    !.lost = x]
    BY <1>5 DEF LoopChat
  <2>4. /\ loop'.run = loop.run /\ loop'.demand = loop.demand /\ loop'.recorded = loop.recorded
        /\ loop'.end = loop.end /\ loop'.index = loop.index + 1
        /\ loop'.tape = Append(loop.tape, said)
    BY <2>3
  <2>5. fails'.embedding \in Nat
    <3>1. CASE \E x : fails' = [fails EXCEPT !.chat = x]
      BY <3>1 DEF LoopState
    <3>2. CASE Embeds(up)
      BY <3>2, EmbedsCounts DEF LoopState
    <3>3. CASE UNCHANGED fails
      BY <3>3 DEF LoopState
    <3> QED BY <1>5, <3>1, <3>2, <3>3 DEF LoopChat, PlanEcl
  <2> QED BY <2>1, <2>2, <2>4, <2>5 DEF Runs
<1> QED BY <1>1, <1>2, <1>3, <1>4, <1>5 DEF Loop

\* While a run of the loop goes on, its state does.
LEMMA RunsOn ==
  ASSUME LoopState, Next
  PROVE  loop'.end # "running" \/ Replay \/ \E said, up : Runs(said, up)
BY NoLive, StepRuns, StoreRuns, LoopRuns DEF Next, LoopState, WorldInv

-----------------------------------------------------------------------------
\* One sequence is the beginning of another.
Begins(s, t) == Len(s) <= Len(t) /\ \A i \in 1..Len(s) : s[i] = t[i]

\* It is its prefix.
LEMMA BeginsIsPrefix ==
  ASSUME NEW s, AnySeq(s), NEW t, AnySeq(t)
  PROVE  Begins(s, t) <=> IsPrefix(s, t)
<1>1. PICK S : s \in Seq(S)
  BY DEF AnySeq
<1>2. PICK T : t \in Seq(T)
  BY DEF AnySeq
<1> DEFINE U == S \cup T
<1>3. s \in Seq(U) /\ t \in Seq(U)
  BY <1>1, <1>2
<1> HIDE DEF U
<1>4. CASE Len(s) <= Len(t)
  <2> DEFINE a == SubSeq(s, 1, Len(s))
             b == SubSeq(t, 1, Len(s))
  <2>1. a = s
    BY <1>3
  <2>2. b \in Seq(U) /\ Len(b) = Len(s) /\ \A i \in 1..Len(s) : b[i] = t[i]
    BY <1>3, <1>4
  <2> HIDE DEF a, b
  <2>3. a = b <=> \A i \in 1..Len(s) : s[i] = b[i]
    BY <1>3, <2>1, <2>2
  <2>4. IsPrefix(s, t) <=> a = b
    BY <1>4 DEF IsPrefix, a, b
  <2> QED BY <1>4, <2>2, <2>3, <2>4 DEF Begins
<1>5. CASE ~(Len(s) <= Len(t))
  BY <1>5 DEF Begins, IsPrefix
<1> QED BY <1>4, <1>5

\* It is all the more the beginning of what is longer.
LEMMA BeginsAppend ==
  ASSUME NEW s, AnySeq(s), NEW t, AnySeq(t), Begins(s, t), NEW x
  PROVE  Begins(s, Append(t, x))
BY AnyAppend DEF Begins

\* Of itself too.
LEMMA BeginsItself ==
  ASSUME NEW s, AnySeq(s)
  PROVE  Begins(s, s)
<1>1. Len(s) \in Nat
  BY AnyAppend
<1> QED BY <1>1 DEF Begins

\* One more that agrees.
LEMMA BeginsMore ==
  ASSUME NEW s, AnySeq(s), NEW t, AnySeq(t), Begins(s, t), Len(s) < Len(t), NEW x,
         x = t[Len(s) + 1]
  PROVE  Begins(Append(s, x), t)
<1>1. /\ Len(Append(s, x)) = Len(s) + 1 /\ Len(s) \in Nat /\ Len(t) \in Nat
      /\ Append(s, x)[Len(s) + 1] = x /\ \A i \in 1..Len(s) : Append(s, x)[i] = s[i]
  BY AnyAppend
<1>2. ASSUME NEW i \in 1..(Len(s) + 1) PROVE Append(s, x)[i] = t[i]
  <2>1. i \in 1..Len(s) \/ i = Len(s) + 1
    BY <1>1
  <2> QED BY <1>1, <2>1 DEF Begins
<1> QED BY <1>1, <1>2 DEF Begins

\* What begins something begins it all the more before one was added.
LEMMA BeginsLess ==
  ASSUME NEW s, AnySeq(s), NEW t, AnySeq(t), NEW x, Begins(Append(s, x), t)
  PROVE  Begins(s, t) /\ Len(s) < Len(t) /\ x = t[Len(s) + 1]
<1>1. /\ Len(Append(s, x)) = Len(s) + 1 /\ Len(s) \in Nat /\ Len(t) \in Nat
      /\ Append(s, x)[Len(s) + 1] = x /\ \A i \in 1..Len(s) : Append(s, x)[i] = s[i]
  BY AnyAppend
<1>2. Len(s) + 1 \in 1..(Len(s) + 1)
  BY <1>1
<1> QED BY <1>1, <1>2 DEF Begins

-----------------------------------------------------------------------------
(* Two runs from one beginning that hear the same: they come to the same      *)
(* states, or an embedding was missing in one of them and not in the other.   *)

\* The state of a run at its beginning.
Beginning(seed) ==
  [w |-> Work("idle", None, 0, None, None), db |-> Empty, agent |-> NewAgent(LoopAgent),
   pending |-> <<>>, step |-> Idle, rng |-> [cycle |-> 0, micro |-> 0], heading |-> Nowhere,
   prop |-> Nowhere, tick |-> 0, physics |-> 0, tape |-> <<>>, trace |-> <<>>, lost |-> <<>>,
   move |-> NoMove, seed |-> seed]

\* One state leads to another.
LeadsOn(p, q) == p.step.at # "raised" /\ \E c : Legal(p, c) /\ q = After(p, c)

\* What a run had come to before it came to p.
Earlier(r, p) ==
  /\ Good(r) /\ r.seed = p.seed
  /\ Begins(r.tape, p.tape) /\ Begins(r.trace, p.trace) /\ Begins(r.lost, p.lost)
  /\ \A l : IsLabel(l) /\ Ahead(l, p) => Ahead(l, r)
  /\ \A k \in (Len(r.lost) + 1)..Len(p.lost) : Ahead(p.lost[k], r)

\* How a run came to p.
Came(h, n, p) ==
  /\ n \in Nat /\ h[0] = Beginning(p.seed) /\ h[n] = p
  /\ \A i \in 0..n : Earlier(h[i], p)
  /\ \A i \in 0..(n - 1) : LeadsOn(h[i], h[i + 1])

\* A good state is where it has come to.
LEMMA EarlierItself ==
  ASSUME NEW p, Good(p)
  PROVE  Earlier(p, p)
<1>1. Begins(p.tape, p.tape) /\ Begins(p.trace, p.trace) /\ Begins(p.lost, p.lost)
  BY BeginsItself DEF Good
<1>2. Len(p.lost) \in Nat
  BY AnyAppend DEF Good
<1>3. (Len(p.lost) + 1)..Len(p.lost) = {}
  BY <1>2
<1> QED BY <1>1, <1>3 DEF Earlier

\* What was earlier is earlier than what follows.
LEMMA EarlierOn ==
  ASSUME NEW r, NEW p, Earlier(r, p), Good(p), NEW c, Legal(p, c), NEW q, Fine(p, c, q)
  PROVE  Earlier(r, q)
<1>1. /\ AnySeq(r.tape) /\ AnySeq(r.trace) /\ AnySeq(r.lost)
      /\ AnySeq(p.tape) /\ AnySeq(p.trace) /\ AnySeq(p.lost)
  BY DEF Earlier, Good
<1>2. Begins(r.tape, q.tape)
  <2>1. q.tape = p.tape \/ q.tape = Append(p.tape, c.said)
    BY DEF Fine
  <2> QED BY <1>1, <2>1, BeginsAppend DEF Earlier
<1>3. Begins(r.trace, q.trace)
  <2>1. q.trace = p.trace \/ \E x : q.trace = Append(p.trace, x)
    BY DEF Fine, Grows
  <2> QED BY <1>1, <2>1, BeginsAppend DEF Earlier
<1>4. \A l : IsLabel(l) /\ Ahead(l, q) => Ahead(l, r)
  BY DEF Fine, Earlier
<1>5. q.lost = p.lost \/ (q.lost = Append(p.lost, Label(p)) /\ Ahead(Label(p), r))
  <2>1. CASE c.up
    BY <2>1 DEF Fine, Missing
  <2>2. CASE ~c.up
    <3>1. Asks(p)
      BY <2>2 DEF Legal
    <3> QED BY <2>2, <3>1 DEF Fine, Missing, Earlier
  <2> QED BY <2>1, <2>2
<1>6. Begins(r.lost, q.lost)
  BY <1>1, <1>5, BeginsAppend DEF Earlier
<1>7. \A k \in (Len(r.lost) + 1)..Len(q.lost) : Ahead(q.lost[k], r)
  <2>1. CASE q.lost = p.lost
    BY <2>1 DEF Earlier
  <2>2. CASE q.lost = Append(p.lost, Label(p)) /\ Ahead(Label(p), r)
    <3> DEFINE s == p.lost
               x == Label(p)
               t == q.lost
    <3>1. t = Append(s, x) /\ Ahead(x, r)
      BY <2>2
    <3>2. \A k \in (Len(r.lost) + 1)..Len(s) : Ahead(s[k], r)
      BY DEF Earlier
    <3> HIDE DEF s, x, t
    <3>3. /\ Len(t) = Len(s) + 1 /\ Len(s) \in Nat /\ t[Len(s) + 1] = x
          /\ \A i \in 1..Len(s) : t[i] = s[i]
      BY <1>1, <3>1, AnyAppend DEF s
    <3>4. Len(r.lost) \in Nat
      BY <1>1, AnyAppend
    <3>5. ASSUME NEW k \in (Len(r.lost) + 1)..Len(t) PROVE Ahead(t[k], r)
      <4>1. k = Len(s) + 1 \/ (k \in 1..Len(s) /\ k \in (Len(r.lost) + 1)..Len(s))
        BY <3>3, <3>4
      <4> QED BY <3>1, <3>2, <3>3, <4>1
    <3> QED BY <3>5 DEF t
  <2> QED BY <1>5, <2>1, <2>2
<1> QED BY <1>2, <1>3, <1>4, <1>6, <1>7 DEF Earlier, Fine

\* A run goes on.
LEMMA PastOn ==
  ASSUME NEW h, NEW n, NEW p, Came(h, n, p), NEW q, LeadsOn(p, q)
  PROVE  Good(q) /\ \E g : Came(g, n + 1, q)
<1> DEFINE g == [i \in 0..(n + 1) |-> IF i = n + 1 THEN q ELSE h[i]]
<1>1. n \in Nat
  BY DEF Came
<1>2. n \in 0..n /\ Earlier(h[n], p)
  BY <1>1 DEF Came
<1>3. Good(p)
  BY <1>2 DEF Came, Earlier
<1>4. PICK c : Legal(p, c) /\ Fine(p, c, q)
  BY <1>3, AfterFine DEF LeadsOn
<1>5. Good(q) /\ q.seed = p.seed
  BY <1>4 DEF Fine
<1>6. /\ n + 1 \in Nat /\ 0 \in 0..(n + 1) /\ g[n + 1] = q
      /\ \A i \in 0..n : g[i] = h[i]
  BY <1>1
<1> HIDE DEF g
<1>7. \A i \in 0..(n + 1) : Earlier(g[i], q)
  <2>1. \A i \in 0..n : Earlier(h[i], q)
    BY <1>3, <1>4, EarlierOn DEF Came
  <2>2. \A i \in 0..(n + 1) : i = n + 1 \/ i \in 0..n
    BY <1>1
  <2> QED BY <1>5, <1>6, <2>1, <2>2, EarlierItself
<1>8. \A i \in 0..(n + 1 - 1) : LeadsOn(g[i], g[i + 1])
  <2>1. \A i \in 0..(n + 1 - 1) : i \in 0..n /\ (i = n \/ (i \in 0..(n - 1) /\ i + 1 \in 0..n))
    BY <1>1
  <2> QED BY <1>6, <2>1 DEF Came
<1>9. g[0] = Beginning(q.seed)
  <2>1. 0 \in 0..n
    BY <1>1
  <2> QED BY <1>5, <1>6, <2>1 DEF Came
<1> QED BY <1>5, <1>6, <1>7, <1>8, <1>9 DEF Came

-----------------------------------------------------------------------------
\* The embeddings that were missing on the way to q were other ones than those
\* that were missing on the way to z.
Off(q, z) ==
  \/ ~Begins(q.lost, z.lost)
  \/ Len(q.lost) < Len(z.lost) /\ ~Ahead(z.lost[Len(q.lost) + 1], q)

\* A run that makes the same choices comes to the same; a run that says the same
\* and does not is off.
LEMMA SameOrOff ==
  ASSUME NEW p, Good(p), p.step.at # "raised", NEW c, Legal(p, c), NEW d, Legal(p, d),
         NEW z, Good(z), NEW r, r = After(p, d), Earlier(r, z),
         NEW q, q = After(p, c), Begins(q.tape, z.tape)
  PROVE  q = r \/ Off(q, z)
<1>1. Fine(p, c, q) /\ Fine(p, d, r)
  BY AfterFine
<1>2. c.said = d.said
  <2>1. CASE p.step.at = "chat"
    <3>1. Chats(p)
      BY <2>1 DEF Chats, Free, Good, StepOK, WorkOK, Waits
    <3>2. q.tape = Append(p.tape, c.said) /\ r.tape = Append(p.tape, d.said)
      BY <1>1, <3>1 DEF Fine
    <3>3. Begins(r.tape, z.tape) /\ AnySeq(p.tape) /\ AnySeq(z.tape)
      BY DEF Earlier, Good
    <3> QED BY <3>2, <3>3, BeginsLess
  <2>2. CASE p.step.at # "chat"
    BY <2>2 DEF Legal
  <2> QED BY <2>1, <2>2
<1>3. AnySeq(p.lost) /\ AnySeq(z.lost) /\ Begins(r.lost, z.lost) /\ c.up \in BOOLEAN /\ d.up \in BOOLEAN
  BY DEF Good, Earlier, Legal
<1>4. CASE c.up = d.up
  <2>1. c = d
    BY <1>2, <1>4 DEF Legal
  <2> QED BY <2>1
<1>5. CASE c.up /\ ~d.up
  <2>1. Asks(p)
    BY <1>5 DEF Legal
  <2>2. q.lost = p.lost /\ r.lost = Append(p.lost, Label(p)) /\ ~Ahead(Label(p), q)
    BY <1>1, <1>5, <2>1 DEF Fine, Missing
  <2>3. Len(p.lost) < Len(z.lost) /\ Label(p) = z.lost[Len(p.lost) + 1]
    BY <1>3, <2>2, BeginsLess
  <2> QED BY <2>2, <2>3 DEF Off
<1>6. CASE ~c.up /\ d.up
  <2>1. Asks(p)
    BY <1>6 DEF Legal
  <2>2. r.lost = p.lost /\ q.lost = Append(p.lost, Label(p)) /\ ~Ahead(Label(p), r)
    BY <1>1, <1>6, <2>1 DEF Fine, Missing
  <2>3. ASSUME Begins(q.lost, z.lost) PROVE FALSE
    <3>1. Len(p.lost) < Len(z.lost) /\ Label(p) = z.lost[Len(p.lost) + 1]
      BY <1>3, <2>2, <2>3, BeginsLess
    <3>2. Len(p.lost) \in Nat /\ Len(z.lost) \in Nat
      BY <1>3, AnyAppend
    <3>3. Len(p.lost) + 1 \in (Len(r.lost) + 1)..Len(z.lost)
      BY <2>2, <3>1, <3>2
    <3>4. Ahead(z.lost[Len(p.lost) + 1], r)
      BY <3>3 DEF Earlier
    <3> QED BY <2>2, <3>1, <3>4
  <2> QED BY <2>3 DEF Off
<1> QED BY <1>3, <1>4, <1>5, <1>6

\* A run that is off stays off.
LEMMA StaysOff ==
  ASSUME NEW p, Good(p), NEW c, Legal(p, c), NEW q, Fine(p, c, q), NEW z, Good(z), Off(p, z)
  PROVE  Off(q, z)
<1>1. AnySeq(p.lost) /\ AnySeq(z.lost)
  BY DEF Good
<1>2. Len(p.lost) \in Nat /\ Len(z.lost) \in Nat /\ DOMAIN z.lost = 1..Len(z.lost)
  BY <1>1, AnyAppend
<1>3. CASE c.up
  <2>1. q.lost = p.lost
    BY <1>3 DEF Fine, Missing
  <2>2. Len(p.lost) < Len(z.lost) => IsLabel(z.lost[Len(p.lost) + 1])
    BY <1>2 DEF Good, Range
  <2> QED BY <2>1, <2>2 DEF Off, Fine
<1>4. CASE ~c.up
  <2>1. Asks(p)
    BY <1>4 DEF Legal
  <2>2. q.lost = Append(p.lost, Label(p)) /\ Ahead(Label(p), p)
    BY <1>4, <2>1 DEF Fine, Missing
  <2>3. ~Begins(q.lost, z.lost)
    BY <1>1, <2>2, BeginsLess DEF Off
  <2> QED BY <2>3 DEF Off
<1> QED BY <1>3, <1>4 DEF Legal

\* Where neither a decision is recorded nor physics passes, no row is added.
LEMMA NoRow ==
  ASSUME NEW p, p.step.at # "answered", ~(p.physics > 0), NEW c
  PROVE  LET q == After(p, c) IN q.trace = p.trace /\ q.tick = p.tick /\ q.physics = p.physics
<1> DEFINE Stays(q) == q.trace = p.trace /\ q.tick = p.tick /\ q.physics = p.physics
<1>1. Stays(Entered(p)) /\ Stays(Executed(p)) /\ Stays(Left(p))
  BY DEF Entered, Executed, Left
<1>2. Stays(Due(p)) /\ Stays(Begun(p))
  BY DEF Due, Begun
<1>3. Stays(GivenUp(p)) /\ Stays(MarkedOn(p)) /\ Stays(Fetching(p)) /\ Stays(Widened(p))
  BY DEF GivenUp, MarkedOn, Fetching, Widened
<1>4. Stays(Marking(p)) /\ Stays(Moving(p))
  BY DEF Marking, Moving
<1>5. Stays(Noted(p, c.up)) /\ Stays(Felt(p, c.up))
  BY DEF Noted, Felt
<1>6. Stays(Answering(p, c.said, c.up))
  BY DEF Answering
<1> HIDE DEF Stays
<1>7. Stays(After(p, c))
  BY <1>1, <1>2, <1>3, <1>4, <1>5, <1>6 DEF After
<1> QED BY <1>7 DEF Stays

-----------------------------------------------------------------------------
(* The record and its replay.                                               *)

\* After the end of the record, for as long as nothing is asked of the model.
Beyond(p, z) == p.trace = z.trace /\ p.tape = z.tape /\ p.tick = z.tick /\ p.physics = 0

\* What a complete record came to.
Complete(z) == Good(z) /\ z.tick = Ticks /\ z.physics = 0 /\ z.step.at = "idle"

\* A replay is where the record was, or other embeddings were missing in it, or
\* it is beyond the record.
Replaying(h, n) ==
  LET z == h[n] IN
  /\ Came(h, n, z) /\ Complete(z) /\ z.seed = loop.seed
  /\ loop.recorded.tape = z.tape /\ loop.recorded.trace = z.trace /\ loop.recorded.lost = z.lost
  /\ Begins(loop.tape, z.tape) /\ loop.demand \in {Ticks, Ticks + 1}
  /\ (\E j \in 0..n : Here = h[j]) \/ Off(Here, z) \/ Beyond(Here, z)

\* A run of the loop that goes on.
LoopGoesOn ==
  /\ OnlyHere /\ Good(Here) /\ loop.index = Len(loop.tape) /\ fails.embedding \in Nat
  /\ loop.tick = loop.demand => loop.physics = 0
  /\ loop.run = "record" => loop.demand = Ticks /\ \E h, n : Came(h, n, Here)
  /\ loop.run = "replay" => \E h, n : Replaying(h, n)

ReplayInv ==
  /\ WholeInv /\ loop.run \in {"record", "replay"}
  /\ ~ecl => loop.run = "record"
  /\ ecl => IF Looping THEN LoopGoesOn ELSE ReplayReproduces

\* What a complete record says of its tape.
LEMMA CompleteTape ==
  ASSUME NEW z, Complete(z)
  PROVE  Len(z.tape) = Ticks /\ AnySeq(z.tape) /\ AnySeq(z.trace) /\ AnySeq(z.lost)
BY DEF Complete, Good, CountOK

\* What a replay has come to is what the record had.
LEMMA ReplayingMeans ==
  ASSUME Good(Here), NEW h, NEW n, Replaying(h, n)
  PROVE  /\ loop.lost = loop.recorded.lost => IsPrefix(loop.trace, loop.recorded.trace)
         /\ IsPrefix(loop.tape, loop.recorded.tape)
<1> DEFINE z == h[n]
<1>1. /\ Came(h, n, z) /\ Complete(z)
      /\ loop.recorded.tape = z.tape /\ loop.recorded.trace = z.trace /\ loop.recorded.lost = z.lost
      /\ Begins(loop.tape, z.tape)
      /\ (\E j \in 0..n : Here = h[j]) \/ Off(Here, z) \/ Beyond(Here, z)
  BY DEF Replaying
<1>2. /\ AnySeq(loop.tape) /\ AnySeq(loop.trace) /\ AnySeq(loop.lost)
      /\ AnySeq(z.tape) /\ AnySeq(z.trace) /\ AnySeq(z.lost)
  BY <1>1, CompleteTape, HereFields DEF Good
<1> HIDE DEF z
<1>3. ASSUME loop.lost = z.lost PROVE Begins(loop.trace, z.trace)
  <2>1. CASE \E j \in 0..n : Here = h[j]
    BY <1>1, <2>1, HereFields DEF Came, Earlier
  <2>2. CASE Off(Here, z)
    <3>1. Begins(loop.lost, z.lost) /\ ~(Len(loop.lost) < Len(z.lost))
      <4>1. Len(loop.lost) \in Nat
        BY <1>2, AnyAppend
      <4> QED BY <1>2, <1>3, <4>1, BeginsItself
    <3> QED BY <2>2, <3>1, HereFields DEF Off
  <2>3. CASE Beyond(Here, z)
    BY <1>2, <2>3, BeginsItself, HereFields DEF Beyond
  <2> QED BY <1>1, <2>1, <2>2, <2>3
<1> QED BY <1>1, <1>2, <1>3, BeginsIsPrefix

\* So the invariant says what is claimed.
LEMMA InvMeansReproduces == ReplayInv => ReplayReproduces
<1> SUFFICES ASSUME ReplayInv, loop.run = "replay" PROVE ReplayReproduces
  BY DEF ReplayReproduces
<1>1. ecl
  BY DEF ReplayInv
<1>2. CASE Looping
  <2>1. Good(Here) /\ \E h, n : Replaying(h, n)
    BY <1>1, <1>2 DEF ReplayInv, LoopGoesOn
  <2> QED BY <1>2, <2>1, ReplayingMeans DEF ReplayReproduces, Looping
<1> QED BY <1>1, <1>2 DEF ReplayInv

\* A run begins in a good state.
LEMMA BeginningIsGood ==
  ASSUME NEW seed
  PROVE  Good(Beginning(seed)) /\ Came([i \in 0..0 |-> Beginning(seed)], 0, Beginning(seed))
<1> DEFINE b == Beginning(seed)
<1>1. /\ b.w = Work("idle", None, 0, None, None) /\ b.db = Empty /\ b.agent = NewAgent(LoopAgent)
      /\ b.step = Idle /\ b.tick = 0 /\ b.physics = 0 /\ b.tape = <<>> /\ b.trace = <<>>
      /\ b.lost = <<>> /\ b.seed = seed
  BY DEF Beginning
<1>2. b.w.at = "idle"
  BY <1>1 DEF Work
<1>3. b.step.at = "idle"
  BY <1>1 DEF Idle
<1>4. b.agent.tick = 0
  BY <1>1 DEF NewAgent
<1>5. Rows(b.db.row)
  <2>1. b.db.row = <<>>
    BY <1>1 DEF Empty
  <2>2. DOMAIN <<>> = {}
    OBVIOUS
  <2> QED BY <2>1, <2>2, FS_EmptySet DEF Rows
<1>6. AnySeq(b.tape) /\ AnySeq(b.trace) /\ AnySeq(b.lost)
  <2>1. <<>> \in Seq({})
    OBVIOUS
  <2> QED BY <1>1, <2>1 DEF AnySeq
<1>7. \A l \in Range(b.lost) : IsLabel(l)
  BY <1>1 DEF Range
<1>8. Len(b.tape) = 0
  BY <1>1
<1> HIDE DEF b
<1>9. Good(b)
  BY <1>1, <1>2, <1>3, <1>4, <1>5, <1>6, <1>7, <1>8
     DEF Good, DbOK, WorkOK, StepOK, CountOK, Busy, Waits, Prompting
<1> DEFINE h == [i \in 0..0 |-> b]
<1>10. h[0] = b /\ 0..0 = {0} /\ 0..(0 - 1) = {}
  OBVIOUS
<1>11. \A i \in 0..0 : h[i] = b
  OBVIOUS
<1> HIDE DEF h
<1>12. Came(h, 0, b)
  BY <1>1, <1>9, <1>10, <1>11, EarlierItself DEF Came, b
<1> QED BY <1>9, <1>12 DEF b, h

\* Fresh agents on a fresh store are at the beginning.
LEMMA HereBegins ==
  ASSUME thread = [t \in Thread |-> Rest], db = Empty, agent = [a \in Agents |-> NewAgent(a)],
         pending = [a \in Agents |-> <<>>], step[LoopAgent] = Idle,
         rng = [cycle |-> 0, micro |-> 0], heading = [a \in Agents |-> Nowhere],
         dist = [pair |-> Nowhere, prop |-> [a \in Agents |-> Nowhere]],
         loop.tick = 0, loop.physics = 0, loop.tape = <<>>, loop.trace = <<>>,
         loop.lost = <<>>, loop.move = NoMove
  PROVE  Here = Beginning(loop.seed)
<1>1. LoopAgent \in Agents /\ LoopAgent \in Thread
  BY StepAssumption, ApparatusAssumption
<1>2. Work(thread[LoopAgent].at, thread[LoopAgent].call, thread[LoopAgent].n,
           thread[LoopAgent].txn, thread[LoopAgent].out) = Work("idle", None, 0, None, None)
  BY <1>1 DEF Rest, Outside
<1>3. /\ agent[LoopAgent] = NewAgent(LoopAgent) /\ pending[LoopAgent] = <<>>
      /\ heading[LoopAgent] = Nowhere /\ dist.prop[LoopAgent] = Nowhere
  BY <1>1
<1> QED BY <1>2, <1>3 DEF Here, Beginning

\* The record begins there.
LEMMA InitReplay == Init => ReplayInv
<1> SUFFICES ASSUME Init PROVE ReplayInv
  OBVIOUS
<1>1. WholeInv
  BY InitWhole
<1>2. PICK seed \in {0, 1} :
        loop = IF ecl THEN [NewLoop EXCEPT !.seed = seed] ELSE [NewLoop EXCEPT !.end = "none"]
  BY DEF Init
<1>3. CASE ~ecl
  <2>1. loop = [NewLoop EXCEPT !.end = "none"]
    BY <1>2, <1>3
  <2>2. loop.run = "record"
    BY <2>1 DEF NewLoop
  <2> QED BY <1>1, <1>3, <2>2 DEF ReplayInv
<1>4. CASE ecl
  <2>1. loop = [NewLoop EXCEPT !.seed = seed]
    BY <1>2, <1>4
  <2>2. /\ loop.run = "record" /\ loop.tick = 0 /\ loop.physics = 0 /\ loop.demand = Ticks
        /\ loop.tape = <<>> /\ loop.index = 0 /\ loop.trace = <<>> /\ loop.lost = <<>>
        /\ loop.move = NoMove /\ loop.end = "running"
    BY <2>1 DEF NewLoop
  <2>3. step = [a \in Agents |-> Idle] /\ fails = [embedding |-> 0, chat |-> 0, store |-> 0]
    BY DEF Init, Fresh
  <2>4. step[LoopAgent] = Idle
    BY <2>3, ApparatusAssumption
  <2>5. Here = Beginning(loop.seed)
    BY <2>2, <2>4, HereBegins DEF Init, StoreInit, Fresh
  <2>6. Good(Here) /\ \E h, n : Came(h, n, Here)
    BY <2>5, BeginningIsGood
  <2>7. OnlyHere
    <3>1. thread = [t \in Thread |-> Rest]
      BY DEF Init, StoreInit
    <3> QED BY <2>3, <3>1 DEF OnlyHere, Rest, Outside, Idle
  <2>8. fails.embedding \in Nat /\ loop.index = Len(loop.tape)
    BY <2>2, <2>3
  <2> QED BY <1>1, <1>4, <2>2, <2>6, <2>7, <2>8 DEF ReplayInv, LoopGoesOn, Looping
<1> QED BY <1>3, <1>4

\* When a tick ends, so does its physics.
LEMMA TickEnds ==
  ASSUME NEW p, Good(p), NEW c
  PROVE  LET q == After(p, c) IN
         q.tick = p.tick \/ (p.physics > 0 /\ q.tick = p.tick + 1 /\ q.physics = 0)
<1> DEFINE Stays(q) == q.tick = p.tick
           Ends(q) == q.tick = p.tick \/ (p.physics > 0 /\ q.tick = p.tick + 1 /\ q.physics = 0)
<1>1. Stays(Entered(p)) /\ Stays(Executed(p)) /\ Stays(Left(p))
  BY DEF Entered, Executed, Left
<1>2. Stays(Due(p)) /\ Stays(Begun(p)) /\ Stays(Settled(p))
  BY DEF Due, Begun, Settled
<1>3. Stays(GivenUp(p)) /\ Stays(MarkedOn(p)) /\ Stays(Fetching(p)) /\ Stays(Widened(p))
  BY DEF GivenUp, MarkedOn, Fetching, Widened
<1>4. Stays(Marking(p)) /\ Stays(Moving(p))
  BY DEF Marking, Moving
<1>5. Stays(Noted(p, c.up)) /\ Stays(Felt(p, c.up))
  BY DEF Noted, Felt
<1>6. Stays(Answering(p, c.said, c.up))
  BY DEF Answering
<1>7. p.physics > 0 => Ends(Passed(p))
  <2>1. /\ Passed(p).tick = IF p.physics = 1 THEN p.tick + 1 ELSE p.tick
        /\ Passed(p).physics = p.physics - 1
    BY DEF Passed
  <2> QED BY <2>1 DEF Good
<1>8. \A q : Stays(q) => Ends(q)
  OBVIOUS
<1> HIDE DEF Stays, Ends
<1>9. Ends(After(p, c))
  BY <1>1, <1>2, <1>3, <1>4, <1>5, <1>6, <1>7, <1>8 DEF After
<1> QED BY <1>9 DEF Ends

\* Outside of a run of the loop its record stays as it is.
LEMMA RecordStays ==
  ASSUME WorldInv, ~(ecl /\ Looping), Next
  PROVE  loop' = loop /\ ecl' = ecl
<1>1. ~Looping
  BY DEF WorldInv, Looping
<1>2. CASE Live
  <2>1. ASSUME NEW a \in Agents, LiveChat(a) PROVE UNCHANGED <<loop, ecl>>
    BY <2>1 DEF LiveChat, Fallback, Plan
  <2>2. ASSUME NEW a \in Agents, NEW ev \in Observable, Inject(a, ev) PROVE UNCHANGED <<loop, ecl>>
    BY <2>2 DEF Inject
  <2>3. ASSUME NEW t \in Thread, StoreError(t) PROVE UNCHANGED <<loop, ecl>>
    BY <2>3 DEF StoreError
  <2> QED BY <1>2, <2>1, <2>2, <2>3 DEF Live, LivePhysics, StartHandler, Consume, TurnStored,
             TurnBonds, NoDialog, Stop, CloseStore, Alone, stepVars
<1>3. ASSUME Loop PROVE FALSE
  BY <1>1, <1>3 DEF Loop, LoopBegin, Exhausted, LoopConsume, LoopPhysics, Replay, LoopEnd, LoopChat
<1>4. ASSUME NEW a \in Agents, StepOf(a) PROVE UNCHANGED <<loop, ecl>>
  <2>1. ~ecl /\ StepNext(a) /\ loop' = Outages(a)
    BY <1>1, <1>4 DEF StepOf
  <2>2. loop' = loop
    BY <2>1 DEF Outages
  <2>3. ecl' = ecl
    BY ZenonT(60), <2>1 DEF StepNext, Begin, StoreRaised, WriteObservation, Feel, FetchVectors, NextScope,
                Mark, Marked, ResolveMove
  <2> QED BY <2>2, <2>3
<1>5. ASSUME NEW t \in Thread, InStore(t) PROVE UNCHANGED <<loop, ecl>>
  BY <1>5 DEF InStore, stepVars
<1> QED BY <1>2, <1>3, <1>4, <1>5 DEF Next

\* While the loop runs it stays the loop, and how a run of it ends.
LEMMA RunEnds ==
  ASSUME LoopState, Next
  PROVE  /\ ecl'
         /\ loop'.end # "running" =>
              \E e : /\ loop' = [loop EXCEPT !.end = e]
                     /\ e = "complete" => loop.run = "replay" /\ loop.tick = loop.demand
<1>1. ASSUME Live PROVE FALSE
  BY <1>1, NoLive DEF LoopState, WorldInv
<1>2. ASSUME NEW said, NEW up, Runs(said, up) PROVE loop'.end = "running"
  BY <1>2 DEF Runs, LoopState, Looping
<1>3. CASE Loop
  <2>1. ecl'
    <3>1. ASSUME NEW said \in {"raised", "unparseable", None} \cup Zones, NEW up \in BOOLEAN,
                 LoopChat(said, up)
          PROVE  ecl'
      BY <3>1 DEF LoopChat, Fallback, PlanEcl, LoopState
    <3> QED BY <1>3, <3>1
            DEF Loop, LoopBegin, Exhausted, LoopConsume, LoopPhysics, Replay, LoopEnd, stepVars,
                LoopState
  <2> SUFFICES ASSUME loop'.end # "running"
               PROVE  \E e : /\ loop' = [loop EXCEPT !.end = e]
                             /\ e = "complete" => loop.run = "replay" /\ loop.tick = loop.demand
    BY <2>1
  <2>2. Looping
    BY DEF LoopState
  <2>3. \A x, y, z : [loop EXCEPT !.trace = x, !.move = y, !.physics = z].end = loop.end
    OBVIOUS
  <2>4. ASSUME Replay PROVE FALSE
    <3>1. PICK demand \in {Ticks, Ticks + 1} :
            loop' = [NewLoop EXCEPT !.run = "replay", !.demand = demand, !.seed = loop.seed,
                       !.recorded = [tape |-> loop.tape, trace |-> loop.trace, lost |-> loop.lost]]
      BY <2>4 DEF Replay
    <3>2. \A d, s, r : [NewLoop EXCEPT !.run = "replay", !.demand = d, !.seed = s,
                                       !.recorded = r].end = "running"
      BY DEF NewLoop
    <3> QED BY <3>1, <3>2
  <2>5. ASSUME LoopBegin \/ LoopPhysics \/ \E said, up : LoopChat(said, up) PROVE FALSE
    <3>1. CASE LoopBegin
      <4>1. loop' = [loop EXCEPT !.served = Len(loop.tape)]
        BY <3>1 DEF LoopBegin
      <4>2. loop'.end = loop.end
        BY <4>1
      <4> QED BY <2>2, <4>2 DEF Looping
    <3>2. CASE LoopPhysics
      <4>1. \E x, y, z : loop' = [loop EXCEPT !.physics = x, !.tick = y, !.trace = z]
        BY <3>2 DEF LoopPhysics
      <4>2. loop'.end = loop.end
        BY <4>1
      <4> QED BY <2>2, <4>2 DEF Looping
    <3>3. ASSUME NEW said, NEW up, LoopChat(said, up) PROVE FALSE
      <4>1. \E x, y, z : loop' = [loop EXCEPT !.tape = x, !.index = y, !.lost = z]
        BY <3>3 DEF LoopChat
      <4>2. loop'.end = loop.end
        BY <4>1
      <4> QED BY <2>2, <4>2 DEF Looping
    <3> QED BY <2>5, <3>1, <3>2, <3>3
  <2>6. CASE LoopConsume
    <3>1. \/ loop' = [loop EXCEPT !.end = "raised"]
          \/ \E x, y, z : loop' = [loop EXCEPT !.trace = x, !.move = y, !.physics = z]
      BY <2>6 DEF LoopConsume
    <3>2. CASE \E x, y, z : loop' = [loop EXCEPT !.trace = x, !.move = y, !.physics = z]
      <4>1. loop'.end = loop.end
        BY <2>3, <3>2
      <4> QED BY <2>2, <4>1 DEF Looping
    <3>3. CASE loop' = [loop EXCEPT !.end = "raised"]
      BY <3>3
    <3> QED BY <3>1, <3>2, <3>3
  <2>7. CASE Exhausted \/ LoopEnd
    BY <2>7 DEF Exhausted, LoopEnd
  <2> QED BY <1>3, <2>4, <2>5, <2>6, <2>7 DEF Loop
<1>4. ASSUME NEW a \in Agents, StepOf(a) PROVE ecl' /\ loop'.end = "running"
  <2>1. loop'.end = "running"
    BY <1>2, <1>4, StepRuns
  <2>2. StepNext(a)
    BY <1>4 DEF StepOf
  <2>3. ecl' = ecl
    BY ZenonT(60), <2>2 DEF StepNext, Begin, StoreRaised, WriteObservation, Feel, FetchVectors, NextScope,
                Mark, Marked, ResolveMove
  <2> QED BY <2>1, <2>3 DEF LoopState
<1>5. ASSUME NEW t \in Thread, InStore(t) PROVE ecl' /\ loop'.end = "running"
  BY <1>5 DEF InStore, stepVars, LoopState, Looping
<1> QED BY <1>1, <1>3, <1>4, <1>5 DEF Next

-----------------------------------------------------------------------------
\* A beginning of the whole length is the whole.
LEMMA BeginsAll ==
  ASSUME NEW s, AnySeq(s), NEW t, AnySeq(t), Begins(s, t), Len(s) = Len(t)
  PROVE  s = t
<1>1. PICK S : s \in Seq(S)
  BY DEF AnySeq
<1>2. PICK T : t \in Seq(T)
  BY DEF AnySeq
<1> DEFINE U == S \cup T
<1>3. s \in Seq(U) /\ t \in Seq(U)
  BY <1>1, <1>2
<1> HIDE DEF U
<1> QED BY <1>3 DEF Begins

\* A new store, new agents and new streams are a beginning.
LEMMA FreshBegins ==
  ASSUME thread' = [t \in Thread |-> Rest], db' = Empty, agent' = [a \in Agents |-> NewAgent(a)],
         pending' = [a \in Agents |-> <<>>], step'[LoopAgent] = Idle,
         rng' = [cycle |-> 0, micro |-> 0], heading' = [a \in Agents |-> Nowhere],
         dist' = [pair |-> Nowhere, prop |-> [a \in Agents |-> Nowhere]],
         loop'.tick = 0, loop'.physics = 0, loop'.tape = <<>>, loop'.trace = <<>>,
         loop'.lost = <<>>, loop'.move = NoMove
  PROVE  Here' = Beginning(loop'.seed)
<1>1. LoopAgent \in Agents /\ LoopAgent \in Thread
  BY StepAssumption, ApparatusAssumption
<1>2. Work(thread'[LoopAgent].at, thread'[LoopAgent].call, thread'[LoopAgent].n,
           thread'[LoopAgent].txn, thread'[LoopAgent].out) = Work("idle", None, 0, None, None)
  BY <1>1 DEF Rest, Outside
<1>3. /\ agent'[LoopAgent] = NewAgent(LoopAgent) /\ pending'[LoopAgent] = <<>>
      /\ heading'[LoopAgent] = Nowhere /\ dist'.prop[LoopAgent] = Nowhere
  BY <1>1
<1> QED BY <1>2, <1>3 DEF Here, Beginning

\* What a run has recorded is the beginning of what may follow.
LEMMA TapeGoesOn ==
  ASSUME LoopState, loop.run = "replay", loop.index = Len(loop.tape),
         NEW said, NEW up, Runs(said, up), NEW z, AnySeq(z.tape), loop.recorded.tape = z.tape,
         Begins(loop.tape, z.tape)
  PROVE  /\ Begins(loop'.tape, z.tape)
         /\ loop'.tape = loop.tape \/ Len(loop.tape) < Len(z.tape)
<1>1. AnySeq(loop.tape)
  BY HereFields DEF LoopState, Good
<1>2. CASE loop'.tape = loop.tape
  BY <1>2
<1>3. CASE loop'.tape = Append(loop.tape, said) /\ said \in Said
  <2>1. Len(loop.tape) < Len(z.tape) /\ said = z.tape[Len(loop.tape) + 1]
    <3>1. loop.run # "record"
      OBVIOUS
    <3> QED BY <1>3, <3>1 DEF Said
  <2> QED BY <1>1, <1>3, <2>1, BeginsMore
<1> QED BY <1>2, <1>3 DEF Runs

\* Beyond the record nothing is asked of the model any more.
LEMMA BeyondStays ==
  ASSUME NEW z, Complete(z), NEW p, Good(p), Beyond(p, z), NEW c, NEW q, q = After(p, c),
         q.tape = p.tape
  PROVE  Beyond(q, z)
<1>1. Len(p.tape) = Ticks /\ p.tick = Ticks /\ p.physics = 0 /\ p.tick \in Nat
  BY CompleteTape DEF Beyond, Complete, Good
<1>2. p.step.at # "answered"
  BY <1>1 DEF Good, CountOK
<1>3. q.trace = p.trace /\ q.tick = p.tick /\ q.physics = p.physics
  BY <1>1, <1>2, NoRow
<1> QED BY <1>3 DEF Beyond

\* A replay that goes on keeps to the record, is off it or beyond it.
LEMMA ReplayGoesOn ==
  ASSUME LoopState, loop.run = "replay", loop.index = Len(loop.tape),
         NEW h, NEW n, Replaying(h, n), NEW said, NEW up, Runs(said, up)
  PROVE  Replaying(h, n)'
<1> DEFINE z == h[n]
           c == Choice(said, up)
<1>1. /\ Came(h, n, z) /\ Complete(z) /\ z.seed = loop.seed
      /\ loop.recorded.tape = z.tape /\ loop.recorded.trace = z.trace /\ loop.recorded.lost = z.lost
      /\ Begins(loop.tape, z.tape) /\ loop.demand \in {Ticks, Ticks + 1}
      /\ (\E j \in 0..n : Here = h[j]) \/ Off(Here, z) \/ Beyond(Here, z)
  BY DEF Replaying
<1>2. Good(z) /\ n \in Nat /\ AnySeq(z.tape)
  BY <1>1, CompleteTape DEF Complete, Came
<1>3. Good(Here) /\ Here.step.at # "raised" /\ Legal(Here, c) /\ Here' = After(Here, c)
  BY HereFields DEF LoopState, Runs, Goes
<1>4. Fine(Here, c, Here')
  BY <1>3, AfterFine
<1>5. loop'.recorded = loop.recorded /\ loop'.demand = loop.demand
  BY DEF Runs
<1>6. Begins(loop'.tape, z.tape) /\ (loop'.tape = loop.tape \/ Len(loop.tape) < Len(z.tape))
  BY <1>1, <1>2, TapeGoesOn
<1>7. Begins(Here'.tape, z.tape)
  BY <1>6, HereFieldsNext
<1>8. z.seed = loop'.seed
  BY <1>1, <1>4, HereFields, HereFieldsNext DEF Fine
<1> HIDE DEF c
<1>9. CASE Off(Here, z)
  BY <1>1, <1>2, <1>3, <1>4, <1>5, <1>6, <1>8, <1>9, StaysOff DEF Replaying
<1>10. CASE Beyond(Here, z)
  <2>1. Here'.tape = Here.tape
    <3>1. Len(loop.tape) = Len(z.tape) /\ Len(z.tape) \in Nat
      BY <1>1, <1>10, CompleteTape, HereFields, ApparatusAssumption DEF Beyond
    <3> QED BY <1>6, <3>1, HereFields, HereFieldsNext
  <2>2. Beyond(Here', z)
    BY <1>1, <1>3, <1>10, <2>1, BeyondStays
  <2> QED BY <1>1, <1>5, <1>6, <1>8, <2>2 DEF Replaying
<1>11. CASE \E j \in 0..n : Here = h[j]
  <2>1. PICK j \in 0..n : Here = h[j]
    BY <1>11
  <2>2. CASE j = n
    <3>1. Beyond(Here, z)
      BY <1>1, <2>1, <2>2 DEF Beyond, Complete
    <3> QED BY <1>10, <3>1
  <2>3. CASE j # n
    <3>1. j \in 0..(n - 1) /\ j + 1 \in 0..n
      BY <1>2, <2>1, <2>3
    <3>2. LeadsOn(Here, h[j + 1]) /\ Earlier(h[j + 1], z)
      BY <1>1, <2>1, <3>1 DEF Came
    <3>3. PICK d : Legal(Here, d) /\ h[j + 1] = After(Here, d)
      BY <3>2 DEF LeadsOn
    <3>4. Here' = h[j + 1] \/ Off(Here', z)
      BY <1>2, <1>3, <1>7, <3>2, <3>3, SameOrOff
    <3> QED BY <1>1, <1>5, <1>6, <1>8, <3>1, <3>4 DEF Replaying
  <2> QED BY <2>2, <2>3
<1> QED BY <1>1, <1>9, <1>10, <1>11

\* A run that goes on is still one that goes on.
LEMMA LoopKeepsOn ==
  ASSUME LoopState, LoopGoesOn, loop.run \in {"record", "replay"},
         NEW said, NEW up, Runs(said, up)
  PROVE  LoopGoesOn'
<1> DEFINE c == Choice(said, up)
<1>1. Good(Here) /\ Here.step.at # "raised" /\ Legal(Here, c) /\ Here' = After(Here, c)
  BY HereFields DEF LoopState, Runs, Goes
<1>2. Good(Here')
  BY <1>1, AfterFine DEF Fine
<1>3. LeadsOn(Here, Here')
  BY <1>1 DEF LeadsOn
<1>4. Here'.tick = Here.tick \/ (Here.physics > 0 /\ Here'.tick = Here.tick + 1 /\ Here'.physics = 0)
  BY <1>1, TickEnds
<1> HIDE DEF c
<1>5. loop'.index = Len(loop'.tape)
  <2>1. AnySeq(loop.tape)
    BY <1>1, HereFields DEF Good
  <2>2. Len(Append(loop.tape, said)) = Len(loop.tape) + 1
    BY <2>1, AnyAppend
  <2> QED BY <2>2 DEF Runs, LoopGoesOn
<1>6. loop'.run = loop.run /\ loop'.demand = loop.demand /\ fails'.embedding \in Nat /\ OnlyHere'
  BY DEF Runs
<1>7. loop'.tick = loop'.demand => loop'.physics = 0
  <2>1. loop.tick # loop.demand
    BY ApparatusAssumption DEF Runs, LoopState, WorldInv, LoopGoesOn
  <2> QED BY <1>4, <1>6, <2>1, HereFields, HereFieldsNext
<1>8. CASE loop.run = "record"
  <2>1. \E g, m : Came(g, m, Here')
    BY <1>3, <1>8, PastOn DEF LoopGoesOn
  <2> QED BY <1>2, <1>5, <1>6, <1>7, <1>8, <2>1 DEF LoopGoesOn
<1>9. CASE loop.run = "replay"
  <2>1. PICK h, n : Replaying(h, n)
    BY <1>9 DEF LoopGoesOn
  <2>2. Replaying(h, n)'
    BY <1>9, <2>1, ReplayGoesOn DEF LoopGoesOn
  <2>3. \E g, m : Replaying(g, m)'
    BY <2>2
  <2> QED BY <1>2, <1>5, <1>6, <1>7, <1>9, <2>3 DEF LoopGoesOn
<1> QED BY <1>8, <1>9

\* A replay begins where its record began.
LEMMA ReplayBegins ==
  ASSUME LoopState, LoopGoesOn, Wrote(LoopAgent), Replay
  PROVE  LoopGoesOn' /\ loop'.run = "replay" /\ loop'.end = "running"
<1>1. /\ loop.run = "record" /\ loop.tick = Ticks /\ loop.physics = 0
      /\ \E h, n : Came(h, n, Here)
  BY DEF Replay, LoopGoesOn
<1>2. PICK h, n : Came(h, n, Here)
  BY <1>1
<1>3. step[LoopAgent].at = "idle"
  BY <1>1, ApparatusAssumption DEF Replay, LoopState, WorldInv
<1>4. Complete(Here) /\ h[n] = Here /\ n \in Nat /\ h[0] = Beginning(loop.seed)
  BY <1>1, <1>2, <1>3, HereFields DEF Complete, Came, LoopGoesOn
<1>5. PICK demand \in {Ticks, Ticks + 1} :
        loop' = [NewLoop EXCEPT !.run = "replay", !.demand = demand, !.seed = loop.seed,
                   !.recorded = [tape |-> loop.tape, trace |-> loop.trace, lost |-> loop.lost]]
  BY DEF Replay
<1> DEFINE rec == [tape |-> loop.tape, trace |-> loop.trace, lost |-> loop.lost]
<1>6. rec.tape = loop.tape /\ rec.trace = loop.trace /\ rec.lost = loop.lost
  OBVIOUS
<1>7. loop' = [NewLoop EXCEPT !.run = "replay", !.demand = demand, !.seed = loop.seed,
                              !.recorded = rec]
  BY <1>5
<1> HIDE DEF rec
<1>8. /\ loop'.run = "replay" /\ loop'.demand = demand /\ loop'.seed = loop.seed
      /\ loop'.recorded = rec /\ loop'.tick = 0 /\ loop'.physics = 0 /\ loop'.tape = <<>>
      /\ loop'.index = 0 /\ loop'.trace = <<>> /\ loop'.lost = <<>> /\ loop'.move = NoMove
      /\ loop'.end = "running"
  BY <1>7 DEF NewLoop
<1>9. step'[LoopAgent] = Idle
  <2>1. step[LoopAgent] = Idle
    BY <1>3 DEF Wrote
  <2> QED BY <2>1 DEF Replay
<1>10. Here' = Beginning(loop.seed)
  BY <1>8, <1>9, FreshBegins DEF Replay, Redrawn
<1>11. Good(Here')
  BY <1>10, BeginningIsGood
<1>12. OnlyHere'
  <2>1. thread' = [t \in Thread |-> Rest] /\ step' = step
    BY DEF Replay
  <2> QED BY <2>1 DEF OnlyHere, Rest, Outside, LoopState
<1>13. Begins(<<>>, loop.tape)
  <2>1. Len(loop.tape) \in Nat
    BY AnyAppend, HereFields DEF LoopState, Good
  <2> QED BY <2>1 DEF Begins
<1> DEFINE z == h[n]
<1>14. /\ z.seed = loop.seed /\ z.tape = loop.tape /\ z.trace = loop.trace /\ z.lost = loop.lost
       /\ Came(h, n, z) /\ Complete(z) /\ 0 \in 0..n
  BY <1>2, <1>4, HereFields
<1>15. Replaying(h, n)'
  <2>1. Here' = h[0]
    BY <1>4, <1>10
  <2> HIDE DEF z
  <2> QED BY <1>6, <1>8, <1>13, <1>14, <2>1 DEF Replaying, z
<1>16. \E g, m : Replaying(g, m)'
  BY <1>15
<1>17. loop'.index = Len(loop'.tape) /\ fails'.embedding \in Nat
  BY <1>8 DEF Replay, LoopState
<1> QED BY <1>8, <1>11, <1>12, <1>16, <1>17 DEF LoopGoesOn

\* However a replay ends, it has retraced what it had come to.
LEMMA EndReproduces ==
  ASSUME LoopState, LoopGoesOn, NEW e, loop' = [loop EXCEPT !.end = e],
         e = "complete" => loop.run = "replay" /\ loop.tick = loop.demand
  PROVE  ReplayReproduces'
<1>1. /\ loop'.run = loop.run /\ loop'.lost = loop.lost /\ loop'.trace = loop.trace
      /\ loop'.tape = loop.tape /\ loop'.recorded = loop.recorded /\ loop'.demand = loop.demand
  BY DEF LoopGoesOn
<1>2. loop'.end = "complete" => e = "complete" \/ loop.end = "complete"
  BY DEF LoopGoesOn
<1> SUFFICES ASSUME loop.run = "replay" PROVE ReplayReproduces'
  BY <1>1 DEF ReplayReproduces
<1>3. PICK h, n : Replaying(h, n)
  BY DEF LoopGoesOn
<1>4. /\ loop.lost = loop.recorded.lost => IsPrefix(loop.trace, loop.recorded.trace)
      /\ IsPrefix(loop.tape, loop.recorded.tape)
  BY <1>3, ReplayingMeans DEF LoopGoesOn
<1>5. ASSUME e = "complete" PROVE loop.demand = Ticks /\ loop.tape = loop.recorded.tape
  <2> DEFINE z == h[n]
  <2>1. Complete(z) /\ loop.recorded.tape = z.tape /\ Begins(loop.tape, z.tape)
        /\ loop.demand \in {Ticks, Ticks + 1}
    BY <1>3 DEF Replaying
  <2>2. Len(z.tape) = Ticks /\ AnySeq(z.tape) /\ AnySeq(loop.tape)
    BY <2>1, CompleteTape, HereFields DEF LoopState, Good
  <2> HIDE DEF z
  <2>3. loop.tick = loop.demand /\ loop.physics = 0 /\ step[LoopAgent].at = "idle"
    BY <1>5, ApparatusAssumption DEF LoopState, WorldInv, LoopGoesOn
  <2>4. Len(loop.tape) = loop.demand
    <3>1. CountOK(Here)
      BY DEF LoopState, Good
    <3> QED BY <2>3, <3>1, HereFields DEF CountOK
  <2>5. loop.demand = Ticks
    BY <2>1, <2>2, <2>4, ApparatusAssumption DEF Begins
  <2>6. loop.tape = z.tape
    BY <2>1, <2>2, <2>4, <2>5, BeginsAll
  <2> QED BY <2>1, <2>5, <2>6
<1>6. loop.end = "running"
  BY DEF LoopState, Looping
<1> QED BY <1>1, <1>2, <1>4, <1>5, <1>6 DEF ReplayReproduces

\* Every step keeps it.
LEMMA NextReplays == ReplayInv /\ [Next]_vars => ReplayInv'
<1> SUFFICES ASSUME ReplayInv, [Next]_vars PROVE ReplayInv'
  OBVIOUS
<1>1. WholeInv' /\ StoreInv /\ WorldInv
  BY NextWhole DEF ReplayInv, WholeInv
<1>2. CASE UNCHANGED vars
  <2>1. Here' = Here /\ loop' = loop /\ ecl' = ecl /\ thread' = thread /\ step' = step /\ fails' = fails
    BY <1>2 DEF vars, storeVars, stepVars, Here
  <2>2. ASSUME NEW h, NEW n PROVE Replaying(h, n)' <=> Replaying(h, n)
    BY <2>1 DEF Replaying
  <2>3. OnlyHere' <=> OnlyHere
    BY <2>1 DEF OnlyHere
  <2>4. LoopGoesOn => LoopGoesOn'
    BY <2>1, <2>2, <2>3 DEF LoopGoesOn
  <2> QED BY <1>1, <2>1, <2>4 DEF ReplayInv, ReplayReproduces, Looping
<1>3. CASE Next /\ ~(ecl /\ Looping)
  <2>1. loop' = loop /\ ecl' = ecl
    BY <1>1, <1>3, RecordStays
  <2> QED BY <1>1, <1>3, <2>1 DEF ReplayInv, ReplayReproduces, Looping
<1>4. CASE Next /\ ecl /\ Looping
  <2>1. LoopState /\ LoopGoesOn
    BY <1>1, <1>4 DEF ReplayInv, LoopState, LoopGoesOn
  <2>2. ecl'
    BY <1>4, <2>1, RunEnds
  <2>3. CASE loop'.end # "running"
    <3>1. PICK e : /\ loop' = [loop EXCEPT !.end = e]
                   /\ e = "complete" => loop.run = "replay" /\ loop.tick = loop.demand
      BY <1>4, <2>1, <2>3, RunEnds
    <3>2. loop'.run = loop.run
      BY <3>1
    <3>3. ReplayReproduces'
      BY <2>1, <3>1, EndReproduces
    <3> QED BY <1>1, <2>2, <2>3, <3>2, <3>3 DEF ReplayInv, Looping
  <2>4. CASE Replay
    <3>1. Wrote(LoopAgent)
      BY <1>1, <1>4, ApparatusAssumption DEF ReplayInv, WholeInv, WorldInv, Written
    <3> QED BY <1>1, <2>1, <2>2, <2>4, <3>1, ReplayBegins DEF ReplayInv, Looping
  <2>5. ASSUME NEW said, NEW up, Runs(said, up) PROVE ReplayInv'
    <3>1. LoopGoesOn'
      BY <2>1, <2>5, LoopKeepsOn DEF ReplayInv
    <3>2. loop'.run = loop.run /\ loop'.end = loop.end
      BY <2>5 DEF Runs
    <3> QED BY <1>1, <1>4, <2>2, <3>1, <3>2 DEF ReplayInv, Looping
  <2> QED BY <1>4, <2>1, <2>3, <2>4, <2>5, RunsOn
<1> QED BY <1>2, <1>3, <1>4

\* A replay retraces its record, of any number of ticks, agents, memories and
\* outages, whatever the model said (loop.py:205-280, 446-453).
THEOREM ReplaysRetrace == Spec => []ReplayReproduces
BY InitReplay, NextReplays, InvMeansReproduces, PTL DEF Spec
=============================================================================
