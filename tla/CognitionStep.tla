--------------------------- MODULE CognitionStep ---------------------------
(***************************************************************************)
(* CognitionCycle.step of one agent over the shared store: the await points *)
(* are the calls of the store, the embeddings and the chat.  The steps of    *)
(* several agents interleave at them.  What step computes in between        *)
(* without touching anything shared is done in the action that ends it.      *)
(* The individual layer, modelled in Individual, is switched off.           *)
(***************************************************************************)
EXTENDS StoreConnection, Body

CONSTANTS
  Agents,             \* numbers, in the order of the agent ids
  DefaultMode,        \* ZONE_TO_DEFAULT_ERRE_MODE
  Pool, KAgent, KWorld, KEcl,
  MaxOutages,         \* bound on embeddings that are unavailable
  MaxFallbacks,       \* bound on chats without a plan
  Preferred,          \* preferred_zones of the persona
  RetrievalNow        \* the pinned clock of record mode, in ticks

ASSUME StepAssumption ==
  /\ Agents \subseteq Nat /\ Agents \subseteq Thread
  /\ \A z \in Zones : DefaultMode[z] # None
  /\ Pool \in Nat /\ RetrievalNow \in Nat

VARIABLES
  agent,     \* AgentState of each: tick, body, mode, bonds
  pending,   \* AgentRuntime.pending
  step,      \* where the step of each agent is, and its locals
  ecl,       \* whether an EclRecordMode is set
  rng,       \* draws made from the streams of the cycle and of the micro walk
  fails      \* failures so far of the embeddings, the chat and the store

stepVars == <<agent, pending, step, ecl, rng, fails>>

Idle == [at |-> "idle"]

\* MoveMsg.target, and the memories it was resolved from.
NoMove == [to |-> Nowhere, from |-> {}]

-----------------------------------------------------------------------------
(* The modes *)

Perception(t) == [kind |-> "perception", about |-> t]
Internal(m) == [kind |-> "internal", mode |-> m]
ModeShift(m, reason) == [kind |-> "shift", mode |-> m, reason |-> reason]

\* The mode one observation asks for, or None.
Candidate(ev) ==
  CASE ev.kind = "zone" -> DefaultMode[ev.to]
    [] ev.kind = "internal" -> ev.mode
    [] ev.kind = "shift" -> IF ev.reason = "external" THEN None ELSE ev.mode
    [] OTHER -> None

\* The latest signal wins.
NextMode(current, obs) ==
  LET mode[i \in 0..Len(obs)] ==
        IF i = 0 THEN current
        ELSE IF Candidate(obs[i]) = None THEN mode[i - 1] ELSE Candidate(obs[i])
  IN mode[Len(obs)]

\* Internal events are the recognised ones: "fatigue:..." asks for chashitsu,
\* "shuhari_promote:..." for the mode of the stage.
ReasonOf(ev) ==
  CASE ev.kind = "zone" -> "zone"
    [] ev.kind = "internal" -> IF ev.mode = "chashitsu" THEN "fatigue" ELSE "scheduled"
    [] OTHER -> "external"

\* The observations that may shift a mode.
Shifting(obs) == {i \in DOMAIN obs : obs[i].kind \in {"zone", "internal", "shift"}}

\* Faulty variant: the first of them.
InferShiftReasonFirst(obs) ==
  IF Shifting(obs) = {} THEN "external" ELSE ReasonOf(obs[Min(Shifting(obs))])

\* The last of them.
InferShiftReason(obs) ==
  IF Shifting(obs) = {} THEN "external" ELSE ReasonOf(obs[Max(Shifting(obs))])

\* What the event is about, as its embedding tells it.
Topic(ev) == CASE ev.kind = "zone" -> ev.to
               [] ev.kind = "perception" -> ev.about
               [] OTHER -> ev.kind

Importance(ev) == IF ev.kind = "perception" THEN 1 ELSE 2

-----------------------------------------------------------------------------
(* Writing the observations *)

\* The runtime takes what is pending and starts the step.
Begin(a) ==
  /\ step[a].at = "due"
  /\ step' = [step EXCEPT ![a] = [at |-> "write", serial |-> step[a].serial, n |-> 0,
                                  obs |-> pending[a], self |-> agent[a], new |-> {},
                                  shift |-> None]]
  /\ pending' = [pending EXCEPT ![a] = <<>>]
  /\ UNCHANGED <<agent, ecl, rng, fails, storeVars>>

\* An embedding is unavailable, at most MaxOutages times.
Embeds(up) ==
  IF up THEN UNCHANGED fails
  ELSE fails.embedding < MaxOutages /\ fails' = [fails EXCEPT !.embedding = @ + 1]

\* An id of its own for each memory: a UUID, for which the serial number of the
\* step stands, or, of record mode, ecl-agent-tick with a suffix for the second
\* observation of a tick, which is then the serial number.
FreshId(a, n) == <<a, step[a].serial, n>>

\* Where the memory was formed; only record mode says.
Formed(a) == IF ecl THEN step[a].self.body ELSE Nowhere

\* The nth observation goes to the store, with its embedding if there is one.
Answered(a) == thread[a].at = "done"

WriteObservation(a, up) ==
  LET s == step[a]  ev == s.obs[s.n + 1]  id == FreshId(a, s.n) IN
  /\ s.at = "write" /\ s.n < Len(s.obs)
  /\ s.n > 0 => Answered(a)
  /\ Embeds(up)
  /\ Submit(a, Add(id, [kind |-> "episodic", agent |-> a, at |-> s.self.tick,
                        imp |-> Importance(ev), recalls |-> 0, loc |-> Formed(a),
                        about |-> Topic(ev)],
                   IF up THEN Topic(ev) ELSE None))
  /\ step' = [step EXCEPT ![a].n = @ + 1, ![a].new = @ \cup {id}]
  /\ UNCHANGED <<agent, pending, ecl, rng>>

\* An exception of the store leaves step: the runtime will log it.
StoreRaised(a) ==
  /\ step[a].at \in {"write", "mark", "rows", "vectors"} /\ thread[a].at = "failed"
  /\ step' = [step EXCEPT ![a] = [at |-> "raised", new |-> step[a].new]]
  /\ UNCHANGED <<agent, pending, ecl, rng, fails, storeVars>>

-----------------------------------------------------------------------------
(* From the last write to the chat *)

Shifted(s) ==
  LET mode == NextMode(s.self.mode, s.obs) IN
  IF mode = s.self.mode THEN s
  ELSE LET ev == ModeShift(mode, InferShiftReason(s.obs)) IN
       [s EXCEPT !.self.mode = mode, !.obs = Append(@, ev), !.shift = ev]

\* The retrieval of the prompt: what the query is about is the last
\* observation; an embedding outage leaves the prompt without memories.
Retrieving(s, why, query) ==
  [at |-> "rows", why |-> why, world |-> FALSE, query |-> query, obs |-> s.obs,
   rows |-> <<>>, top |-> {}, self |-> s.self, new |-> s.new, shift |-> s.shift,
   zone |-> None]

Prompted(s) == [at |-> "chat", self |-> s.self, new |-> s.new, shift |-> s.shift,
                obs |-> s.obs, top |-> IF "top" \in DOMAIN s THEN s.top ELSE {}]

Feel(a, up) ==
  LET s == step[a]  felt == Shifted(s) IN
  /\ s.at = "write" /\ s.n = Len(s.obs)
  /\ s.n > 0 => Answered(a)
  /\ Embeds(up)
  /\ rng' = [rng EXCEPT !.cycle = @ + 1]
  /\ IF up
     THEN /\ step' = [step EXCEPT ![a] = Retrieving(felt, "prompt",
                        IF felt.obs = <<>> THEN None ELSE Topic(Last(felt.obs)))]
          /\ Submit(a, ListByAgent(a, Pool))
     ELSE step' = [step EXCEPT ![a] = Prompted(felt)] /\ UNCHANGED storeVars
  /\ UNCHANGED <<agent, pending, ecl>>

\* The rows of a scope are there: their embeddings are read, if there are any.
FetchVectors(a) ==
  LET s == step[a] IN
  /\ s.at = "rows" /\ Answered(a) /\ thread[a].out # <<>>
  /\ step' = [step EXCEPT ![a].at = "vectors", ![a].rows = thread[a].out]
  /\ Submit(a, GetEmbeddings(DOMAIN thread[a].out))
  /\ UNCHANGED <<agent, pending, ecl, rng, fails>>

\* Record mode pins the clock of the retriever.
Now(s) == IF ecl THEN RetrievalNow ELSE s.self.tick

K(s) == IF s.why = "move" THEN (IF s.world THEN 0 ELSE KEcl)
        ELSE IF s.world THEN KWorld ELSE KAgent

\* The best of a scope join the result.
Chosen(a) ==
  LET s == step[a] IN
  IF s.at = "rows" THEN {s.top}
  ELSE {s.top \cup T : T \in Tops(Ranked(s.rows, thread[a].out, s.query, Now(s)), K(s))}

ScopeRanked(a) == Answered(a) /\ \/ step[a].at = "vectors"
                                 \/ step[a].at = "rows" /\ thread[a].out = <<>>

\* After the own memories, those of the others.
NextScope(a) ==
  /\ ScopeRanked(a) /\ ~step[a].world
  /\ \E top \in Chosen(a) :
       step' = [step EXCEPT ![a] = [@ EXCEPT !.at = "rows", !.world = TRUE,
                                             !.rows = <<>>, !.top = top]]
  /\ Submit(a, ListWorldScope(a, Pool))
  /\ UNCHANGED <<agent, pending, ecl, rng, fails>>

Ids(top) == {m.id : m \in top}

\* The memories of the prompt are marked as recalled, if there are any.
Mark(a) ==
  /\ ScopeRanked(a) /\ step[a].world /\ step[a].why = "prompt"
  /\ \E top \in Chosen(a) :
       IF top = {}
       THEN step' = [step EXCEPT ![a] = Prompted(step[a])] /\ UNCHANGED storeVars
       ELSE /\ step' = [step EXCEPT ![a] = [Prompted(step[a]) EXCEPT !.at = "mark", !.top = top]]
            /\ Submit(a, MarkRecalled(Ids(top)))
  /\ UNCHANGED <<agent, pending, ecl, rng, fails>>

Marked(a) ==
  /\ step[a].at = "mark" /\ Answered(a)
  /\ step' = [step EXCEPT ![a].at = "chat"]
  /\ UNCHANGED <<agent, pending, ecl, rng, fails, storeVars>>

-----------------------------------------------------------------------------
(* From the answer to the result *)

\* The state the step began with, one tick on, and the move the plan makes.
Result(s, fell, move) ==
  [at |-> "answered", self |-> [s.self EXCEPT !.tick = @ + 1], new |-> s.new,
   shift |-> s.shift, obs |-> s.obs, fell |-> fell, move |-> move]

\* Unavailable or unparseable: no move, and the tick goes on.
Fallback(a) ==
  /\ step[a].at = "chat"
  /\ step' = [step EXCEPT ![a] = Result(step[a], TRUE, NoMove)]
  /\ UNCHANGED <<agent, pending, ecl, rng, storeVars>>

\* A zone outside of the preferred ones costs a draw, which may replace it.
Draws(zone) == IF zone = None \/ zone \in Preferred THEN 1 ELSE 2

Biased(zone, fires) ==
  IF zone = None \/ zone \in Preferred \/ ~fires THEN zone
  ELSE CHOOSE z \in Preferred : TRUE

\* A plan, outside of record mode: the target keeps the place and names a zone.
Plan(a, zone) ==
  LET s == step[a] IN
  /\ s.at = "chat"
  /\ step' = [step EXCEPT ![a] =
       Result(s, FALSE, IF zone = None THEN NoMove
                        ELSE [to |-> [x |-> s.self.body.x, zone |-> zone], from |-> {}])]
  /\ rng' = [rng EXCEPT !.cycle = @ + Draws(zone)]
  /\ UNCHANGED <<agent, pending, ecl, fails, storeVars>>

\* In record mode the place is looked for in the memories of the agent; an
\* outage of the embeddings is caught by nobody here.
PlanEcl(a, zone, up) ==
  LET s == step[a] IN
  /\ s.at = "chat" /\ Embeds(up) /\ (zone = None => up)
  /\ rng' = [rng EXCEPT !.cycle = @ + Draws(zone)]
  /\ \/ /\ zone = None
        /\ step' = [step EXCEPT ![a] = Result(s, FALSE, NoMove)]
        /\ UNCHANGED storeVars
     \/ /\ zone # None /\ ~up
        /\ step' = [step EXCEPT ![a] = [at |-> "raised", new |-> s.new]]
        /\ UNCHANGED storeVars
     \/ /\ zone # None /\ up
        /\ step' = [step EXCEPT ![a] =
                      [Retrieving(s, "move", "forage") EXCEPT !.zone = zone]]
        /\ Submit(a, ListByAgent(a, Pool))
  /\ UNCHANGED <<agent, pending, ecl>>

Weight(top) == MapThenSumSet(LAMBDA m : m.strength, top)

\* disc_jitter: what the nth draw gives.
Jitter(n) == (n % (2 * MicroRadius + 1)) - MicroRadius

\* The weighted centroid of the memories, a jitter and a clamp; the spawn of
\* the zone, and no draw, if they weigh nothing.
Destination(top, zone, n) ==
  LET w == Weight(top) IN
  IF w <= 0 THEN [to |-> DefaultSpawn(zone), from |-> {}]
  ELSE LET c == MapThenSumSet(LAMBDA m : m.strength * m.row.loc.x, top) \div w
           x == ReflectClamp(c + Jitter(n), zone)
       IN [to |-> [x |-> x, zone |-> LocateZone(x)], from |-> Ids(top)]

ResolveMove(a) ==
  /\ ScopeRanked(a) /\ step[a].world /\ step[a].why = "move"
  /\ \E top \in Chosen(a) :
       /\ step' = [step EXCEPT ![a] =
                     Result(step[a], FALSE, Destination(top, step[a].zone, rng.micro))]
       /\ rng' = IF Weight(top) > 0 THEN [rng EXCEPT !.micro = @ + 1] ELSE rng
  /\ UNCHANGED <<agent, pending, ecl, fails, storeVars>>

\* What a step does on its own; the chat is up to who drives it.
StepNext(a) ==
  \/ Begin(a) \/ StoreRaised(a)
  \/ \E up \in BOOLEAN : WriteObservation(a, up) \/ Feel(a, up)
  \/ FetchVectors(a) \/ NextScope(a) \/ Mark(a) \/ Marked(a) \/ ResolveMove(a)
=============================================================================
