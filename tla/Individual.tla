----------------------------- MODULE Individual -----------------------------
(***************************************************************************)
(* The individual layer of one agent, tick by tick (cognition/cycle.py,    *)
(* world/tick.py, cognition/reflection.py).  A tick reconciles the carried *)
(* world model with the floor the evidence gives, shows it to the language *)
(* model, applies at most one hint, reflects, folds the evidence into the  *)
(* stage of development; the world loop then writes the result back.  A    *)
(* step that raises writes nothing back, but the memories it wrote and the *)
(* reflector's counter stay.                                               *)
(*                                                                         *)
(* The evidence, the beliefs and bonds the floor is made of, may be other  *)
(* at every tick: dialog turns change it, which the world loop takes       *)
(* between the steps of an agent.                                          *)
(***************************************************************************)
EXTENDS WorldModel, Development, FiniteSets

CONSTANTS
  Evidence,       \* what the store and the bonds may say
  MaxShown,       \* the entries of a prompt
  TICK_INTERVAL,  \* answered ticks until a reflection is due
  MaxTick,        \* bounds of the model: the ticks,
  MaxCount        \* and the steps without a reflection

ASSUME IndividualAssumption ==
  /\ \A e \in Evidence :
       /\ IsFloor(e.floor)
       /\ e.beliefs \in Nat /\ e.signature \in Nat /\ e.confident \in BOOLEAN
  /\ MaxShown \in Nat /\ TICK_INTERVAL \in Nat \ {0} /\ {MaxTick, MaxCount} \subseteq Nat

NoModel == FromFloor([k \in {} |-> 0])  \* reconciling it gives the floor
NoEvidence == [floor |-> NoModel.base, beliefs |-> 0, signature |-> 0, confident |-> FALSE]

VARIABLES
  arm,       \* whether the short-term carry is on, for the whole run
  rt,        \* the agent's runtime: tick, world model wm and development dev
  call,      \* the step in flight
  counter,   \* the reflector's ticks since the last reflection
  episodic,  \* whether a memory was ever written
  census,    \* the row of hint engagement that the step which just ended left
  \* what the code does not keep:
  crossed,   \* the tick a value's offset was first carried over new evidence
  silent,    \* answered ticks since a reflection was persisted
  reflected, \* what became of the latest: "none" was due, "failed", "persisted"
  ideal      \* the development had every utterance cohered

vars == <<arm, rt, call, counter, episodic, census, crossed, silent, reflected, ideal>>

NoRow == [tick |-> Never, hint |-> NotEmitted]

\* Between two ticks no step is in flight.
Idle ==
  [ asking |-> FALSE, rows |-> 0, evidence |-> NoEvidence, shown |-> NoModel,
    crossed |-> [k \in Key |-> Never] ]

Init ==
  /\ arm \in BOOLEAN
  /\ rt = [tick |-> 0, wm |-> NoModel, dev |-> Seed]
  /\ call = Idle /\ counter = 0 /\ episodic = FALSE /\ census = NoRow
  /\ crossed = [k \in Key |-> Never] /\ silent = 0 /\ reflected = "none" /\ ideal = Seed

-----------------------------------------------------------------------------
Off(m, k) == k \in DOMAIN m.base /\ m.values[k] # m.base[k].value

Unmoved(floor, k) == k \in DOMAIN rt.wm.base /\ rt.wm.base[k] = floor[k]

\* Since when the offset m carries on k is on evidence it was not made on.
CrossedBy(m, k) ==
  CASE ~Off(m, k)                                                -> Never
    [] Off(m, k) /\ crossed[k] # Never                           -> crossed[k]
    [] Off(m, k) /\ crossed[k] = Never /\ Unmoved(m.base, k)     -> Never
    [] Off(m, k) /\ crossed[k] = Never /\ ~Unmoved(m.base, k)    -> rt.tick

\* Steps 1 to 6: the observations become memories, the floor is synthesized
\* and the carried model reconciled with it; the prompt is sent.
Begin(evidence, rows) ==
  /\ ~call.asking /\ rt.tick < MaxTick /\ counter < MaxCount
  /\ LET m == Reconcile(arm, rt.wm, evidence.floor, rt.tick) IN
       call' = [ asking |-> TRUE, rows |-> rows, evidence |-> evidence, shown |-> m,
                 crossed |-> [k \in Key |-> CrossedBy(m, k)] ]
  /\ episodic' = (episodic \/ rows > 0) /\ census' = NoRow
  /\ UNCHANGED <<arm, rt, counter, crossed, silent, reflected, ideal>>

\* _consume_result: the result of the step is the runtime of the next tick, and
\* what became of its hint is a row of the trace.
Consume(m, d, hint) ==
  /\ rt' = [tick |-> rt.tick + 1, wm |-> m, dev |-> d]
  /\ census' = [tick |-> rt'.tick, hint |-> hint]
  /\ crossed' = call.crossed /\ call' = Idle

\* The model is unavailable, or its plan does not parse: the reconciled model
\* goes on, and neither reflection nor development is reached.
Fallback ==
  /\ call.asking /\ Consume(call.shown, rt.dev, NotEmitted)
  /\ UNCHANGED <<arm, counter, episodic, silent, reflected, ideal>>

\* The entries of a prompt: MaxShown of them, or all.
Visible ==
  LET all == DOMAIN call.evidence.floor IN
  {v \in SUBSET all : Cardinality(v) = MaxShown \/ (v = all /\ Cardinality(v) < MaxShown)}

\* What a plan leaves of the model, and of its hint: it need not make one.
Hinted ==
  {<<call.shown, NotEmitted>>} \union
  { <<Apply(call.shown, visible, hint), Emitted(call.shown, visible, hint)>> :
      visible \in Visible, hint \in Hint }

\* What an utterance is worth, "none" where it cannot be measured: it is held to
\* what was shown, and an arc needs a memory to point at.
Coherences ==
  IF call.rows = 0 \/ DOMAIN call.evidence.floor = {} THEN {"none"}
  ELSE {"none", "low", "plain", "high"}

\* The development after this tick; nothing to tell, nothing to develop.
Developed(d, coherence, coheres) ==
  IF coherence = "none" THEN d
  ELSE Advance(d, [ rows |-> call.rows, coheres |-> coheres,
                    beliefs |-> call.evidence.beliefs, signature |-> call.evidence.signature,
                    confident |-> call.evidence.confident ])

\* ReflectionPolicy.should_fire; urgent for the importance and the zones.
Due(coherence, urgent) == counter + 1 >= TICK_INTERVAL \/ urgent \/ coherence = "low"

\* What may become of a reflection: it needs episodic memories, and the model
\* and the store must not fail it.
Outcomes(due) ==
  CASE ~due                -> {"none"}
    [] due /\ episodic    -> {"failed", "persisted"}
    [] due /\ ~episodic   -> {"failed"}

\* Faulty variant: the counter is reset whenever a reflection is due.
CountedWhenDue(outcome) == IF outcome = "none" THEN counter + 1 ELSE 0

\* It is reset once the summary is in the store, so that a failure is retried.
Counted(outcome) == IF outcome = "persisted" THEN 0 ELSE counter + 1

\* maybe_reflect
Reflect(outcome) ==
  /\ counter' = Counted(outcome)
  /\ silent' = IF outcome = "persisted" THEN 0 ELSE silent + 1
  /\ reflected' = outcome

\* Steps 7 to 10: a plan that leaves the model m and an utterance; then the
\* reflection and the development.
Answer(m, hint, coherence, urgent) ==
  /\ call.asking
  /\ \E outcome \in Outcomes(Due(coherence, urgent)) : Reflect(outcome)
  /\ Consume(m, Developed(rt.dev, coherence, coherence = "high"), hint)
  /\ ideal' = Developed(ideal, coherence, TRUE)
  /\ UNCHANGED <<arm, episodic>>

\* The step raises: the loop logs it, and the next tick starts over.
Raises ==
  /\ call.asking /\ call' = Idle
  /\ UNCHANGED <<arm, rt, counter, episodic, census, crossed, silent, reflected, ideal>>

\* The store fails a reflection with an error the reflector does not catch.
ReflectRaises(coherence, urgent) ==
  /\ call.asking /\ Due(coherence, urgent)
  /\ Reflect("failed") /\ call' = Idle
  /\ UNCHANGED <<arm, rt, episodic, census, crossed, ideal>>

Next ==
  \/ \E evidence \in Evidence, rows \in 0..1 : Begin(evidence, rows)
  \/ Fallback
  \/ \E h \in Hinted, coherence \in Coherences, urgent \in BOOLEAN :
       Answer(h[1], h[2], coherence, urgent)
  \/ Raises
  \/ \E coherence \in Coherences, urgent \in BOOLEAN : ReflectRaises(coherence, urgent)

Spec == Init /\ [][Next]_vars

-----------------------------------------------------------------------------
(* What the individual layer keeps over a run. *)

IndividualTypeOK ==
  /\ arm \in BOOLEAN
  /\ rt.tick \in Nat /\ IsModel(rt.wm) /\ rt.dev \in DevelopmentState
  /\ call.asking \in BOOLEAN /\ call.rows \in 0..1
  /\ call.evidence \in Evidence \union {NoEvidence}
  /\ IsModel(call.shown) /\ call.shown.base = call.evidence.floor
  /\ call.crossed \in [Key -> Int]
  /\ counter \in Nat /\ episodic \in BOOLEAN
  /\ crossed \in [Key -> Int] /\ silent \in Nat
  /\ reflected \in {"none", "failed", "persisted"} /\ ideal \in DevelopmentState

(* However long a value was nudged, and over whatever evidence it was       *)
(* carried, what a prompt shows is within MAX_TOTAL_MODULATION of the floor *)
(* of that very tick: the cap is on the sum of the hints, though a single   *)
(* hint is applied without regard to it.                                    *)
ShownWithinCap ==
  \A k \in DOMAIN call.evidence.floor :
    /\ call.shown.values[k] - call.evidence.floor[k].value \in -MAX_TOTAL_MODULATION..MAX_TOTAL_MODULATION
    /\ call.shown.values[k] \in Value

(* An offset made on other evidence than the floor's was carried there by  *)
(* the short-term arm, and STM_HORIZON ticks after it was first carried    *)
(* over a change at the latest, the prompt is back to the evidence: no     *)
(* renewed hint and no failed tick restarts the clock.                     *)
CarryExpires ==
  \A k \in Key :
    crossed[k] # Never => arm /\ (rt.tick - 1) - crossed[k] <= STM_HORIZON

(* The language model may hold development back and never push it: with    *)
(* the same memories and beliefs, an agent whose every utterance cohered   *)
(* is at no lower stage.                                                   *)
LlmOnlyHoldsBack == rt.dev.stage <= ideal.stage

(* A reflection that came due is tried at every answered tick until it is  *)
(* in the store, through outages and ticks that raise.                     *)
ReflectionRetried == silent >= TICK_INTERVAL => reflected = "failed"

(* The analyses read the adoption of hints off the census and not off the   *)
(* model, so it must be true: one row a tick, through outages, unparseable *)
(* plans and steps that raise, none for a step that is done over; "adopted" *)
(* just when the carried model differs from what was shown, by the step the *)
(* row tells, though the reasons come from a second walk over the gates    *)
(* (hint_engagement.py:52-98, cycle.py:740-833).                           *)
CensusTold ==
  IF rt'.tick = rt.tick THEN census' = NoRow
  ELSE LET said == census'.hint IN
       /\ census'.tick = rt'.tick
       /\ \/ /\ said.disposition = "adopted" /\ said.step # 0
             /\ \E k \in DOMAIN call.shown.values :
                  rt'.wm.values = [call.shown.values EXCEPT ![k] = @ + said.step]
          \/ said.disposition # "adopted" /\ said.step = 0 /\ rt'.wm = call.shown

CensusIsTrue == [][CensusTold]_vars

(* world_model.py: a hint moves a value in the direction of its current    *)
(* sign, "it can never flip a sign".  No shown value contradicts its       *)
(* evidence.                                                               *)
SignKept ==
  \A k \in DOMAIN call.evidence.floor :
    Sign(call.shown.values[k]) \in {0, Sign(call.evidence.floor[k].value)}
=============================================================================
