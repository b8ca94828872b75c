-------------------------- MODULE IndividualProofs --------------------------
(***************************************************************************)
(* Proofs about the individual layer, for any keys, evidence, thresholds   *)
(* and bounds, and runs of any length.  The inductive invariant Inv joins  *)
(* to the types what each property needs: the age clock of the model is    *)
(* the ghost of the property, the reflector's counter is the ghost's, and  *)
(* the coherent twin is ahead in every gauge the language model has a hand *)
(* in and equal in the others.                                             *)
(***************************************************************************)
EXTENDS Individual, TLAPS

-----------------------------------------------------------------------------
(* World model *)

Near(x, f) == x - f \in -MAX_TOTAL_MODULATION..MAX_TOTAL_MODULATION

\* What is carried is held to the floor and to the unit range.
LEMMA CappedNear ==
  ASSUME NEW f \in Value, NEW x \in Int
  PROVE  /\ Capped(f, x) \in Value
         /\ Near(Capped(f, x), f)
  BY WorldModelAssumption DEF Near, Capped, Clamp, Larger, Smaller, Value, Unit

\* A nudge keeps a value in the unit range.
LEMMA NudgedInRange ==
  ASSUME NEW x \in Value, NEW d \in {"strengthen", "weaken", "no_change"}
  PROVE  Nudged(x, d) \in Value
  BY WorldModelAssumption DEF Nudged, Larger, Smaller, Value, Unit

\* A hint leaves the floor and the age clock of a model alone.
LEMMA ApplyModel ==
  ASSUME NEW m, IsModel(m), NEW shown \in SUBSET DOMAIN m.base, NEW hint \in Hint
  PROVE  /\ IsModel(Apply(m, shown, hint))
         /\ Apply(m, shown, hint).base = m.base /\ Apply(m, shown, hint).since = m.since
<1>1. CASE ~Adopted(m, shown, hint) BY <1>1 DEF Apply
<1>2. CASE Adopted(m, shown, hint)
  <2>1. Nudged(m.values[hint.key], hint.direction) \in Value
    BY <1>2, NudgedInRange DEF Adopted, IsModel, Hint
  <2>2. Apply(m, shown, hint) =
          [ base |-> m.base, since |-> m.since,
            values |-> [m.values EXCEPT ![hint.key] = Nudged(@, hint.direction)] ]
    BY <1>2 DEF Apply
  <2>3. [m.values EXCEPT ![hint.key] = Nudged(@, hint.direction)] \in [DOMAIN m.base -> Value]
    BY <2>1 DEF IsModel
  <2> QED BY <2>2, <2>3 DEF IsModel
<1> QED BY <1>1, <1>2

\* A floor in its own right is near itself.
LEMMA FloorNear ==
  ASSUME NEW f \in Value PROVE Near(f, f)
  BY WorldModelAssumption DEF Near, Value, Unit

\* Reconciling gives a model of the fresh floor, with values near it.
LEMMA ReconcileModel ==
  ASSUME NEW st \in BOOLEAN, NEW m, IsModel(m), NEW floor, IsFloor(floor), NEW tick \in Nat
  PROVE  /\ IsModel(Reconcile(st, m, floor, tick))
         /\ Reconcile(st, m, floor, tick).base = floor
         /\ \A k \in DOMAIN floor : Near(Reconcile(st, m, floor, tick).values[k], floor[k].value)
<1>1. \A k \in DOMAIN floor : floor[k].value \in Value
  BY DEF IsFloor, Entry
<1>2. CASE ~st
  <2>1. \A k \in DOMAIN floor :
          k \in DOMAIN m.base => /\ Capped(floor[k].value, m.values[k]) \in Value
                                 /\ Near(Capped(floor[k].value, m.values[k]), floor[k].value)
    BY <1>1, CappedNear DEF IsModel, Value
  <2>2. Reconcile(st, m, floor, tick) = ReconcileFrozen(m, floor) BY <1>2 DEF Reconcile
  <2> QED BY <1>1, <2>1, <2>2, FloorNear DEF ReconcileFrozen, IsModel, Never
<1>3. CASE st
  <2>1. \A k \in DOMAIN floor : Carries(m, floor, k, tick) =>
          /\ Capped(floor[k].value, floor[k].value + Offset(m, k)) \in Value
          /\ Near(Capped(floor[k].value, floor[k].value + Offset(m, k)), floor[k].value)
          /\ Outlived(m, floor, k, tick) \in Int
    <3> TAKE k \in DOMAIN floor
    <3> HAVE Carries(m, floor, k, tick)
    <3>1. k \in DOMAIN m.base /\ m.values[k] \in Value /\ m.base[k].value \in Value
      BY DEF Carries, Offset, IsModel, IsFloor, Entry
    <3>2. floor[k].value + Offset(m, k) \in Int BY <1>1, <3>1 DEF Offset, Value
    <3>3. Outlived(m, floor, k, tick) \in Int BY <3>1 DEF Outlived, IsModel
    <3> QED BY <1>1, <3>2, <3>3, CappedNear
  <2>2. Reconcile(st, m, floor, tick) = ReconcileShortTerm(m, floor, tick) BY <1>3 DEF Reconcile
  <2> QED BY <1>1, <2>1, <2>2, FloorNear DEF ReconcileShortTerm, IsModel, Never
<1> QED BY <1>2, <1>3

-----------------------------------------------------------------------------
(* Development *)

\* The gauges the language model has no hand in are those of the coherent
\* twin i; the stage and what counts towards the next are no further.
Behind(d, i) ==
  /\ d.seen = i.seen /\ d.streak = i.streak /\ d.signature = i.signature
  /\ d.stage <= i.stage
  /\ d.stage = i.stage => d.dwell <= i.dwell /\ d.coherent <= i.coherent

\* The evidence of a tick, and the same had the utterance cohered.
Coherent(e) == [ rows |-> e.rows, coheres |-> TRUE, beliefs |-> e.beliefs,
                 signature |-> e.signature, confident |-> e.confident ]

\* Folding keeps the types, and keeps behind what is behind.
LEMMA FoldedBehind ==
  ASSUME NEW d \in DevelopmentState, NEW i \in DevelopmentState, NEW e \in DevelopmentEvidence,
         Behind(d, i)
  PROVE  /\ Folded(d, e) \in DevelopmentState
         /\ Folded(d, e).stage = d.stage
         /\ Behind(Folded(d, e), Folded(i, Coherent(e)))
  BY DEF DevelopmentState, DevelopmentEvidence, Folded, Stable, Behind, Coherent

\* One tick of development is a state again.
LEMMA AdvanceTyped ==
  ASSUME NEW d \in DevelopmentState, NEW e \in DevelopmentEvidence
  PROVE  Advance(d, e) \in DevelopmentState
<1> DEFINE f == Folded(d, e)
<1>1. f \in DevelopmentState
  BY DEF DevelopmentState, DevelopmentEvidence, Folded, Stable
<1>2. CASE Advances(f, e)
  <2>1. f.stage \in 1..2 BY <1>2 DEF Advances
  <2>2. Promoted(f) \in DevelopmentState BY <1>1, <2>1 DEF Promoted, DevelopmentState
  <2> QED BY <1>2, <2>2 DEF Advance
<1>3. CASE ~Advances(f, e) BY <1>1, <1>3 DEF Advance
<1> QED BY <1>2, <1>3

\* If what is behind advances, its twin in the same stage does.
LEMMA AdvancesTogether ==
  ASSUME NEW d \in DevelopmentState, NEW i \in DevelopmentState, NEW e \in DevelopmentEvidence,
         Behind(d, i), d.stage = i.stage, Advances(d, e)
  PROVE  Advances(i, Coherent(e))
<1>1. \A threshold : Mature(d, threshold) => Mature(i, threshold) BY DEF Mature, Behind
<1>2. ASSUME NEW threshold, NEW ticks \in Nat, NEW coherentTicks \in Nat, NEW beliefs \in Nat,
             Eligible(d, e, threshold, ticks, coherentTicks, beliefs)
      PROVE  Eligible(i, Coherent(e), threshold, ticks, coherentTicks, beliefs)
  BY <1>1, <1>2 DEF Eligible, Behind, Coherent, DevelopmentState, DevelopmentEvidence
<1> QED BY <1>2, DevelopmentAssumption DEF Advances

\* Coherence holds nothing back that its lack would not: a tick keeps behind
\* what is behind.
LEMMA AdvanceBehind ==
  ASSUME NEW d \in DevelopmentState, NEW i \in DevelopmentState, NEW e \in DevelopmentEvidence,
         Behind(d, i)
  PROVE  Behind(Advance(d, e), Advance(i, Coherent(e)))
<1> DEFINE fd == Folded(d, e)
           fi == Folded(i, Coherent(e))
<1>1. Coherent(e) \in DevelopmentEvidence BY DEF Coherent, DevelopmentEvidence
<1>2. Behind(i, i) BY DEF Behind, DevelopmentState
<1>3. fd \in DevelopmentState /\ fi \in DevelopmentState /\ Behind(fd, fi)
  BY <1>1, <1>2, FoldedBehind
<1>4. Advances(fd, e) /\ fd.stage = fi.stage => Advances(fi, Coherent(e))
  BY <1>3, AdvancesTogether
<1>5. Advance(d, e) = IF Advances(fd, e) THEN Promoted(fd) ELSE fd BY DEF Advance
<1>6. Advance(i, Coherent(e)) = IF Advances(fi, Coherent(e)) THEN Promoted(fi) ELSE fi
  BY DEF Advance
<1> HIDE DEF fd, fi
<1> QED BY <1>3, <1>4, <1>5, <1>6 DEF Behind, Promoted, DevelopmentState

-----------------------------------------------------------------------------
(* The inductive invariant *)

\* The tick the age clock of m gives for k.
SinceOf(m, k) == IF k \in DOMAIN m.base THEN m.since[k] ELSE Never

\* The clock of the code is that of the ghost, and it has not run out at tick t.
ClockRight(m, ghost, t) ==
  \A k \in Key :
    /\ ghost[k] = SinceOf(m, k)
    /\ ghost[k] # Never => arm /\ t - ghost[k] <= STM_HORIZON

Clocks ==
  /\ ClockRight(rt.wm, crossed, rt.tick - 1)
  /\ call.asking => ClockRight(call.shown, call.crossed, rt.tick)

Counts == silent = counter /\ ReflectionRetried

Inv == IndividualTypeOK /\ ShownWithinCap /\ Clocks /\ Counts /\ Behind(rt.dev, ideal)

\* The empty model is a model, of an empty floor.
LEMMA NoModelTyped == IsModel(NoModel) /\ NoModel.base = [k \in {} |-> 0] /\ IsFloor(NoModel.base)
<1>1. NoModel.base = [k \in {} |-> 0] BY DEF NoModel, FromFloor
<1>2. IsFloor(NoModel.base) BY <1>1 DEF IsFloor
<1> QED BY <1>1, <1>2 DEF NoModel, FromFloor, IsModel, Never

\* The step that is not in flight is typed like one.
LEMMA IdleTyped ==
  /\ Idle.asking = FALSE /\ Idle.rows \in 0..1 /\ Idle.evidence = NoEvidence
  /\ IsFloor(Idle.evidence.floor)
  /\ IsModel(Idle.shown) /\ Idle.shown.base = Idle.evidence.floor
  /\ Idle.crossed \in [Key -> Int]
  /\ DOMAIN Idle.evidence.floor = {}
BY NoModelTyped DEF Idle, NoEvidence, Never

\* A fresh agent satisfies the invariant.
LEMMA InitInv == Init => Inv
<1> SUFFICES ASSUME Init PROVE Inv OBVIOUS
<1> USE DEF Init
<1>1. Seed \in DevelopmentState /\ Behind(Seed, Seed)
  BY DEF Seed, DevelopmentState, NoSignature, Behind
<1>0. rt.tick = 0 /\ rt.wm = NoModel /\ rt.dev = Seed OBVIOUS
<1>2. IndividualTypeOK
  <2>1. rt.tick \in Nat /\ IsModel(rt.wm) /\ rt.dev \in DevelopmentState
    BY <1>0, <1>1, NoModelTyped
  <2>2. crossed \in [Key -> Int] BY DEF Never
  <2> QED BY <1>1, <2>1, <2>2, IdleTyped DEF IndividualTypeOK
<1>3. ShownWithinCap BY IdleTyped DEF ShownWithinCap
<1>4. Clocks BY <1>0, IdleTyped, NoModelTyped DEF Clocks, ClockRight, SinceOf
<1>5. Counts BY IndividualAssumption DEF Counts, ReflectionRetried
<1> QED BY <1>0, <1>1, <1>2, <1>3, <1>4, <1>5 DEF Inv

\* The evidence of a step in flight.
LEMMA EvidenceTyped ==
  ASSUME IndividualTypeOK
  PROVE  /\ IsFloor(call.evidence.floor)
         /\ call.evidence.beliefs \in Nat /\ call.evidence.signature \in Nat
         /\ call.evidence.confident \in BOOLEAN
<1>1. CASE call.evidence \in Evidence BY <1>1, IndividualAssumption
<1>2. CASE call.evidence = NoEvidence BY <1>2, NoModelTyped DEF NoEvidence
<1> QED BY <1>1, <1>2 DEF IndividualTypeOK

\* Reconciling starts the clock when the ghost does, and drops what is overdue.
LEMMA ReconcileClock ==
  ASSUME IndividualTypeOK, ClockRight(rt.wm, crossed, rt.tick - 1), NEW floor, IsFloor(floor),
         NEW m, m = Reconcile(arm, rt.wm, floor, rt.tick)
  PROVE  ClockRight(m, [k \in Key |-> CrossedBy(m, k)], rt.tick)
<1> SUFFICES ASSUME NEW k \in Key
             PROVE  /\ CrossedBy(m, k) = SinceOf(m, k)
                    /\ CrossedBy(m, k) # Never => arm /\ rt.tick - CrossedBy(m, k) <= STM_HORIZON
  BY DEF ClockRight
<1>1. /\ rt.tick \in Nat /\ IsModel(rt.wm) /\ crossed[k] \in Int /\ arm \in BOOLEAN
      /\ crossed[k] = SinceOf(rt.wm, k) /\ (crossed[k] # Never => arm)
  BY DEF IndividualTypeOK, ClockRight
<1>2. m.base = floor BY <1>1, ReconcileModel
<1>3. CASE ~arm
  <2>1. m = ReconcileFrozen(rt.wm, floor) BY <1>3 DEF Reconcile
  <2>2. SinceOf(m, k) = Never BY <2>1, <1>2 DEF SinceOf, ReconcileFrozen
  <2>3. Off(m, k) => Unmoved(floor, k) BY <1>2, <2>1 DEF Off, Unmoved, ReconcileFrozen
  <2> QED BY <1>1, <1>2, <1>3, <2>2, <2>3 DEF CrossedBy
<1>4. CASE arm
  <2>1. m = ReconcileShortTerm(rt.wm, floor, rt.tick) BY <1>4 DEF Reconcile
  <2>2. Off(m, k) <=> k \in DOMAIN floor /\ Carries(rt.wm, floor, k, rt.tick)
    BY <1>2, <2>1 DEF Off, ReconcileShortTerm, Carries
  <2>3. CASE ~Off(m, k)
    BY <1>2, <2>1, <2>2, <2>3 DEF CrossedBy, SinceOf, ReconcileShortTerm
  <2>4. CASE Off(m, k)
    <3>1. SinceOf(m, k) = Outlived(rt.wm, floor, k, rt.tick)
      BY <1>2, <2>1, <2>2, <2>4 DEF SinceOf, ReconcileShortTerm
    <3>2. k \in DOMAIN rt.wm.base BY <2>2, <2>4 DEF Carries, Offset
    <3>3. CrossedBy(m, k) = Outlived(rt.wm, floor, k, rt.tick)
      BY <1>1, <1>2, <2>4, <3>2 DEF CrossedBy, Unmoved, Outlived, SinceOf
    <3>4. ~Expired(Outlived(rt.wm, floor, k, rt.tick), rt.tick) BY <2>2, <2>4 DEF Carries
    <3>5. Outlived(rt.wm, floor, k, rt.tick) \in Int
      BY <1>1, <3>2 DEF Outlived, IsModel
    <3>6. Outlived(rt.wm, floor, k, rt.tick) # Never =>
            rt.tick - Outlived(rt.wm, floor, k, rt.tick) <= STM_HORIZON
      BY <1>1, <3>4, <3>5, WorldModelAssumption DEF Expired
    <3> QED BY <1>4, <3>1, <3>3, <3>6
  <2> QED BY <2>3, <2>4
<1> QED BY <1>1, <1>3, <1>4

\* The beginning of a step keeps it: reconciling caps what is shown and lets what has outlived its evidence expire.
LEMMA BeginInv == ASSUME Inv, NEW e \in Evidence, NEW rows \in 0..1, Begin(e, rows) PROVE Inv'
<1> PICK m : m = Reconcile(arm, rt.wm, e.floor, rt.tick) OBVIOUS
<1>1. /\ rt.tick \in Nat /\ IsModel(rt.wm) /\ arm \in BOOLEAN /\ crossed \in [Key -> Int]
  BY DEF Inv, IndividualTypeOK
<1>2. IsFloor(e.floor) BY IndividualAssumption
<1>3. /\ IsModel(m) /\ m.base = e.floor
      /\ \A k \in DOMAIN e.floor : Near(m.values[k], e.floor[k].value)
  BY <1>1, <1>2, ReconcileModel
<1>4. /\ call'.asking = TRUE /\ call'.rows = rows /\ call'.evidence = e /\ call'.shown = m
      /\ call'.crossed = [k \in Key |-> CrossedBy(m, k)]
      /\ episodic' = (episodic \/ rows > 0)
      /\ UNCHANGED <<arm, rt, counter, crossed, silent, reflected, ideal>>
  BY DEF Begin
<1>5. ClockRight(m, call'.crossed, rt.tick) BY <1>2, <1>4, ReconcileClock DEF Inv, Clocks
<1>6. call'.crossed \in [Key -> Int]
  <2>1. \A k \in Key : CrossedBy(m, k) \in Int
    BY <1>3, <1>4, <1>5 DEF ClockRight, SinceOf, IsModel, Never
  <2> QED BY <1>4, <2>1
<1>7. IndividualTypeOK' BY <1>3, <1>4, <1>6 DEF Inv, IndividualTypeOK
<1>8. ShownWithinCap' BY <1>3, <1>4 DEF ShownWithinCap, Near, IsModel
<1>9. Clocks' BY <1>4, <1>5 DEF Inv, Clocks, ClockRight
<1>10. Counts' BY <1>4 DEF Inv, Counts, ReflectionRetried
<1> QED BY <1>4, <1>7, <1>8, <1>9, <1>10 DEF Inv

\* What a step that ends without a result leaves.
LEMMA IdleInv ==
  ASSUME Inv, call' = Idle, UNCHANGED <<arm, rt, crossed, episodic, ideal>>,
         Counts', counter' \in Nat, silent' \in Nat, reflected' \in {"none", "failed", "persisted"}
  PROVE  Inv'
<1>1. IndividualTypeOK' BY IdleTyped DEF Inv, IndividualTypeOK
<1>2. ShownWithinCap' BY IdleTyped DEF ShownWithinCap
<1>3. Clocks' BY IdleTyped DEF Inv, Clocks, ClockRight
<1> QED BY <1>1, <1>2, <1>3 DEF Inv

\* What the consumption of a result leaves: the model m is the shown one but
\* for its values, d and i are the developments.
LEMMA ConsumeInv ==
  ASSUME Inv, call.asking, NEW m, IsModel(m), m.base = call.shown.base, m.since = call.shown.since,
         NEW d \in DevelopmentState, NEW h, Consume(m, d, h), ideal' \in DevelopmentState,
         Behind(d, ideal'), UNCHANGED <<arm, episodic>>,
         Counts', counter' \in Nat, silent' \in Nat, reflected' \in {"none", "failed", "persisted"}
  PROVE  Inv'
<1>1. /\ rt'.tick = rt.tick + 1 /\ rt'.wm = m /\ rt'.dev = d
      /\ crossed' = call.crossed /\ call' = Idle
  BY DEF Consume
<1>2. rt.tick \in Nat BY DEF Inv, IndividualTypeOK
<1>3. IndividualTypeOK'
  <2>1. rt'.tick \in Nat /\ IsModel(rt'.wm) /\ rt'.dev \in DevelopmentState BY <1>1, <1>2
  <2>2. crossed' \in [Key -> Int] BY <1>1 DEF Inv, IndividualTypeOK
  <2> QED BY <1>1, <2>1, <2>2, IdleTyped DEF Inv, IndividualTypeOK
<1>4. ShownWithinCap' BY <1>1, IdleTyped DEF ShownWithinCap
<1>5. \A k \in Key :
        /\ crossed'[k] = SinceOf(m, k)
        /\ crossed'[k] # Never => arm' /\ rt'.tick - 1 - crossed'[k] <= STM_HORIZON
  <2>1. rt'.tick - 1 = rt.tick BY <1>1, <1>2
  <2>2. ClockRight(call.shown, call.crossed, rt.tick) BY DEF Inv, Clocks
  <2> QED BY <1>1, <2>1, <2>2 DEF ClockRight, SinceOf
<1>6. Clocks' BY <1>1, <1>5, IdleTyped DEF Clocks, ClockRight
<1> QED BY <1>1, <1>3, <1>4, <1>6 DEF Inv

\* Reflection keeps the counters in step, whether it raises or not.
LEMMA ReflectCounts ==
  ASSUME Inv, NEW coherence, NEW urgent \in BOOLEAN, NEW outcome,
         \/ outcome \in Outcomes(Due(coherence, urgent))
         \/ outcome = "failed",
         Reflect(outcome)
  PROVE  /\ Counts' /\ counter' \in Nat /\ silent' \in Nat
         /\ reflected' \in {"none", "failed", "persisted"}
<1>1. counter \in Nat /\ silent = counter BY DEF Inv, IndividualTypeOK, Counts
<1>2. outcome \in {"none", "failed", "persisted"} BY DEF Outcomes
<1>3. outcome = "none" => ~(counter + 1 >= TICK_INTERVAL) BY DEF Outcomes, Due
<1>4. counter' = silent' /\ counter' = (IF outcome = "persisted" THEN 0 ELSE counter + 1)
  BY <1>1 DEF Reflect, Counted
<1> QED BY <1>1, <1>2, <1>3, <1>4, IndividualAssumption DEF Reflect, Counts, ReflectionRetried

\* An answered tick keeps it, whatever the hint, the utterance and the reflection.
LEMMA AnswerInv ==
  ASSUME Inv, NEW h \in Hinted, NEW coherence \in Coherences, NEW urgent \in BOOLEAN,
         Answer(h[1], h[2], coherence, urgent)
  PROVE  Inv'
<1> PICK m : m = h[1] OBVIOUS
<1>1. \/ m = call.shown
      \/ \E visible \in Visible, hint \in Hint : m = Apply(call.shown, visible, hint)
  BY DEF Hinted
<1>2. IsModel(call.shown) /\ call.shown.base = call.evidence.floor /\ call.rows \in 0..1
  BY DEF Inv, IndividualTypeOK
<1>3. Visible \subseteq SUBSET DOMAIN call.shown.base BY <1>2 DEF Visible
<1>4. IsModel(m) /\ m.base = call.shown.base /\ m.since = call.shown.since
  BY <1>1, <1>2, <1>3, ApplyModel
<1> DEFINE e == [ rows |-> call.rows, coheres |-> (coherence = "high"),
                  beliefs |-> call.evidence.beliefs, signature |-> call.evidence.signature,
                  confident |-> call.evidence.confident ]
           d == Developed(rt.dev, coherence, coherence = "high")
<1>5. e \in DevelopmentEvidence /\ Coherent(e) \in DevelopmentEvidence
  BY <1>2, EvidenceTyped DEF Inv, DevelopmentEvidence, Coherent
<1>6. rt.dev \in DevelopmentState /\ ideal \in DevelopmentState /\ Behind(rt.dev, ideal)
  BY DEF Inv, IndividualTypeOK
<1>7. /\ d = (IF coherence = "none" THEN rt.dev ELSE Advance(rt.dev, e))
      /\ ideal' = (IF coherence = "none" THEN ideal ELSE Advance(ideal, Coherent(e)))
  BY DEF Answer, Developed, Coherent
<1>8. d \in DevelopmentState /\ ideal' \in DevelopmentState /\ Behind(d, ideal')
  BY <1>5, <1>6, <1>7, AdvanceTyped, AdvanceBehind
<1>9. /\ Counts' /\ counter' \in Nat /\ silent' \in Nat
      /\ reflected' \in {"none", "failed", "persisted"}
  BY ReflectCounts DEF Answer
<1>10. call.asking /\ Consume(m, d, h[2]) /\ UNCHANGED <<arm, episodic>> BY DEF Answer
<1> HIDE DEF d
<1> QED BY <1>4, <1>8, <1>9, <1>10, ConsumeInv

\* A tick that falls back keeps it.
LEMMA FallbackInv == ASSUME Inv, Fallback PROVE Inv'
<1>1. /\ call.asking /\ Consume(call.shown, rt.dev, NotEmitted)
      /\ UNCHANGED <<arm, counter, episodic, silent, reflected, ideal>>
  BY DEF Fallback
<1>2. /\ IsModel(call.shown) /\ rt.dev \in DevelopmentState /\ ideal' \in DevelopmentState
      /\ Behind(rt.dev, ideal')
  BY <1>1 DEF Inv, IndividualTypeOK
<1>3. /\ Counts' /\ counter' \in Nat /\ silent' \in Nat
      /\ reflected' \in {"none", "failed", "persisted"}
  BY <1>1 DEF Inv, IndividualTypeOK, Counts, ReflectionRetried
<1>4. PICK m : m = call.shown OBVIOUS
<1>5. PICK d : d = rt.dev OBVIOUS
<1> QED BY <1>1, <1>2, <1>3, <1>4, <1>5, ConsumeInv

\* Every step keeps it.
LEMMA NextInv == Inv /\ [Next]_vars => Inv'
<1> SUFFICES ASSUME Inv, [Next]_vars PROVE Inv' OBVIOUS
<1>1. ASSUME NEW e \in Evidence, NEW rows \in 0..1, Begin(e, rows) PROVE Inv'
  BY <1>1, BeginInv
<1>2. CASE Fallback BY <1>2, FallbackInv
<1>3. ASSUME NEW h \in Hinted, NEW coherence \in Coherences, NEW urgent \in BOOLEAN,
             Answer(h[1], h[2], coherence, urgent)
      PROVE  Inv'
  BY <1>3, AnswerInv
<1>4. CASE Raises
  <2>1. Counts' /\ counter' \in Nat /\ silent' \in Nat
        /\ reflected' \in {"none", "failed", "persisted"}
    BY <1>4 DEF Raises, Inv, IndividualTypeOK, Counts, ReflectionRetried
  <2> QED BY <1>4, <2>1, IdleInv DEF Raises
<1>5. ASSUME NEW coherence \in Coherences, NEW urgent \in BOOLEAN, ReflectRaises(coherence, urgent)
      PROVE  Inv'
  <2>1. Counts' /\ counter' \in Nat /\ silent' \in Nat
        /\ reflected' \in {"none", "failed", "persisted"}
    BY <1>5, ReflectCounts DEF ReflectRaises
  <2> QED BY <1>5, <2>1, IdleInv DEF ReflectRaises
<1>6. CASE UNCHANGED vars
  BY <1>6 DEF vars, Inv, IndividualTypeOK, ShownWithinCap, Clocks, ClockRight, SinceOf, Counts,
              ReflectionRetried, Behind
<1> QED BY <1>1, <1>2, <1>3, <1>4, <1>5, <1>6 DEF Next

\* It holds in every state.
LEMMA AlwaysInv == Spec => []Inv
BY InitInv, NextInv, PTL DEF Spec

-----------------------------------------------------------------------------
(* The census *)

\* No row is there while a step is in flight.
RowAfterStep == call.asking => census = NoRow

\* Only a step that ends leaves a row.
LEMMA NextRow == RowAfterStep /\ [Next]_vars => RowAfterStep'
<1> SUFFICES ASSUME RowAfterStep, [Next]_vars PROVE RowAfterStep' OBVIOUS
<1> USE DEF RowAfterStep
<1>1. ASSUME NEW e \in Evidence, NEW rows \in 0..1, Begin(e, rows) PROVE RowAfterStep'
  BY <1>1 DEF Begin
<1>2. ASSUME NEW m, NEW d, NEW h, Consume(m, d, h) PROVE RowAfterStep'
  BY <1>2 DEF Consume, Idle
<1>3. CASE Raises \/ \E coherence \in Coherences, urgent \in BOOLEAN : ReflectRaises(coherence, urgent)
  BY <1>3 DEF Raises, ReflectRaises, Idle
<1>4. CASE UNCHANGED vars BY <1>4 DEF vars
<1> QED BY <1>1, <1>2, <1>3, <1>4 DEF Next, Fallback, Answer

\* The second walk never calls adopted what the authority did not adopt, and
\* the measured step is what the nudge moved, which is never nothing.
LEMMA ShadowAgrees ==
  ASSUME NEW m, IsModel(m), NEW shown \in SUBSET DOMAIN m.base, NEW hint \in Hint
  PROVE  LET said == Emitted(m, shown, hint)  after == Apply(m, shown, hint) IN
         \/ /\ said.disposition = "adopted" /\ said.step # 0
            /\ \E k \in DOMAIN m.values : after.values = [m.values EXCEPT ![k] = @ + said.step]
         \/ said.disposition # "adopted" /\ said.step = 0 /\ after = m
<1> DEFINE k == hint.key
           x == m.values[k]
           y == Nudged(x, hint.direction)
<1>1. CASE ~Adopted(m, shown, hint)
  <2>1. Classified(m, shown, hint) # "adopted"
    BY <1>1 DEF Adopted, Classified, Hint
  <2> QED BY <1>1, <2>1 DEF Emitted, Apply
<1>2. CASE Adopted(m, shown, hint)
  <2>1. k \in DOMAIN m.values /\ x \in Value /\ y \in Value /\ y # x
    BY <1>2, NudgedInRange DEF Adopted, IsModel, Hint
  <2>2. y - x # 0 /\ x + (y - x) = y BY <2>1 DEF Value
  <2>3. Apply(m, shown, hint).values = [m.values EXCEPT ![k] = y]
    BY <1>2 DEF Apply
  <2>4. /\ Emitted(m, shown, hint).disposition = "adopted"
        /\ Emitted(m, shown, hint).step = y - x
    BY <1>2, <2>1, <2>3 DEF Emitted, IsModel
  <2>5. Apply(m, shown, hint).values = [m.values EXCEPT ![k] = @ + (y - x)]
    BY <2>2, <2>3
  <2> QED BY <2>1, <2>2, <2>4, <2>5
<1> QED BY <1>1, <1>2

\* An answered tick leaves one row, and it tells what the hint did.
LEMMA AnswerTold ==
  ASSUME Inv, NEW h \in Hinted, NEW coherence \in Coherences, NEW urgent \in BOOLEAN,
         Answer(h[1], h[2], coherence, urgent)
  PROVE  CensusTold
<1>1. /\ rt.tick \in Nat /\ rt'.tick = rt.tick + 1 /\ rt'.wm = h[1]
      /\ census'.tick = rt'.tick /\ census'.hint = h[2]
  BY DEF Answer, Consume, Inv, IndividualTypeOK
<1>2. CASE h = <<call.shown, NotEmitted>>
  BY <1>1, <1>2 DEF CensusTold, NotEmitted
<1>3. ASSUME NEW visible \in Visible, NEW hint \in Hint,
             h = <<Apply(call.shown, visible, hint), Emitted(call.shown, visible, hint)>>
      PROVE  CensusTold
  <2> DEFINE said == Emitted(call.shown, visible, hint)
             after == Apply(call.shown, visible, hint)
  <2>1. IsModel(call.shown) /\ visible \in SUBSET DOMAIN call.shown.base
    BY DEF Inv, IndividualTypeOK, Visible
  <2>2. \/ /\ said.disposition = "adopted" /\ said.step # 0
           /\ \E k \in DOMAIN call.shown.values :
                after.values = [call.shown.values EXCEPT ![k] = @ + said.step]
        \/ said.disposition # "adopted" /\ said.step = 0 /\ after = call.shown
    BY <2>1, ShadowAgrees
  <2>3. rt'.wm = after /\ census'.hint = said
    BY <1>1, <1>3
  <2>4. rt'.tick # rt.tick /\ census'.tick = rt'.tick
    BY <1>1
  <2> HIDE DEF said, after
  <2> QED BY <2>2, <2>3, <2>4 DEF CensusTold
<1> QED BY <1>2, <1>3 DEF Hinted

\* So does every step: no row for one that raises, "not_emitted" for an outage.
LEMMA NextTold == Inv /\ RowAfterStep /\ [Next]_vars => [CensusTold]_vars
<1> SUFFICES ASSUME Inv, RowAfterStep, Next PROVE CensusTold OBVIOUS
<1>0. rt.tick \in Nat BY DEF Inv, IndividualTypeOK
<1>1. ASSUME NEW e \in Evidence, NEW rows \in 0..1, Begin(e, rows) PROVE CensusTold
  BY <1>1 DEF Begin, CensusTold
<1>2. CASE Fallback
  BY <1>0, <1>2 DEF Fallback, Consume, CensusTold, NotEmitted
<1>3. CASE Raises \/ \E coherence \in Coherences, urgent \in BOOLEAN : ReflectRaises(coherence, urgent)
  BY <1>3 DEF Raises, ReflectRaises, CensusTold, RowAfterStep
<1> QED BY <1>1, <1>2, <1>3, AnswerTold DEF Next

-----------------------------------------------------------------------------
\* The variables keep their types: no value ever leaves the unit range, and no
\* stage the three there are.
THEOREM IndividualTypes == Spec => []IndividualTypeOK
<1>1. Inv => IndividualTypeOK BY DEF Inv
<1> QED BY <1>1, AlwaysInv, PTL

\* What a prompt shows is near its evidence, whatever was nudged before.
THEOREM NearEvidence == Spec => []ShownWithinCap
<1>1. Inv => ShownWithinCap BY DEF Inv
<1> QED BY <1>1, AlwaysInv, PTL

\* Offsets carried over new evidence expire.
THEOREM OffsetsExpire == Spec => []CarryExpires
<1>1. Inv => CarryExpires BY DEF Inv, Clocks, ClockRight, CarryExpires
<1> QED BY <1>1, AlwaysInv, PTL

\* Coherence is a brake and no engine.
THEOREM CoherenceGates == Spec => []LlmOnlyHoldsBack
<1>1. Inv => LlmOnlyHoldsBack BY DEF Inv, Behind, LlmOnlyHoldsBack
<1> QED BY <1>1, AlwaysInv, PTL

\* A due reflection is tried until one is stored.
THEOREM DueIsRetried == Spec => []ReflectionRetried
<1>1. Inv => ReflectionRetried BY DEF Inv, Counts
<1> QED BY <1>1, AlwaysInv, PTL

\* The census of hints is complete and true.
THEOREM CensusHolds == Spec => CensusIsTrue
<1>1. Init => RowAfterStep BY DEF Init, RowAfterStep, Idle
<1>2. Spec => []RowAfterStep BY <1>1, NextRow, PTL DEF Spec
<1> QED BY <1>2, AlwaysInv, NextTold, PTL DEF Spec, CensusIsTrue
=============================================================================
