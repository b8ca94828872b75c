----------------------------- MODULE Development ----------------------------
(***************************************************************************)
(* The stages of an individual (cognition/development.py): each tick that  *)
(* brings fresh evidence may advance the stage by one.  The maturity is    *)
(* the smaller of two gauges the language model has no hand in, the        *)
(* memories written and the ticks its beliefs have stood still; coherence  *)
(* is a gate only.                                                         *)
(*                                                                         *)
(* Thresholds on the maturity are in hundredths.                           *)
(***************************************************************************)
EXTENDS Integers

CONSTANTS
  THRESH_S2, THRESH_S3, MIN_TICKS_S2, MIN_TICKS_S3,
  MIN_COHERENT_TICKS_S2, MIN_COHERENT_TICKS_S3, MIN_BELIEFS_S2, MIN_BELIEFS_S3,
  MEMORY_VOLUME_TARGET, STABILITY_TARGET

ASSUME DevelopmentAssumption ==
  /\ {THRESH_S2, THRESH_S3} \subseteq 0..100
  /\ {MIN_TICKS_S2, MIN_TICKS_S3, MIN_COHERENT_TICKS_S2, MIN_COHERENT_TICKS_S3,
      MIN_BELIEFS_S2, MIN_BELIEFS_S3} \subseteq Nat
  /\ {MEMORY_VOLUME_TARGET, STABILITY_TARGET} \subseteq Nat \ {0}

\* Stages are 1 to 3.  seen and streak last for life; dwell and coherent are
\* those of the stage.  There is no signature before the first fresh tick.
NoSignature == -1
Seed == [stage |-> 1, seen |-> 0, streak |-> 0, signature |-> NoSignature,
         dwell |-> 0, coherent |-> 0]
DevelopmentState ==
  [stage : 1..3, seen : Nat, streak : Nat, signature : Int, dwell : Nat, coherent : Nat]

\* One tick's evidence: the memories written, whether the utterance cohered, and
\* the beliefs: how many, their digest, whether their mean confidence is enough.
DevelopmentEvidence ==
  [rows : Nat, coheres : BOOLEAN, beliefs : Nat, signature : Nat, confident : BOOLEAN]

Stable(d, e) == e.signature = d.signature /\ e.beliefs >= 1 /\ e.confident

\* The state with this tick's evidence folded in, its stage as it was.
Folded(d, e) ==
  [ stage |-> d.stage, seen |-> d.seen + e.rows,
    streak |-> IF Stable(d, e) THEN d.streak + 1 ELSE 0,
    signature |-> e.signature, dwell |-> d.dwell + 1,
    coherent |-> IF e.coheres THEN d.coherent + 1 ELSE d.coherent ]

\* min(volume, stability) >= the threshold.
Mature(d, threshold) ==
  /\ 100 * d.seen >= threshold * MEMORY_VOLUME_TARGET
  /\ 100 * d.streak >= threshold * STABILITY_TARGET

\* Faulty variant: an incoherent turn opens the gate.
EligibleIncoherent(d, e, threshold, ticks, coherentTicks, beliefs) ==
  /\ Mature(d, threshold) /\ ~e.coheres
  /\ e.beliefs >= beliefs /\ d.dwell >= ticks

Eligible(d, e, threshold, ticks, coherentTicks, beliefs) ==
  /\ Mature(d, threshold)
  /\ e.coheres /\ d.coherent >= coherentTicks
  /\ e.beliefs >= beliefs /\ d.dwell >= ticks

Advances(d, e) ==
  \/ d.stage = 1 /\ Eligible(d, e, THRESH_S2, MIN_TICKS_S2, MIN_COHERENT_TICKS_S2, MIN_BELIEFS_S2)
  \/ d.stage = 2 /\ Eligible(d, e, THRESH_S3, MIN_TICKS_S3, MIN_COHERENT_TICKS_S3, MIN_BELIEFS_S3)

\* One stage on: what counts towards the next starts over.
Promoted(d) ==
  [ stage |-> d.stage + 1, seen |-> d.seen, streak |-> d.streak, signature |-> d.signature,
    dwell |-> 0, coherent |-> 0 ]

Advance(d, e) == LET f == Folded(d, e) IN IF Advances(f, e) THEN Promoted(f) ELSE f
=============================================================================
