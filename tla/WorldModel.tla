----------------------------- MODULE WorldModel -----------------------------
(***************************************************************************)
(* The subjective world model of an agent (cognition/world_model.py): what *)
(* the evidence says, the floor, and the values after bounded nudges of    *)
(* the language model, carried from one tick to the next.                  *)
(*                                                                         *)
(* Values are integers in hundredths.  A floor entry is its value and a    *)
(* mark for the rest of its fingerprint (confidence, cited beliefs, last   *)
(* interaction); a nudge changes no more of an entry than its value.       *)
(***************************************************************************)
EXTENDS Integers

CONSTANTS
  Key,                   \* the (axis, key) pairs of entries
  VALUE_STEP,            \* what one hint moves a value by
  MAX_TOTAL_MODULATION,  \* how far a carried value may be off the floor
  STM_HORIZON            \* the ticks an offset outlives its evidence

ASSUME WorldModelAssumption ==
  /\ VALUE_STEP \in Nat \ {0} /\ MAX_TOTAL_MODULATION \in Nat \ {0}
  /\ STM_HORIZON \in Nat

Unit == 100
Value == -Unit..Unit
Entry == [value : Value, mark : Nat]
Never == -1   \* there is no tick in the age clock

\* A floor holds entries for some of the keys.
IsFloor(floor) ==
  /\ DOMAIN floor \subseteq Key
  /\ \A k \in DOMAIN floor : floor[k] \in Entry

\* WorldModelRuntimeState: the floor the values were carried onto, the values
\* after modulation, and since when an offset has outlived its evidence.
IsModel(m) ==
  /\ IsFloor(m.base)
  /\ m.values \in [DOMAIN m.base -> Value]
  /\ m.since \in [DOMAIN m.base -> Int]

Sign(x) == IF x > 0 THEN 1 ELSE IF x < 0 THEN -1 ELSE 0
Clamp(x, lo, hi) == IF x < lo THEN lo ELSE IF x > hi THEN hi ELSE x
Larger(x, y) == IF x > y THEN x ELSE y
Smaller(x, y) == IF x < y THEN x ELSE y

\* Faulty variant: what was carried is not held to the floor.
CappedNot(floor, x) == Clamp(x, -Unit, Unit)

Capped(floor, x) ==
  Clamp(x, Larger(-Unit, floor - MAX_TOTAL_MODULATION), Smaller(Unit, floor + MAX_TOTAL_MODULATION))

FromFloor(floor) ==
  [ base |-> floor,
    values |-> [k \in DOMAIN floor |-> floor[k].value],
    since |-> [k \in DOMAIN floor |-> Never] ]

-----------------------------------------------------------------------------
(* reconcile_world_model: the carried model m onto a fresh floor *)

\* The frozen arm carries a value while its evidence is the same.
ReconcileFrozen(m, floor) ==
  [ base |-> floor,
    values |-> [k \in DOMAIN floor |->
                  IF k \in DOMAIN m.base /\ m.base[k] = floor[k]
                  THEN Capped(floor[k].value, m.values[k])
                  ELSE floor[k].value],
    since |-> [k \in DOMAIN floor |-> Never] ]

Offset(m, k) == IF k \in DOMAIN m.base THEN m.values[k] - m.base[k].value ELSE 0

\* The tick an offset on k has outlived its evidence since, if it has.
Outlived(m, floor, k, tick) ==
  IF m.since[k] = Never /\ m.base[k] # floor[k] THEN tick ELSE m.since[k]

\* Faulty variant: an offset is carried for ever.
ExpiredNever(since, tick) == FALSE

Expired(since, tick) == since # Never /\ tick - since > STM_HORIZON

\* The short-term arm carries an offset over a change of the evidence, until
\* the floor changes sign or the horizon has passed.
Carries(m, floor, k, tick) ==
  /\ Offset(m, k) # 0
  /\ Sign(m.base[k].value) = Sign(floor[k].value)
  /\ ~Expired(Outlived(m, floor, k, tick), tick)
  /\ Capped(floor[k].value, floor[k].value + Offset(m, k)) # floor[k].value

ReconcileShortTerm(m, floor, tick) ==
  [ base |-> floor,
    values |-> [k \in DOMAIN floor |->
                  IF Carries(m, floor, k, tick)
                  THEN Capped(floor[k].value, floor[k].value + Offset(m, k))
                  ELSE floor[k].value],
    since |-> [k \in DOMAIN floor |->
                 IF Carries(m, floor, k, tick) THEN Outlived(m, floor, k, tick) ELSE Never] ]

Reconcile(shortTerm, m, floor, tick) ==
  IF shortTerm THEN ReconcileShortTerm(m, floor, tick) ELSE ReconcileFrozen(m, floor)

-----------------------------------------------------------------------------
(* apply_world_model_update_hint *)

\* What a hint asks for: an entry, a direction, and what it cites: some of the
\* beliefs shown on that entry and no others, nothing, or others too.
Hint == [ key : Key, direction : {"strengthen", "weaken", "no_change"},
          cites : {"shown", "nothing", "others"} ]

\* The value a hint leads to; 0 has no sign to push.
Nudged(x, direction) ==
  IF x = 0 \/ direction = "no_change" THEN x
  ELSE IF direction = "strengthen"
       THEN IF x > 0 THEN Smaller(Unit, x + VALUE_STEP) ELSE Larger(-Unit, x - VALUE_STEP)
       ELSE IF x > 0 THEN Larger(0, x - VALUE_STEP) ELSE Smaller(0, x + VALUE_STEP)

\* Only an entry that was shown this turn, and only if that moves it.
Adopted(m, shown, hint) ==
  /\ hint.key \in shown /\ hint.cites = "shown"
  /\ Nudged(m.values[hint.key], hint.direction) # m.values[hint.key]

Apply(m, shown, hint) ==
  IF Adopted(m, shown, hint)
  THEN [ base |-> m.base, since |-> m.since,
         values |-> [m.values EXCEPT ![hint.key] = Nudged(@, hint.direction)] ]
  ELSE m

-----------------------------------------------------------------------------
(* The census of hints (cognition/hint_engagement.py): what became of each   *)

\* Faulty variant: an empty list of citations is part of any.
ClassifiedUncited(m, shown, hint) ==
  IF hint.key \notin shown THEN "rejected_not_displayed"
  ELSE IF hint.cites = "others" THEN "rejected_citation"
  ELSE IF hint.direction = "no_change" THEN "rejected_no_change"
  ELSE IF Nudged(m.values[hint.key], hint.direction) = m.values[hint.key]
       THEN "rejected_no_effect" ELSE "adopted"

\* classify_rejection_reason walks the gates of Adopted over again, to say
\* which of them a hint did not pass.
Classified(m, shown, hint) ==
  IF hint.key \notin shown THEN "rejected_not_displayed"
  ELSE IF hint.cites # "shown" THEN "rejected_citation"
  ELSE IF hint.direction = "no_change" THEN "rejected_no_change"
  ELSE IF Nudged(m.values[hint.key], hint.direction) = m.values[hint.key]
       THEN "rejected_no_effect" ELSE "adopted"

\* WorldModelHintDisposition: the headline is the authority's, the reason of a
\* rejection the classifier's, and the step is measured.
Emitted(m, shown, hint) ==
  IF Adopted(m, shown, hint)
  THEN [ disposition |-> "adopted",
         step |-> Apply(m, shown, hint).values[hint.key] - m.values[hint.key] ]
  ELSE [disposition |-> Classified(m, shown, hint), step |-> 0]

\* A plan without a hint, or no plan.
NotEmitted == [disposition |-> "not_emitted", step |-> 0]
=============================================================================
