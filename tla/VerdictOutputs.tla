--------------------------- MODULE VerdictOutputs ---------------------------
(***************************************************************************)
(* What landing a verdict promises to those who read data/raw/: under the  *)
(* name of an arm there is never anything but a whole verdict that this    *)
(* arm's run produced and the seal check accepted, it appears in one step, *)
(* and until then there may be scratch files beside it                     *)
(* (analysis/scripts/land_prospective_verdict.py:11-34).                   *)
(***************************************************************************)
EXTENDS DecisionRules

CONSTANTS
  Verdict,     \* the contents a verdict file may have
  By,          \* verdict -> the arm whose run wrote it
  Objects,     \* those that parse as a JSON object
  Frozen,      \* those that are a frozen input of data/data.md
  Conforming,  \* those that record the sealed thresholds
  NoFile       \* there is no file

ASSUME OutputsAssumption ==
  /\ By \in [Verdict -> Arms]
  /\ Objects \subseteq Verdict /\ Frozen \subseteq Verdict /\ Conforming \subseteq Verdict
  /\ NoFile \notin Verdict

VARIABLES
  raw,     \* arm -> data/raw/<arm>-verdict.json
  scratch  \* the arms with a data/raw/<arm>-verdict.json.landing

outputs == <<raw, scratch>>

Landable(a) == {v \in (Objects \cap Conforming) \ Frozen : By[v] = a}

OutputsInit ==
  /\ raw = [a \in Arms |-> NoFile]
  /\ scratch = {}

Prepare(a) == scratch' = scratch \cup {a} /\ UNCHANGED raw

Discard(a) == scratch' = scratch \ {a} /\ UNCHANGED raw

Publish(a) ==
  /\ a \in scratch
  /\ \E v \in Landable(a) : raw' = [raw EXCEPT ![a] = v]
  /\ scratch' = scratch \ {a}

OutputsNext == \E a \in Arms : Prepare(a) \/ Discard(a) \/ Publish(a)

OutputsSpec == OutputsInit /\ [][OutputsNext]_outputs
=============================================================================
