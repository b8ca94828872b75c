--------------------------- MODULE DecisionRules ---------------------------
(***************************************************************************)
(* The sealed decision rules (seal/decision-rules.json) and their          *)
(* evaluator (analysis/scripts/apply_decision_rules.py): five predicates   *)
(* over the quantities of two arms, evaluated in the sealed order up to    *)
(* the first one whose action is to stop.                                  *)
(*                                                                         *)
(* Rates and distances are integers in millionths.  A quantity that is     *)
(* missing, null, not finite or of the wrong type is Malformed: it ends    *)
(* the evaluation with an error if a rule that reads it is reached.        *)
(***************************************************************************)
EXTENDS Integers

CONSTANT Malformed   \* no number, truth value or verdict

ASSUME MalformedAssumption == Malformed \notin Int /\ Malformed \notin BOOLEAN

Arms == {"control", "primary"}
Rule == {"R1", "R2", "R3", "R4", "R5"}
Quantity == {"verdict", "rho_hat", "power", "tv_bar", "permutation_reject",
             "none_rate_max_observed"}

\* The bounds of R1 to R4 as sealed; an edit of the file may move one.  below
\* is the materiality margin in R1, from the same margin in R2.
Sealed == [rho |-> 500000, power |-> 800000, below |-> 100000, from |-> 100000]
Bounds == [{"rho", "power", "below", "from"} -> Int]
Order == <<"R5", "R4", "R3", "R1", "R2">>

ArmOf(r) == IF r = "R5" THEN "control" ELSE "primary"

Reads(r) ==
  CASE r = "R5" -> Quantity \ {"none_rate_max_observed"}
    [] r = "R4" -> {"rho_hat", "none_rate_max_observed"}
    [] r = "R3" -> {"rho_hat", "power"}
    [] OTHER    -> {"rho_hat", "power", "tv_bar", "permutation_reject"}

Distance(a, b) == IF a > b THEN a - b ELSE b - a

\* R5, control-arm concordance.
Concordant(q) ==
  /\ q.verdict = "NO_CHANNEL_CONFORMANCE"
  /\ q.rho_hat >= 750000 /\ q.power >= 800000 /\ q.tv_bar < 100000
  /\ Distance(q.tv_bar, 38065) <= 30000
  /\ ~q.permutation_reject

\* R4: a floor effect, the estimand is not measurable in this family.
Unmeasurable(b, q) == q.rho_hat < b.rho \/ q.none_rate_max_observed > 500000

\* R3: attained power.
Underpowered(b, q) == q.rho_hat >= b.rho /\ q.power < b.power

\* R1: below the margin, and the permutation test does not reject.
Replicated(b, q) ==
  /\ q.rho_hat >= b.rho /\ q.power >= b.power
  /\ q.tv_bar < b.below /\ ~q.permutation_reject

\* Faulty variant of R2: the materiality margin is exclusive on both sides.
NotReplicatedAbove(b, q) ==
  /\ q.rho_hat >= b.rho /\ q.power >= b.power
  /\ q.tv_bar > b.from \/ q.permutation_reject

\* R2: an estimate of exactly the margin falls here.
NotReplicated(b, q) ==
  /\ q.rho_hat >= b.rho /\ q.power >= b.power
  /\ q.tv_bar >= b.from \/ q.permutation_reject

Holds(r, b, q) ==
  CASE r = "R5" -> Concordant(q)
    [] r = "R4" -> Unmeasurable(b, q)
    [] r = "R3" -> Underpowered(b, q)
    [] r = "R1" -> Replicated(b, q)
    [] OTHER    -> NotReplicated(b, q)

\* The action of a rule: R5 stops when it fails, the others when they hold,
\* and R2 in any case.
Stops(r, b, q) ==
  \/ r = "R5" /\ ~Holds(r, b, q)
  \/ r \in {"R4", "R3", "R1"} /\ Holds(r, b, q)
  \/ r = "R2"

Readable(r, q) == \A f \in Reads(r) : q[f] # Malformed

\* recs[a] is the record of arm a; evaluation reaches the i-th rule if every
\* earlier one could be read and did not stop it.
Reached(i, b, recs) ==
  \A j \in 1..(i - 1) :
     LET q == recs[ArmOf(Order[j])] IN
     Readable(Order[j], q) /\ ~Stops(Order[j], b, q)

\* The first rule that cannot be read, or stops.
Ends(i, b, recs) ==
  LET q == recs[ArmOf(Order[i])] IN
  Reached(i, b, recs) /\ (~Readable(Order[i], q) \/ Stops(Order[i], b, q))

Died == "error"

\* What the report says: the rule evaluation stopped at and whether it held.
Report(b, recs) ==
  LET i == CHOOSE i \in DOMAIN Order : Ends(i, b, recs)
      q == recs[ArmOf(Order[i])]
  IN  IF Readable(Order[i], q)
      THEN [branch |-> Order[i], value |-> Holds(Order[i], b, q)]
      ELSE [branch |-> Died, value |-> FALSE]

\* The records an arm may come with.
QuantityRecord ==
  [ verdict : STRING \cup {Malformed},
    rho_hat : Int \cup {Malformed},
    power : Int \cup {Malformed},
    tv_bar : Int \cup {Malformed},
    permutation_reject : BOOLEAN \cup {Malformed},
    none_rate_max_observed : Int \cup {Malformed} ]
=============================================================================
