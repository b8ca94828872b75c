---------------------------- MODULE Reproduction ----------------------------
(***************************************************************************)
(* repro.sh over the landed verdicts: the steps that tie the branch the    *)
(* manuscript reports to the two verdicts and the sealed rules.  While it  *)
(* runs, verdicts may be landed, as VerdictOutputs says, and the author     *)
(* may change a claim or edit the rules.  The other steps of the script    *)
(* read none of this state and are left out.                               *)
(***************************************************************************)
EXTENDS VerdictOutputs, Sequences

CONSTANTS
  Quantities,   \* the record a verdict holds, for each of Objects
  Claims,       \* the branches an author may come to name
  EditedRules   \* what an edit of seal/decision-rules.json may make of it

ASSUME ReproductionAssumption ==
  /\ \A v \in Objects : Quantities[v] \in QuantityRecord
  /\ Claims \subseteq Rule /\ NoFile \notin Rule
  /\ EditedRules \subseteq Bounds /\ Sealed \notin EditedRules

VARIABLES
  rules,   \* seal/decision-rules.json
  claim,   \* the hand derivation, the marker in main.md, reported-branch.txt
  repro,   \* the run: next step, whether it skipped step 13, whether what it
           \* reads has stayed as it was since it started
  report   \* data/derived/decision-report.json

vars == <<raw, scratch, rules, claim, repro, report>>

Init ==
  /\ OutputsInit
  /\ rules = Sealed
  /\ claim = [hand |-> NoFile, marker |-> NoFile, file |-> NoFile]
  /\ repro = [step |-> "none", skipped |-> FALSE, settled |-> FALSE]
  /\ report = NoFile

Running == repro.step \in {"3", "9", "12", "13"}

-----------------------------------------------------------------------------
(* The author *)

Unsettled == [repro EXCEPT !.settled = FALSE]

\* REPORTED-BRANCH.md: the branch derived by hand from the two verdicts.
DeriveByHand(b) ==
  /\ claim.hand # b
  /\ claim' = [claim EXCEPT !.hand = b]
  /\ repro' = Unsettled
  /\ UNCHANGED <<outputs, rules, report>>

\* The REPORTED-BRANCH marker of main.md is written, changed or taken out.
WriteMarker(b) ==
  /\ claim.marker # b
  /\ claim' = [claim EXCEPT !.marker = b]
  /\ repro' = Unsettled
  /\ UNCHANGED <<outputs, rules, report>>

\* render_reported_branch.py; it leaves an old file if there is no marker.
RenderBranch ==
  /\ claim.marker \notin {NoFile, claim.file}
  /\ claim' = [claim EXCEPT !.file = claim.marker]
  /\ repro' = Unsettled
  /\ UNCHANGED <<outputs, rules, report>>

EditRules ==
  /\ \E r \in EditedRules \cup {Sealed} : r # rules /\ rules' = r
  /\ repro' = Unsettled
  /\ UNCHANGED <<outputs, claim, report>>

\* A lander works on data/raw/.
Landing ==
  /\ OutputsNext
  /\ repro' = Unsettled
  /\ UNCHANGED <<rules, claim, report>>

\* A file put into the place of a verdict by hand, not by the lander.
CopyByHand(a) ==
  /\ \E v \in Verdict : v # raw[a] /\ raw' = [raw EXCEPT ![a] = v]
  /\ repro' = Unsettled
  /\ UNCHANGED <<scratch, rules, claim, report>>

-----------------------------------------------------------------------------
(* repro.sh *)

Start ==
  /\ ~Running
  /\ repro' = [step |-> "3", skipped |-> FALSE, settled |-> TRUE]
  /\ UNCHANGED <<outputs, rules, claim, report>>

\* A step that fails ends the run (set -e).
Passes(from, holds, to) ==
  /\ repro.step = from
  /\ repro' = [repro EXCEPT !.step = IF holds THEN to ELSE "failed"]
  /\ UNCHANGED <<outputs, rules, claim, report>>

\* data/raw/ holds the frozen inputs and the two verdicts, and nothing else.
NoUnrecordedFiles == scratch = {}

OutputsSound == \A a \in Arms : raw[a] # NoFile => raw[a] \in Objects \ Frozen

\* 3: verify_data_hashes.py.
DataHashes == Passes("3", NoUnrecordedFiles /\ OutputsSound, "9")

Complete == \A a \in Arms : raw[a] # NoFile

\* Faulty variant: a marker whose file was never rendered is accepted.
ClaimConsistentUnrendered ==
  claim.marker # NoFile =>
    Complete /\ claim.file \in {NoFile, claim.marker} /\ claim.hand = claim.marker

\* Nothing is claimed before both verdicts have landed, a claim is made once
\* they have, and the marker, the file and the hand derivation agree.
ClaimConsistent ==
  IF claim.marker = NoFile
  THEN ~Complete /\ claim.file = NoFile
  ELSE Complete /\ claim.file = claim.marker /\ claim.hand = claim.marker

\* 9: check_manuscript_numbers.py, its check of the reported branch.
ManuscriptNumbers == Passes("9", ClaimConsistent, "12")

\* 12: verify_seal.py.
VerifySeal == Passes("12", rules = Sealed, "13")

Parsed == \A a \in Arms : raw[a] \in Objects

Readings == [a \in Arms |-> Quantities[raw[a]]]

Expected(branch) == claim.file \in {NoFile, branch}

\* 13: apply_decision_rules.py, if both verdicts are there.  The report is
\* written before the branch is compared with the expected one.
ReportedBranch ==
  /\ repro.step = "13"
  /\ IF ~Complete
     THEN /\ repro' = [repro EXCEPT !.step = "green", !.skipped = TRUE]
          /\ UNCHANGED report
     ELSE LET outcome == Report(rules, Readings) IN
          IF ~Parsed \/ outcome.branch = Died
          THEN repro' = [repro EXCEPT !.step = "failed"] /\ UNCHANGED report
          ELSE /\ report' = [rules |-> rules, outcome |-> outcome]
               /\ repro' = [repro EXCEPT !.step =
                              IF Expected(outcome.branch) THEN "green" ELSE "failed"]
  /\ UNCHANGED <<outputs, rules, claim>>

Repro == Start \/ DataHashes \/ ManuscriptNumbers \/ VerifySeal \/ ReportedBranch

Next ==
  \/ Landing \/ Repro \/ RenderBranch \/ EditRules
  \/ \E a \in Arms : CopyByHand(a)
  \/ \E b \in Claims : DeriveByHand(b)
  \/ \E b \in Claims \cup {NoFile} : WriteMarker(b)

Spec == Init /\ [][Next]_vars

-----------------------------------------------------------------------------
(* Properties *)

\* A run that passes over a repository nobody touches meanwhile has bound the
\* claim to the results: with both verdicts landed, the manuscript, the file
\* and the hand derivation name the branch the sealed rules reach on them, no
\* frozen input stands in for a result, and with fewer verdicts nothing is
\* claimed (render_reported_branch.py:25-33,
\* check_manuscript_numbers.py:258-279).  And no interrupted landing has left
\* anything behind (verify_data_hashes.py:226-244).
GreenMeansDerived ==
  repro.step = "green" /\ repro.settled =>
    /\ scratch = {} /\ rules = Sealed
    /\ IF Complete
       THEN LET b == Report(Sealed, Readings).branch IN
            /\ \A a \in Arms : raw[a] \in Objects \ Frozen
            /\ ~repro.skipped /\ b # Died /\ claim = [hand |-> b, marker |-> b, file |-> b]
       ELSE repro.skipped /\ claim.marker = NoFile /\ claim.file = NoFile

\* Under the sealed rules the report never is the state that R2 calls
\* unreachable (seal/decision-rules.json, R2 on_fail): R1 and R2 part what R4
\* and R3 leave.
ReportIsAnOutcome ==
  report # NoFile /\ report.rules = Sealed =>
    (report.outcome.branch = "R2" => report.outcome.value)
=============================================================================
