--------------------------- MODULE PipelineProofs --------------------------
(***************************************************************************)
(* What repro.sh and the checkers it runs establish.  The sealed rules      *)
(* cover every pair of records; a run that passes over a repository nobody  *)
(* touches has bound the reported branch to the verdicts; a seal that       *)
(* passes holds the sealed bytes, and a deposit of them held them by the    *)
(* time its witness tells; data that pass are the registered ones; a .docx   *)
(* that passes is read as main.md, whatever edits stand in it.              *)
(***************************************************************************)
EXTENDS Reproduction, SealSelfTest, DocxSelfTest, FrozenData, TLAPS, FiniteSetTheorems, SequenceTheorems

EndsAt(i, b, recs) ==
  LET q == recs[ArmOf(Order[i])] IN
  ~Readable(Order[i], q) \/ Stops(Order[i], b, q)

\* The order in which the rules are evaluated.
LEMMA OrderOfRules ==
  /\ DOMAIN Order = 1..5
  /\ Order[1] = "R5" /\ Order[2] = "R4" /\ Order[3] = "R3" /\ Order[4] = "R1" /\ Order[5] = "R2"
BY DEF Order

\* Evaluation ends at one rule.
LEMMA SomeRuleEnds ==
  ASSUME NEW b, NEW recs
  PROVE  \E i \in DOMAIN Order : Ends(i, b, recs)
<1>1. ASSUME NEW i \in 1..5 PROVE Ends(i, b, recs) <=> (\A j \in 1..(i - 1) : ~EndsAt(j, b, recs)) /\ EndsAt(i, b, recs)
  BY DEF Ends, Reached, EndsAt
<1>2. EndsAt(5, b, recs)
  BY OrderOfRules DEF EndsAt, Stops
<1> HIDE DEF EndsAt
<1>3. CASE EndsAt(1, b, recs) BY <1>1, <1>3, OrderOfRules
<1>4. CASE ~EndsAt(1, b, recs) /\ EndsAt(2, b, recs) BY <1>1, <1>4, OrderOfRules
<1>5. CASE ~EndsAt(1, b, recs) /\ ~EndsAt(2, b, recs) /\ EndsAt(3, b, recs) BY <1>1, <1>5, OrderOfRules
<1>6. CASE ~EndsAt(1, b, recs) /\ ~EndsAt(2, b, recs) /\ ~EndsAt(3, b, recs) /\ EndsAt(4, b, recs)
  BY <1>1, <1>6, OrderOfRules
<1>7. CASE ~EndsAt(1, b, recs) /\ ~EndsAt(2, b, recs) /\ ~EndsAt(3, b, recs) /\ ~EndsAt(4, b, recs)
  BY <1>1, <1>2, <1>7, OrderOfRules
<1> QED BY <1>3, <1>4, <1>5, <1>6, <1>7

\* A record that R4, R3 and R1 let pass satisfies R2, if the two margins leave
\* no gap.
LEMMA RulesLeaveNothing ==
  ASSUME NEW b \in Bounds, b.from <= b.below, NEW q \in QuantityRecord,
         \A r \in {"R4", "R3", "R1", "R2"} : Readable(r, q),
         \A r \in {"R4", "R3", "R1"} : ~Stops(r, b, q)
  PROVE  Holds("R2", b, q)
<1>1. q.rho_hat \in Int /\ q.power \in Int /\ q.tv_bar \in Int /\ q.permutation_reject \in BOOLEAN
      /\ q.none_rate_max_observed \in Int
  BY MalformedAssumption DEF QuantityRecord, Readable, Reads
<1>2. ~Unmeasurable(b, q) /\ ~Underpowered(b, q) /\ ~Replicated(b, q)
  BY DEF Stops, Holds
<1>3. b.rho \in Int /\ b.power \in Int /\ b.below \in Int /\ b.from \in Int
  BY DEF Bounds
<1>4. q.rho_hat >= b.rho /\ q.power >= b.power
  BY <1>1, <1>2, <1>3 DEF Unmeasurable, Underpowered
<1>5. q.tv_bar >= b.from \/ q.permutation_reject
  BY <1>1, <1>2, <1>3, <1>4 DEF Replicated
<1> QED BY <1>4, <1>5 DEF Holds, NotReplicated

\* The outcome branches part what the gates leave: of a readable primary record
\* exactly one of R4, R3, R1 and R2 holds, but that R4's none-rate may also be
\* high in the other three (decision-rules.json, order_note and R2 rationale).
THEOREM SealedRulesPart ==
  ASSUME NEW q \in QuantityRecord, \A f \in Quantity : q[f] # Malformed
  PROVE  /\ \E r \in {"R4", "R3", "R1", "R2"} : Holds(r, Sealed, q)
         /\ ~(Holds("R1", Sealed, q) /\ Holds("R2", Sealed, q))
         /\ ~(Holds("R3", Sealed, q) /\ (Holds("R1", Sealed, q) \/ Holds("R2", Sealed, q)))
         /\ q.none_rate_max_observed <= 500000 =>
              ~(Holds("R4", Sealed, q)
                /\ (Holds("R3", Sealed, q) \/ Holds("R1", Sealed, q) \/ Holds("R2", Sealed, q)))
<1>1. q.rho_hat \in Int /\ q.power \in Int /\ q.tv_bar \in Int /\ q.permutation_reject \in BOOLEAN
      /\ q.none_rate_max_observed \in Int
  BY MalformedAssumption DEF QuantityRecord, Quantity
<1> QED
  BY <1>1 DEF Holds, Sealed, Unmeasurable, Underpowered, Replicated, NotReplicated

\* A report that names R2 says that it held.
LEMMA ReportSound ==
  ASSUME NEW b \in Bounds, b.from <= b.below,
         NEW recs \in [Arms -> QuantityRecord],
         Report(b, recs).branch = "R2"
  PROVE  Report(b, recs).value
<1> DEFINE i == CHOOSE i \in DOMAIN Order : Ends(i, b, recs)
           q == recs[ArmOf(Order[i])]
<1>1. i \in DOMAIN Order /\ Ends(i, b, recs) BY SomeRuleEnds
<1>2. Report(b, recs) = IF Readable(Order[i], q)
                        THEN [branch |-> Order[i], value |-> Holds(Order[i], b, q)]
                        ELSE [branch |-> Died, value |-> FALSE]
  BY DEF Report
<1>3. Readable(Order[i], q) /\ Order[i] = "R2" BY <1>2 DEF Died
<1> HIDE DEF i
<1>4. i = 5 BY <1>1, <1>3, OrderOfRules
<1>5. q = recs["primary"] /\ recs["primary"] \in QuantityRecord BY <1>3 DEF ArmOf, Arms
<1>6. ASSUME NEW j \in {2, 3, 4}
      PROVE  Readable(Order[j], recs["primary"]) /\ ~Stops(Order[j], b, recs["primary"])
  <2>1. Reached(5, b, recs) /\ j \in 1..(5 - 1) BY <1>1, <1>4 DEF Ends
  <2>2. ArmOf(Order[j]) = "primary" BY OrderOfRules DEF ArmOf
  <2> QED BY <2>1, <2>2 DEF Reached
<1>7. Holds("R2", b, recs["primary"])
  BY <1>3, <1>5, <1>6, OrderOfRules, RulesLeaveNothing
<1> QED BY <1>2, <1>3, <1>5, <1>7

\* The sealed thresholds are within the bounds the rules are checked for.
LEMMA SealedFits == Sealed \in Bounds /\ Sealed.from <= Sealed.below
BY DEF Sealed, Bounds

\* Whatever quantities the arms come with, the report never is the state R2
\* calls unreachable.
THEOREM Unreachable == Spec => []ReportIsAnOutcome
<1>1. Init => ReportIsAnOutcome BY DEF Init, ReportIsAnOutcome
<1>2. ReportIsAnOutcome /\ [Next]_vars => ReportIsAnOutcome'
  <2> SUFFICES ASSUME ReportIsAnOutcome, [Next]_vars PROVE ReportIsAnOutcome'
    OBVIOUS
  <2>1. CASE report' = report BY <2>1 DEF ReportIsAnOutcome
  <2>2. CASE ReportedBranch /\ report' # report
    <3>1. Parsed /\ report' = [rules |-> rules, outcome |-> Report(rules, Readings)]
      BY <2>2 DEF ReportedBranch
    <3>2. Readings \in [Arms -> QuantityRecord]
      BY <3>1, ReproductionAssumption DEF Parsed, Readings
    <3>3. Report(Sealed, Readings).branch = "R2" => Report(Sealed, Readings).value
      BY <3>2, SealedFits, ReportSound
    <3> QED BY <3>1, <3>3 DEF ReportIsAnOutcome
  <2> QED
    BY <2>1, <2>2 DEF Next, vars, Landing, Repro, Start, DataHashes, ManuscriptNumbers,
       VerifySeal, Passes, RenderBranch, EditRules, CopyByHand, DeriveByHand, WriteMarker
<1> QED BY <1>1, <1>2, PTL DEF Spec

-----------------------------------------------------------------------------
\* What a run has established so far if nothing was touched.
Established ==
  repro.settled =>
    /\ repro.step \in {"9", "12", "13", "green"} => NoUnrecordedFiles /\ OutputsSound
    /\ repro.step \in {"12", "13", "green"} => ClaimConsistent
    /\ repro.step \in {"13", "green"} => rules = Sealed
    /\ repro.step = "green" =>
         IF Complete
         THEN ~repro.skipped /\ Report(Sealed, Readings).branch = claim.file /\ claim.file # Died
         ELSE repro.skipped
    /\ repro.step \in {"3", "9", "12", "13"} => ~repro.skipped

ReproType ==
  /\ repro \in [step : {"none", "3", "9", "12", "13", "green", "failed"},
                skipped : BOOLEAN, settled : BOOLEAN]
  /\ claim \in [{"hand", "marker", "file"} -> Claims \cup {NoFile}]

\* Before the first step nothing is claimed.
LEMMA EstablishedInit == Init => Established /\ ReproType
BY DEF Init, Established, ReproType

\* Somebody touches the repository: nothing is settled any more.
LEMMA AuthorKeeps ==
  ASSUME Established, ReproType,
         \/ Landing \/ RenderBranch \/ EditRules
         \/ \E a \in Arms : CopyByHand(a)
         \/ \E b \in Claims : DeriveByHand(b)
         \/ \E b \in Claims \cup {NoFile} : WriteMarker(b)
  PROVE  Established' /\ ReproType'
<1>1. repro' = Unsettled
  BY DEF Landing, RenderBranch, EditRules, CopyByHand, DeriveByHand, WriteMarker
<1>2. claim' \in [{"hand", "marker", "file"} -> Claims \cup {NoFile}]
  BY DEF Landing, RenderBranch, EditRules, CopyByHand, DeriveByHand, WriteMarker, ReproType
<1>3. Established' BY <1>1 DEF Established, Unsettled, ReproType
<1> QED BY <1>1, <1>2, <1>3 DEF Unsettled, ReproType

\* What the steps of the script conclude from stays as it is while they run.
Read == <<outputs, rules, claim>>

\* What the script has read off the files depends on nothing but the files.
LEMMA FactsStay ==
  ASSUME UNCHANGED Read
  PROVE  /\ (NoUnrecordedFiles /\ OutputsSound)' = (NoUnrecordedFiles /\ OutputsSound)
         /\ ClaimConsistent' = ClaimConsistent
         /\ Complete' = Complete
         /\ Readings' = Readings
BY DEF Read, outputs, NoUnrecordedFiles, OutputsSound, ClaimConsistent, Complete, Readings

\* The last step: the branch of the two verdicts is the one the file names.
LEMMA LastStep ==
  ASSUME Established, ReproType, ReportedBranch PROVE Established' /\ ReproType'
<1> USE FactsStay DEF Read
<1>0. UNCHANGED Read /\ repro.step = "13" BY DEF ReportedBranch
<1>1. CASE ~Complete
  <2>1. repro' = [repro EXCEPT !.step = "green", !.skipped = TRUE]
    BY <1>1 DEF ReportedBranch
  <2>2. repro'.step = "green" /\ repro'.skipped /\ repro'.settled = repro.settled /\ ReproType'
    BY <1>0, <2>1 DEF ReproType
  <2>3. ~Complete' BY <1>0, <1>1
  <2> QED BY <1>0, <2>2, <2>3 DEF Established
<1>2. CASE Complete /\ repro'.step # "green"
  <2>1. repro' = [repro EXCEPT !.step = "failed"]
    BY <1>2 DEF ReportedBranch, ReproType
  <2> QED BY <1>0, <2>1 DEF Established, ReproType
<1>3. CASE Complete /\ repro'.step = "green"
  <2>1. repro' = [repro EXCEPT !.step = "green"]
        /\ Expected(Report(rules, Readings).branch) /\ Report(rules, Readings).branch # Died
    BY <1>3 DEF ReportedBranch, ReproType
  <2>2. ASSUME repro.settled
        PROVE  Report(Sealed, Readings).branch = claim.file /\ claim.file # Died
    <3>1. ClaimConsistent /\ rules = Sealed BY <1>0, <2>2 DEF Established
    <3>2. claim.file # NoFile BY <1>3, <3>1 DEF ClaimConsistent
    <3> QED BY <2>1, <3>1, <3>2 DEF Expected
  <2> QED BY <1>0, <1>3, <2>1, <2>2 DEF Established, ReproType
<1> QED BY <1>1, <1>2, <1>3

\* Each step of the pipeline establishes what the later ones rely on.
LEMMA EstablishedStep ==
  ASSUME Established, ReproType, [Next]_vars PROVE Established' /\ ReproType'
<1> USE FactsStay DEF Read
<1>1. CASE Start
  BY <1>1 DEF Start, Established, ReproType
<1>2. CASE DataHashes
  BY <1>2 DEF DataHashes, Passes, Established, ReproType
<1>3. CASE ManuscriptNumbers
  BY <1>3 DEF ManuscriptNumbers, Passes, Established, ReproType
<1>4. CASE VerifySeal
  BY <1>4 DEF VerifySeal, Passes, Established, ReproType
<1>5. CASE UNCHANGED vars
  BY <1>5 DEF vars, outputs, Established, ReproType
<1> QED
  BY <1>1, <1>2, <1>3, <1>4, <1>5, AuthorKeeps, LastStep DEF Next, Repro

\* What a settled green run means, for any verdicts, claims and edits.
THEOREM GreenRunBindsClaim == Spec => []GreenMeansDerived
<1>1. Init => Established /\ ReproType BY EstablishedInit
<1>2. Established /\ ReproType /\ [Next]_vars => (Established /\ ReproType)'
  BY EstablishedStep
<1>3. Established /\ ReproType => GreenMeansDerived
  <2> SUFFICES ASSUME Established, ReproType, repro.step = "green", repro.settled
               PROVE  GreenMeansDerived
    BY DEF GreenMeansDerived
  <2>1. scratch = {} /\ rules = Sealed /\ OutputsSound /\ ClaimConsistent
    BY DEF Established, NoUnrecordedFiles
  <2>2. CASE ~Complete
    BY <2>1, <2>2 DEF Established, GreenMeansDerived, ClaimConsistent
  <2>3. CASE Complete
    <3> DEFINE b == Report(Sealed, Readings).branch
    <3>1. ~repro.skipped /\ b = claim.file /\ b # Died
      BY <2>3 DEF Established
    <3>2. claim.marker = b /\ claim.hand = b
      BY <2>1, <2>3, <3>1 DEF ClaimConsistent
    <3> HIDE DEF b
    <3>3. claim = [hand |-> b, marker |-> b, file |-> b]
      BY <3>1, <3>2 DEF ReproType
    <3>4. \A a \in Arms : raw[a] \in Objects \ Frozen
      BY <2>1, <2>3 DEF Complete, OutputsSound
    <3> USE DEF b
    <3> QED BY <2>1, <2>3, <3>1, <3>3, <3>4 DEF GreenMeansDerived
  <2> QED BY <2>2, <2>3
<1> QED BY <1>1, <1>2, <1>3, PTL DEF Spec

-----------------------------------------------------------------------------
(* The seal *)

\* A rendering depends on the rules and on the renderer.
LEMMA SameRendering ==
  ASSUME NEW t, NEW u, t["decision-rules.json"] = u["decision-rules.json"],
         t["render_decision_rules.py"] = u["render_decision_rules.py"]
  PROVE  render(t) = render(u)
BY DEF render

\* What verify_seal.py without options finds nothing to say about.
LEMMA QuietSeal ==
  ASSUME NEW t, verify_seal(t, <<>>, <<>>) = {}
  PROVE  /\ ManifestProblems(t) = {} /\ HashProblems(t) = {} 
         /\ check_rule_text(t) = {} /\ ~Ended(t)
BY DEF verify_seal, SealProblems, Ended

\* A manifest without problems has its own hash and lists the sealed set.
LEMMA QuietManifest ==
  ASSUME NEW t, ManifestProblems(t) = {}
  PROVE  /\ ManifestOf(t).schema = MANIFEST_SCHEMA
         /\ ManifestOf(t).self_sha256 = canonical_self_hash(ManifestOf(t))
         /\ SEALED_PATHS(t) = DOMAIN ManifestOf(t).files
BY DEF ManifestProblems, SetProblems, Reported

\* Every sealed file is there, as the manifest lists it.
LEMMA QuietHashes ==
  ASSUME NEW t, HashProblems(t) = {}, NEW path \in SEALED_PATHS(t)
  PROVE  path \in DOMAIN t /\ ManifestOf(t).files[path] = Digest("sha256", t[path])
BY DEF HashProblems

\* A digest gives its bytes away: no two have the same.
LEMMA DigestsAreBytes ==
  ASSUME NEW a, NEW b, NEW c, NEW d, Digest(a, b) = Digest(c, d)
  PROVE  b = d
BY DEF Digest

\* The sealed set, as a set.
LEMMA ElevenPaths ==
  Sealed11 = {"freeze-provenance.json", "_provenance.py", "apply_decision_rules.py",
      "check_seal_scope.py", "collect_zenodo_witness.py",
      "render_decision_rules.py", "verify_seal.py", "repro.sh",
      "arm-spec.json", "decision-rules.json", "protocol.md"}
BY DEF Sealed11, SealedPaths, Range

\* The sealed tree before its manifest was built.
Drafted == [Unrendered EXCEPT !["protocol.md"].says = <<<<"protocol">>>> \o render(Unrendered),
                         !["main.md"].says = <<<<"paper">>>> \o render(Unrendered) \o <<<<"rest">>>>]

\* What the tree was before its manifest was built.
LEMMA DraftedTree ==
  /\ DOMAIN Drafted = Sealed11 \cup {"main.md", "SEAL-MANIFEST.json"}
  /\ Drafted["verify_seal.py"].list = Sealed11
  /\ Drafted["arm-spec.json"] = Document("arm-spec.json", [shared |-> Shared, arms |-> PerArm, thresholds |-> Thresholds])
<1>1. DOMAIN Unrendered = Sealed11 \cup {"main.md", "SEAL-MANIFEST.json"}
  BY DEF Unrendered
<1>2. Unrendered["verify_seal.py"] = Script("verify_seal.py", {"_provenance.py", "render_decision_rules.py"}, Sealed11)
  BY ElevenPaths DEF Unrendered
<1>3. Unrendered["arm-spec.json"] = Document("arm-spec.json", [shared |-> Shared, arms |-> PerArm, thresholds |-> Thresholds])
  BY ElevenPaths DEF Unrendered
<1>4. Drafted["verify_seal.py"] = Unrendered["verify_seal.py"] /\ Drafted["arm-spec.json"] = Unrendered["arm-spec.json"]
  BY <1>1, ElevenPaths DEF Drafted
<1>5. DOMAIN Drafted = DOMAIN Unrendered
  BY DEF Drafted
<1>6. Script("verify_seal.py", {"_provenance.py", "render_decision_rules.py"}, Sealed11).list = Sealed11
  BY DEF Script
<1> QED BY <1>1, <1>2, <1>3, <1>4, <1>5, <1>6

\* What the manifest of the sealed tree lists, and its self-hash.
LEMMA AsSealed ==
  /\ DOMAIN SealedTree = Sealed11 \cup {"main.md", "SEAL-MANIFEST.json"}
  /\ ManifestOf(SealedTree).files = [path \in Sealed11 |-> Digest("sha256", SealedTree[path])]
  /\ ManifestOf(SealedTree).self_sha256 = canonical_self_hash(ManifestOf(SealedTree))
  /\ "files" \in DOMAIN ManifestOf(SealedTree)
  /\ SealedTree["arm-spec.json"].says = [shared |-> Shared, arms |-> PerArm, thresholds |-> Thresholds]
<1> DEFINE files == [path \in Sealed11 |-> Digest("sha256", Drafted[path])]
           bare == [file |-> "SEAL-MANIFEST.json", schema |-> MANIFEST_SCHEMA, prose |-> "",
                    self_sha256 |-> <<>>, files |-> files]
<1>1. SealedTree = [Drafted EXCEPT !["SEAL-MANIFEST.json"] = Resealed(bare)]
  BY DraftedTree DEF SealedTree, Drafted, build_seal_manifest, SEALED_PATHS
<1>2. DOMAIN SealedTree = DOMAIN Drafted /\ SealedTree["SEAL-MANIFEST.json"] = Resealed(bare)
      /\ \A path \in Sealed11 : SealedTree[path] = Drafted[path]
  <2> HIDE DEF bare
  <2> QED BY <1>1, DraftedTree, ElevenPaths
<1>3. Resealed(bare).files = files
  BY DEF Resealed
<1>4. Resealed(bare).self_sha256 = canonical_self_hash(bare)
  BY DEF Resealed
<1>5. [Resealed(bare) EXCEPT !.self_sha256 = <<>>] = [bare EXCEPT !.self_sha256 = <<>>]
  <2> DEFINE hash == canonical_self_hash(bare)
  <2>1. Resealed(bare) = [bare EXCEPT !.self_sha256 = hash] BY DEF Resealed
  <2> HIDE DEF hash
  <2> QED BY <2>1
<1>6. files = [path \in Sealed11 |-> Digest("sha256", SealedTree[path])]
  BY <1>2
<1>7. canonical_self_hash(Resealed(bare)) = canonical_self_hash(bare)
  BY <1>5 DEF canonical_self_hash
<1>8. SealedTree["arm-spec.json"].says = [shared |-> Shared, arms |-> PerArm, thresholds |-> Thresholds]
  <2> DEFINE spec == [shared |-> Shared, arms |-> PerArm, thresholds |-> Thresholds]
  <2>1. SealedTree["arm-spec.json"] = Document("arm-spec.json", spec)
    BY <1>2, DraftedTree, ElevenPaths
  <2> HIDE DEF spec
  <2>2. Document("arm-spec.json", spec).says = spec
    BY DEF Document
  <2> QED BY <2>1, <2>2 DEF spec
<1>9. "files" \in DOMAIN Resealed(bare)
  BY DEF Resealed
<1> HIDE DEF bare, files
<1> QED BY <1>9, <1>2, <1>3, <1>4, <1>6, <1>7, <1>8, DraftedTree DEF ManifestOf

\* A tree that passes under the files of the sealed manifest has their bytes:
\* also the list of the checker, which is one of them.
LEMMA SealedBytes ==
  ASSUME NEW t, verify_seal(t, <<>>, <<>>) = {},
         ManifestOf(t).files = ManifestOf(SealedTree).files
  PROVE  /\ SEALED_PATHS(t) = Sealed11
         /\ \A path \in Sealed11 : path \in DOMAIN t /\ t[path] = SealedTree[path]
<1>1. SEALED_PATHS(t) = Sealed11
  BY QuietSeal, QuietManifest, AsSealed
<1>2. ASSUME NEW path \in Sealed11 PROVE path \in DOMAIN t /\ t[path] = SealedTree[path]
  <2>1. path \in DOMAIN t /\ ManifestOf(t).files[path] = Digest("sha256", t[path])
    BY <1>1, QuietSeal, QuietHashes
  <2>2. ManifestOf(t).files[path] = Digest("sha256", SealedTree[path])
    BY AsSealed
  <2> QED BY <2>1, <2>2, DigestsAreBytes
<1> QED BY <1>1, <1>2

\* GreenMeansSealed, whatever the tree has become: the manifest pins the checker
\* with its list and the renderer, and so what both compare.
THEOREM GreenSealHolds == SealSpec => []GreenMeansSealed
<1>1. GreenMeansSealed
  <2> SUFFICES ASSUME verify_seal(tree, <<>>, <<>>) = {}, ManifestOf(tree) = ManifestOf(SealedTree)
               PROVE  /\ \A path \in Sealed11 : path \in DOMAIN tree /\ tree[path] = SealedTree[path]
                      /\ RuleTextOf([SealedTree EXCEPT !["main.md"] = tree["main.md"]], "main.md") = {}
    BY DEF GreenMeansSealed
  <2> DEFINE mixed == [SealedTree EXCEPT !["main.md"] = tree["main.md"]]
  <2>1. \A path \in Sealed11 : path \in DOMAIN tree /\ tree[path] = SealedTree[path]
    BY SealedBytes
  <2>2. mixed["main.md"] = tree["main.md"] /\ mixed["decision-rules.json"] = tree["decision-rules.json"]
        /\ mixed["render_decision_rules.py"] = tree["render_decision_rules.py"]
    BY <2>1, AsSealed, ElevenPaths
  <2> HIDE DEF mixed
  <2>3. RuleTextOf(mixed, "main.md") = RuleTextOf(tree, "main.md")
    BY <2>2, SameRendering DEF RuleTextOf
  <2>4. RuleTextOf(tree, "main.md") = {}
    BY QuietSeal DEF check_rule_text
  <2> QED BY <2>1, <2>3, <2>4 DEF mixed
<1> QED BY <1>1, PTL

\* Two manifests of one self-hash list the same files.
LEMMA SelfHashListsFiles ==
  ASSUME NEW m, NEW n, canonical_self_hash(m) = canonical_self_hash(n), "files" \in DOMAIN n
  PROVE  m.files = n.files
<1> DEFINE bare(k) == [k EXCEPT !.self_sha256 = <<>>]
<1>1. bare(m) = bare(n)
  BY DigestsAreBytes DEF canonical_self_hash
<1>2. DOMAIN bare(m) = DOMAIN m /\ DOMAIN bare(n) = DOMAIN n
  OBVIOUS
<1>3. "files" \in DOMAIN m
  BY <1>1, <1>2
<1>4. bare(m).files = m.files /\ bare(n).files = n.files
  BY <1>3
<1> QED BY <1>1, <1>4

\* What a deviating run records differs from what either arm is to have.
LEMMA DeviationsDeviate ==
  ASSUME NEW spec, spec.shared = Shared, spec.arms = PerArm,
         NEW arm \in {"control", "primary"}, NEW f \in DOMAIN Deviating
  PROVE  f \in DOMAIN Fields(spec, arm) /\ Fields(spec, arm)[f] # Deviating[f]
<1> DEFINE own == PerArm[arm]
<1>1. Fields(spec, arm) = [k \in DOMAIN own \cup DOMAIN Shared |->
                              IF k \in DOMAIN own THEN own[k] ELSE Shared[k]]
  BY DEF Fields
<1>2. own \in {PerArm.control, PerArm.primary}
  BY DEF PerArm
<1>3. DOMAIN own = {"model", "model_digest", "think"}
  BY <1>2 DEF PerArm
<1>4. /\ own.model # Deviating.model /\ own.model_digest # Deviating.model_digest
      /\ ~own.think /\ Deviating.think
  <2>1. CASE own = PerArm.control BY <2>1 DEF PerArm, Deviating
  <2>2. CASE own = PerArm.primary BY <2>2 DEF PerArm, Deviating
  <2> QED BY <1>2, <2>1, <2>2
<1>5. DOMAIN Deviating = DOMAIN own \cup DOMAIN Shared
  BY <1>3 DEF Deviating, Shared
<1>6. \A k \in DOMAIN Shared : Shared[k] # Deviating[k]
  BY DEF Shared, Deviating
<1> HIDE DEF own
<1>8. CASE f \in DOMAIN own
  BY <1>1, <1>3, <1>4, <1>8
<1>9. CASE f \notin DOMAIN own
  BY <1>1, <1>5, <1>6, <1>9
<1> QED BY <1>8, <1>9

\* An option that was given is read.
LEMMA OneTuple ==
  ASSUME NEW x
  PROVE  x \in Range(<<x>>)
<1>1. 1 \in DOMAIN <<x>>
  OBVIOUS
<1>2. <<x>>[1] = x
  OBVIOUS
<1> QED BY <1>1, <1>2 DEF Range

\* verify_seal reports of a run what _check_run_manifest does.
LEMMA RunReported ==
  ASSUME NEW t, ~Ended(t), NEW run, run.arm # "", NEW p \in _check_run_manifest(t, run)
  PROVE  verify_seal(t, <<>>, <<run>>) # {}
<1> DEFINE said(r) == IF r.arm = "" THEN {<<"run", "no arm">>} ELSE _check_run_manifest(t, r)
           ofRuns == UNION {said(r) : r \in Range(<<run>>)}
           ofWitnesses == UNION {_check_witness(t, w) : w \in Range(<<>>)}
<1>1. run \in Range(<<run>>)
  BY OneTuple
<1>2. said(run) = _check_run_manifest(t, run)
  OBVIOUS
<1>3. verify_seal(t, <<>>, <<run>>) = SealProblems(t) \cup (ofWitnesses \cup ofRuns)
  BY DEF verify_seal
<1> HIDE DEF said, ofWitnesses
<1>4. p \in ofRuns
  BY <1>1, <1>2
<1> HIDE DEF ofRuns
<1> QED BY <1>3, <1>4

\* RunKeepsToSeal: a run that names the seal pins, by the self-hash, the listed
\* hashes, by these the arm specification, and deviates from that in no field.
THEOREM RunsAreHeld == SealSpec => []RunKeepsToSeal
<1>1. RunKeepsToSeal
  <2> DEFINE seal == ManifestOf(SealedTree).self_sha256
             spec == SealedTree["arm-spec.json"].says
             AsSpecified(arm) == [ConformingRun(seal) EXCEPT !.arm = arm, !.fields = Fields(spec, arm)]
  <2> SUFFICES ASSUME verify_seal(tree, <<>>, <<>>) = {},
                      NEW arm \in {"control", "primary"},
                      NEW f \in DOMAIN Deviating, NEW g \in DOMAIN Deviating
               PROVE  verify_seal(tree, <<>>, <<Deviation(AsSpecified(arm), {f, g})>>) # {}
    BY DEF RunKeepsToSeal
  <2> DEFINE run == Deviation(AsSpecified(arm), {f, g})
  <2>1. run.arm = arm /\ run.seal = seal
    BY DEF ConformingRun, Deviation
  <2>2. run.fields = [k \in DOMAIN Fields(spec, arm) |->
                        IF k \in {f, g} THEN Deviating[k] ELSE Fields(spec, arm)[k]]
    BY DEF ConformingRun, Deviation
  <2>3. ~Ended(tree) /\ ManifestOf(tree).self_sha256 = canonical_self_hash(ManifestOf(tree))
    BY QuietSeal, QuietManifest
  <2> HIDE DEF run
  <2>4. CASE seal # ManifestOf(tree).self_sha256
    <3>1. seal # <<>>
      BY AsSealed DEF canonical_self_hash, Digest
    <3>2. <<"run", "other seal">> \in _check_run_manifest(tree, run)
      BY <2>1, <2>4, <3>1 DEF _check_run_manifest, Reported
    <3> QED BY <2>1, <2>3, <3>2, RunReported DEF run
  <2>5. CASE seal = ManifestOf(tree).self_sha256
    <3>1. "files" \in DOMAIN ManifestOf(SealedTree)
      BY AsSealed
    <3>2. ManifestOf(tree).files = ManifestOf(SealedTree).files
      <4>1. canonical_self_hash(ManifestOf(tree)) = canonical_self_hash(ManifestOf(SealedTree))
        BY <2>3, <2>5, AsSealed
      <4> QED BY <3>1, <4>1, SelfHashListsFiles
    <3>3. tree["arm-spec.json"] = SealedTree["arm-spec.json"]
      BY <3>2, SealedBytes, ElevenPaths
    <3>4. spec.shared = Shared /\ spec.arms = PerArm
      BY AsSealed
    <3> HIDE DEF spec
    <3>5. f \in DOMAIN Fields(spec, arm) /\ Fields(spec, arm)[f] # Deviating[f]
      BY <3>4, DeviationsDeviate
    <3>6. f \in DOMAIN run.fields /\ run.fields[f] = Deviating[f]
      BY <2>2, <3>5
    <3>7. <<"run", f>> \in _check_run_manifest(tree, run)
      BY <2>1, <3>3, <3>5, <3>6 DEF _check_run_manifest, spec
    <3> QED BY <2>1, <2>3, <3>7, RunReported DEF run
  <2> QED BY <2>4, <2>5
<1> QED BY <1>1, PTL

-----------------------------------------------------------------------------
(* The frozen data *)

\* A record of the provenance as it may be written: of which commits it speaks.
Sealing(p) ==
  /\ \A e \in p.frozen_inputs : e.shipped = e.path /\ e.commit \in Commits
  /\ \E e \in p.frozen_files : TRUE
  /\ \A e \in p.frozen_files :
       e.shipped = "constants.py" /\ e.path = "constants.py" /\ e.commit \in Commits
  /\ p.closure.commit \in Commits
  /\ p.run_commit.commit = "run"

\* What no edit of the author changes about the shape of the repository.
DataShape(r) ==
  /\ DOMAIN r = DOMAIN AsShipped
  /\ r.apparatus = [p \in DOMAIN r.apparatus |-> r.apparatus[p]]
  /\ ".gitkeep" \notin DOMAIN r.raw
  /\ DOMAIN r.recordRows = 1..2
  /\ \A k \in 1..2 : r.recordRows[k].commit \in Commits
  /\ Sealing(r.provenance)

\* What an entry of the record of the provenance holds.
LEMMA InputSays ==
  ASSUME NEW name, NEW commit, NEW blob
  PROVE  /\ InputAt(name, commit, blob).shipped = name
         /\ InputAt(name, commit, blob).path = name
         /\ InputAt(name, commit, blob).commit = commit
         /\ InputAt(name, commit, blob).blob = blob
         /\ InputAt(name, commit, blob).time = CommitTime[commit]
BY DEF InputAt

\* A record that is rewritten to agree with the files keeps its form.
LEMMA RecordsAsWritten ==
  ASSUME NEW files, NEW apparatus, NEW f \in Commits, NEW c \in Commits
  PROVE  Sealing(ProvenanceOf(files, apparatus, f, c))
<1> DEFINE from(name) == IF name = "es3-verdict-forensic.json" THEN "later" ELSE "run"
           inputs == {InputAt(name, from(name), git_blob_sha1(files[name])) : name \in DOMAIN files \ PROSPECTIVE_OUTPUTS}
           ofFreeze == {InputAt("constants.py", f, git_blob_sha1(apparatus["constants.py"]))}
           p == ProvenanceOf(files, apparatus, f, c)
<1>1. p.frozen_inputs = inputs
  BY DEF ProvenanceOf
<1>2. p.frozen_files = ofFreeze
  BY DEF ProvenanceOf
<1>3. p.closure.commit = c
  BY DEF ProvenanceOf
<1>4. p.run_commit.commit = "run"
  BY DEF ProvenanceOf
<1>5. \A e \in inputs : e.shipped = e.path /\ e.commit \in Commits
  BY InputSays DEF Commits
<1>6. \A e \in ofFreeze : e.shipped = "constants.py" /\ e.path = "constants.py" /\ e.commit \in Commits
  BY InputSays
<1>7. \E e \in ofFreeze : TRUE
  OBVIOUS
<1> HIDE DEF p, inputs, ofFreeze
<1> QED BY <1>1, <1>2, <1>3, <1>4, <1>5, <1>6, <1>7 DEF Sealing, p

\* The two rows of the records, as they are written.
LEMMA RowsAsWritten ==
  ASSUME NEW records
  PROVE  /\ DOMAIN RecordRowsOf(records) = 1..2
         /\ \A k \in 1..2 : RecordRowsOf(records)[k].commit \in Commits
<1> DEFINE a == RecordRow("completed/bank_records.jsonl", records["completed/bank_records.jsonl"], "run")
           b == RecordRow("attempts/attempts.jsonl", records["attempts/attempts.jsonl"], "later")
<1>1. a.commit = "run" /\ b.commit = "later"
  BY DEF RecordRow
<1>2. RecordRowsOf(records) = <<a, b>>
  BY DEF RecordRowsOf
<1> HIDE DEF a, b
<1> QED BY <1>1, <1>2 DEF Commits

\* The repository as it was shipped has that form.
LEMMA ShippedShape == DataShape(AsShipped)
<1> DEFINE prov == ProvenanceOf(ShippedRaw, ShippedApparatus, "freeze", "run")
           rows == RecordRowsOf(ShippedRecords)
<1>1. AsShipped.provenance = prov /\ AsShipped.recordRows = rows
      /\ AsShipped.raw = ShippedRaw /\ AsShipped.apparatus = ShippedApparatus
  BY DEF AsShipped
<1>2. Sealing(prov)
  BY RecordsAsWritten DEF Commits
<1>3. ShippedApparatus = [p \in DOMAIN ShippedApparatus |-> ShippedApparatus[p]]
  BY DEF ShippedApparatus, Upstream, Commits
<1>4. ".gitkeep" \notin DOMAIN ShippedRaw
  BY DEF ShippedRaw
<1> HIDE DEF prov, rows
<1> QED BY <1>1, <1>2, <1>3, <1>4, RowsAsWritten DEF DataShape, rows

\* One part of the repository replaced.
LEMMA RawEdit ==
  ASSUME NEW r, DataShape(r), NEW new, ".gitkeep" \notin DOMAIN new
  PROVE  DataShape([r EXCEPT !.raw = new])
<1> DEFINE q == [r EXCEPT !.raw = new]
<1>1. DOMAIN r = DOMAIN AsShipped /\ {"raw", "apparatus", "recordRows", "provenance", "raw"} \subseteq DOMAIN r
  BY DEF DataShape, AsShipped
<1>2. DOMAIN q = DOMAIN r /\ q.raw = new /\ q.apparatus = r.apparatus /\ q.recordRows = r.recordRows /\ q.provenance = r.provenance
  BY <1>1
<1> HIDE DEF q
<1>3. DataShape(q) BY <1>2 DEF DataShape
<1> QED BY <1>3 DEF q

\* A part whose form nothing relies on.
LEMMA FreeEdit ==
  ASSUME NEW r, DataShape(r), NEW part \in {"records", "lock", "rawRows", "section", "cached"}, NEW new
  PROVE  DataShape([r EXCEPT ![part] = new])
<1> DEFINE q == [r EXCEPT ![part] = new]
<1>1. DOMAIN r = DOMAIN AsShipped /\ {"raw", "apparatus", "recordRows", "provenance"} \subseteq DOMAIN r
  BY DEF DataShape, AsShipped
<1>2. DOMAIN q = DOMAIN r /\ q.raw = r.raw /\ q.apparatus = r.apparatus
      /\ q.recordRows = r.recordRows /\ q.provenance = r.provenance
  BY <1>1
<1> HIDE DEF q
<1>3. DataShape(q) BY <1>2 DEF DataShape
<1> QED BY <1>3 DEF q

\* The vendored apparatus replaced.
LEMMA ApparatusEdit ==
  ASSUME NEW r, DataShape(r), NEW new, new = [p \in DOMAIN new |-> new[p]]
  PROVE  DataShape([r EXCEPT !.apparatus = new])
<1> DEFINE q == [r EXCEPT !.apparatus = new]
<1>1. DOMAIN r = DOMAIN AsShipped /\ {"raw", "apparatus", "recordRows", "provenance", "apparatus"} \subseteq DOMAIN r
  BY DEF DataShape, AsShipped
<1>2. DOMAIN q = DOMAIN r /\ q.raw = r.raw /\ q.apparatus = new /\ q.recordRows = r.recordRows /\ q.provenance = r.provenance
  BY <1>1
<1> HIDE DEF q
<1>3. DataShape(q) BY <1>2 DEF DataShape
<1> QED BY <1>3 DEF q

\* The table of the records replaced.
LEMMA RecordRowsEdit ==
  ASSUME NEW r, DataShape(r), NEW new,
         DOMAIN new = 1..2, \A k \in 1..2 : new[k].commit \in Commits
  PROVE  DataShape([r EXCEPT !.recordRows = new])
<1> DEFINE q == [r EXCEPT !.recordRows = new]
<1>1. DOMAIN r = DOMAIN AsShipped /\ {"raw", "apparatus", "recordRows", "provenance", "recordRows"} \subseteq DOMAIN r
  BY DEF DataShape, AsShipped
<1>2. DOMAIN q = DOMAIN r /\ q.raw = r.raw /\ q.apparatus = r.apparatus /\ q.recordRows = new /\ q.provenance = r.provenance
  BY <1>1
<1> HIDE DEF q
<1>3. DataShape(q) BY <1>2 DEF DataShape
<1> QED BY <1>3 DEF q

\* The record of the provenance replaced.
LEMMA ProvenanceEdit ==
  ASSUME NEW r, DataShape(r), NEW new, Sealing(new)
  PROVE  DataShape([r EXCEPT !.provenance = new])
<1> DEFINE q == [r EXCEPT !.provenance = new]
<1>1. DOMAIN r = DOMAIN AsShipped /\ {"raw", "apparatus", "recordRows", "provenance", "provenance"} \subseteq DOMAIN r
  BY DEF DataShape, AsShipped
<1>2. DOMAIN q = DOMAIN r /\ q.raw = r.raw /\ q.apparatus = r.apparatus /\ q.recordRows = r.recordRows /\ q.provenance = new
  BY <1>1
<1> HIDE DEF q
<1>3. DataShape(q) BY <1>2 DEF DataShape
<1> QED BY <1>3 DEF q

\* A file put beside the others, or taken away.
LEMMA BesideAndAway ==
  ASSUME NEW files, NEW name, NEW bytes
  PROVE  /\ DOMAIN With(files, name, bytes) = DOMAIN files \cup {name}
         /\ DOMAIN Less(files, name) = DOMAIN files \ {name}
BY DEF With, Less, Restrict

\* Both are functions on the names they have.
LEMMA AreFunctions ==
  ASSUME NEW files, NEW name, NEW bytes
  PROVE  /\ With(files, name, bytes) = [p \in DOMAIN With(files, name, bytes) |-> With(files, name, bytes)[p]]
         /\ Less(files, name) = [p \in DOMAIN Less(files, name) |-> Less(files, name)[p]]
BY DEF With, Less, Restrict

\* The raw data with a file put beside, or without one.
LEMMA RawFile ==
  ASSUME NEW r, DataShape(r), NEW name, name # ".gitkeep", NEW bytes
  PROVE  /\ DataShape([r EXCEPT !.raw = With(r.raw, name, bytes)])
         /\ DataShape([r EXCEPT !.raw = Less(r.raw, name)])
<1>1. ".gitkeep" \notin DOMAIN r.raw BY DEF DataShape
<1>2. DOMAIN With(r.raw, name, bytes) = DOMAIN r.raw \cup {name} BY BesideAndAway
<1>3. DOMAIN Less(r.raw, name) = DOMAIN r.raw \ {name} BY BesideAndAway
<1> QED BY <1>1, <1>2, <1>3, RawEdit

\* No edit of a file changes the form.
LEMMA FileEditsKeep ==
  ASSUME NEW r, DataShape(r), NEW q \in FileEdits(r)
  PROVE  DataShape(q)
<1>1. ASSUME NEW name, NEW bytes, name # ".gitkeep"
      PROVE  DataShape([r EXCEPT !.raw = With(r.raw, name, bytes)])
  BY <1>1, RawFile
<1>2. ASSUME NEW name, NEW bytes
      PROVE  DataShape([r EXCEPT !.records = With(r.records, name, bytes)])
  BY FreeEdit
<1>3. ASSUME NEW name, NEW bytes
      PROVE  DataShape([r EXCEPT !.apparatus = With(r.apparatus, name, bytes)])
  <2> DEFINE new == With(r.apparatus, name, bytes)
  <2>1. new = [p \in DOMAIN new |-> new[p]] BY AreFunctions
  <2> HIDE DEF new
  <2>2. DataShape([r EXCEPT !.apparatus = new]) BY <2>1, ApparatusEdit
  <2> QED BY <2>2 DEF new
<1>4. DataShape([r EXCEPT !.apparatus = Less(r.apparatus, "loop.py")])
  <2> DEFINE new == Less(r.apparatus, "loop.py")
  <2>1. new = [p \in DOMAIN new |-> new[p]] BY AreFunctions
  <2> HIDE DEF new
  <2>2. DataShape([r EXCEPT !.apparatus = new]) BY <2>1, ApparatusEdit
  <2> QED BY <2>2 DEF new
<1>5. DataShape([r EXCEPT !.raw = Less(r.raw, "es3-verdict-forensic.json")])
  BY RawFile
<1>6. DataShape([r EXCEPT !.lock.version = "newer"])
  BY FreeEdit
<1> DEFINE Raw(name, bytes) == [r EXCEPT !.raw = With(r.raw, name, bytes)]
           Record(name, bytes) == [r EXCEPT !.records = With(r.records, name, bytes)]
           Vendored(name, bytes) == [r EXCEPT !.apparatus = With(r.apparatus, name, bytes)]
           annotation == {Raw("bank_annotation.jsonl", Annotation(v)) : v \in {"as run", "other"}}
           verdict == {Raw("cproper-verdict.json", VerdictFile(v, 100)) : v \in {"as run", "other"}}
           bank == {Record("completed/bank_records.jsonl", BankRecords(v)) : v \in {"as run", "other"}}
           attempts == {Record("attempts/attempts.jsonl", Attempts("other"))}
           constants == {Vendored("constants.py", c) :
                           c \in {Constants("frozen", 100), Constants("reworded", 100), Constants("moved", 150)}}
           others == {Vendored("added.py", Loop("frozen")),
                      [r EXCEPT !.apparatus = Less(r.apparatus, "loop.py")],
                      [r EXCEPT !.raw = Less(r.raw, "es3-verdict-forensic.json")],
                      Raw("stray.json", Forensic), [r EXCEPT !.lock.version = "newer"]}
           landed == {Raw("control-verdict.json", b) : b \in {FixtureBytes("a"), r.raw["cproper-verdict.json"]}}
<1>7. FileEdits(r) = annotation \cup verdict \cup bank \cup attempts \cup constants \cup others \cup landed
  BY DEF FileEdits
<1>8. /\ \A x \in annotation : DataShape(x)
      /\ \A x \in verdict : DataShape(x)
      /\ \A x \in landed : DataShape(x)
  <2>1. \A name, bytes : name # ".gitkeep" => DataShape(Raw(name, bytes)) BY <1>1
  <2> HIDE DEF Raw
  <2> QED BY <2>1
<1>9. (\A x \in bank : DataShape(x)) /\ (\A x \in attempts : DataShape(x))
  <2>1. \A name, bytes : DataShape(Record(name, bytes)) BY <1>2
  <2> HIDE DEF Record
  <2> QED BY <2>1
<1>10. \A x \in constants : DataShape(x)
  <2>1. \A name, bytes : DataShape(Vendored(name, bytes)) BY <1>3
  <2> HIDE DEF Vendored
  <2> QED BY <2>1
<1>11. \A x \in others : DataShape(x)
  BY <1>1, <1>3, <1>4, <1>5, <1>6
<1> HIDE DEF annotation, verdict, bank, attempts, constants, others, landed
<1> QED BY <1>7, <1>8, <1>9, <1>10, <1>11

\* No edit of a table, the section or the pins does.
LEMMA TableEditsKeep ==
  ASSUME NEW r, DataShape(r), NEW q \in TableEdits(r)
  PROVE  DataShape(q)
<1>1. ASSUME NEW rows PROVE DataShape([r EXCEPT !.rawRows = rows])
  BY FreeEdit
<1>2. DataShape([r EXCEPT !.rawRows[4] = r.rawRows[1]])
  BY FreeEdit
<1>3. DataShape([r EXCEPT !.recordRows = RecordRowsOf(r.records)])
  BY RowsAsWritten, RecordRowsEdit
<1>4. DataShape([r EXCEPT !.section = r.section \cup {"stray.json"}])
  BY FreeEdit
<1>5. ASSUME NEW bytes PROVE DataShape([r EXCEPT !.raw = With(r.raw, "cproper-manifest.json", bytes)])
  BY RawFile
<1> DEFINE rows == [k \in DOMAIN r.rawRows |->
              IF r.rawRows[k].name \in DOMAIN r.raw
              THEN RawRow(r.rawRows[k].name, r.raw[r.rawRows[k].name]) ELSE r.rawRows[k]]
           manifest == Manifest(r.raw["bank_annotation.jsonl"],
                                r.records["completed/bank_records.jsonl"], r.lock)
           a == [r EXCEPT !.rawRows = rows]
           b == [r EXCEPT !.rawRows[4] = r.rawRows[1]]
           c == [r EXCEPT !.recordRows = RecordRowsOf(r.records)]
           d == [r EXCEPT !.section = r.section \cup {"stray.json"}]
           e == [r EXCEPT !.raw = With(r.raw, "cproper-manifest.json", manifest)]
<1>6. TableEdits(r) = {a, b, c, d, e}
  BY DEF TableEdits
<1>7. DataShape(a) /\ DataShape(b) /\ DataShape(c) /\ DataShape(d) /\ DataShape(e)
  BY <1>1, <1>2, <1>3, <1>4, <1>5
<1> HIDE DEF a, b, c, d, e
<1> QED BY <1>6, <1>7

\* Nor does a record rewritten from any of the commits.
LEMMA ProvenanceEditsKeep ==
  ASSUME NEW r, DataShape(r), NEW q \in ProvenanceEdits(r)
  PROVE  DataShape(q)
<1>1. PICK f \in Commits, c \in {"side", "run", "later"} :
        q = [r EXCEPT !.provenance = ProvenanceOf(r.raw, r.apparatus, f, c)]
  BY DEF ProvenanceEdits
<1> QED BY <1>1, RecordsAsWritten, ProvenanceEdit DEF Commits

\* The invariant of the data.
RepoShape == DataShape(repo)

\* Whatever the author edits and whatever is imported.
LEMMA ShapeStays == DataSpec => []RepoShape
<1> USE DEF RepoShape
<1>1. DataInit => RepoShape
  BY ShippedShape DEF DataInit
<1>2. RepoShape /\ [DataNext]_dataVars => RepoShape'
  <2> SUFFICES ASSUME RepoShape, [DataNext]_dataVars PROVE RepoShape'
    OBVIOUS
  <2>1. CASE GuardCase BY <2>1 DEF GuardCase
  <2>2. CASE Edit
    BY <2>2, FileEditsKeep, TableEditsKeep, ProvenanceEditsKeep DEF Edit
  <2>3. CASE Import BY <2>3, FreeEdit DEF Import
  <2>4. CASE UNCHANGED dataVars BY <2>4 DEF dataVars
  <2> QED BY <2>1, <2>2, <2>3, <2>4 DEF DataNext
<1> QED BY <1>1, <1>2, PTL DEF DataSpec

\* What verify_data_hashes.py and verify_threshold_freeze.py found nothing to
\* say about.
LEMMA QuietData ==
  ASSUME NEW r, NEW clone, verify_data_hashes(r, clone) = {}
  PROVE  /\ check_raw_files(r, r.rawRows) = {}
         /\ check_no_unrecorded_files(r, r.rawRows, PROSPECTIVE_OUTPUTS) = {}
         /\ check_prospective_outputs(r, r.rawRows, PROSPECTIVE_OUTPUTS) = {}
         /\ check_upstream_pins(r, r.rawRows) = {}
         /\ check_frozen_input_provenance(r, clone, PROSPECTIVE_OUTPUTS) = {}
         /\ check_record_files(r, r.recordRows) = {}
         /\ check_no_unrecorded_records(r, r.recordRows) = {}
         /\ check_records_pin(r, r.recordRows) = {}
         /\ check_records_upstream(r, r.recordRows, clone) = {}
<1>1. ~(Len(r.rawRows) # EXPECTED_RAW_ROWS) /\ ~("cproper-manifest.json" \notin DOMAIN r.raw)
  BY DEF verify_data_hashes
<1> QED BY <1>1 DEF verify_data_hashes

\* The same of verify_threshold_freeze.py.
LEMMA QuietFreeze ==
  ASSUME NEW r, NEW clone, verify_threshold_freeze(r, clone) = {}
  PROVE  /\ check_blob_identity(r) = {}
         /\ check_apparatus_closure(r, clone) = {}
         /\ check_upstream(r, clone) = {}
BY DEF verify_threshold_freeze

\* No two bytes have one digest.
LEMMA BlobsAreBytes ==
  ASSUME NEW a, NEW b
  PROVE  /\ git_blob_sha1(a) = git_blob_sha1(b) => a = b
         /\ sha256(a) = sha256(b) => a = b
BY DEF git_blob_sha1, sha256

\* What a clone confirms of a blob, upstream held.
LEMMA UpstreamHeldIt ==
  ASSUME NEW commit \in Commits, NEW path, NEW bytes,
         check_upstream_blob({"clone"}, commit, path, git_blob_sha1(bytes)) = {}
  PROVE  path \in DOMAIN Upstream[commit] /\ bytes = Upstream[commit][path]
BY BlobsAreBytes DEF check_upstream_blob

\* A raw input that passes beside a clone, upstream held.
LEMMA RawHeld ==
  ASSUME NEW r, DataShape(r), check_frozen_input_provenance(r, {"clone"}, PROSPECTIVE_OUTPUTS) = {},
         NEW name \in DOMAIN r.raw \ PROSPECTIVE_OUTPUTS
  PROVE  \E c \in Commits : r.raw[name] \in Range(Upstream[c])
<1> DEFINE inputs == r.provenance.frozen_inputs
           Said(e) == IF git_blob_sha1(r.raw[e.shipped]) # e.blob THEN {<<e.shipped, "blob">>}
                      ELSE check_upstream_blob({"clone"}, e.commit, e.path, e.blob)
                             \cup check_upstream_commit_time({"clone"}, e.commit, e.time)
           All(e) == CASE e.shipped \notin DOMAIN r.raw -> {<<e.shipped, "missing">>} [] OTHER -> Said(e)
           shipped == DOMAIN r.raw \ (RAW_DIR_ALLOWLIST \cup PROSPECTIVE_OUTPUTS)
           orphans == {<<n, "no provenance">> : n \in shipped \ {e.shipped : e \in inputs}}
<1>1. check_frozen_input_provenance(r, {"clone"}, PROSPECTIVE_OUTPUTS)
        = (UNION {All(e) : e \in inputs}) \cup orphans
  BY DEF check_frozen_input_provenance
<1>2. name \in shipped
  BY DEF DataShape, RAW_DIR_ALLOWLIST
<1>3. name \in {e.shipped : e \in inputs}
  <2>1. orphans = {}
    <3> HIDE DEF orphans
    <3> QED BY <1>1
  <2> QED BY <1>2, <2>1
<1>4. PICK e \in inputs : e.shipped = name
  BY <1>3
<1>5. All(e) = {}
  <2> HIDE DEF All, orphans
  <2> QED BY <1>1, <1>4
<1>6. Said(e) = {}
  <2> HIDE DEF Said
  <2> QED BY <1>4, <1>5
<1>7. git_blob_sha1(r.raw[name]) = e.blob /\ check_upstream_blob({"clone"}, e.commit, e.path, e.blob) = {}
  BY <1>4, <1>6
<1>8. e.path = name /\ e.commit \in Commits
  BY <1>4 DEF DataShape, Sealing
<1> QED BY <1>7, <1>8, UpstreamHeldIt DEF Range

\* A row of a table that was compared with the files says what they are.
LEMMA RowAgrees ==
  ASSUME NEW rows, NEW files, Against(rows, files) = {}, NEW row \in Range(rows)
  PROVE  row.name \in DOMAIN files /\ sha256(files[row.name]) = row.sha256
<1> DEFINE Said(x) == IF x.name \notin DOMAIN files THEN {<<x.name, "missing">>}
           ELSE (IF files[x.name].size # x.size THEN {<<x.name, "size">>} ELSE {})
                  \cup (IF sha256(files[x.name]) # x.sha256 THEN {<<x.name, "SHA-256">>} ELSE {})
<1>1. Against(rows, files) = UNION {Said(x) : x \in Range(rows)}
  BY DEF Against
<1>2. Said(row) = {}
  <2> HIDE DEF Said
  <2> QED BY <1>1
<1> QED BY <1>2

\* A record that passes beside a clone, upstream held.
LEMMA RecordHeld ==
  ASSUME NEW r, DataShape(r), check_no_unrecorded_records(r, r.recordRows) = {},
         check_records_upstream(r, r.recordRows, {"clone"}) = {},
         NEW name \in DOMAIN r.records
  PROVE  \E c \in Commits : r.records[name] \in Range(Upstream[c])
<1> DEFINE rows == r.recordRows
           Said(row) == check_upstream_blob({"clone"}, row.commit, row.origin,
                                            git_blob_sha1(r.records[row.name]))
           recorded == {row \in Range(rows) : row.name \in DOMAIN r.records}
           orphans == {<<n, "unrecorded">> : n \in DOMAIN r.records \ NamesOf(rows)}
<1>1. check_records_upstream(r, rows, {"clone"}) = UNION {Said(row) : row \in recorded}
  BY DEF check_records_upstream
<1>2. name \in NamesOf(rows)
  <2>1. orphans = {} BY DEF check_no_unrecorded_records
  <2> QED BY <2>1
<1>3. PICK row \in Range(rows) : row.name = name
  BY <1>2 DEF NamesOf
<1>4. Said(row) = {}
  <2>1. row \in recorded BY <1>3
  <2> HIDE DEF Said, recorded
  <2> QED BY <1>1, <2>1
<1>5. row.commit \in Commits
  BY <1>3 DEF DataShape, Range
<1> QED BY <1>3, <1>4, <1>5, UpstreamHeldIt DEF Range

\* The vendored apparatus is what its record says, file by file.
LEMMA ClosureHolds ==
  ASSUME NEW r, NEW clone, check_apparatus_closure(r, clone) = {}
  PROVE  /\ \A e \in r.provenance.closure.files :
              /\ e.path \in DOMAIN r.apparatus /\ git_blob_sha1(r.apparatus[e.path]) = e.blob
              /\ check_upstream_blob(clone, r.provenance.closure.commit, e.path, e.blob) = {}
         /\ DOMAIN r.apparatus \subseteq {e.path : e \in r.provenance.closure.files}
<1> DEFINE closure == r.provenance.closure
           wrong == {e \in closure.files : e.path \notin DOMAIN r.apparatus
                                           \/ git_blob_sha1(r.apparatus[e.path]) # e.blob}
           counted == IF Cardinality(closure.files) # closure.count THEN {<<"closure", "count">>} ELSE {}
           bent == {<<e.path, "blob">> : e \in wrong}
           Said(e) == check_upstream_blob(clone, closure.commit, e.path, e.blob)
           unheld == UNION {Said(e) : e \in closure.files \ wrong}
           orphans == {<<path, "no provenance">> :
                         path \in DOMAIN r.apparatus \ {e.path : e \in closure.files}}
<1>1. check_apparatus_closure(r, clone) = ((counted \cup bent) \cup unheld) \cup orphans
  BY DEF check_apparatus_closure
<1>2. bent = {} /\ unheld = {} /\ orphans = {}
  <2> HIDE DEF counted, bent, unheld, orphans
  <2> QED BY <1>1
<1>3. wrong = {}
  BY <1>2
<1>4. \A e \in closure.files : Said(e) = {}
  <2> HIDE DEF Said, wrong
  <2> QED BY <1>2, <1>3
<1>5. DOMAIN r.apparatus \subseteq {e.path : e \in closure.files}
  BY <1>2
<1> QED BY <1>3, <1>4, <1>5

\* So it did every vendored file.
LEMMA VendoredHeld ==
  ASSUME NEW r, DataShape(r), check_apparatus_closure(r, {"clone"}) = {},
         NEW name \in DOMAIN r.apparatus
  PROVE  \E c \in Commits : r.apparatus[name] \in Range(Upstream[c])
<1>1. PICK e \in r.provenance.closure.files :
        /\ e.path = name /\ git_blob_sha1(r.apparatus[name]) = e.blob
        /\ check_upstream_blob({"clone"}, r.provenance.closure.commit, e.path, e.blob) = {}
  BY ClosureHolds
<1>2. r.provenance.closure.commit \in Commits
  BY DEF DataShape, Sealing
<1> QED BY <1>1, <1>2, UpstreamHeldIt DEF Range

\* The frozen thresholds are those of a commit that the run descends from.
LEMMA FreezeHeld ==
  ASSUME NEW r, DataShape(r), check_blob_identity(r) = {}, check_upstream(r, {"clone"}) = {}
  PROVE  r.apparatus["constants.py"] \in {Upstream[c]["constants.py"] : c \in Ancestors["run"]}
<1> DEFINE files == r.provenance.frozen_files
           run == r.provenance.run_commit
           Said(e) == check_upstream_blob({"clone"}, e.commit, e.path, e.blob)
                        \cup check_upstream_commit_time({"clone"}, e.commit, e.time)
                        \cup (IF {"clone"} = {} \/ e.commit \in Ancestors[run.commit] THEN {}
                              ELSE {<<e.commit, "not an ancestor">>})
           wrong == {f \in files : f.shipped \notin DOMAIN r.apparatus
                                   \/ git_blob_sha1(r.apparatus[f.shipped]) # f.blob}
<1>1. check_upstream(r, {"clone"}) = check_upstream_commit_time({"clone"}, run.commit, run.time)
                                       \cup UNION {Said(e) : e \in files}
  BY DEF check_upstream
<1>2. PICK e \in files : TRUE
  BY DEF DataShape, Sealing
<1>3. e.shipped = "constants.py" /\ e.path = "constants.py" /\ e.commit \in Commits
      /\ run.commit = "run"
  BY DEF DataShape, Sealing
<1>4. Said(e) = {}
  <2> HIDE DEF Said
  <2> QED BY <1>1
<1>5. check_upstream_blob({"clone"}, e.commit, e.path, e.blob) = {} /\ e.commit \in Ancestors["run"]
  BY <1>3, <1>4
<1>6. git_blob_sha1(r.apparatus["constants.py"]) = e.blob
  <2>1. wrong = {} BY DEF check_blob_identity
  <2> QED BY <1>3, <2>1
<1> QED BY <1>3, <1>5, <1>6, UpstreamHeldIt

\* With a clone of upstream at hand: however often the author edited the files,
\* the tables and the record of the provenance.
THEOREM UpstreamConfirms == DataSpec => []UpstreamHeldTheBytes
<1>1. RepoShape => UpstreamHeldTheBytes
  <2> SUFFICES ASSUME DataShape(repo), dataProblems({"clone"}) = {}
               PROVE  /\ repo.apparatus["constants.py"] \in
                           {Upstream[c]["constants.py"] : c \in Ancestors["run"]}
                      /\ \A bytes \in Range(Restrict(repo.raw, DOMAIN repo.raw \ PROSPECTIVE_OUTPUTS))
                                        \cup Range(repo.records) \cup Range(repo.apparatus) :
                           \E c \in Commits : bytes \in Range(Upstream[c])
    BY DEF RepoShape, UpstreamHeldTheBytes
  <2>1. verify_data_hashes(repo, {"clone"}) = {} /\ verify_threshold_freeze(repo, {"clone"}) = {}
    BY DEF dataProblems
  <2>2. repo.apparatus["constants.py"] \in {Upstream[c]["constants.py"] : c \in Ancestors["run"]}
    BY <2>1, QuietFreeze, FreezeHeld
  <2>3. \A name \in DOMAIN repo.raw \ PROSPECTIVE_OUTPUTS :
          \E c \in Commits : repo.raw[name] \in Range(Upstream[c])
    BY <2>1, QuietData, RawHeld
  <2>4. \A name \in DOMAIN repo.records : \E c \in Commits : repo.records[name] \in Range(Upstream[c])
    BY <2>1, QuietData, RecordHeld
  <2>5. \A name \in DOMAIN repo.apparatus : \E c \in Commits : repo.apparatus[name] \in Range(Upstream[c])
    BY <2>1, QuietFreeze, VendoredHeld
  <2>6. Range(Restrict(repo.raw, DOMAIN repo.raw \ PROSPECTIVE_OUTPUTS))
          = {repo.raw[name] : name \in DOMAIN repo.raw \ PROSPECTIVE_OUTPUTS}
    BY DEF Range, Restrict
  <2>7. Range(repo.records) = {repo.records[name] : name \in DOMAIN repo.records}
        /\ Range(repo.apparatus) = {repo.apparatus[name] : name \in DOMAIN repo.apparatus}
    BY DEF Range
  <2> DEFINE upheld(bytes) == \E c \in Commits : bytes \in Range(Upstream[c])
  <2>8. /\ \A name \in DOMAIN repo.raw \ PROSPECTIVE_OUTPUTS : upheld(repo.raw[name])
        /\ \A name \in DOMAIN repo.records : upheld(repo.records[name])
        /\ \A name \in DOMAIN repo.apparatus : upheld(repo.apparatus[name])
    BY <2>3, <2>4, <2>5
  <2>9. \A bytes \in Range(Restrict(repo.raw, DOMAIN repo.raw \ PROSPECTIVE_OUTPUTS))
                       \cup Range(repo.records) \cup Range(repo.apparatus) : upheld(bytes)
    <3> HIDE DEF upheld
    <3> QED BY <2>6, <2>7, <2>8
  <2> QED BY <2>2, <2>9
<1> QED BY <1>1, ShapeStays, PTL

-----------------------------------------------------------------------------
\* The frozen inputs of data/raw/.
Shipped == {"bank_annotation.jsonl", "cproper-manifest.json", "cproper-verdict.json",
            "es3-verdict-forensic.json"}

\* The parts of the repository as it was shipped.
LEMMA AsShippedSays ==
  /\ AsShipped.raw = ShippedRaw /\ AsShipped.records = ShippedRecords /\ AsShipped.lock = Lock
  /\ AsShipped.apparatus = ShippedApparatus
  /\ AsShipped.rawRows = RawRowsOf(ShippedRaw) /\ AsShipped.recordRows = RecordRowsOf(ShippedRecords)
  /\ AsShipped.section = PROSPECTIVE_OUTPUTS
  /\ AsShipped.provenance = ProvenanceOf(ShippedRaw, ShippedApparatus, "freeze", "run")
BY DEF AsShipped

\* Its files.
LEMMA ShippedFiles ==
  /\ DOMAIN ShippedRaw = Shipped /\ Shipped \cap PROSPECTIVE_OUTPUTS = {}
  /\ ShippedRaw["bank_annotation.jsonl"] = Annotation("as run")
  /\ ShippedRaw["cproper-manifest.json"] = RunManifest
  /\ ShippedRaw["cproper-verdict.json"] = VerdictFile("as run", 100)
  /\ ShippedRaw["es3-verdict-forensic.json"] = Forensic
  /\ DOMAIN ShippedRecords = EXPECTED_RECORD_NAMES
  /\ ShippedRecords["completed/bank_records.jsonl"] = BankRecords("as run")
  /\ ShippedRecords["attempts/attempts.jsonl"] = Attempts("shipped")
  /\ DOMAIN ShippedApparatus = {"constants.py", "loop.py"}
  /\ ShippedApparatus["constants.py"] = Constants("frozen", 100)
  /\ ShippedApparatus["loop.py"] = Loop("frozen")
  /\ ShippedApparatus = [p \in DOMAIN ShippedApparatus |-> ShippedApparatus[p]]
<1>1. DOMAIN ShippedRaw = Shipped /\ Shipped \cap PROSPECTIVE_OUTPUTS = {}
  BY DEF ShippedRaw, Shipped, PROSPECTIVE_OUTPUTS
<1>2. \A name \in Shipped : ShippedRaw[name] = FileAt(name, "later")
  BY DEF ShippedRaw, Shipped, Upstream, Commits, PathsAt
<1>3. /\ FileAt("bank_annotation.jsonl", "later") = Annotation("as run")
      /\ FileAt("cproper-manifest.json", "later") = RunManifest
      /\ FileAt("cproper-verdict.json", "later") = VerdictFile("as run", 100)
      /\ FileAt("es3-verdict-forensic.json", "later") = Forensic
      /\ FileAt("constants.py", "freeze") = Constants("frozen", 100)
      /\ FileAt("loop.py", "freeze") = Loop("frozen")
  BY DEF FileAt
<1>4. /\ DOMAIN ShippedRecords = EXPECTED_RECORD_NAMES
      /\ ShippedRecords["completed/bank_records.jsonl"] = BankRecords("as run")
      /\ ShippedRecords["attempts/attempts.jsonl"] = Attempts("shipped")
  BY DEF ShippedRecords, EXPECTED_RECORD_NAMES
<1>5. ShippedApparatus = [p \in {"constants.py", "loop.py"} |-> FileAt(p, "freeze")]
  BY DEF ShippedApparatus, Upstream, Commits, PathsAt
<1> QED BY <1>1, <1>2, <1>3, <1>4, <1>5 DEF Shipped

\* Its record of the provenance: the inputs, the closure, the freeze, the run.
LEMMA ShippedRecord ==
  LET p == AsShipped.provenance IN
  /\ \A name \in Shipped : \E e \in p.frozen_inputs :
       e.shipped = name /\ e.blob = git_blob_sha1(ShippedRaw[name])
  /\ \A e \in p.frozen_inputs : e.shipped \in Shipped /\ e.blob = git_blob_sha1(ShippedRaw[e.shipped])
  /\ p.closure.files = {[path |-> n, blob |-> git_blob_sha1(ShippedApparatus[n])] :
                          n \in DOMAIN ShippedApparatus}
  /\ p.closure.count = Cardinality(DOMAIN ShippedApparatus)
  /\ p.frozen_files = {InputAt("constants.py", "freeze", git_blob_sha1(ShippedApparatus["constants.py"]))}
  /\ p.run_commit.time = 3
  /\ p.threshold_map = [delta_tv_min |-> "DELTA"] /\ p.run_parameter_map = [seed |-> "seed"]
<1> DEFINE from(name) == IF name = "es3-verdict-forensic.json" THEN "later" ELSE "run"
           In(name) == InputAt(name, from(name), git_blob_sha1(ShippedRaw[name]))
           p == ProvenanceOf(ShippedRaw, ShippedApparatus, "freeze", "run")
<1>1. p.frozen_inputs = {In(name) : name \in Shipped}
  <2>1. DOMAIN ShippedRaw \ PROSPECTIVE_OUTPUTS = Shipped BY ShippedFiles
  <2> QED BY <2>1 DEF ProvenanceOf
<1>2. \A name : In(name).shipped = name /\ In(name).blob = git_blob_sha1(ShippedRaw[name])
  BY DEF InputAt
<1>3. /\ p.closure.files = {[path |-> n, blob |-> git_blob_sha1(ShippedApparatus[n])] :
                              n \in DOMAIN ShippedApparatus}
      /\ p.closure.count = Cardinality(DOMAIN ShippedApparatus)
  BY DEF ProvenanceOf
<1>4. p.frozen_files = {InputAt("constants.py", "freeze", git_blob_sha1(ShippedApparatus["constants.py"]))}
  BY DEF ProvenanceOf
<1>5. p.run_commit.time = 3
  BY DEF ProvenanceOf, CommitTime
<1>6. p.threshold_map = [delta_tv_min |-> "DELTA"] /\ p.run_parameter_map = [seed |-> "seed"]
  BY DEF ProvenanceOf
<1> HIDE DEF In, p
<1> QED BY <1>1, <1>2, <1>3, <1>4, <1>5, <1>6, AsShippedSays DEF p

\* What check_frozen_input_provenance compared: each shipped input has its blob
\* in the record, and each one in the record is there.
LEMMA InputsHold ==
  ASSUME NEW r, NEW clone, check_frozen_input_provenance(r, clone, PROSPECTIVE_OUTPUTS) = {}
  PROVE  /\ \A e \in r.provenance.frozen_inputs :
              e.shipped \in DOMAIN r.raw /\ git_blob_sha1(r.raw[e.shipped]) = e.blob
         /\ DOMAIN r.raw \ (RAW_DIR_ALLOWLIST \cup PROSPECTIVE_OUTPUTS)
              \subseteq {e.shipped : e \in r.provenance.frozen_inputs}
<1> DEFINE inputs == r.provenance.frozen_inputs
           Said(e) == IF git_blob_sha1(r.raw[e.shipped]) # e.blob THEN {<<e.shipped, "blob">>}
                      ELSE check_upstream_blob(clone, e.commit, e.path, e.blob)
                             \cup check_upstream_commit_time(clone, e.commit, e.time)
           All(e) == CASE e.shipped \notin DOMAIN r.raw -> {<<e.shipped, "missing">>} [] OTHER -> Said(e)
           shipped == DOMAIN r.raw \ (RAW_DIR_ALLOWLIST \cup PROSPECTIVE_OUTPUTS)
           orphans == {<<n, "no provenance">> : n \in shipped \ {e.shipped : e \in inputs}}
<1>1. check_frozen_input_provenance(r, clone, PROSPECTIVE_OUTPUTS)
        = (UNION {All(e) : e \in inputs}) \cup orphans
  BY DEF check_frozen_input_provenance
<1>2. orphans = {} /\ \A e \in inputs : All(e) = {}
  <2> HIDE DEF All, orphans
  <2> QED BY <1>1
<1>3. shipped \subseteq {e.shipped : e \in inputs}
  BY <1>2
<1>4. ASSUME NEW e \in inputs
      PROVE  e.shipped \in DOMAIN r.raw /\ git_blob_sha1(r.raw[e.shipped]) = e.blob
  <2>1. e.shipped \in DOMAIN r.raw /\ Said(e) = {}
    <3> HIDE DEF Said
    <3> QED BY <1>2
  <2> QED BY <2>1
<1> QED BY <1>3, <1>4

\* The raw inputs that pass are the registered ones.
LEMMA RawIsRegistered ==
  ASSUME NEW r, DataShape(r), r.provenance = AsShipped.provenance,
         check_frozen_input_provenance(r, {}, PROSPECTIVE_OUTPUTS) = {}
  PROVE  /\ DOMAIN r.raw \ PROSPECTIVE_OUTPUTS = Shipped
         /\ \A name \in Shipped : name \in DOMAIN r.raw /\ r.raw[name] = ShippedRaw[name]
<1>1. ASSUME NEW name \in Shipped PROVE name \in DOMAIN r.raw /\ r.raw[name] = ShippedRaw[name]
  BY ShippedRecord, InputsHold, BlobsAreBytes
<1>2. ASSUME NEW name \in DOMAIN r.raw \ PROSPECTIVE_OUTPUTS PROVE name \in Shipped
  <2>1. name \notin RAW_DIR_ALLOWLIST BY DEF DataShape, RAW_DIR_ALLOWLIST
  <2>2. name \in {e.shipped : e \in r.provenance.frozen_inputs} BY <2>1, InputsHold
  <2> QED BY <2>2, ShippedRecord
<1> QED BY <1>1, <1>2, ShippedFiles

\* A verdict that was landed is no copy of an input.
LEMMA LandedIsNoCopy ==
  ASSUME NEW r, DataShape(r), r.provenance = AsShipped.provenance,
         check_frozen_input_provenance(r, {}, PROSPECTIVE_OUTPUTS) = {},
         check_raw_files(r, r.rawRows) = {},
         check_no_unrecorded_files(r, r.rawRows, PROSPECTIVE_OUTPUTS) = {},
         check_prospective_outputs(r, r.rawRows, PROSPECTIVE_OUTPUTS) = {},
         NEW n \in DOMAIN r.raw \cap PROSPECTIVE_OUTPUTS, NEW m \in Shipped
  PROVE  r.raw[n] # ShippedRaw[m]
<1>1. m \in DOMAIN r.raw /\ r.raw[m] = ShippedRaw[m]
  BY RawIsRegistered
<1>2. m \in NamesOf(r.rawRows)
  <2> DEFINE orphans == DOMAIN r.raw \ (NamesOf(r.rawRows) \cup RAW_DIR_ALLOWLIST \cup PROSPECTIVE_OUTPUTS)
  <2>1. orphans = {} BY DEF check_no_unrecorded_files
  <2>2. m \notin RAW_DIR_ALLOWLIST \cup PROSPECTIVE_OUTPUTS BY ShippedFiles DEF RAW_DIR_ALLOWLIST, Shipped
  <2> QED BY <1>1, <2>1, <2>2
<1>3. PICK row \in Range(r.rawRows) : row.name = m
  BY <1>2 DEF NamesOf
<1>4. row.sha256 = sha256(ShippedRaw[m])
  BY <1>1, <1>3, RowAgrees DEF check_raw_files
<1>5. sha256(r.raw[n]) \notin {x.sha256 : x \in Range(r.rawRows)}
  BY DEF check_prospective_outputs
<1> QED BY <1>3, <1>4, <1>5

\* The largest of a set of the two places of a table.
LEMMA PlaceIsThere ==
  ASSUME NEW S \in SUBSET (1..4), S # {}
  PROVE  Max(S) \in S
<1>1. \A x \in S : x \in Int /\ 1 <= x /\ x <= 4
  OBVIOUS
<1>2. \E x \in S : \A y \in S : x >= y
  <2>1. CASE 4 \in S BY <1>1, <2>1
  <2>2. CASE 4 \notin S /\ 3 \in S
    <3>1. \A y \in S : 3 >= y BY <1>1, <2>2
    <3> QED BY <2>2, <3>1
  <2>3. CASE 4 \notin S /\ 3 \notin S /\ 2 \in S
    <3>1. \A y \in S : 2 >= y BY <1>1, <2>3
    <3> QED BY <2>3, <3>1
  <2>4. CASE 4 \notin S /\ 3 \notin S /\ 2 \notin S
    <3>1. \A x \in S : x = 1 BY <1>1, <2>4
    <3>2. S = {1} BY <3>1
    <3> QED BY <3>2
  <2> QED BY <2>1, <2>2, <2>3, <2>4
<1> QED BY <1>2, Zenon DEF Max

\* What the run's manifest pins and records.
LEMMA ManifestSays ==
  /\ RunManifest.says.pins.annotation = sha256(Annotation("as run"))
  /\ RunManifest.says.pins.records = sha256(BankRecords("as run"))
  /\ RunManifest.says.pins.lock = sha256(Lock)
  /\ RunManifest.says.run = [seed |-> 7]
<1> DEFINE pins == [annotation |-> sha256(Annotation("as run")),
                    records |-> sha256(BankRecords("as run")), lock |-> sha256(Lock)]
           says == [pins |-> pins, run |-> [seed |-> 7]]
<1>1. RunManifest = [file |-> "cproper-manifest.json", version |-> "", size |-> 95, form |-> "object", says |-> says]
  BY DEF RunManifest, Manifest, Bytes
<1>2. RunManifest.says = says
  <2> HIDE DEF says
  <2> QED BY <1>1
<1>3. says.pins = pins /\ says.run = [seed |-> 7]
  <2> HIDE DEF pins
  <2> QED OBVIOUS
<1>4. /\ pins.annotation = sha256(Annotation("as run")) /\ pins.records = sha256(BankRecords("as run"))
      /\ pins.lock = sha256(Lock)
  OBVIOUS
<1> HIDE DEF pins, says
<1> QED BY <1>2, <1>3, <1>4

\* The completed run's record, by the pin of its manifest.
LEMMA RecordIsPinned ==
  ASSUME NEW r, DataShape(r), r.raw["cproper-manifest.json"] = RunManifest,
         check_record_files(r, r.recordRows) = {}, check_records_pin(r, r.recordRows) = {}
  PROVE  r.records["completed/bank_records.jsonl"] = BankRecords("as run")
<1> DEFINE name == "completed/bank_records.jsonl"
           rows == r.recordRows
           places == {i \in DOMAIN rows : rows[i].name = name}
           row == RowOf(rows, name)
<1>1. name \in NamesOf(rows) /\ row.sha256 = r.raw["cproper-manifest.json"].says.pins.records
  <2> DEFINE unpinned == row.sha256 # r.raw["cproper-manifest.json"].says.pins.records
  <2>1. check_records_pin(r, rows) = IF name \notin NamesOf(rows) THEN {<<"data.md", "no records row">>}
                                     ELSE IF unpinned THEN {<<name, "pin">>} ELSE {}
    BY DEF check_records_pin
  <2>2. name \in NamesOf(rows) /\ ~unpinned
    <3> HIDE DEF unpinned, row
    <3> QED BY <2>1
  <2> QED BY <2>2
<1>2. r.raw["cproper-manifest.json"].says.pins.records = sha256(BankRecords("as run"))
  BY ManifestSays
<1>3. DOMAIN rows = 1..2
  BY DEF DataShape
<1>4. places \in SUBSET (1..4) /\ places # {}
  BY <1>1, <1>3 DEF NamesOf, Range
<1>5. row = rows[Max(places)] /\ Max(places) \in places
  BY <1>4, PlaceIsThere DEF RowOf
<1>6. row \in Range(rows) /\ row.name = name
  BY <1>5 DEF Range
<1> HIDE DEF row, rows
<1>7. sha256(r.records[name]) = row.sha256
  BY <1>6, RowAgrees DEF check_record_files, rows
<1> QED BY <1>1, <1>2, <1>7, BlobsAreBytes

\* The lockfile, by its pin.
LEMMA LockIsPinned ==
  ASSUME NEW r, r.raw["cproper-manifest.json"] = RunManifest, check_upstream_pins(r, r.rawRows) = {}
  PROVE  r.lock = Lock
<1> DEFINE pins == r.raw["cproper-manifest.json"].says.pins
           annotated == IF "bank_annotation.jsonl" \notin NamesOf(r.rawRows) THEN {<<"data.md", "no annotation row">>}
                        ELSE IF RowOf(r.rawRows, "bank_annotation.jsonl").sha256 # pins.annotation
                             THEN {<<"bank_annotation.jsonl", "pin">>} ELSE {}
           locked == IF sha256(r.lock) # pins.lock THEN {<<"uv.lock", "pin">>} ELSE {}
<1>1. check_upstream_pins(r, r.rawRows) = annotated \cup locked
  BY DEF check_upstream_pins
<1>2. locked = {}
  <2> HIDE DEF annotated, locked
  <2> QED BY <1>1
<1>3. sha256(r.lock) = pins.lock
  <2> HIDE DEF pins
  <2> QED BY <1>2
<1> QED BY <1>3, ManifestSays, BlobsAreBytes

\* The apparatus, file by file and with no other, by the closure.
LEMMA ApparatusIsRegistered ==
  ASSUME NEW r, DataShape(r), r.provenance = AsShipped.provenance, check_apparatus_closure(r, {}) = {}
  PROVE  r.apparatus = ShippedApparatus
<1> DEFINE Said(n) == [path |-> n, blob |-> git_blob_sha1(ShippedApparatus[n])]
           files == r.provenance.closure.files
<1>1. files = {Said(n) : n \in DOMAIN ShippedApparatus}
  BY ShippedRecord
<1>2. \A n : Said(n).path = n /\ Said(n).blob = git_blob_sha1(ShippedApparatus[n])
  OBVIOUS
<1> HIDE DEF Said
<1>3. \A n \in DOMAIN ShippedApparatus :
        n \in DOMAIN r.apparatus /\ git_blob_sha1(r.apparatus[n]) = git_blob_sha1(ShippedApparatus[n])
  BY <1>1, <1>2, ClosureHolds
<1>4. DOMAIN r.apparatus \subseteq DOMAIN ShippedApparatus
  BY <1>1, <1>2, ClosureHolds
<1>5. \A n \in DOMAIN ShippedApparatus : r.apparatus[n] = ShippedApparatus[n]
  BY <1>3, BlobsAreBytes
<1>6. r.apparatus = [p \in DOMAIN r.apparatus |-> r.apparatus[p]]
  BY DEF DataShape
<1> QED BY <1>3, <1>4, <1>5, <1>6, ShippedFiles

\* What passes under the sealed record is what was registered.
LEMMA PassedIsRegistered ==
  ASSUME NEW r, DataShape(r), r.provenance = AsShipped.provenance,
         verify_data_hashes(r, {}) = {}, verify_threshold_freeze(r, {}) = {}
  PROVE  /\ Restrict(r.raw, DOMAIN r.raw \ PROSPECTIVE_OUTPUTS) = ShippedRaw
         /\ Range(Restrict(r.raw, DOMAIN r.raw \cap PROSPECTIVE_OUTPUTS)) \cap Range(ShippedRaw) = {}
         /\ r.lock = Lock /\ r.apparatus = ShippedApparatus
         /\ r.records["completed/bank_records.jsonl"] = BankRecords("as run")
<1>1. /\ check_raw_files(r, r.rawRows) = {}
      /\ check_no_unrecorded_files(r, r.rawRows, PROSPECTIVE_OUTPUTS) = {}
      /\ check_prospective_outputs(r, r.rawRows, PROSPECTIVE_OUTPUTS) = {}
      /\ check_upstream_pins(r, r.rawRows) = {}
      /\ check_frozen_input_provenance(r, {}, PROSPECTIVE_OUTPUTS) = {}
      /\ check_record_files(r, r.recordRows) = {}
      /\ check_records_pin(r, r.recordRows) = {}
  BY QuietData
<1>2. check_apparatus_closure(r, {}) = {}
  BY QuietFreeze
<1>3. /\ DOMAIN r.raw \ PROSPECTIVE_OUTPUTS = Shipped
      /\ \A name \in Shipped : name \in DOMAIN r.raw /\ r.raw[name] = ShippedRaw[name]
  BY <1>1, RawIsRegistered
<1>4. Restrict(r.raw, DOMAIN r.raw \ PROSPECTIVE_OUTPUTS) = ShippedRaw
  <2>1. ShippedRaw = [name \in Shipped |-> ShippedRaw[name]]
    BY DEF ShippedRaw, Shipped
  <2> QED BY <1>3, <2>1 DEF Restrict
<1>5. Range(Restrict(r.raw, DOMAIN r.raw \cap PROSPECTIVE_OUTPUTS)) \cap Range(ShippedRaw) = {}
  <2>1. \A n \in DOMAIN r.raw \cap PROSPECTIVE_OUTPUTS : \A m \in Shipped : r.raw[n] # ShippedRaw[m]
    BY <1>1, LandedIsNoCopy
  <2>2. Range(Restrict(r.raw, DOMAIN r.raw \cap PROSPECTIVE_OUTPUTS))
          = {r.raw[n] : n \in DOMAIN r.raw \cap PROSPECTIVE_OUTPUTS}
    BY DEF Range, Restrict
  <2>3. Range(ShippedRaw) = {ShippedRaw[m] : m \in Shipped}
    BY ShippedFiles DEF Range
  <2> QED BY <2>1, <2>2, <2>3
<1>6. r.raw["cproper-manifest.json"] = RunManifest
  BY <1>3, ShippedFiles DEF Shipped
<1>7. r.lock = Lock
  BY <1>1, <1>6, LockIsPinned
<1>8. r.apparatus = ShippedApparatus
  BY <1>2, ApparatusIsRegistered
<1>9. r.records["completed/bank_records.jsonl"] = BankRecords("as run")
  BY <1>1, <1>6, RecordIsPinned
<1> QED BY <1>4, <1>5, <1>7, <1>8, <1>9

\* Repositories that differ in what an import left compiled, if at all.
SameBut(r) ==
  /\ r.raw = ShippedRaw /\ r.records = ShippedRecords /\ r.lock = Lock
  /\ r.apparatus = ShippedApparatus
  /\ r.rawRows = RawRowsOf(ShippedRaw) /\ r.recordRows = RecordRowsOf(ShippedRecords)
  /\ r.section = PROSPECTIVE_OUTPUTS /\ r.provenance = AsShipped.provenance

\* One in which everything was restored.
LEMMA RestoredIsShipped ==
  ASSUME NEW r, [r EXCEPT !.cached = AsShipped.cached] = AsShipped
  PROVE  SameBut(r)
<1> DEFINE q == [r EXCEPT !.cached = AsShipped.cached]
<1>1. DOMAIN q = DOMAIN r
  OBVIOUS
<1>2. DOMAIN AsShipped = {"raw", "records", "lock", "apparatus", "cached", "rawRows", "recordRows",
                          "section", "provenance"}
  BY DEF AsShipped
<1>3. /\ q.raw = r.raw /\ q.records = r.records /\ q.lock = r.lock /\ q.apparatus = r.apparatus
      /\ q.rawRows = r.rawRows /\ q.recordRows = r.recordRows /\ q.section = r.section
      /\ q.provenance = r.provenance
  BY <1>1, <1>2
<1>4. q = AsShipped
  OBVIOUS
<1> HIDE DEF q
<1> QED BY <1>3, <1>4, AsShippedSays DEF SameBut

\* The rows of the tables as shipped: one for each file, as it is.
LEMMA RawRowsSay ==
  /\ DOMAIN RawRowsOf(ShippedRaw) = 1..4 /\ Len(RawRowsOf(ShippedRaw)) = 4
  /\ Range(RawRowsOf(ShippedRaw)) = {RawRow(name, ShippedRaw[name]) : name \in Shipped}
  /\ NamesOf(RawRowsOf(ShippedRaw)) = Shipped
<1> DEFINE names == <<"bank_annotation.jsonl", "cproper-manifest.json", "cproper-verdict.json",
                      "es3-verdict-forensic.json">>
           Row(name) == RawRow(name, ShippedRaw[name])
           rows == RawRowsOf(ShippedRaw)
<1>1. rows = [k \in 1..4 |-> Row(names[k])]
  BY DEF RawRowsOf
<1>2. \A name : Row(name).name = name
  BY DEF RawRow
<1>3. names[1] = "bank_annotation.jsonl" /\ names[2] = "cproper-manifest.json"
      /\ names[3] = "cproper-verdict.json" /\ names[4] = "es3-verdict-forensic.json"
  OBVIOUS
<1> HIDE DEF Row, names, rows
<1>4. DOMAIN rows = 1..4 /\ \A k \in 1..4 : rows[k] = Row(names[k])
  BY <1>1
<1>5. Len(rows) = 4
  BY <1>1
<1>6. Shipped = {names[k] : k \in 1..4}
  <2>1. \A k \in 1..4 : k = 1 \/ k = 2 \/ k = 3 \/ k = 4 OBVIOUS
  <2> QED BY <1>3, <2>1 DEF Shipped
<1>7. Range(rows) = {Row(name) : name \in Shipped}
  BY <1>4, <1>6 DEF Range
<1>8. NamesOf(rows) = Shipped
  BY <1>2, <1>7 DEF NamesOf
<1> QED BY <1>4, <1>5, <1>7, <1>8 DEF Row, rows

\* The two of the records.
LEMMA RecordRowsSay ==
  LET rows == RecordRowsOf(ShippedRecords) IN
  /\ DOMAIN rows = 1..2 /\ Len(rows) = 2
  /\ \A row \in Range(rows) : /\ row.name \in EXPECTED_RECORD_NAMES
                               /\ row.sha256 = sha256(ShippedRecords[row.name])
                               /\ row.size = ShippedRecords[row.name].size
  /\ NamesOf(rows) = EXPECTED_RECORD_NAMES
<1> DEFINE Row(name, commit) == RecordRow(name, ShippedRecords[name], commit)
           a == Row("completed/bank_records.jsonl", "run")
           b == Row("attempts/attempts.jsonl", "later")
           rows == RecordRowsOf(ShippedRecords)
<1>1. \A name, commit : /\ Row(name, commit).name = name
                        /\ Row(name, commit).sha256 = sha256(ShippedRecords[name])
                        /\ Row(name, commit).size = ShippedRecords[name].size
  BY DEF RecordRow
<1>2. rows = <<a, b>>
  BY DEF RecordRowsOf
<1>3. /\ a.name = "completed/bank_records.jsonl" /\ a.sha256 = sha256(ShippedRecords[a.name])
      /\ a.size = ShippedRecords[a.name].size
      /\ b.name = "attempts/attempts.jsonl" /\ b.sha256 = sha256(ShippedRecords[b.name])
      /\ b.size = ShippedRecords[b.name].size
  <2> HIDE DEF Row
  <2> QED BY <1>1
<1> HIDE DEF a, b, rows, Row
<1>4. DOMAIN rows = 1..2 /\ Len(rows) = 2 /\ rows[1] = a /\ rows[2] = b
  BY <1>2
<1>5. Range(rows) = {a, b}
  BY <1>4 DEF Range
<1>6. NamesOf(rows) = {a.name, b.name}
  BY <1>5 DEF NamesOf
<1> QED BY <1>3, <1>4, <1>5, <1>6 DEF EXPECTED_RECORD_NAMES, rows

\* Rows that say what the files are, leave no problem.
LEMMA AgainstQuiet ==
  ASSUME NEW rows, NEW files,
         \A row \in Range(rows) : /\ row.name \in DOMAIN files
                                  /\ row.size = files[row.name].size
                                  /\ row.sha256 = sha256(files[row.name])
  PROVE  Against(rows, files) = {}
BY DEF Against

\* The row of a name that is in a table is one of the table's rows.
LEMMA RowIsThere ==
  ASSUME NEW rows, NEW n \in 1..4, DOMAIN rows = 1..n, NEW name \in NamesOf(rows)
  PROVE  RowOf(rows, name) \in Range(rows) /\ RowOf(rows, name).name = name
<1> DEFINE places == {i \in DOMAIN rows : rows[i].name = name}
<1>1. places \in SUBSET (1..4) /\ places # {}
  BY DEF NamesOf, Range
<1>2. RowOf(rows, name) = rows[Max(places)] /\ Max(places) \in places
  BY <1>1, PlaceIsThere DEF RowOf
<1> QED BY <1>2 DEF Range

\* Two things are two.
LEMMA TwoOf ==
  ASSUME NEW a, NEW b, a # b
  PROVE  Cardinality({a, b}) = 2
<1>1. IsFiniteSet({}) /\ Cardinality({}) = 0
  BY FS_EmptySet
<1>2. IsFiniteSet({a}) /\ Cardinality({a}) = 1
  BY FS_Singleton
<1>3. Cardinality({a} \cup {b}) = 1 + 1
  BY <1>2, FS_AddElement
<1>4. {a} \cup {b} = {a, b}
  OBVIOUS
<1> QED BY <1>3, <1>4

\* What was shipped passes verify_data_hashes.py.
LEMMA HashesQuiet ==
  ASSUME NEW r, SameBut(r)
  PROVE  verify_data_hashes(r, {}) = {}
<1> DEFINE rows == RawRowsOf(ShippedRaw)
           records == RecordRowsOf(ShippedRecords)
<1>1. \A row \in Range(rows) : /\ row.name \in Shipped
                               /\ row.size = ShippedRaw[row.name].size
                               /\ row.sha256 = sha256(ShippedRaw[row.name])
  <2>1. \A name \in Shipped : /\ RawRow(name, ShippedRaw[name]).name = name
                              /\ RawRow(name, ShippedRaw[name]).size = ShippedRaw[name].size
                              /\ RawRow(name, ShippedRaw[name]).sha256 = sha256(ShippedRaw[name])
    BY DEF RawRow
  <2> HIDE DEF rows
  <2> QED BY <2>1, RawRowsSay DEF rows
<1> HIDE DEF rows, records
<1>2. r.raw = ShippedRaw /\ r.rawRows = rows /\ r.records = ShippedRecords /\ r.recordRows = records
      /\ r.lock = Lock /\ r.section = PROSPECTIVE_OUTPUTS /\ r.provenance = AsShipped.provenance
  BY DEF SameBut, rows, records
<1>3. DOMAIN rows = 1..4 /\ Len(rows) = 4 /\ NamesOf(rows) = Shipped
  BY RawRowsSay DEF rows
<1>4. DOMAIN records = 1..2 /\ Len(records) = 2 /\ NamesOf(records) = EXPECTED_RECORD_NAMES
      /\ \A row \in Range(records) : /\ row.name \in EXPECTED_RECORD_NAMES
                                     /\ row.sha256 = sha256(ShippedRecords[row.name])
                                     /\ row.size = ShippedRecords[row.name].size
  BY RecordRowsSay DEF records
<1>5. check_raw_files(r, r.rawRows) = {}
  <2>1. \A row \in Range(rows) : /\ row.name \in DOMAIN ShippedRaw
                                 /\ row.size = ShippedRaw[row.name].size
                                 /\ row.sha256 = sha256(ShippedRaw[row.name])
    BY <1>1, ShippedFiles
  <2> QED BY <1>2, <2>1, AgainstQuiet DEF check_raw_files
<1>6. check_no_unrecorded_files(r, r.rawRows, PROSPECTIVE_OUTPUTS) = {}
  BY <1>2, <1>3, ShippedFiles DEF check_no_unrecorded_files
<1>7. check_prospective_outputs(r, r.rawRows, PROSPECTIVE_OUTPUTS) = {}
  BY <1>2, ShippedFiles DEF check_prospective_outputs
<1>8. check_prospective_section(r, PROSPECTIVE_OUTPUTS) = {}
  BY <1>2 DEF check_prospective_section
<1>9. r.raw["cproper-manifest.json"] = RunManifest
  BY <1>2, ShippedFiles
<1>10. check_upstream_pins(r, r.rawRows) = {}
  <2>1. "bank_annotation.jsonl" \in NamesOf(rows)
    BY <1>3 DEF Shipped
  <2>2. RowOf(rows, "bank_annotation.jsonl") \in Range(rows)
        /\ RowOf(rows, "bank_annotation.jsonl").name = "bank_annotation.jsonl"
    BY <1>3, <2>1, RowIsThere
  <2>3. RowOf(rows, "bank_annotation.jsonl").sha256 = sha256(Annotation("as run"))
    BY <1>1, <2>2, ShippedFiles
  <2> QED BY <1>2, <1>9, <2>1, <2>3, ManifestSays DEF check_upstream_pins
<1>11. check_frozen_input_provenance(r, {}, PROSPECTIVE_OUTPUTS) = {}
  <2> DEFINE inputs == r.provenance.frozen_inputs
  <2>1. \A e \in inputs : /\ e.shipped \in DOMAIN r.raw
                          /\ git_blob_sha1(r.raw[e.shipped]) = e.blob
                          /\ check_upstream_blob({}, e.commit, e.path, e.blob) = {}
                          /\ check_upstream_commit_time({}, e.commit, e.time) = {}
    BY <1>2, ShippedRecord, ShippedFiles DEF check_upstream_blob, check_upstream_commit_time
  <2>2. DOMAIN r.raw \ (RAW_DIR_ALLOWLIST \cup PROSPECTIVE_OUTPUTS) \subseteq {e.shipped : e \in inputs}
    <3>1. \A name \in Shipped : \E e \in inputs : e.shipped = name
      BY <1>2, ShippedRecord
    <3>2. DOMAIN r.raw = Shipped
      BY <1>2, ShippedFiles
    <3> HIDE DEF inputs
    <3> QED BY <3>1, <3>2
  <2> HIDE DEF inputs
  <2> DEFINE Said(e) == IF git_blob_sha1(r.raw[e.shipped]) # e.blob THEN {<<e.shipped, "blob">>}
                        ELSE check_upstream_blob({}, e.commit, e.path, e.blob)
                               \cup check_upstream_commit_time({}, e.commit, e.time)
             All(e) == CASE e.shipped \notin DOMAIN r.raw -> {<<e.shipped, "missing">>} [] OTHER -> Said(e)
             orphans == {<<n, "no provenance">> :
                           n \in (DOMAIN r.raw \ (RAW_DIR_ALLOWLIST \cup PROSPECTIVE_OUTPUTS))
                                  \ {e.shipped : e \in inputs}}
  <2>3. check_frozen_input_provenance(r, {}, PROSPECTIVE_OUTPUTS) = (UNION {All(e) : e \in inputs}) \cup orphans
    BY DEF check_frozen_input_provenance, inputs
  <2>4. \A e \in inputs : Said(e) = {}
    BY <2>1
  <2>5. \A e \in inputs : All(e) = {}
    <3> HIDE DEF Said
    <3> QED BY <2>1, <2>4
  <2>6. orphans = {}
    BY <2>2
  <2> HIDE DEF All, orphans
  <2> QED BY <2>3, <2>5, <2>6
<1>12. parse_records_table(r.recordRows, EXPECTED_RECORD_NAMES) = {}
  <2>1. Cardinality(EXPECTED_RECORD_NAMES) = 2
    BY TwoOf DEF EXPECTED_RECORD_NAMES
  <2>2. {name \in NamesOf(records) : Outside(name)} = {}
    BY <1>4 DEF Outside
  <2> QED BY <1>2, <1>4, <2>1, <2>2 DEF parse_records_table
<1>13. check_record_files(r, r.recordRows) = {}
  <2>1. DOMAIN ShippedRecords = EXPECTED_RECORD_NAMES BY ShippedFiles
  <2>2. Against(records, ShippedRecords) = {} BY <1>4, <2>1, AgainstQuiet
  <2> QED BY <1>2, <2>2 DEF check_record_files
<1>14. check_no_unrecorded_records(r, r.recordRows) = {}
  BY <1>2, <1>4, ShippedFiles DEF check_no_unrecorded_records
<1>15. check_records_pin(r, r.recordRows) = {}
  <2> DEFINE name == "completed/bank_records.jsonl"
  <2>1. name \in NamesOf(records)
    BY <1>4 DEF EXPECTED_RECORD_NAMES
  <2>2. RowOf(records, name) \in Range(records) /\ RowOf(records, name).name = name
    BY <1>4, <2>1, RowIsThere
  <2>3. RowOf(records, name).sha256 = sha256(BankRecords("as run"))
    <3>1. ShippedRecords[name] = BankRecords("as run") BY ShippedFiles
    <3>2. RowOf(records, name).sha256 = sha256(ShippedRecords[RowOf(records, name).name]) BY <1>4, <2>2
    <3> HIDE DEF name
    <3> QED BY <2>2, <3>1, <3>2
  <2>4. RowOf(records, name).sha256 = r.raw["cproper-manifest.json"].says.pins.records
    BY <1>9, <2>3, ManifestSays
  <2> DEFINE unpinned == RowOf(records, name).sha256 # r.raw["cproper-manifest.json"].says.pins.records
  <2>5. check_records_pin(r, records) = IF name \notin NamesOf(records) THEN {<<"data.md", "no records row">>}
                                        ELSE IF unpinned THEN {<<name, "pin">>} ELSE {}
    BY DEF check_records_pin
  <2>6. ~unpinned
    BY <2>4
  <2> HIDE DEF unpinned, name
  <2> QED BY <1>2, <2>1, <2>5, <2>6
<1>16. check_records_upstream(r, r.recordRows, {}) = {}
  BY DEF check_records_upstream, check_upstream_blob
<1>17. Len(r.rawRows) = EXPECTED_RAW_ROWS /\ "cproper-manifest.json" \in DOMAIN r.raw
  BY <1>2, <1>3, ShippedFiles DEF EXPECTED_RAW_ROWS, Shipped
<1> QED BY <1>5, <1>6, <1>7, <1>8, <1>10, <1>11, <1>12, <1>13, <1>14, <1>15, <1>16, <1>17
        DEF verify_data_hashes

\* One record of the freeze speaks of the constants, as they were at the freeze.
LEMMA FreezeSays ==
  ASSUME NEW r, SameBut(r), NEW e \in r.provenance.frozen_files
  PROVE  /\ e.shipped = "constants.py" /\ e.shipped \in DOMAIN r.apparatus
         /\ r.apparatus[e.shipped] = Constants("frozen", 100)
         /\ git_blob_sha1(r.apparatus[e.shipped]) = e.blob /\ e.time = 1
<1> DEFINE one == InputAt("constants.py", "freeze", git_blob_sha1(ShippedApparatus["constants.py"]))
<1>1. one.shipped = "constants.py" /\ one.blob = git_blob_sha1(ShippedApparatus["constants.py"])
      /\ one.time = CommitTime["freeze"]
  BY InputSays
<1>2. CommitTime["freeze"] = 1
  BY DEF CommitTime
<1> HIDE DEF one
<1>3. e = one
  BY ShippedRecord DEF SameBut, one
<1>4. r.apparatus = ShippedApparatus
  BY DEF SameBut
<1> QED BY <1>1, <1>2, <1>3, <1>4, ShippedFiles

\* Its apparatus agrees with the closure.
LEMMA ClosureQuiet ==
  ASSUME NEW r, SameBut(r)
  PROVE  check_apparatus_closure(r, {}) = {}
<1> DEFINE Said(n) == [path |-> n, blob |-> git_blob_sha1(ShippedApparatus[n])]
           closure == r.provenance.closure
           wrong == {e \in closure.files : e.path \notin DOMAIN r.apparatus
                                           \/ git_blob_sha1(r.apparatus[e.path]) # e.blob}
           counted == IF Cardinality(closure.files) # closure.count THEN {<<"closure", "count">>} ELSE {}
           bent == {<<e.path, "blob">> : e \in wrong}
           Held(e) == check_upstream_blob({}, closure.commit, e.path, e.blob)
           unheld == UNION {Held(e) : e \in closure.files \ wrong}
           orphans == {<<path, "no provenance">> :
                         path \in DOMAIN r.apparatus \ {e.path : e \in closure.files}}
<1>1. check_apparatus_closure(r, {}) = ((counted \cup bent) \cup unheld) \cup orphans
  BY DEF check_apparatus_closure
<1>2. closure.files = {Said(n) : n \in DOMAIN ShippedApparatus}
      /\ closure.count = Cardinality(DOMAIN ShippedApparatus)
  BY ShippedRecord DEF SameBut
<1>3. \A n : Said(n).path = n /\ Said(n).blob = git_blob_sha1(ShippedApparatus[n])
  OBVIOUS
<1>4. DOMAIN ShippedApparatus = {"constants.py", "loop.py"}
  BY ShippedFiles
<1>5. r.apparatus = ShippedApparatus
  BY DEF SameBut
<1> HIDE DEF Said
<1>6. wrong = {}
  BY <1>2, <1>3, <1>5
<1>7. counted = {}
  <2>1. closure.files = {Said("constants.py"), Said("loop.py")}
    BY <1>2, <1>4
  <2>2. Said("constants.py") # Said("loop.py")
    <3>1. Said("constants.py").path # Said("loop.py").path BY <1>3
    <3> QED BY <3>1
  <2>3. Cardinality({Said("constants.py"), Said("loop.py")}) = 2
    BY <2>2, TwoOf
  <2>4. Cardinality({"constants.py", "loop.py"}) = 2
    BY TwoOf
  <2> QED BY <1>2, <1>4, <2>1, <2>3, <2>4
<1>8. bent = {}
  <2> HIDE DEF wrong
  <2> QED BY <1>6
<1>9. unheld = {}
  <2>1. \A e : Held(e) = {} BY DEF check_upstream_blob
  <2> HIDE DEF Held
  <2> QED BY <2>1
<1>10. orphans = {}
  <2>1. \A path \in DOMAIN r.apparatus : \E e \in closure.files : e.path = path
    BY <1>2, <1>3, <1>5
  <2> HIDE DEF closure
  <2> QED BY <2>1
<1> HIDE DEF counted, bent, unheld, orphans
<1> QED BY <1>1, <1>7, <1>8, <1>9, <1>10

\* The thresholds the run's verdict records.
LEMMA VerdictSays ==
  LET thresholds == VerdictFile("as run", 100).says.thresholds IN
  /\ DOMAIN thresholds = {"delta_tv_min", "seed"}
  /\ thresholds["delta_tv_min"] = 100 /\ thresholds["seed"] = 7
<1> DEFINE t == [delta_tv_min |-> 100, seed |-> 7]
           says == [thresholds |-> t]
<1>1. Bytes("cproper-verdict.json", "as run", 90, says).says = says
  <2> HIDE DEF says
  <2> QED BY DEF Bytes
<1>2. VerdictFile("as run", 100).says = says
  <2>1. VerdictFile("as run", 100) = Bytes("cproper-verdict.json", "as run", 90, says)
    BY DEF VerdictFile
  <2> HIDE DEF says
  <2> QED BY <1>1, <2>1
<1>3. says.thresholds = t
  OBVIOUS
<1>4. DOMAIN t = {"delta_tv_min", "seed"} /\ t["delta_tv_min"] = 100 /\ t["seed"] = 7
  OBVIOUS
<1> HIDE DEF t, says
<1> QED BY <1>2, <1>3, <1>4

\* The constant that was frozen.
LEMMA ConstantsSay == Constants("frozen", 100).says.constants["DELTA"] = 100
<1> DEFINE c == [DELTA |-> 100]
           says == [constants |-> c]
<1>1. Constants("frozen", 100)
        = [file |-> "constants.py", version |-> "frozen", size |-> 200, form |-> "object", says |-> says]
  BY DEF Constants, Bytes
<1>2. Constants("frozen", 100).says = says
  <2> HIDE DEF says
  <2> QED BY <1>1
<1>3. says.constants = c /\ c["DELTA"] = 100
  OBVIOUS
<1> HIDE DEF c, says
<1> QED BY <1>2, <1>3

\* The thresholds the run recorded are the frozen ones, read from the file
\* itself and not from what an import left.
LEMMA ThresholdsQuiet ==
  ASSUME NEW r, SameBut(r)
  PROVE  /\ check_threshold_values(r, r.raw["cproper-verdict.json"].says.thresholds) = {}
         /\ check_run_parameters(r, r.raw["cproper-verdict.json"].says.thresholds) = {}
<1> DEFINE thresholds == r.raw["cproper-verdict.json"].says.thresholds
           map == r.provenance.threshold_map
           of == r.provenance.run_parameter_map
           run == r.raw["cproper-manifest.json"].says.run
           files == r.provenance.frozen_files
           Value(e, key) == load_shipped_module(r, e.shipped).says.constants[map[key]]
           Said(e) == IF e.shipped \notin DOMAIN r.apparatus THEN {<<e.shipped, "missing">>}
                      ELSE {<<key, "mismatch">> : key \in {k \in DOMAIN map :
                              k \notin DOMAIN thresholds \/ Value(e, k) # thresholds[k]}}
           uncovered == IF DOMAIN thresholds \ DOMAIN map # DOMAIN of
                        THEN {<<"thresholds", "uncovered">>} ELSE {}
<1>1. check_threshold_values(r, thresholds) = (UNION {Said(e) : e \in files}) \cup uncovered
  BY DEF check_threshold_values
<1>2. /\ DOMAIN thresholds = {"delta_tv_min", "seed"}
      /\ thresholds["delta_tv_min"] = 100 /\ thresholds["seed"] = 7
  BY VerdictSays, ShippedFiles DEF SameBut
<1>3. map = [delta_tv_min |-> "DELTA"] /\ of = [seed |-> "seed"]
  BY ShippedRecord DEF SameBut
<1>4. DOMAIN map = {"delta_tv_min"} /\ map["delta_tv_min"] = "DELTA"
      /\ DOMAIN of = {"seed"} /\ of["seed"] = "seed"
  BY <1>3
<1>5. run["seed"] = 7
  <2>1. r.raw["cproper-manifest.json"] = RunManifest BY ShippedFiles DEF SameBut
  <2>2. run = [seed |-> 7] BY <2>1, ManifestSays
  <2> HIDE DEF run
  <2> QED BY <2>2
<1> HIDE DEF thresholds, map, of, run
<1>6. \A e \in files : e.shipped \in DOMAIN r.apparatus /\ Value(e, "delta_tv_min") = 100
  <2>1. ASSUME NEW e \in files
        PROVE  e.shipped \in DOMAIN r.apparatus /\ Value(e, "delta_tv_min") = 100
    <3>1. e.shipped \in DOMAIN r.apparatus /\ r.apparatus[e.shipped] = Constants("frozen", 100)
      BY FreezeSays
    <3>2. load_shipped_module(r, e.shipped) = Constants("frozen", 100)
      BY <3>1 DEF load_shipped_module
    <3> QED BY <1>4, <3>1, <3>2, ConstantsSay
  <2> QED BY <2>1
<1>7. \A e \in files : Said(e) = {}
  <2> HIDE DEF Value, files
  <2> QED BY <1>2, <1>4, <1>6
<1>8. uncovered = {}
  BY <1>2, <1>4
<1>9. check_threshold_values(r, thresholds) = {}
  <2> HIDE DEF Said, uncovered
  <2> QED BY <1>1, <1>7, <1>8
<1>10. check_run_parameters(r, thresholds) = {}
  <2> DEFINE bad == {k \in DOMAIN of : thresholds[k] # run[of[k]]}
  <2>1. check_run_parameters(r, thresholds) = {<<key, "mismatch">> : key \in bad}
    BY DEF check_run_parameters, of, run
  <2>2. bad = {}
    BY <1>2, <1>4, <1>5
  <2> HIDE DEF bad
  <2> QED BY <2>1, <2>2
<1> QED BY <1>9, <1>10 DEF thresholds

\* What was shipped passes verify_threshold_freeze.py.
LEMMA FreezeQuiet ==
  ASSUME NEW r, SameBut(r)
  PROVE  verify_threshold_freeze(r, {}) = {}
<1>1. {"cproper-verdict.json", "cproper-manifest.json"} \subseteq DOMAIN r.raw
  BY ShippedFiles DEF SameBut, Shipped
<1>2. check_blob_identity(r) = {}
  BY FreezeSays DEF check_blob_identity
<1>3. check_recorded_ordering(r) = {}
  <2>1. r.provenance.run_commit.time = 3
    BY ShippedRecord DEF SameBut
  <2>2. \A f \in r.provenance.frozen_files : ~(f.time >= r.provenance.run_commit.time)
    BY <2>1, FreezeSays
  <2> QED BY <2>2 DEF check_recorded_ordering
<1>4. check_upstream(r, {}) = {}
  <2> DEFINE run == r.provenance.run_commit
             files == r.provenance.frozen_files
             Said(e) == check_upstream_blob({}, e.commit, e.path, e.blob)
                          \cup check_upstream_commit_time({}, e.commit, e.time)
                          \cup (IF {} = {} \/ e.commit \in Ancestors[run.commit] THEN {}
                                ELSE {<<e.commit, "not an ancestor">>})
  <2>1. check_upstream(r, {}) = check_upstream_commit_time({}, run.commit, run.time)
                                  \cup UNION {Said(e) : e \in files}
    BY DEF check_upstream
  <2>2. \A e : Said(e) = {}
    BY DEF check_upstream_blob, check_upstream_commit_time
  <2>3. check_upstream_commit_time({}, run.commit, run.time) = {}
    BY DEF check_upstream_commit_time
  <2> HIDE DEF Said
  <2> QED BY <2>1, <2>2, <2>3
<1>5. check_apparatus_closure(r, {}) = {}
  BY ClosureQuiet
<1> QED BY <1>1, <1>2, <1>3, <1>4, <1>5, ThresholdsQuiet DEF verify_threshold_freeze

\* PassingDataIsRegistered, however often the author edited the files and the
\* tables and something was imported: the blobs of the sealed record pin the
\* inputs and the apparatus, the manifest among the inputs pins the lockfile
\* and the completed record, and no check reads what is cached.
THEOREM RegisteredPasses == DataSpec => []PassingDataIsRegistered
<1>1. RepoShape => PassingDataIsRegistered
  <2> SUFFICES ASSUME DataShape(repo), repo.provenance = AsShipped.provenance
               PROVE  /\ dataProblems({}) = {} =>
                           /\ Restrict(repo.raw, DOMAIN repo.raw \ PROSPECTIVE_OUTPUTS) = ShippedRaw
                           /\ Range(Restrict(repo.raw, DOMAIN repo.raw \cap PROSPECTIVE_OUTPUTS))
                                \cap Range(ShippedRaw) = {}
                           /\ repo.lock = Lock /\ repo.apparatus = ShippedApparatus
                           /\ repo.records["completed/bank_records.jsonl"] = BankRecords("as run")
                      /\ [repo EXCEPT !.cached = AsShipped.cached] = AsShipped => dataProblems({}) = {}
    BY DEF RepoShape, PassingDataIsRegistered
  <2>1. ASSUME dataProblems({}) = {}
        PROVE  verify_data_hashes(repo, {}) = {} /\ verify_threshold_freeze(repo, {}) = {}
    BY <2>1 DEF dataProblems
  <2>2. ASSUME [repo EXCEPT !.cached = AsShipped.cached] = AsShipped
        PROVE  dataProblems({}) = {}
    <3>1. SameBut(repo) BY <2>2, RestoredIsShipped
    <3> QED BY <3>1, HashesQuiet, FreezeQuiet DEF dataProblems
  <2> QED BY <2>1, <2>2, PassedIsRegistered
<1> QED BY <1>1, ShapeStays, PTL

-----------------------------------------------------------------------------
\* Every set of natural numbers that is not empty has a smallest.
LEMMA Smallest ==
  ASSUME NEW T \in SUBSET Nat, T # {}
  PROVE  \E x \in T : \A y \in T : x <= y
<1> DEFINE U == {0..n : n \in T}
<1>1. U \subseteq FiniteSubsetsOf(Nat)
  <2>1. \A n \in T : (0..n) \subseteq Nat OBVIOUS
  <2>2. \A n \in T : IsFiniteSet(0..n) BY FS_Interval
  <2> QED BY <2>1, <2>2 DEF FiniteSubsetsOf
<1>2. U # {}
  OBVIOUS
<1>3. PICK s \in U : \A y \in U : ~(<<y, s>> \in StrictSubsetOrdering(Nat))
  <2> HIDE DEF U
  <2> QED BY <1>1, <1>2, FS_StrictSubsetOrderingWellFounded, WFMin
<1>4. PICK x \in T : s = 0..x
  OBVIOUS
<1>5. ASSUME NEW y \in T, ~(x <= y) PROVE FALSE
  <2>1. (0..y) \in SUBSET Nat /\ (0..x) \in SUBSET Nat /\ (0..y) \subseteq (0..x)
        /\ x \in 0..x /\ x \notin 0..y
    BY <1>5
  <2>2. <<0..y, 0..x>> \in StrictSubsetOrdering(Nat)
    BY <2>1 DEF StrictSubsetOrdering
  <2> QED BY <1>3, <1>4, <2>2
<1> QED BY <1>5

\* A sequence is as long as its indices are many.
LEMMA LengthOf ==
  ASSUME NEW n \in Nat, NEW S, NEW a \in Seq(S), DOMAIN a = 1..n
  PROVE  Len(a) = n
<1>1. Len(a) \in Nat /\ 1..n = 1..Len(a)
  OBVIOUS
<1> DEFINE k == Len(a)
<1> HIDE DEF k
<1>2. k \in Nat /\ 1..n = 1..k
  BY <1>1 DEF k
<1>3. \A x \in Int : x \in 1..n <=> x \in 1..k
  BY <1>2
<1>4. k \in 1..k \/ k = 0
  BY <1>2
<1>5. n \in 1..n \/ n = 0
  OBVIOUS
<1>6. k = n
  BY <1>2, <1>3, <1>4, <1>5
<1> QED BY <1>6 DEF k

\* A sequence of n things, whatever they are.
IsRow(s, n) == s = [i \in 1..n |-> s[i]]

\* Its indices are the numbers up to n.
LEMMA RowsLength ==
  ASSUME NEW n \in Nat, NEW s, IsRow(s, n)
  PROVE  Len(s) = n /\ DOMAIN s = 1..n
<1> DEFINE S == {s[i] : i \in 1..n}
<1>1. s \in [1..n -> S] BY DEF IsRow
<1> HIDE DEF S
<1>2. s \in Seq(S) BY <1>1, SeqDef
<1>3. DOMAIN s = 1..n BY <1>1
<1> QED BY <1>2, <1>3, LengthOf

\* One row of things after another.
Joined(a, b) == a \o b

\* The first row keeps its places and the second comes behind it.
LEMMA RowAfterRow ==
  ASSUME NEW m \in Nat, NEW n \in Nat, NEW a, NEW b, IsRow(a, m), IsRow(b, n)
  PROVE  /\ IsRow(Joined(a, b), m + n)
         /\ \A i \in 1..m : Joined(a, b)[i] = a[i]
         /\ \A i \in 1..n : Joined(a, b)[m + i] = b[i]
<1> DEFINE c == a \o b
<1> DEFINE S == {a[i] : i \in 1..m} \cup {b[i] : i \in 1..n}
<1>1. a \in [1..m -> S] /\ b \in [1..n -> S]
  BY DEF IsRow
<1> HIDE DEF S
<1>2. a \in Seq(S) /\ b \in Seq(S) /\ Len(a) = m /\ Len(b) = n
  <2>1. a \in Seq(S) /\ b \in Seq(S) BY <1>1, SeqDef
  <2>2. DOMAIN a = 1..m /\ DOMAIN b = 1..n BY <1>1
  <2> QED BY <2>1, <2>2, LengthOf
<1>3. c \in Seq(S) /\ Len(c) = m + n
      /\ \A i \in 1..(m + n) : c[i] = IF i <= m THEN a[i] ELSE b[i - m]
  BY <1>2, ConcatProperties
<1> HIDE DEF c
<1>4. c \in [1..(m + n) -> S]
  BY <1>3, LenProperties
<1>5. \A i \in 1..m : i \in 1..(m + n) /\ i <= m
  OBVIOUS
<1>6. \A i \in 1..n : m + i \in 1..(m + n) /\ ~(m + i <= m) /\ (m + i) - m = i
  OBVIOUS
<1>7. IsRow(c, m + n)
  BY <1>4 DEF IsRow
<1>8. \A i \in 1..m : c[i] = a[i]
  BY <1>3, <1>5
<1>9. \A i \in 1..n : c[m + i] = b[i]
  BY <1>3, <1>6
<1>10. Joined(a, b) = c
  BY DEF Joined, c
<1> QED BY <1>7, <1>8, <1>9, <1>10

\* InOrder lists each of the paths that is in the set, once.
LEMMA InOrderLists ==
  ASSUME NEW n \in Nat, NEW paths, DOMAIN paths = 1..n,
         \A i, j \in 1..n : paths[i] = paths[j] => i = j, NEW some
  PROVE  LET s == InOrder(paths, some) IN
         /\ \E m \in Nat : DOMAIN s = 1..m
         /\ s = [k \in DOMAIN s |-> s[k]]
         /\ {s[k] : k \in DOMAIN s} = {paths[i] : i \in 1..n} \cap some
         /\ \A k, l \in DOMAIN s : s[k] = s[l] => k = l
<1> DEFINE places == {i \in 1..n : paths[i] \in some}
           Below(i) == {j \in places : j <= i}
           m == Cardinality(places)
           rank == [i \in places |-> Cardinality(Below(i))]
           Nth(k) == CHOOSE i \in places : Cardinality(Below(i)) = k
           s == InOrder(paths, some)
<1>1. s = [k \in 1..m |-> paths[Nth(k)]]
  BY DEF InOrder
<1>2. IsFiniteSet(places) /\ m \in Nat
  <2>1. IsFiniteSet(1..n) BY FS_Interval
  <2>2. places \in SUBSET (1..n) OBVIOUS
  <2> QED BY <2>1, <2>2, FS_Subset, FS_CardinalityType
<1>3. \A i \in places : /\ Below(i) \in SUBSET places /\ IsFiniteSet(Below(i))
                        /\ Cardinality(Below(i)) \in 1..m
  <2>1. ASSUME NEW i \in places
        PROVE  /\ Below(i) \in SUBSET places /\ IsFiniteSet(Below(i))
               /\ Cardinality(Below(i)) \in 1..m
    <3>1. Below(i) \in SUBSET places /\ i \in Below(i) OBVIOUS
    <3> HIDE DEF Below, places
    <3>2. IsFiniteSet(Below(i)) /\ Cardinality(Below(i)) <= m
      BY <1>2, <3>1, FS_Subset
    <3>3. Cardinality(Below(i)) \in Nat /\ Cardinality(Below(i)) # 0
      BY <3>1, <3>2, FS_CardinalityType, FS_EmptySet
    <3> QED BY <1>2, <3>1, <3>2, <3>3
  <2> QED BY <2>1
<1>4. \A i, j \in places : Cardinality(Below(i)) = Cardinality(Below(j)) => i = j
  <2>1. ASSUME NEW i \in places, NEW j \in places, i < j,
               Cardinality(Below(i)) = Cardinality(Below(j))
        PROVE  FALSE
    <3>1. Below(i) \in SUBSET Below(j) /\ j \in Below(j) /\ j \notin Below(i)
      BY <2>1
    <3>2. IsFiniteSet(Below(j)) BY <1>3
    <3> HIDE DEF Below
    <3>3. Below(j) = Below(i) BY <2>1, <3>1, <3>2, FS_Subset
    <3> QED BY <3>1, <3>3
  <2>2. ASSUME NEW i \in places, NEW j \in places, Cardinality(Below(i)) = Cardinality(Below(j))
        PROVE  i = j
    <3>1. i \in Int /\ j \in Int OBVIOUS
    <3>2. ~(i < j) /\ ~(j < i) BY <2>1, <2>2
    <3> QED BY <3>1, <3>2
  <2> QED BY <2>2
<1>5. rank \in Injection(places, 1..m)
  <2>1. rank \in [places -> 1..m]
    <3> HIDE DEF Below, places
    <3> QED BY <1>3
  <2>2. \A i, j \in places : rank[i] = rank[j] => i = j
    <3> HIDE DEF Below, places
    <3> QED BY <1>4
  <2> HIDE DEF rank, places
  <2> QED BY <2>1, <2>2 DEF Injection, IsInjective
<1>6. rank \in Surjection(places, 1..m)
  <2>1. IsFiniteSet(1..m) /\ Cardinality(1..m) = m
    BY <1>2, FS_Interval
  <2> HIDE DEF rank, places
  <2> QED BY <1>5, <2>1, FS_Injection
<1>7. \A k \in 1..m : \E i \in places : Cardinality(Below(i)) = k
  <2>1. \A k \in 1..m : \E i \in places : rank[i] = k
    <3> HIDE DEF rank, places
    <3> QED BY <1>6 DEF Surjection
  <2> HIDE DEF Below, places
  <2> QED BY <2>1
<1>8. \A k \in 1..m : Nth(k) \in places /\ Cardinality(Below(Nth(k))) = k
  <2> HIDE DEF Below, places
  <2> QED BY <1>7
<1> HIDE DEF Nth, Below, s, rank
<1>9. DOMAIN s = 1..m /\ \A k \in 1..m : s[k] = paths[Nth(k)]
  <2> HIDE DEF places
  <2> QED BY <1>1
<1>10. \A i \in places : Nth(Cardinality(Below(i))) = i /\ Cardinality(Below(i)) \in 1..m
  <2> HIDE DEF places
  <2> QED BY <1>3, <1>4, <1>8
<1>11. {s[k] : k \in DOMAIN s} = {paths[i] : i \in 1..n} \cap some
  <2>1. \A k \in 1..m : s[k] \in {paths[i] : i \in 1..n} \cap some
    BY <1>8, <1>9
  <2>2. \A i \in 1..n : paths[i] \in some => \E k \in 1..m : s[k] = paths[i]
    BY <1>9, <1>10
  <2> HIDE DEF places
  <2> QED BY <1>9, <2>1, <2>2
<1>12. ASSUME NEW k \in 1..m, NEW l \in 1..m, s[k] = s[l] PROVE k = l
  <2>1. Nth(k) \in 1..n /\ Nth(l) \in 1..n BY <1>8
  <2>2. Nth(k) = Nth(l) BY <1>9, <1>12, <2>1
  <2> QED BY <1>8, <2>2
<1>13. s = [k \in DOMAIN s |-> s[k]]
  <2> HIDE DEF places
  <2> QED BY <1>1 
<1> HIDE DEF places
<1> QED BY <1>2, <1>9, <1>11, <1>12, <1>13 DEF s

\* What every edit of the author leaves of the tree: each file says which it is,
\* and the checker lists sealed files, the protocol among them.
TreeForm(t) ==
  /\ {"verify_seal.py", "protocol.md", "SEAL-MANIFEST.json"} \subseteq DOMAIN t
  /\ \A p \in DOMAIN t : "file" \in DOMAIN t[p] /\ t[p].file = p
  /\ "list" \in DOMAIN t["verify_seal.py"]
  /\ SEALED_PATHS(t) \subseteq Sealed11 /\ "protocol.md" \in SEALED_PATHS(t)

\* An edit of one field of a file, which is not the list of the checker.
LEMMA FieldEdited ==
  ASSUME NEW t, TreeForm(t), NEW p, NEW f, f # "file", NEW v,
         p = "verify_seal.py" => f # "list"
  PROVE  TreeForm([t EXCEPT ![p] = [@ EXCEPT ![f] = v]])
<1> DEFINE file == [t[p] EXCEPT ![f] = v]
           u == [t EXCEPT ![p] = file]
<1>1. DOMAIN u = DOMAIN t /\ \A q \in DOMAIN t : u[q] = IF q = p THEN file ELSE t[q]
  OBVIOUS
<1>2. DOMAIN file = DOMAIN t[p]
      /\ \A g \in DOMAIN t[p] : g # f => file[g] = t[p][g]
  OBVIOUS
<1>3. [t EXCEPT ![p] = [@ EXCEPT ![f] = v]] = u
  OBVIOUS
<1> HIDE DEF file, u
<1>4. \A q \in DOMAIN u : "file" \in DOMAIN u[q] /\ u[q].file = q
  BY <1>1, <1>2 DEF TreeForm
<1>5. "list" \in DOMAIN u["verify_seal.py"] /\ u["verify_seal.py"].list = t["verify_seal.py"].list
  BY <1>1, <1>2 DEF TreeForm
<1>6. SEALED_PATHS(u) = SEALED_PATHS(t)
  BY <1>5 DEF SEALED_PATHS
<1>7. TreeForm(u)
  BY <1>1, <1>4, <1>5, <1>6 DEF TreeForm
<1> QED BY <1>3, <1>7

\* The list of the checker shortened.
LEMMA ListEdited ==
  ASSUME NEW t, TreeForm(t), NEW list \in SUBSET Sealed11, "protocol.md" \in list
  PROVE  TreeForm([t EXCEPT !["verify_seal.py"].list = list])
<1> DEFINE file == [t["verify_seal.py"] EXCEPT !.list = list]
           u == [t EXCEPT !["verify_seal.py"] = file]
<1>1. DOMAIN u = DOMAIN t /\ \A q \in DOMAIN t : u[q] = IF q = "verify_seal.py" THEN file ELSE t[q]
  OBVIOUS
<1>2. DOMAIN file = DOMAIN t["verify_seal.py"] /\ file.list = list /\ file.file = "verify_seal.py"
  BY DEF TreeForm
<1>3. [t EXCEPT !["verify_seal.py"].list = list] = u
  OBVIOUS
<1> HIDE DEF file, u
<1>4. \A q \in DOMAIN u : "file" \in DOMAIN u[q] /\ u[q].file = q
  BY <1>1, <1>2 DEF TreeForm
<1>5. "list" \in DOMAIN u["verify_seal.py"] /\ SEALED_PATHS(u) = list
  BY <1>1, <1>2 DEF TreeForm, SEALED_PATHS
<1>6. TreeForm(u)
  BY <1>1, <1>4, <1>5 DEF TreeForm
<1> QED BY <1>3, <1>6

\* The manifest is the file it says it is.
LEMMA ManifestEdited ==
  ASSUME NEW t, TreeForm(t), NEW m, "file" \in DOMAIN m, m.file = "SEAL-MANIFEST.json"
  PROVE  TreeForm([t EXCEPT !["SEAL-MANIFEST.json"] = m])
<1> DEFINE u == [t EXCEPT !["SEAL-MANIFEST.json"] = m]
<1>1. DOMAIN u = DOMAIN t
      /\ \A q \in DOMAIN t : u[q] = IF q = "SEAL-MANIFEST.json" THEN m ELSE t[q]
  OBVIOUS
<1>2. u["verify_seal.py"] = t["verify_seal.py"]
  BY DEF TreeForm
<1> HIDE DEF u
<1> QED BY <1>1, <1>2 DEF TreeForm, SEALED_PATHS, u

\* A file taken away that no other file is told by.
LEMMA FileTaken ==
  ASSUME NEW t, TreeForm(t)
  PROVE  TreeForm(Restrict(t, DOMAIN t \ {"freeze-provenance.json"}))
<1> DEFINE u == Restrict(t, DOMAIN t \ {"freeze-provenance.json"})
<1>1. u = [q \in DOMAIN t \ {"freeze-provenance.json"} |-> t[q]]
  BY DEF Restrict
<1>2. DOMAIN u = DOMAIN t \ {"freeze-provenance.json"} /\ \A q \in DOMAIN u : u[q] = t[q]
  BY <1>1
<1> HIDE DEF u
<1>3. u["verify_seal.py"] = t["verify_seal.py"]
  BY <1>2 DEF TreeForm
<1> QED BY <1>2, <1>3 DEF TreeForm, SEALED_PATHS, u

\* The manifest rebuilt.
LEMMA ManifestBuilt ==
  ASSUME NEW t, TreeForm(t)
  PROVE  TreeForm(build_seal_manifest(t))
<1> DEFINE bare == [file |-> "SEAL-MANIFEST.json", schema |-> MANIFEST_SCHEMA, prose |-> "",
                    self_sha256 |-> <<>>,
                    files |-> [path \in SEALED_PATHS(t) |-> Digest("sha256", t[path])]]
<1>1. "file" \in DOMAIN Resealed(bare) /\ Resealed(bare).file = "SEAL-MANIFEST.json"
  BY DEF Resealed
<1>2. build_seal_manifest(t) = [t EXCEPT !["SEAL-MANIFEST.json"] = Resealed(bare)]
  BY DEF build_seal_manifest
<1> DEFINE m == Resealed(bare)
<1> HIDE DEF bare
<1>3. "file" \in DOMAIN m /\ m.file = "SEAL-MANIFEST.json" /\ build_seal_manifest(t) = [t EXCEPT !["SEAL-MANIFEST.json"] = m]
  BY <1>1, <1>2
<1> HIDE DEF m
<1>4. TreeForm([t EXCEPT !["SEAL-MANIFEST.json"] = m])
  BY <1>3, ManifestEdited
<1> QED BY <1>3, <1>4

\* Nothing an author does to the tree changes its form.
LEMMA AuthoredForm ==
  ASSUME NEW t, TreeForm(t), NEW u \in Authored(t)
  PROVE  TreeForm(u)
<1>1. CASE u = [t EXCEPT !["decision-rules.json"].says.band = 85]
  <2> DEFINE v == [t["decision-rules.json"].says EXCEPT !.band = 85]
  <2>1. u = [t EXCEPT !["decision-rules.json"] = [@ EXCEPT !["says"] = v]] BY <1>1
  <2> HIDE DEF v
  <2> QED BY <2>1, FieldEdited
<1>2. CASE u = [t EXCEPT !["arm-spec.json"].says.shared.ollama_version = "0.33.0"]
  <2> DEFINE v == [t["arm-spec.json"].says EXCEPT !.shared.ollama_version = "0.33.0"]
  <2>1. u = [t EXCEPT !["arm-spec.json"] = [@ EXCEPT !["says"] = v]] BY <1>2
  <2> HIDE DEF v
  <2> QED BY <2>1, FieldEdited
<1>3. CASE u = [t EXCEPT !["protocol.md"].prose = "\n"]
  <2>1. u = [t EXCEPT !["protocol.md"] = [@ EXCEPT !["prose"] = "\n"]] BY <1>3
  <2> QED BY <2>1, FieldEdited
<1>4. CASE u = [t EXCEPT !["render_decision_rules.py"].list = {"the old band"}]
  <2> DEFINE v == {"the old band"}
  <2>1. u = [t EXCEPT !["render_decision_rules.py"] = [@ EXCEPT !["list"] = v]] BY <1>4
  <2> HIDE DEF v
  <2> QED BY <2>1, FieldEdited
<1>5. CASE u = [t EXCEPT !["apply_decision_rules.py"].imports = @ \cup {"verify_data_hashes.py"}]
  <2> DEFINE v == t["apply_decision_rules.py"].imports \cup {"verify_data_hashes.py"}
  <2>1. u = [t EXCEPT !["apply_decision_rules.py"] = [@ EXCEPT !["imports"] = v]] BY <1>5
  <2> HIDE DEF v
  <2> QED BY <2>1, FieldEdited
<1>6. CASE u = [t EXCEPT !["main.md"].says = OtherBand(@)]
  <2> DEFINE v == OtherBand(t["main.md"].says)
  <2>1. u = [t EXCEPT !["main.md"] = [@ EXCEPT !["says"] = v]] BY <1>6
  <2> HIDE DEF v
  <2> QED BY <2>1, FieldEdited
<1>7. CASE u = Restrict(t, DOMAIN t \ {"freeze-provenance.json"})
  BY <1>7, FileTaken
<1>8. ASSUME NEW path \in {"main.md", "protocol.md"} PROVE TreeForm(RenderInto(t, path))
  <2> DEFINE text == t[path].says
             first == CHOOSE i \in DOMAIN text : text[i] = Begin
             last == CHOOSE i \in DOMAIN text : text[i] = End
             v == SubSeq(text, 1, first - 1) \o render(t) \o SubSeq(text, last + 1, Len(text))
  <2>1. RenderInto(t, path) = [t EXCEPT ![path] = [@ EXCEPT !["says"] = v]]
    BY DEF RenderInto
  <2> HIDE DEF v
  <2>2. TreeForm([t EXCEPT ![path] = [@ EXCEPT !["says"] = v]])
    BY FieldEdited
  <2> QED BY <2>1, <2>2
<1>9. ASSUME NEW lost \in Losable PROVE TreeForm([t EXCEPT !["verify_seal.py"].list = Sealed11 \ lost])
  <2>1. (Sealed11 \ lost) \in SUBSET Sealed11 /\ "protocol.md" \in Sealed11 \ lost
    BY ElevenPaths DEF Losable
  <2> QED BY <2>1, ListEdited
<1>10. CASE u = build_seal_manifest(t)
  BY <1>10, ManifestBuilt
<1> QED BY <1>1, <1>2, <1>3, <1>4, <1>5, <1>6, <1>7, <1>8, <1>9, <1>10 DEF Authored

\* The tree has it when it is sealed.
LEMMA SealedForm == TreeForm(SealedTree)
<1>1. DOMAIN Unrendered = Sealed11 \cup {"main.md", "SEAL-MANIFEST.json"}
  BY DEF Unrendered
<1>2. ASSUME NEW p \in DOMAIN Unrendered PROVE "file" \in DOMAIN Unrendered[p] /\ Unrendered[p].file = p
  <2>1. \A says : "file" \in DOMAIN Document(p, says) /\ Document(p, says).file = p
    BY DEF Document
  <2>2. \A i, l : "file" \in DOMAIN Script(p, i, l) /\ Script(p, i, l).file = p
    BY DEF Script
  <2>3. (\E says : Unrendered[p] = Document(p, says)) \/ \E i, l : Unrendered[p] = Script(p, i, l)
    BY <1>1 DEF Unrendered
  <2> QED BY <2>1, <2>2, <2>3
<1>3. Unrendered["verify_seal.py"] = Script("verify_seal.py", {"_provenance.py", "render_decision_rules.py"}, Sealed11)
  BY ElevenPaths DEF Unrendered
<1>4. "list" \in DOMAIN Unrendered["verify_seal.py"] /\ SEALED_PATHS(Unrendered) = Sealed11
  <2>1. \A p, i, l : "list" \in DOMAIN Script(p, i, l) /\ Script(p, i, l).list = l
    BY DEF Script
  <2> QED BY <1>3, <2>1 DEF SEALED_PATHS
<1>5. TreeForm(Unrendered)
  BY <1>1, <1>2, <1>4, ElevenPaths DEF TreeForm
<1> DEFINE a == <<<<"protocol">>>> \o render(Unrendered)
           b == <<<<"paper">>>> \o render(Unrendered) \o <<<<"rest">>>>
           once == [Unrendered EXCEPT !["protocol.md"] = [@ EXCEPT !["says"] = a]]
<1>6. Drafted = [once EXCEPT !["main.md"] = [@ EXCEPT !["says"] = b]]
  <2>1. Drafted = [Unrendered EXCEPT !["protocol.md"].says = a, !["main.md"].says = b]
    BY DEF Drafted
  <2> HIDE DEF a, b
  <2> QED BY <2>1
<1> HIDE DEF a, b
<1>7. TreeForm(once)
  BY <1>5, FieldEdited
<1> HIDE DEF once
<1>8. TreeForm(Drafted)
  BY <1>6, <1>7, FieldEdited
<1>9. SealedTree = build_seal_manifest(Drafted)
  BY DEF SealedTree, Drafted
<1> QED BY <1>8, <1>9, ManifestBuilt

\* A moment of the past that names its zone.
Past(value, now) == value.at \in Nat /\ value.at <= now /\ value.zone = TRUE

\* A deposited file, whose bytes the archive held from when it was updated.
FileHeld(e, now, ever) ==
  /\ Past(e.created, now) /\ Past(e.updated, now)
  /\ \E bytes : e.checksum = Digest("md5", bytes) /\ e.size = Size(bytes)
  /\ <<e.checksum, e.updated.at>> \in ever

\* Deposited files in a row, each under its own name.
Row(files, now, ever) ==
  /\ \E n \in Nat : IsRow(files, n)
  /\ \A k \in DOMAIN files : FileHeld(files[k], now, ever)
  /\ \A k, l \in DOMAIN files : files[k].key = files[l].key => k = l

\* The record of the archive.
RecordForm(a, now, ever) ==
  /\ a = [created |-> a.created, updated |-> a.updated, registered |-> a.registered, files |-> a.files]
  /\ Past(a.created, now) /\ Past(a.updated, now) /\ Past(a.registered, now)
  /\ Row(a.files, now, ever)

\* A collected witness: the archive held what it lists no later than its anchor.
WitnessForm(w, ever) ==
  /\ \E n \in Nat : IsRow(w.deposit_files, n)
  /\ \A k \in DOMAIN w.deposit_files :
       LET e == w.deposit_files[k] IN
       <<e.checksum, e.updated.at>> \in ever /\ e.updated.at <= w.latest.at

\* The latest of some times is one of them and after them all.
LEMMA LatestIsLast ==
  ASSUME NEW sources, NEW S \in SUBSET Nat, S # {}, NEW now \in Nat,
         \A i \in S : Past(sources[i].value, now)
  PROVE  \E b \in S : /\ Latest(sources, S) = sources[b].value
                      /\ \A j \in S : sources[j].value.at <= sources[b].value.at
<1> DEFINE at(i) == sources[i].value.at
           T == {now - at(i) : i \in S}
           Best(i) == \A j \in S : at(j) < at(i) \/ (at(j) = at(i) /\ i <= j)
<1>1. \A i \in S : at(i) \in Nat /\ at(i) <= now /\ i \in Nat
  BY DEF Past
<1>2. T \in SUBSET Nat /\ T # {}
  <2> HIDE DEF at
  <2>1. \A i \in S : now - at(i) \in Nat BY <1>1
  <2> QED BY <2>1
<1>3. PICK x \in T : \A y \in T : x <= y
  <2> HIDE DEF T
  <2> QED BY <1>2, Smallest
<1>4. PICK m \in S : x = now - at(m)
  OBVIOUS
<1>5. \A j \in S : at(j) <= at(m)
  <2> HIDE DEF at
  <2>1. ASSUME NEW j \in S PROVE at(j) <= at(m)
    <3>1. now - at(m) <= now - at(j) BY <1>3, <1>4
    <3>2. PICK p \in Nat : p = at(j) BY <1>1
    <3>3. PICK q \in Nat : q = at(m) BY <1>1
    <3>4. now - q <= now - p BY <3>1, <3>2, <3>3
    <3>5. p <= q BY <3>4
    <3> QED BY <3>2, <3>3, <3>5
  <2> QED BY <2>1
<1> DEFINE U == {i \in S : at(i) = at(m)}
<1>6. U \in SUBSET Nat /\ U # {}
  OBVIOUS
<1>7. PICK b \in U : \A j \in U : b <= j
  <2> HIDE DEF U
  <2> QED BY <1>6, Smallest
<1>8. Best(b)
  <2> HIDE DEF at
  <2>1. ASSUME NEW j \in S PROVE at(j) < at(b) \/ (at(j) = at(b) /\ b <= j)
    <3>1. at(b) = at(m) /\ at(j) <= at(m) /\ at(j) \in Nat /\ at(m) \in Nat
      BY <1>1, <1>5, <1>7
    <3>2. at(j) = at(m) => b <= j BY <1>7
    <3> QED BY <3>1, <3>2
  <2> QED BY <2>1
<1> DEFINE best == CHOOSE i \in S : Best(i)
<1>9. best \in S /\ Best(best)
  <2>1. b \in S OBVIOUS
  <2> HIDE DEF Best
  <2> QED BY <1>8, <2>1
<1>10. Latest(sources, S) = sources[best].value
  BY DEF Latest
<1>11. \A j \in S : at(j) <= at(best)
  <2> HIDE DEF at, best
  <2> QED BY <1>1, <1>9
<1> HIDE DEF best
<1> QED BY <1>9, <1>10, <1>11

\* The time sources of a witness that is collected.
SourcesOf(a, reason) ==
  time_sources(a, <<>>) \o (IF reason = "" THEN <<Source(Registered, a.registered)>> ELSE <<>>)

\* What a time of a deposited file is called.
FileSource(e, field) == <<"files", e.key, field>>

\* Where each of them is: the record's, two for each file, and the registry's.
Arranged(a, n, reason, s, last) ==
  /\ IsRow(s, last) /\ 2 * n + 2 <= last
  /\ s[1] = Source(<<"record", "created">>, a.created)
  /\ s[2] = Source(<<"record", "updated">>, a.updated)
  /\ \A h \in 1..n : /\ s[2 * h + 1] = Source(FileSource(a.files[h], "created"), a.files[h].created)
                     /\ s[2 * h + 2] = Source(FileSource(a.files[h], "updated"), a.files[h].updated)
  /\ reason = "" => 2 * n + 3 = last /\ s[last] = Source(Registered, a.registered)
  /\ \A i \in 1..last : i = 1 \/ i = 2 \/ (reason = "" /\ i = last)
                        \/ \E h \in 1..n : i = 2 * h + 1 \/ i = 2 * h + 2

\* time_sources puts them there.
LEMMA EverySource ==
  ASSUME NEW a, NEW n \in Nat, IsRow(a.files, n), NEW reason
  PROVE  \E last \in Nat : Arranged(a, n, reason, SourcesOf(a, reason), last)
<1> DEFINE first == <<Source(<<"record", "created">>, a.created), Source(<<"record", "updated">>, a.updated)>>
           Of(k) == LET file == a.files[(k + 1) \div 2]
                    IN  IF k % 2 = 1 THEN Source(<<"files", file.key, "created">>, file.created)
                        ELSE Source(<<"files", file.key, "updated">>, file.updated)
           mid == [k \in 1..(2 * n) |-> Of(k)]
           registry == IF reason = "" THEN <<Source(Registered, a.registered)>> ELSE <<>>
           s == SourcesOf(a, reason)
<1>1. Len(a.files) = n
  BY RowsLength
<1>2. s = (first \o mid) \o registry
  BY <1>1 DEF SourcesOf, time_sources
<1>3. /\ IsRow(first, 2)
      /\ first[1] = Source(<<"record", "created">>, a.created)
      /\ first[2] = Source(<<"record", "updated">>, a.updated)
  <2> DEFINE p == Source(<<"record", "created">>, a.created)
             q == Source(<<"record", "updated">>, a.updated)
  <2> HIDE DEF p, q
  <2>1. /\ IsRow(<<p, q>>, 2) /\ <<p, q>>[1] = p /\ <<p, q>>[2] = q
    BY DEF IsRow
  <2> QED BY <2>1 DEF p, q
<1>4. IsRow(mid, 2 * n) /\ \A k \in 1..(2 * n) : mid[k] = Of(k)
  <2> HIDE DEF Of
  <2> QED BY DEF IsRow
<1>5. ASSUME NEW h \in 1..n
      PROVE  /\ mid[2 * h - 1] = Source(FileSource(a.files[h], "created"), a.files[h].created)
             /\ mid[2 * h] = Source(FileSource(a.files[h], "updated"), a.files[h].updated)
  <2>1. (2 * h - 1 + 1) \div 2 = h /\ (2 * h - 1) % 2 = 1 /\ (2 * h + 1) \div 2 = h /\ (2 * h) % 2 # 1
        /\ 2 * h - 1 \in 1..(2 * n) /\ 2 * h \in 1..(2 * n)
    OBVIOUS
  <2> HIDE DEF mid
  <2>2. mid[2 * h - 1] = Of(2 * h - 1) /\ mid[2 * h] = Of(2 * h)
    <3> HIDE DEF Of
    <3> QED BY <1>4, <2>1
  <2> QED BY <2>1, <2>2 DEF FileSource
<1>6. \E q \in Nat : /\ q <= 1 /\ (reason = "" <=> q = 1) /\ IsRow(registry, q)
                     /\ (q = 1 => registry[1] = Source(Registered, a.registered))
  <2> DEFINE p == Source(Registered, a.registered)
  <2> HIDE DEF p
  <2>1. IsRow(<<p>>, 1) /\ <<p>>[1] = p /\ IsRow(<<>>, 0)
    BY DEF IsRow
  <2>2. CASE reason = ""
    <3>1. registry = <<p>> BY <2>2 DEF p
    <3> HIDE DEF registry
    <3>2. 1 <= 1 /\ IsRow(registry, 1) /\ registry[1] = p BY <2>1, <3>1
    <3> QED BY <2>2, <3>2 DEF p
  <2>3. CASE reason # ""
    <3>1. registry = <<>> BY <2>3
    <3> HIDE DEF registry
    <3>2. 0 <= 1 /\ 0 # 1 /\ IsRow(registry, 0) BY <2>1, <3>1
    <3> QED BY <2>3, <3>2
  <2> QED BY <2>2, <2>3
<1> HIDE DEF first, mid, s, registry, Of
<1>7. PICK k \in Nat : k = 2 * n
  <2>1. 2 * n \in Nat OBVIOUS
  <2> QED BY <2>1
<1>8. PICK q \in Nat : /\ q <= 1 /\ (reason = "" <=> q = 1) /\ IsRow(registry, q)
                       /\ (q = 1 => registry[1] = Source(Registered, a.registered))
  BY <1>6
<1>9. PICK m \in Nat : m = 2 + k
  OBVIOUS
<1>10. PICK last \in Nat : last = m + q
  OBVIOUS
<1> DEFINE two == Joined(first, mid)
<1>11. s = Joined(two, registry) BY <1>2 DEF Joined
<1> HIDE DEF two
<1>12. two = Joined(first, mid) BY DEF two
<1>13. IsRow(first, 2) /\ IsRow(mid, k) /\ IsRow(registry, q)
  BY <1>3, <1>4, <1>7, <1>8
<1>14. q <= 1 BY <1>8
<1>15. /\ IsRow(two, m) /\ (\A i \in 1..2 : two[i] = first[i])
      /\ \A i \in 1..k : two[2 + i] = mid[i]
  BY <1>9, <1>12, <1>13, RowAfterRow
<1>16. /\ IsRow(s, last) /\ (\A i \in 1..m : s[i] = two[i])
      /\ \A i \in 1..q : s[m + i] = registry[i]
  BY <1>10, <1>11, <1>13, <1>15, RowAfterRow
<1>17. s[1] = first[1] /\ s[2] = first[2]
  <2>1. 1 \in 1..m /\ 2 \in 1..m /\ 1 \in 1..2 /\ 2 \in 1..2 BY <1>9
  <2> QED BY <1>15, <1>16, <2>1
<1>18. ASSUME NEW h \in 1..n PROVE s[2 * h + 1] = mid[2 * h - 1] /\ s[2 * h + 2] = mid[2 * h]
  <2>1. /\ 2 * h + 1 \in 1..m /\ 2 * h - 1 \in 1..k /\ 2 + (2 * h - 1) = 2 * h + 1
        /\ 2 * h + 2 \in 1..m /\ 2 * h \in 1..k /\ 2 + 2 * h = 2 * h + 2
    BY <1>7, <1>9
  <2>2. two[2 + (2 * h - 1)] = mid[2 * h - 1] BY <1>15, <2>1
  <2>3. two[2 + 2 * h] = mid[2 * h] BY <1>15, <2>1
  <2> QED BY <1>16, <2>1, <2>2, <2>3
<1>19. ASSUME q = 1 PROVE s[last] = registry[1]
  <2>1. m + 1 = last /\ 1 \in 1..q
    BY <1>10, <1>19
  <2>2. s[m + 1] = registry[1] BY <2>1, <1>16
  <2> QED BY <2>1, <2>2
<1>20. ASSUME NEW i \in 1..last
       PROVE  i = 1 \/ i = 2 \/ (q = 1 /\ i = last) \/ \E h \in 1..n : i = 2 * h + 1 \/ i = 2 * h + 2
  <2>1. i \in Int OBVIOUS
  <2>2. CASE i \in 1..(2 * n + 2) /\ i > 2
    <3> DEFINE h == (i - 1) \div 2
    <3>1. h \in Int /\ (i = 2 * h + 1 \/ i = 2 * h + 2) BY <2>1
    <3> HIDE DEF h
    <3>2. h \in 1..n BY <2>2, <3>1
    <3> QED BY <3>1, <3>2
  <2>3. i = 1 \/ i = 2 \/ (q = 1 /\ i = last) \/ (i \in 1..(2 * n + 2) /\ i > 2)
    BY <1>7, <1>9, <1>10, <1>14
  <2> QED BY <2>2, <2>3
<1>21. /\ IsRow(s, last) /\ s[1] = first[1] /\ s[2] = first[2]
       /\ \A h \in 1..n : s[2 * h + 1] = mid[2 * h - 1] /\ s[2 * h + 2] = mid[2 * h]
       /\ q = 1 => s[last] = registry[1]
       /\ \A i \in 1..last :
               i = 1 \/ i = 2 \/ (q = 1 /\ i = last) \/ \E h \in 1..n : i = 2 * h + 1 \/ i = 2 * h + 2
  BY <1>16, <1>17, <1>18, <1>19, <1>20
<1>22. 2 * n + 2 <= last /\ (q = 1 => 2 * n + 3 = last)
  BY <1>7, <1>9, <1>10
<1>23. \A h \in 1..n : /\ s[2 * h + 1] = Source(FileSource(a.files[h], "created"), a.files[h].created)
                       /\ s[2 * h + 2] = Source(FileSource(a.files[h], "updated"), a.files[h].updated)
  BY <1>5, <1>21
<1>24. /\ reason = "" => 2 * n + 3 = last /\ s[last] = Source(Registered, a.registered)
       /\ \A i \in 1..last : i = 1 \/ i = 2 \/ (reason = "" /\ i = last)
                             \/ \E h \in 1..n : i = 2 * h + 1 \/ i = 2 * h + 2
  BY <1>8, <1>21, <1>22
<1>25. s[1] = Source(<<"record", "created">>, a.created) /\ s[2] = Source(<<"record", "updated">>, a.updated)
  BY <1>3, <1>21
<1>26. IsRow(s, last) BY <1>21
<1>27. Arranged(a, n, reason, s, last)
  BY <1>22, <1>23, <1>24, <1>25, <1>26 DEF Arranged
<1> QED BY <1>27 DEF s

\* What they are.
FileSources(e) == {Source(FileSource(e, "created"), e.created), Source(FileSource(e, "updated"), e.updated)}

\* All of them, in no order.
SourceSet(a, reason) ==
  {Source(<<"record", "created">>, a.created), Source(<<"record", "updated">>, a.updated)}
    \cup (IF reason = "" THEN {Source(Registered, a.registered)} ELSE {})
    \cup (UNION {FileSources(a.files[h]) : h \in DOMAIN a.files})

\* They are the sources that are arranged so, and no other.
LEMMA SourcesAre ==
  ASSUME NEW a, NEW n \in Nat, IsRow(a.files, n), NEW reason, NEW s, NEW last \in Nat,
         Arranged(a, n, reason, s, last)
  PROVE  {s[i] : i \in 1..last} = SourceSet(a, reason)
<1>1. DOMAIN a.files = 1..n
  BY RowsLength
<1>2. 2 * n + 2 <= last
  BY DEF Arranged
<1>3. \A h \in 1..n : 2 * h + 1 \in 1..last /\ 2 * h + 2 \in 1..last
  BY <1>2
<1>4. 1 \in 1..last /\ 2 \in 1..last /\ last \in 1..last
  BY <1>2
<1>5. \A h \in 1..n : FileSources(a.files[h]) = {s[2 * h + 1], s[2 * h + 2]}
  BY DEF Arranged, FileSources
<1>6. ASSUME NEW i \in 1..last PROVE s[i] \in SourceSet(a, reason)
  <2>1. CASE i = 1 \/ i = 2 \/ (reason = "" /\ i = last)
    BY <2>1 DEF Arranged, SourceSet
  <2>2. ASSUME NEW h \in 1..n, i = 2 * h + 1 \/ i = 2 * h + 2 PROVE s[i] \in SourceSet(a, reason)
    <3>1. s[i] \in FileSources(a.files[h]) BY <1>5, <2>2
    <3> QED BY <1>1, <3>1 DEF SourceSet
  <2> QED BY <2>1, <2>2 DEF Arranged
<1>7. ASSUME NEW x \in SourceSet(a, reason) PROVE \E i \in 1..last : x = s[i]
  <2>1. CASE x \in {s[1], s[2]} BY <1>4, <2>1
  <2>2. CASE reason = "" /\ x = s[last] BY <1>4, <2>2
  <2>3. ASSUME NEW h \in 1..n, x \in FileSources(a.files[h]) PROVE \E i \in 1..last : x = s[i]
    <3>1. x = s[2 * h + 1] \/ x = s[2 * h + 2] BY <1>5, <2>3
    <3>2. 2 * h + 1 \in 1..last /\ 2 * h + 2 \in 1..last BY <1>3
    <3> QED BY <3>1, <3>2
  <2>4. x \in {s[1], s[2]} \/ (reason = "" /\ x = s[last]) \/ \E h \in 1..n : x \in FileSources(a.files[h])
    BY <1>1 DEF Arranged, SourceSet
  <2> QED BY <2>1, <2>2, <2>3, <2>4
<1> QED BY <1>6, <1>7

\* What a collected witness says, of the archive it was collected from.
LEMMA Collected ==
  ASSUME NEW t, NEW a, NEW reason
  PROVE  LET w == collect(t, a, reason) IN
         /\ w.schema = WITNESS_SCHEMA /\ w.reason = reason
         /\ w.time_sources = SourcesOf(a, reason) /\ w.deposit_files = a.files
         /\ w.files = match_by_content(t, a.files)
         /\ w.latest = Latest(SourcesOf(a, reason), DOMAIN SourcesOf(a, reason))
<1> DEFINE f == match_by_content(t, a.files)
           s == SourcesOf(a, reason)
           v == Latest(s, DOMAIN s)
<1>1. collect(t, a, reason) =
        [schema |-> WITNESS_SCHEMA, latest |-> v, time_sources |-> s,
         deposit_files |-> a.files, files |-> f, reason |-> reason]
  BY DEF collect, SourcesOf, time_sources
<1> HIDE DEF f, s, v
<1> QED BY <1>1 DEF f, s, v

\* Every time of a collected witness is of the past and names its zone, and its
\* anchor is the latest of them.
LEMMA AnchorIsLast ==
  ASSUME NEW a, NEW now \in Nat, NEW ever, RecordForm(a, now, ever), NEW reason
  PROVE  LET s == SourcesOf(a, reason) IN
         /\ \A i \in DOMAIN s : Past(s[i].value, now) /\ s[i].value.at <= Latest(s, DOMAIN s).at
         /\ \A k \in DOMAIN a.files : a.files[k].updated.at <= Latest(s, DOMAIN s).at
<1> DEFINE s == SourcesOf(a, reason)
<1>1. PICK n \in Nat : IsRow(a.files, n)
  BY DEF RecordForm, Row
<1>2. PICK last \in Nat : Arranged(a, n, reason, s, last)
  BY <1>1, EverySource
<1> HIDE DEF s
<1>3. IsRow(s, last) /\ 2 * n + 2 <= last
  BY <1>2 DEF Arranged
<1>4. DOMAIN s = 1..last /\ DOMAIN a.files = 1..n
  BY <1>1, <1>3, RowsLength
<1>5. {s[i] : i \in 1..last} = SourceSet(a, reason)
  BY <1>1, <1>2, SourcesAre
<1>6. \A name, value : Source(name, value).value = value
  BY DEF Source
<1>7. ASSUME NEW x \in SourceSet(a, reason) PROVE Past(x.value, now)
  <2>1. Past(a.created, now) /\ Past(a.updated, now) /\ Past(a.registered, now)
    BY DEF RecordForm
  <2>2. \A h \in DOMAIN a.files : Past(a.files[h].created, now) /\ Past(a.files[h].updated, now)
    BY DEF RecordForm, Row, FileHeld
  <2>3. ASSUME NEW h \in DOMAIN a.files, x \in FileSources(a.files[h]) PROVE Past(x.value, now)
    BY <1>6, <2>2, <2>3 DEF FileSources
  <2>4. CASE x = Source(<<"record", "created">>, a.created) \/ x = Source(<<"record", "updated">>, a.updated)
             \/ x = Source(Registered, a.registered)
    BY <1>6, <2>1, <2>4
  <2> QED BY <2>3, <2>4 DEF SourceSet
<1>8. \A i \in 1..last : Past(s[i].value, now)
  BY <1>5, <1>7
<1>9. 1..last \in SUBSET Nat /\ 1..last # {}
  <2>1. 1 \in 1..last BY <1>3
  <2> QED BY <2>1
<1>10. PICK b \in 1..last : /\ Latest(s, 1..last) = s[b].value
                            /\ \A j \in 1..last : s[j].value.at <= s[b].value.at
  BY <1>8, <1>9, LatestIsLast
<1>11. ASSUME NEW k \in DOMAIN a.files PROVE a.files[k].updated.at <= s[b].value.at
  <2> DEFINE x == Source(FileSource(a.files[k], "updated"), a.files[k].updated)
  <2>1. x \in FileSources(a.files[k]) /\ x.value = a.files[k].updated
    BY <1>6 DEF FileSources
  <2> HIDE DEF x
  <2>2. x \in SourceSet(a, reason)
    BY <2>1 DEF SourceSet
  <2>3. PICK j \in 1..last : s[j] = x BY <1>5, <2>2
  <2> QED BY <1>10, <2>1, <2>3
<1>12. Latest(s, DOMAIN s) = s[b].value
  BY <1>4, <1>10
<1> QED BY <1>4, <1>8, <1>10, <1>11, <1>12 DEF s

\* The files of a collected witness are held, and held no later than its anchor.
LEMMA CollectedForm ==
  ASSUME NEW t, NEW a, NEW now \in Nat, NEW ever, RecordForm(a, now, ever), NEW reason
  PROVE  WitnessForm(collect(t, a, reason), ever)
<1> DEFINE w == collect(t, a, reason)
<1>1. w.deposit_files = a.files /\ w.latest = Latest(SourcesOf(a, reason), DOMAIN SourcesOf(a, reason))
  BY Collected
<1> HIDE DEF w
<1>2. \A k \in DOMAIN a.files : a.files[k].updated.at <= w.latest.at
  BY <1>1, AnchorIsLast
<1>3. \A k \in DOMAIN a.files : <<a.files[k].checksum, a.files[k].updated.at>> \in ever
  BY DEF RecordForm, Row, FileHeld
<1> QED BY <1>1, <1>2, <1>3 DEF WitnessForm, RecordForm, Row, w

\* What stays true as time passes and more is held.
LEMMA RowStays ==
  ASSUME NEW files, NEW now \in Nat, NEW ever, Row(files, now, ever),
         NEW then \in Nat, now <= then, NEW more, ever \subseteq more
  PROVE  Row(files, then, more)
<1>1. \A v : Past(v, now) => Past(v, then)
  BY DEF Past
<1>2. \A e : FileHeld(e, now, ever) => FileHeld(e, then, more)
  BY <1>1 DEF FileHeld
<1> QED BY <1>2 DEF Row

\* So does the record of the archive.
LEMMA RecordStays ==
  ASSUME NEW a, NEW now \in Nat, NEW ever, RecordForm(a, now, ever),
         NEW then \in Nat, now <= then, NEW more, ever \subseteq more
  PROVE  RecordForm(a, then, more)
<1>1. \A v : Past(v, now) => Past(v, then)
  BY DEF Past
<1>2. Row(a.files, then, more)
  BY RowStays DEF RecordForm
<1> QED BY <1>1, <1>2 DEF RecordForm

\* So does a witness, which does not change.
LEMMA WitnessStays ==
  ASSUME NEW w, NEW ever, WitnessForm(w, ever), NEW more, ever \subseteq more
  PROVE  WitnessForm(w, more)
BY DEF WitnessForm

-----------------------------------------------------------------------------
\* The tree, the archive and the witness, while no case stands.
SealInv ==
  /\ clock \in Nat
  /\ case = "" =>
       /\ TreeForm(tree) /\ RecordForm(archive, clock, held)
       /\ witness # <<>> => witness = <<witness[1]>> /\ WitnessForm(witness[1], held)

\* A case has a name.
LEMMA CaseNamed ==
  ASSUME NEW t
  PROVE  /\ "" \notin DOMAIN CASES /\ "" \notin DOMAIN SealCases(t)
         /\ "" \notin DOMAIN WitnessCases(t) /\ "" \notin DOMAIN RunCases(t)
<1>1. "" \notin DOMAIN CASES
  BY DEF CASES
<1>2. "" \notin DOMAIN SealCases(t)
  BY DEF SealCases
<1>3. \A a, b : DOMAIN Beside(a, b) = DOMAIN a \cup DOMAIN b
  BY DEF Beside
<1>4. "" \notin DOMAIN EntryCases(t)
  BY DEF EntryCases
<1>5. "" \notin DOMAIN AnchorCases(t)
  BY DEF AnchorCases
<1>6. "" \notin DOMAIN FieldCases(t)
  BY DEF FieldCases
<1>7. "" \notin DOMAIN ThresholdCases(t)
  BY DEF ThresholdCases
<1>8. "" \notin DOMAIN WitnessCases(t)
  BY <1>3, <1>4, <1>5 DEF WitnessCases
<1>9. "" \notin DOMAIN RunCases(t)
  BY <1>3, <1>6, <1>7 DEF RunCases
<1> QED BY <1>1, <1>2, <1>8, <1>9

\* What is deposited now.
LEMMA JustDeposited ==
  ASSUME clock \in Nat, NEW path, NEW key
  PROVE  LET e == Deposited(path, key) IN
         /\ e.key = key /\ e.checksum = Digest("md5", tree[path]) /\ e.size = Size(tree[path])
         /\ e.created = Now /\ e.updated = Now /\ Now.at = clock + 1 /\ Past(Now, clock + 1)
BY DEF Deposited, Now, Past

\* The sealed paths are eleven, each once.
LEMMA SealedRow ==
  /\ IsRow(SealedPaths, 11) /\ {SealedPaths[i] : i \in 1..11} = Sealed11
  /\ \A i, j \in 1..11 : SealedPaths[i] = SealedPaths[j] => i = j
<1>1. DOMAIN SealedPaths = 1..11 /\ IsRow(SealedPaths, 11)
  BY DEF SealedPaths, IsRow
<1>2. /\ SealedPaths[1] = "freeze-provenance.json"
      /\ SealedPaths[2] = "_provenance.py"
      /\ SealedPaths[3] = "apply_decision_rules.py"
      /\ SealedPaths[4] = "check_seal_scope.py"
      /\ SealedPaths[5] = "collect_zenodo_witness.py"
      /\ SealedPaths[6] = "render_decision_rules.py"
      /\ SealedPaths[7] = "verify_seal.py"
      /\ SealedPaths[8] = "repro.sh"
      /\ SealedPaths[9] = "arm-spec.json"
      /\ SealedPaths[10] = "decision-rules.json"
      /\ SealedPaths[11] = "protocol.md"
  BY DEF SealedPaths
<1>3. \A i \in 1..11 : i = 1 \/ i = 2 \/ i = 3 \/ i = 4 \/ i = 5 \/ i = 6 \/ i = 7
                       \/ i = 8 \/ i = 9 \/ i = 10 \/ i = 11
  OBVIOUS
<1>4. {SealedPaths[i] : i \in 1..11} = Sealed11
  BY <1>1 DEF Sealed11, Range
<1>5. ASSUME NEW i \in 1..11, NEW j \in 1..11, SealedPaths[i] = SealedPaths[j] PROVE i = j
  BY <1>2, <1>3, <1>5
<1> QED BY <1>1, <1>4, <1>5

\* What is published: the sealed files that are there and the manuscript, each
\* under its path, after a copy of one of them under another name.
Published == InOrder(SealedPaths \o <<"main.md">>, DOMAIN tree)

\* No path is published twice, nor is one the name of the copy.
LEMMA PublishedPaths ==
  /\ \E m \in Nat : IsRow(Published, m)
  /\ \A k, l \in DOMAIN Published : Published[k] = Published[l] => k = l
  /\ \A k \in DOMAIN Published : Published[k] # "copy of the protocol"
<1> DEFINE one == <<"main.md">>
           paths == Joined(SealedPaths, one)
<1>1. IsRow(one, 1) /\ one[1] = "main.md"
  BY DEF IsRow
<1> HIDE DEF one
<1>2. IsRow(paths, 11 + 1) /\ (\A i \in 1..11 : paths[i] = SealedPaths[i]) /\ \A i \in 1..1 : paths[11 + i] = one[i]
  BY <1>1, SealedRow, RowAfterRow
<1> HIDE DEF paths
<1>3. DOMAIN paths = 1..12 /\ 12 \in Nat /\ \A i \in 1..12 : i = 12 \/ i \in 1..11
  <2>1. 11 + 1 = 12 /\ 12 \in Nat /\ \A i \in 1..12 : i = 12 \/ i \in 1..11 OBVIOUS
  <2>2. IsRow(paths, 12) BY <1>2, <2>1
  <2>3. DOMAIN paths = 1..12 BY <2>2 DEF IsRow
  <2> QED BY <2>1, <2>3
<1>4. paths[12] = "main.md"
  <2>1. 1 \in 1..1 /\ 11 + 1 = 12 OBVIOUS
  <2> QED BY <1>1, <1>2, <2>1
<1>5. \A i \in 1..11 : paths[i] \in Sealed11
  BY <1>2, SealedRow
<1>6. "main.md" \notin Sealed11 /\ "copy of the protocol" \notin Sealed11
  BY ElevenPaths
<1>7. ASSUME NEW i \in 1..12, NEW j \in 1..12, paths[i] = paths[j] PROVE i = j
  <2>1. CASE i \in 1..11 /\ j \in 1..11 BY <1>2, <1>7, <2>1, SealedRow
  <2> QED BY <1>7, <1>3, <1>4, <1>5, <1>6, <2>1
<1>8. \A i \in 1..12 : paths[i] # "copy of the protocol"
  BY <1>3, <1>4, <1>5, <1>6
<1> HIDE DEF paths
<1> DEFINE s == InOrder(paths, DOMAIN tree)
<1>9. /\ \E m \in Nat : DOMAIN s = 1..m
      /\ s = [k \in DOMAIN s |-> s[k]]
      /\ {s[k] : k \in DOMAIN s} = {paths[i] : i \in 1..12} \cap DOMAIN tree
      /\ \A k, l \in DOMAIN s : s[k] = s[l] => k = l
  BY <1>3, <1>7, InOrderLists
<1>10. s = Published
  BY DEF Published, paths, one, Joined
<1> HIDE DEF s
<1>11. \E m \in Nat : IsRow(s, m)
  BY <1>9 DEF IsRow
<1>12. \A k \in DOMAIN s : s[k] # "copy of the protocol"
  <2>1. \A k \in DOMAIN s : \E i \in 1..12 : s[k] = paths[i]
    <3>1. {s[k] : k \in DOMAIN s} \subseteq {paths[i] : i \in 1..12}
      BY <1>9
    <3> QED BY <3>1
  <2> QED BY <1>8, <2>1
<1>13. \A k, l \in DOMAIN s : s[k] = s[l] => k = l
  BY <1>9
<1> QED BY <1>10, <1>11, <1>12, <1>13

\* Files in a row of which one is replaced, and one before all others.
LEMMA OneReplaced ==
  ASSUME NEW now, NEW ever, NEW files, Row(files, now, ever), NEW k \in DOMAIN files,
         NEW e, FileHeld(e, now, ever), e.key = files[k].key
  PROVE  Row([files EXCEPT ![k] = e], now, ever)
<1> DEFINE u == [files EXCEPT ![k] = e]
<1>1. PICK n \in Nat : IsRow(files, n)
  BY DEF Row
<1>2. DOMAIN u = DOMAIN files /\ \A l \in DOMAIN files : u[l] = IF l = k THEN e ELSE files[l]
  OBVIOUS
<1>3. IsRow(u, n)
  <2>1. DOMAIN files = 1..n BY <1>1, RowsLength
  <2> QED BY <2>1 DEF IsRow
<1> HIDE DEF u
<1>4. \A l \in DOMAIN u : FileHeld(u[l], now, ever) /\ u[l].key = files[l].key
  BY <1>2 DEF Row
<1> QED BY <1>2, <1>3, <1>4 DEF Row, u

\* A file under a name of its own before the others.
LEMMA OneBefore ==
  ASSUME NEW now, NEW ever, NEW files, Row(files, now, ever),
         NEW e, FileHeld(e, now, ever), \A k \in DOMAIN files : e.key # files[k].key
  PROVE  Row(<<e>> \o files, now, ever)
<1>1. PICK n \in Nat : IsRow(files, n)
  BY DEF Row
<1> DEFINE one == <<e>>
           u == Joined(one, files)
<1>2. IsRow(one, 1) /\ one[1] = e
  BY DEF IsRow
<1> HIDE DEF one
<1>3. IsRow(u, 1 + n) /\ (\A i \in 1..1 : u[i] = one[i]) /\ \A i \in 1..n : u[1 + i] = files[i]
  BY <1>1, <1>2, RowAfterRow
<1> HIDE DEF u
<1>4. DOMAIN u = 1..(1 + n) /\ DOMAIN files = 1..n
  BY <1>1, <1>3, RowsLength
<1>5. 1 + n \in Nat /\ \A i \in 1..(1 + n) : i = 1 \/ \E k \in 1..n : i = 1 + k
  <2>1. ASSUME NEW i \in 1..(1 + n), i # 1 PROVE \E k \in 1..n : i = 1 + k
    <3>1. i - 1 \in 1..n /\ i = 1 + (i - 1) BY <2>1
    <3> QED BY <3>1
  <2> QED BY <2>1
<1>6. u[1] = e
  <2>1. 1 \in 1..1 OBVIOUS
  <2> QED BY <1>2, <1>3, <2>1
<1>7. ASSUME NEW i \in DOMAIN u PROVE FileHeld(u[i], now, ever)
  <2>1. CASE i = 1 BY <1>6, <2>1
  <2>2. ASSUME NEW k \in 1..n, i = 1 + k PROVE FileHeld(u[i], now, ever)
    <3>1. u[i] = files[k] BY <1>3, <2>2
    <3> QED BY <1>4, <3>1 DEF Row
  <2> QED BY <1>4, <1>5, <2>1, <2>2
<1>8. ASSUME NEW i \in DOMAIN u, NEW j \in DOMAIN u, u[i].key = u[j].key PROVE i = j
  <2>1. CASE i = 1 /\ j = 1 BY <2>1
  <2>2. ASSUME NEW k \in 1..n, i = 1 + k, j = 1 PROVE FALSE
    <3>1. u[i] = files[k] BY <1>3, <2>2
    <3> QED BY <1>4, <1>6, <1>8, <2>2, <3>1
  <2>3. ASSUME NEW k \in 1..n, j = 1 + k, i = 1 PROVE FALSE
    <3>1. u[j] = files[k] BY <1>3, <2>3
    <3> QED BY <1>4, <1>6, <1>8, <2>3, <3>1
  <2>4. ASSUME NEW k \in 1..n, NEW l \in 1..n, i = 1 + k, j = 1 + l PROVE k = l
    <3>1. u[i] = files[k] /\ u[j] = files[l] BY <1>3, <2>4
    <3> QED BY <1>4, <1>8, <3>1 DEF Row
  <2> QED BY <1>4, <1>5, <2>1, <2>2, <2>3, <2>4
<1>9. Row(u, now, ever)
  BY <1>3, <1>5, <1>7, <1>8 DEF Row
<1> QED BY <1>9 DEF u, one, Joined

\* It holds of the tree as sealed and the empty record.
LEMMA SealInvInit == SealInit => SealInv
<1> SUFFICES ASSUME SealInit PROVE SealInv
  OBVIOUS
<1>1. TreeForm(tree)
  BY SealedForm DEF SealInit
<1>2. \A now, ever : Row(<<>>, now, ever)
  <2>1. IsRow(<<>>, 0) /\ DOMAIN <<>> = {} BY DEF IsRow
  <2> QED BY <2>1 DEF Row
<1>3. Past(Time(0), 0)
  BY DEF Past, Time
<1>4. RecordForm(NoRecord, 0, {})
  <2> DEFINE z == Time(0)
             none == <<>>
  <2>1. Row(none, 0, {}) BY <1>2
  <2> HIDE DEF z, none
  <2>2. NoRecord = [created |-> z, updated |-> z, registered |-> z, files |-> none]
    BY DEF NoRecord, z, none
  <2> QED BY <1>3, <2>1, <2>2 DEF RecordForm, z
<1>5. archive = NoRecord /\ clock = 0 /\ held = {} /\ witness = <<>>
  BY DEF SealInit
<1> QED BY <1>1, <1>4, <1>5 DEF SealInv

\* A publication and a replacement keep the form of the record.
LEMMA PublishKeeps ==
  ASSUME clock \in Nat, RecordForm(archive, clock, held), PublishRecord
  PROVE  RecordForm(archive', clock', held') /\ held \subseteq held' /\ clock' \in Nat
<1> DEFINE paths == Published
           files == [k \in DOMAIN paths |-> Deposited(paths[k], paths[k])]
           copy == Deposited("protocol.md", "copy of the protocol")
           all == <<copy>> \o files
<1>1. /\ archive' = [created |-> Now, updated |-> Now, registered |-> Now, files |-> all]
      /\ held' = held \cup {<<Digest("md5", tree[path]), clock + 1>> : path \in Range(paths) \cup {"protocol.md"}}
      /\ clock' = clock + 1
  BY DEF PublishRecord, Published, Hold
<1> HIDE DEF paths
<1>2. \A path \in Range(paths) \cup {"protocol.md"} : <<Digest("md5", tree[path]), clock + 1>> \in held'
  BY <1>1
<1>3. ASSUME NEW path \in Range(paths) \cup {"protocol.md"}, NEW key
      PROVE  FileHeld(Deposited(path, key), clock + 1, held') /\ Deposited(path, key).key = key
  BY <1>2, JustDeposited DEF FileHeld
<1>4. \A k \in DOMAIN paths : paths[k] \in Range(paths)
  BY DEF Range
<1>5. PICK m \in Nat : IsRow(paths, m)
  BY PublishedPaths DEF paths
<1>6. IsRow(files, m)
  <2>1. DOMAIN paths = 1..m BY <1>5, RowsLength
  <2> QED BY <2>1 DEF IsRow
<1>7. DOMAIN files = DOMAIN paths
      /\ \A k \in DOMAIN paths : FileHeld(files[k], clock + 1, held') /\ files[k].key = paths[k]
  BY <1>3, <1>4
<1> HIDE DEF files
<1>8. Row(files, clock + 1, held')
  BY <1>6, <1>7, PublishedPaths DEF Row, paths
<1>9. FileHeld(copy, clock + 1, held') /\ copy.key = "copy of the protocol"
  BY <1>3
<1> HIDE DEF copy
<1>10. Row(all, clock + 1, held')
  BY <1>7, <1>8, <1>9, OneBefore, PublishedPaths DEF paths
<1>11. Past(Now, clock + 1) /\ clock + 1 \in Nat
  BY JustDeposited
<1> HIDE DEF all
<1>12. RecordForm(archive', clock + 1, held')
  BY <1>1, <1>10, <1>11 DEF RecordForm
<1> QED BY <1>1, <1>11, <1>12

\* So does the replacement of one file while the record may be edited.
LEMMA ReplaceKeeps ==
  ASSUME clock \in Nat, RecordForm(archive, clock, held), ReplaceFile
  PROVE  RecordForm(archive', clock', held') /\ held \subseteq held' /\ clock' \in Nat
<1>1. PICK k \in DOMAIN archive.files :
         /\ archive' = [archive EXCEPT !.files[k] =
               [Deposited(archive.files[k].key, archive.files[k].key) EXCEPT !.created = archive.files[k].created]]
         /\ held' = held \cup {<<Digest("md5", tree[path]), clock + 1>> : path \in {archive.files[k].key}}
         /\ clock' = clock + 1
  BY DEF ReplaceFile, Hold
<1> DEFINE key == archive.files[k].key
           d == Deposited(key, key)
           e == [d EXCEPT !.created = archive.files[k].created]
           files == [archive.files EXCEPT ![k] = e]
<1>2. archive' = [archive EXCEPT !.files = files]
  BY <1>1
<1>3. clock + 1 \in Nat /\ clock <= clock + 1
  OBVIOUS
<1>4. Row(archive.files, clock + 1, held')
  <2>1. held \subseteq held' BY <1>1
  <2> QED BY <1>3, <2>1, RowStays DEF RecordForm
<1>5. e.key = key /\ e.checksum = d.checksum /\ e.size = d.size /\ e.updated = d.updated /\ e.created = archive.files[k].created
  BY DEF Deposited
<1>6. /\ d.checksum = Digest("md5", tree[key]) /\ d.size = Size(tree[key])
      /\ d.updated = Now /\ Now.at = clock + 1 /\ Past(Now, clock + 1)
  BY JustDeposited
<1>7. Past(archive.files[k].created, clock + 1)
  BY <1>4 DEF Row, FileHeld
<1>8. <<Digest("md5", tree[key]), clock + 1>> \in held'
  BY <1>1
<1> HIDE DEF d, e
<1>9. FileHeld(e, clock + 1, held')
  BY <1>5, <1>6, <1>7, <1>8 DEF FileHeld
<1>10. Row(files, clock + 1, held')
  BY <1>4, <1>5, <1>9, OneReplaced
<1> HIDE DEF files
<1>11. RecordForm(archive, clock + 1, held')
  BY <1>1, <1>3, RecordStays
<1>12. RecordForm([archive EXCEPT !.files = files], clock + 1, held')
  <2> DEFINE c == archive.created
             u == archive.updated
             r == archive.registered
             f == archive.files
  <2>1. archive = [created |-> c, updated |-> u, registered |-> r, files |-> f]
    BY DEF RecordForm
  <2> HIDE DEF c, u, r, f
  <2>2. [archive EXCEPT !.files = files] = [created |-> c, updated |-> u, registered |-> r, files |-> files]
    BY <2>1
  <2>3. Past(c, clock + 1) /\ Past(u, clock + 1) /\ Past(r, clock + 1)
    BY <1>11 DEF RecordForm, c, u, r
  <2> QED BY <1>10, <2>2, <2>3 DEF RecordForm
<1> QED BY <1>1, <1>2, <1>3, <1>12

\* Every step keeps it: a case ends it, an edit the form of the tree, a
\* publication or a replacement that of the record, and a witness is collected.
LEMMA SealInvStep == SealInv /\ [SealNext]_sealVars => SealInv'
<1> SUFFICES ASSUME SealInv, [SealNext]_sealVars PROVE SealInv'
  OBVIOUS
<1>1. CASE EvaluatorCase
  <2>1. case' # "" /\ clock' = clock
    BY <1>1, CaseNamed DEF EvaluatorCase
  <2> QED BY <2>1 DEF SealInv
<1>2. CASE SealCase
  <2>1. case' # "" /\ clock' = clock
    BY <1>2, CaseNamed DEF SealCase
  <2> QED BY <2>1 DEF SealInv
<1>3. CASE WitnessCase
  <2>1. case' # "" /\ clock' = clock
    BY <1>3, CaseNamed DEF WitnessCase
  <2> QED BY <2>1 DEF SealInv
<1>4. CASE RunCase
  <2>1. case' # "" /\ clock' = clock
    BY <1>4, CaseNamed DEF RunCase
  <2> QED BY <2>1 DEF SealInv
<1>5. CASE Author
  <2>1. /\ case = "" /\ tree' \in Authored(tree)
        /\ archive' = archive /\ held' = held /\ clock' = clock /\ witness' = witness /\ case' = case
    BY <1>5 DEF Author
  <2>2. TreeForm(tree')
    BY <2>1, AuthoredForm DEF SealInv
  <2> QED BY <2>1, <2>2 DEF SealInv
<1>6. CASE PublishRecord \/ ReplaceFile
  <2>1. case = "" /\ case' = case /\ tree' = tree /\ witness' = witness
    BY <1>6 DEF PublishRecord, ReplaceFile, SealInv, RecordForm
  <2>2. RecordForm(archive', clock', held') /\ held \subseteq held' /\ clock' \in Nat
    BY <1>6, <2>1, PublishKeeps, ReplaceKeeps DEF SealInv
  <2>3. witness # <<>> => witness = <<witness[1]>> /\ WitnessForm(witness[1], held')
    BY <2>1, <2>2, WitnessStays DEF SealInv
  <2> QED BY <2>1, <2>2, <2>3 DEF SealInv
<1>7. CASE Collect
  <2>1. PICK reason \in {"", "not consulted"} : witness' = <<collect(tree, archive, reason)>>
    BY <1>7 DEF Collect
  <2>2. case = "" /\ UNCHANGED <<tree, archive, held, clock, case>>
    BY <1>7 DEF Collect
  <2> DEFINE w == collect(tree, archive, reason)
  <2>3. WitnessForm(w, held)
    BY <2>2, CollectedForm DEF SealInv
  <2> HIDE DEF w
  <2>4. witness' = <<w>> BY <2>1 DEF w
  <2>5. <<w>>[1] = w OBVIOUS
  <2>6. witness' = <<witness'[1]>> /\ WitnessForm(witness'[1], held)
    BY <2>3, <2>4, <2>5
  <2> QED BY <2>2, <2>6 DEF SealInv
<1>8. CASE UNCHANGED sealVars
  BY <1>8 DEF SealInv, sealVars
<1> QED BY <1>1, <1>2, <1>3, <1>4, <1>5, <1>6, <1>7, <1>8 DEF SealNext

\* So it holds however long the tree and its deposit are changed.
LEMMA SealInvHolds == SealSpec => []SealInv
BY SealInvInit, SealInvStep, PTL DEF SealSpec

\* With options the seal itself is still checked, and then each option.
LEMMA QuietOptions ==
  ASSUME NEW t, NEW w, NEW run, verify_seal(t, <<w>>, run) = {}
  PROVE  ManifestProblems(t) = {} /\ HashProblems(t) = {} /\ _check_witness(t, w) = {}
<1>1. SealProblems(t) = {}
  BY DEF verify_seal
<1>2. ~Ended(t)
  BY <1>1 DEF SealProblems, Ended
<1>3. UNION {_check_witness(t, x) : x \in Range(<<w>>)} = {}
  <2> DEFINE found == UNION {_check_witness(t, x) : x \in Range(<<w>>)}
             runs == UNION {IF r.arm = "" THEN {<<"run", "no arm">>}
                            ELSE _check_run_manifest(t, r) : r \in Range(run)}
  <2>1. verify_seal(t, <<w>>, run) = SealProblems(t) \cup (found \cup runs)
    BY <1>2 DEF verify_seal
  <2> HIDE DEF found, runs
  <2>2. found = {} BY <2>1
  <2> QED BY <2>2 DEF found
<1>4. w \in Range(<<w>>)
  <2>1. 1 \in DOMAIN <<w>> /\ <<w>>[1] = w OBVIOUS
  <2> QED BY <2>1 DEF Range
<1> QED BY <1>1, <1>2, <1>3, <1>4 DEF Ended

\* What the checker finds nothing to say about in a witness.
Witnessed(t, w) ==
  /\ w.files # <<>>
  /\ \A i, j \in DOMAIN w.deposit_files : w.deposit_files[i].key = w.deposit_files[j].key => i = j
  /\ \A i \in DOMAIN w.files : EntryProblems(t, w, w.files[i]) = "claims"
  /\ \A i \in DOMAIN w.files : Listing(w)[w.files[i].key].checksum = w.files[i].checksum
  /\ \A path \in DOMAIN ManifestOf(t).files : \E i \in DOMAIN w.files : w.files[i].path = path

\* A witness without problems is one.
LEMMA QuietWitness ==
  ASSUME NEW t, NEW w, _check_witness(t, w) = {}
  PROVE  Witnessed(t, w)
<1>1. _deposit_listing(w) = {} /\ _check_witness_files(t, w) = {}
  BY DEF _check_witness
<1>2. \A i, j \in DOMAIN w.deposit_files : w.deposit_files[i].key = w.deposit_files[j].key => i = j
  BY <1>1 DEF _deposit_listing, Reported
<1> DEFINE entries == w.files
           gets == [i \in DOMAIN entries |-> EntryProblems(t, w, entries[i])]
           taken(i) == \E j \in 1..(i - 1) : gets[j] = "claims" /\ entries[j].key = entries[i].key
           claims == {i \in DOMAIN entries : gets[i] = "claims" /\ ~taken(i)}
           listed(i) == Listing(w)[entries[i].key]
           Unclaimed == {<<"files", gets[i]>> : i \in {i \in DOMAIN entries : gets[i] # "claims"}}
           ClaimedTwice == Reported(\E i \in DOMAIN entries : gets[i] = "claims" /\ taken(i), <<"files", "claimed twice">>)
           EditedApart == Reported(\E i \in claims : listed(i).checksum # entries[i].checksum, <<"files", "edited apart">>)
           OtherSize == Reported(\E i \in claims : listed(i).size # Size(t[entries[i].path]), <<"files", "size">>)
           NoWitness == Reported(DOMAIN ManifestOf(t).files # {e.path : e \in Range(entries)} \cap DOMAIN ManifestOf(t).files,
                                 <<"files", "no witness">>)
<1>3. entries # <<>> /\ Unclaimed \cup ClaimedTwice \cup EditedApart \cup OtherSize \cup NoWitness = {}
  <2>1. _check_witness_files(t, w) =
          IF entries = <<>> THEN {<<"files", "none">>}
          ELSE Unclaimed \cup ClaimedTwice \cup EditedApart \cup OtherSize \cup NoWitness
    BY DEF _check_witness_files
  <2> HIDE DEF Unclaimed, ClaimedTwice, EditedApart, OtherSize, NoWitness
  <2> QED BY <1>1, <2>1
<1>4. \A i \in DOMAIN entries : gets[i] = "claims"
  <2>1. Unclaimed = {} BY <1>3
  <2> HIDE DEF gets
  <2> QED BY <2>1
<1>5. \A i \in DOMAIN entries : ~taken(i)
  <2>1. ClaimedTwice = {} BY <1>3
  <2> HIDE DEF gets, taken
  <2> QED BY <1>4, <2>1 DEF Reported
<1>6. \A i \in DOMAIN entries : listed(i).checksum = entries[i].checksum
  <2>1. EditedApart = {} BY <1>3
  <2> HIDE DEF gets, taken, listed
  <2> QED BY <1>4, <1>5, <2>1 DEF Reported
<1>7. \A path \in DOMAIN ManifestOf(t).files : \E i \in DOMAIN entries : entries[i].path = path
  <2>1. NoWitness = {} BY <1>3
  <2>2. DOMAIN ManifestOf(t).files = {e.path : e \in Range(entries)} \cap DOMAIN ManifestOf(t).files
    BY <2>1 DEF Reported
  <2> QED BY <2>2 DEF Range
<1>8. \A i \in DOMAIN entries : EntryProblems(t, w, entries[i]) = "claims"
  BY <1>4
<1> QED BY <1>2, <1>3, <1>6, <1>7, <1>8 DEF Witnessed

\* Under keys of their own, each deposited file is listed under its key.
LEMMA ListedUnder ==
  ASSUME NEW w, NEW n \in Nat, IsRow(w.deposit_files, n),
         \A i, j \in DOMAIN w.deposit_files : w.deposit_files[i].key = w.deposit_files[j].key => i = j
  PROVE  /\ DOMAIN Listing(w) = {w.deposit_files[i].key : i \in 1..n}
         /\ \A i \in 1..n : Listing(w)[w.deposit_files[i].key] = w.deposit_files[i]
<1> DEFINE d == w.deposit_files
           First(key) == CHOOSE i \in DOMAIN d : d[i].key = key /\ \A j \in 1..(i - 1) : d[j].key # key
<1>1. DOMAIN d = 1..n
  BY RowsLength
<1>2. Listing(w) = [key \in {e.key : e \in Range(d)} |-> d[First(key)]]
  BY DEF Listing
<1>3. {e.key : e \in Range(d)} = {d[i].key : i \in 1..n}
  BY <1>1 DEF Range
<1>4. ASSUME NEW i \in 1..n PROVE First(d[i].key) = i
  <2>1. \A j \in 1..(i - 1) : j \in 1..n /\ j # i OBVIOUS
  <2>2. i \in DOMAIN d /\ d[i].key = d[i].key /\ \A j \in 1..(i - 1) : d[j].key # d[i].key
    BY <1>1, <2>1
  <2> QED BY <1>1, <2>2
<1> HIDE DEF First
<1>5. DOMAIN Listing(w) = {d[i].key : i \in 1..n}
  BY <1>2, <1>3
<1>6. ASSUME NEW i \in 1..n PROVE Listing(w)[d[i].key] = d[i]
  <2>1. d[i].key \in {e.key : e \in Range(d)} BY <1>3
  <2>2. Listing(w)[d[i].key] = d[First(d[i].key)] BY <1>2, <2>1
  <2> QED BY <1>4, <2>2
<1> QED BY <1>5, <1>6

\* An entry that claims a file names one that is listed, and has the digest of the local file.
LEMMA ClaimsListed ==
  ASSUME NEW t, NEW w, NEW e, EntryProblems(t, w, e) = "claims"
  PROVE  e.key \in DOMAIN Listing(w) /\ e.checksum = Digest("md5", t[e.path])
BY DEF EntryProblems, DEPOSIT_ALGORITHM

\* A tree that passes with a witness that was collected holds the bytes that the
\* archive held no later than the anchor, whatever was edited, rebuilt, replaced
\* or published since, and however often (_check_witness): an entry that claims
\* its file has the digest of the local bytes and of the listed file, and what
\* the witness lists the archive held by the time the anchor tells.
THEOREM WitnessIsTrue == SealSpec => []DepositHeldTheBytes
<1>1. SealInv => DepositHeldTheBytes
  <2> SUFFICES ASSUME SealInv, case = "", witness # <<>>, problems = {}, NEW path \in SEALED_PATHS(tree)
               PROVE  \E h \in held : h[1] = Digest("md5", tree[path]) /\ h[2] <= witness[1].latest.at
    BY DEF DepositHeldTheBytes
  <2> DEFINE w == witness[1]
  <2>1. witness = <<w>> /\ WitnessForm(w, held)
    BY DEF SealInv
  <2> HIDE DEF w
  <2>2. ManifestProblems(tree) = {} /\ _check_witness(tree, w) = {}
    BY <2>1, QuietOptions DEF problems
  <2>3. path \in DOMAIN ManifestOf(tree).files
    BY <2>2, QuietManifest
  <2>4. Witnessed(tree, w)
    BY <2>2, QuietWitness
  <2>5. PICK i \in DOMAIN w.files : w.files[i].path = path
    BY <2>3, <2>4 DEF Witnessed
  <2> DEFINE e == w.files[i]
  <2>6. /\ EntryProblems(tree, w, e) = "claims" /\ Listing(w)[e.key].checksum = e.checksum
        /\ e.path = path
    BY <2>4, <2>5 DEF Witnessed
  <2> HIDE DEF e
  <2>7. e.key \in DOMAIN Listing(w) /\ e.checksum = Digest("md5", tree[e.path])
    BY <2>6, ClaimsListed, Zenon
  <2>8. PICK n \in Nat : IsRow(w.deposit_files, n)
    BY <2>1 DEF WitnessForm
  <2>9. \A k, l \in DOMAIN w.deposit_files : w.deposit_files[k].key = w.deposit_files[l].key => k = l
    BY <2>4 DEF Witnessed
  <2>10. /\ DOMAIN Listing(w) = {w.deposit_files[k].key : k \in 1..n}
         /\ \A k \in 1..n : Listing(w)[w.deposit_files[k].key] = w.deposit_files[k]
    BY <2>8, <2>9, ListedUnder, Zenon
  <2>11. PICK k \in 1..n : e.key = w.deposit_files[k].key
    BY <2>7, <2>10
  <2>12. Listing(w)[e.key] = w.deposit_files[k]
    BY <2>10, <2>11
  <2> DEFINE f == w.deposit_files[k]
  <2>13. <<f.checksum, f.updated.at>> \in held /\ f.updated.at <= w.latest.at
    BY <2>1, <2>8, RowsLength DEF WitnessForm
  <2>14. f.checksum = Digest("md5", tree[path])
    BY <2>6, <2>7, <2>12
  <2> HIDE DEF f, e
  <2> DEFINE h == <<f.checksum, f.updated.at>>
  <2>15. h[1] = f.checksum /\ h[2] = f.updated.at
    OBVIOUS
  <2> HIDE DEF h
  <2>16. h \in held BY <2>13 DEF h
  <2> QED BY <2>13, <2>14, <2>15, <2>16 DEF w
<1> QED BY <1>1, SealInvHolds, PTL

\* The twin of a file is a deposited file of the same digest.
LEMMA TwinFound ==
  ASSUME NEW n \in Nat, NEW files, IsRow(files, n), NEW t, NEW path, HasTwin(t, files, path)
  PROVE  /\ Twin(t, files, path) \in DOMAIN files
         /\ files[Twin(t, files, path)].checksum = Digest("md5", t[path])
<1> DEFINE sum == Digest(DEPOSIT_ALGORITHM, t[path])
           S == {i \in 1..n : files[i].checksum = sum}
           IsTwin(i) == /\ files[i].checksum = sum
                        /\ \A j \in 1..(i - 1) : files[j].checksum # files[i].checksum
<1>1. DOMAIN files = 1..n
  BY RowsLength
<1>2. S \in SUBSET Nat /\ S # {}
  <2>1. PICK i \in DOMAIN files : files[i].checksum = sum
    <3> HIDE DEF sum
    <3>1. HasTwin(t, files, path) <=> sum \in {e.checksum : e \in Range(files)} BY DEF HasTwin, sum
    <3> QED BY <3>1 DEF Range
  <2> QED BY <1>1, <2>1
<1>3. PICK b \in S : \A j \in S : b <= j
  <2> HIDE DEF S
  <2> QED BY <1>2, Smallest
<1>4. b \in 1..n /\ files[b].checksum = sum
  OBVIOUS
<1>5. ASSUME NEW j \in 1..(b - 1) PROVE files[j].checksum # files[b].checksum
  <2> HIDE DEF sum
  <2> QED BY <1>3, <1>4
<1>6. IsTwin(b) BY <1>4, <1>5
<1> DEFINE twin == CHOOSE i \in DOMAIN files : IsTwin(i)
<1>7. twin \in DOMAIN files /\ IsTwin(twin)
  <2> HIDE DEF IsTwin
  <2> QED BY <1>1, <1>4, <1>6
<1>8. Twin(t, files, path) = twin
  BY DEF Twin
<1>9. sum = Digest("md5", t[path])
  BY DEF DEPOSIT_ALGORITHM
<1> HIDE DEF twin, sum
<1> QED BY <1>7, <1>8, <1>9

\* A held file of the digest of some bytes has their size.
LEMMA HeldSize ==
  ASSUME NEW e, NEW now, NEW ever, FileHeld(e, now, ever), NEW bytes,
         e.checksum = Digest("md5", bytes)
  PROVE  e.size = Size(bytes) /\ e.checksum[1] = "md5"
<1>1. PICK b : e.checksum = Digest("md5", b) /\ e.size = Size(b)
  BY DEF FileHeld
<1>2. b = bytes
  <2>1. Digest("md5", b) = Digest("md5", bytes) BY <1>1
  <2> QED BY <2>1, DigestsAreBytes
<1>3. Digest("md5", b)[1] = "md5"
  BY DEF Digest
<1> QED BY <1>1, <1>2, <1>3

\* Every sealed file is here.
AllHere(t) == \A path \in SEALED_PATHS(t) : path \in DOMAIN t

\* Every sealed file has a twin in the record.
AllTwins(t, a) == \A path \in SEALED_PATHS(t) : HasTwin(t, a.files, path)

\* The collector writes whenever there are the twins.
LEMMA TwinsSuffice ==
  ASSUME NEW t, TreeForm(t), AllHere(t), NEW a, NEW now, NEW ever, RecordForm(a, now, ever)
  PROVE  Collectable(t, a) <=> AllTwins(t, a)
<1>1. PICK n \in Nat : IsRow(a.files, n)
  BY DEF RecordForm, Row
<1>2. DOMAIN a.files = 1..n
  BY <1>1, RowsLength
<1>3. \A k \in DOMAIN a.files : FileHeld(a.files[k], now, ever)
  BY DEF RecordForm, Row
<1>4. ASSUME AllTwins(t, a) PROVE a.files # <<>>
  <2>1. HasTwin(t, a.files, "protocol.md")
    BY <1>4 DEF AllTwins, TreeForm
  <2>2. DOMAIN a.files # {}
    BY <2>1, <1>1, TwinFound
  <2>3. DOMAIN <<>> = {} OBVIOUS
  <2> QED BY <2>2, <2>3
<1>5. ASSUME NEW file \in Range(a.files)
      PROVE  file.checksum[1] = DEPOSIT_ALGORITHM /\ file.created.zone /\ file.updated.zone
  <2>1. PICK k \in DOMAIN a.files : file = a.files[k]
    BY DEF Range
  <2>2. FileHeld(file, now, ever)
    BY <1>3, <2>1
  <2>3. PICK bytes : file.checksum = Digest("md5", bytes)
    BY <2>2 DEF FileHeld
  <2>4. file.checksum[1] = "md5"
    BY <2>2, <2>3, HeldSize
  <2>5. file.created.zone = TRUE /\ file.updated.zone = TRUE
    BY <2>2 DEF FileHeld, Past
  <2> QED BY <2>4, <2>5 DEF DEPOSIT_ALGORITHM
<1>6. ASSUME AllTwins(t, a), NEW path \in SEALED_PATHS(t)
      PROVE  a.files[Twin(t, a.files, path)].size = Size(t[path])
  <2>1. HasTwin(t, a.files, path)
    BY <1>6 DEF AllTwins
  <2> DEFINE twin == Twin(t, a.files, path)
  <2>2. twin \in DOMAIN a.files /\ a.files[twin].checksum = Digest("md5", t[path])
    BY <2>1, <1>1, TwinFound
  <2> HIDE DEF twin
  <2>3. FileHeld(a.files[twin], now, ever)
    BY <1>3, <2>2
  <2>4. a.files[twin].size = Size(t[path])
    BY <2>2, <2>3, HeldSize
  <2> QED BY <2>4 DEF twin
<1>7. AllTwins(t, a) => Collectable(t, a)
  BY <1>4, <1>5, <1>6 DEF AllTwins, AllHere, Collectable
<1>8. Collectable(t, a) => AllTwins(t, a)
  BY DEF Collectable, AllTwins
<1> QED BY <1>7, <1>8

\* What the collector writes of one sealed file: a deposited file of the bytes.
Matched(t, files, e) ==
  /\ e.path \in SEALED_PATHS(t) /\ e.checksum = Digest("md5", t[e.path])
  /\ \E i \in DOMAIN files : /\ files[i].key = e.key /\ files[i].checksum = e.checksum
                             /\ files[i].size = Size(t[e.path])

\* The entries: one for each sealed file.
Entries(t, files, s) ==
  /\ \E m \in Nat : DOMAIN s = 1..m
  /\ \A k \in DOMAIN s : Matched(t, files, s[k])
  /\ \A path \in SEALED_PATHS(t) : \E k \in DOMAIN s : s[k].path = path
  /\ \A k, l \in DOMAIN s : s[k].path = s[l].path => k = l

\* match_by_content writes them when every sealed file has a twin.
LEMMA EntriesMatch ==
  ASSUME NEW t, TreeForm(t), NEW a, NEW now, NEW ever, RecordForm(a, now, ever), AllTwins(t, a)
  PROVE  Entries(t, a.files, match_by_content(t, a.files))
<1> DEFINE paths == InOrder(SealedPaths, SEALED_PATHS(t))
           twin(k) == a.files[Twin(t, a.files, paths[k])]
           entry(k) == [path |-> paths[k], key |-> twin(k).key, size |-> twin(k).size,
                        checksum |-> Digest(DEPOSIT_ALGORITHM, t[paths[k]])]
           s == match_by_content(t, a.files)
<1>1. s = [k \in DOMAIN paths |-> entry(k)]
  BY DEF match_by_content
<1>2. DOMAIN SealedPaths = 1..11
  BY SealedRow, RowsLength
<1>3. /\ \E m \in Nat : DOMAIN paths = 1..m
      /\ {paths[k] : k \in DOMAIN paths} = {SealedPaths[i] : i \in 1..11} \cap SEALED_PATHS(t)
      /\ \A k, l \in DOMAIN paths : paths[k] = paths[l] => k = l
  <2> DEFINE all == SealedPaths
             some == SEALED_PATHS(t)
  <2>1. DOMAIN all = 1..11 /\ (\A i, j \in 1..11 : all[i] = all[j] => i = j)
    BY <1>2, SealedRow
  <2> HIDE DEF all, some
  <2> DEFINE l == InOrder(all, some)
  <2>2. /\ \E m \in Nat : DOMAIN l = 1..m
        /\ l = [k \in DOMAIN l |-> l[k]]
        /\ {l[k] : k \in DOMAIN l} = {all[i] : i \in 1..11} \cap some
        /\ \A k, h \in DOMAIN l : l[k] = l[h] => k = h
    BY <2>1, 11 \in Nat, InOrderLists
  <2> QED BY <2>2 DEF all, some
<1> HIDE DEF paths
<1>4. {paths[k] : k \in DOMAIN paths} = SEALED_PATHS(t)
  BY <1>3, SealedRow DEF TreeForm
<1>5. DOMAIN s = DOMAIN paths /\ \A k \in DOMAIN paths : s[k] = entry(k)
  BY <1>1
<1>6. PICK n \in Nat : IsRow(a.files, n)
  BY DEF RecordForm, Row
<1>7. \A k \in DOMAIN a.files : FileHeld(a.files[k], now, ever)
  BY DEF RecordForm, Row
<1> HIDE DEF s
<1>8. ASSUME NEW k \in DOMAIN paths PROVE s[k].path = paths[k] /\ Matched(t, a.files, s[k])
  <2> DEFINE p == paths[k]
             i == Twin(t, a.files, p)
  <2>1. p \in SEALED_PATHS(t)
    BY <1>4
  <2>2. HasTwin(t, a.files, p)
    BY <2>1 DEF AllTwins
  <2>3. i \in DOMAIN a.files /\ a.files[i].checksum = Digest("md5", t[p])
    BY <2>2, <1>6, TwinFound
  <2>4. s[k] = [path |-> p, key |-> a.files[i].key, size |-> a.files[i].size,
                checksum |-> Digest("md5", t[p])]
    BY <1>5 DEF DEPOSIT_ALGORITHM
  <2> HIDE DEF p, i
  <2>5. s[k].path = p /\ s[k].key = a.files[i].key /\ s[k].checksum = Digest("md5", t[p])
    BY <2>4
  <2>6. a.files[i].size = Size(t[p])
    <3>1. FileHeld(a.files[i], now, ever) BY <1>7, <2>3
    <3> QED BY <2>3, <3>1, HeldSize
  <2>7. s[k].path = paths[k]
    BY <2>5 DEF p
  <2>8. Matched(t, a.files, s[k])
    BY <2>1, <2>3, <2>5, <2>6 DEF Matched
  <2> QED BY <2>7, <2>8
<1>9. \A path \in SEALED_PATHS(t) : \E k \in DOMAIN s : s[k].path = path
  BY <1>4, <1>5, <1>8
<1>10. \A k, l \in DOMAIN s : s[k].path = s[l].path => k = l
  <2>1. ASSUME NEW k \in DOMAIN paths, NEW l \in DOMAIN paths, s[k].path = s[l].path PROVE k = l
    <3>1. paths[k] = paths[l] BY <1>8, <2>1
    <3> QED BY <1>3, <3>1
  <2> QED BY <1>5, <2>1
<1>11. Entries(t, a.files, s)
  BY <1>3, <1>5, <1>8, <1>9, <1>10 DEF Entries
<1> QED BY <1>11 DEF s

\* Two entries of one deposited file are of one sealed file.
LEMMA KeysApart ==
  ASSUME NEW t, TreeForm(t), AllHere(t), NEW files,
         \A k, l \in DOMAIN files : files[k].key = files[l].key => k = l,
         NEW e, Matched(t, files, e), NEW f, Matched(t, files, f), e.key = f.key
  PROVE  e.path = f.path
<1>1. PICK i \in DOMAIN files : files[i].key = e.key /\ files[i].checksum = e.checksum
  BY DEF Matched
<1>2. PICK j \in DOMAIN files : files[j].key = f.key /\ files[j].checksum = f.checksum
  BY DEF Matched
<1>3. i = j
  BY <1>1, <1>2
<1>4. Digest("md5", t[e.path]) = Digest("md5", t[f.path])
  BY <1>1, <1>2, <1>3 DEF Matched
<1>5. t[e.path] = t[f.path]
  BY <1>4, DigestsAreBytes
<1>6. e.path \in DOMAIN t /\ f.path \in DOMAIN t
  BY DEF Matched, AllHere
<1>7. t[e.path].file = e.path /\ t[f.path].file = f.path
  BY <1>6 DEF TreeForm
<1> QED BY <1>5, <1>7

\* An entry that claims its file, of which the listing says what it says.
Claimed(t, w, e) ==
  /\ EntryProblems(t, w, e) = "claims"
  /\ Listing(w)[e.key].checksum = e.checksum
  /\ Listing(w)[e.key].size = Size(t[e.path])

\* An entry that matches claims its file, and the listing says what it says.
LEMMA MatchClaims ==
  ASSUME NEW t, AllHere(t), SEALED_PATHS(t) = DOMAIN ManifestOf(t).files,
         NEW w, NEW n \in Nat, IsRow(w.deposit_files, n),
         \A i, j \in DOMAIN w.deposit_files : w.deposit_files[i].key = w.deposit_files[j].key => i = j,
         NEW e, Matched(t, w.deposit_files, e)
  PROVE  Claimed(t, w, e)
<1> DEFINE files == w.deposit_files
<1>1. DOMAIN files = 1..n
  BY RowsLength
<1>2. PICK i \in DOMAIN files :
        files[i].key = e.key /\ files[i].checksum = e.checksum /\ files[i].size = Size(t[e.path])
  BY DEF Matched
<1>3. /\ DOMAIN Listing(w) = {files[k].key : k \in 1..n}
      /\ \A k \in 1..n : Listing(w)[files[k].key] = files[k]
  BY ListedUnder, Zenon
<1>4. e.key \in DOMAIN Listing(w) /\ Listing(w)[e.key] = files[i]
  BY <1>1, <1>2, <1>3
<1>5. /\ e.path \in DOMAIN ManifestOf(t).files /\ e.path \in DOMAIN t
      /\ e.checksum = Digest(DEPOSIT_ALGORITHM, t[e.path])
  BY DEF Matched, AllHere, DEPOSIT_ALGORITHM
<1>6. e.checksum[1] = DEPOSIT_ALGORITHM
  BY <1>5 DEF Digest
<1>7. EntryProblems(t, w, e) = "claims"
  BY <1>4, <1>5, <1>6 DEF EntryProblems
<1> QED BY <1>2, <1>4, <1>7 DEF Claimed

\* What the collector writes of the files has no problem.
LEMMA FilesPass ==
  ASSUME NEW t, TreeForm(t), AllHere(t), SEALED_PATHS(t) = DOMAIN ManifestOf(t).files,
         NEW w, NEW n \in Nat, IsRow(w.deposit_files, n),
         \A i, j \in DOMAIN w.deposit_files : w.deposit_files[i].key = w.deposit_files[j].key => i = j,
         Entries(t, w.deposit_files, w.files)
  PROVE  _check_witness_files(t, w) = {} /\ _deposit_listing(w) = {}
<1> DEFINE entries == w.files
           gets == [i \in DOMAIN entries |-> EntryProblems(t, w, entries[i])]
           taken(i) == \E j \in 1..(i - 1) : gets[j] = "claims" /\ entries[j].key = entries[i].key
           claims == {i \in DOMAIN entries : gets[i] = "claims" /\ ~taken(i)}
           listed(i) == Listing(w)[entries[i].key]
           Unclaimed == {<<"files", gets[i]>> : i \in {i \in DOMAIN entries : gets[i] # "claims"}}
           ClaimedTwice == Reported(\E i \in DOMAIN entries : gets[i] = "claims" /\ taken(i), <<"files", "claimed twice">>)
           EditedApart == Reported(\E i \in claims : listed(i).checksum # entries[i].checksum, <<"files", "edited apart">>)
           OtherSize == Reported(\E i \in claims : listed(i).size # Size(t[entries[i].path]), <<"files", "size">>)
           NoWitness == Reported(DOMAIN ManifestOf(t).files # {e.path : e \in Range(entries)} \cap DOMAIN ManifestOf(t).files,
                                 <<"files", "no witness">>)
<1>1. PICK m \in Nat : DOMAIN entries = 1..m
  BY DEF Entries
<1>2. \A i \in DOMAIN entries : Matched(t, w.deposit_files, entries[i])
  BY DEF Entries
<1>3. \A i, j \in DOMAIN entries : entries[i].path = entries[j].path => i = j
  BY DEF Entries
<1>4. \A path \in SEALED_PATHS(t) : \E i \in DOMAIN entries : entries[i].path = path
  BY DEF Entries
<1>5. entries # <<>>
  <2>1. DOMAIN entries # {} BY <1>4 DEF TreeForm
  <2>2. DOMAIN <<>> = {} OBVIOUS
  <2> QED BY <2>1, <2>2
<1>6. ASSUME NEW i \in DOMAIN entries
      PROVE  gets[i] = "claims" /\ listed(i).checksum = entries[i].checksum
             /\ listed(i).size = Size(t[entries[i].path])
  <2>1. Matched(t, w.deposit_files, entries[i]) BY <1>2
  <2>2. Claimed(t, w, entries[i])
    BY <2>1, MatchClaims
  <2> QED BY <2>2 DEF Claimed
<1>7. ASSUME NEW i \in DOMAIN entries PROVE ~taken(i)
  <2> SUFFICES ASSUME NEW j \in 1..(i - 1), entries[j].key = entries[i].key PROVE FALSE
    OBVIOUS
  <2>1. j \in DOMAIN entries /\ j # i
    BY <1>1
  <2>2. entries[j].path = entries[i].path
    BY <1>2, <2>1, KeysApart
  <2> QED BY <1>3, <2>1, <2>2
<1> HIDE DEF gets, taken, listed
<1>8. Unclaimed = {}
  BY <1>6
<1>9. ClaimedTwice = {}
  BY <1>7 DEF Reported
<1>10. EditedApart = {} /\ OtherSize = {}
  BY <1>6 DEF Reported
<1>11. NoWitness = {}
  <2>1. DOMAIN ManifestOf(t).files = {e.path : e \in Range(entries)} \cap DOMAIN ManifestOf(t).files
    BY <1>4 DEF Range
  <2> QED BY <2>1 DEF Reported
<1>12. _check_witness_files(t, w) =
         IF entries = <<>> THEN {<<"files", "none">>}
         ELSE Unclaimed \cup ClaimedTwice \cup EditedApart \cup OtherSize \cup NoWitness
  BY DEF _check_witness_files, gets, taken, listed
<1>13. _check_witness_files(t, w) = {}
  <2> HIDE DEF Unclaimed, ClaimedTwice, EditedApart, OtherSize, NoWitness
  <2> QED BY <1>5, <1>8, <1>9, <1>10, <1>11, <1>12
<1>14. w.deposit_files # <<>>
  <2>1. 1 \in DOMAIN entries
    <3>1. DOMAIN entries # {} BY <1>4 DEF TreeForm
    <3> QED BY <1>1, <3>1
  <2>2. DOMAIN w.deposit_files # {}
    BY <1>2, <2>1 DEF Matched
  <2>3. DOMAIN <<>> = {} OBVIOUS
  <2> QED BY <2>2, <2>3
<1>15. _deposit_listing(w) = {}
  BY <1>14 DEF _deposit_listing, Reported
<1> QED BY <1>13, <1>15

\* What a time of the record itself is called.
RecordSource(field) == <<"record", field>>

\* The kinds of time source are told apart by what they are called.
LEMMA SourcesApart ==
  /\ RecordSource("created") # RecordSource("updated")
  /\ Registered # PublicationDate
  /\ \A e, f : /\ RecordSource(f) # Registered /\ RecordSource(f) # PublicationDate
               /\ FileSource(e, f) # Registered /\ FileSource(e, f) # PublicationDate
               /\ \A g : RecordSource(g) # FileSource(e, f)
  /\ \A e, f : /\ FileSource(e, "created") # FileSource(f, "updated")
               /\ \A g : FileSource(e, g) = FileSource(f, g) => e.key = f.key
<1>1. ASSUME NEW e, NEW f
      PROVE  RecordSource(f)[1] = "record" /\ RecordSource(f)[2] = f
             /\ FileSource(e, f)[1] = "files" /\ FileSource(e, f)[2] = e.key /\ FileSource(e, f)[3] = f
  BY DEF FileSource, RecordSource
<1>2. Registered[1] = "datacite.registered" /\ PublicationDate[1] = "publication_date"
  BY DEF Registered, PublicationDate
<1>3. RecordSource("created")[2] = "created" /\ RecordSource("updated")[2] = "updated"
  BY <1>1
<1>4. RecordSource("created") # RecordSource("updated") /\ Registered # PublicationDate
  BY <1>2, <1>3
<1>5. ASSUME NEW e, NEW f
      PROVE  /\ RecordSource(f) # Registered /\ RecordSource(f) # PublicationDate
             /\ FileSource(e, f) # Registered /\ FileSource(e, f) # PublicationDate
             /\ \A g : RecordSource(g) # FileSource(e, f)
  <2>1. FileSource(e, f)[1] = "files" /\ RecordSource(f)[1] = "record" BY <1>1
  <2>2. \A g : RecordSource(g)[1] = "record" BY <1>1
  <2> QED BY <1>2, <2>1, <2>2
<1>6. ASSUME NEW e, NEW f
      PROVE  /\ FileSource(e, "created") # FileSource(f, "updated")
             /\ \A g : FileSource(e, g) = FileSource(f, g) => e.key = f.key
  <2>1. FileSource(e, "created")[3] = "created" /\ FileSource(f, "updated")[3] = "updated" BY <1>1
  <2>2. \A g : FileSource(e, g)[2] = e.key /\ FileSource(f, g)[2] = f.key BY <1>1
  <2> QED BY <2>1, <2>2
<1> QED BY <1>4, <1>5, <1>6

\* Each file under a key of its own.
Keyed(files) == \A k, l \in DOMAIN files : files[k].key = files[l].key => k = l

\* No time source of a collected witness is told twice.
LEMMA ToldOnce ==
  ASSUME NEW a, NEW n \in Nat, DOMAIN a.files = 1..n, Keyed(a.files),
         NEW reason, NEW s, NEW last \in Nat, Arranged(a, n, reason, s, last),
         NEW i \in 1..last, NEW j \in 1..last, s[i].source = s[j].source
  PROVE  i = j
<1> DEFINE IsFirst(k) == k = 1 /\ s[k].source = RecordSource("created")
           IsSecond(k) == k = 2 /\ s[k].source = RecordSource("updated")
           IsLast(k) == k = last /\ s[k].source = Registered
           IsCreated(k) == \E h \in 1..n : k = 2 * h + 1 /\ s[k].source = FileSource(a.files[h], "created")
           IsUpdated(k) == \E h \in 1..n : k = 2 * h + 2 /\ s[k].source = FileSource(a.files[h], "updated")
<1>1. /\ s[1].source = RecordSource("created") /\ s[2].source = RecordSource("updated")
      /\ reason = "" => s[last].source = Registered
  <2>1. /\ Source(RecordSource("created"), a.created).source = RecordSource("created")
        /\ Source(RecordSource("updated"), a.updated).source = RecordSource("updated")
        /\ Source(Registered, a.registered).source = Registered
    BY DEF Source
  <2>2. /\ s[1] = Source(RecordSource("created"), a.created)
        /\ s[2] = Source(RecordSource("updated"), a.updated)
        /\ reason = "" => s[last] = Source(Registered, a.registered)
    BY DEF Arranged, RecordSource
  <2>3. s[1].source = RecordSource("created") BY <2>1, <2>2
  <2>4. s[2].source = RecordSource("updated") BY <2>1, <2>2
  <2>5. reason = "" => s[last].source = Registered BY <2>1, <2>2
  <2> QED BY <2>3, <2>4, <2>5
<1>2. ASSUME NEW h \in 1..n
      PROVE  /\ s[2 * h + 1].source = FileSource(a.files[h], "created")
             /\ s[2 * h + 2].source = FileSource(a.files[h], "updated")
  <2>1. \A name, value : Source(name, value).source = name BY DEF Source
  <2>2. /\ s[2 * h + 1] = Source(FileSource(a.files[h], "created"), a.files[h].created)
        /\ s[2 * h + 2] = Source(FileSource(a.files[h], "updated"), a.files[h].updated)
    BY DEF Arranged
  <2> QED BY <2>1, <2>2
<1>3. ASSUME NEW k \in 1..last
      PROVE  IsFirst(k) \/ IsSecond(k) \/ IsLast(k) \/ IsCreated(k) \/ IsUpdated(k)
  <2>1. \/ k = 1 \/ k = 2 \/ (reason = "" /\ k = last)
        \/ \E h \in 1..n : k = 2 * h + 1 \/ k = 2 * h + 2
    BY DEF Arranged
  <2>2. CASE k = 1 BY <1>1, <2>2
  <2>3. CASE k = 2 BY <1>1, <2>3
  <2>4. CASE reason = "" /\ k = last BY <1>1, <2>4
  <2>5. CASE \E h \in 1..n : k = 2 * h + 1 \/ k = 2 * h + 2
    BY <1>2, <2>5
  <2> QED BY <2>1, <2>2, <2>3, <2>4, <2>5
<1>4. CASE IsCreated(i) /\ IsCreated(j)
  <2>1. PICK h \in 1..n : i = 2 * h + 1 /\ s[i].source = FileSource(a.files[h], "created") BY <1>4
  <2>2. PICK g \in 1..n : j = 2 * g + 1 /\ s[j].source = FileSource(a.files[g], "created") BY <1>4
  <2>3. FileSource(a.files[h], "created") = FileSource(a.files[g], "created") BY <2>1, <2>2
  <2>4. a.files[h].key = a.files[g].key BY <2>3, SourcesApart
  <2>5. h = g BY <2>4 DEF Keyed
  <2> QED BY <2>1, <2>2, <2>5
<1>5. CASE IsUpdated(i) /\ IsUpdated(j)
  <2>1. PICK h \in 1..n : i = 2 * h + 2 /\ s[i].source = FileSource(a.files[h], "updated") BY <1>5
  <2>2. PICK g \in 1..n : j = 2 * g + 2 /\ s[j].source = FileSource(a.files[g], "updated") BY <1>5
  <2>3. FileSource(a.files[h], "updated") = FileSource(a.files[g], "updated") BY <2>1, <2>2
  <2>4. a.files[h].key = a.files[g].key BY <2>3, SourcesApart
  <2>5. h = g BY <2>4 DEF Keyed
  <2> QED BY <2>1, <2>2, <2>5
<1>6. ~(IsCreated(i) /\ IsUpdated(j)) /\ ~(IsCreated(j) /\ IsUpdated(i))
  BY SourcesApart
<1>7. ASSUME NEW k \in 1..last, NEW l \in 1..last, s[k].source = s[l].source,
             IsFirst(k) \/ IsSecond(k) \/ IsLast(k)
      PROVE  ~IsCreated(l) /\ ~IsUpdated(l)
  <2> DEFINE name == s[k].source
  <2>1. name = RecordSource("created") \/ name = RecordSource("updated") \/ name = Registered
    BY <1>7
  <2>2. \A e, f : name # FileSource(e, f)
    BY <2>1, SourcesApart
  <2> HIDE DEF name
  <2>3. s[l].source = name
    BY <1>7 DEF name
  <2> QED BY <2>2, <2>3
<1>8. ASSUME IsFirst(i) \/ IsSecond(i) \/ IsLast(i), IsFirst(j) \/ IsSecond(j) \/ IsLast(j)
      PROVE  i = j
  <2>1. /\ RecordSource("created") # RecordSource("updated")
        /\ RecordSource("created") # Registered /\ RecordSource("updated") # Registered
    BY SourcesApart
  <2> QED BY <1>8, <2>1
<1> HIDE DEF IsFirst, IsSecond, IsLast, IsCreated, IsUpdated
<1> QED BY <1>3, <1>4, <1>5, <1>6, <1>7, <1>8

\* What the record and the files of a deposit imply.
Told(a, n) == {RecordSource("created"), RecordSource("updated")}
                \cup {FileSource(a.files[h], f) : h \in 1..n, f \in {"created", "updated"}}

\* The sources of a witness are called that, but for the registry.
LEMMA SourceNames ==
  ASSUME NEW a, NEW n \in Nat, DOMAIN a.files = 1..n, NEW reason
  PROVE  /\ \A x \in SourceSet(a, reason) : x.source \in Told(a, n) \/ (reason = "" /\ x.source = Registered)
         /\ \A name \in Told(a, n) : \E x \in SourceSet(a, reason) : x.source = name
         /\ reason = "" => \E x \in SourceSet(a, reason) : x.source = Registered
<1> DEFINE Of(h, f) == Source(FileSource(a.files[h], f), IF f = "created" THEN a.files[h].created ELSE a.files[h].updated)
           First == Source(RecordSource("created"), a.created)
           Second == Source(RecordSource("updated"), a.updated)
           Third == Source(Registered, a.registered)
<1>1. First.source = RecordSource("created") /\ Second.source = RecordSource("updated") /\ Third.source = Registered
  BY DEF Source
<1>2. \A h, f : Of(h, f).source = FileSource(a.files[h], f)
  BY DEF Source
<1>3. \A h : FileSources(a.files[h]) = {Of(h, "created"), Of(h, "updated")}
  BY DEF FileSources
<1> HIDE DEF Of
<1>4. First \in SourceSet(a, reason) /\ Second \in SourceSet(a, reason)
      /\ (reason = "" => Third \in SourceSet(a, reason))
  BY DEF SourceSet, RecordSource
<1>5. \A h \in 1..n, f \in {"created", "updated"} : Of(h, f) \in SourceSet(a, reason)
  BY <1>3 DEF SourceSet
<1>6. ASSUME NEW x \in SourceSet(a, reason)
      PROVE  x = First \/ x = Second \/ (reason = "" /\ x = Third)
             \/ \E h \in 1..n, f \in {"created", "updated"} : x = Of(h, f)
  <2>1. x \in {First, Second} \/ (reason = "" /\ x = Third) \/ \E h \in 1..n : x \in FileSources(a.files[h])
    BY DEF SourceSet, RecordSource
  <2> QED BY <1>3, <2>1
<1> HIDE DEF First, Second, Third
<1>7. ASSUME NEW x \in SourceSet(a, reason)
      PROVE  x.source \in Told(a, n) \/ (reason = "" /\ x.source = Registered)
  <2>1. ASSUME NEW h \in 1..n, NEW f \in {"created", "updated"}, x = Of(h, f)
        PROVE  x.source = FileSource(a.files[h], f)
    BY <1>2, <2>1
  <2>2. \A h \in 1..n, f \in {"created", "updated"} : FileSource(a.files[h], f) \in Told(a, n)
    BY DEF Told
  <2>3. RecordSource("created") \in Told(a, n) /\ RecordSource("updated") \in Told(a, n)
    BY DEF Told
  <2> QED BY <1>1, <1>6, <2>1, <2>2, <2>3
<1>8. ASSUME NEW name \in Told(a, n) PROVE \E x \in SourceSet(a, reason) : x.source = name
  <2>1. name = RecordSource("created") \/ name = RecordSource("updated")
        \/ \E h \in 1..n, f \in {"created", "updated"} : name = FileSource(a.files[h], f)
    BY DEF Told
  <2> QED BY <1>1, <1>2, <1>4, <1>5, <2>1
<1> QED BY <1>1, <1>4, <1>7, <1>8

\* These are the times that the checker finds implied.
LEMMA ToldIsImplied ==
  ASSUME NEW a, NEW n \in Nat, NEW keys, keys = {a.files[i].key : i \in 1..n}
  PROVE  RecordTimes \cup FileTimes(keys) = Told(a, n)
<1>1. RecordTimes = {RecordSource("created"), RecordSource("updated")}
  BY DEF RecordTimes, RecordSource
<1>2. \A h, f : FileSource(a.files[h], f) = <<"files", a.files[h].key, f>>
  BY DEF FileSource
<1>3. ASSUME NEW x \in FileTimes(keys)
      PROVE  \E h \in 1..n, f \in {"created", "updated"} : x = FileSource(a.files[h], f)
  <2>1. PICK key \in keys, f \in {"created", "updated"} : x = <<"files", key, f>>
    BY DEF FileTimes
  <2>2. PICK h \in 1..n : key = a.files[h].key
    OBVIOUS
  <2>3. x = FileSource(a.files[h], f)
    BY <1>2, <2>1, <2>2
  <2> QED BY <2>3
<1>4. ASSUME NEW h \in 1..n, NEW f \in {"created", "updated"}
      PROVE  FileSource(a.files[h], f) \in FileTimes(keys)
  <2>1. a.files[h].key \in keys
    OBVIOUS
  <2> DEFINE key == a.files[h].key
  <2>2. FileSource(a.files[h], f) = <<"files", key, f>>
    BY DEF FileSource
  <2> HIDE DEF key
  <2>3. key \in keys
    BY <2>1 DEF key
  <2>4. \A k \in keys : <<"files", k, f>> \in FileTimes(keys)
    BY DEF FileTimes
  <2> QED BY <2>2, <2>3, <2>4
<1> QED BY <1>1, <1>3, <1>4 DEF Told

\* Neither the depositor's date nor the registry's is among them.
LEMMA NothingElseTold ==
  ASSUME NEW a, NEW n
  PROVE  PublicationDate \notin Told(a, n) /\ Registered \notin Told(a, n)
<1>1. \A x \in Told(a, n) : x = RecordSource("created") \/ x = RecordSource("updated")
                            \/ \E h \in 1..n, f \in {"created", "updated"} : x = FileSource(a.files[h], f)
  BY DEF Told
<1> QED BY <1>1, SourcesApart

\* The anchor of a collected witness has no problem.
LEMMA AnchorPasses ==
  ASSUME NEW t, NEW a, NEW now \in Nat, NEW ever, RecordForm(a, now, ever),
         NEW reason, reason # "blank"
  PROVE  _check_witness_anchor(collect(t, a, reason)) = {}
<1> DEFINE w == collect(t, a, reason)
           sources == w.time_sources
           implied == RecordTimes \cup FileTimes(DOMAIN Listing(w))
           carried == {s.source : s \in Range(sources)}
           known(s) == s.source \in implied \cup {Registered}
           parsed == {i \in DOMAIN sources : known(sources[i]) /\ sources[i].value.zone}
           Same(i, j) == i # j /\ sources[i].source = sources[j].source
<1>1. /\ w.time_sources = SourcesOf(a, reason) /\ w.deposit_files = a.files /\ w.reason = reason
      /\ w.latest = Latest(SourcesOf(a, reason), DOMAIN SourcesOf(a, reason))
  BY Collected
<1>2. PICK n \in Nat : IsRow(a.files, n)
  BY DEF RecordForm, Row
<1>3. PICK last \in Nat : Arranged(a, n, reason, SourcesOf(a, reason), last)
  BY <1>2, EverySource
<1>4. DOMAIN a.files = 1..n
  BY <1>2, RowsLength
<1>5. \A k, l \in DOMAIN a.files : a.files[k].key = a.files[l].key => k = l
  BY DEF RecordForm, Row
<1>6. \A i \in DOMAIN SourcesOf(a, reason) : Past(SourcesOf(a, reason)[i].value, now)
  BY AnchorIsLast
<1> HIDE DEF w
<1>7. Arranged(a, n, reason, sources, last)
  BY <1>1, <1>3
<1>8. IsRow(sources, last) /\ 2 * n + 2 <= last
  BY <1>7 DEF Arranged
<1>9. DOMAIN sources = 1..last
  BY <1>8, RowsLength
<1>10. {sources[i] : i \in 1..last} = SourceSet(a, reason)
  BY <1>2, <1>7, SourcesAre
<1>11. Range(sources) = SourceSet(a, reason)
  BY <1>9, <1>10 DEF Range
<1>12. DOMAIN Listing(w) = {a.files[i].key : i \in 1..n}
  <2>1. IsRow(w.deposit_files, n) BY <1>1, <1>2
  <2>2. \A i, j \in DOMAIN w.deposit_files : w.deposit_files[i].key = w.deposit_files[j].key => i = j
    BY <1>1, <1>5
  <2>3. DOMAIN Listing(w) = {w.deposit_files[i].key : i \in 1..n}
    BY <2>1, <2>2, ListedUnder
  <2> QED BY <1>1, <2>3
<1>13. implied = Told(a, n)
  BY <1>12, ToldIsImplied
<1>14. /\ \A x \in SourceSet(a, reason) : x.source \in Told(a, n) \/ (reason = "" /\ x.source = Registered)
       /\ \A name \in Told(a, n) : \E x \in SourceSet(a, reason) : x.source = name
       /\ reason = "" => \E x \in SourceSet(a, reason) : x.source = Registered
  BY <1>4, SourceNames
<1>15. /\ \A name \in carried : name \in Told(a, n) \/ (reason = "" /\ name = Registered)
       /\ Told(a, n) \subseteq carried /\ (reason = "" => Registered \in carried)
  BY <1>11, <1>14
<1> HIDE DEF implied, carried
<1>16. PublicationDate \notin carried
  BY <1>15, NothingElseTold, SourcesApart
<1>17. ASSUME NEW i \in 1..last PROVE known(sources[i]) /\ sources[i].value.zone = TRUE
  <2>1. sources[i].source \in carried
    BY <1>9 DEF carried, Range
  <2>2. Past(sources[i].value, now)
    BY <1>1, <1>6, <1>9
  <2> QED BY <1>13, <1>15, <2>1, <2>2 DEF Past
<1>18. \A i, j \in 1..last : ~Same(i, j)
  <2>1. ASSUME NEW i \in 1..last, NEW j \in 1..last, sources[i].source = sources[j].source PROVE i = j
    <3> HIDE DEF sources
    <3>1. Keyed(a.files) BY <1>5 DEF Keyed
    <3> QED BY <1>4, <1>7, <2>1, <3>1, ToldOnce
  <2> QED BY <2>1
<1>19. parsed = 1..last
  BY <1>9, <1>17
<1>20. w.latest = Latest(sources, 1..last)
  BY <1>1, <1>9
<1>21. reason = "" => Registered \in carried
  BY <1>15
<1> DEFINE Depositor == Reported(PublicationDate \in carried, <<"anchor", "depositor">>)
           Unknown == Reported(\E s \in Range(sources) : ~known(s) /\ s.source # PublicationDate,
                               <<"anchor", "unknown">>)
           NoZone == Reported(\E s \in Range(sources) : known(s) /\ ~s.value.zone, <<"anchor", "no zone">>)
           ToldTwice == Reported(\E i, j \in DOMAIN sources : Same(i, j), <<"anchor", "twice">>)
           Omits == Reported(~(implied \subseteq carried), <<"anchor", "omits">>)
           NoReason == Reported(Registered \notin carried /\ w.reason \in {"", "blank"}, <<"anchor", "no reason">>)
           NotLatest == Reported(parsed # {} /\ w.latest # Latest(sources, parsed), <<"anchor", "not the latest">>)
<1>22. _check_witness_anchor(w) =
         IF sources = <<>> THEN {<<"anchor", "no time_sources">>}
         ELSE Depositor \cup Unknown \cup NoZone \cup ToldTwice \cup Omits \cup NoReason \cup NotLatest
  BY DEF _check_witness_anchor, carried, implied
<1>23. sources # <<>>
  <2>1. 1 \in 1..last BY <1>8
  <2>2. DOMAIN sources # {} BY <1>9, <2>1
  <2>3. DOMAIN <<>> = {} OBVIOUS
  <2> QED BY <2>3, <2>2
<1>24. \A s \in Range(sources) : known(s) /\ s.value.zone = TRUE
  <2> HIDE DEF known
  <2> QED BY <1>9, <1>17 DEF Range
<1> HIDE DEF known, Same, parsed
<1>25. Depositor = {}
  BY <1>16 DEF Reported
<1>26. Unknown = {} /\ NoZone = {}
  BY <1>24 DEF Reported
<1>27. ToldTwice = {}
  BY <1>9, <1>18 DEF Reported
<1>28. Omits = {}
  BY <1>13, <1>15 DEF Reported
<1>29. NoReason = {}
  BY <1>1, <1>21 DEF Reported
<1>30. NotLatest = {}
  BY <1>19, <1>20 DEF Reported
<1> HIDE DEF Depositor, Unknown, NoZone, ToldTwice, Omits, NoReason, NotLatest
<1>31. _check_witness_anchor(w) = {}
  BY <1>22, <1>23, <1>25, <1>26, <1>27, <1>28, <1>29, <1>30
<1> QED BY <1>31 DEF w

\* A tree that passes has every sealed file and a manifest of just these.
LEMMA PassingTree ==
  ASSUME NEW t, verify_seal(t, <<>>, <<>>) = {}
  PROVE  /\ SealProblems(t) = {} /\ ~Ended(t) /\ AllHere(t)
         /\ SEALED_PATHS(t) = DOMAIN ManifestOf(t).files
<1>1. /\ ManifestProblems(t) = {} /\ HashProblems(t) = {} /\ ~Ended(t)
  BY QuietSeal
<1>2. SealProblems(t) = {}
  BY DEF verify_seal
<1>3. AllHere(t)
  BY <1>1, QuietHashes DEF AllHere
<1>4. SEALED_PATHS(t) = DOMAIN ManifestOf(t).files
  BY <1>1, QuietManifest
<1> QED BY <1>1, <1>2, <1>3, <1>4

\* What is collected passes.
LEMMA CollectedPasses ==
  ASSUME NEW t, TreeForm(t), verify_seal(t, <<>>, <<>>) = {},
         NEW a, NEW now \in Nat, NEW ever, RecordForm(a, now, ever), AllTwins(t, a),
         NEW reason, reason # "blank"
  PROVE  verify_seal(t, <<collect(t, a, reason)>>, <<>>) = {}
<1> DEFINE w == collect(t, a, reason)
<1>1. /\ SealProblems(t) = {} /\ ~Ended(t) /\ AllHere(t)
      /\ SEALED_PATHS(t) = DOMAIN ManifestOf(t).files
  BY PassingTree
<1>2. w.schema = WITNESS_SCHEMA /\ w.deposit_files = a.files /\ w.files = match_by_content(t, a.files)
  BY Collected
<1>3. _check_witness_anchor(w) = {}
  BY AnchorPasses
<1> HIDE DEF w
<1>4. PICK n \in Nat : IsRow(a.files, n)
  BY DEF RecordForm, Row
<1>5. \A i, j \in DOMAIN a.files : a.files[i].key = a.files[j].key => i = j
  BY DEF RecordForm, Row
<1>6. Entries(t, a.files, w.files)
  BY <1>2, EntriesMatch
<1>7. /\ IsRow(w.deposit_files, n) /\ Entries(t, w.deposit_files, w.files)
      /\ \A i, j \in DOMAIN w.deposit_files : w.deposit_files[i].key = w.deposit_files[j].key => i = j
  BY <1>2, <1>4, <1>5, <1>6
<1>8. _check_witness_files(t, w) = {} /\ _deposit_listing(w) = {}
  BY <1>1, <1>7, FilesPass
<1>9. _check_witness(t, w) = {}
  BY <1>2, <1>3, <1>8 DEF _check_witness
<1>10. UNION {_check_witness(t, x) : x \in Range(<<w>>)} = {}
  <2>1. \A x \in Range(<<w>>) : x = w
    <3>1. DOMAIN <<w>> = {1} /\ <<w>>[1] = w OBVIOUS
    <3> QED BY <3>1 DEF Range
  <2> QED BY <1>9, <2>1
<1> DEFINE found == UNION {_check_witness(t, x) : x \in Range(<<w>>)}
           runs == UNION {IF r.arm = "" THEN {<<"run", "no arm">>}
                          ELSE _check_run_manifest(t, r) : r \in Range(<<>>)}
<1>11. runs = {}
  <2>1. DOMAIN <<>> = {} OBVIOUS
  <2>2. Range(<<>>) = {} BY <2>1 DEF Range
  <2> QED BY <2>2
<1>12. verify_seal(t, <<w>>, <<>>) = SealProblems(t) \cup (found \cup runs)
  BY <1>1 DEF verify_seal
<1>13. found = {}
  BY <1>10
<1> HIDE DEF found, runs
<1>14. verify_seal(t, <<w>>, <<>>) = {}
  BY <1>1, <1>11, <1>12, <1>13
<1> QED BY <1>14 DEF w

\* The anchor of what is collected is after all that is deposited.
LEMMA AnchorAfterAll ==
  ASSUME NEW t, NEW a, NEW now \in Nat, NEW ever, RecordForm(a, now, ever), NEW reason
  PROVE  \A e \in Range(a.files) : e.updated.at <= collect(t, a, reason).latest.at
<1> DEFINE w == collect(t, a, reason)
<1>1. w.deposit_files = a.files /\ w.latest = Latest(SourcesOf(a, reason), DOMAIN SourcesOf(a, reason))
  BY Collected
<1> HIDE DEF w
<1>2. \A k \in DOMAIN a.files : a.files[k].updated.at <= w.latest.at
  BY <1>1, AnchorIsLast
<1>3. \A e \in Range(a.files) : e.updated.at <= w.latest.at
  BY <1>2 DEF Range
<1> QED BY <1>3 DEF w

\* The collector writes for every deposit that has a twin of each sealed file, and
\* the checker accepts what it writes, with the registry's time or with a reason
\* for its absence; the anchor is after all that is deposited (match_by_content,
\* time_sources, _check_witness).
THEOREM CollectedIsAccepted == SealSpec => []CollectorMeetsChecker
<1>1. SealInv => CollectorMeetsChecker
  <2> SUFFICES ASSUME SealInv, case = "", verify_seal(tree, <<>>, <<>>) = {} PROVE
      /\ Collectable(tree, archive) <=>
           \A path \in SEALED_PATHS(tree) :
             Digest("md5", tree[path]) \in {e.checksum : e \in Range(archive.files)}
      /\ Collectable(tree, archive) => \A reason \in {"", "not consulted"} :
           LET w == collect(tree, archive, reason) IN
           /\ verify_seal(tree, <<w>>, <<>>) = {}
           /\ \A e \in Range(archive.files) : e.updated.at <= w.latest.at
    BY DEF CollectorMeetsChecker
  <2>1. TreeForm(tree) /\ RecordForm(archive, clock, held) /\ clock \in Nat
    BY DEF SealInv
  <2>2. AllHere(tree)
    BY PassingTree
  <2>3. Collectable(tree, archive) <=> AllTwins(tree, archive)
    BY <2>1, <2>2, TwinsSuffice
  <2>4. AllTwins(tree, archive) <=>
          \A path \in SEALED_PATHS(tree) :
             Digest("md5", tree[path]) \in {e.checksum : e \in Range(archive.files)}
    BY DEF AllTwins, HasTwin, DEPOSIT_ALGORITHM
  <2>5. ASSUME AllTwins(tree, archive), NEW reason, reason # "blank"
        PROVE  /\ verify_seal(tree, <<collect(tree, archive, reason)>>, <<>>) = {}
               /\ \A e \in Range(archive.files) : e.updated.at <= collect(tree, archive, reason).latest.at
    <3>1. verify_seal(tree, <<collect(tree, archive, reason)>>, <<>>) = {}
      BY <2>1, <2>5, CollectedPasses
    <3>2. \A e \in Range(archive.files) : e.updated.at <= collect(tree, archive, reason).latest.at
      BY <2>1, AnchorAfterAll
    <3> QED BY <3>1, <3>2
  <2>6. ASSUME NEW reason \in {"", "not consulted"} PROVE reason # "blank"
    BY <2>6, Zenon
  <2>7. Collectable(tree, archive) => \A reason \in {"", "not consulted"} :
           LET w == collect(tree, archive, reason) IN
           /\ verify_seal(tree, <<w>>, <<>>) = {}
           /\ \A e \in Range(archive.files) : e.updated.at <= w.latest.at
    BY <2>3, <2>5, <2>6, Zenon
  <2> QED BY <2>3, <2>4, <2>7, Zenon
<1> QED BY <1>1, SealInvHolds, PTL

-----------------------------------------------------------------------------
(* Induction over the naturals, for a set of them in the place of a formula. *)

\* Among natural numbers there is a least.
LEMMA LeastNatural ==
    ASSUME NEW S, S \subseteq Nat, S # {}
    PROVE  \E n \in S : \A m \in S : n <= m
  <1>1. PICK n \in S : \A m \in S : <<m, n>> \notin OpToRel(<, Nat)
    BY NatLessThanWellFounded, WFMin
  <1>2. \A m \in S : ~(m < n) BY <1>1 DEF OpToRel
  <1> QED BY <1>2

\* What holds at 0 and goes from each number to the next holds of every number.
LEMMA SetInduction ==
    ASSUME NEW S, 0 \in S, \A n \in Nat : n \in S => n + 1 \in S
    PROVE  Nat \subseteq S
  <1> SUFFICES ASSUME Nat \ S # {} PROVE FALSE OBVIOUS
  <1>1. PICK n \in Nat \ S : \A m \in Nat \ S : n <= m BY LeastNatural
  <1>2. n # 0 /\ n - 1 \in Nat /\ n - 1 \in S BY <1>1
  <1> QED BY <1>1, <1>2

-----------------------------------------------------------------------------
(* Selected: a recursive function of the positions read so far. *)

SelectedAt(positions, u, i) ==
    IF i = 0 THEN <<>>
    ELSE IF i \in positions THEN Append(u[i - 1], i) ELSE u[i - 1]

SelectedUpto(positions, u, n) ==
    /\ u = [i \in 0..n |-> u[i]]
    /\ \A i \in 0..n : u[i] = SelectedAt(positions, u, i)

\* One function of the positions up to a number is longer than another only.
LEMMA SelectedAgree ==
    ASSUME NEW positions, NEW n \in Nat, NEW m \in Nat, m <= n, NEW u, NEW w,
           SelectedUpto(positions, u, n), SelectedUpto(positions, w, m)
    PROVE  \A i \in 0..m : u[i] = w[i]
  <1> DEFINE S == {i \in Nat : i <= m => u[i] = w[i]}
  <1>1. 0 \in S BY DEF SelectedUpto, SelectedAt
  <1>2. ASSUME NEW i \in Nat, i \in S PROVE i + 1 \in S
    <2> SUFFICES ASSUME i + 1 <= m PROVE u[i + 1] = w[i + 1] OBVIOUS
    <2>1. u[i] = w[i] BY <1>2
    <2> i + 1 \in 0..m /\ i + 1 \in 0..n OBVIOUS
    <2>2. /\ u[i + 1] = SelectedAt(positions, u, i + 1)
          /\ w[i + 1] = SelectedAt(positions, w, i + 1)
      BY DEF SelectedUpto
    <2>3. i + 1 # 0 /\ (i + 1) - 1 = i OBVIOUS
    <2> QED BY <2>1, <2>2, <2>3 DEF SelectedAt
  <1>3. Nat \subseteq S BY <1>1, <1>2, SetInduction
  <1> QED BY <1>3

\* There is a function of the positions up to every number.
LEMMA SelectedUptoAll ==
    ASSUME NEW positions
    PROVE  \A n \in Nat : \E u : SelectedUpto(positions, u, n)
  <1> DEFINE S == {n \in Nat : \E u : SelectedUpto(positions, u, n)}
  <1>1. 0 \in S
    <2> DEFINE u == [i \in 0..0 |-> <<>>]
    <2>1. SelectedUpto(positions, u, 0) BY DEF SelectedUpto, SelectedAt
    <2> QED BY <2>1
  <1>2. ASSUME NEW n \in Nat, n \in S PROVE n + 1 \in S
    <2>1. PICK u : SelectedUpto(positions, u, n) BY <1>2
    <2> DEFINE w == [i \in 0..(n + 1) |-> IF i <= n THEN u[i] ELSE SelectedAt(positions, u, i)]
    <2>2. \A i \in 0..n : w[i] = u[i] OBVIOUS
    <2>3. w[n + 1] = SelectedAt(positions, u, n + 1) OBVIOUS
    <2>4. \A i \in 0..(n + 1) : w[i] = SelectedAt(positions, w, i)
      <3> SUFFICES ASSUME NEW i \in 0..(n + 1) PROVE w[i] = SelectedAt(positions, w, i)
        OBVIOUS
      <3>1. w[i] = SelectedAt(positions, u, i) BY <2>1, <2>2, <2>3 DEF SelectedUpto
      <3>2. i # 0 => i - 1 \in 0..n OBVIOUS
      <3>3. i # 0 => w[i - 1] = u[i - 1] BY <2>2, <3>2
      <3> HIDE DEF w
      <3> QED BY <3>1, <3>3 DEF SelectedAt
    <2>5. w = [i \in 0..(n + 1) |-> w[i]] OBVIOUS
    <2> HIDE DEF w
    <2> QED BY <2>4, <2>5 DEF SelectedUpto
  <1>3. Nat \subseteq S BY <1>1, <1>2, SetInduction
  <1> QED BY <1>3

\* The function that Selected defines is what its recursion says it is.
LEMMA SelectedEquation ==
    ASSUME NEW positions
    PROVE  \E u : /\ u = [i \in Nat |-> SelectedAt(positions, u, i)]
                  /\ \A n \in Nat : Selected(positions, n) = u[n]
  <1> DEFINE U(n) == CHOOSE u : SelectedUpto(positions, u, n)
  <1> DEFINE f == [n \in Nat |-> U(n)[n]]
  <1>1. \A n \in Nat : SelectedUpto(positions, U(n), n) BY SelectedUptoAll
  <1> HIDE DEF U
  <1>2. ASSUME NEW n \in Nat, NEW i \in 0..n PROVE U(n)[i] = f[i]
    <2>1. i \in Nat /\ i <= n OBVIOUS
    <2>2. SelectedUpto(positions, U(n), n) /\ SelectedUpto(positions, U(i), i) BY <1>1, <2>1
    <2>3. U(n)[i] = U(i)[i] BY <2>1, <2>2, SelectedAgree
    <2> QED BY <2>1, <2>3
  <1>3. ASSUME NEW n \in Nat PROVE f[n] = SelectedAt(positions, f, n)
    <2>1. f[n] = SelectedAt(positions, U(n), n) BY <1>1 DEF SelectedUpto
    <2>2. n # 0 => n - 1 \in 0..n OBVIOUS
    <2>3. n # 0 => U(n)[n - 1] = f[n - 1] BY <1>2, <2>2
    <2> HIDE DEF f
    <2> QED BY <2>1, <2>3 DEF SelectedAt
  <1>4. f = [n \in Nat |-> SelectedAt(positions, f, n)] BY <1>3
  <1> HIDE DEF f
  <1> DEFINE u == CHOOSE u : u = [i \in Nat |-> SelectedAt(positions, u, i)]
  <1>5. u = [i \in Nat |-> SelectedAt(positions, u, i)] BY <1>4
  <1>6. \A n \in Nat : Selected(positions, n) = u[n] BY DEF Selected, SelectedAt
  <1> HIDE DEF u
  <1> QED BY <1>5, <1>6

\* Selected is a sequence of the positions of its set and of all of them.
LEMMA SelectedIs ==
    ASSUME NEW positions, NEW length \in Nat
    PROVE  /\ Selected(positions, length) \in Seq(positions)
           /\ \A i \in 1..length : i \in positions =>
                \E k \in DOMAIN Selected(positions, length) :
                  Selected(positions, length)[k] = i
  <1>1. PICK u : /\ u = [i \in Nat |-> SelectedAt(positions, u, i)]
                 /\ \A n \in Nat : Selected(positions, n) = u[n]
    BY SelectedEquation
  <1> DEFINE Good(n) == /\ u[n] \in Seq(positions)
                        /\ \A i \in 1..n : i \in positions =>
                             \E k \in DOMAIN u[n] : u[n][k] = i
  <1> DEFINE S == {n \in Nat : Good(n)}
  <1>2. u[0] = <<>> BY <1>1 DEF SelectedAt
  <1>3. ASSUME NEW n \in Nat
        PROVE  u[n + 1] = IF n + 1 \in positions THEN Append(u[n], n + 1) ELSE u[n]
    <2>1. u[n + 1] = SelectedAt(positions, u, n + 1) BY <1>1
    <2>2. n + 1 # 0 /\ (n + 1) - 1 = n OBVIOUS
    <2> QED BY <2>1, <2>2 DEF SelectedAt
  <1>4. 0 \in S
    <2>1. u[0] \in Seq(positions) BY <1>2
    <2>2. 1..0 = {} OBVIOUS
    <2> QED BY <2>1, <2>2
  <1>5. ASSUME NEW n \in Nat, n \in S PROVE n + 1 \in S
    <2>1. u[n] \in Seq(positions) BY <1>5
    <2>2. \A i \in 1..n : i \in positions => \E k \in DOMAIN u[n] : u[n][k] = i BY <1>5
    <2>3. CASE n + 1 \in positions
      <3>1. u[n + 1] = Append(u[n], n + 1) BY <1>3, <2>3
      <3>2. u[n + 1] \in Seq(positions) BY <3>1, <2>1, <2>3
      <3>3. /\ \A k \in DOMAIN u[n] : k \in DOMAIN u[n + 1] /\ u[n + 1][k] = u[n][k]
            /\ Len(u[n]) + 1 \in DOMAIN u[n + 1] /\ u[n + 1][Len(u[n]) + 1] = n + 1
        BY <3>1, <2>1, <2>3
      <3>4. \A i \in 1..(n + 1) : i \in positions => \E k \in DOMAIN u[n + 1] : u[n + 1][k] = i
        BY <3>3, <2>2
      <3> QED BY <3>2, <3>4
    <2>4. CASE n + 1 \notin positions
      <3>1. u[n + 1] = u[n] BY <1>3, <2>4
      <3>2. \A i \in 1..(n + 1) : i \in positions => i \in 1..n BY <2>4
      <3> QED BY <3>1, <3>2, <2>1, <2>2
    <2> QED BY <2>3, <2>4
  <1>6. Nat \subseteq S BY <1>4, <1>5, SetInduction
  <1>7. Good(length) BY <1>6
  <1>8. Selected(positions, length) = u[length] BY <1>1
  <1> QED BY <1>7, <1>8

\* Collapsing white space loses no word.
LEMMA NormKeeps ==
    ASSUME NEW text, Len(text) \in Nat, DOMAIN text = 1..Len(text),
           NEW token, token \in Range(text), token \notin Space
    PROVE  token \in Range(Norm(text))
  <1>1. PICK i \in DOMAIN text : text[i] = token BY DEF Range
  <1> DEFINE inner(j) == /\ j > 1 => text[j - 1] \notin Space
                         /\ \E k \in 1..(j - 1) : text[k] \notin Space
                         /\ \E k \in j..Len(text) : text[k] \notin Space
             positions == {j \in DOMAIN text : text[j] \notin Space \/ inner(j)}
             kept == Selected(positions, Len(text))
  <1>2. i \in positions /\ i \in 1..Len(text) BY <1>1
  <1> HIDE DEF positions
  <1>3. PICK k \in DOMAIN kept : kept[k] = i BY <1>2, SelectedIs
  <1>4. Norm(text) = [j \in DOMAIN kept |->
                        IF text[kept[j]] \in Space THEN SP ELSE text[kept[j]]]
    BY DEF Norm, positions
  <1> HIDE DEF kept
  <1>5. Norm(text)[k] = token /\ k \in DOMAIN Norm(text) BY <1>1, <1>3, <1>4
  <1> QED BY <1>5 DEF Range

-----------------------------------------------------------------------------
(* The stretches two sequences share. *)

\* What comes after the last position before an end is no later than that end.
LEMMA EndAfterLast ==
    ASSUME NEW x \in Int, NEW y \in Int, NEW far \in Int, NEW near \in Int, NEW n \in Int,
           x + (n - 1) < far, y + (n - 1) < near
    PROVE  x + n <= far /\ y + n <= near
  OBVIOUS

\* What RunFrom yields is as long as the two go together.
LEMMA RunFromIs ==
    ASSUME NEW a, NEW b, Len(a) \in Nat, Len(b) \in Nat, NEW part \in Part(a, b),
           NEW i \in part.alo..(part.ahi - 1), NEW j \in part.blo..(part.bhi - 1),
           a[i] = b[j]
    PROVE  /\ RunFrom(a, b, part, i, j) \in Nat \ {0}
           /\ i + RunFrom(a, b, part, i, j) <= part.ahi
           /\ j + RunFrom(a, b, part, i, j) <= part.bhi
           /\ \A m \in 0..(RunFrom(a, b, part, i, j) - 1) : a[i + m] = b[j + m]
  <1> DEFINE same(m) == /\ i + m < part.ahi /\ j + m < part.bhi
                        /\ a[i + m] = b[j + m]
             Apart == {k \in Nat : ~same(k)}
             run(k) == (\A m \in 0..(k - 1) : same(m)) /\ ~same(k)
             r == RunFrom(a, b, part, i, j)
  <1>0. /\ part.alo \in 1..(Len(a) + 1) /\ part.ahi \in 1..(Len(a) + 1)
        /\ part.blo \in 1..(Len(b) + 1) /\ part.bhi \in 1..(Len(b) + 1)
    BY DEF Part
  <1>1. i \in Nat /\ j \in Nat /\ i >= 1 /\ i < part.ahi /\ j < part.bhi BY <1>0
  <1> DEFINE far == part.ahi - i
  <1>2. far \in Apart
    <2>1. far \in Nat /\ ~(i + far < part.ahi) BY <1>0, <1>1
    <2> QED BY <2>1
  <1>3. PICK k \in Apart : \A m \in Apart : k <= m BY <1>2, LeastNatural
  <1>4. k \in 0..Len(a)
    <2>1. k \in Nat OBVIOUS
    <2>2. k <= far
      <3> HIDE DEF far, Apart
      <3> QED BY <1>2, <1>3
    <2>3. far <= Len(a) BY <1>0, <1>1
    <2>4. far \in Int BY <1>0, <1>1
    <2> HIDE DEF far
    <2> QED BY <2>1, <2>2, <2>3, <2>4
  <1>5. run(k)
    <2>1. ASSUME NEW m \in 0..(k - 1) PROVE m \in Nat /\ m \notin Apart
      <3>1. k \in Nat BY <1>4
      <3>2. m \in Nat /\ ~(k <= m) BY <3>1
      <3> HIDE DEF Apart
      <3> QED BY <3>2, <1>3
    <2>2. ASSUME NEW m \in 0..(k - 1) PROVE same(m) BY <2>1
    <2> QED BY <2>2, <1>3
  <1>6. r = CHOOSE x \in 0..Len(a) : run(x) BY DEF RunFrom
  <1> HIDE DEF r, run
  <1>7. r \in 0..Len(a) /\ run(r) BY <1>4, <1>5, <1>6
  <1> USE DEF run
  <1>8. same(0) BY <1>0, <1>1
  <1>9. r # 0 BY <1>7, <1>8
  <1>10. r - 1 \in 0..(r - 1) BY <1>7, <1>9
  <1>11. same(r - 1) BY <1>7, <1>10
  <1>12. i + r <= part.ahi /\ j + r <= part.bhi
    <2>1. i + (r - 1) < part.ahi /\ j + (r - 1) < part.bhi BY <1>11
    <2>2. r \in Int BY <1>7
    <2>3. i \in Int /\ j \in Int /\ part.ahi \in Int /\ part.bhi \in Int BY <1>0, <1>1
    <2> HIDE DEF run, r
    <2> QED BY <2>1, <2>2, <2>3, EndAfterLast
  <1>13. \A m \in 0..(r - 1) : a[i + m] = b[j + m] BY <1>7
  <1> QED BY <1>7, <1>9, <1>12, <1>13 DEF r

\* Of stretches no longer than a bound there is a longest, and of those a first.
LEMMA LongestIs ==
    ASSUME NEW n \in Nat, NEW runs, runs \subseteq Nat \X Nat \X (0..n), runs # {}
    PROVE  Longest(runs) \in runs
  <1> DEFINE Lacks == {n - r[3] : r \in runs}
  <1>0. \A r \in runs : r[1] \in Nat /\ r[2] \in Nat /\ r[3] \in 0..n OBVIOUS
  <1>1. Lacks \subseteq Nat /\ Lacks # {} BY <1>0
  <1>2. PICK l \in Lacks : \A m \in Lacks : l <= m BY <1>1, LeastNatural
  <1>3. PICK x \in runs : l = n - x[3] BY <1>2
  <1>4. \A r \in runs : r[3] <= x[3]
    <2> SUFFICES ASSUME NEW r \in runs PROVE r[3] <= x[3] OBVIOUS
    <2>1. n - x[3] <= n - r[3] BY <1>2, <1>3
    <2> QED BY <2>1, <1>0
  <1> HIDE DEF Lacks
  <1> DEFINE Firsts == {r[1] : r \in {q \in runs : q[3] = x[3]}}
  <1>5. Firsts \subseteq Nat /\ Firsts # {} BY <1>0
  <1>6. PICK f \in Firsts : \A m \in Firsts : f <= m BY <1>5, LeastNatural
  <1>7. PICK y \in runs : y[3] = x[3] /\ y[1] = f BY <1>6
  <1>8. \A r \in runs : r[3] = x[3] => y[1] <= r[1] BY <1>6, <1>7
  <1> HIDE DEF Firsts
  <1> DEFINE Seconds == {r[2] : r \in {q \in runs : q[3] = x[3] /\ q[1] = y[1]}}
  <1>9. Seconds \subseteq Nat /\ Seconds # {} BY <1>0, <1>7
  <1>10. PICK g \in Seconds : \A m \in Seconds : g <= m BY <1>9, LeastNatural
  <1>11. PICK z \in runs : z[3] = x[3] /\ z[1] = y[1] /\ z[2] = g BY <1>10
  <1>12. \A r \in runs : r[3] = x[3] /\ r[1] = y[1] => z[2] <= r[2] BY <1>10, <1>11
  <1> HIDE DEF Seconds
  <1> DEFINE best(r) == \A q \in runs :
               \/ r[3] > q[3]
               \/ r[3] = q[3] /\ r[1] < q[1]
               \/ r[3] = q[3] /\ r[1] = q[1] /\ r[2] <= q[2]
  <1>13. best(z)
    <2> SUFFICES ASSUME NEW q \in runs
                 PROVE  \/ z[3] > q[3]
                        \/ z[3] = q[3] /\ z[1] < q[1]
                        \/ z[3] = q[3] /\ z[1] = q[1] /\ z[2] <= q[2]
      OBVIOUS
    <2> QED BY <1>0, <1>4, <1>8, <1>11, <1>12
  <1>14. Longest(runs) = CHOOSE r \in runs : best(r) BY DEF Longest
  <1> HIDE DEF best
  <1> QED BY <1>13, <1>14

\* The bounds of a stretch that stands within others.
LEMMA RunBounds ==
    ASSUME NEW alo \in Nat, NEW ahi \in Nat, NEW l \in Nat, NEW x \in Int, NEW n \in Nat,
           alo >= 1, ahi <= l + 1, n > 0, alo <= x, x + n <= ahi
    PROVE  /\ x \in 1..(l + 1) /\ x + n \in 1..(l + 1) /\ n \in 0..l /\ alo < ahi
           /\ x - alo < ahi - alo /\ ahi - (x + n) < ahi - alo
  OBVIOUS

Texts(a, b) == Len(a) \in Nat /\ Len(b) \in Nat

\* What a stretch of a part is, as Longest picks it.
StretchIn(a, b, part, r) ==
    /\ r \in Nat \X Nat \X (Nat \ {0})
    /\ part.alo <= r[1] /\ r[1] + r[3] <= part.ahi
    /\ part.blo <= r[2] /\ r[2] + r[3] <= part.bhi
    /\ \A m \in 0..(r[3] - 1) : a[r[1] + m] = b[r[2] + m]

\* The longest stretch of a part is a stretch of it.
LEMMA LongestStretch ==
    ASSUME NEW a, NEW b, Texts(a, b), NEW part \in Part(a, b),
           Stretches(a, b, part) # {}
    PROVE  StretchIn(a, b, part, Longest(Stretches(a, b, part)))
  <1> DEFINE starts == {s \in (part.alo..(part.ahi - 1)) \X (part.blo..(part.bhi - 1)) :
                     /\ a[s[1]] = b[s[2]]
                     /\ \/ s[1] = part.alo \/ s[2] = part.blo
                        \/ a[s[1] - 1] # b[s[2] - 1]}
             runs == Stretches(a, b, part)
             of(s) == <<s[1], s[2], RunFrom(a, b, part, s[1], s[2])>>
  <1>0. /\ part.alo \in 1..(Len(a) + 1) /\ part.ahi \in 1..(Len(a) + 1)
        /\ part.blo \in 1..(Len(b) + 1) /\ part.bhi \in 1..(Len(b) + 1)
        /\ Len(a) \in Nat /\ Len(b) \in Nat
    BY DEF Part, Texts
  <1>1. \A s \in starts : /\ s[1] \in part.alo..(part.ahi - 1)
                          /\ s[2] \in part.blo..(part.bhi - 1) /\ a[s[1]] = b[s[2]]
    OBVIOUS
  <1>2. runs = {of(s) : s \in starts} BY DEF Stretches
  <1> HIDE DEF starts, runs
  <1>3. ASSUME NEW s \in starts
        PROVE  StretchIn(a, b, part, of(s)) /\ of(s) \in Nat \X Nat \X (0..Len(a))
    <2> DEFINE i == s[1]
               j == s[2]
               r == RunFrom(a, b, part, i, j)
    <2>5. /\ i \in part.alo..(part.ahi - 1) /\ j \in part.blo..(part.bhi - 1)
          /\ a[i] = b[j] /\ Len(a) \in Nat /\ Len(b) \in Nat
      BY <1>0, <1>1
    <2> HIDE DEF i, j
    <2>1. /\ r \in Nat \ {0} /\ i + r <= part.ahi /\ j + r <= part.bhi
          /\ \A m \in 0..(r - 1) : a[i + m] = b[j + m]
      BY <2>5, RunFromIs
    <2> USE DEF i, j
    <2> HIDE DEF r
    <2>2. /\ s[1] \in Nat /\ s[2] \in Nat /\ part.alo <= s[1] /\ part.blo <= s[2]
          /\ r \in 0..Len(a)
      <3>1. /\ part.alo \in Nat /\ part.ahi \in Nat /\ part.alo >= 1 /\ part.ahi <= Len(a) + 1
            /\ part.blo \in Nat /\ part.bhi \in Nat /\ part.blo >= 1 /\ part.bhi <= Len(b) + 1
            /\ Len(a) \in Nat /\ Len(b) \in Nat
        BY <1>0
      <3>2. s[1] \in Int /\ part.alo <= s[1] /\ s[2] \in Int /\ part.blo <= s[2] /\ r \in Nat /\ r > 0
        BY <3>1, <1>1, <2>1
      <3>3. s[1] \in Nat /\ r \in 0..Len(a)
        <4>1. s[1] \in 1..(Len(a) + 1) /\ r \in 0..Len(a) BY <3>1, <3>2, <2>1, RunBounds
        <4> QED BY <4>1
      <3>4. s[2] \in Nat
        <4>1. s[2] \in 1..(Len(b) + 1) BY <3>1, <3>2, <2>1, RunBounds
        <4> QED BY <4>1
      <3> QED BY <3>2, <3>3, <3>4
    <2>3. of(s)[1] = s[1] /\ of(s)[2] = s[2] /\ of(s)[3] = r BY DEF r
    <2>4. of(s) \in Nat \X Nat \X (Nat \ {0}) /\ of(s) \in Nat \X Nat \X (0..Len(a))
      <3>1. r \in Nat \ {0} /\ r \in 0..Len(a) /\ s[1] \in Nat /\ s[2] \in Nat BY <2>1, <2>2
      <3>2. of(s) = <<s[1], s[2], r>> BY DEF r
      <3> QED BY <3>1, <3>2
    <2> HIDE DEF of
    <2> QED BY <2>1, <2>2, <2>3, <2>4 DEF StretchIn
  <1> HIDE DEF of
  <1>4. runs \subseteq Nat \X Nat \X (0..Len(a)) /\ runs # {} BY <1>2, <1>3 DEF runs
  <1>5. Longest(runs) \in runs BY <1>0, <1>4, LongestIs
  <1>6. StretchIn(a, b, part, Longest(runs)) BY <1>2, <1>3, <1>5
  <1> QED BY <1>6 DEF runs

\* The parts before and after a stretch are parts, and shorter.
LEMMA PartsShrink ==
    ASSUME NEW a, NEW b, Texts(a, b), NEW part \in Part(a, b), NEW r,
           StretchIn(a, b, part, r)
    PROVE  /\ Before(part, r) \in Part(a, b) /\ Behind(part, r) \in Part(a, b)
           /\ Before(part, r).ahi - Before(part, r).alo < part.ahi - part.alo
           /\ Behind(part, r).ahi - Behind(part, r).alo < part.ahi - part.alo
           /\ Before(part, r) = [alo |-> part.alo, ahi |-> r[1], blo |-> part.blo, bhi |-> r[2]]
           /\ Behind(part, r) = [alo |-> r[1] + r[3], ahi |-> part.ahi,
                                 blo |-> r[2] + r[3], bhi |-> part.bhi]
           /\ part.alo < part.ahi
  <1>0. /\ part.alo \in 1..(Len(a) + 1) /\ part.ahi \in 1..(Len(a) + 1)
        /\ part.blo \in 1..(Len(b) + 1) /\ part.bhi \in 1..(Len(b) + 1)
        /\ Len(a) \in Nat /\ Len(b) \in Nat
    BY DEF Part, Texts
  <1>1. /\ r[1] \in Nat /\ r[2] \in Nat /\ r[3] \in Nat /\ r[3] > 0
        /\ part.alo <= r[1] /\ r[1] + r[3] <= part.ahi
        /\ part.blo <= r[2] /\ r[2] + r[3] <= part.bhi
    BY DEF StretchIn
  <1>2. Before(part, r) = [alo |-> part.alo, ahi |-> r[1], blo |-> part.blo, bhi |-> r[2]]
    BY DEF Before
  <1>3. Behind(part, r) = [alo |-> r[1] + r[3], ahi |-> part.ahi,
                           blo |-> r[2] + r[3], bhi |-> part.bhi]
    BY DEF Behind
  <1>4. /\ r[1] \in 1..(Len(a) + 1) /\ r[2] \in 1..(Len(b) + 1)
        /\ r[1] + r[3] \in 1..(Len(a) + 1) /\ r[2] + r[3] \in 1..(Len(b) + 1)
        /\ r[1] - part.alo < part.ahi - part.alo /\ part.ahi - (r[1] + r[3]) < part.ahi - part.alo
        /\ part.alo < part.ahi
    <2>1. /\ part.alo \in Nat /\ part.ahi \in Nat /\ part.alo >= 1 /\ part.ahi <= Len(a) + 1
          /\ part.blo \in Nat /\ part.bhi \in Nat /\ part.blo >= 1 /\ part.bhi <= Len(b) + 1
          /\ Len(a) \in Nat /\ Len(b) \in Nat
      BY <1>0
    <2> DEFINE x == r[1]
               y == r[2]
               n == r[3]
               alo == part.alo
               ahi == part.ahi
               blo == part.blo
               bhi == part.bhi
               la == Len(a)
               lb == Len(b)
    <2>2. /\ alo \in Nat /\ ahi \in Nat /\ alo >= 1 /\ ahi <= la + 1 /\ la \in Nat
          /\ blo \in Nat /\ bhi \in Nat /\ blo >= 1 /\ bhi <= lb + 1 /\ lb \in Nat
          /\ x \in Int /\ y \in Int /\ n \in Nat /\ n > 0
          /\ alo <= x /\ x + n <= ahi /\ blo <= y /\ y + n <= bhi
      BY <2>1, <1>1
    <2> HIDE DEF x, y, n, alo, ahi, blo, bhi, la, lb
    <2>3. /\ x \in 1..(la + 1) /\ x + n \in 1..(la + 1) /\ x - alo < ahi - alo
          /\ ahi - (x + n) < ahi - alo /\ alo < ahi
      BY <2>2, RunBounds
    <2>4. y \in 1..(lb + 1) /\ y + n \in 1..(lb + 1) BY <2>2, RunBounds
    <2> QED BY <2>3, <2>4 DEF x, y, n, alo, ahi, blo, bhi, la, lb
  <1>5. Before(part, r) \in Part(a, b) BY <1>0, <1>2, <1>4 DEF Part
  <1>6. Behind(part, r) \in Part(a, b) BY <1>0, <1>3, <1>4 DEF Part
  <1> QED BY <1>2, <1>3, <1>4, <1>5, <1>6

MatchesAt(a, b, w, part) ==
    LET runs == Stretches(a, b, part)
        best == Longest(runs)
    IN  IF runs = {} THEN <<>>
        ELSE w[Before(part, best)] \o <<best>> \o w[Behind(part, best)]

PartsUpto(a, b, n) == {p \in Part(a, b) : p.ahi - p.alo <= n}

MatchesUpto(a, b, w, n) ==
    /\ w = [p \in PartsUpto(a, b, n) |-> w[p]]
    /\ \A p \in PartsUpto(a, b, n) : w[p] = MatchesAt(a, b, w, p)

\* What is matched in a part depends on what is matched in shorter parts.
LEMMA MatchesAtOf ==
    ASSUME NEW a, NEW b, Texts(a, b), NEW n \in Nat, NEW part \in Part(a, b),
           part.ahi - part.alo <= n + 1, NEW u, NEW w,
           \A p \in PartsUpto(a, b, n) : u[p] = w[p]
    PROVE  MatchesAt(a, b, u, part) = MatchesAt(a, b, w, part)
  <1> DEFINE runs == Stretches(a, b, part)
             best == Longest(runs)
  <1>1. CASE runs = {} BY <1>1 DEF MatchesAt
  <1>2. CASE runs # {}
    <2>1. StretchIn(a, b, part, best) BY <1>2, LongestStretch
    <2> HIDE DEF best
    <2>2. /\ Before(part, best) \in Part(a, b) /\ Behind(part, best) \in Part(a, b)
          /\ Before(part, best).ahi - Before(part, best).alo < part.ahi - part.alo
          /\ Behind(part, best).ahi - Behind(part, best).alo < part.ahi - part.alo
      BY <2>1, PartsShrink
    <2>3. ASSUME NEW p \in Part(a, b), p.ahi - p.alo < part.ahi - part.alo
          PROVE  u[p] = w[p]
      <3>1. /\ p.ahi \in Int /\ p.alo \in Int /\ part.ahi \in Int /\ part.alo \in Int
        BY DEF Part, Texts
      <3>2. p.ahi - p.alo <= n BY <3>1, <2>3
      <3> QED BY <3>2 DEF PartsUpto
    <2>4. /\ u[Before(part, best)] = w[Before(part, best)]
          /\ u[Behind(part, best)] = w[Behind(part, best)]
      BY <2>2, <2>3
    <2> QED BY <1>2, <2>4 DEF MatchesAt, best
  <1> QED BY <1>1, <1>2

\* A part that is empty shares nothing.
LEMMA MatchesAtEmpty ==
    ASSUME NEW a, NEW b, Texts(a, b), NEW part \in Part(a, b), part.ahi <= part.alo, NEW w
    PROVE  MatchesAt(a, b, w, part) = <<>>
  <1>1. part.alo..(part.ahi - 1) = {} BY DEF Part, Texts
  <1>2. Stretches(a, b, part) = {} BY <1>1 DEF Stretches
  <1> QED BY <1>2 DEF MatchesAt

\* Two functions of the parts up to a length agree where both are defined.
LEMMA MatchesAgree ==
    ASSUME NEW a, NEW b, Texts(a, b), NEW n \in Nat, NEW m \in Nat, m <= n, NEW u, NEW w,
           MatchesUpto(a, b, u, n), MatchesUpto(a, b, w, m)
    PROVE  \A p \in PartsUpto(a, b, m) : u[p] = w[p]
  <1> DEFINE S == {i \in Nat : i <= m => \A p \in PartsUpto(a, b, i) : u[p] = w[p]}
  <1>0. ASSUME NEW i \in Nat, i <= m, NEW p \in PartsUpto(a, b, i)
        PROVE  /\ p \in PartsUpto(a, b, m) /\ p \in PartsUpto(a, b, n)
               /\ p \in Part(a, b) /\ p.ahi - p.alo <= i /\ p.ahi \in Int /\ p.alo \in Int
    BY <1>0 DEF PartsUpto, Part, Texts
  <1>1. 0 \in S
    <2> SUFFICES ASSUME NEW p \in PartsUpto(a, b, 0) PROVE u[p] = w[p] OBVIOUS
    <2>1. /\ p \in PartsUpto(a, b, m) /\ p \in PartsUpto(a, b, n)
          /\ p \in Part(a, b) /\ p.ahi <= p.alo
      BY <1>0
    <2>2. MatchesAt(a, b, u, p) = <<>> /\ MatchesAt(a, b, w, p) = <<>>
      BY <2>1, MatchesAtEmpty
    <2> QED BY <2>1, <2>2 DEF MatchesUpto
  <1>2. ASSUME NEW i \in Nat, i \in S PROVE i + 1 \in S
    <2> SUFFICES ASSUME i + 1 <= m, NEW p \in PartsUpto(a, b, i + 1) PROVE u[p] = w[p]
      OBVIOUS
    <2>1. /\ p \in PartsUpto(a, b, m) /\ p \in PartsUpto(a, b, n)
          /\ p \in Part(a, b) /\ p.ahi - p.alo <= i + 1
      BY <1>0
    <2>2. \A q \in PartsUpto(a, b, i) : u[q] = w[q] BY <1>2
    <2>3. MatchesAt(a, b, u, p) = MatchesAt(a, b, w, p) BY <2>1, <2>2, MatchesAtOf
    <2> QED BY <2>1, <2>3 DEF MatchesUpto
  <1>3. Nat \subseteq S BY <1>1, <1>2, SetInduction
  <1> QED BY <1>3

\* There is a function of the parts up to every length.
LEMMA MatchesUptoAll ==
    ASSUME NEW a, NEW b, Texts(a, b)
    PROVE  \A n \in Nat : \E w : MatchesUpto(a, b, w, n)
  <1> DEFINE S == {n \in Nat : \E w : MatchesUpto(a, b, w, n)}
  <1>1. 0 \in S
    <2> DEFINE w == [p \in PartsUpto(a, b, 0) |-> <<>>]
    <2>1. ASSUME NEW p \in PartsUpto(a, b, 0) PROVE p \in Part(a, b) /\ p.ahi <= p.alo
      BY DEF PartsUpto, Part, Texts
    <2>2. \A p \in PartsUpto(a, b, 0) : MatchesAt(a, b, w, p) = <<>>
      BY <2>1, MatchesAtEmpty
    <2>3. MatchesUpto(a, b, w, 0) BY <2>2 DEF MatchesUpto
    <2> QED BY <2>3
  <1>2. ASSUME NEW n \in Nat, n \in S PROVE n + 1 \in S
    <2>1. PICK u : MatchesUpto(a, b, u, n) BY <1>2
    <2> DEFINE w == [p \in PartsUpto(a, b, n + 1) |->
                       IF p \in PartsUpto(a, b, n) THEN u[p] ELSE MatchesAt(a, b, u, p)]
    <2>2. \A p \in PartsUpto(a, b, n) :
            p \in PartsUpto(a, b, n + 1) /\ p \in Part(a, b) /\ p.ahi - p.alo <= n + 1
      BY DEF PartsUpto, Part, Texts
    <2>3. \A p \in PartsUpto(a, b, n) : u[p] = w[p] BY <2>2
    <2>4. ASSUME NEW p \in PartsUpto(a, b, n + 1) PROVE w[p] = MatchesAt(a, b, w, p)
      <3>1. w[p] = MatchesAt(a, b, u, p) BY <2>1 DEF MatchesUpto
      <3>2. p \in Part(a, b) /\ p.ahi - p.alo <= n + 1 BY DEF PartsUpto
      <3> HIDE DEF w
      <3>3. MatchesAt(a, b, u, p) = MatchesAt(a, b, w, p) BY <2>3, <3>2, MatchesAtOf
      <3> QED BY <3>1, <3>3
    <2>5. w = [p \in PartsUpto(a, b, n + 1) |-> w[p]] OBVIOUS
    <2> HIDE DEF w
    <2>6. MatchesUpto(a, b, w, n + 1) BY <2>4, <2>5 DEF MatchesUpto
    <2> QED BY <2>6
  <1>3. Nat \subseteq S BY <1>1, <1>2, SetInduction
  <1> QED BY <1>3

\* The whole of two sequences is a part of them.
Whole(a, b) == [alo |-> 1, ahi |-> Len(a) + 1, blo |-> 1, bhi |-> Len(b) + 1]

\* The function Matches defines is what its recursion says it is.
LEMMA MatchesEquation ==
    ASSUME NEW a, NEW b, Texts(a, b)
    PROVE  \E w : /\ w = [p \in Part(a, b) |-> MatchesAt(a, b, w, p)]
                  /\ Matches(a, b) = w[Whole(a, b)]
  <1> DEFINE U(n) == CHOOSE w : MatchesUpto(a, b, w, n)
             Width(p) == IF p.alo < p.ahi THEN p.ahi - p.alo ELSE 0
             f == [p \in Part(a, b) |-> U(Width(p))[p]]
  <1>1. \A n \in Nat : MatchesUpto(a, b, U(n), n) BY MatchesUptoAll
  <1> HIDE DEF U
  <1>2. ASSUME NEW p \in Part(a, b)
        PROVE  Width(p) \in Nat /\ p \in PartsUpto(a, b, Width(p))
               /\ \A n \in Nat : p \in PartsUpto(a, b, n) => Width(p) <= n
    BY DEF Part, Texts, PartsUpto
  <1> HIDE DEF Width
  <1>3. ASSUME NEW n \in Nat, NEW p \in PartsUpto(a, b, n) PROVE U(n)[p] = f[p]
    <2>0. p \in Part(a, b) BY DEF PartsUpto
    <2>1. Width(p) \in Nat /\ Width(p) <= n /\ p \in PartsUpto(a, b, Width(p)) BY <1>2, <2>0
    <2>2. MatchesUpto(a, b, U(n), n) /\ MatchesUpto(a, b, U(Width(p)), Width(p)) BY <1>1, <2>1
    <2>3. U(n)[p] = U(Width(p))[p] BY <2>1, <2>2, MatchesAgree
    <2> QED BY <2>0, <2>3
  <1>4. ASSUME NEW p \in Part(a, b) PROVE f[p] = MatchesAt(a, b, f, p)
    <2> DEFINE n == Width(p)
    <2>1. n \in Nat /\ p \in PartsUpto(a, b, n) BY <1>2
    <2>2. f[p] = MatchesAt(a, b, U(n), p) BY <1>1, <2>1 DEF MatchesUpto
    <2>3. \A q \in PartsUpto(a, b, n) : U(n)[q] = f[q] BY <1>3, <2>1
    <2>4. p.ahi - p.alo <= n + 1 BY <2>1 DEF PartsUpto, Part, Texts
    <2> HIDE DEF f, n
    <2>5. MatchesAt(a, b, U(n), p) = MatchesAt(a, b, f, p) BY <2>1, <2>3, <2>4, MatchesAtOf
    <2> QED BY <2>2, <2>5
  <1>5. f = [p \in Part(a, b) |-> MatchesAt(a, b, f, p)] BY <1>4
  <1> HIDE DEF f
  <1> DEFINE w == CHOOSE w : w = [p \in Part(a, b) |-> MatchesAt(a, b, w, p)]
  <1>6. w = [p \in Part(a, b) |-> MatchesAt(a, b, w, p)] BY <1>5
  <1>7. Matches(a, b) = w[Whole(a, b)] BY DEF Matches, MatchesAt, Whole
  <1> HIDE DEF w
  <1> QED BY <1>6, <1>7

Run3 == Nat \X Nat \X (Nat \ {0})

Follows(q, r) == q[1] + q[3] <= r[1] /\ q[2] + q[3] <= r[2]

\* Stretches of a part, each beginning after the one before it ended.
InTurn(a, b, part, m) ==
    /\ m \in Seq(Run3)
    /\ \A k \in 1..Len(m) : StretchIn(a, b, part, m[k])
    /\ \A k \in 1..(Len(m) - 1) : Follows(m[k], m[k + 1])

\* Three sequences, the second of one element, laid end to end.
LEMMA EndToEnd ==
    ASSUME NEW T, NEW l \in Seq(T), NEW x \in T, NEW r \in Seq(T)
    PROVE  /\ l \o <<x>> \o r \in Seq(T) /\ Len(l) \in Nat /\ Len(r) \in Nat
           /\ Len(l \o <<x>> \o r) = Len(l) + 1 + Len(r)
           /\ \A k \in 1..Len(l) : (l \o <<x>> \o r)[k] = l[k]
           /\ (l \o <<x>> \o r)[Len(l) + 1] = x
           /\ \A k \in 1..Len(r) : (l \o <<x>> \o r)[Len(l) + 1 + k] = r[k]
  <1> DEFINE p == l \o <<x>>
  <1>1. /\ p \in Seq(T) /\ Len(p) = Len(l) + 1 /\ Len(l) \in Nat /\ Len(r) \in Nat
        /\ p[Len(l) + 1] = x
    OBVIOUS
  <1>2. \A k \in 1..Len(l) : p[k] = l[k] OBVIOUS
  <1> HIDE DEF p
  <1>3. p \o r \in Seq(T) /\ Len(p \o r) = Len(l) + 1 + Len(r) BY <1>1
  <1>4. \A k \in 1..(Len(l) + 1) : (p \o r)[k] = p[k] BY <1>1
  <1>5. \A k \in 1..Len(r) : (p \o r)[Len(l) + 1 + k] = r[k] BY <1>1
  <1>6. \A k \in 1..Len(l) : (p \o r)[k] = l[k] BY <1>1, <1>2, <1>4
  <1>7. (p \o r)[Len(l) + 1] = x BY <1>1, <1>4
  <1> QED BY <1>1, <1>3, <1>5, <1>6, <1>7 DEF p

\* The stretches before one, that one and those after it are in turn.
LEMMA InTurnJoin ==
    ASSUME NEW a, NEW b, Texts(a, b), NEW part \in Part(a, b), NEW best,
           StretchIn(a, b, part, best), NEW l, NEW r,
           InTurn(a, b, Before(part, best), l), InTurn(a, b, Behind(part, best), r)
    PROVE  InTurn(a, b, part, l \o <<best>> \o r)
  <1> DEFINE c == l \o <<best>> \o r
             n == Len(l)
             o == Len(r)
  <1>1. best \in Run3 /\ l \in Seq(Run3) /\ r \in Seq(Run3) BY DEF InTurn, StretchIn, Run3
  <1>2. /\ c \in Seq(Run3) /\ n \in Nat /\ o \in Nat /\ Len(c) = n + 1 + o
        /\ \A k \in 1..n : c[k] = l[k]
        /\ c[n + 1] = best
        /\ \A k \in 1..o : c[n + 1 + k] = r[k]
    BY <1>1, EndToEnd
  <1>3. /\ \A k \in 1..n : StretchIn(a, b, Before(part, best), l[k])
        /\ \A k \in 1..(n - 1) : Follows(l[k], l[k + 1])
        /\ \A k \in 1..o : StretchIn(a, b, Behind(part, best), r[k])
        /\ \A k \in 1..(o - 1) : Follows(r[k], r[k + 1])
    BY DEF InTurn
  <1> HIDE DEF c, n, o
  <1>4. /\ part.alo \in Int /\ part.ahi \in Int /\ part.blo \in Int /\ part.bhi \in Int
        /\ best[1] \in Int /\ best[2] \in Int /\ best[3] \in Nat
        /\ part.alo <= best[1] /\ best[1] + best[3] <= part.ahi
        /\ part.blo <= best[2] /\ best[2] + best[3] <= part.bhi
    BY DEF Part, Texts, StretchIn
  <1>5. ASSUME NEW q, StretchIn(a, b, Before(part, best), q)
        PROVE  StretchIn(a, b, part, q) /\ Follows(q, best)
    <2>1. /\ q \in Run3 /\ q[1] \in Int /\ q[2] \in Int /\ q[3] \in Int
          /\ part.alo <= q[1] /\ q[1] + q[3] <= best[1]
          /\ part.blo <= q[2] /\ q[2] + q[3] <= best[2]
          /\ \A m \in 0..(q[3] - 1) : a[q[1] + m] = b[q[2] + m]
      BY <1>5 DEF StretchIn, Before, Run3
    <2>2. q[1] + q[3] <= part.ahi /\ q[2] + q[3] <= part.bhi BY <2>1, <1>4
    <2> QED BY <2>1, <2>2 DEF StretchIn, Follows, Run3
  <1>6. ASSUME NEW q, StretchIn(a, b, Behind(part, best), q)
        PROVE  StretchIn(a, b, part, q) /\ Follows(best, q)
    <2>1. /\ q \in Run3 /\ q[1] \in Int /\ q[2] \in Int /\ q[3] \in Int
          /\ best[1] + best[3] <= q[1] /\ q[1] + q[3] <= part.ahi
          /\ best[2] + best[3] <= q[2] /\ q[2] + q[3] <= part.bhi
          /\ \A m \in 0..(q[3] - 1) : a[q[1] + m] = b[q[2] + m]
      BY <1>6 DEF StretchIn, Behind, Run3
    <2>2. part.alo <= q[1] /\ part.blo <= q[2] BY <2>1, <1>4
    <2> QED BY <2>1, <2>2 DEF StretchIn, Follows, Run3
  <1>7. ASSUME NEW k \in 1..Len(c) PROVE StretchIn(a, b, part, c[k])
    <2>1. CASE k \in 1..n BY <2>1, <1>2, <1>3, <1>5
    <2>2. CASE k = n + 1 BY <2>2, <1>2
    <2>3. CASE k \in (n + 2)..(n + 1 + o)
      <3> DEFINE j == k - (n + 1)
      <3>1. j \in 1..o /\ k = n + 1 + j BY <2>3, <1>2
      <3> HIDE DEF j
      <3>2. c[k] = r[j] BY <3>1, <1>2
      <3> QED BY <3>1, <3>2, <1>3, <1>6
    <2>4. k \in 1..n \/ k = n + 1 \/ k \in (n + 2)..(n + 1 + o) BY <1>2
    <2> QED BY <2>1, <2>2, <2>3, <2>4
  <1>8. ASSUME NEW k \in 1..(Len(c) - 1) PROVE Follows(c[k], c[k + 1])
    <2>1. CASE k \in 1..(n - 1)
      <3>1. k \in 1..n /\ k + 1 \in 1..n BY <2>1, <1>2
      <3>2. c[k] = l[k] /\ c[k + 1] = l[k + 1] BY <3>1, <1>2
      <3> QED BY <2>1, <3>2, <1>3
    <2>2. CASE k = n
      <3>1. k \in 1..n BY <2>2, <1>2
      <3>2. c[k] = l[k] /\ c[k + 1] = best BY <3>1, <2>2, <1>2
      <3> QED BY <3>1, <3>2, <1>3, <1>5
    <2>3. CASE k = n + 1
      <3>1. 1 \in 1..o BY <2>3, <1>2
      <3>2. c[n + 1 + 1] = r[1] BY <3>1, <1>2
      <3>3. c[k] = best /\ c[k + 1] = r[1] BY <3>2, <2>3, <1>2
      <3> QED BY <3>1, <3>3, <1>3, <1>6
    <2>4. CASE k \in (n + 2)..(n + o)
      <3> DEFINE j == k - (n + 1)
      <3>3. n \in Nat /\ o \in Nat BY <1>2
      <3>1. j \in 1..(o - 1) /\ j \in 1..o /\ j + 1 \in 1..o /\ k = n + 1 + j
            /\ k + 1 = n + 1 + (j + 1)
        BY <2>4, <3>3
      <3> HIDE DEF j
      <3>2. c[k] = r[j] /\ c[k + 1] = r[j + 1] BY <3>1, <1>2
      <3> QED BY <3>1, <3>2, <1>3
    <2>5. k \in 1..(n - 1) \/ k = n \/ k = n + 1 \/ k \in (n + 2)..(n + o) BY <1>2
    <2> QED BY <2>1, <2>2, <2>3, <2>4, <2>5
  <1>9. InTurn(a, b, part, c) BY <1>2, <1>7, <1>8 DEF InTurn
  <1> QED BY <1>9 DEF c

\* What difflib's matching yields (Matches, as align uses it): stretches the two
\* sequences share, each of one text in both and each after the one before it.
THEOREM MatchesInTurn ==
    ASSUME NEW a, NEW b, Texts(a, b)
    PROVE  InTurn(a, b, Whole(a, b), Matches(a, b))
  <1>1. PICK w : /\ w = [p \in Part(a, b) |-> MatchesAt(a, b, w, p)]
                 /\ Matches(a, b) = w[Whole(a, b)]
    BY MatchesEquation
  <1>2. \A p \in Part(a, b) : w[p] = MatchesAt(a, b, w, p) BY <1>1
  <1> DEFINE S == {n \in Nat : \A p \in Part(a, b) :
                     p.ahi - p.alo <= n => InTurn(a, b, p, w[p])}
  <1>3. ASSUME NEW p \in Part(a, b), Stretches(a, b, p) = {} PROVE InTurn(a, b, p, w[p])
    <2>1. w[p] = <<>> BY <1>2, <1>3 DEF MatchesAt
    <2> QED BY <2>1 DEF InTurn
  <1>4. 0 \in S
    <2> SUFFICES ASSUME NEW p \in Part(a, b), p.ahi - p.alo <= 0
                 PROVE  InTurn(a, b, p, w[p])
      OBVIOUS
    <2>1. p.alo..(p.ahi - 1) = {} BY DEF Part, Texts
    <2>2. Stretches(a, b, p) = {} BY <2>1 DEF Stretches
    <2> QED BY <2>2, <1>3
  <1>5. ASSUME NEW n \in Nat, n \in S PROVE n + 1 \in S
    <2> SUFFICES ASSUME NEW p \in Part(a, b), p.ahi - p.alo <= n + 1
                 PROVE  InTurn(a, b, p, w[p])
      OBVIOUS
    <2>1. CASE Stretches(a, b, p) = {} BY <2>1, <1>3
    <2>2. CASE Stretches(a, b, p) # {}
      <3> DEFINE best == Longest(Stretches(a, b, p))
      <3>1. StretchIn(a, b, p, best) BY <2>2, LongestStretch
      <3>2. w[p] = w[Before(p, best)] \o <<best>> \o w[Behind(p, best)]
        BY <1>2, <2>2 DEF MatchesAt
      <3> HIDE DEF best
      <3>3. /\ Before(p, best) \in Part(a, b) /\ Behind(p, best) \in Part(a, b)
            /\ Before(p, best).ahi - Before(p, best).alo < p.ahi - p.alo
            /\ Behind(p, best).ahi - Behind(p, best).alo < p.ahi - p.alo
        BY <3>1, PartsShrink
      <3>4. ASSUME NEW q \in Part(a, b), q.ahi - q.alo < p.ahi - p.alo
            PROVE  InTurn(a, b, q, w[q])
        <4>1. q.ahi \in Int /\ q.alo \in Int /\ p.ahi \in Int /\ p.alo \in Int
          BY DEF Part, Texts
        <4>2. q.ahi - q.alo <= n BY <4>1, <3>4
        <4> QED BY <4>2, <1>5
      <3>5. InTurn(a, b, Before(p, best), w[Before(p, best)]) BY <3>3, <3>4
      <3>6. InTurn(a, b, Behind(p, best), w[Behind(p, best)]) BY <3>3, <3>4
      <3> QED BY <3>1, <3>2, <3>5, <3>6, InTurnJoin
    <2> QED BY <2>1, <2>2
  <1>6. Nat \subseteq S BY <1>4, <1>5, SetInduction
  <1>7. Whole(a, b) \in Part(a, b) BY DEF Whole, Part, Texts
  <1>8. Len(a) \in Nat /\ Len(a) \in S BY <1>6 DEF Texts
  <1>9. Whole(a, b).ahi - Whole(a, b).alo <= Len(a) BY <1>8 DEF Whole
  <1>10. InTurn(a, b, Whole(a, b), w[Whole(a, b)]) BY <1>7, <1>8, <1>9
  <1> QED BY <1>1, <1>10

-----------------------------------------------------------------------------
(* Two sequences without a gap between their matches are one. *)

\* A sequence with one element before it and one after it.
LEMMA Framed ==
    ASSUME NEW T, NEW x \in T, NEW m \in Seq(T), NEW y \in T
    PROVE  /\ <<x>> \o m \o <<y>> \in Seq(T) /\ Len(m) \in Nat
           /\ Len(<<x>> \o m \o <<y>>) = Len(m) + 2
           /\ (<<x>> \o m \o <<y>>)[1] = x
           /\ \A k \in 1..Len(m) : (<<x>> \o m \o <<y>>)[k + 1] = m[k]
           /\ (<<x>> \o m \o <<y>>)[Len(m) + 2] = y
  <1> DEFINE p == <<x>> \o m
  <1>1. p \in Seq(T) /\ Len(p) = Len(m) + 1 /\ Len(m) \in Nat /\ p[1] = x OBVIOUS
  <1>2. \A k \in 1..Len(m) : p[k + 1] = m[k] OBVIOUS
  <1> HIDE DEF p
  <1>3. p \o <<y>> \in Seq(T) /\ Len(p \o <<y>>) = Len(m) + 2 BY <1>1
  <1>4. \A k \in 1..(Len(m) + 1) : (p \o <<y>>)[k] = p[k] BY <1>1
  <1>5. (p \o <<y>>)[Len(m) + 2] = y BY <1>1
  <1>6. \A k \in 1..Len(m) : (p \o <<y>>)[k + 1] = m[k]
    <2> SUFFICES ASSUME NEW k \in 1..Len(m) PROVE (p \o <<y>>)[k + 1] = m[k] OBVIOUS
    <2>1. k + 1 \in 1..(Len(m) + 1) BY <1>1
    <2> QED BY <2>1, <1>2, <1>4
  <1>7. (p \o <<y>>)[1] = x BY <1>1, <1>4
  <1> QED BY <1>1, <1>3, <1>5, <1>6, <1>7 DEF p

Triple == Nat \X Nat \X Nat

\* The matches of two sequences with their ends, each after the one before it.
Frame(a, b, m) ==
    /\ m \in Seq(Triple) /\ Len(m) \in Nat /\ Len(m) >= 2
    /\ m[1] = <<1, 1, 0>> /\ m[Len(m)] = <<Len(a) + 1, Len(b) + 1, 0>>
    /\ \A k \in 1..(Len(m) - 1) : Follows(m[k], m[k + 1])
    /\ \A k \in 1..Len(m) : /\ m[k] \in Triple
                            /\ m[k][1] >= 1 /\ m[k][1] + m[k][3] <= Len(a) + 1
                            /\ \A t \in 0..(m[k][3] - 1) : a[m[k][1] + t] = b[m[k][2] + t]

\* The matches of two sequences, with their ends, are a frame of both.
LEMMA MatchesFrame ==
    ASSUME NEW a, NEW b, Texts(a, b)
    PROVE  Frame(a, b, Gaps(a, b).matches)
  <1> DEFINE mm == Matches(a, b)
             x == <<1, 1, 0>>
             y == <<Len(a) + 1, Len(b) + 1, 0>>
             m == <<x>> \o mm \o <<y>>
             n == Len(mm)
  <1>0. Gaps(a, b).matches = m BY DEF Gaps
  <1>1. InTurn(a, b, Whole(a, b), mm) BY MatchesInTurn
  <1>2. mm \in Seq(Triple)
    <2>1. mm \in Seq(Run3) /\ Run3 \subseteq Triple BY <1>1 DEF InTurn, Run3, Triple
    <2> HIDE DEF mm
    <2> QED BY <2>1
  <1>3. x \in Triple /\ y \in Triple BY DEF Triple, Texts
  <1>4. /\ \A k \in 1..n : StretchIn(a, b, Whole(a, b), mm[k])
        /\ \A k \in 1..(n - 1) : Follows(mm[k], mm[k + 1])
    BY <1>1 DEF InTurn
  <1> HIDE DEF mm, x, y
  <1>5. /\ m \in Seq(Triple) /\ n \in Nat /\ Len(m) = n + 2 /\ m[1] = x
        /\ \A k \in 1..n : m[k + 1] = mm[k]
        /\ m[n + 2] = y
    BY <1>2, <1>3, Framed
  <1> HIDE DEF m, n
  <1>6. ASSUME NEW k \in 1..n
        PROVE  /\ Follows(x, mm[k]) /\ Follows(mm[k], y) /\ mm[k] \in Triple
               /\ mm[k][1] >= 1 /\ mm[k][1] + mm[k][3] <= Len(a) + 1
               /\ \A t \in 0..(mm[k][3] - 1) : a[mm[k][1] + t] = b[mm[k][2] + t]
    <2>1. /\ mm[k] \in Nat \X Nat \X (Nat \ {0})
          /\ 1 <= mm[k][1] /\ mm[k][1] + mm[k][3] <= Len(a) + 1
          /\ 1 <= mm[k][2] /\ mm[k][2] + mm[k][3] <= Len(b) + 1
          /\ \A t \in 0..(mm[k][3] - 1) : a[mm[k][1] + t] = b[mm[k][2] + t]
      BY <1>4 DEF StretchIn, Whole
    <2>2. x[1] = 1 /\ x[2] = 1 /\ x[3] = 0 BY DEF x
    <2>3. y[1] = Len(a) + 1 /\ y[2] = Len(b) + 1 BY DEF y
    <2>4. Follows(x, mm[k]) BY <2>1, <2>2 DEF Follows
    <2>5. Follows(mm[k], y) BY <2>1, <2>3 DEF Follows
    <2>6. mm[k] \in Triple BY <2>1 DEF Triple
    <2> QED BY <2>1, <2>4, <2>5, <2>6
  <1>7. Follows(x, y) BY DEF Follows, x, y, Texts
  <1>8. ASSUME NEW k \in 1..(n + 1) PROVE Follows(m[k], m[k + 1])
    <2>1. CASE n = 0
      <3>1. k = 1 /\ k + 1 = n + 2 BY <2>1
      <3> QED BY <3>1, <1>5, <1>7
    <2>2. CASE n > 0 /\ k = 1
      <3>1. 1 \in 1..n BY <2>2, <1>5
      <3>2. m[k + 1] = mm[1] /\ m[k] = x BY <3>1, <2>2, <1>5
      <3> QED BY <3>1, <3>2, <1>6
    <2>3. CASE n > 0 /\ k = n + 1
      <3>1. n \in 1..n BY <2>3, <1>5
      <3>2. m[n + 1] = mm[n] BY <3>1, <1>5
      <3>3. k + 1 = n + 2 BY <2>3, <1>5
      <3> QED BY <3>1, <3>2, <3>3, <2>3, <1>5, <1>6
    <2>4. CASE n > 0 /\ k # 1 /\ k # n + 1
      <3> DEFINE j == k - 1
      <3>0. n \in Nat BY <1>5
      <3>1. j \in 1..(n - 1) /\ j \in 1..n /\ j + 1 \in 1..n /\ k = j + 1 BY <2>4, <3>0
      <3> HIDE DEF j
      <3>2. m[j + 1] = mm[j] /\ m[(j + 1) + 1] = mm[j + 1] BY <3>1, <1>5
      <3> QED BY <3>1, <3>2, <1>4
    <2>5. n = 0 \/ n > 0 BY <1>5
    <2> QED BY <2>1, <2>2, <2>3, <2>4, <2>5
  <1>9. ASSUME NEW k \in 1..(n + 2)
        PROVE  /\ m[k] \in Triple /\ m[k][1] >= 1 /\ m[k][1] + m[k][3] <= Len(a) + 1
               /\ \A t \in 0..(m[k][3] - 1) : a[m[k][1] + t] = b[m[k][2] + t]
    <2>1. CASE k = 1
      <3>1. m[k] = x /\ x[3] = 0 /\ x[1] = 1 /\ 1 + 0 <= Len(a) + 1 BY <2>1, <1>5 DEF x, Texts
      <3> QED BY <3>1, <1>3
    <2>2. CASE k = n + 2
      <3>1. /\ m[k] = y /\ y[3] = 0 /\ y[1] = Len(a) + 1
            /\ Len(a) + 1 >= 1 /\ (Len(a) + 1) + 0 <= Len(a) + 1
        BY <2>2, <1>5 DEF y, Texts
      <3> QED BY <3>1, <1>3
    <2>3. CASE k # 1 /\ k # n + 2
      <3> DEFINE j == k - 1
      <3>0. n \in Nat BY <1>5
      <3>1. j \in 1..n /\ k = j + 1 BY <2>3, <3>0
      <3> HIDE DEF j
      <3>2. m[k] = mm[j] BY <3>1, <1>5
      <3> QED BY <3>1, <3>2, <1>6
    <2> QED BY <2>1, <2>2, <2>3
  <1>10. n + 2 >= 2 /\ n + 2 \in Nat /\ (n + 2) - 1 = n + 1 BY <1>5
  <1>11. Frame(a, b, m) BY <1>5, <1>8, <1>9, <1>10 DEF Frame, x, y
  <1> QED BY <1>0, <1>11

\* Between the matches of a frame nothing stands.
Closed(m) ==
    \A k \in 1..(Len(m) - 1) : /\ m[k + 1][1] <= m[k][1] + m[k][3]
                              /\ m[k + 1][2] <= m[k][2] + m[k][3]

\* Two sequences that are one, and matches that say so of each place.
OneText(a, b, m) ==
    /\ Len(a) = Len(b)
    /\ \A k \in 1..Len(m) : m[k][1] = m[k][2]
    /\ \A i \in 1..Len(a) :
         /\ a[i] = b[i]
         /\ \E k \in 1..Len(m) : \E t \in 0..(m[k][3] - 1) : m[k][1] + t = i

\* Matches with nothing between them join the two sequences.
LEMMA ClosedFrame ==
    ASSUME NEW a, NEW b, Texts(a, b), NEW m, Frame(a, b, m), Closed(m)
    PROVE  OneText(a, b, m)
  <1> DEFINE n == Len(m)
             Met(i) == /\ a[i] = b[i]
                       /\ \E k \in 1..n : \E t \in 0..(m[k][3] - 1) : m[k][1] + t = i
             S == {k \in Nat : k + 1 <= n =>
                     /\ m[k + 1][1] = m[k + 1][2]
                     /\ \A i \in 1..(m[k + 1][1] - 1) : Met(i)}
  <1>0. /\ n \in Nat /\ n >= 2 /\ m[1] = <<1, 1, 0>> /\ m[n] = <<Len(a) + 1, Len(b) + 1, 0>>
        /\ \A k \in 1..(n - 1) : Follows(m[k], m[k + 1])
        /\ \A k \in 1..n : /\ m[k] \in Triple
                          /\ \A t \in 0..(m[k][3] - 1) : a[m[k][1] + t] = b[m[k][2] + t]
        /\ \A k \in 1..(n - 1) : /\ m[k + 1][1] <= m[k][1] + m[k][3]
                                /\ m[k + 1][2] <= m[k][2] + m[k][3]
    BY DEF Frame, Closed
  <1> HIDE DEF n
  <1>1. 0 \in S
    <2>1. m[1][1] = 1 /\ m[1][2] = 1 BY <1>0
    <2>2. 1..(1 - 1) = {} OBVIOUS
    <2> QED BY <2>1, <2>2
  <1>2. ASSUME NEW k \in Nat, k \in S PROVE k + 1 \in S
    <2> SUFFICES ASSUME (k + 1) + 1 <= n
                 PROVE  /\ m[(k + 1) + 1][1] = m[(k + 1) + 1][2]
                        /\ \A i \in 1..(m[(k + 1) + 1][1] - 1) : Met(i)
      OBVIOUS
    <2> DEFINE j == k + 1
               x == m[j][1]
               y == m[j][2]
               z == m[j][3]
               x1 == m[j + 1][1]
               y1 == m[j + 1][2]
    <2>1. j \in 1..n /\ j + 1 \in 1..n /\ j \in 1..(n - 1) BY <1>0
    <2>2. x = y /\ \A i \in 1..(x - 1) : Met(i) BY <1>2, <2>1
    <2>3. x \in Nat /\ y \in Nat /\ z \in Nat /\ x1 \in Nat /\ y1 \in Nat
      BY <1>0, <2>1 DEF Triple
    <2>4. x + z <= x1 /\ y + z <= y1 /\ x1 <= x + z /\ y1 <= y + z BY <1>0, <2>1 DEF Follows
    <2>5. \A t \in 0..(z - 1) : a[x + t] = b[y + t] BY <1>0, <2>1
    <2> HIDE DEF x, y, x1, y1, z, Met
    <2>6. x1 = x + z /\ y1 = x1 BY <2>2, <2>3, <2>4
    <2>7. ASSUME NEW i \in 1..(x1 - 1) PROVE Met(i)
      <3>1. CASE i <= x - 1 BY <3>1, <2>2, <2>3, <2>6
      <3>2. CASE i >= x
        <4> DEFINE t == i - x
        <4>1. t \in 0..(z - 1) /\ x + t = i BY <3>2, <2>3, <2>6
        <4> HIDE DEF t
        <4>2. a[i] = b[i] BY <4>1, <2>5, <2>2
        <4> QED BY <4>1, <4>2, <2>1 DEF Met, x, z
      <3>3. i <= x - 1 \/ i >= x BY <2>3
      <3> QED BY <3>1, <3>2, <3>3
    <2> QED BY <2>6, <2>7 DEF x1, y1
  <1>3. Nat \subseteq S BY <1>1, <1>2, SetInduction
  <1>4. ASSUME NEW k \in 1..n
        PROVE  m[k][1] = m[k][2] /\ \A i \in 1..(m[k][1] - 1) : Met(i)
    <2> DEFINE j == k - 1
    <2>1. j \in Nat /\ k = j + 1 /\ j + 1 <= n BY <1>0
    <2>2. j \in S BY <2>1, <1>3
    <2> HIDE DEF j, Met
    <2> QED BY <2>1, <2>2
  <1>5. n \in 1..n BY <1>0
  <1>6. m[n][1] = Len(a) + 1 /\ m[n][2] = Len(b) + 1 BY <1>0
  <1>7. Len(a) + 1 = Len(b) + 1 BY <1>4, <1>5, <1>6
  <1>8. Len(a) = Len(b) /\ (Len(a) + 1) - 1 = Len(a) BY <1>7 DEF Texts
  <1>9. \A i \in 1..Len(a) : Met(i) BY <1>4, <1>5, <1>6, <1>8
  <1> QED BY <1>4, <1>8, <1>9 DEF n, OneText


\* The streams of main.md and of a .docx, as align compares them.
KeysOf(items) == [k \in DOMAIN items |-> items[k].key]

\* A stretch that differs where align reports nothing is empty in both streams.
LEMMA GapClosed ==
    ASSUME NEW i1 \in Int, NEW i2 \in Int, NEW j1 \in Int, NEW j2 \in Int, NEW paired,
           i1 <= i2, j1 <= j2, i1..(i2 - 1) = {},
           paired = Min({i2 - i1, j2 - j1}), (j1 + paired)..(j2 - 1) = {}
    PROVE  i2 <= i1 /\ j2 <= j1 /\ paired = 0
  <1>1. i2 = i1
    <2>1. i1 \notin i1..(i2 - 1) OBVIOUS
    <2> QED BY <2>1
  <1> DEFINE d == j2 - j1
             least == Min({0, d})
  <1>2. d \in Int /\ d >= 0 OBVIOUS
  <1> HIDE DEF d
  <1>3. least = 0
    <2>1. \A x \in {0, d} : 0 <= x BY <1>2
    <2>2. least = CHOOSE x \in {0, d} : \A y \in {0, d} : x <= y BY DEF Min
    <2>3. least \in {0, d} /\ \A y \in {0, d} : least <= y BY <2>1, <2>2
    <2> HIDE DEF least
    <2> QED BY <2>3, <1>2
  <1> USE DEF d
  <1> HIDE DEF least
  <1>4. paired = 0 BY <1>1, <1>3 DEF least
  <1>5. j2 <= j1
    <2>1. (j1 + 0)..(j2 - 1) = {} BY <1>4
    <2>2. ~(j1 <= j2 - 1)
      <3> SUFFICES ASSUME j1 <= j2 - 1 PROVE FALSE OBVIOUS
      <3>1. j1 \in (j1 + 0)..(j2 - 1) OBVIOUS
      <3> QED BY <2>1, <3>1
    <2> QED BY <2>2
  <1> QED BY <1>1, <1>4, <1>5

\* Where align reports nothing, it has compared every block of main.md with its
\* own of the .docx, and the two streams are the same, key by key.
THEOREM AlignedWhole ==
    ASSUME NEW items, Texts(main_stream, KeysOf(items)), align(items).problems = {}
    PROVE  /\ Len(KeysOf(items)) = Len(main_stream)
           /\ \A i \in 1..Len(main_stream) : KeysOf(items)[i] = main_stream[i]
           /\ align(items).pairs = {<<i, i>> : i \in 1..Len(main_stream)}
  <1> DEFINE a == main_stream
             b == KeysOf(items)
             m == Gaps(a, b).matches
             gap(k) == [i1 |-> m[k][1] + m[k][3], i2 |-> m[k + 1][1],
                        j1 |-> m[k][2] + m[k][3], j2 |-> m[k + 1][2]]
             D == 1..(Len(m) - 1)
             gaps == Range(Gaps(a, b).gaps)
  <1>1. Frame(a, b, m)
    <2> HIDE DEF a, b
    <2>1. Texts(a, b) BY DEF a, b
    <2> QED BY <2>1, MatchesFrame
  <1>2. Gaps(a, b).gaps = [k \in D |-> gap(k)] BY DEF Gaps
  <1> HIDE DEF gap
  <1>3. gaps = {gap(k) : k \in D} BY <1>2 DEF Range
  <1> DEFINE told(g) == {Fulltext(MainBlocks[i].line) : i \in g.i1..(g.i2 - 1)}
                    \union {Fulltext(ExtraAt(a, b, g, j)) :
                              j \in (g.j1 + Paired(g))..(g.j2 - 1)}
             made(g) == {<<g.i1 + k, g.j1 + k>> : k \in 0..(Paired(g) - 1)}
             match(r) == {<<r[1] + k, r[2] + k>> : k \in 0..(r[3] - 1)}
  <1>4. /\ align(items).problems = UNION {told(g) : g \in gaps}
        /\ align(items).pairs = (UNION {match(r) : r \in Range(m)})
                                    \union (UNION {made(g) : g \in gaps})
    BY DEF align, KeysOf
  <1> HIDE DEF a, b, m, D, gaps
  <1>5. \A g \in gaps : told(g) = {} BY <1>4
  <1>6. \A k \in D : /\ m[k + 1][1] <= m[k][1] + m[k][3]
                     /\ m[k + 1][2] <= m[k][2] + m[k][3]
                     /\ Paired(gap(k)) = 0
    <2> SUFFICES ASSUME NEW k \in D
                 PROVE  /\ m[k + 1][1] <= m[k][1] + m[k][3]
                        /\ m[k + 1][2] <= m[k][2] + m[k][3]
                        /\ Paired(gap(k)) = 0
      OBVIOUS
    <2> DEFINE g == gap(k)
    <2>1. /\ g.i1 = m[k][1] + m[k][3] /\ g.i2 = m[k + 1][1]
          /\ g.j1 = m[k][2] + m[k][3] /\ g.j2 = m[k + 1][2]
      BY DEF gap
    <2>2. Follows(m[k], m[k + 1]) /\ m[k] \in Triple /\ m[k + 1] \in Triple
      <3>1. k \in 1..(Len(m) - 1) /\ Len(m) \in Nat BY <1>1 DEF D, Frame
      <3>2. k \in 1..Len(m) /\ k + 1 \in 1..Len(m) BY <3>1
      <3> QED BY <1>1, <3>1, <3>2 DEF Frame
    <2>3. /\ g.i1 \in Int /\ g.i2 \in Int /\ g.j1 \in Int /\ g.j2 \in Int
          /\ g.i1 <= g.i2 /\ g.j1 <= g.j2
      BY <2>1, <2>2 DEF Follows, Triple
    <2>4. told(g) = {} BY <1>3, <1>5
    <2>5. g.i1..(g.i2 - 1) = {} /\ (g.j1 + Paired(g))..(g.j2 - 1) = {} BY <2>4
    <2>6. Paired(g) = Min({g.i2 - g.i1, g.j2 - g.j1}) BY DEF Paired
    <2> HIDE DEF g, told
    <2>7. g.i2 <= g.i1 /\ g.j2 <= g.j1 /\ Paired(g) = 0 BY <2>3, <2>5, <2>6, GapClosed
    <2> QED BY <2>1, <2>7 DEF g
  <1>7. Closed(m) BY <1>6 DEF Closed, D
  <1>8. Texts(a, b) BY DEF a, b
  <1>14. OneText(a, b, m) BY <1>1, <1>7, <1>8, ClosedFrame
  <1>9. /\ Len(a) = Len(b)
        /\ \A k \in 1..Len(m) : m[k][1] = m[k][2]
        /\ \A i \in 1..Len(a) :
             /\ a[i] = b[i]
             /\ \E k \in 1..Len(m) : \E t \in 0..(m[k][3] - 1) : m[k][1] + t = i
    BY <1>14 DEF OneText
  <1>10. UNION {made(g) : g \in gaps} = {}
    <2>1. \A k \in D : made(gap(k)) = {}
      <3> SUFFICES ASSUME NEW k \in D PROVE made(gap(k)) = {} OBVIOUS
      <3>1. Paired(gap(k)) = 0 BY <1>6
      <3>2. 0..(0 - 1) = {} OBVIOUS
      <3> QED BY <3>1, <3>2
    <2> HIDE DEF made
    <2> QED BY <2>1, <1>3
  <1>11. Range(m) = {m[k] : k \in 1..Len(m)} BY <1>1 DEF Range, Frame
  <1>12. UNION {match(r) : r \in Range(m)} = {<<i, i>> : i \in 1..Len(a)}
    <2>1. ASSUME NEW p \in UNION {match(r) : r \in Range(m)}
          PROVE  p \in {<<i, i>> : i \in 1..Len(a)}
      <3>1. PICK k \in 1..Len(m) : p \in match(m[k]) BY <1>11
      <3>2. PICK t \in 0..(m[k][3] - 1) : p = <<m[k][1] + t, m[k][2] + t>> BY <3>1
      <3>3. /\ m[k] \in Triple /\ m[k][1] >= 1 /\ m[k][1] + m[k][3] <= Len(a) + 1
            /\ m[k][1] = m[k][2]
        BY <1>1, <1>9 DEF Frame
      <3>4. m[k][1] + t \in 1..Len(a) BY <3>3, <1>8 DEF Triple, Texts
      <3> QED BY <3>2, <3>3, <3>4
    <2>2. ASSUME NEW i \in 1..Len(a) PROVE <<i, i>> \in UNION {match(r) : r \in Range(m)}
      <3>1. PICK k \in 1..Len(m) : \E t \in 0..(m[k][3] - 1) : m[k][1] + t = i BY <1>9
      <3>2. PICK t \in 0..(m[k][3] - 1) : m[k][1] + t = i BY <3>1
      <3>3. <<i, i>> = <<m[k][1] + t, m[k][2] + t>> BY <3>2, <1>9
      <3>4. <<i, i>> \in match(m[k]) BY <3>2, <3>3
      <3> QED BY <3>4, <1>11
    <2> HIDE DEF match
    <2> QED BY <2>1, <2>2
  <1>13. align(items).pairs = {<<i, i>> : i \in 1..Len(a)} BY <1>4, <1>10, <1>12
  <1> QED BY <1>9, <1>13 DEF a, b


-----------------------------------------------------------------------------
(* Scan: a recursive function of the blocks read so far. *)

ScanAt(blocks, from, u, i) ==
    IF i <= from THEN Unread(from + 1)
    ELSE LET s == u[i - 1]
         IN  IF i < s.next THEN s ELSE ReadBlock(blocks, i, [s EXCEPT !.next = i + 1])

ScanUpto(blocks, from, u, n) ==
    /\ u = [i \in 0..n |-> u[i]]
    /\ \A i \in 0..n : u[i] = ScanAt(blocks, from, u, i)

\* What a scan has read up to a block depends on the block before it only.
LEMMA ScanAtOf ==
    ASSUME NEW blocks, NEW from \in Nat, NEW i \in Nat, NEW u, NEW w,
           i # 0 => u[i - 1] = w[i - 1]
    PROVE  ScanAt(blocks, from, u, i) = ScanAt(blocks, from, w, i)
  <1>1. CASE i <= from BY <1>1 DEF ScanAt
  <1>2. CASE ~(i <= from)
    <2>1. i # 0 BY <1>2
    <2>2. u[i - 1] = w[i - 1] BY <2>1
    <2> QED BY <2>2, <1>2 DEF ScanAt
  <1> QED BY <1>1, <1>2

\* Two scans agree as far as both go.
LEMMA ScanAgree ==
    ASSUME NEW blocks, NEW from \in Nat, NEW n \in Nat, NEW m \in Nat, m <= n, NEW u, NEW w,
           ScanUpto(blocks, from, u, n), ScanUpto(blocks, from, w, m)
    PROVE  \A i \in 0..m : u[i] = w[i]
  <1> DEFINE S == {i \in Nat : i <= m => u[i] = w[i]}
  <1>0. \A i \in 0..m : /\ u[i] = ScanAt(blocks, from, u, i)
                        /\ w[i] = ScanAt(blocks, from, w, i)
    <2> SUFFICES ASSUME NEW i \in 0..m
                 PROVE  u[i] = ScanAt(blocks, from, u, i) /\ w[i] = ScanAt(blocks, from, w, i)
      OBVIOUS
    <2>1. i \in 0..n OBVIOUS
    <2> QED BY <2>1 DEF ScanUpto
  <1>1. 0 \in S
    <2>1. ScanAt(blocks, from, u, 0) = ScanAt(blocks, from, w, 0) BY ScanAtOf
    <2>2. 0 \in 0..m OBVIOUS
    <2> QED BY <2>1, <2>2, <1>0
  <1>2. ASSUME NEW i \in Nat, i \in S PROVE i + 1 \in S
    <2> SUFFICES ASSUME i + 1 <= m PROVE u[i + 1] = w[i + 1] OBVIOUS
    <2>1. u[i] = w[i] BY <1>2
    <2>2. i + 1 \in 0..m /\ (i + 1) - 1 = i /\ i + 1 \in Nat OBVIOUS
    <2>3. ScanAt(blocks, from, u, i + 1) = ScanAt(blocks, from, w, i + 1)
      BY <2>1, <2>2, ScanAtOf
    <2> QED BY <2>2, <2>3, <1>0
  <1>3. Nat \subseteq S BY <1>1, <1>2, SetInduction
  <1> QED BY <1>3

\* There is a scan up to every block.
LEMMA ScanUptoAll ==
    ASSUME NEW blocks, NEW from \in Nat
    PROVE  \A n \in Nat : \E u : ScanUpto(blocks, from, u, n)
  <1> DEFINE S == {n \in Nat : \E u : ScanUpto(blocks, from, u, n)}
  <1>1. 0 \in S
    <2> DEFINE u == [i \in 0..0 |-> Unread(from + 1)]
    <2>1. ScanUpto(blocks, from, u, 0) BY DEF ScanUpto, ScanAt
    <2> QED BY <2>1
  <1>2. ASSUME NEW n \in Nat, n \in S PROVE n + 1 \in S
    <2>1. PICK u : ScanUpto(blocks, from, u, n) BY <1>2
    <2> DEFINE last == ScanAt(blocks, from, u, n + 1)
               w == [i \in 0..(n + 1) |-> IF i <= n THEN u[i] ELSE last]
    <2> HIDE DEF last
    <2>2. \A i \in 0..n : w[i] = u[i] OBVIOUS
    <2>3. w[n + 1] = last OBVIOUS
    <2>4. ASSUME NEW i \in 0..(n + 1) PROVE w[i] = ScanAt(blocks, from, w, i)
      <3>1. w[i] = ScanAt(blocks, from, u, i)
        <4>1. CASE i <= n BY <4>1, <2>1, <2>2 DEF ScanUpto
        <4>2. CASE i = n + 1 BY <4>2, <2>3 DEF last
        <4> QED BY <4>1, <4>2
      <3>2. i # 0 => i - 1 \in 0..n OBVIOUS
      <3>3. i # 0 => u[i - 1] = w[i - 1] BY <2>2, <3>2
      <3> HIDE DEF w
      <3> QED BY <3>1, <3>3, ScanAtOf
    <2>5. w = [i \in 0..(n + 1) |-> w[i]] OBVIOUS
    <2> HIDE DEF w
    <2> QED BY <2>4, <2>5 DEF ScanUpto
  <1>3. Nat \subseteq S BY <1>1, <1>2, SetInduction
  <1> QED BY <1>3

\* The function that Scan defines is what its recursion says it is.
LEMMA ScanEquation ==
    ASSUME NEW blocks, NEW from \in Nat
    PROVE  \E u : /\ u = [i \in Nat |-> ScanAt(blocks, from, u, i)]
                  /\ Scan(blocks, from) = u[Len(blocks)]
  <1> DEFINE U(n) == CHOOSE u : ScanUpto(blocks, from, u, n)
             f == [n \in Nat |-> U(n)[n]]
  <1>1. \A n \in Nat : ScanUpto(blocks, from, U(n), n) BY ScanUptoAll
  <1> HIDE DEF U
  <1>2. ASSUME NEW n \in Nat, NEW i \in 0..n PROVE U(n)[i] = f[i]
    <2>1. i \in Nat /\ i <= n OBVIOUS
    <2>2. ScanUpto(blocks, from, U(n), n) /\ ScanUpto(blocks, from, U(i), i) BY <1>1, <2>1
    <2>3. U(n)[i] = U(i)[i] BY <2>1, <2>2, ScanAgree
    <2> QED BY <2>1, <2>3
  <1>3. ASSUME NEW n \in Nat PROVE f[n] = ScanAt(blocks, from, f, n)
    <2>1. f[n] = ScanAt(blocks, from, U(n), n) BY <1>1 DEF ScanUpto
    <2>2. n # 0 => n - 1 \in 0..n OBVIOUS
    <2>3. n # 0 => U(n)[n - 1] = f[n - 1] BY <1>2, <2>2
    <2> HIDE DEF f
    <2> QED BY <2>1, <2>3, ScanAtOf
  <1>4. f = [n \in Nat |-> ScanAt(blocks, from, f, n)] BY <1>3
  <1> HIDE DEF f
  <1> DEFINE u == CHOOSE u : u = [i \in Nat |-> ScanAt(blocks, from, u, i)]
  <1>5. u = [i \in Nat |-> ScanAt(blocks, from, u, i)] BY <1>4
  <1>6. Scan(blocks, from) = u[Len(blocks)] BY DEF Scan, ScanAt
  <1> HIDE DEF u
  <1> QED BY <1>5, <1>6

-----------------------------------------------------------------------------
(* What a scan has read is a sequence of items, each with a number of breaks. *)

\* A sequence of items that count the breaks before them.
Counted(items) == \E T : items \in Seq(T) /\ \A x \in T : x.brk \in Nat

ScanFields == {"items", "groups", "bibliography", "pending", "problems", "next"}

Counting(s) == DOMAIN s = ScanFields /\ s.pending \in Nat /\ Counted(s.items)

\* A counted sequence with one more item that counts is counted.
LEMMA CountedAppend ==
    ASSUME NEW items, Counted(items), NEW x, x.brk \in Nat
    PROVE  Counted(Append(items, x))
  <1>1. PICK T : items \in Seq(T) /\ \A y \in T : y.brk \in Nat BY DEF Counted
  <1> DEFINE Q == T \union {x}
  <1>2. items \in Seq(Q) BY <1>1
  <1>3. x \in Q /\ \A y \in Q : y.brk \in Nat BY <1>1
  <1> HIDE DEF Q
  <1>4. Append(items, x) \in Seq(Q) BY <1>2, <1>3
  <1> QED BY <1>3, <1>4 DEF Counted

\* An item that begins at a block takes the breaks that were pending.
LEMMA PutCounts ==
    ASSUME NEW s, Counting(s), NEW key, NEW block, NEW groups
    PROVE  Counting(Put(s, key, block, groups))
  <1> DEFINE x == Item(key, block, groups, s.pending)
             t == [s EXCEPT !.items = Append(@, x), !.pending = 0]
  <1>1. x.brk \in Nat BY DEF Item, Counting
  <1> HIDE DEF x
  <1>2. t.items = Append(s.items, x) /\ t.pending = 0 /\ DOMAIN t = DOMAIN s
    BY DEF Counting, ScanFields
  <1>3. Put(s, key, block, groups) = t BY DEF Put, x
  <1> HIDE DEF t
  <1>4. Counted(t.items) BY <1>1, <1>2, CountedAppend DEF Counting
  <1>5. DOMAIN t = ScanFields /\ t.pending \in Nat BY <1>2 DEF Counting
  <1>6. Counting(t) BY <1>4, <1>5 DEF Counting
  <1> QED BY <1>3, <1>6

\* Reading a block keeps the count.
LEMMA ReadCounts ==
    ASSUME NEW blocks, NEW i, NEW s, Counting(s)
    PROVE  Counting(ReadBlock(blocks, i, s))
  <1> DEFINE b == blocks[i]
             empty == Blank(TextOf(b)) /\ b.images = <<>>
  <1>1. \A key, groups : Counting(Put(s, key, b, groups)) BY PutCounts
  <1>2. ASSUME NEW t, Counting(t), NEW found
        PROVE  Counting([t EXCEPT !.problems = @ \union found])
    <2> DEFINE v == [t EXCEPT !.problems = @ \union found]
    <2>1. v.items = t.items /\ v.pending = t.pending /\ DOMAIN v = DOMAIN t
      BY <1>2 DEF Counting, ScanFields
    <2> HIDE DEF v
    <2> QED BY <2>1, <1>2 DEF Counting
  <1>3. Counting([Put(s, TableKey("?"), b, <<>>)
                    EXCEPT !.problems = @ \union {<<"table", "docx block">>}])
    BY <1>1, <1>2
  <1>4. Counting([s EXCEPT !.pending = @ + 1])
    <2> DEFINE v == [s EXCEPT !.pending = @ + 1]
    <2>1. v.items = s.items /\ v.pending = s.pending + 1 /\ DOMAIN v = DOMAIN s
      BY DEF Counting, ScanFields
    <2> HIDE DEF v
    <2> QED BY <2>1 DEF Counting
  <1>5. Counting(ReadLabel(blocks, i, s))
    <2>1. ASSUME NEW t, Counting(t), NEW found, NEW groups, NEW next
          PROVE  Counting([t EXCEPT !.problems = found, !.groups = groups, !.next = next])
      <3> DEFINE v == [t EXCEPT !.problems = found, !.groups = groups, !.next = next]
      <3>1. v.items = t.items /\ v.pending = t.pending /\ DOMAIN v = DOMAIN t
        BY <2>1 DEF Counting, ScanFields
      <3> HIDE DEF v
      <3> QED BY <3>1, <2>1 DEF Counting
    <2> QED BY <2>1, <1>1, <1>2 DEF ReadLabel
  <1>6. Counting(ReadEntry(b, s))
    <2>1. ASSUME NEW t, Counting(t), NEW more
          PROVE  Counting([t EXCEPT !.bibliography = Append(@, more)])
      <3> DEFINE v == [t EXCEPT !.bibliography = Append(@, more)]
      <3>1. v.items = t.items /\ v.pending = t.pending /\ DOMAIN v = DOMAIN t
        BY <2>1 DEF Counting, ScanFields
      <3> HIDE DEF v
      <3> QED BY <3>1, <2>1 DEF Counting
    <2> QED BY <2>1, <1>1 DEF ReadEntry
  <1>7. Counting(ReadText(b, s))
    <2>1. ASSUME NEW isBreak, NEW found
          PROVE  Counting([s EXCEPT !.pending = IF isBreak THEN @ + 1 ELSE @,
                                    !.problems = found])
      <3> DEFINE v == [s EXCEPT !.pending = IF isBreak THEN @ + 1 ELSE @,
                                !.problems = found]
      <3>1. /\ v.items = s.items /\ v.pending \in {s.pending, s.pending + 1}
            /\ DOMAIN v = DOMAIN s
        BY DEF Counting, ScanFields
      <3> HIDE DEF v
      <3> QED BY <3>1 DEF Counting
    <2> QED BY <2>1, PutCounts DEF ReadText
  <1> QED BY <1>3, <1>4, <1>5, <1>6, <1>7 DEF ReadBlock


\* A scan counts, however many blocks it has read.
LEMMA ScanCounts ==
    ASSUME NEW blocks, Len(blocks) \in Nat, NEW from \in Nat
    PROVE  Counting(Scan(blocks, from))
  <1>1. PICK u : /\ u = [i \in Nat |-> ScanAt(blocks, from, u, i)]
                 /\ Scan(blocks, from) = u[Len(blocks)]
    BY ScanEquation
  <1>2. \A i \in Nat : u[i] = ScanAt(blocks, from, u, i) BY <1>1
  <1> DEFINE S == {i \in Nat : Counting(u[i])}
  <1>3. Counting(Unread(from + 1))
    <2> DEFINE s == Unread(from + 1)
    <2>1. s.items = <<>> /\ s.pending = 0 /\ DOMAIN s = ScanFields BY DEF Unread, ScanFields
    <2>2. Counted(<<>>)
      <3> DEFINE none == {}
      <3>1. <<>> \in Seq(none) OBVIOUS
      <3>2. \A x \in none : x.brk \in Nat OBVIOUS
      <3> HIDE DEF none
      <3> QED BY <3>1, <3>2 DEF Counted
    <2> HIDE DEF s
    <2>3. Counted(s.items) BY <2>1, <2>2
    <2>4. DOMAIN s = ScanFields /\ s.pending \in Nat BY <2>1
    <2>5. Counting(s) BY <2>3, <2>4 DEF Counting
    <2> QED BY <2>5 DEF s
  <1>4. 0 \in S
    <2>1. u[0] = ScanAt(blocks, from, u, 0) BY <1>2
    <2>2. u[0] = Unread(from + 1) BY <2>1 DEF ScanAt
    <2> QED BY <2>2, <1>3
  <1>5. ASSUME NEW i \in Nat, i \in S PROVE i + 1 \in S
    <2> DEFINE s == u[i]
               t == [s EXCEPT !.next = (i + 1) + 1]
    <2>1. Counting(s) BY <1>5
    <2>2. Counting(t)
      <3>1. t.items = s.items /\ t.pending = s.pending /\ DOMAIN t = DOMAIN s
        BY <2>1 DEF Counting, ScanFields
      <3> HIDE DEF s, t
      <3> QED BY <3>1, <2>1 DEF Counting
    <2>3. Counting(ReadBlock(blocks, i + 1, t)) BY <2>2, ReadCounts
    <2>4. u[i + 1] = ScanAt(blocks, from, u, i + 1) /\ (i + 1) - 1 = i BY <1>2
    <2>5. \/ u[i + 1] = Unread(from + 1) \/ u[i + 1] = s
          \/ u[i + 1] = ReadBlock(blocks, i + 1, t)
      BY <2>4 DEF ScanAt
    <2> HIDE DEF s, t
    <2> QED BY <2>1, <2>3, <2>5, <1>3
  <1>6. Nat \subseteq S BY <1>4, <1>5, SetInduction
  <1> QED BY <1>1, <1>6

\* The first position where a condition holds is a number, or 0.
LEMMA RepeatAtIs ==
    ASSUME NEW blocks, Len(blocks) \in Nat
    PROVE  RepeatAt(blocks) \in Nat
  <1>1. ASSUME NEW S, S \subseteq 1..Len(blocks), S # {} PROVE Min(S) \in Nat /\ Min(S) - 1 \in Nat
    <2>1. S \subseteq Nat BY <1>1
    <2>2. PICK n \in S : \A m \in S : n <= m BY <2>1, <1>1, LeastNatural
    <2>3. Min(S) = CHOOSE x \in S : \A y \in S : x <= y BY DEF Min
    <2> DEFINE least == Min(S)
    <2>4. least \in S BY <2>2, <2>3
    <2> HIDE DEF least
    <2>5. least \in 1..Len(blocks) BY <2>4, <1>1
    <2>6. least \in Nat /\ least - 1 \in Nat BY <2>5
    <2> QED BY <2>6 DEF least
  <1> DEFINE at == {i \in 1..Len(blocks) : blocks[i].el = "p" /\ blocks[i].style = "Title Repeat"}
             heading == {i \in 1..Len(blocks) : blocks[i].el = "p" /\ blocks[i].style = "heading 1"}
  <1>2. at # {} => Min(at) \in Nat BY <1>1
  <1>3. heading # {} => Min(heading) \in Nat /\ Min(heading) - 1 \in Nat BY <1>1
  <1>4. RepeatAt(blocks) =
          LET x == IF at # {} THEN Min(at) ELSE 0
              y == IF heading # {} THEN Min(heading) ELSE 0
          IN  IF x # 0 THEN x ELSE IF y # 0 THEN y - 1 ELSE 0
    BY DEF RepeatAt, SelectInSeq
  <1> HIDE DEF at, heading
  <1> QED BY <1>2, <1>3, <1>4

\* The blocks read of a body are a sequence.
LEMMA BlocksAreSequence ==
    ASSUME NEW S, NEW d, d.body \in Seq(S)
    PROVE  Len(Blocks(d)) \in Nat
  <1> DEFINE positions == {i \in DOMAIN d.body : IsP(d.body[i]) \/ IsTable(d.body[i])}
             at == Selected(positions, Len(d.body))
             blocks == Blocks(d)
  <1>1. blocks = [k \in DOMAIN at |-> blocks[k]] BY DEF Blocks
  <1> HIDE DEF positions, blocks
  <1>2. at \in Seq(positions) BY SelectedIs
  <1> HIDE DEF at
  <1>3. DOMAIN at = 1..Len(at) /\ Len(at) \in Nat BY <1>2
  <1>4. Len([k \in 1..Len(at) |-> blocks[k]]) = Len(at) BY <1>3
  <1> QED BY <1>1, <1>3, <1>4 DEF blocks


-----------------------------------------------------------------------------
(* A .docx nothing is reported of. *)

\* The blocks of main.md are numbered from 1; the headings that begin a page are
\* each named once; the citations of a block are citations of main.md.
LEMMA MainBlocksAre ==
    /\ DOMAIN MainBlocks = 1..19
    /\ Len(main_stream) = 19 /\ Len(MainBlocks) = 19
    /\ \A i \in 1..19 : MainBlocks[i].cites \in {<<>>, <<1, 2, 3>>, <<4>>}
    /\ \A i \in 1..19 : \A j \in DOMAIN MainBlocks[i].cites :
         MainBlocks[i].cites[j] \in DOMAIN Cites
    /\ \A i, k \in 1..19 :
         MainBlocks[i].line \in BreakLines /\ MainBlocks[k].line = MainBlocks[i].line => k = i
  <1>1. DOMAIN MainBlocks = 1..19 /\ Len(MainBlocks) = 19 BY DEF MainBlocks
  <1>2. Len(main_stream) = 19
    <2> DEFINE blocks == main_stream
    <2>1. blocks = [i \in 1..19 |-> blocks[i]] BY <1>1 DEF main_stream
    <2> HIDE DEF blocks
    <2>2. Len([i \in 1..19 |-> blocks[i]]) = 19 OBVIOUS
    <2>3. Len(blocks) = 19 BY <2>1, <2>2
    <2> QED BY <2>3 DEF blocks
  <1>3. DOMAIN Cites = 1..4 BY DEF Cites
  <1>8. /\ MainBlocks[1].line = "1." /\ MainBlocks[2].line = "intro" /\ MainBlocks[3].line = "gate"
        /\ MainBlocks[4].line = "signs" /\ MainBlocks[5].line = "item 1"
        /\ MainBlocks[6].line = "item 2"
        /\ MainBlocks[7].line = "figure 1" /\ MainBlocks[8].line = "figure 2"
        /\ MainBlocks[9].line = "table 1"
        /\ MainBlocks[10].line = "2." /\ MainBlocks[11].line = "method"
        /\ MainBlocks[12].line = "code"
        /\ MainBlocks[13].line = "refs heading" /\ MainBlocks[14].line = "references"
        /\ MainBlocks[15].line = "appendices"
        /\ MainBlocks[16].line = "A." /\ MainBlocks[17].line = "rules" /\ MainBlocks[18].line = "K."
        /\ MainBlocks[19].line = "usage"
    BY DEF MainBlocks, M
  <1>9. /\ MainBlocks[1].cites = <<>> /\ MainBlocks[2].cites = <<1, 2, 3>> /\ MainBlocks[3].cites = <<>>
        /\ MainBlocks[4].cites = <<>> /\ MainBlocks[5].cites = <<>> /\ MainBlocks[6].cites = <<>>
        /\ MainBlocks[7].cites = <<>> /\ MainBlocks[8].cites = <<>> /\ MainBlocks[9].cites = <<>>
        /\ MainBlocks[10].cites = <<>> /\ MainBlocks[11].cites = <<4>> /\ MainBlocks[12].cites = <<>>
        /\ MainBlocks[13].cites = <<>> /\ MainBlocks[14].cites = <<>> /\ MainBlocks[15].cites = <<>>
        /\ MainBlocks[16].cites = <<>> /\ MainBlocks[17].cites = <<>> /\ MainBlocks[18].cites = <<>>
        /\ MainBlocks[19].cites = <<>>
    BY DEF MainBlocks, M
  <1>11. ASSUME NEW i \in 1..19
         PROVE  \/ i = 1 \/ i = 2 \/ i = 3 \/ i = 4 \/ i = 5 \/ i = 6 \/ i = 7 \/ i = 8 \/ i = 9
           \/ i = 10
           \/ i = 11 \/ i = 12 \/ i = 13 \/ i = 14 \/ i = 15 \/ i = 16 \/ i = 17 \/ i = 18 \/ i = 19
    OBVIOUS
  <1>4. ASSUME NEW i \in 1..19
        PROVE  MainBlocks[i].cites \in {<<>>, <<1, 2, 3>>, <<4>>}
    BY <1>9, <1>11
  <1>10. ASSUME NEW i \in 1..19, NEW j \in DOMAIN MainBlocks[i].cites
         PROVE  MainBlocks[i].cites[j] \in 1..4
    <2> DEFINE cites == MainBlocks[i].cites
    <2>1. cites \in {<<>>, <<1, 2, 3>>, <<4>>} BY <1>4
    <2> HIDE DEF cites
    <2>2. \A n \in DOMAIN cites : cites[n] \in 1..4 BY <2>1
    <2> QED BY <2>2 DEF cites
  <1>5. \A i \in 1..19 : MainBlocks[i].line \in {"refs heading", "A.", "K."} => i \in {13, 16, 18}
    BY <1>8, <1>11
  <1>6. BreakLines = {"refs heading", "A.", "K."} BY DEF BreakLines
  <1>7. ASSUME NEW i \in 1..19, NEW k \in 1..19, MainBlocks[i].line \in BreakLines,
               MainBlocks[k].line = MainBlocks[i].line
        PROVE  k = i
    <2>1. i \in {13, 16, 18} /\ k \in {13, 16, 18} BY <1>5, <1>6, <1>7
    <2>2. /\ MainBlocks[13].line = "refs heading" /\ MainBlocks[16].line = "A."
          /\ MainBlocks[18].line = "K."
      BY <1>8
    <2>3. MainBlocks[13].line # MainBlocks[16].line /\ MainBlocks[16].line # MainBlocks[18].line
          /\ MainBlocks[13].line # MainBlocks[18].line
      BY <2>2
    <2> QED BY <2>1, <2>3, <1>7
  <1> QED BY <1>1, <1>2, <1>3, <1>4, <1>7, <1>10

\* The items a .docx is read as are a sequence, and each counts its breaks.
LEMMA ItemsAre ==
    ASSUME NEW S, NEW d, d.body \in Seq(S)
    PROVE  /\ Counted(docx_view(Blocks(d)).items)
           /\ Texts(main_stream, KeysOf(docx_view(Blocks(d)).items))
  <1> DEFINE blocks == Blocks(d)
             from == RepeatAt(blocks)
             items == docx_view(blocks).items
  <1>1. Len(blocks) \in Nat BY BlocksAreSequence
  <1> HIDE DEF blocks
  <1>2. from \in Nat BY <1>1, RepeatAtIs
  <1>3. items = Scan(blocks, from).items BY DEF docx_view
  <1> HIDE DEF from
  <1>4. Counted(Scan(blocks, from).items) BY <1>1, <1>2, ScanCounts DEF Counting
  <1> HIDE DEF items
  <1>5. Counted(items) BY <1>3, <1>4
  <1>6. Len(KeysOf(items)) \in Nat
    <2>1. PICK T : items \in Seq(T) BY <1>5 DEF Counted
    <2>2. DOMAIN items = 1..Len(items) /\ Len(items) \in Nat BY <2>1
    <2>3. Len([k \in 1..Len(items) |-> items[k].key]) = Len(items) BY <2>2
    <2> QED BY <2>2, <2>3 DEF KeysOf
  <1> QED BY <1>5, <1>6, MainBlocksAre DEF Texts, items, blocks

\* The citations check reports nothing where every citation stands in its place
\* as the fixture has it, and the fixture names the entries.
LEMMA CitationsStand ==
    ASSUME NEW view, NEW pairs, \A p \in pairs : p[1] \in 1..19,
           NEW apa, check_citations(view, pairs, apa) = {}
    PROVE  /\ \A p \in pairs :
                /\ DOMAIN view.items[p[2]].groups = DOMAIN MainBlocks[p[1]].cites
                /\ \A j \in DOMAIN MainBlocks[p[1]].cites :
                     Norm(view.items[p[2]].groups[j])
                       = Norm(apa[MainBlocks[p[1]].cites[j]].text)
           /\ \A k \in DOMAIN Cites : FixtureNames(k, Norm(apa[k].text))
  <1>1. (\A p \in pairs : CitedOtherwise(view, p, apa) = {}) /\ FixtureProblems(apa) = {}
    BY DEF check_citations
  <1>2. ASSUME NEW p \in pairs
        PROVE  /\ DOMAIN view.items[p[2]].groups = DOMAIN MainBlocks[p[1]].cites
               /\ \A j \in DOMAIN MainBlocks[p[1]].cites :
                    Norm(view.items[p[2]].groups[j])
                      = Norm(apa[MainBlocks[p[1]].cites[j]].text)
    <2> DEFINE ks == MainBlocks[p[1]].cites
               gs == view.items[p[2]].groups
               line == MainBlocks[p[1]].line
               unset == DOMAIN ks \ DOMAIN gs
               other == {j \in DOMAIN ks : Norm(gs[j]) # Norm(apa[ks[j]].text)}
               left == IF unset = {} THEN DOMAIN ks ELSE unset
    <2>1. CitedOtherwise(view, p, apa)
            = IF DOMAIN ks = DOMAIN gs THEN {Citation(ks[i]) : i \in other}
              ELSE {Citation(ks[i]) : i \in left} \union When(ks = <<>>, <<"citation", line>>)
      BY DEF CitedOtherwise
    <2>2. CitedOtherwise(view, p, apa) = {} BY <1>1
    <2>3. ks \in {<<>>, <<1, 2, 3>>, <<4>>} BY MainBlocksAre
    <2> HIDE DEF ks, gs, line, other, left
    <2>4. ks = <<>> \/ 1 \in DOMAIN ks BY <2>3
    <2>5. DOMAIN gs = DOMAIN ks
      <3> SUFFICES ASSUME DOMAIN ks # DOMAIN gs PROVE FALSE OBVIOUS
      <3>1. left = {} /\ When(ks = <<>>, <<"citation", line>>) = {} BY <2>1, <2>2
      <3>2. ks # <<>> BY <3>1 DEF When
      <3> QED BY <3>1, <3>2, <2>4 DEF left
    <2>6. other = {} BY <2>1, <2>2, <2>5
    <2> QED BY <2>5, <2>6 DEF other, ks, gs
  <1>3. \A k \in DOMAIN Cites : FixtureNames(k, Norm(apa[k].text))
    BY <1>1 DEF FixtureProblems
  <1> QED BY <1>2, <1>3


\* The page break check reports nothing where each item of a heading that begins
\* a page follows one break, and no other item follows one.
LEMMA BreaksStand ==
    ASSUME NEW d, NEW view, NEW blocks, NEW pairs, Counted(view.items),
           Len(view.items) = 19, pairs = {<<i, i>> : i \in 1..19},
           check_text(d, view, blocks, pairs) = {}
    PROVE  \A i \in 1..19 :
             view.items[i].brk = IF MainBlocks[i].line \in BreakLines THEN 1 ELSE 0
  <1> DEFINE at(line) == {k \in DOMAIN view.items :
                       /\ view.items[k].brk > 0
                       /\ \E q \in pairs : q[2] = k /\ MainBlocks[q[1]].line = line}
             breaks == {k \in DOMAIN view.items : view.items[k].brk > 0}
             odd == \/ \E line \in BreakLines : Cardinality(at(line)) # 1
                    \/ \E k \in breaks : view.items[k].brk # 1
                    \/ breaks # UNION {at(line) : line \in BreakLines}
                    \/ BreakCount(BreaksSet(d)) # Cardinality(BreakLines)
  <1>1. When(odd, Structure("page breaks")) \subseteq check_text(d, view, blocks, pairs)
    BY DEF check_text
  <1> HIDE DEF odd
  <1>2. ~odd BY <1>1 DEF When
  <1>3. PICK T : view.items \in Seq(T) /\ \A x \in T : x.brk \in Nat BY DEF Counted
  <1>4. DOMAIN view.items = 1..19 /\ \A k \in 1..19 : view.items[k].brk \in Nat
    <2> DEFINE items == view.items
    <2>1. items \in Seq(T) /\ Len(items) = 19 BY <1>3
    <2> HIDE DEF items
    <2>2. DOMAIN items = 1..Len(items) /\ \A k \in 1..Len(items) : items[k] \in T
      BY <2>1, LenProperties, ElementOfSeq
    <2>4. DOMAIN items = 1..19 /\ \A k \in 1..19 : items[k] \in T BY <2>1, <2>2
    <2> QED BY <2>4, <1>3 DEF items
  <1>5. \A line \in BreakLines : Cardinality(at(line)) = 1 BY <1>2 DEF odd
  <1>6. \A k \in breaks : view.items[k].brk = 1 BY <1>2 DEF odd
  <1>7. breaks = UNION {at(line) : line \in BreakLines} BY <1>2 DEF odd
  <1>8. ASSUME NEW line, NEW k \in at(line)
        PROVE  k \in 1..19 /\ k \in breaks /\ MainBlocks[k].line = line
    BY <1>4
  <1>9. ASSUME NEW line \in BreakLines PROVE \E k : k \in at(line)
    <2> SUFFICES ASSUME at(line) = {} PROVE FALSE OBVIOUS
    <2>1. Cardinality({}) = 0 BY FS_EmptySet
    <2> QED BY <2>1, <1>5
  <1> HIDE DEF at
  <1>10. ASSUME NEW i \in 1..19, MainBlocks[i].line \in BreakLines
         PROVE  view.items[i].brk = 1
    <2>1. PICK k : k \in at(MainBlocks[i].line) BY <1>9, <1>10
    <2>2. k \in 1..19 /\ MainBlocks[k].line = MainBlocks[i].line /\ k \in breaks BY <1>8, <2>1
    <2>3. k = i BY <2>2, <1>10, MainBlocksAre
    <2> QED BY <2>2, <2>3, <1>6
  <1>11. ASSUME NEW i \in 1..19, MainBlocks[i].line \notin BreakLines
         PROVE  view.items[i].brk = 0
    <2>1. i \notin breaks
      <3> SUFFICES ASSUME i \in breaks PROVE FALSE OBVIOUS
      <3>1. PICK line \in BreakLines : i \in at(line) BY <1>7
      <3> QED BY <3>1, <1>8, <1>11
    <2> QED BY <2>1, <1>4
  <1> QED BY <1>10, <1>11

\* A .docx of which the checks report nothing is read as main.md, block by block
\* and in its order, each with its citations and its page break; and it sets
\* every citation as one that names its entries (run_checks).  Whatever document
\* it is, and whatever the fixture holds.
THEOREM GreenReadsAsMain ==
    ASSUME NEW S, NEW d, d.body \in Seq(S), NEW record, NEW apa,
           run_checks(d, record, apa) = {}
    PROVE  Faithful(d, apa)
  <1> DEFINE blocks == Blocks(d)
             view == docx_view(blocks)
             items == view.items
             pairs == align(items).pairs
  <1>1. /\ align(items).problems \subseteq run_checks(d, record, apa)
        /\ check_citations(view, pairs, apa) \subseteq run_checks(d, record, apa)
        /\ check_text(d, view, blocks, pairs) \subseteq run_checks(d, record, apa)
    BY Zenon DEF run_checks, CheckBlocks, CheckView, CheckAligned, CheckPairs
  <1>2. Counted(items) /\ Texts(main_stream, KeysOf(items)) BY ItemsAre
  <1> HIDE DEF blocks, view
  <1>3. align(items).problems = {} BY <1>1
  <1>4. /\ Len(KeysOf(items)) = 19
        /\ \A i \in 1..19 : KeysOf(items)[i] = main_stream[i]
        /\ pairs = {<<i, i>> : i \in 1..19}
    BY <1>2, <1>3, AlignedWhole, MainBlocksAre
  <1> HIDE DEF pairs, items
  <1>5. DOMAIN items = 1..19 /\ Len(items) = 19
    <2>1. PICK T : items \in Seq(T) BY <1>2 DEF Counted
    <2>2. DOMAIN items = 1..Len(items) /\ Len(items) \in Nat BY <2>1
    <2>3. Len([k \in 1..Len(items) |-> items[k].key]) = Len(items) BY <2>2
    <2> QED BY <2>2, <2>3, <1>4 DEF KeysOf
  <1>6. \A i \in 1..19 : items[i].key = main_stream[i] BY <1>4, <1>5 DEF KeysOf
  <1>7. \A i \in 1..19 : items[i].brk = IF MainBlocks[i].line \in BreakLines THEN 1 ELSE 0
    <2>1. check_text(d, view, blocks, pairs) = {} BY <1>1
    <2>2. Counted(view.items) /\ Len(view.items) = 19 BY <1>2, <1>5 DEF items
    <2>3. pairs = {<<i, i>> : i \in 1..19} BY <1>4
    <2>4. \A i \in 1..19 :
             view.items[i].brk = IF MainBlocks[i].line \in BreakLines THEN 1 ELSE 0
      BY <2>1, <2>2, <2>3, BreaksStand
    <2> QED BY <2>4 DEF items
  <1>8. /\ \A p \in pairs :
             /\ DOMAIN view.items[p[2]].groups = DOMAIN MainBlocks[p[1]].cites
             /\ \A j \in DOMAIN MainBlocks[p[1]].cites :
                  Norm(view.items[p[2]].groups[j])
                    = Norm(apa[MainBlocks[p[1]].cites[j]].text)
        /\ \A k \in DOMAIN Cites : FixtureNames(k, Norm(apa[k].text))
    <2>1. \A p \in pairs : p[1] \in 1..19 BY <1>4
    <2>2. check_citations(view, pairs, apa) = {} BY <1>1
    <2> QED BY <2>1, <2>2, CitationsStand
  <1>9. ASSUME NEW i \in 1..19
        PROVE  /\ DOMAIN items[i].groups = DOMAIN MainBlocks[i].cites
               /\ \A j \in DOMAIN MainBlocks[i].cites :
                    Norm(items[i].groups[j]) = Norm(apa[MainBlocks[i].cites[j]].text)
    <2>1. <<i, i>> \in pairs /\ <<i, i>>[1] = i /\ <<i, i>>[2] = i BY <1>4
    <2> QED BY <2>1, <1>8 DEF items
  <1>10. ReadsAsMain(d, apa)
    <2>1. items = docx_view(Blocks(d)).items BY DEF items, view, blocks
    <2> QED BY <2>1, <1>5, <1>6, <1>7, <1>9, MainBlocksAre DEF ReadsAsMain, ItemsAsMain
  <1>11. NamesEntries(d)
    <2> SUFFICES ASSUME NEW c \in Placed(d), NEW n \in Range(Cites[c[1]].ids)
                 PROVE  Refs[n].author \in Range(c[2]) /\ Refs[n].year \in Range(c[2])
      BY DEF NamesEntries
    <2>1. Placed(d) = PlacedIn(view, pairs)
      BY DEF Placed, PlacedOf, view, blocks, pairs, items
    <2>2. PICK i \in 1..19 : \E j \in DOMAIN MainBlocks[i].cites :
             c = <<MainBlocks[i].cites[j], Norm(items[i].groups[j])>>
      BY <2>1, <1>4 DEF PlacedIn, items
    <2>3. PICK j \in DOMAIN MainBlocks[i].cites :
             c = <<MainBlocks[i].cites[j], Norm(items[i].groups[j])>>
      BY <2>2
    <2>4. c[1] \in DOMAIN Cites /\ c[2] = Norm(apa[c[1]].text)
      BY <2>3, <1>9, MainBlocksAre
    <2>5. FixtureNames(c[1], c[2]) BY <2>4, <1>8
    <2> QED BY <2>5 DEF FixtureNames
  <1> QED BY <1>10, <1>11 DEF Faithful

-----------------------------------------------------------------------------
(* The body of a .docx is a sequence of blocks, whatever edits stand in it. *)

\* A sequence, of whatever it holds.
IsSeq(b) == \E n \in Nat : DOMAIN b = 1..n /\ b = [i \in 1..n |-> b[i]]

\* A document with a body that is one.
Bodied(d) == "body" \in DOMAIN d /\ IsSeq(d.body)

\* Such a body is a sequence of its own blocks.
LEMMA SequenceOf ==
    ASSUME NEW b, IsSeq(b)
    PROVE  \E S : b \in Seq(S)
  <1>1. PICK n \in Nat : DOMAIN b = 1..n /\ b = [i \in 1..n |-> b[i]] BY DEF IsSeq
  <1>2. b \in [1..n -> {b[i] : i \in 1..n}] BY <1>1
  <1>3. b \in Seq({b[i] : i \in 1..n}) BY <1>2, <1>1
  <1> QED BY <1>3

\* And every sequence is such a body.
LEMMA IsSequence ==
    ASSUME NEW S, NEW b \in Seq(S)
    PROVE  IsSeq(b)
BY DEF IsSeq

\* So is a function made on the numbers from 1.
LEMMA MadeOf ==
    ASSUME NEW n \in Nat, NEW b, DOMAIN b = 1..n, b = [i \in 1..n |-> b[i]]
    PROVE  IsSeq(b)
BY DEF IsSeq

\* Two of them one after the other,
LEMMA InARow ==
    ASSUME NEW a, NEW b, IsSeq(a), IsSeq(b)
    PROVE  IsSeq(a \o b)
  <1>1. PICK S : a \in Seq(S) BY SequenceOf
  <1>2. PICK T : b \in Seq(T) BY SequenceOf
  <1>3. a \in Seq(S \union T) /\ b \in Seq(S \union T) BY <1>1, <1>2
  <1>4. a \o b \in Seq(S \union T) BY <1>3
  <1> QED BY <1>4, IsSequence

\* a stretch of anything,
LEMMA Cut ==
    ASSUME NEW a, NEW i \in Int, NEW j \in Int
    PROVE  IsSeq(SubSeq(a, i, j))
  <1> DEFINE S == {a[k] : k \in i..j}
  <1>1. \A k \in i..j : a[k] \in S OBVIOUS
  <1> HIDE DEF S
  <1>2. SubSeq(a, i, j) \in Seq(S) BY <1>1, SubSeqProperties
  <1> QED BY <1>2, IsSequence

\* a single block,
LEMMA One ==
    ASSUME NEW b
    PROVE  IsSeq(<<b>>)
BY DEF IsSeq

\* a sequence with a block removed,
LEMMA RemovedAt ==
    ASSUME NEW a, NEW i \in Int, Len(a) \in Int
    PROVE  IsSeq(RemoveAt(a, i))
BY Cut, InARow DEF RemoveAt

\* with one inserted,
LEMMA InsertedAt ==
    ASSUME NEW a, NEW i \in Int, Len(a) \in Int, NEW b
    PROVE  IsSeq(InsertAt(a, i, b))
  <1>1. IsSeq(SubSeq(a, 1, i - 1)) /\ IsSeq(<<b>>) /\ IsSeq(SubSeq(a, i, Len(a))) BY Cut, One
  <1> QED BY <1>1, InARow DEF InsertAt

\* and with one added at its end.
LEMMA Appended ==
    ASSUME NEW a, IsSeq(a), NEW b
    PROVE  IsSeq(Append(a, b))
  <1>1. PICK S : a \in Seq(S) BY SequenceOf
  <1>2. Append(a, b) \in Seq(S \union {b}) BY <1>1
  <1> QED BY <1>2, IsSequence

\* A block is looked for by its name: the place it has is a number.
LEMMA Found ==
    ASSUME NEW d, Bodied(d), NEW at
    PROVE  /\ Len(d.body) \in Nat
           /\ At(d, at) \in Int /\ At(d, at) - 1 \in Int
  <1> DEFINE I == {i \in 1..Len(d.body) : d.body[i].at = at}
  <1>1. PICK S : d.body \in Seq(S) BY SequenceOf DEF Bodied
  <1>2. At(d, at) = IF I # {} THEN Min(I) ELSE 0 BY DEF At, SelectInSeq
  <1>3. ASSUME I # {} PROVE Min(I) \in I
    <2>1. I \subseteq Nat BY <1>1
    <2>2. PICK n \in I : \A m \in I : n <= m BY <2>1, <1>3, LeastNatural
    <2> QED BY <2>2 DEF Min
  <1> QED BY <1>1, <1>2, <1>3

\* Editing a block keeps the body a sequence,
LEMMA BlockSet ==
    ASSUME NEW d, Bodied(d), NEW i, NEW e
    PROVE  Bodied([d EXCEPT !.body[i] = e])
BY DEF Bodied, IsSeq

\* setting another one does,
LEMMA BodySet ==
    ASSUME NEW d, Bodied(d), NEW b, IsSeq(b)
    PROVE  Bodied([d EXCEPT !.body = b])
BY DEF Bodied

\* and so does changing anything beside the body.
LEMMA BesideSet ==
    ASSUME NEW d, Bodied(d), NEW f, f # "body", NEW e
    PROVE  Bodied([d EXCEPT ![f] = e])
BY DEF Bodied

\* The edits of DocxMutations, one operator at a time: a block removed,
LEMMA WithoutStays ==
    ASSUME NEW d, Bodied(d), NEW at
    PROVE  Bodied(Without(d, at))
  <1> DEFINE i == At(d, at)
  <1>1. i \in Int /\ Len(d.body) \in Int BY Found
  <1>2. IsSeq(RemoveAt(d.body, i)) BY <1>1, Cut, InARow DEF RemoveAt
  <1> QED BY <1>2, BodySet DEF Without

\* blocks put after another,
LEMMA AfterStays ==
    ASSUME NEW d, Bodied(d), NEW at, NEW blocks, IsSeq(blocks)
    PROVE  Bodied(After(d, at, blocks))
  <1> DEFINE i == At(d, at)
  <1>1. i \in Int /\ Len(d.body) \in Int BY Found
  <1>2. IsSeq(SubSeq(d.body, 1, i) \o blocks \o SubSeq(d.body, i + 1, Len(d.body)))
    BY <1>1, Cut, InARow
  <1> QED BY <1>2, BodySet DEF After

\* a block repeated,
LEMMA AfterCopyStays ==
    ASSUME NEW d, Bodied(d), NEW at, NEW times \in Nat
    PROVE  Bodied(AfterCopy(d, at, times))
  <1> DEFINE blocks == [k \in 1..times |-> Block(d, at)]
  <1>1. IsSeq(blocks) BY MadeOf
  <1> QED BY <1>1, AfterStays DEF AfterCopy

\* a token replaced,
LEMMA SwapStays ==
    ASSUME NEW d, Bodied(d), NEW at, NEW old, NEW new
    PROVE  Bodied(Swap(d, at, old, new))
BY BlockSet DEF Swap, On

\* a text extended,
LEMMA ExtendStays ==
    ASSUME NEW d, Bodied(d), NEW at, NEW text
    PROVE  Bodied(Extend(d, at, text))
BY BlockSet DEF Extend, On

\* a node added,
LEMMA AddingStays ==
    ASSUME NEW d, Bodied(d), NEW at, NEW node
    PROVE  Bodied(Adding(d, at, node))
BY BlockSet DEF Adding, On

\* a picture in a form of its own,
LEMMA FormStays ==
    ASSUME NEW d, Bodied(d), NEW what
    PROVE  Bodied(Form(d, what))
BY BlockSet DEF Form, OnPicture, On

\* an attribute of a style,
LEMMA SettingStays ==
    ASSUME NEW d, Bodied(d), NEW id, NEW attribute, NEW value
    PROVE  Bodied(Setting(d, id, attribute, value))
BY BesideSet DEF Setting, OnStyle

\* two of them,
LEMMA SettingLineStays ==
    ASSUME NEW d, Bodied(d), NEW id, NEW line, NEW rule
    PROVE  Bodied(SettingLine(d, id, line, rule))
BY SettingStays DEF SettingLine

\* what a style carries besides,
LEMMA CarryingStays ==
    ASSUME NEW d, Bodied(d), NEW id, NEW what
    PROVE  Bodied(Carrying(d, id, what))
BY BesideSet DEF Carrying, OnStyle

\* the defaults,
LEMMA DefaultStays ==
    ASSUME NEW d, Bodied(d), NEW line, NEW rule
    PROVE  Bodied(Default(d, line, rule))
BY BesideSet DEF Default

\* the numbering,
LEMMA RenumberStays ==
    ASSUME NEW d, Bodied(d), NEW id
    PROVE  Bodied(Renumber(d, id))
  <1> DEFINE body == [i \in DOMAIN d.body |->
                 IF IsP(d.body[i]) /\ d.body[i].num # <<>>
                 THEN [d.body[i] EXCEPT !.num = <<id, 0>>] ELSE d.body[i]]
  <1>1. IsSeq(body) BY DEF Bodied, IsSeq
  <1> HIDE DEF body
  <1> DEFINE e == [d EXCEPT !.numbering.lists[1].id = id]
  <1>2. Bodied(e) BY BesideSet
  <1> HIDE DEF e
  <1>3. Renumber(d, id) = [e EXCEPT !.body = body] BY DEF Renumber, body, e, Bodied
  <1> QED BY <1>1, <1>2, <1>3, BodySet

\* a property pandoc does not write, of a paragraph,
LEMMA OddlyStays ==
    ASSUME NEW d, Bodied(d), NEW at, NEW what
    PROVE  Bodied(Oddly(d, at, what))
BY BlockSet DEF Oddly, On

\* of the table,
LEMMA OddTableStays ==
    ASSUME NEW d, Bodied(d), NEW what
    PROVE  Bodied(OddTable(d, what))
BY BlockSet DEF OddTable, OnTable, On

\* the width of a column,
LEMMA ColumnStays ==
    ASSUME NEW d, Bodied(d), NEW width
    PROVE  Bodied(Column(d, width))
BY BlockSet DEF Column, OnTable, On

\* the level of a list,
LEMMA LevelOddStays ==
    ASSUME NEW d, Bodied(d), NEW what
    PROVE  Bodied(LevelOdd(d, what))
BY BesideSet DEF LevelOdd, OnLevel

\* a paragraph set as code,
LEMMA SourceCodeStays ==
    ASSUME NEW d, Bodied(d), NEW at
    PROVE  Bodied(SourceCode(d, at))
BY BlockSet DEF SourceCode, On

\* the sizes of the character styles.
LEMMA CharacterSizesStay ==
    ASSUME NEW d, Bodied(d), NEW points
    PROVE  Bodied(_character_sizes(d, points))
BY BesideSet DEF _character_sizes

\* How often an edit repeats.
LEMMA TimesAre == Times \in Nat
BY DEF Times

\* Blank paragraphs are a sequence.
LEMMA Blanks == IsSeq([k \in 1..Times |-> P("blank", "", <<>>)])
BY MadeOf DEF Times

\* The place before a heading is a number too.
LEMMA BreakFound ==
    ASSUME NEW d, Bodied(d)
    PROVE  BreakAt(d) \in Int /\ Len(d.body) \in Int /\ IsSeq(d.body)
  <1>1. Len(d.body) \in Int BY Found
  <1>2. 0 \in Int OBVIOUS
  <1> QED BY <1>1, <1>2, Found DEF BreakAt, Bodied

\* An edit of the page break, where there is one.
LEMMA WithBreakStays ==
    ASSUME NEW d, Bodied(d), NEW edited, Bodied(edited)
    PROVE  Bodied(WithBreak(d, edited))
BY DEF WithBreak

\* Edits that all leave such a document.
EditsStay(edited) == \A m \in DOMAIN edited : Bodied(edited[m])

\* The edits of each group, in the order the program has them.
LEMMA WordsAndPicturesStay ==
    ASSUME NEW d, Bodied(d)
    PROVE  EditsStay(WordsAndPictures(d))
  <1> DEFINE e == WordsAndPictures(d)
  <1>1. /\ Bodied(e.drop_paragraph)
        /\ Bodied(e.drop_figure)
    BY WithoutStays DEF WordsAndPictures
  <1>2. Bodied(e.double_paragraph)
    BY AfterCopyStays DEF WordsAndPictures
  <1>3. /\ Bodied(e.change_number)
        /\ Bodied(e.flip_sign)
    BY SwapStays DEF WordsAndPictures
  <1>4. /\ Bodied(e.swap_figures)
        /\ Bodied(e.double_figure)
    BY BlockSet DEF WordsAndPictures, On, OnPicture
  <1>5. DOMAIN e = {"drop_paragraph", "double_paragraph", "change_number", "flip_sign",
                   "drop_figure", "swap_figures", "double_figure"}
    BY DEF WordsAndPictures
  <1> QED BY <1>1, <1>2, <1>3, <1>4, <1>5 DEF EditsStay

\* Sources and cells.
LEMMA SourcesAndCellsStay ==
    ASSUME NEW d, Bodied(d)
    PROVE  EditsStay(SourcesAndCells(d))
  <1> DEFINE e == SourcesAndCells(d)
  <1>1. Bodied(e.drop_reference)
    BY WithoutStays DEF SourcesAndCells
  <1>2. /\ Bodied(e.move_year)
        /\ Bodied(e.rename_author)
    BY SwapStays DEF SourcesAndCells
  <1>3. Bodied(e.repoint_citation)
    BY BlockSet DEF SourcesAndCells, On
  <1>4. Bodied(e.move_cell_boundary)
    BY BlockSet DEF SourcesAndCells, On, OnCell, OnTable
  <1>5. DOMAIN e = {"drop_reference", "move_year", "rename_author", "repoint_citation",
                   "move_cell_boundary"}
    BY DEF SourcesAndCells
  <1> QED BY <1>1, <1>2, <1>3, <1>4, <1>5 DEF EditsStay

\* Front matter.
LEMMA FrontMatterStay ==
    ASSUME NEW d, Bodied(d)
    PROVE  EditsStay(FrontMatter(d))
  <1> DEFINE e == FrontMatter(d)
  <1>1. /\ Bodied(e.british)
        /\ Bodied(e.residue)
    BY ExtendStays DEF FrontMatter
  <1>2. /\ Bodied(e.change_disclosure)
        /\ Bodied(e.change_abstract)
        /\ Bodied(e.volume)
    BY SwapStays DEF FrontMatter
  <1>3. /\ Bodied(e.leave_disclosure)
        /\ Bodied(e.keep_note)
    BY AfterStays, One DEF FrontMatter
  <1>4. DOMAIN e = {"british", "change_disclosure", "leave_disclosure", "change_abstract",
                   "keep_note", "residue", "volume"}
    BY DEF FrontMatter
  <1> QED BY <1>1, <1>2, <1>3, <1>4 DEF EditsStay

\* Captions and breaks.
LEMMA CaptionsAndBreaksStay ==
    ASSUME NEW d, Bodied(d)
    PROVE  EditsStay(CaptionsAndBreaks(d))
  <1> DEFINE e == CaptionsAndBreaks(d)
  <1>1. /\ Bodied(e.append_reference)
        /\ Bodied(e.text_beside_figure)
    BY AddingStays DEF CaptionsAndBreaks
  <1>2. Bodied(e.placeholder)
    BY BlockSet DEF CaptionsAndBreaks, On
  <1>3. /\ Bodied(e.drop_break)
        /\ Bodied(e.text_in_break)
    BY BlockSet, BodySet, BreakFound, RemovedAt, InsertedAt, Appended, WithBreakStays DEF CaptionsAndBreaks
  <1>4. Bodied(e.drop_figure_note)
    BY WithoutStays DEF CaptionsAndBreaks
  <1>5. Bodied(e.figure_note_word)
    BY ExtendStays DEF CaptionsAndBreaks
  <1>6. Bodied(e.figure_note_into_title)
    BY BlockSet, WithoutStays DEF CaptionsAndBreaks, On
  <1>7. Bodied(e.table_on_title_page)
    BY AfterStays, One DEF CaptionsAndBreaks
  <1>8. DOMAIN e = {"append_reference", "placeholder", "drop_break", "text_in_break",
                   "text_beside_figure", "drop_figure_note", "figure_note_word",
                   "figure_note_into_title", "table_on_title_page"}
    BY DEF CaptionsAndBreaks
  <1> QED BY <1>1, <1>2, <1>3, <1>4, <1>5, <1>6, <1>7, <1>8 DEF EditsStay

\* Hidden content.
LEMMA HiddenContentStay ==
    ASSUME NEW d, Bodied(d)
    PROVE  EditsStay(HiddenContent(d))
  <1> DEFINE e == HiddenContent(d)
  <1>1. Bodied(e.move_reference)
    BY AfterStays, One, WithoutStays DEF HiddenContent
  <1>2. /\ Bodied(e.content_control)
        /\ Bodied(e.alt_chunk)
    BY AfterStays, One DEF HiddenContent
  <1>3. Bodied(e.hidden)
    BY BlockSet DEF HiddenContent, On
  <1>4. Bodied(e.row_in_content_control)
    BY BlockSet DEF HiddenContent, On, OnTable
  <1>5. Bodied(e.inline_page_break)
    BY AddingStays DEF HiddenContent
  <1>6. /\ Bodied(e.volume_point)
        /\ Bodied(e.doi_apostrophe)
    BY SwapStays DEF HiddenContent
  <1>7. DOMAIN e = {"move_reference", "content_control", "hidden", "row_in_content_control",
                   "inline_page_break", "alt_chunk", "volume_point", "doi_apostrophe"}
    BY DEF HiddenContent
  <1> QED BY <1>1, <1>2, <1>3, <1>4, <1>5, <1>6, <1>7 DEF EditsStay

\* Unread content.
LEMMA UnreadContentStay ==
    ASSUME NEW d, Bodied(d)
    PROVE  EditsStay(UnreadContent(d))
  <1> DEFINE e == UnreadContent(d)
  <1>1. /\ Bodied(e.alternate_content)
        /\ Bodied(e.symbol)
        /\ Bodied(e.field)
    BY BlockSet DEF UnreadContent, LastNode, On
  <1>2. Bodied(e.equation)
    BY AddingStays DEF UnreadContent
  <1>3. Bodied(e.style_hidden)
    BY SettingStays DEF UnreadContent
  <1>4. Bodied(e.style_without_break)
    BY BesideSet DEF UnreadContent, OnStyle
  <1>5. /\ Bodied(e.double_break)
        /\ Bodied(e.trailing_break)
    BY BlockSet, BodySet, BreakFound, RemovedAt, InsertedAt, Appended, WithBreakStays DEF UnreadContent
  <1>6. DOMAIN e = {"alternate_content", "equation", "symbol", "field", "style_hidden",
                   "style_without_break", "double_break", "trailing_break"}
    BY DEF UnreadContent
  <1> QED BY <1>1, <1>2, <1>3, <1>4, <1>5, <1>6 DEF EditsStay

\* Links and bases.
LEMMA LinksAndBasesStay ==
    ASSUME NEW d, Bodied(d)
    PROVE  EditsStay(LinksAndBases(d))
  <1> DEFINE e == LinksAndBases(d)
  <1>1. /\ Bodied(e.link_target)
        /\ Bodied(e.link_outside_references)
    BY BesideSet DEF LinksAndBases, OnRel
  <1>2. Bodied(e.extra_bookmark)
    BY BlockSet DEF LinksAndBases, On
  <1>3. Bodied(e.container_apostrophe)
    BY SwapStays DEF LinksAndBases
  <1>4. Bodied(e.style_break_off)
    BY SettingStays DEF LinksAndBases
  <1>5. Bodied(e.style_based_on_break)
    BY BesideSet DEF LinksAndBases, OnStyle
  <1>6. DOMAIN e = {"link_target", "extra_bookmark", "container_apostrophe",
                   "link_outside_references", "style_break_off", "style_based_on_break"}
    BY DEF LinksAndBases
  <1> QED BY <1>1, <1>2, <1>3, <1>4, <1>5, <1>6 DEF EditsStay

\* Cells and rows.
LEMMA CellsAndRowsStay ==
    ASSUME NEW d, Bodied(d)
    PROVE  EditsStay(CellsAndRows(d))
  <1> DEFINE e == CellsAndRows(d)
  <1>1. Bodied(e.break_after_title)
    BY AfterStays, One, WithBreakStays DEF CellsAndRows
  <1>2. Bodied(e.break_in_cell)
    BY BlockSet, WithBreakStays DEF CellsAndRows, On, OnCell, OnTable
  <1>3. Bodied(e.section_break)
    BY OddlyStays DEF CellsAndRows
  <1>4. Bodied(e.grid_span)
    BY BlockSet, OddTableStays DEF CellsAndRows, On, OnTable
  <1>5. Bodied(e.row_height)
    BY OddTableStays DEF CellsAndRows
  <1>6. /\ Bodied(e.crop)
        /\ Bodied(e.transparent)
    BY FormStays DEF CellsAndRows
  <1>7. DOMAIN e = {"break_after_title", "break_in_cell", "section_break", "grid_span",
                   "row_height", "crop", "transparent"}
    BY DEF CellsAndRows
  <1> QED BY <1>1, <1>2, <1>3, <1>4, <1>5, <1>6, <1>7 DEF EditsStay

\* Header and links.
LEMMA HeaderAndLinksStay ==
    ASSUME NEW d, Bodied(d)
    PROVE  EditsStay(HeaderAndLinks(d))
  <1> DEFINE e == HeaderAndLinks(d)
  <1>1. /\ Bodied(e.header_equation)
        /\ Bodied(e.header_field)
    BY BesideSet DEF HeaderAndLinks
  <1>2. Bodied(e.link_mode)
    BY BesideSet DEF HeaderAndLinks, OnRel
  <1>3. Bodied(e.unwrap_link)
    BY BlockSet DEF HeaderAndLinks, LastNode, On
  <1>4. Bodied(e.bookmark_in_cell)
    BY BlockSet DEF HeaderAndLinks, On, OnCell, OnTable
  <1>5. Bodied(e.added_link)
    BY BesideSet, BlockSet DEF HeaderAndLinks, LastNode, On
  <1>6. DOMAIN e = {"header_equation", "header_field", "link_mode", "unwrap_link",
                   "bookmark_in_cell", "added_link"}
    BY DEF HeaderAndLinks
  <1> QED BY <1>1, <1>2, <1>3, <1>4, <1>5, <1>6 DEF EditsStay

\* Pictures and faces.
LEMMA PicturesAndFacesStay ==
    ASSUME NEW d, Bodied(d)
    PROVE  EditsStay(PicturesAndFaces(d))
  <1> DEFINE e == PicturesAndFaces(d)
  <1>1. /\ Bodied(e.picture_mirrored)
        /\ Bodied(e.picture_turned)
        /\ Bodied(e.picture_squeezed)
        /\ Bodied(e.picture_inner_size)
    BY FormStays DEF PicturesAndFaces
  <1>2. /\ Bodied(e.style_white)
        /\ Bodied(e.style_tiny)
        /\ Bodied(e.style_face)
    BY SettingStays DEF PicturesAndFaces
  <1>3. Bodied(e.style_struck)
    BY CarryingStays DEF PicturesAndFaces
  <1>4. Bodied(e.style_twin)
    BY BesideSet, SettingStays DEF PicturesAndFaces
  <1>5. DOMAIN e = {"picture_mirrored", "picture_turned", "picture_squeezed", "picture_inner_size",
                   "style_white", "style_tiny", "style_face", "style_struck", "style_twin"}
    BY DEF PicturesAndFaces
  <1> QED BY <1>1, <1>2, <1>3, <1>4, <1>5 DEF EditsStay

\* Lists and header.
LEMMA ListsAndHeaderStay ==
    ASSUME NEW d, Bodied(d)
    PROVE  EditsStay(ListsAndHeader(d))
  <1> DEFINE e == ListsAndHeader(d)
  <1>1. Bodied(e.list_label)
    BY BesideSet DEF ListsAndHeader, OnLevel
  <1>2. /\ Bodied(e.list_redefined)
        /\ Bodied(e.header_renamed)
        /\ Bodied(e.header_literal)
    BY BesideSet DEF ListsAndHeader
  <1>3. Bodied(e.picture_external)
    BY BesideSet DEF ListsAndHeader, OnRel
  <1>4. DOMAIN e = {"list_label", "list_redefined", "header_renamed", "picture_external",
                   "header_literal"}
    BY DEF ListsAndHeader
  <1> QED BY <1>1, <1>2, <1>3, <1>4 DEF EditsStay

\* Parts and columns.
LEMMA PartsAndColumnsStay ==
    ASSUME NEW d, Bodied(d)
    PROVE  EditsStay(PartsAndColumns(d))
  <1> DEFINE e == PartsAndColumns(d)
  <1>1. Bodied(e.style_squeezed)
    BY SettingLineStays DEF PartsAndColumns
  <1>2. /\ Bodied(e.settings)
        /\ Bodied(e.separator_text)
        /\ Bodied(e.footnote_relationship)
        /\ Bodied(e.package_relationship)
        /\ Bodied(e.page_colour)
        /\ Bodied(e.twin_entry)
    BY BesideSet DEF PartsAndColumns
  <1>3. Bodied(e.table_wide)
    BY BlockSet DEF PartsAndColumns, On, OnTable
  <1>4. /\ Bodied(e.column_narrow)
        /\ Bodied(e.columns_wide)
        /\ Bodied(e.column_underscore)
    BY ColumnStays DEF PartsAndColumns
  <1>5. DOMAIN e = {"style_squeezed", "settings", "separator_text", "footnote_relationship",
                   "package_relationship", "table_wide", "column_narrow", "columns_wide",
                   "column_underscore", "page_colour", "twin_entry"}
    BY DEF PartsAndColumns
  <1> QED BY <1>1, <1>2, <1>3, <1>4, <1>5 DEF EditsStay

\* Spacing and labels.
LEMMA SpacingAndLabelsStay ==
    ASSUME NEW d, Bodied(d)
    PROVE  EditsStay(SpacingAndLabels(d))
  <1> DEFINE e == SpacingAndLabels(d)
  <1>1. Bodied(e.style_compressed)
    BY SettingLineStays DEF SpacingAndLabels
  <1>2. /\ Bodied(e.style_indent)
        /\ Bodied(e.style_gap)
    BY SettingStays DEF SpacingAndLabels
  <1>3. Bodied(e.label_suppressed)
    BY LevelOddStays DEF SpacingAndLabels
  <1>4. Bodied(e.list_unnumbered)
    BY RenumberStays DEF SpacingAndLabels
  <1>5. /\ Bodied(e.space_unpreserved)
        /\ Bodied(e.space_default)
    BY BlockSet DEF SpacingAndLabels, LastNode, On
  <1>6. DOMAIN e = {"style_compressed", "style_indent", "style_gap", "label_suppressed",
                   "list_unnumbered", "space_unpreserved", "space_default"}
    BY DEF SpacingAndLabels
  <1> QED BY <1>1, <1>2, <1>3, <1>4, <1>5, <1>6 DEF EditsStay

\* Blank space.
LEMMA BlankSpaceStay ==
    ASSUME NEW d, Bodied(d)
    PROVE  EditsStay(BlankSpace(d))
  <1> DEFINE e == BlankSpace(d)
  <1>1. Bodied(e.picture_large)
    BY BlockSet DEF BlankSpace, On, OnPicture
  <1>2. Bodied(e.blank_paragraphs)
    BY AfterStays, Blanks DEF BlankSpace
  <1>3. Bodied(e.cell_blank)
    BY BlockSet DEF BlankSpace, On, OnCell, OnTable
  <1>4. Bodied(e.after_table_repeated)
    BY AfterCopyStays, TimesAre DEF BlankSpace
  <1>5. /\ Bodied(e.line_breaks)
        /\ Bodied(e.code_breaks)
    BY ExtendStays DEF BlankSpace
  <1>6. Bodied(e.list_zero_padded)
    BY RenumberStays DEF BlankSpace
  <1>7. /\ Bodied(e.label_offset)
        /\ Bodied(e.label_right)
    BY BesideSet DEF BlankSpace, OnLevel
  <1>8. DOMAIN e = {"picture_large", "blank_paragraphs", "cell_blank", "after_table_repeated",
                   "line_breaks", "code_breaks", "list_zero_padded", "label_offset", "label_right"}
    BY DEF BlankSpace
  <1> QED BY <1>1, <1>2, <1>3, <1>4, <1>5, <1>6, <1>7, <1>8 DEF EditsStay

\* Code and lines.
LEMMA CodeAndLinesStay ==
    ASSUME NEW d, Bodied(d)
    PROVE  EditsStay(CodeAndLines(d))
  <1> DEFINE e == CodeAndLines(d)
  <1>1. Bodied(e.prose_as_code)
    BY ExtendStays, SourceCodeStays DEF CodeAndLines
  <1>2. Bodied(e.code_lines_moved)
    BY ExtendStays, SwapStays DEF CodeAndLines
  <1>3. /\ Bodied(e.spaces_run)
        /\ Bodied(e.em_space)
    BY SwapStays DEF CodeAndLines
  <1>4. Bodied(e.style_lines_gap)
    BY CarryingStays DEF CodeAndLines
  <1>5. /\ Bodied(e.style_line_wide)
        /\ Bodied(e.style_line_tall)
        /\ Bodied(e.figure_exact)
    BY SettingLineStays DEF CodeAndLines
  <1>6. Bodied(e.style_exact_short)
    BY SettingLineStays, SettingStays DEF CodeAndLines
  <1>7. /\ Bodied(e.style_huge)
        /\ Bodied(e.cell_margin)
        /\ Bodied(e.table_indent)
    BY SettingStays DEF CodeAndLines
  <1>8. Bodied(e.prose_code_spaces)
    BY SourceCodeStays, SwapStays DEF CodeAndLines
  <1>9. DOMAIN e = {"prose_as_code", "code_lines_moved", "spaces_run", "em_space",
                   "style_lines_gap", "style_line_wide", "style_line_tall", "figure_exact",
                   "style_exact_short", "style_huge", "cell_margin", "table_indent",
                   "prose_code_spaces"}
    BY DEF CodeAndLines
  <1> QED BY <1>1, <1>2, <1>3, <1>4, <1>5, <1>6, <1>7, <1>8, <1>9 DEF EditsStay

\* Levels and rows.
LEMMA LevelsAndRowsStay ==
    ASSUME NEW d, Bodied(d)
    PROVE  EditsStay(LevelsAndRows(d))
  <1> DEFINE e == LevelsAndRows(d)
  <1>1. Bodied(e.label_em_spaces)
    BY BesideSet DEF LevelsAndRows, OnLevel
  <1>2. Bodied(e.level_text_twice)
    BY LevelOddStays DEF LevelsAndRows
  <1>3. Bodied(e.list_defined_twice)
    BY BesideSet DEF LevelsAndRows
  <1>4. Bodied(e.paragraph_style_twice)
    BY OddlyStays DEF LevelsAndRows
  <1>5. /\ Bodied(e.cell_split)
        /\ Bodied(e.cell_title)
    BY BlockSet DEF LevelsAndRows, On, OnCell, OnTable
  <1>6. /\ Bodied(e.heading_row_tiny)
        /\ Bodied(e.heading_row_exact)
        /\ Bodied(e.banded_rows)
    BY CarryingStays DEF LevelsAndRows
  <1>7. DOMAIN e = {"label_em_spaces", "level_text_twice", "list_defined_twice",
                   "paragraph_style_twice", "cell_split", "cell_title", "heading_row_tiny",
                   "heading_row_exact", "banded_rows"}
    BY DEF LevelsAndRows
  <1> QED BY <1>1, <1>2, <1>3, <1>4, <1>5, <1>6, <1>7 DEF EditsStay

\* Inherited lines.
LEMMA InheritedLinesStay ==
    ASSUME NEW d, Bodied(d)
    PROVE  EditsStay(InheritedLines(d))
  <1> DEFINE e == InheritedLines(d)
  <1>1. /\ Bodied(e.figure_rule_alone)
        /\ Bodied(e.line_rule_elsewhere)
        /\ Bodied(e.table_size_reversed)
    BY SettingStays DEF InheritedLines
  <1>2. Bodied(e.rule_from_defaults)
    BY BesideSet, SettingStays DEF InheritedLines
  <1>3. /\ Bodied(e.line_auto_inherited)
        /\ Bodied(e.line_auto_close)
    BY DefaultStays, SettingStays DEF InheritedLines
  <1>4. Bodied(e.style_line_negative)
    BY SettingLineStays DEF InheritedLines
  <1>5. Bodied(e.style_size_twice)
    BY CarryingStays DEF InheritedLines
  <1>6. Bodied(e.default_character_tiny)
    BY CharacterSizesStay DEF InheritedLines
  <1>7. Bodied(e.default_character_clipped)
    BY CharacterSizesStay, SettingLineStays DEF InheritedLines
  <1>8. DOMAIN e = {"figure_rule_alone", "rule_from_defaults", "line_auto_inherited",
                   "line_auto_close", "line_rule_elsewhere", "style_line_negative",
                   "table_size_reversed", "style_size_twice", "default_character_tiny",
                   "default_character_clipped"}
    BY DEF InheritedLines
  <1> QED BY <1>1, <1>2, <1>3, <1>4, <1>5, <1>6, <1>7, <1>8 DEF EditsStay

\* What is no mutation.
LEMMA NoMutationStay ==
    ASSUME NEW d, Bodied(d)
    PROVE  EditsStay(NoMutation(d))
  <1> DEFINE e == NoMutation(d)
  <1>1. Bodied(e.highlight_style)
    BY BesideSet DEF NoMutation
  <1>2. Bodied(e.citation_restyled)
    BY BlockSet DEF NoMutation, On
  <1>3. DOMAIN e = {"highlight_style", "citation_restyled"}
    BY DEF NoMutation
  <1> QED BY <1>1, <1>2, <1>3 DEF EditsStay

\* No edit of MUTATIONS makes the body anything but a sequence (mutation_test).
LEMMA EditedStay ==
    ASSUME NEW d, Bodied(d)
    PROVE  \A group \in Groups(d) : EditsStay(group)
BY WordsAndPicturesStay, SourcesAndCellsStay, FrontMatterStay, CaptionsAndBreaksStay,
   HiddenContentStay, UnreadContentStay, LinksAndBasesStay, CellsAndRowsStay,
   HeaderAndLinksStay, PicturesAndFacesStay, ListsAndHeaderStay, PartsAndColumnsStay,
   SpacingAndLabelsStay, BlankSpaceStay, CodeAndLinesStay, LevelsAndRowsStay,
   InheritedLinesStay, NoMutationStay DEF Groups

\* Nor does the converter (make_docx_source.py, by what SYNTHETIC_DOCX is).
LEMMA OriginalBodied == Bodied(Original)
  <1>1. IsSeq(TitlePages)
    <2>1. DOMAIN TitlePages = 1..8 BY DEF TitlePages
    <2>2. TitlePages = [i \in 1..8 |-> TitlePages[i]] BY DEF TitlePages
    <2> QED BY <2>1, <2>2, MadeOf
  <1>2. IsSeq(Introduction)
    <2>1. DOMAIN Introduction = 1..6 BY DEF Introduction
    <2>2. Introduction = [i \in 1..6 |-> Introduction[i]] BY DEF Introduction
    <2> QED BY <2>1, <2>2, MadeOf
  <1>3. IsSeq(FiguresAndTable)
    <2>1. DOMAIN FiguresAndTable = 1..11 BY DEF FiguresAndTable
    <2>2. FiguresAndTable = [i \in 1..11 |-> FiguresAndTable[i]] BY DEF FiguresAndTable
    <2> QED BY <2>1, <2>2, MadeOf
  <1>4. IsSeq(Method)
    <2>1. DOMAIN Method = 1..3 BY DEF Method
    <2>2. Method = [i \in 1..3 |-> Method[i]] BY DEF Method
    <2> QED BY <2>1, <2>2, MadeOf
  <1>5. IsSeq(ReferenceList)
    <2>1. DOMAIN ReferenceList = 1..6 BY DEF ReferenceList
    <2>2. ReferenceList = [i \in 1..6 |-> ReferenceList[i]] BY DEF ReferenceList
    <2> QED BY <2>1, <2>2, MadeOf
  <1>6. IsSeq(Appendices)
    <2>1. DOMAIN Appendices = 1..7 BY DEF Appendices
    <2>2. Appendices = [i \in 1..7 |-> Appendices[i]] BY DEF Appendices
    <2> QED BY <2>1, <2>2, MadeOf
  <1>7. IsSeq(Body) BY <1>1, <1>2, <1>3, <1>4, <1>5, <1>6, InARow DEF Body
  <1> QED BY <1>7 DEF Original, Bodied

\* The .docx has a body, however often it is edited and converted again.
LEMMA BodyStays == DocxSpec => []Bodied(doc)
  <1>1. DocxInit => Bodied(doc) BY OriginalBodied DEF DocxInit
  <1>2. ASSUME Bodied(doc), [DocxNext]_docxVars PROVE Bodied(doc)'
    <2>1. CASE Mutate
      <3>1. \E group \in Groups(doc) : \E m \in DOMAIN group : doc' = group[m]
        BY <2>1 DEF Mutate
      <3> QED BY <3>1, <1>2, EditedStay DEF EditsStay
    <2>2. CASE Convert BY <2>2, OriginalBodied DEF Convert
    <2>3. CASE AlterContract \/ WriteFixture \/ UNCHANGED docxVars
      BY <2>3, <1>2 DEF AlterContract, WriteFixture, docxVars
    <2> QED BY <1>2, <2>1, <2>2, <2>3 DEF DocxNext
  <1> QED BY <1>1, <1>2, PTL DEF DocxSpec

\* Whatever edits stand in the .docx, any number of them, one hiding the other
\* included, and whatever --write-citations-apa has made the fixture of: while
\* the checks report nothing, it reads as main.md does (mutation_test, run_checks,
\* write_apa_fixture).
THEOREM GreenStaysFaithful == DocxSpec => [](docxProblems = {} => Faithful(doc, fixture))
  <1>1. ASSUME Bodied(doc), docxProblems = {} PROVE Faithful(doc, fixture)
    <2>1. PICK S : doc.body \in Seq(S) BY <1>1, SequenceOf DEF Bodied
    <2> QED BY <1>1, <2>1, GreenReadsAsMain DEF docxProblems
  <1> QED BY <1>1, BodyStays, PTL
=============================================================================
