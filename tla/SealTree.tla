------------------------------ MODULE SealTree ------------------------------
(***************************************************************************)
(* The sealed files, the manifest that lists their hashes and the two      *)
(* carriers of the generated rule text, as verify_seal.py without options   *)
(* checks them, and build_seal_manifest.py, which writes the manifest.     *)
(*                                                                         *)
(* A tree is a function from the paths that exist to their bytes.  Bytes   *)
(* are a record of what some check reads of them, and of the rest one      *)
(* token ("prose"); a digest is the algorithm, which file it is of, and its *)
(* bytes: no two have the same.  A path is given by its last part.         *)
(***************************************************************************)
EXTENDS Integers, Sequences, FiniteSets, Functions, TLC

\* The paths to seal, in the order sorted() gives them.
SealedPaths ==
    <<"freeze-provenance.json", "_provenance.py", "apply_decision_rules.py",
      "check_seal_scope.py", "collect_zenodo_witness.py",
      "render_decision_rules.py", "verify_seal.py", "repro.sh",
      "arm-spec.json", "decision-rules.json", "protocol.md">>

Sealed11 == Range(SealedPaths)

Scripts == {"_provenance.py", "apply_decision_rules.py", "check_seal_scope.py",
            "collect_zenodo_witness.py", "render_decision_rules.py",
            "verify_seal.py"}

\* analysis/scripts/*.py; one stands for those that are not sealed.
Siblings == Scripts \cup {"verify_data_hashes.py"}

-----------------------------------------------------------------------------
(* The bytes of a file *)

Script(path, imports, list) ==
    [file |-> path, prose |-> "", imports |-> imports, list |-> list]
Document(path, says) == [file |-> path, prose |-> "", says |-> says]

Digest(algorithm, bytes) == <<algorithm, bytes.file, bytes>>
Size(bytes) == IF bytes.prose = "" THEN 1000 ELSE 1001

\* decision-rules.json: the band of R5 and the label of R1.
Rules == [band |-> 75, label |-> "replication"]

\* arm-spec.json.
Shared == [ollama_version |-> "0.32.12", uv_lock_sha256 |-> "9cc7", python |-> "3.11.15",
           seed |-> 20260708, m_draws |-> 300, k_contexts |-> 8,
           context_ids |-> "cproper-ctx-0..7", bank_checksum |-> "5e99"]
PerArm == [control |-> [model |-> "qwen3:8b", model_digest |-> "500a", think |-> FALSE],
           primary |-> [model |-> "llama3.1:8b", model_digest |-> "46e0", think |-> FALSE]]
Thresholds == [alpha |-> 50, delta_tv_min |-> 100, h_min_bits |-> 500, k_contexts |-> 8000,
               k_min |-> 8000, m_draws |-> 300000, m_min |-> 300000, none_rate_max |-> 500,
               power_min |-> 800, rho_min |-> 500, seed |-> 20260708]

SEALED_PATHS(tree) == tree["verify_seal.py"].list

\* The block the renderer of the tree emits for the rules of the tree; one
\* that was taught otherwise emits the old band whatever they say.
Begin == <<"begin">>
End == <<"end">>
render(tree) ==
    LET rules == tree["decision-rules.json"].says
    IN  <<Begin, <<"label", rules.label>>, <<"satisfied when">>,
          <<"band", IF tree["render_decision_rules.py"].list = {} THEN rules.band ELSE 75>>,
          End>>

-----------------------------------------------------------------------------
(* The manifest *)

MANIFEST_SCHEMA == "cds-seal-manifest-1"
ManifestOf(tree) == tree["SEAL-MANIFEST.json"]

\* The self-hash is of everything else the manifest holds.
canonical_self_hash(manifest) ==
    Digest("sha256", [manifest EXCEPT !.self_sha256 = <<>>])

Resealed(manifest) == [manifest EXCEPT !.self_sha256 = canonical_self_hash(manifest)]

\* build_seal_manifest.py: it takes the sealed set from the checker.
build_seal_manifest(tree) ==
    [tree EXCEPT !["SEAL-MANIFEST.json"] = Resealed(
       [file |-> "SEAL-MANIFEST.json", schema |-> MANIFEST_SCHEMA, prose |-> "",
        self_sha256 |-> <<>>,
        files |-> [path \in SEALED_PATHS(tree) |-> Digest("sha256", tree[path])]])]

-----------------------------------------------------------------------------
(* The tree as it was sealed *)

Unrendered ==
    [path \in Sealed11 \cup {"main.md", "SEAL-MANIFEST.json"} |->
       CASE path = "decision-rules.json" -> Document(path, Rules)
         [] path = "arm-spec.json" ->
              Document(path, [shared |-> Shared, arms |-> PerArm, thresholds |-> Thresholds])
         [] path \in {"protocol.md", "main.md"} -> Document(path, <<>>)
         [] path = "verify_seal.py" ->
              Script(path, {"_provenance.py", "render_decision_rules.py"}, Sealed11)
         [] path = "check_seal_scope.py" ->
              Script(path, {"collect_zenodo_witness.py", "verify_seal.py"}, Sealed11)
         [] path = "collect_zenodo_witness.py" -> Script(path, {"verify_seal.py"}, {})
         [] path = "apply_decision_rules.py" -> Script(path, {"_provenance.py"}, {"rules"})
         [] path = "render_decision_rules.py" -> Script(path, {"_provenance.py"}, {})
         [] path = "_provenance.py" -> Script(path, {}, {})
         [] OTHER -> Document(path, "")]

SealedTree ==
    build_seal_manifest(
      [Unrendered EXCEPT !["protocol.md"].says = <<<<"protocol">>>> \o render(Unrendered),
                         !["main.md"].says = <<<<"paper">>>> \o render(Unrendered) \o <<<<"rest">>>>])

-----------------------------------------------------------------------------
(* verify_seal.py *)

Reported(holds, problem) == IF holds THEN {problem} ELSE {}

HashProblems(tree) ==
    {<<path, "not present">> : path \in SEALED_PATHS(tree) \ DOMAIN tree}
      \cup {<<path, "sha256">> : path \in
              {p \in SEALED_PATHS(tree) \cap DOMAIN tree :
                 ManifestOf(tree).files[p] # Digest("sha256", tree[p])}}

\* Every local module that a sealed script imports has to be sealed.
check_import_closure(tree) ==
    {<<path, "imports unsealed">> : path \in
       {p \in SEALED_PATHS(tree) \cap Scripts \cap DOMAIN tree :
          ~((tree[p].imports \cap Siblings) \subseteq SEALED_PATHS(tree))}}

Marks(text, mark) == {i \in DOMAIN text : text[i] = mark}

RuleTextOf(tree, path) ==
    LET text == tree[path].says
        first == Marks(text, Begin)
        last == Marks(text, End)
    IN  CASE Cardinality(first) # 1 \/ Cardinality(last) # 1 -> {<<path, "one block">>}
          [] \E i \in first, j \in last : j < i -> {<<path, "end before start">>}
          [] \E i \in first, j \in last : SubSeq(text, i, j) # render(tree) -> {<<path, "drifted">>}
          [] OTHER -> {}

\* Both carriers hold exactly one block and it is the rendered one.  Faulty
\* variant: the manuscript, which is not sealed, is not looked at.
protocol_text(tree) == RuleTextOf(tree, "protocol.md")

check_rule_text(tree) == RuleTextOf(tree, "main.md") \cup RuleTextOf(tree, "protocol.md")

\* The set the manifest lists against the one the checker declares.
SetProblems(tree) ==
    LET listed == DOMAIN ManifestOf(tree).files
    IN  Reported(~(SEALED_PATHS(tree) \subseteq listed), <<"manifest", "missing">>)
          \cup Reported(~(listed \subseteq SEALED_PATHS(tree)), <<"manifest", "not expected">>)

\* What ends the run before any file is read: the first of these.
ManifestProblems(tree) ==
    CASE ManifestOf(tree).schema # MANIFEST_SCHEMA -> {<<"manifest", "schema">>}
      [] ManifestOf(tree).self_sha256 # canonical_self_hash(ManifestOf(tree)) ->
           {<<"manifest", "self_sha256">>}
      [] OTHER -> SetProblems(tree)

\* The checks that always run, each stage only if the ones before are quiet.
SealProblems(tree) ==
    CASE ManifestProblems(tree) # {} -> ManifestProblems(tree)
      [] HashProblems(tree) # {} -> HashProblems(tree)
      [] OTHER -> check_import_closure(tree) \cup check_rule_text(tree)

\* Stages that end the run leave the options unread.
Ended(tree) == ManifestProblems(tree) # {} \/ HashProblems(tree) # {}
=============================================================================
