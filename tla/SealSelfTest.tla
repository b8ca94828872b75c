---------------------------- MODULE SealSelfTest ----------------------------
(***************************************************************************)
(* The cases of check_seal_scope.py, each from the tree as it was sealed,   *)
(* and beside them what an author with write access may do to the tree over *)
(* several steps, and to a deposit of it: edit, render, rebuild the         *)
(* manifest, publish, replace a deposited file, collect a witness.         *)
(***************************************************************************)
EXTENDS SelfTest, SealWitness, SequencesExt

CONSTANTS MaxChanges,   \* how often the author changes the tree
          MaxClock,     \* how often the deposit changes
          Missing       \* a quantity that is missing, null or of another type

ASSUME SealBounds == MaxChanges \in Nat /\ MaxClock \in Nat

VARIABLES
  tree,        \* the files
  archive,     \* the record of the deposit, outside the repository
  held,        \* what the archive ever held: the digest, and since when
  clock,       \* the archive's
  witness,     \* <<>> or the witness at hand
  submitted,   \* <<>> or the manifest and the verdict of a run
  case,        \* the case that stands, or ""
  changes      \* how often the author changed the tree

sealVars == <<tree, archive, held, clock, witness, submitted, case, changes>>

Time(at) == [at |-> at, text |-> at, zone |-> TRUE]
NoRecord == [created |-> Time(0), updated |-> Time(0), registered |-> Time(0), files |-> <<>>]

SealInit == /\ tree = SealedTree /\ archive = NoRecord /\ held = {} /\ clock = 0
            /\ witness = <<>> /\ submitted = <<>> /\ case = "" /\ changes = 0

-----------------------------------------------------------------------------
(* CASES: the records of the two arms and the branch the evaluator reports *)

Evaluator == INSTANCE DecisionRules WITH Malformed <- Missing

CONTROL_IN_BAND ==
    [verdict |-> "NO_CHANNEL_CONFORMANCE", rho_hat |-> 1000000, power |-> 1000000,
     tv_bar |-> 38065, permutation_reject |-> FALSE, none_rate_max_observed |-> 123333]
PRIMARY_R1 ==
    [verdict |-> "NO_CHANNEL_CONFORMANCE", rho_hat |-> 875000, power |-> 950000,
     tv_bar |-> 52000, permutation_reject |-> FALSE, none_rate_max_observed |-> 200000]

Pair(control, primary, branch) ==
    [records |-> [control |-> control @@ CONTROL_IN_BAND, primary |-> primary @@ PRIMARY_R1],
     branch |-> branch]
Control(changed, branch) == Pair(changed, <<>>, branch)
Primary(changed, branch) == Pair(<<>>, changed, branch)

CASES ==
    [reaches_r1 |-> Pair(<<>>, <<>>, "R1"),
     r5_verdict |-> Control([verdict |-> "CHANNEL_CONFORMANCE_DETECTED"], "R5"),
     r5_rho_below |-> Control([rho_hat |-> 749900], "R5"),
     r5_rho_on_bound |-> Control([rho_hat |-> 750000], "R1"),
     r5_power |-> Control([power |-> 790000], "R5"),
     r5_tolerance |-> Control([tv_bar |-> 80000], "R5"),
     r5_margin |-> Control([tv_bar |-> 150000], "R5"),
     r5_reject |-> Control([permutation_reject |-> TRUE], "R5"),
     r4_support |-> Primary([rho_hat |-> 375000], "R4"),
     r4_none_rate |-> Primary([none_rate_max_observed |-> 600000], "R4"),
     r3_power |-> Primary([power |-> 500000], "R3"),
     r3_on_bound |-> Primary([power |-> 800000], "R1"),
     r2_margin |-> Primary([tv_bar |-> 100000], "R2"),
     r2_reject |-> Primary([permutation_reject |-> TRUE], "R2"),
     r4_over_r3 |-> Primary([none_rate_max_observed |-> 600000, power |-> 500000], "R4"),
     rho_malformed |-> Primary([rho_hat |-> Missing], Evaluator!Died),
     power_malformed |-> Primary([power |-> Missing], Evaluator!Died),
     tv_malformed |-> Primary([tv_bar |-> Missing], Evaluator!Died),
     reject_malformed |-> Primary([permutation_reject |-> Missing], Evaluator!Died)]

-----------------------------------------------------------------------------
(* SEAL_CASES: the tree they leave and the problems they are to be *)

OtherBand(text) == [i \in DOMAIN text |-> IF text[i][1] = "band" THEN <<"band", 85>> ELSE text[i]]
OtherLabel(text) ==
    [i \in DOMAIN text |-> IF text[i][1] = "label" THEN <<"label", "non-replication">> ELSE text[i]]
Bent == <<"sha256", "bent">>
Reseal(t) == [t EXCEPT !["SEAL-MANIFEST.json"] = Resealed(ManifestOf(t))]
Relisted(t, files) == [t EXCEPT !["SEAL-MANIFEST.json"].files = files]
BendProtocol(t) == Relisted(t, [ManifestOf(t).files EXCEPT !["protocol.md"] = Bent])
MainSays(t, text) == [t EXCEPT !["main.md"].says = text]
LessLine(text) == SelectSeq(text, LAMBDA line : line # <<"satisfied when">>)

Outcome(t, problems) == [tree |-> t, expected |-> problems]

SealCases(t) ==
    LET main == t["main.md"].says IN
    [untouched |-> Outcome(t, {}),
     byte_added |-> Outcome([t EXCEPT !["protocol.md"].prose = "\n"], {<<"protocol.md", "sha256">>}),
     band_in_rules |-> Outcome([t EXCEPT !["decision-rules.json"].says.band = 85],
                               {<<"decision-rules.json", "sha256">>}),
     model_in_spec |->
       Outcome([t EXCEPT !["arm-spec.json"].says.arms["primary"].model = "llama3.1:70b"],
               {<<"arm-spec.json", "sha256">>}),
     hash_altered |-> Outcome(BendProtocol(t), {<<"manifest", "self_sha256">>}),
     hash_resealed |-> Outcome(Reseal(BendProtocol(t)), {<<"protocol.md", "sha256">>}),
     path_dropped |->
       Outcome(Reseal(Relisted(t, Restrict(ManifestOf(t).files, Sealed11 \ {"arm-spec.json"}))),
               {<<"manifest", "missing">>}),
     path_added |-> Outcome(Reseal(Relisted(t, ManifestOf(t).files @@ ("extra.json" :> Bent))),
                            {<<"manifest", "not expected">>}),
     band_in_main |-> Outcome(MainSays(t, OtherBand(main)), {<<"main.md", "drifted">>}),
     band_in_both |->
       Outcome([MainSays(t, OtherBand(main)) EXCEPT !["protocol.md"].says = OtherBand(@)],
               {<<"protocol.md", "sha256">>}),
     label_in_main |-> Outcome(MainSays(t, OtherLabel(main)), {<<"main.md", "drifted">>}),
     block_removed |-> Outcome(MainSays(t, SelectSeq(main, LAMBDA line : line # Begin)),
                               {<<"main.md", "one block">>}),
     block_twice |-> Outcome(MainSays(t, main \o OtherBand(render(t))), {<<"main.md", "one block">>}),
     line_deleted |-> Outcome(MainSays(t, LessLine(main)), {<<"main.md", "drifted">>}),
     prose_added |-> Outcome(MainSays(t, Append(main, <<"a sentence">>)), {})]

-----------------------------------------------------------------------------
(* WITNESS_CASES *)

Early == Time(1)
Later == Time(2)
LatestTime == Time(90)
Decoy == [at |-> 45, text |-> 145, zone |-> TRUE]   \* 18:45+10:00
RegisteredAt == Time(10)
NextYear == Time(500)

UpdatedAt(k) == CASE k = 1 -> LatestTime [] k = 2 -> Decoy [] OTHER -> Later

\* _witness_for: one deposited file for each sealed path and of its name.
_witness_for(t) ==
    LET sum(k) == Digest("md5", t[SealedPaths[k]])
    IN  [schema |-> "cds-deposit-witness-1", latest |-> LatestTime, reason |-> "",
         time_sources |->
           <<Source(<<"record", "created">>, Time(0)), Source(<<"record", "updated">>, Time(5))>>
             \o [k \in 1..Len(SealedPaths) |-> Source(<<"files", SealedPaths[k], "created">>, Early)]
             \o [k \in 1..Len(SealedPaths) |->
                   Source(<<"files", SealedPaths[k], "updated">>, UpdatedAt(k))]
             \o <<Source(Registered, RegisteredAt)>>,
         deposit_files |->
           [k \in DOMAIN SealedPaths |->
              [key |-> SealedPaths[k], checksum |-> sum(k), size |-> Size(t[SealedPaths[k]]),
               created |-> Early, updated |-> Later]],
         files |-> [k \in DOMAIN SealedPaths |->
                      [path |-> SealedPaths[k], checksum |-> sum(k), key |-> SealedPaths[k],
                       size |-> Size(t[SealedPaths[k]])]]]

Zeros == <<"md5", "zeros">>

\* A witness with one entry, one listed file or some sources changed.
WithEntry(w, path, change) ==
    [w EXCEPT !.files = [k \in DOMAIN @ |-> IF @[k].path = path THEN change @@ @[k] ELSE @[k]]]
WithListed(w, key, change) ==
    [w EXCEPT !.deposit_files =
       [k \in DOMAIN @ |-> IF @[k].key = key THEN change @@ @[k] ELSE @[k]]]
LessTime(w, source) ==
    [w EXCEPT !.time_sources = SelectSeq(@, LAMBDA s : s.source # source)]
Also(w, source, value) == [w EXCEPT !.time_sources = Append(@, Source(source, value))]
Timed(w, source, value) ==
    [w EXCEPT !.time_sources =
       [k \in DOMAIN @ |-> IF @[k].source = source THEN Source(source, value) ELSE @[k]]]

Judged(w, problems) == [witness |-> w, expected |-> problems]

\* What a review wrote out of nothing and earlier checks let pass.
Fabricated(t) ==
    [schema |-> "cds-deposit-witness-1", latest |-> Time(2), reason |-> "trust me",
     time_sources |-> <<Source(<<"record", "created">>, Time(0)),
                        Source(<<"record", "updated">>, Time(1)),
                        Source(<<"files", "fabricated", "updated">>, Time(2))>>,
     deposit_files |-> <<>>,
     files |-> [k \in DOMAIN SealedPaths |->
                  [path |-> SealedPaths[k], key |-> "", size |-> 0,
                   checksum |-> Digest("sha256", t[SealedPaths[k]])]]]

EntryCases(t) ==
    LET w == _witness_for(t) IN
    [conforming |-> Judged(w, {}),
     checksum_wrong |-> Judged(WithEntry(w, "protocol.md", [checksum |-> Zeros]),
                               {<<"files", "deposit holds">>}),
     file_omitted |-> Judged([w EXCEPT !.files = SelectSeq(@, LAMBDA e : e.path # "arm-spec.json")],
                             {<<"files", "no witness">>}),
     no_such_algorithm |->
       Judged(WithEntry(w, SealedPaths[1], [checksum |-> <<"notahash", "00">>]),
              {<<"files", "algorithm">>}),
     no_entries |->
       Judged([w EXCEPT !.files = <<>>, !.time_sources = <<>>, !.deposit_files = <<>>],
              {<<"files", "none">>, <<"anchor", "no time_sources">>,
               <<"witness", "no deposit_files">>}),
     fabricated |-> Judged(Fabricated(t),
                           {<<"witness", "no deposit_files">>, <<"files", "algorithm">>,
                            <<"anchor", "unknown">>, <<"anchor", "not the latest">>}),
     no_listing |-> Judged([w EXCEPT !.deposit_files = <<>>],
                           {<<"witness", "no deposit_files">>, <<"files", "not held">>,
                            <<"anchor", "unknown">>, <<"anchor", "not the latest">>}),
     other_schema |-> Judged([w EXCEPT !.schema = "something-else-1"], {<<"witness", "schema">>}),
     unpublished_algorithm |->
       Judged(WithEntry(w, "protocol.md", [checksum |-> Digest("sha256", t["protocol.md"])]),
              {<<"files", "algorithm">>}),
     not_in_the_record |-> Judged(WithEntry(w, "protocol.md", [key |-> "not-in-the-record"]),
                                  {<<"files", "not held">>}),
     listed_checksum |-> Judged(WithListed(w, "protocol.md", [checksum |-> Zeros]),
                                {<<"files", "edited apart">>}),
     listed_size |-> Judged(WithListed(w, "protocol.md", [size |-> 1]), {<<"files", "size">>})]

AnchorCases(t) ==
    LET w == _witness_for(t)
        unfiled == [w EXCEPT !.latest = RegisteredAt,
                             !.time_sources = SelectSeq(@, LAMBDA s : s.source[1] # "files")]
    IN
    [anchor_later |-> Judged([w EXCEPT !.latest = NextYear], {<<"anchor", "not the latest">>}),
     no_times |-> Judged([w EXCEPT !.time_sources = <<>>], {<<"anchor", "no time_sources">>}),
     publication_date |-> Judged(Also(w, PublicationDate, NextYear), {<<"anchor", "depositor">>}),
     invented_file |-> Judged(Also(w, <<"files", "fabricated", "updated">>, NextYear),
                              {<<"anchor", "unknown">>}),
     created_omitted |-> Judged(LessTime(w, <<"record", "created">>), {<<"anchor", "omits">>}),
     updated_omitted |-> Judged(LessTime(w, <<"files", "protocol.md", "updated">>),
                                {<<"anchor", "omits">>}),
     no_file_times |-> Judged(unfiled, {<<"anchor", "omits">>}),
     time_twice |-> Judged(Also(w, <<"record", "created">>, Time(0)), {<<"anchor", "twice">>}),
     no_zone |-> Judged(Timed(w, <<"record", "updated">>, [Time(5) EXCEPT !.zone = FALSE]),
                        {<<"anchor", "no zone">>}),
     no_registry |-> Judged(LessTime(w, Registered), {<<"anchor", "no reason">>}),
     blank_reason |-> Judged([LessTime(w, Registered) EXCEPT !.reason = "blank"],
                             {<<"anchor", "no reason">>}),
     stated_reason |-> Judged([LessTime(w, Registered) EXCEPT !.reason = "not registered yet"], {})]

\* Two families of cases.
Beside(a, b) == [c \in DOMAIN a \cup DOMAIN b |-> IF c \in DOMAIN a THEN a[c] ELSE b[c]]

WitnessCases(t) == Beside(EntryCases(t), AnchorCases(t))

-----------------------------------------------------------------------------
(* RUN_MANIFEST_CASES *)

\* CONFORMING_RUN_MANIFEST and CONFORMING_THRESHOLDS, written out on their own.
ConformingRun(seal) ==
    [arm |-> "primary", seal |-> seal,
     fields |-> [model |-> "llama3.1:8b", model_digest |-> "46e0", think |-> FALSE,
                 ollama_version |-> "0.32.12", python |-> "3.11.15", uv_lock_sha256 |-> "9cc7",
                 seed |-> 20260708, m_draws |-> 300, k_contexts |-> 8,
                 context_ids |-> "cproper-ctx-0..7", bank_checksum |-> "5e99"],
     thresholds |-> <<[alpha |-> 50, delta_tv_min |-> 100, h_min_bits |-> 500,
                       k_contexts |-> 8000, k_min |-> 8000, m_draws |-> 300000, m_min |-> 300000,
                       none_rate_max |-> 500, power_min |-> 800, rho_min |-> 500,
                       seed |-> 20260708]>>]

\* What a deviating run records in the place of a field.
Deviating == [model |-> "attacker:999b", model_digest |-> "0000", think |-> TRUE,
              ollama_version |-> "0.33.0", python |-> "3.12.0", uv_lock_sha256 |-> "0000",
              seed |-> 12345, m_draws |-> 30, k_contexts |-> 4,
              context_ids |-> "cproper-ctx-8..15", bank_checksum |-> "0000"]

Deviation(r, fields) ==
    [r EXCEPT !.fields = [f \in DOMAIN @ |-> IF f \in fields THEN Deviating[f] ELSE @[f]]]

Submitted(r, problems) == [run |-> r, expected |-> problems]

FieldCases(t) ==
    [f \in {"model", "model_digest", "think", "ollama_version", "seed", "m_draws", "bank_checksum"} |->
       Submitted(Deviation(ConformingRun(ManifestOf(t).self_sha256), {f}), {<<"run", f>>})]

ThresholdCases(t) ==
    LET r == ConformingRun(ManifestOf(t).self_sha256)
        recorded == r.thresholds[1]
        with(th) == [r EXCEPT !.thresholds = <<th>>]
    IN
    [conforming_run |-> Submitted(r, {}),
     threshold_moved |-> Submitted(with([recorded EXCEPT !.delta_tv_min = 999000]),
                                   {<<"thresholds", "delta_tv_min">>}),
     threshold_dropped |->
       Submitted(with(Restrict(recorded, DOMAIN recorded \ {"power_min"})),
                 {<<"thresholds", "not recorded">>}),
     threshold_added |-> Submitted(with(recorded @@ [extra_gate |-> 1000]),
                                   {<<"thresholds", "not in the seal">>}),
     thresholds_empty |-> Submitted(with(<<>>), {<<"thresholds", "not recorded">>}),
     no_verdict |-> Submitted([r EXCEPT !.thresholds = <<>>], {<<"thresholds", "no verdict">>}),
     other_seal |-> Submitted([r EXCEPT !.seal = Bent], {<<"run", "other seal">>}),
     no_seal |-> Submitted([r EXCEPT !.seal = <<>>], {<<"run", "no seal">>})]

RunCases(t) == Beside(FieldCases(t), ThresholdCases(t))

-----------------------------------------------------------------------------
(* A case: for run_seal_family on a staged copy of the tree as it was sealed *)

Staged == case = "" /\ changes = 0 /\ clock = 0

EvaluatorCase ==
    /\ Staged
    /\ case' \in DOMAIN CASES
    /\ UNCHANGED <<tree, archive, held, clock, witness, submitted, changes>>

SealCase ==
    /\ Staged
    /\ \E c \in DOMAIN SealCases(tree) : case' = c /\ tree' = SealCases(tree)[c].tree
    /\ UNCHANGED <<archive, held, clock, witness, submitted, changes>>

WitnessCase ==
    /\ Staged
    /\ \E c \in DOMAIN WitnessCases(tree) :
         case' = c /\ witness' = <<WitnessCases(tree)[c].witness>>
    /\ UNCHANGED <<tree, archive, held, clock, submitted, changes>>

RunCase ==
    /\ Staged
    /\ \E c \in DOMAIN RunCases(tree) : case' = c /\ submitted' = <<RunCases(tree)[c].run>>
    /\ UNCHANGED <<tree, archive, held, clock, witness, changes>>

-----------------------------------------------------------------------------
(* The author and the archive *)

\* What the list of the checker may lose.
Losable == {{"arm-spec.json"}, {"arm-spec.json", "verify_seal.py"}}

\* Writes the rendering between the markers of a carrier.
RenderInto(t, path) ==
    LET text == t[path].says
        first == CHOOSE i \in DOMAIN text : text[i] = Begin
        last == CHOOSE i \in DOMAIN text : text[i] = End
    IN  [t EXCEPT ![path].says = SubSeq(text, 1, first - 1) \o render(t)
                                   \o SubSeq(text, last + 1, Len(text))]

\* Edits of one file, the rebuilt manifest, and renderings of the rules.
Authored(t) ==
    {[t EXCEPT !["decision-rules.json"].says.band = 85],
     [t EXCEPT !["arm-spec.json"].says.shared.ollama_version = "0.33.0"],
     [t EXCEPT !["protocol.md"].prose = "\n"],
     [t EXCEPT !["render_decision_rules.py"].list = {"the old band"}],
     [t EXCEPT !["apply_decision_rules.py"].imports = @ \cup {"verify_data_hashes.py"}],
     [t EXCEPT !["main.md"].says = OtherBand(@)],
     Restrict(t, DOMAIN t \ {"freeze-provenance.json"}),
     RenderInto(t, "main.md"), RenderInto(t, "protocol.md")}
      \cup {[t EXCEPT !["verify_seal.py"].list = Sealed11 \ lost] : lost \in Losable}
      \cup (IF SEALED_PATHS(t) \subseteq DOMAIN t THEN {build_seal_manifest(t)} ELSE {})

Author ==
    /\ case = "" /\ changes < MaxChanges
    /\ tree' \in Authored(tree) \ {tree}
    /\ changes' = changes + 1
    /\ UNCHANGED <<archive, held, clock, witness, submitted, case>>

\* Two services spell times in two ways: what is later may sort earlier.
Now == [at |-> clock + 1, text |-> 9 - clock, zone |-> TRUE]

Deposited(path, key) ==
    [key |-> key, checksum |-> Digest("md5", tree[path]), size |-> Size(tree[path]),
     created |-> Now, updated |-> Now]

Hold(paths) == held' = held \cup {<<Digest("md5", tree[path]), clock + 1>> : path \in paths}

\* The files are published, one of them twice and some that are not sealed.
PublishRecord ==
    /\ case = "" /\ archive = NoRecord /\ clock < MaxClock
    /\ LET paths == InOrder(SealedPaths \o <<"main.md">>, DOMAIN tree)
       IN  /\ archive' =
                [created |-> Now, updated |-> Now, registered |-> Now,
                 files |-> <<Deposited("protocol.md", "copy of the protocol")>>
                             \o [k \in DOMAIN paths |-> Deposited(paths[k], paths[k])]]
           /\ Hold(Range(paths) \cup {"protocol.md"})
    /\ clock' = clock + 1
    /\ UNCHANGED <<tree, witness, submitted, case, changes>>

\* A deposited file replaced while the record may be edited, whose own times
\* do not move.
ReplaceFile ==
    /\ case = "" /\ clock < MaxClock
    /\ \E k \in DOMAIN archive.files :
         LET key == archive.files[k].key IN
         /\ key \in DOMAIN tree
         /\ archive.files[k].checksum # Digest("md5", tree[key])
         /\ archive' = [archive EXCEPT !.files[k] =
                          [Deposited(key, key) EXCEPT !.created = archive.files[k].created]]
         /\ Hold({key})
    /\ clock' = clock + 1
    /\ UNCHANGED <<tree, witness, submitted, case, changes>>

\* main of the collector, with the registry or with a reason for its absence.
Collect ==
    /\ case = "" /\ Collectable(tree, archive)
    /\ \E reason \in {"", "not consulted"} : witness' = <<collect(tree, archive, reason)>>
    /\ UNCHANGED <<tree, archive, held, clock, submitted, case, changes>>

SealNext == EvaluatorCase \/ SealCase \/ WitnessCase \/ RunCase \/ Author \/ PublishRecord \/ ReplaceFile \/ Collect

\* What happens to the seal while its self-test runs beside the others.
SealSpec == SealInit /\ [][SealNext]_sealVars

-----------------------------------------------------------------------------
(* Properties *)

problems == verify_seal(tree, witness, submitted)

ExpectedOf(c) ==
    CASE c \in DOMAIN SealCases(SealedTree) -> SealCases(SealedTree)[c].expected
      [] c \in DOMAIN WitnessCases(SealedTree) -> WitnessCases(SealedTree)[c].expected
      [] OTHER -> RunCases(SealedTree)[c].expected

\* Every pair of arms reaches the branch it is to reach, every other case is
\* refused for what it changed and for nothing else, and the controls pass
\* (check_seal_scope.py, _judge and main).
CasesNameWhatChanged == tested = "seal" =>
    IF case \in DOMAIN CASES
    THEN Evaluator!Report(Evaluator!Sealed, CASES[case].records).branch = CASES[case].branch
    ELSE case # "" => problems = ExpectedOf(case)

\* While the manifest is the one that was sealed, what passes has every sealed
\* byte and the rule text made from them, whatever else was edited: a renderer
\* that emits what the manuscript says or a checker that expects fewer files,
\* itself not among them (verify_seal.py, render_decision_rules.py:17-21).
GreenMeansSealed ==
    tested = "seal" /\ verify_seal(tree, <<>>, <<>>) = {} /\ ManifestOf(tree) = ManifestOf(SealedTree) =>
      /\ \A path \in Sealed11 : path \in DOMAIN tree /\ tree[path] = SealedTree[path]
      /\ RuleTextOf([SealedTree EXCEPT !["main.md"] = tree["main.md"]], "main.md") = {}

\* A tree that passes with a witness that was collected, not written by hand,
\* holds the bytes the archive held no later than the anchor, whatever was
\* edited, rebuilt, replaced or published since (_check_witness).
DepositHeldTheBytes ==
    tested = "seal" /\ case = "" /\ witness # <<>> /\ problems = {} =>
      \A path \in SEALED_PATHS(tree) :
        \E h \in held : /\ h[1] = Digest("md5", tree[path])
                        /\ h[2] <= witness[1].latest.at

\* Whatever the collector writes the checker accepts, and the anchor is after
\* everything the archive records; it writes for every complete deposit, also
\* of more files than the sealed ones (run_collector_family).
CollectorMeetsChecker ==
    tested = "seal" /\ case = "" /\ verify_seal(tree, <<>>, <<>>) = {} =>
      /\ Collectable(tree, archive) <=>
           \A path \in SEALED_PATHS(tree) :
             Digest("md5", tree[path]) \in {e.checksum : e \in Range(archive.files)}
      /\ Collectable(tree, archive) => \A reason \in {"", "not consulted"} :
           LET w == collect(tree, archive, reason) IN
           /\ verify_seal(tree, <<w>>, <<>>) = {}
           /\ \A e \in Range(archive.files) : e.updated.at <= w.latest.at

\* A run that names the seal as it was published and is accepted, deviates in
\* nothing from the arm specification of that time, in neither arm and with
\* any two fields changed at once, whatever the tree has become since
\* (_check_run_manifest, arm-spec.json not_minor_deviations).
RunKeepsToSeal ==
    tested = "seal" /\ case = "" /\ verify_seal(tree, <<>>, <<>>) = {} =>
      \A arm \in {"control", "primary"} :
        LET seal == ManifestOf(SealedTree).self_sha256
            spec == SealedTree["arm-spec.json"].says
            conforming == [ConformingRun(seal) EXCEPT !.arm = arm, !.fields = Fields(spec, arm)]
        IN  \A f, g \in DOMAIN Deviating :
              verify_seal(tree, <<>>, <<Deviation(conforming, {f, g})>>) # {}
=============================================================================
