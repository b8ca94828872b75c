----------------------------- MODULE FrozenData -----------------------------
(***************************************************************************)
(* What data/ and the vendored apparatus are checked against: the tables of *)
(* data/data.md and the pins of the run's manifest (verify_data_hashes.py), *)
(* the record of the upstream commits (freeze-provenance.json,             *)
(* verify_threshold_freeze.py) and, where a clone is given, the upstream    *)
(* history (_provenance.py).                                               *)
(*                                                                         *)
(* Bytes are a record of the file they are a version of, their size and     *)
(* what some check reads of them; digests and blob identifiers are their   *)
(* bytes, tagged: no two collide.  Where the code ends with a traceback the *)
(* run fails, and so it is a problem here.                                  *)
(***************************************************************************)
EXTENDS SelfTest, Integers, Sequences, FiniteSets, FiniteSetsExt, Functions, TLC

Bytes(file, version, size, says) ==
    [file |-> file, version |-> version, size |-> size, form |-> "object", says |-> says]

sha256(bytes) == <<"sha256", bytes>>
git_blob_sha1(bytes) == <<"blob", bytes>>

PROSPECTIVE_OUTPUTS == {"control-verdict.json", "primary-verdict.json"}
RAW_DIR_ALLOWLIST == {".gitkeep"}
EXPECTED_RAW_ROWS == 4
EXPECTED_RECORD_NAMES == {"completed/bank_records.jsonl", "attempts/attempts.jsonl"}
Outside(path) == path \notin EXPECTED_RECORD_NAMES \cup {"attempts/x.jsonl"}

-----------------------------------------------------------------------------
(* The upstream history: run descends from freeze, side from neither *)

Commits == {"freeze", "side", "run", "later"}
CommitTime == [freeze |-> 1, side |-> 2, run |-> 3, later |-> 4]
Ancestors == [freeze |-> {"freeze"}, side |-> {"side"}, run |-> {"freeze", "run"},
              later |-> {"freeze", "run", "later"}]

Constants(version, margin) ==
    Bytes("constants.py", version, 200, [constants |-> [DELTA |-> margin]])
Loop(version) == Bytes("loop.py", version, 300, <<>>)
Lock == Bytes("uv.lock", "as run", 900, <<>>)
Annotation(version) == Bytes("bank_annotation.jsonl", version, 50, <<>>)
BankRecords(version) == Bytes("bank_records.jsonl", version, 60, <<>>)
Attempts(version) == Bytes("attempts.jsonl", version, 70, <<>>)
Forensic == Bytes("es3-verdict-forensic.json", "as run", 80, <<>>)
VerdictFile(version, margin) ==
    Bytes("cproper-verdict.json", version, 90,
          [thresholds |-> [delta_tv_min |-> margin, seed |-> 7]])
Manifest(annotation, records, lock) ==
    Bytes("cproper-manifest.json", "", 95,
          [pins |-> [annotation |-> sha256(annotation), records |-> sha256(records),
                     lock |-> sha256(lock)],
           run |-> [seed |-> 7]])
RunManifest == Manifest(Annotation("as run"), BankRecords("as run"), Lock)

\* What lies at a path at a commit; paths that do not exist are not listed.
PathsAt ==
    LET frozen == {"constants.py", "loop.py"}
        ran == frozen \cup {"bank_annotation.jsonl", "bank_records.jsonl",
                            "cproper-verdict.json", "cproper-manifest.json"}
    IN  [freeze |-> frozen, side |-> frozen, run |-> ran,
         later |-> ran \cup {"es3-verdict-forensic.json", "attempts.jsonl"}]

FileAt(path, commit) ==
    CASE path = "constants.py" ->
           (CASE commit = "side" -> Constants("reworded", 100)
              [] commit = "later" -> Constants("moved", 150)
              [] OTHER -> Constants("frozen", 100))
      [] path = "loop.py" -> Loop("frozen")
      [] path = "bank_annotation.jsonl" -> Annotation("as run")
      [] path = "bank_records.jsonl" -> BankRecords("as run")
      [] path = "cproper-verdict.json" -> VerdictFile("as run", 100)
      [] path = "cproper-manifest.json" -> RunManifest
      [] path = "es3-verdict-forensic.json" -> Forensic
      [] path = "attempts.jsonl" -> Attempts("shipped")

Upstream == [commit \in Commits |-> [path \in PathsAt[commit] |-> FileAt(path, commit)]]

\* clone is {} where none is given.
check_upstream_blob(clone, commit, path, blob) ==
    LET held == Upstream[commit]
    IN  IF clone = {} \/ (path \in DOMAIN held /\ git_blob_sha1(held[path]) = blob)
        THEN {} ELSE {<<path, "upstream blob">>}

check_upstream_commit_time(clone, commit, time) ==
    IF clone = {} \/ CommitTime[commit] = time THEN {} ELSE {<<commit, "commit time">>}

-----------------------------------------------------------------------------
(* freeze-provenance.json *)

InputAt(name, commit, blob) ==
    [shipped |-> name, path |-> name, commit |-> commit, time |-> CommitTime[commit], blob |-> blob]

\* What it says of a repository when nothing is wrong: the blobs on disk, the
\* commit of the freeze and the commit of the closure.
ProvenanceOf(raw, apparatus, frozenAt, closureAt) ==
    [frozen_inputs |->
       {InputAt(name, IF name = "es3-verdict-forensic.json" THEN "later" ELSE "run",
                git_blob_sha1(raw[name])) : name \in DOMAIN raw \ PROSPECTIVE_OUTPUTS},
     frozen_files |-> {InputAt("constants.py", frozenAt, git_blob_sha1(apparatus["constants.py"]))},
     closure |-> [commit |-> closureAt, count |-> Cardinality(DOMAIN apparatus),
                  files |-> {[path |-> p, blob |-> git_blob_sha1(apparatus[p])] :
                               p \in DOMAIN apparatus}],
     run_commit |-> [commit |-> "run", time |-> CommitTime["run"]],
     threshold_map |-> [delta_tv_min |-> "DELTA"],
     run_parameter_map |-> [seed |-> "seed"]]

-----------------------------------------------------------------------------
(* The tables of data.md *)

RawRow(name, bytes) == [name |-> name, sha256 |-> sha256(bytes), size |-> bytes.size]
RecordRow(name, bytes, commit) ==
    [name |-> name, origin |-> bytes.file, sha256 |-> sha256(bytes), size |-> bytes.size,
     commit |-> commit]

Against(rows, files) ==
    UNION {IF row.name \notin DOMAIN files THEN {<<row.name, "missing">>}
           ELSE (IF files[row.name].size # row.size THEN {<<row.name, "size">>} ELSE {})
                  \cup (IF sha256(files[row.name]) # row.sha256
                        THEN {<<row.name, "SHA-256">>} ELSE {}) : row \in Range(rows)}

NamesOf(rows) == {row.name : row \in Range(rows)}
RowOf(rows, name) == rows[Max({i \in DOMAIN rows : rows[i].name = name})]

-----------------------------------------------------------------------------
(* verify_data_hashes.py *)

check_raw_files(repo, rows) == Against(rows, repo.raw)

check_no_unrecorded_files(repo, rows, prospective) ==
    {<<name, "unrecorded">> :
       name \in DOMAIN repo.raw \ (NamesOf(rows) \cup RAW_DIR_ALLOWLIST \cup prospective)}

check_prospective_outputs(repo, rows, prospective) ==
    {<<name, IF repo.raw[name].form # "object" THEN "not an object" ELSE "copy">> :
       name \in {n \in prospective \cap DOMAIN repo.raw :
                   \/ repo.raw[n].form # "object"
                   \/ sha256(repo.raw[n]) \in {row.sha256 : row \in Range(rows)}}}

\* The section of data.md names exactly what the constant excludes.
check_prospective_section(repo, prospective) ==
    IF repo.section = prospective THEN {} ELSE {<<"data.md", "disagree">>}

check_upstream_pins(repo, rows) ==
    LET pins == repo.raw["cproper-manifest.json"].says.pins
    IN  (IF "bank_annotation.jsonl" \notin NamesOf(rows) THEN {<<"data.md", "no annotation row">>}
         ELSE IF RowOf(rows, "bank_annotation.jsonl").sha256 # pins.annotation
              THEN {<<"bank_annotation.jsonl", "pin">>} ELSE {})
          \cup (IF sha256(repo.lock) # pins.lock THEN {<<"uv.lock", "pin">>} ELSE {})

check_frozen_input_provenance(repo, clone, prospective) ==
    LET inputs == repo.provenance.frozen_inputs
        shipped == DOMAIN repo.raw \ (RAW_DIR_ALLOWLIST \cup prospective)
    IN  (UNION {CASE e.shipped \notin DOMAIN repo.raw -> {<<e.shipped, "missing">>}
                 [] OTHER ->
                      IF git_blob_sha1(repo.raw[e.shipped]) # e.blob THEN {<<e.shipped, "blob">>}
                      ELSE check_upstream_blob(clone, e.commit, e.path, e.blob)
                             \cup check_upstream_commit_time(clone, e.commit, e.time) :
               e \in inputs})
          \cup {<<name, "no provenance">> : name \in shipped \ {e.shipped : e \in inputs}}

\* A duplicate row hides that the names differ.
parse_records_table(rows, expected) ==
    (IF Cardinality(NamesOf(rows)) # Len(rows) THEN {<<"data.md", "duplicate row">>}
     ELSE IF NamesOf(rows) # expected THEN {<<"data.md", "names differ">>} ELSE {})
      \cup {<<name, "outside">> : name \in {n \in NamesOf(rows) : Outside(n)}}

check_record_files(repo, rows) == Against(rows, repo.records)

check_no_unrecorded_records(repo, rows) ==
    {<<name, "unrecorded">> : name \in DOMAIN repo.records \ NamesOf(rows)}

\* The completed run pinned its own record.
check_records_pin(repo, rows) ==
    IF "completed/bank_records.jsonl" \notin NamesOf(rows) THEN {<<"data.md", "no records row">>}
    ELSE IF RowOf(rows, "completed/bank_records.jsonl").sha256
              # repo.raw["cproper-manifest.json"].says.pins.records
    THEN {<<"completed/bank_records.jsonl", "pin">>} ELSE {}

check_records_upstream(repo, rows, clone) ==
    UNION {check_upstream_blob(clone, row.commit, row.origin, git_blob_sha1(repo.records[row.name])) :
             row \in {r \in Range(rows) : r.name \in DOMAIN repo.records}}

verify_data_hashes(repo, clone) ==
    CASE Len(repo.rawRows) # EXPECTED_RAW_ROWS -> {<<"data.md", "raw rows">>}
      [] "cproper-manifest.json" \notin DOMAIN repo.raw -> {<<"cproper-manifest.json", "missing">>}
      [] OTHER ->
           check_raw_files(repo, repo.rawRows)
             \cup check_no_unrecorded_files(repo, repo.rawRows, PROSPECTIVE_OUTPUTS)
             \cup check_prospective_outputs(repo, repo.rawRows, PROSPECTIVE_OUTPUTS)
             \cup check_prospective_section(repo, PROSPECTIVE_OUTPUTS)
             \cup check_upstream_pins(repo, repo.rawRows)
             \cup check_frozen_input_provenance(repo, clone, PROSPECTIVE_OUTPUTS)
             \cup parse_records_table(repo.recordRows, EXPECTED_RECORD_NAMES)
             \cup check_record_files(repo, repo.recordRows)
             \cup check_no_unrecorded_records(repo, repo.recordRows)
             \cup check_records_pin(repo, repo.recordRows)
             \cup check_records_upstream(repo, repo.recordRows, clone)

-----------------------------------------------------------------------------
(* verify_threshold_freeze.py *)

check_blob_identity(repo) ==
    {<<e.shipped, "blob">> : e \in {f \in repo.provenance.frozen_files :
       f.shipped \notin DOMAIN repo.apparatus
       \/ git_blob_sha1(repo.apparatus[f.shipped]) # f.blob}}

check_apparatus_closure(repo, clone) ==
    LET closure == repo.provenance.closure
        wrong == {e \in closure.files : e.path \notin DOMAIN repo.apparatus
                                        \/ git_blob_sha1(repo.apparatus[e.path]) # e.blob}
    IN  (IF Cardinality(closure.files) # closure.count THEN {<<"closure", "count">>} ELSE {})
          \cup {<<e.path, "blob">> : e \in wrong}
          \cup (UNION {check_upstream_blob(clone, closure.commit, e.path, e.blob) :
                         e \in closure.files \ wrong})
          \cup {<<path, "no provenance">> :
                  path \in DOMAIN repo.apparatus \ {e.path : e \in closure.files}}

\* Faulty variant: what an import finds compiled beside the file.
import_module(repo, path) == repo.cached

\* The module is built from the bytes that were compared, not imported.
load_shipped_module(repo, path) == repo.apparatus[path]

check_threshold_values(repo, thresholds) ==
    LET map == repo.provenance.threshold_map
        Value(e, key) == load_shipped_module(repo, e.shipped).says.constants[map[key]]
    IN  (UNION {IF e.shipped \notin DOMAIN repo.apparatus THEN {<<e.shipped, "missing">>}
               ELSE {<<key, "mismatch">> : key \in {k \in DOMAIN map :
                       k \notin DOMAIN thresholds \/ Value(e, k) # thresholds[k]}} :
               e \in repo.provenance.frozen_files})
          \cup (IF DOMAIN thresholds \ DOMAIN map # DOMAIN repo.provenance.run_parameter_map
                THEN {<<"thresholds", "uncovered">>} ELSE {})

check_run_parameters(repo, thresholds) ==
    LET map == repo.provenance.run_parameter_map
        run == repo.raw["cproper-manifest.json"].says.run
    IN  {<<key, "mismatch">> : key \in {k \in DOMAIN map : thresholds[k] # run[map[k]]}}

check_recorded_ordering(repo) ==
    {<<e.shipped, "later than the run">> :
       e \in {f \in repo.provenance.frozen_files : f.time >= repo.provenance.run_commit.time}}

\* Faulty variant: the commit of the freeze need not lead to the run.
blob_and_time(repo, clone) ==
    LET run == repo.provenance.run_commit
    IN  check_upstream_commit_time(clone, run.commit, run.time)
          \cup UNION {check_upstream_blob(clone, e.commit, e.path, e.blob)
                        \cup check_upstream_commit_time(clone, e.commit, e.time) :
                      e \in repo.provenance.frozen_files}

check_upstream(repo, clone) ==
    LET run == repo.provenance.run_commit
    IN  check_upstream_commit_time(clone, run.commit, run.time)
          \cup UNION {check_upstream_blob(clone, e.commit, e.path, e.blob)
                        \cup check_upstream_commit_time(clone, e.commit, e.time)
                        \cup (IF clone = {} \/ e.commit \in Ancestors[run.commit] THEN {}
                              ELSE {<<e.commit, "not an ancestor">>}) :
                      e \in repo.provenance.frozen_files}

verify_threshold_freeze(repo, clone) ==
    IF ~({"cproper-verdict.json", "cproper-manifest.json"} \subseteq DOMAIN repo.raw)
    THEN {<<"raw", "missing">>}
    ELSE LET thresholds == repo.raw["cproper-verdict.json"].says.thresholds
         IN  check_blob_identity(repo)
               \cup check_apparatus_closure(repo, clone)
               \cup check_threshold_values(repo, thresholds)
               \cup check_run_parameters(repo, thresholds)
               \cup check_recorded_ordering(repo)
               \cup check_upstream(repo, clone)

-----------------------------------------------------------------------------
(* The checkers at work: fixtures, edits and runs. *)

CONSTANT MaxDataEdits

ASSUME DataBounds == MaxDataEdits \in Nat

VARIABLES
  repo,       \* the files, the tables of data.md, the provenance
  guard,      \* the case that stands, or ""
  dataEdits   \* how often the author edited

dataVars == <<repo, guard, dataEdits>>

\* Copied from upstream; the records have their places in data/.
ShippedRaw ==
    [name \in {"bank_annotation.jsonl", "cproper-manifest.json", "cproper-verdict.json",
               "es3-verdict-forensic.json"} |-> Upstream["later"][name]]
ShippedRecords ==
    [name \in EXPECTED_RECORD_NAMES |->
       IF name = "completed/bank_records.jsonl" THEN BankRecords("as run") ELSE Attempts("shipped")]
ShippedApparatus == Upstream["freeze"]

RawRowsOf(raw) ==
    [k \in 1..4 |->
       LET name == <<"bank_annotation.jsonl", "cproper-manifest.json", "cproper-verdict.json",
                     "es3-verdict-forensic.json">>[k]
       IN  RawRow(name, raw[name])]
RecordRowsOf(records) ==
    <<RecordRow("completed/bank_records.jsonl", records["completed/bank_records.jsonl"], "run"),
      RecordRow("attempts/attempts.jsonl", records["attempts/attempts.jsonl"], "later")>>

AsShipped ==
    [raw |-> ShippedRaw, records |-> ShippedRecords, lock |-> Lock,
     apparatus |-> ShippedApparatus, cached |-> Constants("frozen", 100),
     rawRows |-> RawRowsOf(ShippedRaw), recordRows |-> RecordRowsOf(ShippedRecords),
     section |-> PROSPECTIVE_OUTPUTS,
     provenance |-> ProvenanceOf(ShippedRaw, ShippedApparatus, "freeze", "run")]

DataInit == repo = AsShipped /\ guard = "" /\ dataEdits = 0

-----------------------------------------------------------------------------
(* The fixtures, written out apart from what they test *)

FixtureBytes(file) == Bytes(file, "fixture", 20, <<>>)
FrozenA == FixtureBytes("frozen-a.json")
FrozenB == FixtureBytes("frozen-b.json")
FixtureRows == <<RawRow("frozen-a.json", FrozenA), RawRow("frozen-b.json", FrozenB)>>
FrozenFiles == ("frozen-a.json" :> FrozenA) @@ ("frozen-b.json" :> FrozenB)
Landed == ("control-verdict.json" :> FixtureBytes("a")) @@ ("primary-verdict.json" :> FixtureBytes("b"))

_fixture_repo(files) ==
    [AsShipped EXCEPT !.raw = files, !.rawRows = FixtureRows,
       !.provenance.frozen_inputs =
          {InputAt(name, "run", git_blob_sha1(FrozenFiles[name])) : name \in DOMAIN FrozenFiles}]

RecordA == Bytes("bank_records.jsonl", "fixture", 36, <<>>)
RecordB == Bytes("partial.jsonl", "fixture", 21, <<>>)
FixtureRecords == ("completed/bank_records.jsonl" :> RecordA) @@ ("attempts/attempts.jsonl" :> RecordB)
FixtureRecordRows == <<RecordRow("completed/bank_records.jsonl", RecordA, "run"),
                       RecordRow("attempts/attempts.jsonl", RecordB, "run")>>

_fixture_records_repo(files, pinned) ==
    [AsShipped EXCEPT !.records = files, !.recordRows = FixtureRecordRows,
       !.raw["cproper-manifest.json"] = Manifest(Annotation("as run"), pinned, Lock)]

\* What a check reports, whether it is to, and for which reason.
Expect(problems, because) == [problems |-> problems, fires |-> because # "", because |-> because]
Clean(problems) == Expect(problems, "")

RawGuards ==
    LET both == PROSPECTIVE_OUTPUTS
        landed == _fixture_repo(FrozenFiles @@ Landed)
        bent == [landed EXCEPT !.raw["frozen-a.json"].version = "bent"]
        stray == _fixture_repo(FrozenFiles @@ Landed @@ ("stray-input.json" :> FixtureBytes("stray")))
        copied == _fixture_repo(FrozenFiles @@ ("control-verdict.json" :> FrozenA))
        listed == _fixture_repo(FrozenFiles @@
                    ("control-verdict.json" :> [FixtureBytes("c") EXCEPT !.form = "list"]))
    IN
    [p1 |-> Clean(check_no_unrecorded_files(landed, FixtureRows, both)),
     m1 |-> Expect(check_no_unrecorded_files(landed, FixtureRows, {}), "unrecorded"),
     p2 |-> Clean(check_raw_files(landed, FixtureRows)),
     p2_altered |-> Expect(check_raw_files(bent, FixtureRows), "SHA-256"),
     p3 |-> Clean(check_prospective_section(bent, both)),
     m2 |-> Expect(check_prospective_section(bent, {"control-verdict.json"}), "disagree"),
     m3 |-> Expect(check_no_unrecorded_files(stray, FixtureRows, both), "unrecorded"),
     m4 |-> Expect(check_prospective_outputs(copied, FixtureRows, both), "copy"),
     m5 |-> Expect(check_prospective_outputs(listed, FixtureRows, both), "not an object"),
     p4 |-> Clean(check_prospective_outputs(landed, FixtureRows, both)),
     p5 |-> Clean(check_frozen_input_provenance(landed, {}, both)),
     m6 |-> Expect(check_frozen_input_provenance(landed, {}, {}), "no provenance")]

RecordGuards ==
    LET names == DOMAIN FixtureRecords
        rows == FixtureRecordRows
        shipped == _fixture_records_repo(FixtureRecords, RecordA)
        bent == [shipped EXCEPT !.records["completed/bank_records.jsonl"].version = "bent"]
        stripped == [bent EXCEPT !.records["attempts/attempts.jsonl"].size = 18]
        stray == [shipped EXCEPT !.records = @ @@ ("attempts/x.jsonl" :> FixtureBytes("x"))]
        foreign == <<RecordRow("raw/x.jsonl", RecordA, "run"), rows[2]>>
        unpinned == _fixture_records_repo(FixtureRecords, FixtureBytes("something else"))
    IN
    [p6 |-> Clean(parse_records_table(rows, names) \cup check_record_files(shipped, rows)
                    \cup check_no_unrecorded_records(shipped, rows)
                    \cup check_records_pin(shipped, rows)),
     m7 |-> Expect(check_record_files(bent, rows), "SHA-256"),
     m8 |-> Expect(check_record_files(stripped, rows), "size"),
     m9 |-> Expect(check_no_unrecorded_records(stray, rows), "unrecorded"),
     m10 |-> Expect(parse_records_table(rows, names \cup {"attempts/x.jsonl"}), "names differ"),
     m13 |-> Expect(parse_records_table(<<rows[1], rows[1]>>, names), "duplicate row"),
     m11 |-> Expect(parse_records_table(foreign, NamesOf(foreign)), "outside"),
     m12 |-> Expect(check_records_pin(unpinned, rows), "pin")]

Guards == RawGuards @@ RecordGuards

GuardCase ==
    /\ guard = "" /\ dataEdits = 0
    /\ guard' \in DOMAIN Guards
    /\ UNCHANGED <<repo, dataEdits>>

-----------------------------------------------------------------------------
(* The author *)

With(files, name, bytes) == [n \in DOMAIN files \cup {name} |-> IF n = name THEN bytes ELSE files[n]]
Less(files, name) == Restrict(files, DOMAIN files \ {name})

\* A file altered, restored, removed, copied or added.
FileEdits(r) ==
    {[r EXCEPT !.raw = With(@, "bank_annotation.jsonl", Annotation(v))] : v \in {"as run", "other"}}
      \cup {[r EXCEPT !.raw = With(@, "cproper-verdict.json", VerdictFile(v, 100))] : v \in {"as run", "other"}}
      \cup {[r EXCEPT !.records = With(@, "completed/bank_records.jsonl", BankRecords(v))] :
              v \in {"as run", "other"}}
      \cup {[r EXCEPT !.records = With(@, "attempts/attempts.jsonl", Attempts("other"))]}
      \cup {[r EXCEPT !.apparatus = With(@, "constants.py", c)] :
              c \in {Constants("frozen", 100), Constants("reworded", 100), Constants("moved", 150)}}
      \cup {[r EXCEPT !.apparatus = With(@, "added.py", Loop("frozen"))],
            [r EXCEPT !.apparatus = Less(@, "loop.py")],
            [r EXCEPT !.raw = Less(@, "es3-verdict-forensic.json")],
            [r EXCEPT !.raw = With(@, "stray.json", Forensic)],
            [r EXCEPT !.lock.version = "newer"]}
      \cup {[r EXCEPT !.raw = With(@, "control-verdict.json", b)] :
              b \in {FixtureBytes("a"), r.raw["cproper-verdict.json"]}}

\* The tables, the section and the pins brought in line with the files.
TableEdits(r) ==
    {[r EXCEPT !.rawRows = [k \in DOMAIN @ |->
        IF @[k].name \in DOMAIN r.raw THEN RawRow(@[k].name, r.raw[@[k].name]) ELSE @[k]]],
     [r EXCEPT !.rawRows[4] = r.rawRows[1]],
     [r EXCEPT !.recordRows = RecordRowsOf(r.records)],
     [r EXCEPT !.section = @ \cup {"stray.json"}],
     [r EXCEPT !.raw = With(@, "cproper-manifest.json",
        Manifest(r.raw["bank_annotation.jsonl"], r.records["completed/bank_records.jsonl"], r.lock))]}

\* The sealed record rewritten to agree with the files, from some commits.
ProvenanceEdits(r) ==
    {[r EXCEPT !.provenance = ProvenanceOf(r.raw, r.apparatus, frozenAt, closureAt)] :
       frozenAt \in Commits, closureAt \in {"side", "run", "later"}}

Edit ==
    /\ guard = "" /\ dataEdits < MaxDataEdits
    /\ repo' \in (FileEdits(repo) \cup TableEdits(repo) \cup ProvenanceEdits(repo)) \ {repo}
    /\ dataEdits' = dataEdits + 1
    /\ UNCHANGED guard

\* Something imports the constants, and they stay compiled as they are now.
Import ==
    /\ guard = "" /\ repo' = [repo EXCEPT !.cached = repo.apparatus["constants.py"]]
    /\ UNCHANGED <<guard, dataEdits>>

DataNext == GuardCase \/ Edit \/ Import

\* What happens to the data while their self-test runs beside the others.
DataSpec == DataInit /\ [][DataNext]_dataVars

-----------------------------------------------------------------------------
(* Properties *)

dataProblems(clone) == verify_data_hashes(repo, clone) \cup verify_threshold_freeze(repo, clone)

\* Every fixture that is to be caught is, for the reason it was built for, and
\* every control is clean (check_guards_fire, check_record_guards_fire).
GuardsFire ==
    tested = "data" /\ guard # "" =>
      LET g == Guards[guard] IN
      IF g.fires THEN g.because \in {p[2] : p \in g.problems} ELSE g.problems = {}

\* Under the record of the provenance that was sealed, what both scripts pass
\* is what was registered: inputs, lockfile, apparatus and the completed run's
\* record, however the tables and the pins were brought in line, and no verdict
\* that was landed is a frozen input.  What was registered passes, whatever was
\* edited, imported and restored on the way (verify_data_hashes.py,
\* verify_threshold_freeze.py:150-160).
PassingDataIsRegistered ==
    tested = "data" /\ repo.provenance = AsShipped.provenance =>
      /\ dataProblems({}) = {} =>
           /\ Restrict(repo.raw, DOMAIN repo.raw \ PROSPECTIVE_OUTPUTS) = ShippedRaw
           /\ Range(Restrict(repo.raw, DOMAIN repo.raw \cap PROSPECTIVE_OUTPUTS))
                \cap Range(ShippedRaw) = {}
           /\ repo.lock = Lock /\ repo.apparatus = ShippedApparatus
           /\ repo.records["completed/bank_records.jsonl"] = BankRecords("as run")
      /\ [repo EXCEPT !.cached = AsShipped.cached] = AsShipped => dataProblems({}) = {}

\* With a clone at hand, even a record rewritten to agree with the files passes
\* only if upstream held them: the thresholds at a commit the run descends
\* from, everything else at some commit (check_upstream, check_upstream_blob).
UpstreamHeldTheBytes ==
    tested = "data" /\ dataProblems({"clone"}) = {} =>
      /\ repo.apparatus["constants.py"] \in
           {Upstream[c]["constants.py"] : c \in Ancestors["run"]}
      /\ \A bytes \in Range(Restrict(repo.raw, DOMAIN repo.raw \ PROSPECTIVE_OUTPUTS))
                        \cup Range(repo.records) \cup Range(repo.apparatus) :
           \E c \in Commits : bytes \in Range(Upstream[c])
=============================================================================
