---------------------------- MODULE SealWitness -----------------------------
(***************************************************************************)
(* What ties the seal to something outside of it: the witness of a deposit, *)
(* as collect_zenodo_witness.py writes it and verify_seal.py --witness      *)
(* reads it, and the manifest and the thresholds of a run, which            *)
(* --run-manifest and --run-verdict compare with the sealed arm spec.      *)
(*                                                                         *)
(* A time is its instant, its place in the order of its spelling and       *)
(* whether it names a zone: two of them may order either way.  An option   *)
(* that is not given is <<>>.                                              *)
(***************************************************************************)
EXTENDS SealTree

DEPOSIT_ALGORITHM == "md5"
WITNESS_SCHEMA == "cds-deposit-witness-1"
Registered == <<"datacite.registered">>
PublicationDate == <<"publication_date">>

RecordTimes == {<<"record", "created">>, <<"record", "updated">>}
FileTimes(keys) == {<<"files", key, field>> : key \in keys, field \in {"created", "updated"}}

\* The latest instant among some of the time sources, which name a zone; of
\* several, the one that is carried first.
Latest(sources, among) ==
    LET best == CHOOSE i \in among : \A j \in among :
                  \/ sources[j].value.at < sources[i].value.at
                  \/ sources[j].value.at = sources[i].value.at /\ i <= j
    IN  sources[best].value

-----------------------------------------------------------------------------
(* verify_seal.py --witness *)

\* Of two entries of one name the first is listed.
Listing(witness) ==
    [key \in {e.key : e \in Range(witness.deposit_files)} |->
       witness.deposit_files[CHOOSE i \in DOMAIN witness.deposit_files :
         /\ witness.deposit_files[i].key = key
         /\ \A j \in 1..(i - 1) : witness.deposit_files[j].key # key]]

_deposit_listing(witness) ==
    LET held == witness.deposit_files
    IN  Reported(held = <<>>, <<"witness", "no deposit_files">>)
          \cup Reported(\E i, j \in DOMAIN held : i # j /\ held[i].key = held[j].key,
                        <<"witness", "listed twice">>)

\* The anchor is the latest of the times that the listing implies: each of
\* them once and no other, but for the registry's or the reason it is absent.
_check_witness_anchor(witness) ==
    LET sources == witness.time_sources
        implied == RecordTimes \cup FileTimes(DOMAIN Listing(witness))
        carried == {s.source : s \in Range(sources)}
        known(s) == s.source \in implied \cup {Registered}
        parsed == {i \in DOMAIN sources : known(sources[i]) /\ sources[i].value.zone}
        Twice(i, j) == i # j /\ sources[i].source = sources[j].source
    IN  IF sources = <<>> THEN {<<"anchor", "no time_sources">>}
        ELSE Reported(PublicationDate \in carried, <<"anchor", "depositor">>)
               \cup Reported(\E s \in Range(sources) : ~known(s) /\ s.source # PublicationDate,
                             <<"anchor", "unknown">>)
               \cup Reported(\E s \in Range(sources) : known(s) /\ ~s.value.zone,
                             <<"anchor", "no zone">>)
               \cup Reported(\E i, j \in DOMAIN sources : Twice(i, j), <<"anchor", "twice">>)
               \cup Reported(~(implied \subseteq carried), <<"anchor", "omits">>)
               \cup Reported(Registered \notin carried /\ witness.reason \in {"", "blank"},
                             <<"anchor", "no reason">>)
               \cup Reported(parsed # {} /\ witness.latest # Latest(sources, parsed),
                             <<"anchor", "not the latest">>)

\* How far an entry gets; one that gets to the end claims its deposited file.
\* Faulty variant: the local file is not read.
EntryUnread(tree, witness, entry) ==
    CASE entry.path \notin DOMAIN ManifestOf(tree).files -> "not sealed"
      [] entry.checksum[1] # DEPOSIT_ALGORITHM -> "algorithm"
      [] entry.key \notin DOMAIN Listing(witness) -> "not held"
      [] OTHER -> "claims"

EntryProblems(tree, witness, entry) ==
    CASE entry.path \notin DOMAIN ManifestOf(tree).files -> "not sealed"
      [] entry.checksum[1] # DEPOSIT_ALGORITHM -> "algorithm"
      [] entry.path \notin DOMAIN tree -> "not present"
      [] entry.checksum # Digest(DEPOSIT_ALGORITHM, tree[entry.path]) -> "deposit holds"
      [] entry.key \notin DOMAIN Listing(witness) -> "not held"
      [] OTHER -> "claims"

\* Every sealed file has an entry, which names a deposited file of its own and
\* says of it what the listing says.
_check_witness_files(tree, witness) ==
    LET entries == witness.files
        gets == [i \in DOMAIN entries |-> EntryProblems(tree, witness, entries[i])]
        taken(i) == \E j \in 1..(i - 1) : gets[j] = "claims" /\ entries[j].key = entries[i].key
        claims == {i \in DOMAIN entries : gets[i] = "claims" /\ ~taken(i)}
        listed(i) == Listing(witness)[entries[i].key]
    IN  IF entries = <<>> THEN {<<"files", "none">>}
        ELSE {<<"files", gets[i]>> : i \in {i \in DOMAIN entries : gets[i] # "claims"}}
               \cup Reported(\E i \in DOMAIN entries : gets[i] = "claims" /\ taken(i),
                             <<"files", "claimed twice">>)
               \cup Reported(\E i \in claims : listed(i).checksum # entries[i].checksum,
                             <<"files", "edited apart">>)
               \cup Reported(\E i \in claims : listed(i).size # Size(tree[entries[i].path]),
                             <<"files", "size">>)
               \cup Reported(DOMAIN ManifestOf(tree).files # {e.path : e \in Range(entries)}
                               \cap DOMAIN ManifestOf(tree).files,
                             <<"files", "no witness">>)

_check_witness(tree, witness) ==
    IF witness.schema # WITNESS_SCHEMA THEN {<<"witness", "schema">>}
    ELSE _deposit_listing(witness) \cup _check_witness_files(tree, witness)
           \cup _check_witness_anchor(witness)

-----------------------------------------------------------------------------
(* verify_seal.py --run-manifest --arm --run-verdict *)

\* The fields that have to agree with the arm spec of the tree.  Faulty
\* variant: the model and its digest are not among them.
FieldsOfShared(spec, arm) == spec.shared

Fields(spec, arm) ==
    LET own == spec.arms[arm]
    IN  [f \in DOMAIN own \cup DOMAIN spec.shared |->
           IF f \in DOMAIN own THEN own[f] ELSE spec.shared[f]]

_check_thresholds(spec, run) ==
    IF run.thresholds = <<>> THEN {<<"thresholds", "no verdict">>}
    ELSE LET recorded == run.thresholds[1]
             sealed == spec.thresholds
         IN  {<<"thresholds", "not recorded">> : k \in DOMAIN sealed \ DOMAIN recorded}
               \cup {<<"thresholds", "not in the seal">> : k \in DOMAIN recorded \ DOMAIN sealed}
               \cup {<<"thresholds", k>> : k \in {k \in DOMAIN sealed \cap DOMAIN recorded :
                                                     recorded[k] # sealed[k]}}

\* A run names this seal and deviates from the spec of its arm in nothing.
_check_run_manifest(tree, run) ==
    LET spec == tree["arm-spec.json"].says
        want == Fields(spec, run.arm)
    IN  Reported(run.seal = <<>>, <<"run", "no seal">>)
          \cup Reported(run.seal \notin {<<>>, ManifestOf(tree).self_sha256}, <<"run", "other seal">>)
          \cup {<<"run", "no field">> : f \in DOMAIN want \ DOMAIN run.fields}
          \cup {<<"run", f>> : f \in {f \in DOMAIN want \cap DOMAIN run.fields :
                                         run.fields[f] # want[f]}}
          \cup _check_thresholds(spec, run)

verify_seal(tree, witness, run) ==
    SealProblems(tree)
      \cup (IF Ended(tree) THEN {}
            ELSE (UNION {_check_witness(tree, w) : w \in Range(witness)})
                   \cup UNION {IF r.arm = "" THEN {<<"run", "no arm">>}
                               ELSE _check_run_manifest(tree, r) : r \in Range(run)})

-----------------------------------------------------------------------------
(* collect_zenodo_witness.py *)

\* Those of some paths that are in a set, in their order.
InOrder(paths, some) ==
    LET places == {i \in DOMAIN paths : paths[i] \in some}
    IN  [k \in 1..Cardinality(places) |->
           paths[CHOOSE i \in places : Cardinality({j \in places : j <= i}) = k]]

\* The first deposited file of the same digest.
Twin(tree, deposited, path) ==
    CHOOSE i \in DOMAIN deposited :
      /\ deposited[i].checksum = Digest(DEPOSIT_ALGORITHM, tree[path])
      /\ \A j \in 1..(i - 1) : deposited[j].checksum # deposited[i].checksum

HasTwin(tree, deposited, path) ==
    Digest(DEPOSIT_ALGORITHM, tree[path]) \in {e.checksum : e \in Range(deposited)}

match_by_content(tree, deposited) ==
    LET paths == InOrder(SealedPaths, SEALED_PATHS(tree))
    IN  [k \in DOMAIN paths |->
          LET twin == deposited[Twin(tree, deposited, paths[k])]
          IN  [path |-> paths[k], key |-> twin.key, size |-> twin.size,
               checksum |-> Digest(DEPOSIT_ALGORITHM, tree[paths[k]])]]

Source(name, value) == [source |-> name, value |-> value]

\* Faulty variant: the times of those files only that a sealed file names.
MatchedTimes(archive, entries) ==
    <<Source(<<"record", "created">>, archive.created), Source(<<"record", "updated">>, archive.updated)>>
      \o [k \in 1..(2 * Len(entries)) |->
           LET name == entries[(k + 1) \div 2].key
               file == CHOOSE e \in Range(archive.files) : e.key = name
           IN  IF k % 2 = 1 THEN Source(<<"files", file.key, "created">>, file.created)
               ELSE Source(<<"files", file.key, "updated">>, file.updated)]

time_sources(archive, entries) ==
    <<Source(<<"record", "created">>, archive.created), Source(<<"record", "updated">>, archive.updated)>>
      \o [k \in 1..(2 * Len(archive.files)) |->
           LET file == archive.files[(k + 1) \div 2]
           IN  IF k % 2 = 1 THEN Source(<<"files", file.key, "created">>, file.created)
               ELSE Source(<<"files", file.key, "updated">>, file.updated)]

\* Nothing is written unless every sealed file is here and has a twin of its
\* size, and all that is listed is in the form the checker reads.
Collectable(tree, archive) ==
    /\ archive.files # <<>>
    /\ \A file \in Range(archive.files) :
         /\ file.checksum[1] = DEPOSIT_ALGORITHM
         /\ file.created.zone /\ file.updated.zone
    /\ \A path \in SEALED_PATHS(tree) :
         /\ path \in DOMAIN tree
         /\ HasTwin(tree, archive.files, path)
         /\ archive.files[Twin(tree, archive.files, path)].size = Size(tree[path])

\* The witness.  The registry is asked for its time, or a reason given instead.
collect(tree, archive, reason) ==
    LET entries == match_by_content(tree, archive.files)
        sources == time_sources(archive, entries)
                     \o (IF reason = "" THEN <<Source(Registered, archive.registered)>> ELSE <<>>)
    IN  [schema |-> WITNESS_SCHEMA, latest |-> Latest(sources, DOMAIN sources), time_sources |-> sources,
         deposit_files |-> archive.files, files |-> entries, reason |-> reason]
=============================================================================
