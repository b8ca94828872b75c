--------------------------- MODULE VerdictLanding ---------------------------
(***************************************************************************)
(* How a prospective arm's verdict gets from the driver's artefact         *)
(* directory to data/raw/ (analysis/scripts/land_prospective_verdict.py):  *)
(* the lander reads the bundle several times, has the sealed               *)
(* verify_seal.py check it, copies the bytes aside and renames them into   *)
(* place.  The driver may run again meanwhile, and the lander may die      *)
(* between any two steps.                                                  *)
(*                                                                         *)
(* There is one directory per arm, which only runs of that arm write to,   *)
(* and one lander at a time.  The bytes of a verdict are a value of        *)
(* Verdict; no run writes the bytes of another.                            *)
(***************************************************************************)
EXTENDS DecisionRules

CONSTANTS
  Verdict,     \* the contents a verdict file may have
  By,          \* verdict -> the arm whose run wrote it
  Objects,     \* those that parse as a JSON object
  Frozen,      \* those that are a frozen input of data/data.md
  Conforming,  \* those that record the sealed thresholds
  NoFile,      \* there is no file
  Torn         \* a file that was not copied to its end

ASSUME LandingAssumption ==
  /\ By \in [Verdict -> Arms]
  /\ Objects \subseteq Verdict /\ Frozen \subseteq Verdict /\ Conforming \subseteq Verdict
  /\ NoFile \notin Verdict /\ Torn \notin Verdict /\ NoFile # Torn

\* run-manifest.json: the arm the driver recorded, and the arm whose sealed
\* specification it matches in every field, if it names this seal.
Manifest == [label : Arms, fits : Arms \cup {"none"}]

VARIABLES
  bundle,   \* arm -> the driver's directory: manifest and run-verdict.json
  written,  \* the verdicts written so far
  raw,      \* arm -> data/raw/<arm>-verdict.json
  staging,  \* arm -> data/raw/<arm>-verdict.json.landing
  lander,   \* the lander: next step, arm, directory, --force, digest
  intact    \* whether the sealed files are the ones the seal lists

vars == <<bundle, written, raw, staging, lander, intact>>

Step == {"idle", "parse", "digest", "label", "seal", "target", "copy",
         "copying", "rehash", "replace"}
Idle == [pc |-> "idle", arm |-> "control", dir |-> "control",
         force |-> FALSE, digest |-> NoFile]

Init ==
  /\ bundle = [d \in Arms |-> [manifest |-> NoFile, verdict |-> NoFile]]
  /\ written = {}
  /\ raw = [a \in Arms |-> NoFile]
  /\ staging = [a \in Arms |-> NoFile]
  /\ lander = Idle
  /\ intact = TRUE

-----------------------------------------------------------------------------
(* The driver, in any order its files may appear; a frozen input may be put in *)
(* the place of a verdict by hand                                          *)

DriverWritesManifest(d) ==
  /\ \E m \in Manifest :
       /\ m.label = d /\ m # bundle[d].manifest
       /\ bundle' = [bundle EXCEPT ![d].manifest = m]
  /\ UNCHANGED <<written, raw, staging, lander, intact>>

DriverWritesVerdict(d) ==
  /\ \E v \in Verdict :
       /\ v \notin written /\ (By[v] = d \/ v \in Frozen)
       /\ written' = written \cup {v}
       /\ bundle' = [bundle EXCEPT ![d].verdict = v]
  /\ UNCHANGED <<raw, staging, lander, intact>>

\* A verdict that fails the seal check is renamed run-verdict.DEVIATION.json.
DriverQuarantines(d) ==
  /\ bundle[d].verdict # NoFile
  /\ bundle' = [bundle EXCEPT ![d].verdict = NoFile]
  /\ UNCHANGED <<written, raw, staging, lander, intact>>

-----------------------------------------------------------------------------
(* verify_seal.py *)

\* The author may change a sealed file, and change it back.
TouchSeal ==
  /\ intact' = ~intact
  /\ UNCHANGED <<bundle, written, raw, staging, lander>>

\* Faulty variant: the thresholds in the verdict are not compared.
SealAcceptsAnyThresholds(a, m, v) ==
  intact /\ m # NoFile /\ m.fits = a /\ v # NoFile

\* --run-manifest, --arm and --run-verdict.
SealAccepts(a, m, v) ==
  /\ intact
  /\ m # NoFile /\ m.fits = a
  /\ v \in Objects /\ v \in Conforming

-----------------------------------------------------------------------------
(* The lander *)

Source == bundle[lander.dir].verdict
SourceManifest == bundle[lander.dir].manifest

\* A check that leaves the files alone: the lander goes on or gives up.
Check(from, holds, to) ==
  /\ lander.pc = from
  /\ lander' = IF holds THEN [lander EXCEPT !.pc = to] ELSE Idle
  /\ UNCHANGED <<bundle, written, raw, staging, intact>>

Begin(a, d, force) ==
  /\ lander.pc = "idle"
  /\ bundle[d].verdict # NoFile /\ bundle[d].manifest # NoFile
  /\ lander' = [pc |-> "parse", arm |-> a, dir |-> d, force |-> force, digest |-> NoFile]
  /\ UNCHANGED <<bundle, written, raw, staging, intact>>

Parse == Check("parse", Source \in Objects, "digest")

Digest ==
  /\ lander.pc = "digest"
  /\ lander' = IF Source \notin Frozen \cup {NoFile}
               THEN [lander EXCEPT !.pc = "label", !.digest = Source] ELSE Idle
  /\ UNCHANGED <<bundle, written, raw, staging, intact>>

Label == Check("label", SourceManifest # NoFile /\ SourceManifest.label = lander.arm, "seal")

SealCheck == Check("seal", SealAccepts(lander.arm, SourceManifest, Source), "target")

\* Faulty variant: an existing verdict is no obstacle.
MayLandAlways == TRUE

MayLand == raw[lander.arm] = NoFile \/ lander.force

Target == Check("target", MayLand, "copy")

CopyBegins ==
  /\ lander.pc = "copy"
  /\ IF Source = NoFile
     THEN lander' = Idle /\ UNCHANGED staging
     ELSE /\ lander' = [lander EXCEPT !.pc = "copying"]
          /\ staging' = [staging EXCEPT ![lander.arm] = Torn]
  /\ UNCHANGED <<bundle, written, raw, intact>>

CopyEnds ==
  /\ lander.pc = "copying"
  /\ lander' = [lander EXCEPT !.pc = "rehash"]
  /\ staging' = [staging EXCEPT ![lander.arm] = IF Source = NoFile THEN Torn ELSE Source]
  /\ UNCHANGED <<bundle, written, raw, intact>>

CopyMatches == staging[lander.arm] = lander.digest

Rehash ==
  /\ lander.pc = "rehash"
  /\ IF CopyMatches
     THEN lander' = [lander EXCEPT !.pc = "replace"] /\ UNCHANGED staging
     ELSE lander' = Idle /\ staging' = [staging EXCEPT ![lander.arm] = NoFile]
  /\ UNCHANGED <<bundle, written, raw, intact>>

Replace ==
  /\ lander.pc = "replace"
  /\ raw' = [raw EXCEPT ![lander.arm] = staging[lander.arm]]
  /\ staging' = [staging EXCEPT ![lander.arm] = NoFile]
  /\ lander' = Idle
  /\ UNCHANGED <<bundle, written, intact>>

LanderDies ==
  /\ lander.pc # "idle"
  /\ lander' = Idle
  /\ UNCHANGED <<bundle, written, raw, staging, intact>>

Next ==
  \/ \E a, d \in Arms, force \in BOOLEAN : Begin(a, d, force)
  \/ Parse \/ Digest \/ Label \/ SealCheck \/ Target
  \/ CopyBegins \/ CopyEnds \/ Rehash \/ Replace \/ LanderDies
  \/ TouchSeal
  \/ \E d \in Arms :
        DriverWritesManifest(d) \/ DriverWritesVerdict(d) \/ DriverQuarantines(d)

Spec == Init /\ [][Next]_vars

-----------------------------------------------------------------------------
(* Properties *)

\* The values of the variables.
TypeOK ==
  /\ bundle \in [Arms -> [manifest : Manifest \cup {NoFile},
                         verdict : written \cup {NoFile}]]
  /\ written \subseteq Verdict
  /\ raw \in [Arms -> Verdict \cup {NoFile}]
  /\ staging \in [Arms -> Verdict \cup {NoFile, Torn}]
  /\ lander \in [pc : Step, arm : Arms, dir : Arms, force : BOOLEAN,
                 digest : Verdict \cup {NoFile}]
  /\ intact \in BOOLEAN

Outputs == INSTANCE VerdictOutputs WITH scratch <- {a \in Arms : staging[a] # NoFile}

\* What stands under the name step 13 reads is a whole verdict that this arm's
\* run produced, that the seal check accepted and that is no frozen input,
\* although the bundle may be rewritten between any two reads of the lander,
\* the lander may die anywhere, and it may be pointed at the other arm's
\* directory (land_prospective_verdict.py:11-34, 262-267).
ImplementsOutputs == Outputs!OutputsSpec

\* A landed verdict is replaced only by a landing that was told to, also when
\* others died half-way (land_prospective_verdict.py:22-24, 253-260).
NoSilentReplacement ==
  [][\A a \in Arms :
       raw[a] # NoFile /\ raw'[a] # raw[a] => lander.force /\ lander.arm = a]_vars
=============================================================================
