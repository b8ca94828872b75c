--------------------------- MODULE VerdictProofs ---------------------------
(***************************************************************************)
(* The lander implements VerdictOutputs, whatever the verdicts, and the    *)
(* driver's runs, and wherever it dies.                                    *)
(*                                                                         *)
(* Why: a driver never writes old bytes again, so if the source still has  *)
(* the digest taken first, it has not changed since, and what the seal     *)
(* check read is what is copied.                                           *)
(***************************************************************************)
EXTENDS VerdictLanding, TLAPS

LandableBy(a) == {v \in (Objects \cap Conforming) \ Frozen : By[v] = a}

Digested == {"label", "seal", "target", "copy", "copying", "rehash", "replace"}
Labelled == Digested \ {"label"}

\* A directory holds what its arm's runs wrote, or frozen inputs.
ByDirectory ==
  \A d \in Arms :
    /\ bundle[d].manifest # NoFile => bundle[d].manifest.label = d
    /\ bundle[d].verdict \notin Frozen \cup {NoFile} => By[bundle[d].verdict] = d

\* What the lander knows at each of its steps.
Knows ==
  /\ lander.pc \in Digested => lander.digest \in written \ Frozen
  /\ lander.pc \in Labelled => lander.dir = lander.arm
  /\ lander.pc \in {"target", "copy", "copying"} /\ Source = lander.digest =>
       lander.digest \in LandableBy(lander.arm)
  /\ lander.pc = "rehash" /\ staging[lander.arm] = lander.digest =>
       lander.digest \in LandableBy(lander.arm)
  /\ lander.pc = "replace" => staging[lander.arm] \in LandableBy(lander.arm)

Inv == TypeOK /\ ByDirectory /\ Knows

\* Before any run and landing there is nothing the invariant could miss.
LEMMA InitInv == Init => Inv
BY LandingAssumption DEF Init, Inv, TypeOK, ByDirectory, Knows, Idle, Step, Arms, Digested, Labelled

\* A driver's step.
LEMMA DriveKeeps ==
  ASSUME Inv, NEW d \in Arms,
         DriverWritesManifest(d) \/ DriverWritesVerdict(d) \/ DriverQuarantines(d)
  PROVE  Inv'
<1> USE LandingAssumption DEF Source, LandableBy
<1>1. CASE DriverWritesManifest(d)
  <2>1. TypeOK' BY <1>1 DEF Inv, TypeOK, DriverWritesManifest, Manifest
  <2>2. ByDirectory' BY <1>1 DEF Inv, TypeOK, ByDirectory, DriverWritesManifest, Manifest
  <2>3. Knows' BY <1>1 DEF Inv, TypeOK, Knows, DriverWritesManifest, Digested, Labelled
  <2> QED BY <2>1, <2>2, <2>3 DEF Inv
<1>2. CASE DriverWritesVerdict(d)
  <2>1. TypeOK' BY <1>2 DEF Inv, TypeOK, DriverWritesVerdict
  <2>2. ByDirectory' BY <1>2 DEF Inv, TypeOK, ByDirectory, DriverWritesVerdict
  <2>3. Knows' BY <1>2 DEF Inv, TypeOK, Knows, DriverWritesVerdict, Digested, Labelled
  <2> QED BY <2>1, <2>2, <2>3 DEF Inv
<1>3. CASE DriverQuarantines(d)
  <2>1. TypeOK' BY <1>3 DEF Inv, TypeOK, DriverQuarantines
  <2>2. ByDirectory' BY <1>3 DEF Inv, TypeOK, ByDirectory, DriverQuarantines
  <2>3. Knows' BY <1>3 DEF Inv, TypeOK, Knows, DriverQuarantines, Digested, Labelled
  <2> QED BY <2>1, <2>2, <2>3 DEF Inv
<1> QED BY <1>1, <1>2, <1>3

\* A step of the lander that only reads.
LEMMA ReadKeeps ==
  ASSUME Inv,
         \/ \E a, d \in Arms, force \in BOOLEAN : Begin(a, d, force)
         \/ Parse \/ Digest \/ Label \/ SealCheck \/ Target \/ LanderDies
  PROVE  Inv'
<1> USE LandingAssumption DEF Source, SourceManifest, LandableBy, Idle, Check, Digested, Labelled
<1>1. CASE \E a, d \in Arms, force \in BOOLEAN : Begin(a, d, force)
  BY <1>1 DEF Inv, TypeOK, ByDirectory, Knows, Begin, Step
<1>2. CASE Parse BY <1>2 DEF Inv, TypeOK, ByDirectory, Knows, Parse, Step, Arms
<1>3. CASE Digest BY <1>3 DEF Inv, TypeOK, ByDirectory, Knows, Digest, Step, Arms
<1>4. CASE Label BY <1>4 DEF Inv, TypeOK, ByDirectory, Knows, Label, Step, Arms
<1>5. CASE SealCheck BY <1>5 DEF Inv, TypeOK, ByDirectory, Knows, SealCheck, SealAccepts, Step, Arms
<1>6. CASE Target BY <1>6 DEF Inv, TypeOK, ByDirectory, Knows, Target, Step, Arms
<1>7. CASE LanderDies BY <1>7 DEF Inv, TypeOK, ByDirectory, Knows, LanderDies, Step, Arms
<1> QED BY <1>1, <1>2, <1>3, <1>4, <1>5, <1>6, <1>7

\* A step of the lander that writes.
LEMMA WriteKeeps ==
  ASSUME Inv, CopyBegins \/ CopyEnds \/ Rehash \/ Replace
  PROVE  Inv'
<1> USE LandingAssumption DEF Source, LandableBy, Idle, Digested, Labelled
<1>1. CASE CopyBegins
  <2>1. TypeOK'
    <3>1. staging' \in [Arms -> Verdict \cup {NoFile, Torn}] BY <1>1 DEF Inv, TypeOK, CopyBegins
    <3>2. CASE lander' = Idle BY <1>1, <3>1, <3>2 DEF Inv, TypeOK, CopyBegins, Step, Arms
    <3>3. CASE lander' = [lander EXCEPT !.pc = "copying"]
      BY <1>1, <3>1, <3>3 DEF Inv, TypeOK, CopyBegins, Step
    <3> QED BY <1>1, <3>2, <3>3 DEF CopyBegins
  <2>2. ByDirectory' BY <1>1 DEF Inv, ByDirectory, CopyBegins
  <2>3. CASE Source = NoFile BY <1>1, <2>1, <2>2, <2>3 DEF Inv, Knows, CopyBegins
  <2>4. CASE Source # NoFile
    <3>1. lander'.arm = lander.arm /\ lander'.dir = lander.dir
          /\ lander'.digest = lander.digest /\ lander'.pc = "copying"
      BY <1>1, <2>4 DEF Inv, TypeOK, CopyBegins
    <3>2. Knows' BY <1>1, <3>1 DEF Inv, Knows, CopyBegins
    <3> QED BY <2>1, <2>2, <3>2 DEF Inv
  <2> QED BY <2>3, <2>4
<1>2. CASE CopyEnds
  <2>1. TypeOK' BY <1>2 DEF Inv, TypeOK, CopyEnds, Step
  <2>2. ByDirectory' BY <1>2 DEF Inv, ByDirectory, CopyEnds
  <2>3. Knows'
    <3>1. lander' = [lander EXCEPT !.pc = "rehash"] /\ lander'.arm = lander.arm
          /\ lander'.dir = lander.dir /\ lander'.digest = lander.digest /\ lander'.pc = "rehash"
      BY <1>2 DEF Inv, TypeOK, CopyEnds
    <3>2. staging'[lander.arm] = IF Source = NoFile THEN Torn ELSE Source
      BY <1>2 DEF Inv, TypeOK, CopyEnds
    <3> QED BY <1>2, <3>1, <3>2 DEF Inv, TypeOK, Knows, CopyEnds
  <2> QED BY <2>1, <2>2, <2>3 DEF Inv
<1>3. CASE Rehash
  <2>1. TypeOK'
    <3>1. staging' \in [Arms -> Verdict \cup {NoFile, Torn}] BY <1>3 DEF Inv, TypeOK, Rehash
    <3>2. CASE lander' = Idle BY <1>3, <3>1, <3>2 DEF Inv, TypeOK, Rehash, Step, Arms
    <3>3. CASE lander' = [lander EXCEPT !.pc = "replace"]
      BY <1>3, <3>1, <3>3 DEF Inv, TypeOK, Rehash, Step
    <3> QED BY <1>3, <3>2, <3>3 DEF Rehash
  <2>2. ByDirectory' BY <1>3 DEF Inv, ByDirectory, Rehash
  <2>3. CASE ~CopyMatches BY <1>3, <2>1, <2>2, <2>3 DEF Inv, Knows, Rehash
  <2>4. CASE CopyMatches
    <3>1. lander'.arm = lander.arm /\ lander'.dir = lander.dir
          /\ lander'.digest = lander.digest /\ lander'.pc = "replace"
      BY <1>3, <2>4 DEF Inv, TypeOK, Rehash
    <3>2. Knows' BY <1>3, <2>4, <3>1 DEF Inv, Knows, Rehash, CopyMatches
    <3> QED BY <2>1, <2>2, <3>2 DEF Inv
  <2> QED BY <2>3, <2>4
<1>4. CASE Replace
  <2>1. TypeOK' BY <1>4 DEF Inv, TypeOK, Knows, Replace, Step, Arms
  <2>2. ByDirectory' BY <1>4 DEF Inv, ByDirectory, Replace
  <2>3. Knows' BY <1>4 DEF Inv, Knows, Replace
  <2> QED BY <2>1, <2>2, <2>3 DEF Inv
<1> QED BY <1>1, <1>2, <1>3, <1>4

\* Every step of a landing, and every crash, keeps the invariant.
LEMMA NextKeeps == ASSUME Inv, [Next]_vars PROVE Inv'
<1>1. CASE UNCHANGED vars
  BY <1>1 DEF Inv, TypeOK, ByDirectory, Knows, Source, vars
<1>2. CASE TouchSeal
  BY <1>2 DEF Inv, TypeOK, ByDirectory, Knows, Source, TouchSeal
<1> QED BY <1>1, <1>2, DriveKeeps, ReadKeeps, WriteKeeps DEF Next

\* The invariant holds, and with it TypeOK.
THEOREM TypesHold == Spec => []TypeOK
<1>1. Init => Inv BY InitInv
<1>2. Inv /\ [Next]_vars => Inv' BY NextKeeps
<1>3. Inv => TypeOK BY DEF Inv
<1> QED BY <1>1, <1>2, <1>3, PTL DEF Spec

\* The scratch files the abstract specification sees.
Scratch == {a \in Arms : staging[a] # NoFile}

\* Every step is one of the abstract outputs, or none.
LEMMA StepImplements ==
  ASSUME Inv, [Next]_vars PROVE [Outputs!OutputsNext]_<<raw, Scratch>>
<1> USE DEF Outputs!outputs
<1> PICK arm \in Arms : arm = lander.arm
  BY DEF Inv, TypeOK
<1>0. NoFile # Torn /\ NoFile \notin Verdict
  BY LandingAssumption
<1>1. CASE CopyBegins
  <2>1. Scratch' = Scratch \cup {arm} \/ Scratch' = Scratch
    BY <1>0, <1>1 DEF CopyBegins, Scratch, Inv, TypeOK
  <2> QED BY <1>0, <1>1, <2>1 DEF CopyBegins, Outputs!OutputsNext, Outputs!Prepare, Outputs!Arms, Arms, Scratch
<1>2. CASE CopyEnds
  <2>1. Scratch' = Scratch \cup {arm}
    BY <1>0, <1>2 DEF CopyEnds, Scratch, Source, Inv, TypeOK
  <2> QED BY <1>0, <1>2, <2>1 DEF CopyEnds, Outputs!OutputsNext, Outputs!Prepare, Outputs!Arms, Arms, Scratch
<1>3. CASE Rehash
  <2>1. Scratch' = Scratch \ {arm} \/ Scratch' = Scratch
    BY <1>0, <1>3 DEF Rehash, Scratch, Inv, TypeOK
  <2> QED BY <1>0, <1>3, <2>1 DEF Rehash, Outputs!OutputsNext, Outputs!Discard, Outputs!Arms, Arms, Scratch
<1>4. CASE Replace
  <2>1. staging[arm] \in LandableBy(arm)
    BY <1>4 DEF Replace, Inv, Knows
  <2>2. arm \in Scratch /\ Scratch' = Scratch \ {arm}
    BY <1>0, <1>4, <2>1, LandingAssumption DEF Replace, Scratch, LandableBy, Inv, TypeOK
  <2>3. Outputs!Publish(arm)
    BY <1>0, <1>4, <2>1, <2>2
       DEF Replace, Outputs!Publish, Outputs!Landable, LandableBy, Scratch, Inv, TypeOK
  <2> QED BY <2>3 DEF Outputs!OutputsNext, Outputs!Arms, Arms
<1>5. CASE UNCHANGED <<raw, staging>>
  BY <1>5 DEF Scratch
<1> QED
  BY <1>1, <1>2, <1>3, <1>4, <1>5 DEF Next, vars, Begin, Parse, Digest, Label, SealCheck,
     Target, Check, LanderDies, TouchSeal, DriverWritesManifest, DriverWritesVerdict,
     DriverQuarantines

\* The lander implements VerdictOutputs: in data/raw/ there is never anything
\* but whole verdicts of their arm that the seal check accepted, for any number
\* of runs, contents and interrupted landings.
THEOREM LanderImplements == Spec => ImplementsOutputs
<1>1. Init => Outputs!OutputsInit
  BY DEF Init, Outputs!OutputsInit, Outputs!Arms, Arms
<1>2. Init => Inv BY InitInv
<1>3. Inv /\ [Next]_vars => Inv' BY NextKeeps
<1>4. Inv /\ [Next]_vars => [Outputs!OutputsNext]_(Outputs!outputs)
  BY StepImplements DEF Outputs!outputs, Scratch
<1>5. Spec => Outputs!OutputsInit /\ [][Outputs!OutputsNext]_(Outputs!outputs)
  BY <1>1, <1>2, <1>3, <1>4, PTL DEF Spec
<1> QED BY <1>5 DEF ImplementsOutputs, Outputs!OutputsSpec

\* A landing past its check of the target was told to replace what is there.
Allowed ==
  lander.pc \in {"copy", "copying", "rehash", "replace"} =>
    lander.force \/ raw[lander.arm] = NoFile

\* From the target check to its end, a landing replaces nothing it was not told to.
LEMMA AllowedKept == ASSUME Inv, Allowed, [Next]_vars PROVE Allowed'
<1>1. CASE UNCHANGED <<raw, lander>> BY <1>1 DEF Allowed
<1>2. CASE Target BY <1>2 DEF Target, Check, MayLand, Idle, Allowed, Inv, TypeOK
<1>3. CASE CopyBegins BY <1>3 DEF CopyBegins, Idle, Allowed, Inv, TypeOK
<1>4. CASE CopyEnds BY <1>4 DEF CopyEnds, Allowed, Inv, TypeOK
<1>5. CASE Rehash BY <1>5 DEF Rehash, Idle, Allowed, Inv, TypeOK
<1>6. CASE lander'.pc \notin {"copy", "copying", "rehash", "replace"} BY <1>6 DEF Allowed
<1>7. CASE Parse \/ Digest \/ Label \/ SealCheck \/ Replace \/ LanderDies
  <2>1. lander' = Idle \/ lander'.pc \in {"digest", "label", "seal", "target"}
    BY <1>7 DEF Parse, Digest, Label, SealCheck, Replace, LanderDies, Check, Inv, TypeOK
  <2> QED BY <1>6, <2>1 DEF Idle
<1>8. CASE \E a, d \in Arms, force \in BOOLEAN : Begin(a, d, force)
  BY <1>6, <1>8 DEF Begin
<1> QED
  BY <1>1, <1>2, <1>3, <1>4, <1>5, <1>7, <1>8 DEF Next, vars, TouchSeal,
     DriverWritesManifest, DriverWritesVerdict, DriverQuarantines

\* No step replaces a verdict that nobody asked to replace.
LEMMA StepNotSilent ==
  ASSUME Inv, Allowed, [Next]_vars
  PROVE  [\A a \in Arms :
            raw[a] # NoFile /\ raw'[a] # raw[a] => lander.force /\ lander.arm = a]_vars
<1> SUFFICES ASSUME NEW a \in Arms, raw[a] # NoFile, raw'[a] # raw[a]
             PROVE  lander.force /\ lander.arm = a
  OBVIOUS
<1>1. Replace
  BY DEF Next, vars, Begin, Parse, Digest, Label, SealCheck, Target, Check, LanderDies,
     TouchSeal, DriverWritesManifest, DriverWritesVerdict, DriverQuarantines, CopyBegins,
     CopyEnds, Rehash
<1> QED BY <1>1 DEF Replace, Inv, TypeOK, Allowed

\* No landing, interrupted ones included, replaces a verdict without --force.
THEOREM ReplacedOnRequest == Spec => NoSilentReplacement
<1>1. Init => Inv /\ Allowed BY InitInv DEF Init, Allowed, Idle
<1>2. Inv /\ Allowed /\ [Next]_vars => (Inv /\ Allowed)' BY NextKeeps, AllowedKept
<1>3. Inv /\ Allowed /\ [Next]_vars =>
        [\A a \in Arms :
           raw[a] # NoFile /\ raw'[a] # raw[a] => lander.force /\ lander.arm = a]_vars
  BY StepNotSilent
<1> QED BY <1>1, <1>2, <1>3, PTL DEF Spec, NoSilentReplacement
=============================================================================
