----------------------------- MODULE SelfTests -----------------------------
(***************************************************************************)
(* The three checkers side by side, each from the state its own test starts *)
(* from.  While one is tested the others stand still.                       *)
(***************************************************************************)
EXTENDS DocxSelfTest, SealSelfTest, FrozenData

vars == <<tested, docxVars, sealVars, dataVars>>

Init == tested \in {"docx", "seal", "data"} /\ DocxInit /\ SealInit /\ DataInit

Next ==
  /\ UNCHANGED tested
  /\ \/ tested = "docx" /\ DocxNext /\ UNCHANGED <<sealVars, dataVars>>
     \/ tested = "seal" /\ SealNext /\ UNCHANGED <<docxVars, dataVars>>
     \/ tested = "data" /\ DataNext /\ UNCHANGED <<docxVars, sealVars>>

Spec == Init /\ [][Next]_vars

-----------------------------------------------------------------------------
\* The three self-tests pass: every mutation, every case and every fixture is
\* reported for what it changed, and for nothing else, and every control is
\* clean (check_docx_text.py, mutation_test; check_seal_scope.py, _judge;
\* verify_data_hashes.py, check_guards_fire and check_record_guards_fire).
CasesAreCaught == MutationsAreCaught /\ CasesNameWhatChanged /\ GuardsFire
=============================================================================
