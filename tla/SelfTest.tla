------------------------------ MODULE SelfTest ------------------------------
(***************************************************************************)
(* The checkers that test themselves: of the Word document, of the seal and *)
(* of the frozen data.  A behaviour is about one of them.                   *)
(***************************************************************************)
VARIABLE tested   \* "docx", "seal" or "data"
=============================================================================
