---------------------------- MODULE MCIndividual ----------------------------
(* One agent, two entries, one of them shown, four states of the evidence. *)
EXTENDS Individual

CONSTANTS bond, trust  \* keys

E(value, mark) == [value |-> value, mark |-> mark]

\* Much evidence, less of it (the offset must not be clamped to nothing), the
\* opposite, and one belief lost.
MCEvidence ==
  { [floor |-> [k \in {bond} |-> E(30, 0)], beliefs |-> 1, signature |-> 1, confident |-> TRUE],
    [floor |-> [k \in {bond} |-> E(5, 1)], beliefs |-> 1, signature |-> 1, confident |-> TRUE],
    [floor |-> [k \in {bond, trust} |-> E(-95, 0)], beliefs |-> 2, signature |-> 2, confident |-> TRUE],
    [floor |-> [k \in {} |-> E(0, 0)], beliefs |-> 0, signature |-> 0, confident |-> FALSE] }

MCKey == {bond, trust}
=============================================================================
