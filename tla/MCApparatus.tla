----------------------------- MODULE MCApparatus ----------------------------
(* Two zones two walls of a walk apart, two agents of the live world, and   *)
(* the first of them in the embodied loop.                                  *)
EXTENDS Apparatus, TLC

MCZoneOrder == <<"study", "peripatos">>
MCCentre == "study" :> 2 @@ "peripatos" :> 5
MCDefaultMode == "study" :> "deep_work" @@ "peripatos" :> "peripatetic"
MCStart == 1 :> "study" @@ 2 :> "peripatos"
MCObservable == {Internal("chashitsu")}
MCSeen == [t \in 0..2 |-> IF t = 1 THEN <<Perception("forage"), Internal("chashitsu")>>
                          ELSE <<Perception("forage")>>]
Row(kind, at) == [kind |-> kind, agent |-> 1, at |-> at, imp |-> 1, recalls |-> 0,
                  loc |-> Nowhere, about |-> "study"]
MCCalls == {Add(<<1>>, Row("episodic", 0), "study"), EvictEpisodicBefore(1, 1),
            UpsertSemantic(<<2>>, Row("semantic", 0), "study"),
            UpsertSemantic(<<2>>, Row("semantic", 1), None)}
=============================================================================
