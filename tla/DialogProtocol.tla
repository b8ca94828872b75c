---------------------------- MODULE DialogProtocol ----------------------------
(***************************************************************************)
(* What the dialog subsystem promises to whoever consumes its envelopes:   *)
(* every dialog is announced once, then has turns, then is closed once and *)
(* is silent for ever; and no two dialogs of one pair of agents are live   *)
(* at a time.  An id is a pair and an ordinal.  One step may start, carry  *)
(* on and end several dialogs, as one tick of the runtime does.            *)
(***************************************************************************)
EXTENDS Sequences

CONSTANT Ids

VARIABLES
    live,        \* the ids of the dialogs in progress
    wire         \* the kinds of envelopes sent so far, by id

vars == <<live, wire>>

Init == live = {} /\ wire = <<>>

OnePerPair(ids) == \A d, e \in ids : d[1] = e[1] => d = e

Step(started, spoken, ended) ==
    /\ started \subseteq Ids
    /\ started \cap DOMAIN wire = {}
    /\ spoken \subseteq live
    /\ ended \subseteq live
    /\ spoken \cap ended = {}
    /\ live' = (live \ ended) \cup started
    /\ OnePerPair(live')
    /\ wire' = [d \in DOMAIN wire \cup started |->
                    IF d \in started THEN <<"initiate">>
                    ELSE IF d \in spoken THEN Append(wire[d], "turn")
                    ELSE IF d \in ended THEN Append(wire[d], "close")
                    ELSE wire[d]]

Next == \E spoken \in SUBSET live : Step(live' \ live, spoken, live \ live')

Spec == Init /\ [][Next]_vars

=============================================================================
