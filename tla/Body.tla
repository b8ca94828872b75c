-------------------------------- MODULE Body --------------------------------
(***************************************************************************)
(* The bodies of the agents: zones, motion, the nudge that keeps two of     *)
(* them apart, and the events a physics tick reports.  The plane is a line  *)
(* of whole steps and the walls between the zones are the midpoints of      *)
(* their centres.  A body is [x, zone]: where it is and the zone it is       *)
(* tagged with.                                                            *)
(***************************************************************************)
EXTENDS Integers, Sequences, FiniteSets, SequencesExt

CONSTANTS
  ZoneOrder,     \* the zones, in the order of their declaration
  Centre,        \* the place of the centre of each
  MicroRadius,   \* CELL_MICRO_RADIUS_M
  Radius,        \* separation_radius_m of a pair
  Push,          \* _SEP_PUSH_M
  Threshold,     \* _PROXIMITY_THRESHOLD_M
  Reach,         \* _AFFORDANCE_RADIUS_M
  PropZone, PropPlace,   \* a prop of ZONE_PROPS
  Nowhere

ASSUME BodyAssumption ==
  /\ ZoneOrder \in Seq(Range(ZoneOrder))
  /\ \A i \in DOMAIN ZoneOrder : Centre[ZoneOrder[i]] \in Int
  /\ {Radius, Push, Threshold, Reach, MicroRadius} \subseteq Nat
  /\ Nowhere \notin Int

Zones == Range(ZoneOrder)

Distance(a, b) == IF a < b THEN b - a ELSE a - b

\* The nearest centre, the first of two: the best of the zones looked at so far.
LocateZone(x) ==
  LET best[i \in 1..Len(ZoneOrder)] ==
        IF i > 1 /\ ~(Distance(x, Centre[ZoneOrder[i]]) < Distance(x, Centre[ZoneOrder[best[i - 1]]]))
        THEN best[i - 1] ELSE i
  IN ZoneOrder[best[Len(ZoneOrder)]]

DefaultSpawn(z) == [x |-> Centre[z], zone |-> z]

\* Drawn back towards the centre of z if it is outside of z.
ReflectClamp(x, z) ==
  IF LocateZone(x) = z THEN x
  ELSE IF Distance(x, Centre[z]) <= MicroRadius THEN x
  ELSE IF x < Centre[z] THEN Centre[z] - MicroRadius ELSE Centre[z] + MicroRadius

-----------------------------------------------------------------------------
(* Motion *)

\* A zone-only target, whose place is not in its zone, becomes its spawn.
Resolve(target) ==
  IF LocateZone(target.x) # target.zone THEN DefaultSpawn(target.zone) ELSE target

\* One physics tick of step_kinematics towards dest.
StepKinematics(body, dest, speed) ==
  IF dest = Nowhere THEN body
  ELSE LET x == IF Distance(body.x, dest.x) <= speed THEN dest.x
                ELSE IF body.x < dest.x THEN body.x + speed ELSE body.x - speed
       IN [x |-> x, zone |-> LocateZone(x)]

\* The destination after the tick: none once it is reached.
Heading(body, dest, speed) ==
  IF dest = Nowhere \/ Distance(body.x, dest.x) <= speed THEN Nowhere ELSE dest

\* Faulty variant: the nudge looks the zone up again.
SeparatedRetagged(a, b) ==
  IF Distance(a.x, b.x) >= Radius THEN <<a, b>>
  ELSE LET u == IF a.x >= b.x THEN Push ELSE -Push IN
       <<[x |-> a.x + u, zone |-> LocateZone(a.x + u)],
         [x |-> b.x - u, zone |-> LocateZone(b.x - u)]>>

\* _apply_separation_force on a pair: the tags of the zones stay as they are.
Separated(a, b) ==
  IF Distance(a.x, b.x) >= Radius THEN <<a, b>>
  ELSE LET u == IF a.x >= b.x THEN Push ELSE -Push IN
       <<[a EXCEPT !.x = @ + u], [b EXCEPT !.x = @ - u]>>

-----------------------------------------------------------------------------
(* Events: of a distance that was seen before, the tick that crosses the    *)
(* threshold is reported, to each side of a pair.                           *)

ZoneTransition(from, to) == [kind |-> "zone", from |-> from, to |-> to]
Proximity(other, crossing) == [kind |-> "proximity", other |-> other, crossing |-> crossing]
Affordance == [kind |-> "affordance", zone |-> PropZone]

Moved(before, after) ==
  IF before.zone = after.zone THEN <<>> ELSE <<ZoneTransition(before.zone, after.zone)>>

Crossed(prev, now, other) ==
  CASE prev = Nowhere -> <<>>
    [] prev # Nowhere /\ prev >= Threshold /\ now < Threshold -> <<Proximity(other, "enter")>>
    [] prev # Nowhere /\ prev < Threshold /\ now >= Threshold -> <<Proximity(other, "leave")>>
    [] OTHER -> <<>>

Reached(prev, now) ==
  IF prev # Nowhere /\ prev >= Reach /\ now < Reach THEN <<Affordance>> ELSE <<>>
=============================================================================
