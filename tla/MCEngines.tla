------------------------------ MODULE MCEngines ------------------------------
(* Model checking of the SIP engines of iOS and of the desktop: a behaviour   *)
(* is about one of them, chosen at the start.  The other stays as it begins,  *)
(* where none of its fair actions is enabled, so it satisfies its own         *)
(* fairness condition.                                                        *)
EXTENDS IosSip, DesktopSip, TLC

VARIABLE part     \* "ios" or "desktop"

MCCode == {0}

Only(p, quiet) == part = p /\ UNCHANGED <<quiet, part>>

EnginesInit ==
    /\ part \in {"ios", "desktop"}
    /\ IInit /\ DeskInit
    /\ part = "ios" => patient    \* one of the initial states is enough

EnginesNext ==
    \/ Only("ios", deskVars) /\ INext
    \/ Only("desktop", allVars) /\ DeskNext

EnginesSpec ==
    /\ EnginesInit
    /\ [][EnginesNext]_<<allVars, deskVars, part>>
    /\ IFairness /\ DeskFairness
(* The variables of both engines keep to their types.                        *)
EngineTypes == ITypeOK /\ DeskTypeOK

=============================================================================
