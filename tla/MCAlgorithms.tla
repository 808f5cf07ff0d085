---------------------------- MODULE MCAlgorithms ----------------------------
(***************************************************************************)
(* The sequential algorithms, each on its own: the framing of the UART,    *)
(* and the stages a window goes through in the control server (fusion,     *)
(* parking policy, risk policy).  They share no state, so `part' says      *)
(* which one runs and the others stay where they are.                      *)
(***************************************************************************)
EXTENDS ParkingPolicy, RiskLevels, Sequences

CONSTANTS
  Byte, VEDA_START_BYTE, VEDA_END_BYTE, PAYLOAD_LEN, RESYNC,
  Vehicle, Class, World, dedupMergeDistance, trackMaxDistance, positionJitterRadius,
  kMaxMissedWindows, WINDOWS, ODDITIES

VARIABLES
  part,
  state, buffer, checksum, got, wire, payload, quiet, fresh, damaged, lost,
  world, motionFrame_, nextGlobalId_, byGid_, idIndex_, objects,
  gidOf, lastSeen, classOf, tracked, puzzled, oddities

(* A vehicle that jumps by more than the tolerance, and two cameras one of *)
(* which is ahead.                                                         *)
MCNear(p, q) == p - q \in -1 .. 1
MCSkew == [c \in Channel |-> 2 * c]

(* Two pedestrians, or a pedestrian and a car: they meet at one place and  *)
(* go on, they pass each other between two windows, one passes the other,  *)
(* who stands.  Distances are in 1/48 of what they go in a window, so that *)
(* means over two cameras and averages over four windows are whole.        *)
MCWorld ==
  {[start |-> <<w[1], w[2]>>, speed |-> <<48, w[3]>>, cls |-> <<"Human", c>>] :
     w \in {<<-144, 144, -48>>, <<-120, 120, -48>>, <<-120, 24, 0>>}, c \in Class}

Framing == INSTANCE FrameSync
Risk == INSTANCE RiskPolicy
Fusion == INSTANCE GridFuser

ASSUME FramingHolds == Framing!FramingAssumption
ASSUME FusionHolds == Fusion!DistanceAssumption /\ Fusion!WorldAssumption

framingVars == <<state, buffer, checksum, got, wire, payload, quiet, fresh, damaged, lost>>
fusionVars == <<world, motionFrame_, nextGlobalId_, byGid_, idIndex_, objects,
                gidOf, lastSeen, classOf, tracked, puzzled, oddities>>
MCVars == <<part, vars, framingVars, riskVars, fusionVars>>

(* One initial state for a part that does not run.                         *)
FramingRests == payload = [i \in 1 .. PAYLOAD_LEN |-> 0] /\ Framing!Init
RiskRests ==
  /\ worldFrame = [vehicle |-> {}, cand |-> {}, zoneId |-> [o \in Index |-> -1],
                   dist |-> [p \in Pair |-> 0]]
  /\ zoneLevels = Risk!Unmarked
  /\ Risk!Init
FusionRests == world = (CHOOSE w \in World : TRUE) /\ Fusion!Init

MCInit ==
  \/ part = "framing" /\ Framing!Init /\ Init /\ RiskRests /\ FusionRests
  \/ part = "fusion" /\ Fusion!Init /\ FramingRests /\ Init /\ RiskRests
  \/ part = "parking" /\ Init /\ FramingRests /\ RiskRests /\ FusionRests
  \/ part = "risk" /\ Risk!Init /\ FramingRests /\ Init /\ FusionRests

MCNext ==
  /\ \/ part = "framing" /\ Framing!Next /\ UNCHANGED <<vars, riskVars, fusionVars>>
     \/ part = "fusion" /\ Fusion!Next /\ UNCHANGED <<vars, framingVars, riskVars>>
     \/ part = "parking" /\ Next /\ UNCHANGED <<framingVars, riskVars, fusionVars>>
     \/ part = "risk" /\ Risk!Next /\ UNCHANGED <<vars, framingVars, fusionVars>>
  /\ UNCHANGED part

MCSpec == MCInit /\ [][MCNext]_MCVars

-----------------------------------------------------------------------------
(* The properties of the instances, by the names they have there.          *)

\* After a silent line an intact frame is accepted, and one changed byte does
\* not turn it into another (FrameSync).
SilenceHeals == Framing!SilenceHeals

\* One object has one gid and one class for it (GridFuser).
GidIsOneObject == Fusion!GidIsOneObject

\* An object stays for kMaxMissedWindows after it was seen last (GridFuser).
CoastsThenExpires == Fusion!CoastsThenExpires

\* Vehicles that cross keep their gids (GridFuser).
CrossingKeepsGid == Fusion!CrossingKeepsGid
=============================================================================
