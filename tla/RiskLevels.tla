----------------------------- MODULE RiskLevels -----------------------------
(***************************************************************************)
(* The world frame that ThresholdRiskPolicy::evaluate is given, the risk   *)
(* levels and the distances that separate them, and what the levels should *)
(* be.  RiskPolicy has the algorithm.                                      *)
(*                                                                         *)
(* The metric is symmetric (EuclideanMetric), so a distance belongs to a   *)
(* pair of objects.                                                        *)
(***************************************************************************)
EXTENDS Integers, FiniteSetsExt

CONSTANTS
  N,                       \* number of objects
  channelCount,            \* the zones are 0 .. channelCount - 1
  Dist,                    \* distances
  dangerousDistance, warningDistance

ASSUME NAssumption == N \in Nat /\ channelCount \in Nat \ {0}
ASSUME DistAssumption ==
  /\ Dist \subseteq Nat /\ dangerousDistance \in Nat /\ warningDistance \in Nat
  /\ dangerousDistance <= warningDistance

None == 0
Warning == 1
Danger == 2
RiskLevel == {None, Warning, Danger}

(* The level of a distance to the nearest object.                          *)
Classify(d) ==
  CASE d <= dangerousDistance -> Danger
    [] dangerousDistance < d /\ d <= warningDistance -> Warning
    [] OTHER -> None

Index == 1 .. N            \* of the objects
Zone == 0 .. channelCount - 1

(* cand: objects that were seen and have a finite position; a zoneId may   *)
(* be -1, not assigned.                                                    *)
Pair == {p \in SUBSET Index : \E a, b \in Index : a # b /\ p = {a, b}}
Frame == [vehicle : SUBSET Index, cand : SUBSET Index,
          zoneId : [Index -> Zone \cup {-1}], dist : [Pair -> Dist]]
ZoneLevel == [level : RiskLevel, minDist : Nat \cup {-1}]

VARIABLES
  worldFrame,  \* the objects, as the zone mapper leaves them
  pc,          \* before, in and after the loop over the vehicles
  k,           \* its index
  riskLevel,   \* of every object
  nearestObj,  \* of every object
  zoneLevels,  \* of the RiskEvaluation, a buffer that is used again
  level        \* of the frame

riskVars == <<worldFrame, pc, k, riskLevel, nearestObj, zoneLevels, level>>

Dst(a, b) == worldFrame.dist[{a, b}]

(* A vehicle that is looked at, with another object to look at.            *)
Judged(v) == v \in worldFrame.vehicle \cap worldFrame.cand /\ worldFrame.cand \ {v} # {}

-----------------------------------------------------------------------------
(* What the levels should be.                                              *)
Gap(v) == Min({Dst(v, m) : m \in worldFrame.cand \ {v}})
Own(v) == IF Judged(v) THEN Classify(Gap(v)) ELSE None
Worst(S) == Max(S \cup {None})

(* Everyone involved is marked with the worst of the levels he is involved *)
(* in, whatever the order of the objects: his own, if he is a vehicle, and *)
(* that of every vehicle he is the nearest object of.                      *)
InvolvedAreMarked ==
  pc = "done" =>
    \A o \in Index :
      riskLevel[o] = Worst({Own(o)} \cup {Own(v) : v \in {w \in Index : nearestObj[w] = o}})

(* The lamp of a zone shows the worst level of its vehicles, with the      *)
(* smallest distance of a vehicle at risk, and nothing of earlier frames;  *)
(* the frame shows the worst level of a vehicle in any zone.               *)
ZoneIsWorst ==
  pc = "done" =>
    /\ \A z \in Zone :
         LET at == {v \in Index : worldFrame.zoneId[v] = z /\ Own(v) # None}
         IN  zoneLevels[z] = [level |-> Worst({Own(v) : v \in at}),
                              minDist |-> IF at = {} THEN -1 ELSE Min({Gap(v) : v \in at})]
    /\ level = Worst({Own(v) : v \in {w \in Index : worldFrame.zoneId[w] \in Zone}})

(* Judging a vehicle never lowers a level that another one passed on to    *)
(* it: its own is at least as bad, since the metric is symmetric.          *)
NeverLowered ==
  [][pc = "loop" => \A o \in Index : riskLevel'[o] >= riskLevel[o]]_riskVars

=============================================================================
