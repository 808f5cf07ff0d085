------------------------------ MODULE RiskPolicy ------------------------------
(***************************************************************************)
(* ThresholdRiskPolicy::evaluate.  Every vehicle gets the level of its     *)
(* distance to the nearest object and passes it on to that object; a zone  *)
(* gets the worst level of its vehicles, and the frame the worst of its    *)
(* zones.  One iteration of the loop over the vehicles is a step.          *)
(***************************************************************************)
EXTENDS RiskLevels

(* Type correctness; the loop ends after the last object.                  *)
TypeOK ==
  /\ worldFrame \in Frame
  /\ pc \in {"start", "loop", "done"}
  /\ k \in 1 .. N + 1
  /\ riskLevel \in [Index -> RiskLevel]
  /\ nearestObj \in [Index -> Index \cup {0}]
  /\ zoneLevels \in [Zone -> ZoneLevel]
  /\ level \in RiskLevel
  /\ pc = "done" => k = N + 1

Unmarked == [z \in Zone |-> [level |-> None, minDist |-> -1]]
LeftOver == [z \in Zone |-> [level |-> Danger, minDist |-> 0]]

(* Any frame, and a buffer that is new or holds an earlier evaluation.     *)
Init ==
  /\ worldFrame \in Frame
  /\ pc = "start"
  /\ k = 1
  /\ riskLevel = [o \in Index |-> None]
  /\ nearestObj = [o \in Index |-> 0]
  /\ zoneLevels \in {Unmarked, LeftOver}
  /\ level = None

-----------------------------------------------------------------------------
(* The buffers are cleared.                                                *)
Start ==
  /\ pc = "start" /\ pc' = "loop"
  /\ zoneLevels' = Unmarked
  /\ riskLevel' = [o \in Index |-> None]
  /\ nearestObj' = [o \in Index |-> 0]
  /\ UNCHANGED <<worldFrame, k, level>>

(* The loop prefers m to j.                                                *)
Before(v, m, j) == Dst(v, m) < Dst(v, j) \/ (Dst(v, m) = Dst(v, j) /\ m <= j)

(* Mutant: only the objects that come later are looked at.                 *)
NearestLater(v, m) ==
  /\ m \in worldFrame.cand /\ m > v
  /\ \A j \in worldFrame.cand : j > v => Before(v, m, j)

(* The candidate nearest to v, the first of them if there are several.     *)
Nearest(v, m) ==
  /\ m \in worldFrame.cand \ {v}
  /\ \A j \in worldFrame.cand \ {v} : Before(v, m, j)

(* Mutant: a vehicle passes its level on, whatever the other one has.      *)
PassOnAlways(v, m, l) == [riskLevel EXCEPT ![v] = l, ![m] = l]

(* Rule 3: the level of the vehicle, and of the object it is too near to,  *)
(* which is only raised.                                                   *)
PassOn(v, m, l) == [riskLevel EXCEPT ![v] = l, ![m] = IF l > @ THEN l ELSE @]

(* Mutant: the last vehicle of the zone decides.                           *)
AggregateLast(z, l, d) == [zoneLevels EXCEPT ![z] = [level |-> l, minDist |-> d]]

(* Rule 5: the zone of the vehicle.                                        *)
Aggregate(z, l, d) ==
  [zoneLevels EXCEPT ![z] =
     IF l > @.level THEN [level |-> l, minDist |-> d]
     ELSE IF l = @.level /\ (@.minDist < 0 \/ d < @.minDist) THEN [@ EXCEPT !.minDist = d]
     ELSE @]

Judge(v, m) ==
  LET l == Classify(Dst(v, m))
      z == worldFrame.zoneId[v]
  IN  /\ nearestObj' = [nearestObj EXCEPT ![v] = m]
      /\ riskLevel' = PassOn(v, m, l)
      /\ zoneLevels' = IF l # None /\ z \in Zone THEN Aggregate(z, l, Dst(v, m)) ELSE zoneLevels

(* One iteration: a vehicle with another candidate is judged.              *)
Iterate ==
  /\ pc = "loop" /\ k <= N
  /\ k' = k + 1
  /\ IF Judged(k) THEN \E m \in Index : Nearest(k, m) /\ Judge(k, m)
     ELSE UNCHANGED <<riskLevel, nearestObj, zoneLevels>>
  /\ UNCHANGED <<worldFrame, pc, level>>

(* Rule 4: the level of the frame is the worst of its zones.               *)
Finish ==
  /\ pc = "loop" /\ k = N + 1 /\ pc' = "done"
  /\ level' = Max({zoneLevels[z].level : z \in Zone})
  /\ UNCHANGED <<worldFrame, k, riskLevel, nearestObj, zoneLevels>>

Next == Start \/ Iterate \/ Finish

Spec == Init /\ [][Next]_riskVars

=============================================================================
