-------------------------- MODULE RiskPolicyProofs --------------------------
(***************************************************************************)
(* For any number of objects and zones, any distances and any symmetric    *)
(* metric: judging the vehicles one after the other never lowers a level   *)
(* that was passed on before, and when the loop is done every object has   *)
(* the worst level it is involved in and every zone the worst of its       *)
(* vehicles.                                                               *)
(***************************************************************************)
EXTENDS RiskPolicy, TLAPS

LoopType ==
  /\ worldFrame \in Frame
  /\ pc \in {"start", "loop", "done"}
  /\ k \in 1 .. N + 1
  /\ riskLevel \in [Index -> RiskLevel]

(* An object that was not judged yet got its level from a candidate that   *)
(* was, and it is the level of their distance.                             *)
Passed(o) ==
  riskLevel[o] # None =>
    \E v \in worldFrame.cand \ {o} : o \in worldFrame.cand /\ riskLevel[o] = Classify(Dst(v, o))

LoopInv == LoopType /\ (pc = "loop" => \A o \in Index : o >= k => Passed(o))

(* Classify returns a level.                                               *)
LEMMA ClassifyType == \A d : Classify(d) \in RiskLevel
  BY DEF Classify, RiskLevel, None, Warning, Danger

(* A smaller distance has a level that is at least as bad.                 *)
LEMMA ClassifyMonotone ==
  ASSUME NEW d \in Nat, NEW e \in Nat, d <= e
  PROVE  Classify(d) >= Classify(e)
  BY DistAssumption DEF Classify, None, Warning, Danger

(* The distance of two objects is a number and does not depend on their    *)
(* order.                                                                  *)
LEMMA Symmetric ==
  ASSUME worldFrame \in Frame, NEW a \in Index, NEW b \in Index, a # b
  PROVE  Dst(a, b) \in Nat /\ Dst(a, b) = Dst(b, a)
<1>1. {a, b} \in Pair /\ {a, b} = {b, a}
  BY DEF Pair
<1>2. worldFrame.dist \in [Pair -> Dist]
  BY DEF Frame
<1> QED BY <1>1, <1>2, DistAssumption DEF Dst

(* The level a vehicle is given is at least the one that was passed on.    *)
LEMMA OwnIsWorse ==
  ASSUME LoopType, NEW v \in Index, Passed(v), v \in worldFrame.cand,
         NEW m \in Index, Nearest(v, m)
  PROVE  Classify(Dst(v, m)) >= riskLevel[v]
<1>1. worldFrame \in Frame /\ riskLevel[v] \in RiskLevel
  BY DEF LoopType
<1>2. CASE riskLevel[v] = None
  BY <1>2, ClassifyType DEF RiskLevel, None, Warning, Danger
<1>3. CASE riskLevel[v] # None
  <2>1. PICK w \in worldFrame.cand \ {v} : riskLevel[v] = Classify(Dst(w, v))
    BY <1>3 DEF Passed
  <2>2. w \in Index /\ m # v
    BY <1>1, <2>1 DEF Frame, Nearest
  <2>3. Dst(v, m) \in Nat /\ Dst(v, w) \in Nat /\ Dst(w, v) = Dst(v, w)
    BY <1>1, <2>1, <2>2, Symmetric
  <2>4. Dst(v, m) <= Dst(v, w)
    BY <2>1, <2>3 DEF Nearest, Before
  <2> QED BY <2>1, <2>3, <2>4, ClassifyMonotone
<1> QED BY <1>2, <1>3

(* One iteration for a vehicle: levels are not lowered, and the invariant  *)
(* is kept for the objects that follow.                                    *)
LEMMA JudgeHolds ==
  ASSUME LoopInv, pc = "loop", k \in Index, k \in worldFrame.cand,
         NEW m \in Index, Nearest(k, m), Judge(k, m), UNCHANGED worldFrame
  PROVE  /\ riskLevel' \in [Index -> RiskLevel]
         /\ \A o \in Index : riskLevel'[o] >= riskLevel[o]
         /\ \A o \in Index : o >= k + 1 => Passed(o)'
<1> DEFINE l == Classify(Dst(k, m))
<1>0. m # k /\ m \in worldFrame.cand
  BY DEF Nearest
<1>1. /\ riskLevel \in [Index -> RiskLevel] /\ l \in RiskLevel
      /\ riskLevel' = [riskLevel EXCEPT ![k] = l, ![m] = IF l > riskLevel[m] THEN l ELSE riskLevel[m]]
  BY <1>0, ClassifyType DEF Judge, PassOn, LoopInv, LoopType
<1>2. l >= riskLevel[k]
  <2>1. k >= k /\ LoopType
    BY DEF LoopInv, LoopType
  <2>2. Passed(k)
    BY <2>1 DEF LoopInv
  <2> QED BY <2>1, <2>2, OwnIsWorse
<1> HIDE DEF l
<1>3. riskLevel' \in [Index -> RiskLevel]
  BY <1>1
<1>4. /\ riskLevel'[k] = l
      /\ riskLevel'[m] = IF l > riskLevel[m] THEN l ELSE riskLevel[m]
      /\ \A o \in Index \ {k, m} : riskLevel'[o] = riskLevel[o]
  BY <1>0, <1>1
<1>5. ASSUME NEW o \in Index PROVE riskLevel'[o] >= riskLevel[o]
  BY <1>1, <1>2, <1>4 DEF RiskLevel, None, Warning, Danger
<1>6. ASSUME NEW o \in Index, o >= k + 1 PROVE Passed(o)'
  <2>1. o # k /\ Passed(o)
    BY <1>6 DEF LoopInv, LoopType, Index
  <2>2. CASE riskLevel'[o] = riskLevel[o]
    BY <2>1, <2>2 DEF Passed, Dst
  <2>3. CASE riskLevel'[o] # riskLevel[o]
    <3>1. o = m /\ riskLevel'[o] = l
      BY <1>4, <2>1, <2>3
    <3>2. l = Classify(worldFrame.dist[{k, o}])
      BY <3>1 DEF l, Dst
    <3>3. \E v \in worldFrame'.cand \ {o} : o \in worldFrame'.cand /\ riskLevel'[o] = Classify(worldFrame'.dist[{v, o}])
      BY <1>0, <2>1, <3>1, <3>2
    <3> QED BY <3>3 DEF Passed, Dst
  <2> QED BY <2>2, <2>3
<1> QED BY <1>3, <1>5, <1>6

(* The invariant holds at the start ...                                    *)
LEMMA InitHolds == Init => LoopInv
  BY NAssumption DEF Init, LoopInv, LoopType, RiskLevel, None, Warning, Danger

(* ... and every step keeps it and lowers no level.                        *)
LEMMA StepHolds ==
  ASSUME LoopInv, Next
  PROVE  LoopInv' /\ (pc = "loop" => \A o \in Index : riskLevel'[o] >= riskLevel[o])
<1>0. LoopType /\ k \in Int /\ N \in Nat
  BY NAssumption DEF LoopInv, LoopType
<1>1. CASE Start
  BY <1>0, <1>1 DEF Start, LoopInv, LoopType, Passed, RiskLevel, None, Warning, Danger
<1>2. CASE Finish
  <2>1. \A o \in Index : riskLevel'[o] = riskLevel[o] /\ riskLevel[o] \in Int
    BY <1>0, <1>2 DEF Finish, LoopType, RiskLevel, None, Warning, Danger
  <2> QED BY <1>0, <1>2, <2>1 DEF Finish, LoopInv, LoopType
<1>3. CASE Iterate
  <2>1. pc = "loop" /\ pc' = "loop" /\ worldFrame' = worldFrame /\ k' = k + 1 /\ k \in Index
    BY <1>0, <1>3 DEF Iterate, LoopType, Index
  <2>2. k' \in 1 .. N + 1
    BY <1>0, <2>1 DEF Index
  <2>3. CASE Judged(k)
    <3>1. PICK m \in Index : Nearest(k, m) /\ Judge(k, m)
      BY <1>3, <2>3 DEF Iterate
    <3>2. k \in worldFrame.cand
      BY <2>3 DEF Judged
    <3> QED BY <1>0, <2>1, <2>2, <3>1, <3>2, JudgeHolds DEF LoopInv, LoopType
  <2>4. CASE ~Judged(k)
    <3>1. riskLevel' = riskLevel
      BY <1>3, <2>4 DEF Iterate
    <3>2. \A o \in Index : o >= k + 1 => Passed(o)'
      <4> SUFFICES ASSUME NEW o \in Index, o >= k + 1 PROVE Passed(o)'
        OBVIOUS
      <4>1. Passed(o)
        BY <1>0, <2>1 DEF LoopInv, Index
      <4> QED BY <2>1, <3>1, <4>1 DEF Passed, Dst
    <3>3. \A o \in Index : riskLevel[o] \in Int
      BY <1>0 DEF LoopType, RiskLevel, None, Warning, Danger
    <3> QED BY <1>0, <2>1, <2>2, <3>1, <3>2, <3>3 DEF LoopInv, LoopType
  <2> QED BY <2>3, <2>4
<1> QED BY <1>1, <1>2, <1>3 DEF Next

(* No step of the evaluation lowers the level of an object.                *)
THEOREM LevelsOnlyRise == Spec => NeverLowered
<1>1. LoopInv /\ [Next]_riskVars => LoopInv'
  BY StepHolds DEF riskVars, LoopInv, LoopType, Passed, Dst
<1>2. LoopInv /\ [Next]_riskVars => 
       [pc = "loop" => \A o \in Index : riskLevel'[o] >= riskLevel[o]]_riskVars
  BY StepHolds DEF riskVars, Index
<1> QED BY <1>1, <1>2, InitHolds, PTL DEF Spec, NeverLowered

-----------------------------------------------------------------------------
(* The results of the evaluation.                                          *)

(* The objects before k have been judged, and nobody else.                 *)
NearestAt(v) ==
  IF v < k /\ Judged(v) THEN nearestObj[v] \in Index /\ Nearest(v, nearestObj[v])
  ELSE nearestObj[v] = 0

NearestInv == \A v \in Index : NearestAt(v)

(* Every object has the worst level that those before k have given it.     *)
MarkAt(o) ==
  /\ o < k => riskLevel[o] >= Own(o)
  /\ \A v \in Index : nearestObj[v] = o => riskLevel[o] >= Own(v)
  /\ \/ riskLevel[o] = None
     \/ o < k /\ riskLevel[o] = Own(o)
     \/ \E v \in Index : nearestObj[v] = o /\ riskLevel[o] = Own(v)

(* A zone has the worst level and the smallest gap of its vehicles at risk *)
(* before k.                                                               *)
AtRisk(z) == {v \in Index : v < k /\ worldFrame.zoneId[v] = z /\ Own(v) # None}

ZoneAt(z) ==
  /\ \A v \in AtRisk(z) : zoneLevels[z].level >= Own(v) /\ zoneLevels[z].minDist <= Gap(v)
  /\ AtRisk(z) = {} => zoneLevels[z] = [level |-> None, minDist |-> -1]
  /\ AtRisk(z) # {} => /\ \E v \in AtRisk(z) : zoneLevels[z].level = Own(v)
                       /\ \E v \in AtRisk(z) : zoneLevels[z].minDist = Gap(v)

ResultInv ==
  /\ TypeOK /\ LoopInv
  /\ pc # "start" => /\ NearestInv
                     /\ \A o \in Index : MarkAt(o)
                     /\ \A z \in Zone : ZoneAt(z)
  /\ pc = "done" => level = Max({zoneLevels[z].level : z \in Zone})
  /\ pc = "start" => k = 1

(* An upper bound in the set is its maximum, a lower bound its minimum.    *)
LEMMA MaxIs ==
  ASSUME NEW S \in SUBSET Int, NEW x \in S, \A y \in S : x >= y
  PROVE  Max(S) = x
<1>1. \E y \in S : \A w \in S : y >= w
  OBVIOUS
<1>2. Max(S) \in S /\ \A w \in S : Max(S) >= w
  BY <1>1 DEF Max
<1>3. x \in Int /\ Max(S) \in Int /\ x >= Max(S) /\ Max(S) >= x
  BY <1>2
<1>. QED
  BY <1>3

LEMMA MinIs ==
  ASSUME NEW S \in SUBSET Int, NEW x \in S, \A y \in S : x <= y
  PROVE  Min(S) = x
<1>1. \E y \in S : \A w \in S : y <= w
  OBVIOUS
<1>2. Min(S) \in S /\ \A w \in S : Min(S) <= w
  BY <1>1 DEF Min
<1>3. x \in Int /\ Min(S) \in Int /\ x <= Min(S) /\ Min(S) <= x
  BY <1>2
<1>. QED
  BY <1>3

(* A set of levels has a worst one.                                        *)
LEMMA LevelsHaveMax ==
  ASSUME NEW S \in SUBSET RiskLevel, S # {}
  PROVE  Max(S) \in S /\ \A y \in S : Max(S) >= y
<1>. USE DEF RiskLevel, None, Warning, Danger
<1>1. \E x \in S : \A y \in S : x >= y
  <2>1. CASE Danger \in S
    BY <2>1
  <2>2. CASE Danger \notin S /\ Warning \in S
    BY <2>2
  <2>3. CASE Danger \notin S /\ Warning \notin S
    <3>1. PICK x \in S : TRUE
      OBVIOUS
    <3>2. x = None /\ \A y \in S : y = None
      BY <2>3
    <3>. QED
      BY <3>2
  <2>. QED
    BY <2>1, <2>2, <2>3
<1>. QED
  BY <1>1 DEF Max

LEMMA OwnType == \A v : Own(v) \in RiskLevel
BY ClassifyType DEF Own, RiskLevel

LEMMA LevelsAreNumbers == \A l \in RiskLevel : l \in Int /\ l >= None
BY DEF RiskLevel, None, Warning, Danger

(* The nearest object gives a vehicle its gap and its level.               *)
LEMMA NearestGivesGap ==
  ASSUME worldFrame \in Frame, NEW v \in Index, NEW m \in Index, Judged(v), Nearest(v, m)
  PROVE  Gap(v) = Dst(v, m) /\ Gap(v) \in Nat /\ Own(v) = Classify(Dst(v, m))
<1>. DEFINE S == {Dst(v, j) : j \in worldFrame.cand \ {v}}
<1>1. worldFrame.cand \subseteq Index
  BY DEF Frame
<1>2. \A j \in worldFrame.cand \ {v} : Dst(v, j) \in Nat /\ Dst(v, m) <= Dst(v, j)
  <2>1. \A j \in worldFrame.cand \ {v} : Dst(v, j) \in Nat
    BY <1>1, Symmetric
  <2>. QED
    BY <2>1 DEF Nearest, Before
<1>3. S \in SUBSET Int /\ Dst(v, m) \in S /\ \A y \in S : Dst(v, m) <= y
  BY <1>2 DEF Nearest
<1>4. Min(S) = Dst(v, m)
  BY <1>3, MinIs
<1>. QED
  BY <1>2, <1>4 DEF Gap, Own, Nearest

(* Nothing that is not judged changes what the levels should be.           *)
LEMMA SameFrame ==
  ASSUME UNCHANGED worldFrame
  PROVE  \A v, m \in Index : /\ Own(v)' = Own(v) /\ Gap(v)' = Gap(v)
                             /\ Judged(v)' <=> Judged(v)
                             /\ Nearest(v, m)' <=> Nearest(v, m)
BY DEF Own, Gap, Judged, Nearest, Before, Dst

(* The iteration for the vehicle k, whose nearest object is m.             *)
LEMMA MarkJudge ==
  ASSUME ResultInv, pc = "loop", k \in Index, Judged(k), NEW m \in Index, Nearest(k, m),
         Judge(k, m), k' = k + 1, UNCHANGED worldFrame
  PROVE  NearestInv' /\ \A o \in Index : MarkAt(o)'
<1>0. worldFrame \in Frame /\ NearestInv /\ \A o \in Index : MarkAt(o)
  BY DEF ResultInv, TypeOK
<1>1. /\ nearestObj \in [Index -> Index \cup {0}] /\ riskLevel \in [Index -> RiskLevel]
      /\ (\A v \in Index : v \in Nat /\ v # 0)
  BY NAssumption DEF ResultInv, TypeOK, Index
<1>2. m # k /\ Own(k) = Classify(Dst(k, m)) /\ Own(k) \in RiskLevel
  BY <1>0, NearestGivesGap, OwnType DEF Nearest
<1>3. nearestObj' = [nearestObj EXCEPT ![k] = m]
  BY DEF Judge
<1>4. /\ riskLevel'[k] = Own(k)
      /\ riskLevel'[m] = IF Own(k) > riskLevel[m] THEN Own(k) ELSE riskLevel[m]
      /\ \A o \in Index \ {k, m} : riskLevel'[o] = riskLevel[o]
  BY <1>1, <1>2 DEF Judge, PassOn
<1>5. \A o \in Index : riskLevel'[o] >= riskLevel[o] /\ riskLevel'[o] \in RiskLevel
  BY JudgeHolds DEF ResultInv, Judged
<1>6. \A v \in Index : Own(v)' = Own(v) /\ Own(v) \in RiskLevel
  BY SameFrame, OwnType
<1>7. /\ nearestObj'[k] = m /\ \A v \in Index \ {k} : nearestObj'[v] = nearestObj[v]
      /\ nearestObj[k] = 0
  BY <1>0, <1>1, <1>3 DEF NearestInv, NearestAt
<1>8. \A v \in Index : v < k' <=> v < k \/ v = k
  BY <1>1
<1>9. NearestInv'
  <2>. SUFFICES ASSUME NEW v \in Index PROVE NearestAt(v)'
    BY DEF NearestInv
  <2>1. CASE v = k
    BY <1>7, <1>8, <2>1 DEF NearestAt, Judged, Nearest, Before, Dst
  <2>2. CASE v # k
    BY <1>0, <1>7, <1>8, <2>2 DEF NearestInv, NearestAt, Judged, Nearest, Before, Dst
  <2>. QED
    BY <2>1, <2>2
<1>10. ASSUME NEW o \in Index PROVE MarkAt(o)'
  <2>0. /\ riskLevel[o] \in Int /\ riskLevel'[o] \in Int
        /\ \A v \in Index : Own(v) \in Int
    BY <1>1, <1>5, <1>6, LevelsAreNumbers
  <2>1. o < k' => riskLevel'[o] >= Own(o)
    BY <1>0, <1>4, <1>5, <1>8, <2>0 DEF MarkAt
  <2>2. ASSUME NEW v \in Index, nearestObj'[v] = o PROVE riskLevel'[o] >= Own(v)
    <3>1. CASE v = k
      BY <1>1, <1>4, <1>7, <2>0, <2>2, <3>1
    <3>2. CASE v # k
      BY <1>0, <1>5, <1>7, <2>0, <2>2, <3>2 DEF MarkAt
    <3>. QED
      BY <3>1, <3>2
  <2>3. \/ riskLevel'[o] = None
        \/ o < k' /\ riskLevel'[o] = Own(o)
        \/ \E v \in Index : nearestObj'[v] = o /\ riskLevel'[o] = Own(v)
    <3>1. CASE o = k
      BY <1>4, <1>8, <3>1
    <3>2. CASE o # k /\ riskLevel'[o] # riskLevel[o]
      BY <1>4, <1>7, <3>2
    <3>3. CASE o # k /\ riskLevel'[o] = riskLevel[o]
      <4>1. \A v \in Index : nearestObj[v] = o => nearestObj'[v] = o
        BY <1>1, <1>7
      <4>. QED
        BY <1>0, <1>8, <3>3, <4>1 DEF MarkAt
    <3>. QED
      BY <3>1, <3>2, <3>3
  <2>. QED
    BY <1>6, <2>1, <2>2, <2>3 DEF MarkAt
<1>. QED
  BY <1>9, <1>10

(* A vehicle that was judged has a gap, and a worse level means a smaller  *)
(* one.                                                                    *)
LEMMA GapOfJudged ==
  ASSUME worldFrame \in Frame, NearestInv, NEW v \in Index, v < k, Own(v) # None
  PROVE  Gap(v) \in Nat /\ Own(v) = Classify(Gap(v))
<1>1. Judged(v)
  BY DEF Own
<1>2. nearestObj[v] \in Index /\ Nearest(v, nearestObj[v])
  BY <1>1 DEF NearestInv, NearestAt
<1>. QED
  BY <1>1, <1>2, NearestGivesGap

LEMMA WorseIsNearer ==
  ASSUME NEW d \in Nat, NEW e \in Nat, Classify(d) > Classify(e)
  PROVE  d < e
<1>1. CASE d >= e
  <2>1. Classify(e) >= Classify(d)
    BY <1>1, ClassifyMonotone
  <2>2. Classify(d) \in Int /\ Classify(e) \in Int
    BY ClassifyType, LevelsAreNumbers
  <2>. QED
    BY <2>1, <2>2
<1>. QED
  BY <1>1

(* The vehicles at risk of a zone after the iteration for k.               *)
LEMMA AtRiskGrows ==
  ASSUME k \in Index, k' = k + 1, UNCHANGED worldFrame, NEW z \in Zone
  PROVE  AtRisk(z)' = IF worldFrame.zoneId[k] = z /\ Own(k) # None THEN AtRisk(z) \cup {k} ELSE AtRisk(z)
<1>1. (\A v \in Index : v \in Nat) /\ k \in Nat
  BY NAssumption DEF Index
<1>2. \A v \in Index : v < k' <=> v < k \/ v = k
  BY <1>1
<1>3. ASSUME NEW v \in Index PROVE v \in AtRisk(z)' <=> v < k' /\ worldFrame.zoneId[v] = z /\ Own(v) # None
  <2>1. Own(v)' = Own(v)
    BY SameFrame
  <2>. QED
    BY <2>1 DEF AtRisk
<1>4. AtRisk(z)' \subseteq Index
  BY DEF AtRisk
<1>. QED
  BY <1>2, <1>3, <1>4 DEF AtRisk

(* Its zone takes the vehicle in.                                          *)
LEMMA ZoneJudge ==
  ASSUME ResultInv, pc = "loop", k \in Index, Judged(k), NEW m \in Index, Nearest(k, m),
         Judge(k, m), k' = k + 1, UNCHANGED worldFrame, NEW z \in Zone
  PROVE  ZoneAt(z)'
<1>. DEFINE l == Own(k)
            d == Gap(k)
            old == zoneLevels[z]
            new == zoneLevels'[z]
<1>0. worldFrame \in Frame /\ NearestInv /\ ZoneAt(z) /\ zoneLevels \in [Zone -> ZoneLevel]
  BY DEF ResultInv, TypeOK
<1>1. (\A v \in Index : v \in Nat) /\ k \in Nat
  BY NAssumption DEF Index
<1>2. l = Classify(d) /\ d = Dst(k, m) /\ d \in Nat /\ l \in RiskLevel
  BY <1>0, NearestGivesGap, OwnType
<1>3. zoneLevels' = IF l # None /\ worldFrame.zoneId[k] \in Zone
                    THEN Aggregate(worldFrame.zoneId[k], l, d) ELSE zoneLevels
  BY <1>2 DEF Judge
<1>4. \A v \in Index : Own(v)' = Own(v) /\ Gap(v)' = Gap(v) /\ Own(v) \in RiskLevel
  BY SameFrame, OwnType
<1>5. /\ old \in ZoneLevel /\ old.level \in RiskLevel /\ old.level \in Int
      /\ old.minDist \in Nat \cup {-1} /\ l \in Int
  BY <1>0, <1>2, LevelsAreNumbers DEF ZoneLevel
<1>6. \A v \in AtRisk(z) : v \in Index /\ Gap(v) \in Nat /\ Own(v) = Classify(Gap(v)) /\ Own(v) \in Int
  BY <1>0, <1>4, GapOfJudged, LevelsAreNumbers DEF AtRisk
<1>. HIDE DEF l, d
<1>7. CASE worldFrame.zoneId[k] = z /\ l # None
  <2>1. AtRisk(z)' = AtRisk(z) \cup {k}
    BY <1>7, AtRiskGrows DEF l
  <2>2. new = IF l > old.level THEN [level |-> l, minDist |-> d]
              ELSE IF l = old.level /\ (old.minDist < 0 \/ d < old.minDist)
                   THEN [old EXCEPT !.minDist = d] ELSE old
    BY <1>0, <1>3, <1>7 DEF Aggregate
  <2>3. l > None
    BY <1>2, <1>7 DEF RiskLevel, None, Warning, Danger
  <2>4. CASE l > old.level
    <3>1. new.level = l /\ new.minDist = d
      BY <2>2, <2>4
    <3>2. ASSUME NEW v \in AtRisk(z) PROVE l >= Own(v) /\ d <= Gap(v)
      <4>1. old.level >= Own(v)
        BY <1>0 DEF ZoneAt
      <4>2. Own(v) \in Int /\ Gap(v) \in Nat /\ Own(v) = Classify(Gap(v))
        BY <1>6
      <4>3. l > Own(v)
        BY <1>5, <2>4, <4>1, <4>2
      <4>4. d < Gap(v)
        BY <1>2, <4>2, <4>3, WorseIsNearer
      <4>. QED
        BY <1>2, <1>5, <4>2, <4>3, <4>4
    <3>3. \A v \in AtRisk(z)' : new.level >= Own(v) /\ new.minDist <= Gap(v)
      BY <1>2, <1>5, <2>1, <3>1, <3>2 DEF l, d
    <3>4. new.level = Own(k) /\ new.minDist = Gap(k) /\ k \in AtRisk(z)'
      BY <2>1, <3>1 DEF l, d
    <3>. QED
      BY <1>4, <2>1, <3>3, <3>4 DEF ZoneAt, AtRisk
  <2>5. CASE ~(l > old.level)
    <3>1. AtRisk(z) # {}
      BY <1>0, <1>5, <2>3, <2>5 DEF ZoneAt, None
    <3>2. PICK w \in AtRisk(z) : old.level = Own(w)
      BY <1>0, <3>1 DEF ZoneAt
    <3>3. PICK u \in AtRisk(z) : old.minDist = Gap(u)
      BY <1>0, <3>1 DEF ZoneAt
    <3>4. old.minDist \in Nat
      BY <1>6, <3>3
    <3>5. CASE l = old.level /\ d < old.minDist
      <4>1. new = [old EXCEPT !.minDist = d]
        BY <1>2, <1>5, <2>2, <2>5, <3>4, <3>5
      <4>2. new.level = l /\ new.minDist = d
        BY <1>2, <1>5, <3>5, <4>1 DEF ZoneLevel
      <4>3. \A v \in AtRisk(z) : l >= Own(v) /\ d <= Gap(v)
        BY <1>0, <1>2, <1>5, <1>6, <3>4, <3>5 DEF ZoneAt
      <4>4. \A v \in AtRisk(z)' : new.level >= Own(v) /\ new.minDist <= Gap(v)
        BY <1>2, <1>5, <2>1, <4>2, <4>3 DEF l, d
      <4>5. new.level = Own(k) /\ new.minDist = Gap(k) /\ k \in AtRisk(z)'
        BY <2>1, <4>2 DEF l, d
      <4>. QED
        BY <1>4, <2>1, <4>4, <4>5 DEF ZoneAt, AtRisk
    <3>6. CASE ~(l = old.level /\ d < old.minDist)
      <4>1. new = old
        BY <2>2, <2>5, <3>4, <3>6
      <4>2. old.minDist <= d
        <5>1. CASE l = old.level
          BY <1>2, <3>4, <3>6, <5>1
        <5>2. CASE l < old.level
          <6>1. old.minDist <= Gap(w)
            BY <1>0 DEF ZoneAt
          <6>2. d > Gap(w)
            BY <1>2, <1>6, <3>2, <5>2, WorseIsNearer
          <6>3. Gap(w) \in Nat
            BY <1>6
          <6>. QED
            BY <1>2, <3>4, <6>1, <6>2, <6>3
        <5>. QED
          BY <1>5, <2>5, <5>1, <5>2
      <4>3. \A v \in AtRisk(z)' : new.level >= Own(v) /\ new.minDist <= Gap(v)
        BY <1>0, <1>5, <2>1, <2>5, <4>1, <4>2 DEF ZoneAt, l, d
      <4>4. /\ w \in AtRisk(z)' /\ new.level = Own(w)
            /\ u \in AtRisk(z)' /\ new.minDist = Gap(u)
        BY <2>1, <3>2, <3>3, <4>1
      <4>. QED
        BY <1>4, <2>1, <4>3, <4>4 DEF ZoneAt, AtRisk
    <3>. QED
      BY <3>5, <3>6
  <2>. QED
    BY <2>4, <2>5
<1>8. CASE ~(worldFrame.zoneId[k] = z /\ l # None)
  <2>1. AtRisk(z)' = AtRisk(z)
    BY <1>8, AtRiskGrows DEF l
  <2>2. new = old
    BY <1>0, <1>3, <1>8 DEF Aggregate
  <2>. QED
    BY <1>0, <1>4, <2>1, <2>2 DEF ZoneAt, AtRisk
<1>. QED
  BY <1>7, <1>8

(* An aggregate is a value of the buffer.                                  *)
LEMMA AggregateType ==
  ASSUME zoneLevels \in [Zone -> ZoneLevel], NEW z \in Zone, NEW l \in RiskLevel, NEW d \in Nat
  PROVE  Aggregate(z, l, d) \in [Zone -> ZoneLevel]
<1>1. zoneLevels[z] \in ZoneLevel
  OBVIOUS
<1>2. [level |-> l, minDist |-> d] \in ZoneLevel
  BY DEF ZoneLevel
<1>3. [zoneLevels[z] EXCEPT !.minDist = d] \in ZoneLevel
  BY <1>1 DEF ZoneLevel
<1>. QED
  BY <1>1, <1>2, <1>3 DEF Aggregate

LEMMA ResultInit == Init => ResultInv
<1>. SUFFICES ASSUME Init PROVE ResultInv
  OBVIOUS
<1>1. Unmarked \in [Zone -> ZoneLevel] /\ LeftOver \in [Zone -> ZoneLevel]
  BY DEF Unmarked, LeftOver, ZoneLevel, RiskLevel, None, Danger
<1>2. TypeOK
  BY <1>1, NAssumption DEF Init, TypeOK, RiskLevel, None
<1>. QED
  BY <1>2, InitHolds DEF Init, ResultInv

(* The buffers are cleared, whatever an earlier evaluation left in them.   *)
LEMMA ResultStart ==
  ASSUME ResultInv, Start
  PROVE  ResultInv'
<1>1. k = 1 /\ k' = 1 /\ pc' = "loop" /\ (\A v \in Index : ~(v < k') /\ v # 0)
  BY NAssumption DEF ResultInv, Start, Index
<1>2. TypeOK'
  BY NAssumption DEF ResultInv, TypeOK, Start, Unmarked, ZoneLevel, RiskLevel, None
<1>3. LoopInv'
  BY StepHolds DEF ResultInv, Next
<1>4. NearestInv'
  BY <1>1 DEF Start, NearestInv, NearestAt
<1>5. ASSUME NEW o \in Index PROVE MarkAt(o)'
  BY <1>1 DEF Start, MarkAt
<1>6. ASSUME NEW z \in Zone PROVE ZoneAt(z)'
  <2>1. AtRisk(z)' = {}
    BY <1>1 DEF AtRisk
  <2>. QED
    BY <2>1 DEF Start, Unmarked, ZoneAt
<1>. QED
  BY <1>1, <1>2, <1>3, <1>4, <1>5, <1>6 DEF ResultInv

LEMMA ResultIterate ==
  ASSUME ResultInv, Iterate
  PROVE  ResultInv'
<1>1. /\ pc = "loop" /\ pc' = "loop" /\ k \in Index /\ k' = k + 1 /\ k' \in 1 .. N + 1
      /\ UNCHANGED <<worldFrame, level>>
  BY NAssumption DEF ResultInv, TypeOK, Iterate, Index
<1>2. LoopInv'
  BY StepHolds DEF ResultInv, Next
<1>3. TypeOK /\ NearestInv /\ (\A o \in Index : MarkAt(o)) /\ (\A z \in Zone : ZoneAt(z))
  BY <1>1 DEF ResultInv
<1>4. riskLevel' \in [Index -> RiskLevel]
  BY <1>2 DEF LoopInv, LoopType
<1>5. CASE Judged(k)
  <2>1. PICK m \in Index : Nearest(k, m) /\ Judge(k, m)
    BY <1>5 DEF Iterate
  <2>2. NearestInv' /\ \A o \in Index : MarkAt(o)'
    BY <1>1, <1>5, <2>1, MarkJudge
  <2>3. ASSUME NEW z \in Zone PROVE ZoneAt(z)'
    BY <1>1, <1>5, <2>1, ZoneJudge
  <2>4. nearestObj' \in [Index -> Index \cup {0}]
    BY <1>3, <2>1 DEF TypeOK, Judge
  <2>5. zoneLevels' \in [Zone -> ZoneLevel]
    <3>1. Dst(k, m) \in Nat /\ Classify(Dst(k, m)) \in RiskLevel
      BY <1>1, <1>3, <2>1, Symmetric, ClassifyType DEF TypeOK, Nearest
    <3>. QED
      BY <1>3, <2>1, <3>1, AggregateType DEF TypeOK, Judge
  <2>6. TypeOK'
    BY <1>1, <1>3, <1>4, <2>4, <2>5 DEF TypeOK
  <2>. QED
    BY <1>1, <1>2, <2>2, <2>3, <2>6 DEF ResultInv
<1>6. CASE ~Judged(k)
  <2>1. UNCHANGED <<riskLevel, nearestObj, zoneLevels>>
    BY <1>6 DEF Iterate
  <2>2. Own(k) = None /\ (\A v \in Index : v \in Nat /\ (v < k' <=> v < k \/ v = k))
    BY <1>1, <1>6, NAssumption DEF Own, Index
  <2>3. NearestInv'
    <3>. SUFFICES ASSUME NEW v \in Index PROVE NearestAt(v)'
      BY DEF NearestInv
    <3>. QED
      BY <1>1, <1>3, <1>6, <2>1, <2>2 DEF NearestInv, NearestAt, Judged, Nearest, Before, Dst
  <2>4. ASSUME NEW o \in Index PROVE MarkAt(o)'
    <3>1. \A v \in Index : Own(v)' = Own(v)
      BY <1>1, SameFrame
    <3>2. riskLevel[o] \in Int /\ riskLevel[o] >= None
      BY <1>3, LevelsAreNumbers DEF TypeOK
    <3>. QED
      BY <1>3, <2>1, <2>2, <3>1, <3>2 DEF MarkAt
  <2>5. ASSUME NEW z \in Zone PROVE ZoneAt(z)'
    <3>1. AtRisk(z)' = AtRisk(z)
      BY <1>1, <2>2, AtRiskGrows
    <3>2. \A v \in Index : Own(v)' = Own(v) /\ Gap(v)' = Gap(v)
      BY <1>1, SameFrame
    <3>. QED
      BY <1>3, <2>1, <3>1, <3>2 DEF ZoneAt, AtRisk
  <2>6. TypeOK'
    BY <1>1, <1>3, <2>1 DEF TypeOK
  <2>. QED
    BY <1>1, <1>2, <2>3, <2>4, <2>5, <2>6 DEF ResultInv
<1>. QED
  BY <1>5, <1>6

(* The loop is left with what it has found.                                *)
LEMMA SameResult ==
  ASSUME UNCHANGED <<worldFrame, k, riskLevel, nearestObj, zoneLevels>>,
         NearestInv, \A o \in Index : MarkAt(o), \A z \in Zone : ZoneAt(z)
  PROVE  NearestInv' /\ (\A o \in Index : MarkAt(o)') /\ (\A z \in Zone : ZoneAt(z)')
<1>1. NearestInv'
  BY DEF NearestInv, NearestAt, Judged, Nearest, Before, Dst
<1>2. \A v \in Index : Own(v)' = Own(v) /\ Gap(v)' = Gap(v)
  BY SameFrame
<1>3. ASSUME NEW o \in Index PROVE MarkAt(o)'
  BY <1>2 DEF MarkAt
<1>4. ASSUME NEW z \in Zone PROVE ZoneAt(z)'
  <2>1. AtRisk(z)' = AtRisk(z)
    BY DEF AtRisk, Own, Gap, Judged, Dst
  <2>. QED
    BY <1>2, <2>1 DEF ZoneAt, AtRisk
<1>. QED
  BY <1>1, <1>3, <1>4

(* The worst of the zones is a level, since there is a zone.               *)
LEMMA ResultFinish ==
  ASSUME ResultInv, Finish
  PROVE  ResultInv'
<1>. DEFINE S == {zoneLevels[z].level : z \in Zone}
<1>1. TypeOK /\ pc = "loop" /\ pc' = "done" /\ k = N + 1 /\ k' = k
  BY DEF ResultInv, Finish
<1>2. S \in SUBSET RiskLevel /\ S # {}
  <2>1. 0 \in Zone
    BY NAssumption DEF Zone
  <2>. QED
    BY <1>1, <2>1 DEF TypeOK, ZoneLevel
<1>3. Max(S) \in RiskLevel
  BY <1>2, LevelsHaveMax
<1>4. TypeOK'
  BY <1>1, <1>3 DEF TypeOK, Finish
<1>5. LoopInv'
  BY StepHolds DEF ResultInv, Next
<1>6. UNCHANGED <<worldFrame, k, riskLevel, nearestObj, zoneLevels>>
  BY DEF Finish
<1>7. NearestInv' /\ (\A o \in Index : MarkAt(o)') /\ (\A z \in Zone : ZoneAt(z)')
  BY <1>1, <1>6, SameResult DEF ResultInv
<1>8. level' = Max({zoneLevels'[z].level : z \in Zone})
  BY <1>6 DEF Finish
<1>. QED
  BY <1>1, <1>4, <1>5, <1>7, <1>8 DEF ResultInv

LEMMA ResultHolds == Spec => []ResultInv
<1>1. ResultInv /\ Next => ResultInv'
  BY ResultStart, ResultIterate, ResultFinish DEF Next
<1>2. ResultInv /\ UNCHANGED riskVars => ResultInv'
  <2>. SUFFICES ASSUME ResultInv, UNCHANGED riskVars PROVE ResultInv'
    OBVIOUS
  <2>1. TypeOK' /\ LoopInv'
    BY DEF riskVars, ResultInv, TypeOK, LoopInv, LoopType, Passed, Dst
  <2>2. pc' # "start" => NearestInv' /\ (\A o \in Index : MarkAt(o)') /\ (\A z \in Zone : ZoneAt(z)')
    BY SameResult DEF riskVars, ResultInv
  <2>. QED
    BY <2>1, <2>2 DEF riskVars, ResultInv
<1>. QED
  BY <1>1, <1>2, ResultInit, PTL DEF Spec

(* The variables keep their types, and the loop ends after the last        *)
(* object.                                                                 *)
THEOREM TypeCorrect == Spec => []TypeOK
<1>1. ResultInv => TypeOK
  BY DEF ResultInv
<1>. QED
  BY <1>1, ResultHolds, PTL

(* Everyone involved is marked with the worst level he is involved in,     *)
(* whatever the order of the objects.                                      *)
THEOREM InvolvedAreMarkedHolds == Spec => []InvolvedAreMarked
<1>1. ResultInv => InvolvedAreMarked
  <2>. SUFFICES ASSUME ResultInv, pc = "done", NEW o \in Index
                PROVE  riskLevel[o] = Worst({Own(o)} \cup {Own(v) : v \in {w \in Index : nearestObj[w] = o}})
    BY DEF InvolvedAreMarked
  <2>. DEFINE S == ({Own(o)} \cup {Own(v) : v \in {w \in Index : nearestObj[w] = o}}) \cup {None}
  <2>1. o < k
    BY NAssumption DEF ResultInv, TypeOK, Index
  <2>2. riskLevel[o] \in Int /\ riskLevel[o] >= None
    BY LevelsAreNumbers DEF ResultInv, TypeOK
  <2>3. S \in SUBSET Int
    BY OwnType, LevelsAreNumbers DEF None
  <2>4. MarkAt(o)
    BY DEF ResultInv
  <2>5. riskLevel[o] \in S /\ \A y \in S : riskLevel[o] >= y
    BY <2>1, <2>2, <2>4 DEF MarkAt
  <2>6. Max(S) = riskLevel[o]
    BY <2>3, <2>5, MaxIs
  <2>. QED
    BY <2>6 DEF Worst
<1>. QED
  BY <1>1, ResultHolds, PTL

(* The lamp of every zone, and the frame, show the worst level.            *)
THEOREM ZoneIsWorstHolds == Spec => []ZoneIsWorst
<1>1. ResultInv => ZoneIsWorst
  <2>. SUFFICES ASSUME ResultInv, pc = "done" PROVE ZoneIsWorst
    BY DEF ZoneIsWorst
  <2>0. /\ worldFrame \in Frame /\ NearestInv /\ zoneLevels \in [Zone -> ZoneLevel]
        /\ (\A v \in Index : v < k) /\ (\A z \in Zone : ZoneAt(z))
        /\ level = Max({zoneLevels[z].level : z \in Zone})
    BY NAssumption DEF ResultInv, TypeOK, Index
  <2>1. \A v : Own(v) \in Int /\ Own(v) >= None
    BY OwnType, LevelsAreNumbers
  <2>2. \A z \in Zone : /\ zoneLevels[z].level \in RiskLevel /\ zoneLevels[z].level \in Int
                        /\ zoneLevels[z].level >= None
                        /\ zoneLevels[z] = [level |-> zoneLevels[z].level, minDist |-> zoneLevels[z].minDist]
    BY <2>0, LevelsAreNumbers DEF ZoneLevel
  <2>3. ASSUME NEW z \in Zone
        PROVE  LET at == {v \in Index : worldFrame.zoneId[v] = z /\ Own(v) # None}
               IN  zoneLevels[z] = [level |-> Worst({Own(v) : v \in at}),
                                    minDist |-> IF at = {} THEN -1 ELSE Min({Gap(v) : v \in at})]
    <3>. DEFINE at == {v \in Index : worldFrame.zoneId[v] = z /\ Own(v) # None}
                S == {Own(v) : v \in at} \cup {None}
                G == {Gap(v) : v \in at}
    <3>1. at = AtRisk(z) /\ ZoneAt(z)
      BY <2>0, <2>3 DEF AtRisk
    <3>2. S \in SUBSET Int
      BY <2>1 DEF None
    <3>. HIDE DEF at
    <3>3. zoneLevels[z].level \in S /\ \A y \in S : zoneLevels[z].level >= y
      <4>1. \A v \in at : zoneLevels[z].level >= Own(v)
        BY <3>1 DEF ZoneAt
      <4>2. zoneLevels[z].level >= None
        BY <2>2, <2>3
      <4>3. CASE at = {}
        BY <3>1, <4>2, <4>3 DEF ZoneAt
      <4>4. CASE at # {}
        <5>1. PICK v \in at : zoneLevels[z].level = Own(v)
          BY <3>1, <4>4 DEF ZoneAt
        <5>. QED
          BY <4>1, <4>2, <5>1
      <4>. QED
        BY <4>3, <4>4
    <3>4. Max(S) = zoneLevels[z].level
      BY <3>2, <3>3, MaxIs
    <3>5. at # {} => zoneLevels[z].minDist = Min(G)
      <4>. SUFFICES ASSUME at # {} PROVE zoneLevels[z].minDist = Min(G)
        OBVIOUS
      <4>1. G \in SUBSET Int
        BY <2>0, <3>1, GapOfJudged DEF AtRisk
      <4>2. zoneLevels[z].minDist \in G /\ \A y \in G : zoneLevels[z].minDist <= y
        BY <3>1 DEF ZoneAt
      <4>. QED
        BY <4>1, <4>2, MinIs
    <3>6. at = {} => zoneLevels[z].minDist = -1
      BY <3>1 DEF ZoneAt
    <3>7. zoneLevels[z] = [level |-> Worst({Own(v) : v \in at}),
                           minDist |-> IF at = {} THEN -1 ELSE Min({Gap(v) : v \in at})]
      BY <2>2, <2>3, <3>4, <3>5, <3>6 DEF Worst
    <3>. QED
      BY <3>7 DEF at
  <2>4. level = Worst({Own(v) : v \in {w \in Index : worldFrame.zoneId[w] \in Zone}})
    <3>. DEFINE L == {zoneLevels[z].level : z \in Zone}
                S == {Own(v) : v \in {w \in Index : worldFrame.zoneId[w] \in Zone}} \cup {None}
    <3>1. L \in SUBSET RiskLevel /\ L # {}
      <4>1. 0 \in Zone
        BY NAssumption DEF Zone
      <4>. QED
        BY <2>2, <4>1
    <3>2. level \in L /\ \A y \in L : level >= y
      BY <2>0, <3>1, LevelsHaveMax
    <3>3. PICK z \in Zone : level = zoneLevels[z].level
      BY <3>2
    <3>4. level \in S
      <4>1. CASE AtRisk(z) = {}
        BY <2>0, <3>3, <4>1 DEF ZoneAt
      <4>2. CASE AtRisk(z) # {}
        <5>1. PICK v \in AtRisk(z) : zoneLevels[z].level = Own(v)
          BY <2>0, <4>2 DEF ZoneAt
        <5>2. v \in Index /\ worldFrame.zoneId[v] \in Zone
          BY <5>1 DEF AtRisk
        <5>. QED
          BY <3>3, <5>1, <5>2
      <4>. QED
        BY <4>1, <4>2
    <3>5. ASSUME NEW v \in Index, worldFrame.zoneId[v] \in Zone PROVE level >= Own(v)
      <4>1. CASE Own(v) = None
        BY <2>2, <3>3, <4>1
      <4>2. CASE Own(v) # None
        <5>1. PICK y \in Zone : y = worldFrame.zoneId[v]
          BY <3>5
        <5>2. zoneLevels[y].level >= Own(v) /\ level >= zoneLevels[y].level
          BY <2>0, <3>2, <3>5, <4>2, <5>1 DEF ZoneAt, AtRisk
        <5>3. level \in Int /\ zoneLevels[y].level \in Int /\ Own(v) \in Int
          BY <2>1, <2>2, <3>3
        <5>. QED
          BY <5>2, <5>3
      <4>. QED
        BY <4>1, <4>2
    <3>6. S \in SUBSET Int /\ \A y \in S : level >= y
      <4>1. level >= None
        BY <2>2, <3>3
      <4>2. \A y \in S : y = None \/ \E v \in Index : worldFrame.zoneId[v] \in Zone /\ y = Own(v)
        OBVIOUS
      <4>. QED
        BY <2>1, <3>5, <4>1, <4>2 DEF None
    <3>7. Max(S) = level
      BY <3>4, <3>6, MaxIs
    <3>. QED
      BY <3>7 DEF Worst
  <2>. QED
    BY <2>3, <2>4 DEF ZoneIsWorst
<1>. QED
  BY <1>1, ResultHolds, PTL

=============================================================================
