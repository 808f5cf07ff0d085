------------------------------ MODULE GridFuser ------------------------------
(***************************************************************************)
(* GridFuser::fuse.  Detections of several cameras that lie close together *)
(* become one object; an object gets the gid of the track it continues, by *)
(* the id its camera gave it or by the place where the track should be by  *)
(* now, and a new gid otherwise; a track that is not seen coasts for       *)
(* kMaxMissedWindows.                                                      *)
(*                                                                         *)
(* The world: vehicles on a line, each with a constant speed.  A window    *)
(* has what some cameras see of them, in any order (the frames come in the *)
(* order of their arrival), with ids that may be swapped or missing and    *)
(* with classes that may be wrong.  All coordinates are finite, and        *)
(* tracking is on (trackMaxDistance > 0).                                  *)
(***************************************************************************)
EXTENDS Integers, Sequences, FiniteSets, FiniteSetsExt, Functions

CONSTANTS
  Vehicle,              \* 1 .. n
  Channel,              \* 0 .. m - 1
  Class,
  World,                \* the worlds to look at
  dedupMergeDistance, trackMaxDistance, positionJitterRadius,
  kMaxMissedWindows,
  WINDOWS,              \* bound: number of windows
  ODDITIES              \* bound: number of windows with something missing or wrong

DistanceAssumption ==
  /\ dedupMergeDistance \in Nat /\ positionJitterRadius \in Nat
  /\ trackMaxDistance \in Nat \ {0} /\ kMaxMissedWindows \in Nat

WorldAssumption ==
  /\ IsFiniteSet(Vehicle) /\ IsFiniteSet(Channel)
  /\ \A w \in World : w.start \in [Vehicle -> Int] /\ w.speed \in [Vehicle -> Int]

VARIABLES
  world,                \* where the vehicles start, how far they go in a window, their class
  motionFrame_, nextGlobalId_,
  byGid_, idIndex_,     \* functions on the gids, and on the source ids, that are known
  objects,              \* the frame fuse returned
  gidOf,                \* history: the gid of each vehicle in it, 0 if not seen
  lastSeen, classOf,    \* history: of every gid
  tracked,              \* history: the gid under which a vehicle was last seen for sure
  puzzled,              \* history: vehicles were merged or taken for another class
  oddities              \* number of odd windows so far

fuserVars == <<motionFrame_, nextGlobalId_, byGid_, idIndex_>>
history == <<gidOf, lastSeen, classOf, tracked, puzzled>>
vars == <<world, fuserVars, objects, history, oddities>>

Init ==
  /\ world \in World
  /\ motionFrame_ = 0 /\ nextGlobalId_ = 1
  /\ byGid_ = << >> /\ idIndex_ = << >>
  /\ objects = {}
  /\ gidOf = [v \in Vehicle |-> 0] /\ tracked = [v \in Vehicle |-> 0]
  /\ lastSeen = << >> /\ classOf = << >> /\ puzzled = FALSE /\ oddities = 0

-----------------------------------------------------------------------------
(* What the cameras see.                                                   *)

Id(v, mode) ==
  CASE mode = "nameless" -> 0
    [] mode = "swapped" -> (v % Cardinality(Vehicle)) + 1
    [] OTHER -> v

Place(v, n) == world.start[v] + world.speed[v] * n

Seen(v, ch, mode) ==
  [v |-> v, ch |-> ch, id |-> Id(v, mode),
   cls |-> IF mode = "mistaken" THEN CHOOSE c \in Class : c # world.cls[v] ELSE world.cls[v],
   pos |-> Place(v, motionFrame_ + 1)]

\* candidates_: the detections of sees, camera by camera in the order of
\* `channels', each with its vehicles in the order of `vehicles'.
Candidates(sees, channels, vehicles, mode) ==
  LET n == Len(vehicles)
      slot(k) == <<vehicles[((k - 1) % n) + 1], channels[((k - 1) \div n) + 1]>>
      upTo[k \in 0 .. n * Len(channels)] ==
        IF k = 0 THEN << >>
        ELSE IF slot(k) \in sees THEN Append(upTo[k - 1], Seen(slot(k)[1], slot(k)[2], mode))
        ELSE upTo[k - 1]
  IN  upTo[n * Len(channels)]

Distance(p, q) == IF p > q THEN p - q ELSE q - p

-----------------------------------------------------------------------------
(* Merging.  c is the sequence of candidates_; a root stands for the       *)
(* object of its members.                                                  *)

Mergeable(c, i, j) ==
  c[i].ch # c[j].ch /\ c[i].cls = c[j].cls /\ Distance(c[i].pos, c[j].pos) <= dedupMergeDistance

Channels(c, root, r) == {c[i].ch : i \in {m \in DOMAIN c : root[m] = r}}

Joined(c, root, i, j) ==
  IF /\ i < j /\ Mergeable(c, i, j)
     /\ Channels(c, root, root[i]) \cap Channels(c, root, root[j]) = {}
  THEN [m \in DOMAIN c |-> IF root[m] = root[i] THEN root[j] ELSE root[m]]
  ELSE root

\* The loop over the pairs i < j with its union-find.
ufRoot(c) ==
  LET n == Len(c)
      after[k \in 0 .. n * n] ==
        IF k = 0 THEN [m \in DOMAIN c |-> m]
        ELSE Joined(c, after[k - 1], ((k - 1) \div n) + 1, ((k - 1) % n) + 1)
  IN  after[n * n]

\* The objects, named by their roots; a lower root comes first in the frame.
Members(c, root, r) == {i \in DOMAIN c : root[i] = r}

SumPos(c, root, r) ==
  LET sum[i \in 0 .. Len(c)] ==
        IF i = 0 THEN 0 ELSE sum[i - 1] + (IF root[i] = r THEN c[i].pos ELSE 0)
  IN  sum[Len(c)]

Fused(c, root) ==
  [r \in Range(root) |->
     [members |-> Members(c, root, r), cls |-> c[r].cls,
      pos |-> SumPos(c, root, r) \div Cardinality(Members(c, root, r))]]

\* Two objects of a class that are too close to be told apart by place
Ambiguous(f) ==
  {r \in DOMAIN f : \E q \in DOMAIN f \ {r} :
     f[q].cls = f[r].cls /\ Distance(f[q].pos, f[r].pos) <= positionJitterRadius}

-----------------------------------------------------------------------------
(* Matching objects f with tracks.  An assignment gives every object a gid *)
(* or 0; now is the number of the window.                                  *)

predictPosition(t, now) ==
  IF t.hasMotion THEN t.rawPos + t.motionDelta * (now - t.lastMotionFrame) ELSE t.rawPos

Off(o, t, now) == Distance(o.pos, predictPosition(t, now))

(* Mutant: the cameras' ids are always right.                              *)
ContradictedNever(o, gid, claimed, now) == FALSE

\* Another track that moves is expected closer to the object.
Contradicted(o, gid, claimed, now) ==
  /\ byGid_[gid].hasMotion
  /\ \E g \in DOMAIN byGid_ \ (claimed \cup {gid}) :
       LET t == byGid_[g]
       IN  /\ t.cls = o.cls /\ t.hasMotion
           /\ Distance(o.pos, t.rawPos) <= trackMaxDistance
           /\ Off(o, t, now) < Off(o, byGid_[gid], now)

(* Mutant: the class of the track is not looked at.                        *)
SourceMatchAnyClass(s, o, ambiguous, claimed, now) ==
  /\ s[2] # 0 /\ s \in DOMAIN idIndex_
  /\ LET gid == idIndex_[s]
     IN  /\ gid \notin claimed /\ gid \in DOMAIN byGid_
         /\ ~(ambiguous /\ byGid_[gid].hasMotion)
         /\ Off(o, byGid_[gid], now) <= trackMaxDistance
         /\ ~Contradicted(o, gid, claimed, now)

\* The source id s says that object o continues a track.
SourceMatch(s, o, ambiguous, claimed, now) ==
  /\ s[2] # 0 /\ s \in DOMAIN idIndex_
  /\ LET gid == idIndex_[s]
     IN  /\ gid \notin claimed /\ gid \in DOMAIN byGid_
         /\ byGid_[gid].cls = o.cls
         /\ ~(ambiguous /\ byGid_[gid].hasMotion)
         /\ Off(o, byGid_[gid], now) <= trackMaxDistance
         /\ ~Contradicted(o, gid, claimed, now)

Source(d) == <<d.ch, d.id>>

\* First the source ids, object by object.
SourceStep(c, f, now, a, r) ==
  LET ok == {i \in f[r].members :
               SourceMatch(Source(c[i]), f[r], r \in Ambiguous(f), Range(a), now)}
  IN  IF ok = {} THEN a ELSE [a EXCEPT ![r] = idIndex_[Source(c[Min(ok)])]]

BySource(c, f, now) ==
  LET after[k \in 0 .. Len(c)] ==
        IF k = 0 THEN [r \in DOMAIN f |-> 0]
        ELSE IF k \in DOMAIN f THEN SourceStep(c, f, now, after[k - 1], k)
        ELSE after[k - 1]
  IN  after[Len(c)]

\* Then the others, the closest pair of an object and a track first.
Pairs(f, now, a) ==
  {p \in (DOMAIN f) \X (DOMAIN byGid_) :
     /\ a[p[1]] = 0 /\ p[2] \notin Range(a)
     /\ byGid_[p[2]].cls = f[p[1]].cls
     /\ Off(f[p[1]], byGid_[p[2]], now) <= trackMaxDistance}

Closest(f, now, S) ==
  LET off(p) == Off(f[p[1]], byGid_[p[2]], now)
  IN  CHOOSE p \in S : \A q \in S :
        \/ off(p) < off(q)
        \/ off(p) = off(q) /\ p[1] < q[1]
        \/ off(p) = off(q) /\ p[1] = q[1] /\ p[2] <= q[2]

PlaceStep(f, now, a) ==
  LET p == Closest(f, now, Pairs(f, now, a))
  IN  IF Pairs(f, now, a) = {} THEN a ELSE [a EXCEPT ![p[1]] = p[2]]

ByPlace(a0, f, now) ==
  LET n == Cardinality(DOMAIN f)
      after[k \in 0 .. n] == IF k = 0 THEN a0 ELSE PlaceStep(f, now, after[k - 1])
  IN  after[n]

\* The rest gets new gids, in order.
WithNew(a) ==
  [r \in DOMAIN a |->
     IF a[r] # 0 THEN a[r]
     ELSE nextGlobalId_ + Cardinality({q \in DOMAIN a : q < r /\ a[q] = 0})]

-----------------------------------------------------------------------------
(* The tracks afterwards.                                                  *)

stabilizePosition(previous, raw) ==
  CASE Distance(previous, raw) <= positionJitterRadius -> previous
    [] raw > previous -> raw - positionJitterRadius
    [] OTHER -> raw + positionJitterRadius

OutPos(gid, o) ==
  IF gid \in DOMAIN byGid_ THEN stabilizePosition(byGid_[gid].pos, o.pos) ELSE o.pos

(* Mutant: an ambiguous detection is no sign of life.                      *)
UpdatedUnlessAmbiguous(gid, o, ambiguous, now) ==
  LET t == byGid_[gid]
  IN  IF gid \notin DOMAIN byGid_
      THEN [cls |-> o.cls, rawPos |-> o.pos, pos |-> o.pos, motionDelta |-> 0,
            lastMotionFrame |-> now, hasMotion |-> FALSE, missedWindows |-> 0]
      ELSE IF ambiguous THEN t
      ELSE [cls |-> o.cls, rawPos |-> o.pos, pos |-> OutPos(gid, o),
            motionDelta |-> (o.pos - t.rawPos) \div (now - t.lastMotionFrame),
            lastMotionFrame |-> now, hasMotion |-> TRUE, missedWindows |-> 0]

\* The track of an object that was detected; an ambiguous one only stays alive.
Updated(gid, o, ambiguous, now) ==
  LET t == byGid_[gid]
  IN  IF gid \notin DOMAIN byGid_
      THEN [cls |-> o.cls, rawPos |-> o.pos, pos |-> o.pos, motionDelta |-> 0,
            lastMotionFrame |-> now, hasMotion |-> FALSE, missedWindows |-> 0]
      ELSE IF ambiguous THEN [t EXCEPT !.missedWindows = 0]
      ELSE [cls |-> o.cls, rawPos |-> o.pos, pos |-> OutPos(gid, o),
            motionDelta |-> (o.pos - t.rawPos) \div (now - t.lastMotionFrame),
            lastMotionFrame |-> now, hasMotion |-> TRUE, missedWindows |-> 0]

\* Tracks that were not touched coast, until they have been missed too often.
Coasting(touched) ==
  {g \in DOMAIN byGid_ \ touched : byGid_[g].missedWindows + 1 <= kMaxMissedWindows}

Missed(t) == [t EXCEPT !.missedWindows = @ + 1]

\* a is the final assignment of the objects f of the candidates c.
Track(c, f, a, now) ==
  LET touched == Range(a)
      object(g) == CHOOSE r \in DOMAIN a : a[r] = g
      learns == {r \in DOMAIN f : a[r] \notin DOMAIN byGid_ \/ r \notin Ambiguous(f)}
      named == {i \in DOMAIN c : c[i].id # 0 /\ \E r \in learns : i \in f[r].members}
      learnt == [s \in {Source(c[i]) : i \in named} |->
                   LET i == CHOOSE j \in named : Source(c[j]) = s
                   IN  a[CHOOSE r \in learns : i \in f[r].members]]
  IN  /\ byGid_' = [g \in touched \cup Coasting(touched) |->
                      IF g \in touched
                      THEN Updated(g, f[object(g)], object(g) \in Ambiguous(f), now)
                      ELSE Missed(byGid_[g])]
      /\ LET known == {s \in DOMAIN idIndex_ \ DOMAIN learnt : idIndex_[s] \in DOMAIN byGid_'}
         IN  idIndex_' = [s \in known \cup DOMAIN learnt |->
                            IF s \in DOMAIN learnt THEN learnt[s] ELSE idIndex_[s]]
      /\ objects' = {[gid |-> a[r], cls |-> f[r].cls, pos |-> OutPos(a[r], f[r]), key |-> r]
                       : r \in DOMAIN f}
                    \cup {[gid |-> g, cls |-> byGid_[g].cls, pos |-> byGid_[g].pos, key |-> 0]
                            : g \in Coasting(touched)}


Record(c, f, a, now) ==
  LET at(v) == {r \in DOMAIN f : \E i \in f[r].members : c[i].v = v}
      mixed == \E r \in DOMAIN f : \E i, j \in f[r].members : c[i].v # c[j].v
      split == \E v \in Vehicle : Cardinality(at(v)) > 1
  IN  /\ gidOf' = [v \in Vehicle |-> IF at(v) = {} THEN 0 ELSE a[Min(at(v))]]
      /\ puzzled' = (puzzled \/ mixed \/ split \/ \E i \in DOMAIN c : c[i].cls # world.cls[c[i].v])
      /\ tracked' = [v \in Vehicle |->
                       IF at(v) # {} /\ at(v) \cap Ambiguous(f) = {} THEN a[Min(at(v))]
                       ELSE tracked[v]]
      /\ lastSeen' = [g \in DOMAIN lastSeen \cup Range(a) |->
                        IF g \in Range(a) THEN now ELSE lastSeen[g]]
      /\ classOf' = [g \in DOMAIN classOf \cup Range(a) |->
                        IF g \in DOMAIN classOf THEN classOf[g]
                        ELSE f[CHOOSE r \in DOMAIN f : a[r] = g].cls]

\* One call of fuse.
fuse(c) ==
  LET now == motionFrame_ + 1
  IN  \E root \in {ufRoot(c)} :
      \E f \in {Fused(c, root)} :
      \E matched \in {ByPlace(BySource(c, f, now), f, now)} :
      \E a \in {WithNew(matched)} :
        /\ motionFrame_' = now
        /\ nextGlobalId_' = nextGlobalId_ + Cardinality({r \in DOMAIN f : matched[r] = 0})
        /\ Track(c, f, a, now)
        /\ Record(c, f, a, now)

Orders(S) == {s \in [1 .. Cardinality(S) -> S] : \A x \in S : \E k \in DOMAIN s : s[k] = x}
InOrder(s) == \A i, j \in DOMAIN s : i < j => s[i] < s[j]

\* Every camera sees every vehicle, under its own id.
RegularWindow ==
  /\ motionFrame_ < WINDOWS
  /\ \E channels \in Orders(Channel), vehicles \in Orders(Vehicle) :
       /\ InOrder(channels) /\ InOrder(vehicles)
       /\ fuse(Candidates(Vehicle \X Channel, channels, vehicles, "right"))
  /\ UNCHANGED <<world, oddities>>

\* Anything may be missing, in another order or wrong.
OddWindow ==
  /\ motionFrame_ < WINDOWS /\ oddities < ODDITIES
  /\ oddities' = oddities + 1
  /\ \E c \in {Candidates(sees, channels, vehicles, mode) :
                 sees \in SUBSET (Vehicle \X Channel), channels \in Orders(Channel),
                 vehicles \in Orders(Vehicle), mode \in {"right", "swapped", "nameless", "mistaken"}} :
       fuse(c)
  /\ UNCHANGED world

Next == RegularWindow \/ OddWindow

Spec == Init /\ [][Next]_vars

-----------------------------------------------------------------------------
(* Properties.                                                             *)

\* A gid is one object: no two objects of a frame share it, and it keeps its
\* class for ever, whatever ids and classes the cameras report.
GidIsOneObject ==
  /\ \A o, p \in objects : o.gid = p.gid => o = p
  /\ \A o \in objects : o.cls = classOf[o.gid]

\* An object stays in the frames for kMaxMissedWindows after it was seen
\* last, and not longer.
CoastsThenExpires ==
  {o.gid : o \in objects} =
    {g \in DOMAIN lastSeen : motionFrame_ - lastSeen[g] <= kMaxMissedWindows}

\* The tracks are those of the vehicles and have learnt how they move.
Learnt ==
  /\ DOMAIN byGid_ = Range(tracked)
  /\ \A v, w \in Vehicle : tracked[v] = tracked[w] => v = w
  /\ \A v \in Vehicle :
       LET t == byGid_[tracked[v]]
       IN  /\ t.hasMotion /\ t.motionDelta = world.speed[v]
           /\ predictPosition(t, motionFrame_) = Place(v, motionFrame_)

Apart(n) ==
  \A v, w \in Vehicle : v # w => Distance(Place(v, n), Place(w, n)) > positionJitterRadius

\* No track stands still for so long, by gaps or by ambiguous windows, that
\* its vehicle is out of the reach in which Contradicted looks for it.
InReach(n) ==
  \A v \in Vehicle : Distance(Place(v, n), byGid_[tracked[v]].rawPos) <= trackMaxDistance

\* Vehicles that were told apart and go on at their speed keep their gids when
\* they meet and cross, although cameras miss them or swap their ids; only
\* when they meet must both be seen.
CrossingKeepsGid ==
  [][/\ Learnt /\ InReach(motionFrame_') /\ ~puzzled'
     /\ Apart(motionFrame_') \/ \A v \in Vehicle : gidOf'[v] # 0
     => \A v \in Vehicle : tracked'[v] = tracked[v]]_vars
=============================================================================
