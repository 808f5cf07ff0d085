---------------------------- MODULE ParkingPolicy ----------------------------
(***************************************************************************)
(* StationaryParkingPolicy: a vehicle that stands still in a parking space *)
(* for stationaryDuration is taken out of the frame, and so out of the     *)
(* risk evaluation.  The timestamp of a frame is the latest one of the     *)
(* cameras that took part in the window (GridFuser::fuse), and the clock   *)
(* of the server when there was none (Controller::processPipeline), so it  *)
(* may go back from one frame to the next.                                 *)
(*                                                                         *)
(* A gid belongs to one vehicle of the frame: GridFuser gives it to one    *)
(* object only and keeps it within a class.  The geometry is a relation.   *)
(***************************************************************************)
EXTENDS Integers

CONSTANTS
  Gid,                   \* the vehicles
  Pos, Space,            \* places, and those inside a parking space
  Near(_, _),            \* within movementToleranceM of each other
  stationaryDuration,
  maxObservationGap,
  Channel, Skew,         \* the cameras and how far their clocks are ahead
  STEP,                  \* time between two windows
  END,                   \* bound on the clock
  NONE

ASSUME SpaceAssumption == Space \subseteq Pos
ASSUME NearAssumption == \A p, q \in Pos : Near(p, q) \in BOOLEAN /\ Near(p, p)
ASSUME TimeAssumption ==
  /\ stationaryDuration \in Nat \ {0} /\ maxObservationGap \in Nat \ {0}
  /\ Skew \in [Channel -> Nat] /\ STEP \subseteq Nat /\ END \in Nat

Object == [pos : Pos, observed : BOOLEAN]       \* observed: sourceChannels is not empty
VehicleState == [anchor : Pos, since : Nat, last : Nat, parked : BOOLEAN]
Rest == [pos : Pos, since : Nat]

ASSUME NoneAssumption == NONE \notin Object /\ NONE \notin VehicleState /\ NONE \notin Rest

VARIABLES
  now,       \* the clock of the server
  frame,     \* the objects of the last frame
  states,    \* states_
  hidden,    \* the vehicles taken out of the last frame
  cands,     \* history: places the vehicle has not left, and since when
  still,     \* history: the place where it was always seen, and since when
  seen       \* history: timestamp of the last observation

policyVars == <<states, hidden>>
historyVars == <<cands, still, seen>>
vars == <<now, frame, policyVars, historyVars>>

(* Type correctness; only a vehicle that the last frame shows in a parking *)
(* space has an entry in states_.                                          *)
TypeOK ==
  /\ now \in Nat
  /\ frame \in [Gid -> Object \cup {NONE}]
  /\ states \in [Gid -> VehicleState \cup {NONE}]
  /\ hidden \subseteq Gid
  /\ cands \in [Gid -> SUBSET Rest]
  /\ still \in [Gid -> Rest \cup {NONE}]
  /\ seen \in [Gid -> Nat]
  /\ \A g \in Gid : states[g] # NONE => frame[g] # NONE /\ frame[g].pos \in Space

Init ==
  /\ now = 1
  /\ frame = [g \in Gid |-> NONE]
  /\ states = [g \in Gid |-> NONE]
  /\ hidden = {}
  /\ cands = [g \in Gid |-> {}]
  /\ still = [g \in Gid |-> NONE]
  /\ seen = [g \in Gid |-> 0]

-----------------------------------------------------------------------------
(* What a window may bring: a vehicle that is seen, or that GridFuser lets *)
(* coast at its last place, or that is gone.                               *)
Coasted(o) == [pos |-> o.pos, observed |-> FALSE]

FrameOf(active, f) ==
  \A g \in Gid :
    f[g] # NONE => IF f[g].observed THEN active # {}
                   ELSE frame[g] # NONE /\ f[g] = Coasted(frame[g])

(* worldFrame.timestamp: the latest of the cameras that took part.         *)
Stamps(active, t) ==
  IF active = {} THEN {t}
  ELSE {t + Skew[c] : c \in {a \in active : \A b \in active : Skew[b] <= Skew[a]}}

-----------------------------------------------------------------------------
(* The vehicle does not count as standing where it stood.                  *)
Disturbed(s, o, t) ==
  \/ ~Near(o.pos, s.anchor)
  \/ t < s.last
  \/ t - s.last > maxObservationGap

Fresh(o, t) == [anchor |-> o.pos, since |-> t, last |-> t, parked |-> FALSE]

(* Mutant: the anchor follows the vehicle.                                 *)
observeFollows(s, o, t) ==
  IF s = NONE \/ Disturbed(s, o, t) THEN Fresh(o, t)
  ELSE [s EXCEPT !.anchor = o.pos, !.last = t, !.parked = t - s.since >= stationaryDuration]

observe(s, o, t) ==
  IF s = NONE \/ Disturbed(s, o, t) THEN Fresh(o, t)
  ELSE [s EXCEPT !.last = t, !.parked = t - s.since >= stationaryDuration]

(* Mutant: a coasting vehicle starts anew.                                 *)
shouldSuppressCoastResets(s, o, t) ==
  IF o = NONE \/ o.pos \notin Space \/ ~o.observed THEN NONE ELSE observe(s, o, t)

(* The entry after the frame; its parked is shouldSuppress's result.  The  *)
(* entry of a vehicle that is not in a parking space is not marked seen    *)
(* and dropped; a coasting vehicle is no evidence and keeps its entry.     *)
shouldSuppress(s, o, t) ==
  CASE o = NONE \/ o.pos \notin Space -> NONE
    [] OTHER -> IF o.observed THEN observe(s, o, t) ELSE s

(* What an observer who keeps every place and time would know.             *)
Regular(g, t) == seen[g] <= t /\ t - seen[g] <= maxObservationGap

Record(f, t) ==
  /\ cands' = [g \in Gid |->
       CASE f[g] = NONE \/ f[g].pos \notin Space -> {}
         [] OTHER -> IF ~f[g].observed THEN cands[g]
                     ELSE {c \in cands[g] : Regular(g, t) /\ Near(f[g].pos, c.pos)}
                            \cup {[pos |-> f[g].pos, since |-> t]}]
  /\ still' = [g \in Gid |->
       CASE f[g] = NONE \/ f[g].pos \notin Space -> NONE
         [] OTHER -> IF \/ ~f[g].observed
                        \/ still[g] # NONE /\ Regular(g, t) /\ f[g].pos = still[g].pos
                     THEN still[g]
                     ELSE [pos |-> f[g].pos, since |-> t]]
  /\ seen' = [g \in Gid |-> IF f[g] # NONE /\ f[g].observed THEN t ELSE seen[g]]

apply(f, t) ==
  /\ frame' = f
  /\ states' = [g \in Gid |-> shouldSuppress(states[g], f[g], t)]
  /\ hidden' = {g \in Gid : states'[g] # NONE /\ states'[g].parked}
  /\ Record(f, t)

(* A window closes.                                                        *)
processPipeline ==
  \E d \in STEP, active \in SUBSET Channel :
    /\ now + d <= END
    /\ now' = now + d
    /\ \E f \in [Gid -> Object \cup {NONE}], t \in Stamps(active, now') :
         FrameOf(active, f) /\ apply(f, t)

Next == processPipeline

Spec == Init /\ [][Next]_vars

-----------------------------------------------------------------------------
(* Only a standing vehicle is taken out of the risk evaluation: at the     *)
(* time it was seen last it had been in a parking space, at one place and  *)
(* without a gap in the observations, for stationaryDuration, and it has   *)
(* not left the space since.                                               *)
HiddenMeansStill ==
  \A g \in hidden :
    /\ frame[g] # NONE /\ frame[g].pos \in Space
    /\ \E c \in cands[g] : seen[g] - c.since >= stationaryDuration

(* A vehicle that was always seen at the very same place of a parking      *)
(* space, with timestamps that do not go back and without a gap, for       *)
(* stationaryDuration is taken out, and it stays out while it coasts.      *)
StillIsHidden ==
  \A g \in Gid :
    still[g] # NONE /\ seen[g] - still[g].since >= stationaryDuration => g \in hidden

=============================================================================
