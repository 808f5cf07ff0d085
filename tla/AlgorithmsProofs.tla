-------------------------- MODULE AlgorithmsProofs --------------------------
(***************************************************************************)
(* The sequential algorithms, for every value of their constants.          *)
(* StationaryParkingPolicy hides a vehicle if it stands still, and only    *)
(* then.  The framing of the UART recovers in a silence and accepts no     *)
(* frame with one wrong byte.  GridFuser gives an object one gid, keeps it *)
(* for kMaxMissedWindows, and does not confuse vehicles that cross.        *)
(***************************************************************************)
EXTENDS MCAlgorithms, FiniteSetTheorems, TLAPS

-----------------------------------------------------------------------------
(* Induction without operator parameters: on the elements of a set.        *)

(* A set of natural numbers has a least element.                           *)
LEMMA LeastNat ==
  ASSUME NEW T \in SUBSET Nat, T # {}
  PROVE  \E m \in T : \A i \in T : m <= i
<1>. DEFINE up(n) == 0 .. n
            U == {up(n) : n \in T}
            R == StrictSubsetOrdering(Nat)
            F == FiniteSubsetsOf(Nat)
<1>1. U \subseteq F /\ U # {}
  <2>1. \A n \in T : up(n) \in SUBSET Nat
    OBVIOUS
  <2>2. \A n \in T : IsFiniteSet(up(n))
    <3>. TAKE n \in T
    <3>. QED
      BY 0 \in Int, n \in Int, FS_Interval
  <2>. HIDE DEF up
  <2>. QED
    BY <2>1, <2>2 DEF FiniteSubsetsOf
<1>2. IsWellFoundedOn(R, F)
  BY FS_StrictSubsetOrderingWellFounded
<1>. HIDE DEF U, R, F
<1>3. \E x \in U : \A y \in U : ~(<<y, x>> \in R)
  BY <1>1, <1>2, WFMin
<1>4. PICK m \in T : \A i \in T : ~(<<up(i), up(m)>> \in R)
  BY <1>3 DEF U
<1>5. ASSUME NEW i \in T, i < m PROVE <<up(i), up(m)>> \in R
  <2>1. i \in Nat /\ m \in Nat
    OBVIOUS
  <2>2. up(i) \in SUBSET Nat /\ up(m) \in SUBSET Nat
    BY <2>1
  <2>3. up(i) \subseteq up(m)
    BY <1>5, <2>1
  <2>4. m \in up(m) /\ m \notin up(i)
    BY <1>5, <2>1
  <2>. HIDE DEF up
  <2>. QED
    BY <2>2, <2>3, <2>4 DEF R, StrictSubsetOrdering
<1>6. \A i \in T : ~(i < m)
  <2>. HIDE DEF up
  <2>. QED
    BY <1>4, <1>5
<1>7. \A i \in T : m <= i
  <2>. HIDE DEF up
  <2>. QED
    BY <1>6
<1>. HIDE DEF up
<1>. QED
  BY <1>7

(* What holds of 0 and passes from i to i + 1 holds up to n.               *)
LEMMA InductionUpTo ==
  ASSUME NEW n \in Nat, NEW S, 0 \in S, \A i \in 0 .. n : i < n /\ i \in S => i + 1 \in S
  PROVE  \A i \in 0 .. n : i \in S
<1>. DEFINE T == {i \in 0 .. n : i \notin S}
<1>. SUFFICES ASSUME T # {} PROVE FALSE
  OBVIOUS
<1>0. T \in SUBSET Nat
  OBVIOUS
<1>1. PICK m \in T : \A i \in T : m <= i
  <2>. HIDE DEF T
  <2>. QED
    BY <1>0, LeastNat
<1>2. m # 0 /\ m \in 0 .. n /\ m \notin S
  OBVIOUS
<1>3. m - 1 \in 0 .. n /\ m - 1 \in S
  BY <1>1, <1>2
<1>. QED
  BY <1>2, <1>3

(* The runs of n steps from a: step i takes a state to e[i] of it.          *)
Runs(n, S, a, e) ==
  {g \in [0 .. n -> S] : g[0] = a /\ \A i \in 1 .. n : g[i] = e[i][g[i - 1]]}

(* There is one.                                                           *)
LEMMA Iteration ==
  ASSUME NEW n \in Nat, NEW S, NEW a \in S, NEW e \in [1 .. n -> [S -> S]]
  PROVE  Runs(n, S, a, e) # {}
<1>. DEFINE Is(g, m) == g \in [0 .. m -> S] /\ g[0] = a /\ \A i \in 1 .. m : g[i] = e[i][g[i - 1]]
            T == {m \in 0 .. n : \E g : Is(g, m)}
<1>1. 0 \in T
  <2>1. Is([i \in 0 .. 0 |-> a], 0)
    OBVIOUS
  <2>2. \E g : Is(g, 0)
    BY <2>1
  <2>. QED
    BY <2>2
<1>2. ASSUME NEW m \in 0 .. n, m < n, m \in T PROVE m + 1 \in T
  <2>1. PICK g : Is(g, m)
    BY <1>2
  <2>2. g[m] \in S /\ m + 1 \in 1 .. n
    BY <1>2, <2>1
  <2>3. e[m + 1][g[m]] \in S
    BY <2>2
  <2>. DEFINE x == e[m + 1][g[m]]
              h == [i \in 0 .. m + 1 |-> IF i = m + 1 THEN x ELSE g[i]]
  <2>4. h \in [0 .. m + 1 -> S]
    <3>1. x \in S /\ \A i \in 0 .. m + 1 : i # m + 1 => g[i] \in S
      BY <2>1, <2>3
    <3>. HIDE DEF x
    <3>. QED
      BY <3>1
  <2>5. h[0] = a
    <3>1. h[0] = g[0]
      <4>. HIDE DEF x
      <4>. QED
        OBVIOUS
    <3>. QED
      BY <2>1, <3>1
  <2>6. ASSUME NEW i \in 1 .. m + 1 PROVE h[i] = e[i][h[i - 1]]
    <3>1. CASE i = m + 1
      <4>1. h[i] = x /\ h[i - 1] = g[m]
        <5>. HIDE DEF x
        <5>. QED
          BY <3>1
      <4>. QED
        BY <3>1, <4>1
    <3>2. CASE i \in 1 .. m
      <4>1. h[i] = g[i] /\ h[i - 1] = g[i - 1]
        <5>. HIDE DEF x
        <5>. QED
          BY <3>2
      <4>. QED
        BY <2>1, <3>2, <4>1
    <3>. QED
      BY <3>1, <3>2
  <2>7. Is(h, m + 1)
    BY <2>4, <2>5, <2>6
  <2>8. \E gg : Is(gg, m + 1)
    <3>. HIDE DEF Is, h
    <3>. QED
      BY <2>7
  <2>. HIDE DEF Is
  <2>. QED
    BY <1>2, <2>8
<1>3. n \in T
  <2>1. n \in 0 .. n
    OBVIOUS
  <2>. HIDE DEF T
  <2>. QED
    BY <2>1, <1>1, <1>2, InductionUpTo
<1>. QED
  BY <1>3 DEF Runs

-----------------------------------------------------------------------------
(* The parking policy.                                                     *)

(* What ties the entry of a vehicle to its history: its anchor is a place  *)
(* that the vehicle has not left since the entry's time, and the place     *)
(* where it was seen all along is near that anchor.                        *)
EntryInv(g) ==
  /\ states[g] # NONE =>
       /\ [pos |-> states[g].anchor, since |-> states[g].since] \in cands[g]
       /\ states[g].last = seen[g]
       /\ states[g].since <= seen[g]
       /\ states[g].parked <=> seen[g] - states[g].since >= stationaryDuration
  /\ still[g] # NONE =>
       /\ states[g] # NONE
       /\ states[g].since <= still[g].since
       /\ Near(still[g].pos, states[g].anchor)

IInv ==
  /\ TypeOK
  /\ hidden = {g \in Gid : states[g] # NONE /\ states[g].parked}
  /\ \A g \in Gid : EntryInv(g)

(* The initial states satisfy the inductive invariant.                     *)
LEMMA InitHolds == Init => IInv
  BY TimeAssumption DEF Init, IInv, TypeOK, EntryInv

(* A timestamp is a natural number.                                        *)
LEMMA StampType ==
  ASSUME NEW active \in SUBSET Channel, NEW n \in Nat, NEW t \in Stamps(active, n)
  PROVE  t \in Nat
  BY TimeAssumption DEF Stamps

(* shouldSuppress keeps the type of an entry.                              *)
LEMMA EntryType ==
  ASSUME NEW s \in VehicleState \cup {NONE}, NEW o \in Object \cup {NONE}, NEW t \in Nat
  PROVE  shouldSuppress(s, o, t) \in VehicleState \cup {NONE}
<1>1. Fresh(o, t) \in VehicleState \/ o = NONE
  BY DEF Fresh, VehicleState, Object
<1>2. CASE o = NONE \/ o.pos \notin Space
  BY <1>2 DEF shouldSuppress
<1>3. CASE o # NONE /\ o.pos \in Space /\ ~o.observed
  BY <1>3 DEF shouldSuppress
<1>4. CASE o # NONE /\ o.pos \in Space /\ o.observed
  <2>1. shouldSuppress(s, o, t) = observe(s, o, t)
    BY <1>4 DEF shouldSuppress
  <2>2. CASE s = NONE \/ Disturbed(s, o, t)
    BY <1>1, <1>4, <2>1, <2>2 DEF observe
  <2>3. CASE s # NONE /\ ~Disturbed(s, o, t)
    <3> DEFINE b == t - s.since >= stationaryDuration
    <3>1. s \in VehicleState /\ b \in BOOLEAN
      BY <2>3
    <3> HIDE DEF b
    <3>2. [s EXCEPT !.last = t, !.parked = b] \in VehicleState
      BY <3>1 DEF VehicleState
    <3> QED BY <2>1, <2>3, <3>2 DEF observe, b
  <2> QED BY <2>2, <2>3
<1> QED BY <1>2, <1>3, <1>4

(* A frame keeps the types.                                                *)
LEMMA ApplyType ==
  ASSUME TypeOK, NEW f \in [Gid -> Object \cup {NONE}], NEW t \in Nat, NEW n \in Nat,
         now' = n, apply(f, t)
  PROVE  TypeOK'
<1> USE DEF TypeOK
<1>1. now' \in Nat /\ frame' \in [Gid -> Object \cup {NONE}]
  BY DEF apply
<1>2. states' \in [Gid -> VehicleState \cup {NONE}]
  BY EntryType DEF apply
<1>3. hidden' \subseteq Gid
  BY DEF apply
<1>4. cands' \in [Gid -> SUBSET Rest]
  <2> SUFFICES ASSUME NEW g \in Gid PROVE cands'[g] \in SUBSET Rest
    BY DEF apply, Record
  <2>1. CASE f[g] = NONE \/ f[g].pos \notin Space
    BY <2>1 DEF apply, Record
  <2>2. CASE f[g] # NONE /\ f[g].pos \in Space
    <3>1. [pos |-> f[g].pos, since |-> t] \in Rest
      BY <2>2 DEF Object, Rest
    <3> QED BY <2>2, <3>1 DEF apply, Record
  <2> QED BY <2>1, <2>2
<1>5. still' \in [Gid -> Rest \cup {NONE}]
  <2> SUFFICES ASSUME NEW g \in Gid PROVE still'[g] \in Rest \cup {NONE}
    BY DEF apply, Record
  <2>1. CASE f[g] = NONE \/ f[g].pos \notin Space
    BY <2>1 DEF apply, Record
  <2>2. CASE f[g] # NONE /\ f[g].pos \in Space
    <3>1. [pos |-> f[g].pos, since |-> t] \in Rest
      BY <2>2 DEF Object, Rest
    <3> QED BY <2>2, <3>1 DEF apply, Record
  <2> QED BY <2>1, <2>2
<1>6. seen' \in [Gid -> Nat]
  BY DEF apply, Record
<1>7. \A g \in Gid : states'[g] # NONE => frame'[g] # NONE /\ frame'[g].pos \in Space
  BY DEF apply, shouldSuppress
<1> QED BY <1>1, <1>2, <1>3, <1>4, <1>5, <1>6, <1>7

(* A frame keeps the tie between the entry of a vehicle and its history.   *)
LEMMA ApplyEntry ==
  ASSUME TypeOK, NEW g \in Gid, EntryInv(g),
         NEW f \in [Gid -> Object \cup {NONE}], NEW t \in Nat, apply(f, t)
  PROVE  EntryInv(g)'
<1> DEFINE o == f[g]  s == states[g]
<1>1. /\ states'[g] = shouldSuppress(s, o, t)
      /\ o \in Object \cup {NONE} /\ s \in VehicleState \cup {NONE}
      /\ still[g] \in Rest \cup {NONE} /\ seen[g] \in Nat
  BY DEF apply, TypeOK
<1>2. CASE o = NONE \/ o.pos \notin Space
  BY <1>1, <1>2 DEF apply, Record, EntryInv, shouldSuppress
<1>3. CASE o # NONE /\ o.pos \in Space /\ ~o.observed
  <2>1. /\ states'[g] = s /\ cands'[g] = cands[g]
        /\ still'[g] = still[g] /\ seen'[g] = seen[g]
    BY <1>1, <1>3 DEF apply, Record, shouldSuppress
  <2> QED BY <2>1 DEF EntryInv
<1>4. CASE o # NONE /\ o.pos \in Space /\ o.observed
  <2> DEFINE here == [pos |-> o.pos, since |-> t]
  <2>1. /\ states'[g] = observe(s, o, t) /\ seen'[g] = t
        /\ cands'[g] = {c \in cands[g] : Regular(g, t) /\ Near(o.pos, c.pos)} \cup {here}
        /\ still'[g] = IF still[g] # NONE /\ Regular(g, t) /\ o.pos = still[g].pos
                       THEN still[g] ELSE here
    BY <1>1, <1>4 DEF apply, Record, shouldSuppress
  <2>2. o \in Object /\ o.pos \in Pos /\ Near(o.pos, o.pos)
    BY <1>1, <1>4, NearAssumption DEF Object
  <2>3. CASE s = NONE \/ Disturbed(s, o, t)
    <3>1. states'[g] = Fresh(o, t) /\ states'[g] # NONE
      <4>1. Fresh(o, t) \in VehicleState
        BY <2>2 DEF Fresh, VehicleState
      <4>2. states'[g] = Fresh(o, t)
        BY <2>1, <2>3 DEF observe
      <4> QED BY <4>1, <4>2, NoneAssumption
    <3>2. still'[g] = here
      <4> SUFFICES ASSUME still[g] # NONE, Regular(g, t), o.pos = still[g].pos PROVE FALSE
        BY <2>1
      <4>1. s # NONE /\ Near(o.pos, s.anchor) /\ s.last = seen[g]
        BY DEF EntryInv
      <4> QED BY <1>1, <2>3, <4>1, TimeAssumption DEF Disturbed, Regular
    <3>3. ~(t - t >= stationaryDuration)
      BY TimeAssumption
    <3> QED BY <2>1, <2>2, <3>1, <3>2, <3>3, TimeAssumption DEF EntryInv, Fresh
  <2>4. CASE s # NONE /\ ~Disturbed(s, o, t)
    <3> DEFINE b == t - s.since >= stationaryDuration
    <3>1. /\ s \in VehicleState /\ s.last = seen[g] /\ s.since <= seen[g]
          /\ [pos |-> s.anchor, since |-> s.since] \in cands[g]
      BY <1>1, <2>4 DEF EntryInv
    <3>2. states'[g] = [s EXCEPT !.last = t, !.parked = b]
      BY <2>1, <2>4 DEF observe
    <3>3. /\ states'[g].anchor = s.anchor /\ states'[g].since = s.since
          /\ states'[g].last = t /\ states'[g].parked = b
      BY <3>1, <3>2 DEF VehicleState
    <3>4. states'[g] # NONE
      <4>1. states'[g] \in VehicleState
        <5>1. b \in BOOLEAN
          OBVIOUS
        <5> HIDE DEF b
        <5> QED BY <3>1, <3>2, <5>1 DEF VehicleState
      <4> QED BY <4>1, NoneAssumption
    <3>5. Regular(g, t) /\ Near(o.pos, s.anchor)
      BY <1>1, <2>4, <3>1, TimeAssumption DEF Disturbed, Regular
    <3>6. [pos |-> s.anchor, since |-> s.since] \in cands'[g]
      BY <2>1, <3>1, <3>5
    <3>7. s.since \in Nat /\ s.since <= t
      BY <1>1, <3>1, <3>5 DEF Regular, VehicleState
    <3>8. s.since <= still'[g].since /\ Near(still'[g].pos, s.anchor)
      BY <2>1, <3>5, <3>7 DEF EntryInv
    <3> HIDE DEF b
    <3>9. states'[g].parked <=> t - s.since >= stationaryDuration
      BY <3>3 DEF b
    <3> QED BY <2>1, <3>3, <3>4, <3>6, <3>7, <3>8, <3>9 DEF EntryInv
  <2> QED BY <2>3, <2>4
<1> QED BY <1>2, <1>3, <1>4

(* The invariant is inductive.                                             *)
LEMMA StepHolds == IInv /\ [Next]_vars => IInv'
<1> SUFFICES ASSUME IInv, [Next]_vars PROVE IInv'
  OBVIOUS
<1>1. CASE processPipeline
  <2>0. PICK d \in STEP, active \in SUBSET Channel :
          /\ now' = now + d
          /\ \E f \in [Gid -> Object \cup {NONE}], t \in Stamps(active, now') : apply(f, t)
    BY <1>1 DEF processPipeline
  <2>1. PICK f \in [Gid -> Object \cup {NONE}], t \in Stamps(active, now') : apply(f, t)
    BY <2>0
  <2>2. now' \in Nat
    BY <2>0, TimeAssumption DEF IInv, TypeOK
  <2>3. t \in Nat
    BY <2>2, StampType
  <2>4. TypeOK'
    BY <2>1, <2>2, <2>3, ApplyType DEF IInv
  <2>5. ASSUME NEW g \in Gid PROVE EntryInv(g)'
    BY <2>1, <2>3, ApplyEntry DEF IInv
  <2> QED BY <2>1, <2>4, <2>5 DEF IInv, apply
<1>2. CASE UNCHANGED vars
  BY <1>2 DEF vars, policyVars, historyVars, IInv, TypeOK, EntryInv
<1> QED BY <1>1, <1>2 DEF Next

(* The types of the policy's table hold in every reachable state, and only *)
(* a vehicle in a parking space has an entry.                              *)
THEOREM TypeCorrect == Spec => []TypeOK
<1>1. IInv => TypeOK
  BY DEF IInv
<1> QED BY <1>1, InitHolds, StepHolds, PTL DEF Spec

(* Only a standing vehicle is taken out of the risk evaluation.            *)
THEOREM HiddenSafe == Spec => []HiddenMeansStill
<1>1. IInv => HiddenMeansStill
  <2> SUFFICES ASSUME IInv, NEW g \in hidden
               PROVE  /\ frame[g] # NONE /\ frame[g].pos \in Space
                      /\ \E c \in cands[g] : seen[g] - c.since >= stationaryDuration
    BY DEF HiddenMeansStill
  <2>1. g \in Gid /\ states[g] # NONE /\ states[g].parked
    BY DEF IInv
  <2>2. frame[g] # NONE /\ frame[g].pos \in Space
    BY <2>1 DEF IInv, TypeOK
  <2>3. EntryInv(g)
    BY <2>1 DEF IInv
  <2> DEFINE c == [pos |-> states[g].anchor, since |-> states[g].since]
  <2>4. c \in cands[g] /\ seen[g] - c.since >= stationaryDuration
    BY <2>1, <2>3 DEF EntryInv
  <2> QED BY <2>2, <2>4
<1> QED BY <1>1, InitHolds, StepHolds, PTL DEF Spec

(* A vehicle that is seen at the same place for long enough is taken out.  *)
THEOREM StillSafe == Spec => []StillIsHidden
<1>1. IInv => StillIsHidden
  <2> SUFFICES ASSUME IInv, NEW g \in Gid, still[g] # NONE,
                      seen[g] - still[g].since >= stationaryDuration
               PROVE  g \in hidden
    BY DEF StillIsHidden
  <2>1. EntryInv(g) /\ TypeOK
    BY DEF IInv
  <2>2. states[g] # NONE /\ states[g].since <= still[g].since
    BY <2>1 DEF EntryInv
  <2>3. /\ states[g] \in VehicleState /\ still[g] \in Rest /\ seen[g] \in Nat
    BY <2>1, <2>2 DEF TypeOK
  <2>4. seen[g] - states[g].since >= stationaryDuration
    BY <2>2, <2>3, TimeAssumption DEF VehicleState, Rest
  <2>5. states[g].parked
    BY <2>1, <2>2, <2>4 DEF EntryInv
  <2> QED BY <2>2, <2>5 DEF IInv
<1> QED BY <1>1, InitHolds, StepHolds, PTL DEF Spec

-----------------------------------------------------------------------------
(* The framing of the UART.                                                *)

Octet == 0 .. 255

(* One bit of the two bytes                                                *)
XorBit(x, y, w) == ((x \div w) + (y \div w)) % 2

Weighted(a, b, c, d, e, f, g, h) == 1 * a + 2 * b + 4 * c + 8 * d + 16 * e + 32 * f + 64 * g + 128 * h

(* A byte is the sum of its bits.                                          *)
LEMMA BitsOfOctet ==
  ASSUME NEW x \in Octet
  PROVE  x = Weighted(x % 2, (x \div 2) % 2, (x \div 4) % 2, (x \div 8) % 2,
                      (x \div 16) % 2, (x \div 32) % 2, (x \div 64) % 2, (x \div 128) % 2)
  BY SMTT(30) DEF Weighted, Octet

(* The exclusive or of bytes is a byte.                                    *)
LEMMA XorOctet ==
  ASSUME NEW x \in Octet, NEW y \in Octet
  PROVE  Framing!Xor(x, y) \in Octet
  BY SMTT(30) DEF Framing!Xor, Octet

XorBits(x, y) ==
  Weighted(XorBit(x, y, 1), XorBit(x, y, 2), XorBit(x, y, 4), XorBit(x, y, 8),
           XorBit(x, y, 16), XorBit(x, y, 32), XorBit(x, y, 64), XorBit(x, y, 128))

(* x ^ y has the bits XorBit(x, y, w).                                     *)
LEMMA XorIsXorBits ==
  ASSUME NEW x \in Octet, NEW y \in Octet
  PROVE  Framing!Xor(x, y) = XorBits(x, y)
  BY DEF Framing!Xor, XorBits, XorBit, Weighted, Octet

(* A bit is 0 or 1.                                                        *)
LEMMA XorBitType ==
  ASSUME NEW x \in Octet, NEW y \in Octet, NEW w \in Nat \ {0}
  PROVE  XorBit(x, y, w) \in {0, 1}
<1>1. x \div w \in Int /\ y \div w \in Int
  BY DEF Octet
<1>2. \A a, b \in Int : (a + b) % 2 \in {0, 1}
  OBVIOUS
<1>. QED
  BY <1>1, <1>2 DEF XorBit

(* An equal bit on one side leaves the other.                              *)
LEMMA XorBitCancels ==
  ASSUME NEW x \in Octet, NEW y \in Octet, NEW z \in Octet, NEW w \in Nat \ {0}
  PROVE  /\ XorBit(x, y, w) = XorBit(x, z, w) => (y \div w) % 2 = (z \div w) % 2
         /\ XorBit(y, x, w) = XorBit(z, x, w) => (y \div w) % 2 = (z \div w) % 2
<1>1. x \div w \in Int /\ y \div w \in Int /\ z \div w \in Int
  BY DEF Octet
<1>2. \A a, b, c \in Int : (a + b) % 2 = (a + c) % 2 => b % 2 = c % 2
  OBVIOUS
<1>3. \A a, b, c \in Int : (b + a) % 2 = (c + a) % 2 => b % 2 = c % 2
  OBVIOUS
<1>. QED
  BY <1>1, <1>2, <1>3 DEF XorBit

(* Equal bytes have equal bits.                                            *)
LEMMA XorBitsEqual ==
  ASSUME NEW x \in Octet, NEW y \in Octet, NEW p \in Octet, NEW q \in Octet,
         XorBits(x, y) = XorBits(p, q)
  PROVE  \A w \in {1, 2, 4, 8, 16, 32, 64, 128} : XorBit(x, y, w) = XorBit(p, q, w)
<1>. DEFINE a == XorBit(x, y, 1)
            aa == XorBit(p, q, 1)
            b == XorBit(x, y, 2)
            bb == XorBit(p, q, 2)
            c == XorBit(x, y, 4)
            cc == XorBit(p, q, 4)
            d == XorBit(x, y, 8)
            dd == XorBit(p, q, 8)
            e == XorBit(x, y, 16)
            ee == XorBit(p, q, 16)
            f == XorBit(x, y, 32)
            ff == XorBit(p, q, 32)
            g == XorBit(x, y, 64)
            gg == XorBit(p, q, 64)
            h == XorBit(x, y, 128)
            hh == XorBit(p, q, 128)
<1>1. \A w \in {1, 2, 4, 8, 16, 32, 64, 128} : XorBit(x, y, w) \in {0, 1} /\ XorBit(p, q, w) \in {0, 1}
  BY XorBitType
<1>2. /\ a \in {0, 1} /\ b \in {0, 1} /\ c \in {0, 1} /\ d \in {0, 1}
      /\ e \in {0, 1} /\ f \in {0, 1} /\ g \in {0, 1} /\ h \in {0, 1}
      /\ aa \in {0, 1} /\ bb \in {0, 1} /\ cc \in {0, 1} /\ dd \in {0, 1}
      /\ ee \in {0, 1} /\ ff \in {0, 1} /\ gg \in {0, 1} /\ hh \in {0, 1}
  BY <1>1
<1>3. Weighted(a, b, c, d, e, f, g, h) = Weighted(aa, bb, cc, dd, ee, ff, gg, hh)
  BY DEF XorBits
<1>4. (\A w \in {1, 2, 4, 8, 16, 32, 64, 128} : XorBit(x, y, w) = XorBit(p, q, w))
      <=> (a = aa /\ b = bb /\ c = cc /\ d = dd /\ e = ee /\ f = ff /\ g = gg /\ h = hh)
  OBVIOUS
<1>. HIDE DEF a, b, c, d, e, f, g, h, aa, bb, cc, dd, ee, ff, gg, hh
<1>5. a = aa /\ b = bb /\ c = cc /\ d = dd /\ e = ee /\ f = ff /\ g = gg /\ h = hh
  BY <1>2, <1>3, SMTT(30) DEF Weighted
<1>. QED
  BY <1>4, <1>5

(* Bytes with the same bits are equal.                                     *)
LEMMA SameBits ==
  ASSUME NEW x \in Octet, NEW y \in Octet,
         \A w \in {1, 2, 4, 8, 16, 32, 64, 128} : (x \div w) % 2 = (y \div w) % 2
  PROVE  x = y
<1>1. x \div 1 = x /\ y \div 1 = y
  BY DEF Octet
<1>2. x % 2 = y % 2
  BY <1>1
<1>. QED
  BY <1>2, BitsOfOctet

(* x ^ y determines y, and y ^ x too.                                      *)
LEMMA XorCancels ==
  ASSUME NEW x \in Octet, NEW y \in Octet, NEW z \in Octet, y # z
  PROVE  Framing!Xor(x, y) # Framing!Xor(x, z) /\ Framing!Xor(y, x) # Framing!Xor(z, x)
<1>1. Framing!Xor(x, y) # Framing!Xor(x, z)
  <2>. SUFFICES ASSUME XorBits(x, y) = XorBits(x, z) PROVE FALSE
    BY XorIsXorBits
  <2>1. \A w \in {1, 2, 4, 8, 16, 32, 64, 128} : XorBit(x, y, w) = XorBit(x, z, w)
    BY XorBitsEqual
  <2>2. \A w \in {1, 2, 4, 8, 16, 32, 64, 128} : (y \div w) % 2 = (z \div w) % 2
    BY <2>1, XorBitCancels
  <2>. QED
    BY <2>2, SameBits
<1>2. Framing!Xor(y, x) # Framing!Xor(z, x)
  <2>. SUFFICES ASSUME XorBits(y, x) = XorBits(z, x) PROVE FALSE
    BY XorIsXorBits
  <2>1. \A w \in {1, 2, 4, 8, 16, 32, 64, 128} : XorBit(y, x, w) = XorBit(z, x, w)
    BY XorBitsEqual
  <2>2. \A w \in {1, 2, 4, 8, 16, 32, 64, 128} : (y \div w) % 2 = (z \div w) % 2
    BY <2>1, XorBitCancels
  <2>. QED
    BY <2>2, SameBits
<1>. QED
  BY <1>1, <1>2

(* The running checksums of n bytes                                        *)
ChecksumRun(p, n, h) ==
  /\ h \in [0 .. n -> Octet] /\ h[0] = 0
  /\ \A i \in 1 .. n : h[i] = Framing!Xor(h[i - 1], p[i])

(* The checksum is the last of a run of bytes.                             *)
LEMMA ChecksumRuns ==
  ASSUME NEW p, NEW n \in Nat, Len(p) = n, \A i \in 1 .. n : p[i] \in Octet
  PROVE  \E h : ChecksumRun(p, n, h) /\ Framing!veda_checksum(p) = h[n]
<1>. DEFINE zero == 0
            step(s, i) == Framing!Xor(s, p[i])
            Is(g) == g = [i \in 0 .. n |-> IF i = 0 THEN zero ELSE Framing!Xor(g[i - 1], p[i])]
            e == [i \in 1 .. n |-> [s \in Octet |-> step(s, i)]]
<1>1. zero \in Octet
  BY DEF Octet
<1>. HIDE DEF zero
<1>2. ASSUME NEW i \in 1 .. n, NEW s \in Octet PROVE step(s, i) \in Octet
  BY XorOctet
<1>3. \A i \in 0 .. n : i = 0 \/ i \in 1 .. n
  OBVIOUS
<1>4. PICK g \in [0 .. n -> Octet] : g[0] = zero /\ \A i \in 1 .. n : g[i] = e[i][g[i - 1]]
  <2>1. e \in [1 .. n -> [Octet -> Octet]]
    BY <1>2
  <2>. HIDE DEF e
  <2>2. Runs(n, Octet, zero, e) # {}
    BY <1>1, <2>1, Iteration
  <2>. QED
    BY <2>2 DEF Runs
<1>5. Is(g)
  <2>1. ASSUME NEW i \in 1 .. n PROVE g[i] = step(g[i - 1], i)
    <3>1. i - 1 \in 0 .. n
      OBVIOUS
    <3>. HIDE DEF step
    <3>2. g[i - 1] \in Octet
      BY <3>1
    <3>. QED
      BY <1>4, <3>2
  <2>. QED
    BY <1>3, <1>4, <2>1
<1>6. PICK h : Is(h) /\ Framing!veda_checksum(p) = h[n]
  <2>1. \E h : Is(h)
    BY <1>5
  <2>. QED
    BY <2>1 DEF Framing!veda_checksum, zero
<1>7. h[0] = zero /\ \A i \in 1 .. n : h[i] = step(h[i - 1], i)
  BY <1>6
<1>. DEFINE T == {i \in 0 .. n : h[i] \in Octet}
<1>8. 0 \in T
  BY <1>1, <1>7
<1>9. ASSUME NEW i \in 0 .. n, i < n, i \in T PROVE i + 1 \in T
  <2>1. i + 1 \in 1 .. n /\ i + 1 \in 0 .. n /\ (i + 1) - 1 = i
    BY <1>9
  <2>2. h[i + 1] = step(h[i], i + 1)
    BY <1>7, <2>1
  <2>. HIDE DEF step
  <2>. QED
    BY <1>2, <1>9, <2>1, <2>2
<1>10. \A i \in 0 .. n : i \in T
  <2>. HIDE DEF T
  <2>. QED
    BY <1>8, <1>9, InductionUpTo
<1>11. h \in [0 .. n -> Octet]
  BY <1>6, <1>10
<1>12. ChecksumRun(p, n, h)
  BY <1>7, <1>11 DEF ChecksumRun, zero
<1>. QED
  BY <1>6, <1>12

(* The checksum is a byte.                                                 *)
LEMMA ChecksumOctet ==
  ASSUME NEW p, NEW n \in Nat, Len(p) = n, \A i \in 1 .. n : p[i] \in Octet
  PROVE  Framing!veda_checksum(p) \in Octet
  BY ChecksumRuns DEF ChecksumRun

(* A payload with one other byte has another checksum.                     *)
LEMMA OneByteChangesChecksum ==
  ASSUME NEW p, NEW q, NEW n \in Nat, Len(p) = n, Len(q) = n,
         \A i \in 1 .. n : p[i] \in Octet /\ q[i] \in Octet,
         NEW d \in 1 .. n, p[d] # q[d], \A i \in 1 .. n : i # d => p[i] = q[i]
  PROVE  Framing!veda_checksum(p) # Framing!veda_checksum(q)
<1>1. PICK g : ChecksumRun(p, n, g) /\ Framing!veda_checksum(p) = g[n]
  BY ChecksumRuns
<1>2. PICK h : ChecksumRun(q, n, h) /\ Framing!veda_checksum(q) = h[n]
  BY ChecksumRuns
<1>. DEFINE T == {i \in 0 .. n : IF i < d THEN g[i] = h[i] ELSE g[i] # h[i]}
<1>3. 0 \in T
  BY <1>1, <1>2 DEF ChecksumRun
<1>4. ASSUME NEW i \in 0 .. n, i < n, i \in T PROVE i + 1 \in T
  <2>1. /\ i + 1 \in 1 .. n /\ i + 1 \in 0 .. n /\ (i + 1) - 1 = i
        /\ i + 1 < d => i < d
        /\ i + 1 = d => i < d /\ ~(i + 1 < d)
        /\ i + 1 # d /\ ~(i + 1 < d) => ~(i < d)
    BY <1>4
  <2>2. /\ g[i + 1] = Framing!Xor(g[i], p[i + 1]) /\ h[i + 1] = Framing!Xor(h[i], q[i + 1])
        /\ g[i] \in Octet /\ h[i] \in Octet /\ p[i + 1] \in Octet /\ q[i + 1] \in Octet
    BY <1>1, <1>2, <2>1 DEF ChecksumRun
  <2>3. CASE i + 1 < d
    <3>1. g[i] = h[i] /\ p[i + 1] = q[i + 1]
      BY <1>4, <2>1, <2>3
    <3>2. g[i + 1] = h[i + 1]
      BY <2>2, <3>1
    <3>. QED
      BY <2>1, <2>3, <3>2
  <2>4. CASE i + 1 = d
    <3>1. g[i] = h[i] /\ p[i + 1] # q[i + 1]
      BY <1>4, <2>1, <2>4
    <3>2. g[i + 1] # h[i + 1]
      BY <2>2, <3>1, XorCancels
    <3>. QED
      BY <2>1, <2>4, <3>2
  <2>5. CASE i + 1 # d /\ ~(i + 1 < d)
    <3>1. g[i] # h[i] /\ p[i + 1] = q[i + 1]
      BY <1>4, <2>1, <2>5
    <3>2. g[i + 1] # h[i + 1]
      BY <2>2, <3>1, XorCancels
    <3>. QED
      BY <2>1, <2>5, <3>2
  <2>. QED
    BY <2>3, <2>4, <2>5
<1>5. n \in T
  <2>1. n \in 0 .. n
    OBVIOUS
  <2>. HIDE DEF T
  <2>. QED
    BY <1>3, <1>4, <2>1, InductionUpTo
<1>. QED
  BY <1>1, <1>2, <1>5

(* How far the receiver is in what it takes for a frame                    *)
Progress ==
  CASE state = "DL_WAIT_START" -> 0
    [] state = "DL_READ_PAYLOAD" -> 1 + Len(buffer)
    [] state = "DL_READ_CHECKSUM" -> PAYLOAD_LEN + 1
    [] state = "DL_WAIT_END" -> PAYLOAD_LEN + 2

(* How many bytes of the frame are no longer under way                     *)
Consumed == (PAYLOAD_LEN + 3) - Len(wire)

Exact == \A i \in 1 .. Len(buffer) : buffer[i] = payload[i]
OneOff ==
  \E d \in 1 .. Len(buffer) :
    buffer[d] # payload[d] /\ \A i \in 1 .. Len(buffer) : i # d => buffer[i] = payload[i]

(* What the receiver made of the bytes up to now: all of them right, or    *)
(* one wrong, so that it is late, or the checksum will tell.               *)
AllRight ==
  IF wire = << >> THEN got = {payload}
  ELSE /\ got = {} /\ Progress = Consumed
       /\ Consumed > 0 => Exact
       /\ Consumed = PAYLOAD_LEN + 2 => checksum = Framing!veda_checksum(payload)

OneWrong ==
  IF wire = << >> THEN got = {}
  ELSE /\ got = {} /\ Consumed > 0
       /\ \/ Progress < Consumed
          \/ /\ Progress = Consumed /\ OneOff
             /\ Consumed = PAYLOAD_LEN + 2 => checksum = Framing!veda_checksum(payload)
          \/ /\ Progress = Consumed /\ Exact
             /\ Consumed = PAYLOAD_LEN + 2 /\ checksum # Framing!veda_checksum(payload)

FramingType ==
  /\ state \in {"DL_WAIT_START", "DL_READ_PAYLOAD", "DL_READ_CHECKSUM", "DL_WAIT_END"}
  /\ buffer \in Seq(Byte)
  /\ state = "DL_READ_PAYLOAD" => Len(buffer) < PAYLOAD_LEN
  /\ state \in {"DL_READ_CHECKSUM", "DL_WAIT_END"} => Len(buffer) = PAYLOAD_LEN
  /\ payload \in Framing!Payload
  /\ wire \in Seq(Octet) /\ Len(wire) <= PAYLOAD_LEN + 3
  /\ damaged \in 0 .. 2

FramingInv ==
  /\ FramingType
  /\ quiet => state = "DL_WAIT_START"
  /\ quiet /\ wire # << >> => Consumed = 0
  /\ \A i \in 1 .. Len(wire) : wire[i] = Framing!FrameOf(payload)[Consumed + i]
  /\ fresh /\ ~lost /\ (quiet => wire # << >>) =>
       (damaged = 0 => AllRight) /\ (damaged = 1 => OneWrong)

(* What the proofs use of the constants.                                   *)
LEMMA FramingConstants ==
  /\ Byte \subseteq Octet /\ PAYLOAD_LEN \in Nat \ {0}
  /\ VEDA_START_BYTE \in Byte /\ VEDA_END_BYTE \in Byte
  BY FramingHolds DEF Framing!FramingAssumption, Octet

(* A payload is a sequence of bytes.                                       *)
LEMMA PayloadType ==
  ASSUME NEW p \in Framing!Payload
  PROVE  /\ p \in Seq(Byte) /\ Len(p) = PAYLOAD_LEN
         /\ \A i \in 1 .. PAYLOAD_LEN : p[i] \in Byte /\ p[i] \in Octet
  BY FramingConstants DEF Framing!Payload

(* The bytes of a frame by their places.                                   *)
LEMMA FrameShape ==
  ASSUME NEW p \in Framing!Payload
  PROVE  LET F == Framing!FrameOf(p)
         IN  /\ F \in Seq(Octet) /\ Len(F) = PAYLOAD_LEN + 3
             /\ F[1] = VEDA_START_BYTE
             /\ \A i \in 1 .. PAYLOAD_LEN : F[i + 1] = p[i]
             /\ F[PAYLOAD_LEN + 2] = Framing!veda_checksum(p)
             /\ F[PAYLOAD_LEN + 3] = VEDA_END_BYTE
<1>. DEFINE cs == Framing!veda_checksum(p)
            F == <<VEDA_START_BYTE>> \o p \o <<cs, VEDA_END_BYTE>>
            n == PAYLOAD_LEN
<1>1. n \in Nat /\ VEDA_START_BYTE \in Octet /\ VEDA_END_BYTE \in Octet
  BY FramingConstants
<1>2. p \in Seq(Octet) /\ Len(p) = n
  BY PayloadType, FramingConstants
<1>3. cs \in Octet
  BY <1>1, <1>2, PayloadType, ChecksumOctet
<1>. HIDE DEF cs, n
<1>4. <<VEDA_START_BYTE>> \in Seq(Octet) /\ <<cs, VEDA_END_BYTE>> \in Seq(Octet)
  BY <1>1, <1>3
<1>. DEFINE A == <<VEDA_START_BYTE>> \o p
<1>5. A \in Seq(Octet) /\ Len(A) = n + 1 /\ A[1] = VEDA_START_BYTE /\ \A i \in 1 .. n : A[i + 1] = p[i]
  BY <1>1, <1>2, <1>4
<1>. HIDE DEF A
<1>6. F = A \o <<cs, VEDA_END_BYTE>>
  BY DEF A
<1>. HIDE DEF F
<1>7. F \in Seq(Octet) /\ Len(F) = n + 3
  BY <1>1, <1>4, <1>5, <1>6
<1>8. F[1] = A[1] /\ \A i \in 1 .. n : F[i + 1] = A[i + 1]
  BY <1>1, <1>4, <1>5, <1>6
<1>9. F[n + 2] = cs /\ F[n + 3] = VEDA_END_BYTE
  BY <1>1, <1>4, <1>5, <1>6
<1>. QED
  BY <1>5, <1>7, <1>8, <1>9 DEF Framing!FrameOf, F, cs, n

(* The next byte of the frame                                              *)
LEMMA NextByte ==
  ASSUME FramingInv, wire # << >>
  PROVE  /\ Consumed \in 0 .. PAYLOAD_LEN + 2
         /\ Consumed = 0 => Head(wire) = VEDA_START_BYTE
         /\ Consumed \in 1 .. PAYLOAD_LEN => Head(wire) = payload[Consumed]
         /\ Consumed = PAYLOAD_LEN + 1 => Head(wire) = Framing!veda_checksum(payload)
         /\ Consumed = PAYLOAD_LEN + 2 => Head(wire) = VEDA_END_BYTE
<1>. DEFINE F == Framing!FrameOf(payload)
            n == PAYLOAD_LEN
<1>1. n \in Nat \ {0} /\ payload \in Framing!Payload
  BY FramingConstants DEF FramingInv, FramingType
<1>2. wire \in Seq(Octet) /\ Len(wire) \in 1 .. n + 3
  BY <1>1 DEF FramingInv, FramingType
<1>3. Consumed \in 0 .. n + 2
  BY <1>1, <1>2 DEF Consumed
<1>4. Head(wire) = F[Consumed + 1]
  <2>1. Head(wire) = wire[1]
    BY <1>2
  <2>2. 1 \in 1 .. Len(wire)
    BY <1>2
  <2>. QED
    BY <2>1, <2>2 DEF FramingInv
<1>5. /\ F[1] = VEDA_START_BYTE
      /\ \A i \in 1 .. n : F[i + 1] = payload[i]
      /\ F[n + 2] = Framing!veda_checksum(payload)
      /\ F[n + 3] = VEDA_END_BYTE
  BY <1>1, FrameShape
<1>. HIDE DEF F
<1>6. (n + 1) + 1 = n + 2 /\ (n + 2) + 1 = n + 3 /\ 0 + 1 = 1
  BY <1>1
<1>7. Consumed = n + 1 => Head(wire) = Framing!veda_checksum(payload)
  BY <1>4, <1>5, <1>6
<1>8. Consumed = n + 2 => Head(wire) = VEDA_END_BYTE
  BY <1>4, <1>5, <1>6
<1>. QED
  BY <1>3, <1>4, <1>5, <1>6, <1>7, <1>8

(* A received payload that is the one sent, and one that is not            *)
LEMMA ExactChecksum ==
  ASSUME FramingType, Len(buffer) = PAYLOAD_LEN, Exact
  PROVE  buffer = payload
<1>1. payload \in Seq(Byte) /\ Len(payload) = PAYLOAD_LEN /\ buffer \in Seq(Byte)
  BY PayloadType DEF FramingType
<1>. QED
  BY <1>1 DEF Exact

(* A payload with one wrong byte has not the checksum that was sent.       *)
LEMMA OneOffChecksum ==
  ASSUME FramingType, Len(buffer) = PAYLOAD_LEN, OneOff
  PROVE  Framing!veda_checksum(buffer) # Framing!veda_checksum(payload)
<1>1. \A i \in 1 .. PAYLOAD_LEN : buffer[i] \in Octet /\ payload[i] \in Octet
  BY PayloadType, FramingConstants DEF FramingType
<1>2. PAYLOAD_LEN \in Nat /\ Len(payload) = PAYLOAD_LEN
  BY PayloadType, FramingConstants DEF FramingType
<1>3. PICK d \in 1 .. PAYLOAD_LEN :
        buffer[d] # payload[d] /\ \A i \in 1 .. PAYLOAD_LEN : i # d => buffer[i] = payload[i]
  BY DEF OneOff
<1>. QED
  BY <1>1, <1>2, <1>3, OneByteChangesChecksum

(* What a byte does, by the progress of the receiver.                      *)
LEMMA Fed ==
  ASSUME FramingType, NEW b \in Byte, Framing!feed_byte(b)
  PROVE  /\ Progress \in 0 .. PAYLOAD_LEN + 2
         /\ Progress = 0 =>
              /\ got' = got
              /\ b = VEDA_START_BYTE => Progress' = 1 /\ Len(buffer') = 0
              /\ b # VEDA_START_BYTE => Progress' = 0
         /\ Progress \in 1 .. PAYLOAD_LEN =>
              /\ buffer' = Append(buffer, b) /\ Len(buffer) = Progress - 1
              /\ Progress' = Progress + 1 /\ got' = got /\ checksum' = checksum
         /\ Progress = PAYLOAD_LEN + 1 =>
              /\ checksum' = b /\ buffer' = buffer /\ got' = got
              /\ Progress' = PAYLOAD_LEN + 2
         /\ Progress = PAYLOAD_LEN + 2 =>
              /\ Len(buffer) = PAYLOAD_LEN
              /\ got' = IF b = VEDA_END_BYTE /\ Framing!veda_checksum(buffer) = checksum
                        THEN got \cup {buffer} ELSE got
         /\ state' \in {"DL_WAIT_START", "DL_READ_PAYLOAD", "DL_READ_CHECKSUM", "DL_WAIT_END"}
         /\ buffer' \in Seq(Byte)
         /\ state' = "DL_READ_PAYLOAD" => Len(buffer') < PAYLOAD_LEN
         /\ state' \in {"DL_READ_CHECKSUM", "DL_WAIT_END"} => Len(buffer') = PAYLOAD_LEN
<1>1. PAYLOAD_LEN \in Nat \ {0} /\ buffer \in Seq(Byte) /\ Len(buffer) \in Nat
  BY FramingConstants DEF FramingType
<1>2. CASE state = "DL_WAIT_START"
  <2>1. Progress = 0 /\ got' = got
    BY <1>2 DEF Progress, Framing!feed_byte, Framing!ReadPayload, Framing!WaitEnd
  <2>2. CASE b = VEDA_START_BYTE
    <3>1. state' = "DL_READ_PAYLOAD" /\ buffer' = << >>
      BY <1>2, <2>2 DEF Framing!feed_byte, Framing!ReadPayload, Framing!WaitEnd
    <3>2. Len(buffer') = 0 /\ buffer' \in Seq(Byte)
      BY <3>1
    <3>3. Progress' = 1
      BY <3>1, <3>2 DEF Progress
    <3>. QED
      BY <1>1, <2>1, <2>2, <3>1, <3>2, <3>3
  <2>3. CASE b # VEDA_START_BYTE
    <3>1. state' = state /\ buffer' = buffer
      BY <1>2, <2>3 DEF Framing!feed_byte, Framing!ReadPayload, Framing!WaitEnd
    <3>2. Progress' = 0
      BY <1>2, <3>1 DEF Progress
    <3>. QED
      BY <1>1, <1>2, <2>1, <2>3, <3>1, <3>2
  <2>. QED
    BY <2>2, <2>3
<1>3. CASE state = "DL_READ_PAYLOAD"
  <2>1. Progress = 1 + Len(buffer) /\ Len(buffer) < PAYLOAD_LEN
    BY <1>3 DEF Progress, FramingType
  <2>2. /\ buffer' = Append(buffer, b)
        /\ state' = IF Len(buffer') = PAYLOAD_LEN THEN "DL_READ_CHECKSUM" ELSE state
        /\ got' = got /\ checksum' = checksum
    BY <1>3 DEF Framing!feed_byte, Framing!ReadPayload, Framing!WaitEnd
  <2>3. buffer' \in Seq(Byte) /\ Len(buffer') = Len(buffer) + 1
    BY <1>1, <2>2
  <2>4. Progress' = 1 + Len(buffer')
    BY <1>1, <1>3, <2>2 DEF Progress
  <2>. QED
    BY <1>1, <1>3, <2>1, <2>2, <2>3, <2>4
<1>4. CASE state = "DL_READ_CHECKSUM"
  <2>1. Progress = PAYLOAD_LEN + 1 /\ Len(buffer) = PAYLOAD_LEN
    BY <1>4 DEF Progress, FramingType
  <2>2. state' = "DL_WAIT_END" /\ checksum' = b /\ buffer' = buffer /\ got' = got
    BY <1>4 DEF Framing!feed_byte, Framing!ReadPayload, Framing!WaitEnd
  <2>3. Progress' = PAYLOAD_LEN + 2
    BY <2>2 DEF Progress
  <2>. QED
    BY <1>1, <2>1, <2>2, <2>3
<1>5. CASE state = "DL_WAIT_END"
  <2>1. Progress = PAYLOAD_LEN + 2 /\ Len(buffer) = PAYLOAD_LEN
    BY <1>5 DEF Progress, FramingType
  <2>2. /\ state' = "DL_WAIT_START" /\ buffer' = buffer
        /\ got' = IF b = VEDA_END_BYTE /\ Framing!veda_checksum(buffer) = checksum
                  THEN got \cup {buffer} ELSE got
    BY <1>5 DEF Framing!feed_byte, Framing!ReadPayload, Framing!WaitEnd
  <2>. QED
    BY <1>1, <2>1, <2>2
<1>. QED
  BY <1>2, <1>3, <1>4, <1>5 DEF FramingType

(* A byte more of the payload, right or wrong                              *)
LEMMA PayloadGrows ==
  ASSUME buffer \in Seq(Byte), NEW b \in Byte, buffer' = Append(buffer, b), payload' = payload
  PROVE  /\ Exact /\ b = payload[Len(buffer) + 1] => Exact'
         /\ Exact /\ b # payload[Len(buffer) + 1] => OneOff'
         /\ OneOff /\ b = payload[Len(buffer) + 1] => OneOff'
<1>. DEFINE n == Len(buffer)
<1>1. n \in Nat /\ Len(buffer') = n + 1
  OBVIOUS
<1>2. buffer'[n + 1] = b /\ \A i \in 1 .. n : buffer'[i] = buffer[i]
  OBVIOUS
<1>3. n + 1 \in 1 .. n + 1 /\ \A i \in 1 .. n : i \in 1 .. n + 1 /\ i # n + 1
  OBVIOUS
<1>4. \A i \in 1 .. n + 1 : i \in 1 .. n \/ i = n + 1
  OBVIOUS
<1>. HIDE DEF n
<1>5. Exact <=> \A i \in 1 .. n : buffer[i] = payload[i]
  BY DEF Exact, n
<1>6. Exact' <=> \A i \in 1 .. n + 1 : buffer'[i] = payload[i]
  BY <1>1 DEF Exact
<1>7. OneOff <=> \E d \in 1 .. n : buffer[d] # payload[d] /\ \A i \in 1 .. n : i # d => buffer[i] = payload[i]
  BY DEF OneOff, n
<1>8. OneOff' <=> \E d \in 1 .. n + 1 :
                    /\ buffer'[d] # payload[d]
                    /\ \A i \in 1 .. n + 1 : i # d => buffer'[i] = payload[i]
  BY <1>1 DEF OneOff
<1>9. ASSUME Exact, b = payload[n + 1] PROVE Exact'
  BY <1>2, <1>4, <1>5, <1>6, <1>9
<1>10. ASSUME Exact, b # payload[n + 1] PROVE OneOff'
  <2>1. buffer'[n + 1] # payload[n + 1] /\ \A i \in 1 .. n + 1 : i # n + 1 => buffer'[i] = payload[i]
    BY <1>2, <1>4, <1>5, <1>10
  <2>. QED
    BY <1>3, <1>8, <2>1
<1>11. ASSUME OneOff, b = payload[n + 1] PROVE OneOff'
  <2>1. PICK d \in 1 .. n : buffer[d] # payload[d] /\ \A i \in 1 .. n : i # d => buffer[i] = payload[i]
    BY <1>7, <1>11
  <2>2. buffer'[d] # payload[d] /\ \A i \in 1 .. n + 1 : i # d => buffer'[i] = payload[i]
    BY <1>2, <1>4, <1>11, <2>1
  <2>. QED
    BY <1>3, <1>8, <2>2
<1>. QED
  BY <1>9, <1>10, <1>11 DEF n

(* The bytes under way after one arrived or was lost                       *)
LEMMA WireAfter ==
  ASSUME FramingInv, wire # << >>, wire' = Tail(wire), payload' = payload
  PROVE  /\ wire' \in Seq(Octet) /\ Len(wire') <= PAYLOAD_LEN + 3
         /\ Consumed' = Consumed + 1
         /\ wire' = << >> <=> Consumed = PAYLOAD_LEN + 2
         /\ \A i \in 1 .. Len(wire') : wire'[i] = Framing!FrameOf(payload')[Consumed' + i]
<1>. DEFINE F == Framing!FrameOf(payload)
            n == PAYLOAD_LEN + 3
<1>1. n \in Nat
  BY FramingConstants
<1>2. wire \in Seq(Octet) /\ Len(wire) <= n
  BY DEF FramingInv, FramingType
<1>3. \A i \in 1 .. Len(wire) : wire[i] = F[Consumed + i]
  BY DEF FramingInv
<1>4. Consumed = n - Len(wire) /\ Consumed' = n - Len(wire')
  BY DEF Consumed
<1>5. Consumed = PAYLOAD_LEN + 2 <=> Consumed = n - 1
  BY FramingConstants, <1>4
<1>. HIDE DEF F, n
<1>6. Len(wire) \in Nat \ {0}
  BY <1>2
<1>7. wire' \in Seq(Octet) /\ Len(wire') = Len(wire) - 1 /\ \A i \in 1 .. Len(wire') : wire'[i] = wire[i + 1]
  BY <1>2, <1>6
<1>8. Consumed' = Consumed + 1
  BY <1>1, <1>4, <1>6, <1>7
<1>9. wire' = << >> <=> Consumed = PAYLOAD_LEN + 2
  <2>1. wire' = << >> <=> Len(wire') = 0
    <3>1. \A s \in Seq(Octet) : s = << >> <=> Len(s) = 0
      OBVIOUS
    <3>2. wire' \in Seq(Octet)
      BY <1>7
    <3>. QED
      BY <3>1, <3>2, Zenon
  <2>2. Len(wire') = 0 <=> Len(wire) = 1
    BY <1>6, <1>7
  <2>3. Len(wire) = 1 <=> Consumed = n - 1
    <3>1. PICK len \in Nat : len = Len(wire)
      BY <1>6
    <3>2. len = 1 <=> n - len = n - 1
      BY <1>1, <3>1
    <3>. QED
      BY <1>4, <3>1, <3>2, Zenon
  <2>. QED
    BY <1>5, <2>1, <2>2, <2>3, Zenon
<1>10. Consumed \in Int
  BY <1>1, <1>4, <1>6
<1>11. ASSUME NEW i \in 1 .. Len(wire') PROVE wire'[i] = F[Consumed' + i]
  <2>1. i + 1 \in 1 .. Len(wire)
    BY <1>6, <1>7
  <2>2. Consumed' + i = Consumed + (i + 1)
    BY <1>8, <1>10
  <2>. QED
    BY <1>3, <1>7, <2>1, <2>2
<1>. QED
  BY <1>1, <1>2, <1>6, <1>7, <1>8, <1>9, <1>11 DEF F, n

(* A byte that arrives, right or wrong, keeps the invariant.               *)
LEMMA ArriveKeepsInv ==
  ASSUME FramingInv, Framing!Arrive
  PROVE  FramingInv'
<1>1. PICK b \in Byte :
        /\ Framing!feed_byte(b)
        /\ damaged' = IF b = Head(wire) THEN damaged ELSE (IF damaged < 2 THEN damaged + 1 ELSE 2)
  BY DEF Framing!Arrive
<1>2. /\ wire # << >> /\ wire' = Tail(wire) /\ quiet' = FALSE
      /\ payload' = payload /\ fresh' = fresh /\ lost' = lost
  BY DEF Framing!Arrive
<1>. DEFINE n == PAYLOAD_LEN
            cs == Framing!veda_checksum(payload)
<1>3. n \in Nat \ {0} /\ FramingType /\ buffer \in Seq(Byte) /\ Len(buffer) \in Nat /\ damaged \in 0 .. 2
  BY FramingConstants DEF FramingInv, FramingType
<1>4. /\ wire' \in Seq(Octet) /\ Len(wire') <= n + 3
      /\ Consumed' = Consumed + 1
      /\ wire' = << >> <=> Consumed = n + 2
      /\ \A i \in 1 .. Len(wire') : wire'[i] = Framing!FrameOf(payload')[Consumed' + i]
  BY <1>2, WireAfter
<1>5. /\ Consumed \in 0 .. n + 2
      /\ Consumed = 0 => Head(wire) = VEDA_START_BYTE
      /\ Consumed \in 1 .. n => Head(wire) = payload[Consumed]
      /\ Consumed = n + 1 => Head(wire) = cs
      /\ Consumed = n + 2 => Head(wire) = VEDA_END_BYTE
  BY <1>2, NextByte
<1>6. /\ Progress \in 0 .. n + 2
      /\ Progress = 0 =>
           /\ got' = got
           /\ b = VEDA_START_BYTE => Progress' = 1 /\ Len(buffer') = 0
           /\ b # VEDA_START_BYTE => Progress' = 0
      /\ Progress \in 1 .. n =>
           /\ buffer' = Append(buffer, b) /\ Len(buffer) = Progress - 1
           /\ Progress' = Progress + 1 /\ got' = got /\ checksum' = checksum
      /\ Progress = n + 1 =>
           /\ checksum' = b /\ buffer' = buffer /\ got' = got
           /\ Progress' = n + 2
      /\ Progress = n + 2 =>
           /\ Len(buffer) = n
           /\ got' = IF b = VEDA_END_BYTE /\ Framing!veda_checksum(buffer) = checksum
                     THEN got \cup {buffer} ELSE got
  BY <1>1, <1>3, Fed
<1>7. FramingType'
  <2>1. /\ state' \in {"DL_WAIT_START", "DL_READ_PAYLOAD", "DL_READ_CHECKSUM", "DL_WAIT_END"}
        /\ buffer' \in Seq(Byte)
        /\ state' = "DL_READ_PAYLOAD" => Len(buffer') < PAYLOAD_LEN
        /\ state' \in {"DL_READ_CHECKSUM", "DL_WAIT_END"} => Len(buffer') = PAYLOAD_LEN
    BY <1>1, <1>3, Fed
  <2>2. damaged' \in 0 .. 2
    BY <1>1, <1>3
  <2>3. payload' \in Framing!Payload
    BY <1>2 DEF FramingInv, FramingType
  <2>. QED
    BY <1>4, <2>1, <2>2, <2>3 DEF FramingType
<1>8. Framing!veda_checksum(payload') = cs /\ Framing!veda_checksum(payload)' = cs
  BY <1>2
<1>. HIDE DEF n, cs
<1>9. ASSUME fresh', ~lost'
      PROVE  (damaged' = 0 => AllRight') /\ (damaged' = 1 => OneWrong')
  <2>1. (damaged = 0 => AllRight) /\ (damaged = 1 => OneWrong)
    BY <1>2, <1>9 DEF FramingInv
  <2>2. damaged = 0 => /\ got = {} /\ Progress = Consumed
                       /\ Consumed > 0 => Exact
                       /\ Consumed = n + 2 => checksum = cs
    BY <1>2, <2>1 DEF AllRight, n, cs
  <2>3. damaged = 1 => /\ got = {} /\ Consumed > 0
                       /\ \/ Progress < Consumed
                          \/ Progress = Consumed /\ OneOff /\ (Consumed = n + 2 => checksum = cs)
                          \/ Progress = Consumed /\ Exact /\ Consumed = n + 2 /\ checksum # cs
    BY <1>2, <2>1 DEF OneWrong, n, cs
  <2>4. AllRight' <=> IF wire' = << >> THEN got' = {payload}
                      ELSE /\ got' = {} /\ Progress' = Consumed'
                           /\ Consumed' > 0 => Exact'
                           /\ Consumed' = n + 2 => checksum' = cs
    BY <1>2, <1>8 DEF AllRight, n
  <2>5. OneWrong' <=> IF wire' = << >> THEN got' = {}
                      ELSE /\ got' = {} /\ Consumed' > 0
                           /\ \/ Progress' < Consumed'
                              \/ Progress' = Consumed' /\ OneOff' /\ (Consumed' = n + 2 => checksum' = cs)
                              \/ Progress' = Consumed' /\ Exact' /\ Consumed' = n + 2 /\ checksum' # cs
    BY <1>2, <1>8 DEF OneWrong, n
  <2>6. ASSUME damaged = 0, b = Head(wire) PROVE AllRight'
    <3>1. CASE Consumed = 0
      <4>1. Exact'
        BY <1>5, <1>6, <2>2, <2>6, <3>1 DEF Exact
      <4>. QED
        BY <1>3, <1>4, <1>5, <1>6, <2>2, <2>4, <2>6, <3>1, <4>1
    <3>2. CASE Consumed \in 1 .. n
      <4>1. Progress \in 1 .. n /\ Len(buffer) + 1 = Consumed
        BY <1>3, <1>6, <2>2, <2>6, <3>2
      <4>2. Exact'
        BY <1>2, <1>3, <1>5, <1>6, <2>2, <2>6, <3>2, <4>1, PayloadGrows
      <4>. QED
        BY <1>3, <1>4, <1>5, <1>6, <2>2, <2>4, <2>6, <3>2, <4>1, <4>2
    <3>3. CASE Consumed = n + 1
      <4>1. Exact'
        BY <1>2, <1>3, <1>6, <2>2, <2>6, <3>3 DEF Exact
      <4>. QED
        BY <1>3, <1>4, <1>5, <1>6, <2>2, <2>4, <2>6, <3>3, <4>1
    <3>4. CASE Consumed = n + 2
      <4>1. buffer = payload
        BY <1>3, <1>6, <2>2, <2>6, <3>4, ExactChecksum DEF n
      <4>2. got' = {payload}
        BY <1>5, <1>6, <2>2, <2>6, <3>4, <4>1 DEF cs
      <4>. QED
        BY <1>4, <2>4, <3>4, <4>2
    <3>. QED
      BY <1>3, <1>5, <3>1, <3>2, <3>3, <3>4
  <2>7. ASSUME damaged = 0, b # Head(wire) PROVE OneWrong'
    <3>1. CASE Consumed = 0
      BY <1>3, <1>4, <1>5, <1>6, <2>2, <2>5, <2>7, <3>1
    <3>2. CASE Consumed \in 1 .. n
      <4>1. Progress \in 1 .. n /\ Len(buffer) + 1 = Consumed
        BY <1>3, <1>6, <2>2, <2>7, <3>2
      <4>2. OneOff'
        BY <1>2, <1>3, <1>5, <1>6, <2>2, <2>7, <3>2, <4>1, PayloadGrows
      <4>. QED
        BY <1>3, <1>4, <1>5, <1>6, <2>2, <2>5, <2>7, <3>2, <4>1, <4>2
    <3>3. CASE Consumed = n + 1
      <4>1. Exact'
        BY <1>2, <1>3, <1>6, <2>2, <2>7, <3>3 DEF Exact
      <4>. QED
        BY <1>3, <1>4, <1>5, <1>6, <2>2, <2>5, <2>7, <3>3, <4>1
    <3>4. CASE Consumed = n + 2
      BY <1>3, <1>4, <1>5, <1>6, <2>2, <2>5, <2>7, <3>4
    <3>. QED
      BY <1>3, <1>5, <3>1, <3>2, <3>3, <3>4
  <2>8. ASSUME damaged = 1, b = Head(wire) PROVE OneWrong'
    <3>1. CASE Progress < Consumed
      <4>1. got' = {} /\ Progress' < Consumed'
        BY <1>3, <1>4, <1>5, <1>6, <2>3, <2>8, <3>1
      <4>. QED
        BY <1>4, <1>5, <2>5, <4>1
    <3>2. CASE Progress = Consumed /\ OneOff /\ (Consumed = n + 2 => checksum = cs)
      <4>1. CASE Consumed \in 1 .. n
        <5>1. Progress \in 1 .. n /\ Len(buffer) + 1 = Consumed
          BY <1>3, <1>6, <3>2, <4>1
        <5>2. OneOff'
          BY <1>2, <1>3, <1>5, <1>6, <2>8, <3>2, <4>1, <5>1, PayloadGrows
        <5>. QED
          BY <1>3, <1>4, <1>5, <1>6, <2>3, <2>5, <2>8, <3>2, <4>1, <5>1, <5>2
      <4>2. CASE Consumed = n + 1
        <5>1. OneOff'
          BY <1>2, <1>3, <1>6, <3>2, <4>2 DEF OneOff
        <5>. QED
          BY <1>3, <1>4, <1>5, <1>6, <2>3, <2>5, <2>8, <3>2, <4>2, <5>1
      <4>3. CASE Consumed = n + 2
        <5>1. Framing!veda_checksum(buffer) # cs
          BY <1>3, <1>6, <3>2, <4>3, OneOffChecksum DEF n, cs
        <5>. QED
          BY <1>4, <1>6, <2>3, <2>5, <2>8, <3>2, <4>3, <5>1
      <4>. QED
        BY <1>3, <1>5, <2>3, <2>8, <4>1, <4>2, <4>3
    <3>3. CASE Progress = Consumed /\ Exact /\ Consumed = n + 2 /\ checksum # cs
      <4>1. buffer = payload
        BY <1>3, <1>6, <3>3, ExactChecksum DEF n
      <4>. QED
        BY <1>4, <1>6, <2>3, <2>5, <2>8, <3>3, <4>1 DEF cs
    <3>. QED
      BY <2>3, <2>8, <3>1, <3>2, <3>3
  <2>9. /\ damaged' = 0 => damaged = 0 /\ b = Head(wire)
        /\ damaged' = 1 => (damaged = 0 /\ b # Head(wire)) \/ (damaged = 1 /\ b = Head(wire))
    BY <1>1, <1>3
  <2>. QED
    BY <2>6, <2>7, <2>8, <2>9
<1>. QED
  BY <1>2, <1>4, <1>7, <1>9 DEF FramingInv

(* The initial states satisfy the invariant.                               *)
LEMMA FramingInit == Framing!Init => FramingInv
<1>. SUFFICES ASSUME Framing!Init PROVE FramingInv
  OBVIOUS
<1>1. /\ state = "DL_WAIT_START" /\ buffer = << >> /\ wire = << >> /\ payload \in Framing!Payload
      /\ quiet = TRUE /\ damaged = 0
  BY DEF Framing!Init
<1>2. Len(wire) = 0 /\ wire \in Seq(Octet) /\ buffer \in Seq(Byte)
  BY <1>1
<1>. QED
  BY <1>1, <1>2, FramingConstants DEF FramingInv, FramingType

(* Every step keeps it, if a silence resets the receiver.                  *)
LEMMA FramingNext ==
  ASSUME RESYNC = TRUE, FramingInv, [Framing!Next]_Framing!vars
  PROVE  FramingInv'
<1>1. ASSUME NEW p \in Framing!Payload, Framing!Send(p) PROVE FramingInv'
  <2>1. /\ wire' = Framing!FrameOf(p) /\ payload' = p /\ got' = {} /\ fresh' = quiet
        /\ damaged' = 0 /\ state' = state /\ buffer' = buffer /\ quiet' = quiet
    BY <1>1 DEF Framing!Send
  <2>2. wire' \in Seq(Octet) /\ Len(wire') = PAYLOAD_LEN + 3 /\ PAYLOAD_LEN \in Nat
    BY <2>1, FrameShape, FramingConstants
  <2>3. Consumed' = 0 /\ wire' # << >>
    BY <2>2 DEF Consumed
  <2>4. FramingType'
    BY <2>1, <2>2 DEF FramingInv, FramingType
  <2>5. \A i \in 1 .. Len(wire') : wire'[i] = Framing!FrameOf(payload')[Consumed' + i]
    BY <2>1, <2>2, <2>3
  <2>6. quiet' => state' = "DL_WAIT_START"
    BY <2>1 DEF FramingInv
  <2>7. fresh' => Progress' = 0
    BY <2>1, <2>6 DEF Progress
  <2>8. fresh' => AllRight'
    BY <2>1, <2>2, <2>3, <2>7 DEF AllRight
  <2>. QED
    BY <2>1, <2>3, <2>4, <2>5, <2>6, <2>8 DEF FramingInv
<1>2. ASSUME Framing!Arrive PROVE FramingInv'
  BY <1>2, ArriveKeepsInv
<1>3. ASSUME Framing!Lose PROVE FramingInv'
  <2>1. /\ wire # << >> /\ wire' = Tail(wire) /\ quiet' = FALSE /\ lost' = TRUE
        /\ payload' = payload /\ damaged' = damaged /\ state' = state /\ buffer' = buffer
    BY <1>3 DEF Framing!Lose, Framing!receiverVars
  <2>2. /\ wire' \in Seq(Octet) /\ Len(wire') <= PAYLOAD_LEN + 3
        /\ \A i \in 1 .. Len(wire') : wire'[i] = Framing!FrameOf(payload')[Consumed' + i]
    BY <2>1, WireAfter
  <2>3. FramingType'
    BY <2>1, <2>2 DEF FramingInv, FramingType
  <2>. QED
    BY <2>1, <2>2, <2>3 DEF FramingInv
<1>4. ASSUME Framing!Silence PROVE FramingInv'
  <2>1. /\ wire = << >> /\ quiet' = TRUE /\ state' = "DL_WAIT_START"
        /\ wire' = wire /\ payload' = payload /\ damaged' = damaged /\ buffer' = buffer
    BY <1>4 DEF Framing!Silence
  <2>2. FramingType'
    BY <2>1 DEF FramingInv, FramingType
  <2>3. \A i \in 1 .. Len(wire') : wire'[i] = Framing!FrameOf(payload')[Consumed' + i]
    BY <2>1
  <2>. QED
    BY <2>1, <2>2, <2>3 DEF FramingInv
<1>5. ASSUME UNCHANGED Framing!vars PROVE FramingInv'
  BY <1>5 DEF FramingInv, FramingType, AllRight, OneWrong, Exact, OneOff, Progress, Consumed,
     Framing!vars, Framing!receiverVars
<1>. QED
  BY <1>1, <1>2, <1>3, <1>4, <1>5 DEF Framing!Next

(* What the invariant says when the line falls silent.                     *)
LEMMA FramingInvHeals == FramingInv => SilenceHeals
  BY DEF FramingInv, FramingType, AllRight, OneWrong, SilenceHeals, Framing!SilenceHeals

(* veda_config.h: after a silent line a frame of any payload is accepted, and*)
(* one changed byte does not turn it into another (rx_task, which resyncs).*)
THEOREM SilenceHealsHolds ==
  ASSUME RESYNC = TRUE
  PROVE  Framing!Spec => []SilenceHeals
<1>1. FramingInv /\ [Framing!Next]_Framing!vars => FramingInv'
  BY FramingNext
<1>. QED
  BY <1>1, FramingInit, FramingInvHeals, PTL DEF Framing!Spec

-----------------------------------------------------------------------------
(* The fusion.                                                             *)

Mode == {"right", "swapped", "nameless", "mistaken"}

Detection == {Fusion!Seen(p[1], p[2], mode) : p \in Vehicle \X Channel, mode \in Mode}

(* The candidates are detections.                                          *)
LEMMA CandidatesType ==
  ASSUME NEW sees \in SUBSET (Vehicle \X Channel), NEW channels \in Fusion!Orders(Channel),
         NEW vehicles \in Fusion!Orders(Vehicle), NEW mode \in Mode
  PROVE  Fusion!Candidates(sees, channels, vehicles, mode) \in Seq(Detection)
<1>. DEFINE n == Len(vehicles)
            total == n * Len(channels)
            slot(i) == <<vehicles[((i - 1) % n) + 1], channels[((i - 1) \div n) + 1]>>
            step(s, i) == IF slot(i) \in sees
                          THEN Append(s, Fusion!Seen(slot(i)[1], slot(i)[2], mode))
                          ELSE s
            Is(g) == g = [i \in 0 .. total |->
                               IF i = 0 THEN << >>
                               ELSE IF slot(i) \in sees
                                    THEN Append(g[i - 1], Fusion!Seen(slot(i)[1], slot(i)[2], mode))
                               ELSE g[i - 1]]
            D == Seq(Detection)
            e == [i \in 1 .. total |-> [s \in D |-> step(s, i)]]
<1>1. total \in Nat
  <2>1. Fusion!Cardinality(Vehicle) \in Nat /\ Fusion!Cardinality(Channel) \in Nat
    BY FusionHolds, FS_CardinalityType DEF Fusion!WorldAssumption, Fusion!IsFiniteSet,
       IsFiniteSet, Fusion!Cardinality, Cardinality
  <2>2. Len(vehicles) = Fusion!Cardinality(Vehicle) /\ Len(channels) = Fusion!Cardinality(Channel)
    BY <2>1 DEF Fusion!Orders
  <2>. QED
    BY <2>1, <2>2
<1>2. ASSUME NEW i \in 1 .. total, NEW s \in D PROVE step(s, i) \in D
  <2>1. slot(i) \in sees => Fusion!Seen(slot(i)[1], slot(i)[2], mode) \in Detection
    <3>. HIDE DEF slot
    <3>. QED
      BY DEF Detection
  <2>. HIDE DEF slot
  <2>. QED
    BY <2>1
<1>3. \A i \in 0 .. total : i = 0 \/ i \in 1 .. total
  BY <1>1
<1>. HIDE DEF slot, total
<1>4. PICK g \in [0 .. total -> D] : g[0] = << >> /\ \A i \in 1 .. total : g[i] = e[i][g[i - 1]]
  <2>. DEFINE a == << >>
  <2>1. e \in [1 .. total -> [D -> D]] /\ a \in D
    BY <1>2
  <2>. HIDE DEF e, D, a
  <2>2. Runs(total, D, a, e) # {}
    BY <1>1, <2>1, Iteration
  <2>. QED
    BY <2>2 DEF Runs, a
<1>5. Is(g)
  <2>1. ASSUME NEW i \in 1 .. total PROVE g[i] = step(g[i - 1], i)
    <3>1. i - 1 \in 0 .. total
      BY <1>1
    <3>2. g[i - 1] \in D
      BY <3>1
    <3>. QED
      BY <1>4, <3>2
  <2>. QED
    BY <1>3, <1>4, <2>1
<1>6. PICK h : Is(h) /\ Fusion!Candidates(sees, channels, vehicles, mode) = h[total]
  <2>1. \E h : Is(h)
    BY <1>5
  <2>. QED
    BY <2>1 DEF Fusion!Candidates, total, slot
<1>. DEFINE T == {i \in 0 .. total : h[i] \in D}
<1>7. 0 \in T
  BY <1>1, <1>6
<1>8. ASSUME NEW i \in 0 .. total, i < total, i \in T PROVE i + 1 \in T
  <2>1. i + 1 \in 1 .. total /\ i + 1 # 0 /\ (i + 1) - 1 = i
    BY <1>1, <1>8
  <2>2. h[i + 1] = step(h[i], i + 1)
    <3>1. h[i + 1] = IF slot(i + 1) \in sees
                                    THEN Append(h[(i + 1) - 1],
                                                Fusion!Seen(slot(i + 1)[1], slot(i + 1)[2], mode))
                               ELSE h[(i + 1) - 1]
      <4>1. i + 1 \in 0 .. total
        BY <1>1, <2>1
      <4>. QED
        BY <1>6, <2>1, <4>1
    <3>. QED
      BY <2>1, <3>1
  <2>. HIDE DEF D, step
  <2>. QED
    BY <1>2, <1>8, <2>1, <2>2
<1>9. total \in T
  <2>1. total \in 0 .. total
    BY <1>1
  <2>. HIDE DEF T
  <2>. QED
    BY <2>1, <1>1, <1>7, <1>8, InductionUpTo
<1>. QED
  BY <1>6, <1>9

(* What the rest of fuse needs of the candidates.                          *)
Positions(c) ==
  /\ Len(c) \in Nat /\ DOMAIN c = 1 .. Len(c)
  /\ \A i \in DOMAIN c : c[i].pos \in Int

FusionState == world \in World /\ motionFrame_ \in Nat

(* A vehicle is seen at a whole distance.                                  *)
LEMMA CandidatesPositions ==
  ASSUME FusionState, NEW c \in Seq(Detection)
  PROVE  Positions(c)
<1>1. ASSUME NEW d \in Detection PROVE d.pos \in Int
  <2>1. PICK p \in Vehicle \X Channel, mode \in Mode : d = Fusion!Seen(p[1], p[2], mode)
    BY DEF Detection
  <2>2. d.pos = Fusion!Place(p[1], motionFrame_ + 1)
    BY <2>1 DEF Fusion!Seen
  <2>3. p[1] \in Vehicle /\ world.start[p[1]] \in Int /\ world.speed[p[1]] \in Int /\ motionFrame_ + 1 \in Int
    <3>1. world.start \in [Vehicle -> Int] /\ world.speed \in [Vehicle -> Int]
      BY FusionHolds DEF FusionState, Fusion!WorldAssumption
    <3>. QED
      BY <3>1 DEF FusionState
  <2>4. \A x, y, z \in Int : x + y * z \in Int
    OBVIOUS
  <2>. QED
    BY <2>2, <2>3, <2>4 DEF Fusion!Place
<1>. QED
  BY <1>1 DEF Positions

(* Sets of candidates, each named by one of its members                    *)
Roots(c) ==
  {root \in [DOMAIN c -> DOMAIN c] : \A m \in DOMAIN c : root[root[m]] = root[m]}

(* A union names its members by one of them.                               *)
LEMMA JoinedType ==
  ASSUME NEW c, NEW root \in Roots(c), NEW i, NEW j \in DOMAIN c
  PROVE  Fusion!Joined(c, root, i, j) \in Roots(c)
<1>. DEFINE D == DOMAIN c
            x == root[i]
            united == [m \in D |-> IF root[m] = x THEN root[j] ELSE root[m]]
<1>1. root \in [D -> D] /\ j \in D /\ \A m \in D : root[root[m]] = root[m]
  BY DEF Roots
<1>. HIDE DEF D, x
<1>2. united \in [D -> D]
  BY <1>1
<1>3. \A m \in D : united[united[m]] = united[m]
  <2>1. \A m \in D : united[m] = IF root[m] = x THEN root[j] ELSE root[m]
    OBVIOUS
  <2>2. \A m \in D : united[m] \in D
    BY <1>2
  <2>. HIDE DEF united
  <2>. QED
    BY <1>1, <2>1, <2>2
<1>. HIDE DEF united
<1>4. united \in Roots(c)
  BY <1>2, <1>3 DEF Roots, D
<1>. QED
  BY <1>4 DEF Fusion!Joined, united, D, x

(* The roots the union-find ends with are candidates.                      *)
LEMMA ufRootType ==
  ASSUME NEW c, Positions(c)
  PROVE  Fusion!ufRoot(c) \in Roots(c)
<1>. DEFINE n == Len(c)
            total == n * n
            R == Roots(c)
            a == [m \in DOMAIN c |-> m]
            first(i) == ((i - 1) \div n) + 1
            second(i) == ((i - 1) % n) + 1
            step(s, i) == Fusion!Joined(c, s, first(i), second(i))
            Is(g) == g = [i \in 0 .. total |->
                            IF i = 0 THEN a ELSE Fusion!Joined(c, g[i - 1], first(i), second(i))]
            e == [i \in 1 .. total |-> [s \in R |-> step(s, i)]]
<1>1. n \in Nat /\ DOMAIN c = 1 .. n
  BY DEF Positions
<1>2. total \in Nat
  BY <1>1
<1>3. ASSUME NEW i \in 1 .. total PROVE second(i) \in DOMAIN c
  <2>1. n > 0
    BY <1>1
  <2>2. i - 1 \in Nat
    BY <1>2
  <2>3. \A x \in Nat : x % n \in 0 .. n - 1
    BY <1>1, <2>1
  <2>4. (i - 1) % n \in 0 .. n - 1
    BY <2>2, <2>3
  <2>. QED
    BY <1>1, <2>4
<1>4. a \in R
  BY DEF Roots
<1>. HIDE DEF first, second, a
<1>5. ASSUME NEW i \in 1 .. total, NEW s \in R PROVE step(s, i) \in R
  <2>. HIDE DEF total
  <2>. QED
    BY <1>3, JoinedType
<1>6. \A i \in 0 .. total : i = 0 \/ i \in 1 .. total
  BY <1>2
<1>. HIDE DEF total
<1>7. PICK g \in [0 .. total -> R] : g[0] = a /\ \A i \in 1 .. total : g[i] = e[i][g[i - 1]]
  <2>1. e \in [1 .. total -> [R -> R]]
    BY <1>5
  <2>. HIDE DEF e, R
  <2>2. Runs(total, R, a, e) # {}
    BY <1>2, <1>4, <2>1, Iteration
  <2>. QED
    BY <2>2 DEF Runs
<1>8. Is(g)
  <2>1. ASSUME NEW i \in 1 .. total PROVE g[i] = step(g[i - 1], i)
    <3>1. i - 1 \in 0 .. total
      BY <1>2
    <3>. HIDE DEF step, R
    <3>2. g[i - 1] \in R
      BY <3>1
    <3>. QED
      BY <1>7, <3>2
  <2>. QED
    BY <1>6, <1>7, <2>1
<1>9. PICK h : Is(h) /\ Fusion!ufRoot(c) = h[total]
  <2>1. \E h : Is(h)
    BY <1>8
  <2>. QED
    BY <2>1 DEF Fusion!ufRoot, total, first, second, a
<1>. DEFINE T == {i \in 0 .. total : h[i] \in R}
<1>10. 0 \in T
  BY <1>2, <1>4, <1>9
<1>11. ASSUME NEW i \in 0 .. total, i < total, i \in T PROVE i + 1 \in T
  <2>1. i + 1 \in 1 .. total /\ i + 1 \in 0 .. total /\ i + 1 # 0 /\ (i + 1) - 1 = i
    BY <1>2, <1>11
  <2>2. h[i + 1] = step(h[i], i + 1)
    BY <1>9, <2>1
  <2>. HIDE DEF R, step
  <2>. QED
    BY <1>5, <1>11, <2>1, <2>2
<1>12. total \in T
  <2>1. total \in 0 .. total
    BY <1>2
  <2>. HIDE DEF T
  <2>. QED
    BY <1>2, <1>10, <1>11, <2>1, InductionUpTo
<1>. QED
  BY <1>9, <1>12

(* The loop that adds the positions of the members                         *)
SumPosRuns(c, root, r) ==
  {h \in [0 .. Len(c) -> Int] :
     /\ h[0] = 0 /\ h[Len(c)] = Fusion!SumPos(c, root, r)
     /\ \A i \in 1 .. Len(c) : h[i] = h[i - 1] + IF root[i] = r THEN c[i].pos ELSE 0}

(* It adds whole numbers.                                                  *)
LEMMA SumPosLoop ==
  ASSUME NEW c, Positions(c), NEW root, NEW r
  PROVE  SumPosRuns(c, root, r) # {}
<1>. DEFINE n == Len(c)
            of(i) == IF root[i] = r THEN c[i].pos ELSE 0
            step(s, i) == s + of(i)
            Is(g) == g = [i \in 0 .. n |-> IF i = 0 THEN 0 ELSE g[i - 1] + of(i)]
            e == [i \in 1 .. n |-> [s \in Int |-> step(s, i)]]
<1>1. n \in Nat
  BY DEF Positions
<1>2. ASSUME NEW i \in 1 .. n PROVE of(i) \in Int
  BY DEF Positions
<1>. HIDE DEF n, of
<1>3. ASSUME NEW i \in 1 .. n, NEW s \in Int PROVE step(s, i) \in Int
  BY <1>2
<1>4. \A i \in 0 .. n : i = 0 \/ i \in 1 .. n
  BY <1>1
<1>5. PICK g \in [0 .. n -> Int] : g[0] = 0 /\ \A i \in 1 .. n : g[i] = e[i][g[i - 1]]
  <2>. DEFINE Z == Int
              zero == 0
  <2>1. e \in [1 .. n -> [Z -> Z]] /\ zero \in Z
    BY <1>3
  <2>. HIDE DEF e, Z, zero
  <2>2. Runs(n, Z, zero, e) # {}
    BY <1>1, <2>1, Iteration
  <2>. QED
    BY <2>2 DEF Runs, Z, zero
<1>6. Is(g)
  <2>1. ASSUME NEW i \in 1 .. n PROVE g[i] = step(g[i - 1], i)
    <3>1. i - 1 \in 0 .. n
      BY <1>1
    <3>. HIDE DEF step
    <3>2. g[i - 1] \in Int
      BY <3>1
    <3>. QED
      BY <1>5, <3>2
  <2>. QED
    BY <1>4, <1>5, <2>1
<1>7. PICK h : Is(h) /\ Fusion!SumPos(c, root, r) = h[n]
  <2>1. \E h : Is(h)
    BY <1>6
  <2>. QED
    BY <2>1 DEF Fusion!SumPos, n, of
<1>. DEFINE T == {i \in 0 .. n : h[i] \in Int}
<1>8. 0 \in T
  BY <1>1, <1>7
<1>9. ASSUME NEW i \in 0 .. n, i < n, i \in T PROVE i + 1 \in T
  <2>1. i + 1 \in 1 .. n /\ i + 1 \in 0 .. n /\ i + 1 # 0 /\ (i + 1) - 1 = i
    BY <1>1, <1>9
  <2>2. h[i + 1] = step(h[i], i + 1)
    BY <1>7, <2>1
  <2>. HIDE DEF step
  <2>. QED
    BY <1>3, <1>9, <2>1, <2>2
<1>. HIDE DEF T
<1>11. \A i \in 0 .. n : i \in T
  BY <1>1, <1>8, <1>9, InductionUpTo
<1>12. /\ \A i \in 0 .. n : h[i] \in Int
       /\ h = [i \in 0 .. n |-> IF i = 0 THEN 0 ELSE h[i - 1] + of(i)]
  BY <1>7, <1>11 DEF T
<1>13. h \in [0 .. n -> Int] /\ h[0] = 0 /\ \A i \in 1 .. n : h[i] = h[i - 1] + of(i)
  BY <1>1, <1>12
<1>14. h[n] = Fusion!SumPos(c, root, r)
  BY <1>7
<1>15. h \in SumPosRuns(c, root, r)
  BY <1>13, <1>14 DEF SumPosRuns, n, of
<1>. QED
  BY <1>15

(* Positions add up to a position.                                         *)
LEMMA SumPosType ==
  ASSUME NEW c, Positions(c), NEW root, NEW r
  PROVE  Fusion!SumPos(c, root, r) \in Int
<1>1. PICK h \in SumPosRuns(c, root, r) : TRUE
  BY SumPosLoop
<1>2. h \in [0 .. Len(c) -> Int] /\ h[Len(c)] = Fusion!SumPos(c, root, r) /\ Len(c) \in 0 .. Len(c)
  BY <1>1 DEF SumPosRuns, Positions
<1>. QED
  BY <1>2

(* Objects: named by candidates, made of candidates, at a position.        *)
Objects(c, f) ==
  /\ DOMAIN f \subseteq DOMAIN c
  /\ \A r \in DOMAIN f : f[r].members \subseteq DOMAIN c /\ f[r].pos \in Int

(* Merging makes objects of candidates.                                    *)
LEMMA FusedObjects ==
  ASSUME NEW c, Positions(c), NEW root \in Roots(c)
  PROVE  Objects(c, Fusion!Fused(c, root))
<1>. DEFINE f == Fusion!Fused(c, root)
<1>1. DOMAIN f = Fusion!Range(root)
  BY DEF Fusion!Fused
<1>2. Fusion!Range(root) = {root[i] : i \in DOMAIN c} /\ root \in [DOMAIN c -> DOMAIN c]
  BY DEF Fusion!Range, Roots
<1>3. DOMAIN f \subseteq DOMAIN c
  BY <1>1, <1>2
<1>4. ASSUME NEW r \in DOMAIN f
      PROVE  f[r].members \subseteq DOMAIN c /\ f[r].pos \in Int
  <2>. DEFINE M == Fusion!Members(c, root, r)
  <2>1. f[r].members = M /\ f[r].pos = Fusion!SumPos(c, root, r) \div Fusion!Cardinality(M)
    BY <1>1 DEF Fusion!Fused
  <2>2. M \subseteq DOMAIN c /\ M # {}
    BY <1>1, <1>2 DEF Fusion!Members
  <2>. HIDE DEF M
  <2>3. Cardinality(M) \in Nat /\ Cardinality(M) # 0
    <3>1. Len(c) \in Int /\ DOMAIN c = 1 .. Len(c)
      BY DEF Positions
    <3>2. IsFiniteSet(DOMAIN c)
      BY <3>1, 1 \in Int, FS_Interval
    <3>3. IsFiniteSet(M)
      BY <2>2, <3>2, FS_Subset
    <3>. QED
      BY <2>2, <3>3, FS_CardinalityType, FS_EmptySet
  <2>4. Fusion!Cardinality(M) = Cardinality(M)
    BY DEF Fusion!Cardinality, Cardinality
  <2>5. \A x \in Int, y \in Nat : y # 0 => x \div y \in Int
    OBVIOUS
  <2>6. Fusion!SumPos(c, root, r) \in Int
    BY SumPosType
  <2>. QED
    BY <2>1, <2>2, <2>3, <2>4, <2>5, <2>6
<1>. QED
  BY <1>3, <1>4 DEF Objects

(* The least of a set of natural numbers is one of them.                   *)
LEMMA MinIsMember ==
  ASSUME NEW S \in SUBSET Nat, S # {}
  PROVE  Fusion!Min(S) \in S
<1>1. \E m \in S : \A i \in S : m <= i
  BY LeastNat
<1>. QED
  BY <1>1 DEF Fusion!Min

(* Objects get tracks of their class, and no two the same one.             *)
Assignments(f) ==
  {a \in [DOMAIN f -> {0} \cup DOMAIN byGid_] :
     /\ \A r, q \in DOMAIN f : a[r] # 0 /\ a[r] = a[q] => r = q
     /\ \A r \in DOMAIN f : a[r] # 0 => byGid_[a[r]].cls = f[r].cls}

(* An object takes a free track of its class.                              *)
LEMMA Assign ==
  ASSUME NEW f, NEW a \in Assignments(f), NEW r \in DOMAIN f, NEW g \in DOMAIN byGid_,
         g \notin Fusion!Range(a), byGid_[g].cls = f[r].cls
  PROVE  [a EXCEPT ![r] = g] \in Assignments(f)
<1>. DEFINE b == [a EXCEPT ![r] = g]
<1>1. a \in [DOMAIN f -> {0} \cup DOMAIN byGid_]
  BY DEF Assignments
<1>2. b \in [DOMAIN f -> {0} \cup DOMAIN byGid_]
  BY <1>1
<1>3. \A q \in DOMAIN f : b[q] = IF q = r THEN g ELSE a[q]
  BY <1>1
<1>4. \A q \in DOMAIN f : a[q] # g
  BY <1>1 DEF Fusion!Range
<1>. HIDE DEF b
<1>5. \A q, p \in DOMAIN f : b[q] # 0 /\ b[q] = b[p] => q = p
  BY <1>3, <1>4 DEF Assignments
<1>6. \A q \in DOMAIN f : b[q] # 0 => byGid_[b[q]].cls = f[q].cls
  BY <1>3 DEF Assignments
<1>. QED
  BY <1>2, <1>5, <1>6 DEF Assignments, b

(* A source id assigns a free track of the class of the object.            *)
LEMMA SourceStepAssigns ==
  ASSUME NEW c, Positions(c), NEW f, Objects(c, f), NEW w, NEW a \in Assignments(f), NEW r \in DOMAIN f
  PROVE  Fusion!SourceStep(c, f, w, a, r) \in Assignments(f)
<1>. DEFINE match(i) ==
              Fusion!SourceMatch(Fusion!Source(c[i]), f[r], r \in Fusion!Ambiguous(f),
                                 Fusion!Range(a), w)
            ok == {i \in f[r].members : match(i)}
            gid(i) == idIndex_[Fusion!Source(c[i])]
<1>1. Fusion!SourceStep(c, f, w, a, r) = IF ok = {} THEN a ELSE [a EXCEPT ![r] = gid(Fusion!Min(ok))]
  BY DEF Fusion!SourceStep
<1>2. ok \in SUBSET Nat
  <2>1. f[r].members \subseteq 1 .. Len(c) /\ Len(c) \in Nat
    BY DEF Objects, Positions
  <2>2. f[r].members \subseteq Nat
    BY <2>1
  <2>3. ok \subseteq f[r].members
    OBVIOUS
  <2>. HIDE DEF ok
  <2>. QED
    BY <2>2, <2>3
<1>3. ASSUME NEW i \in ok
      PROVE  gid(i) \in DOMAIN byGid_ /\ gid(i) \notin Fusion!Range(a) /\ byGid_[gid(i)].cls = f[r].cls
  BY <1>3 DEF Fusion!SourceMatch
<1>4. CASE ok = {}
  BY <1>1, <1>4
<1>5. CASE ok # {}
  <2>1. Fusion!Min(ok) \in ok
    <3>. HIDE DEF ok
    <3>. QED
      BY <1>2, <1>5, MinIsMember
  <2>. DEFINE m == Fusion!Min(ok)
  <2>. HIDE DEF m, gid, ok
  <2>2. [a EXCEPT ![r] = gid(m)] \in Assignments(f)
    BY <1>3, <2>1, Assign DEF m
  <2>. QED
    BY <1>1, <1>5, <2>2 DEF m
<1>. QED
  BY <1>4, <1>5

(* The loop over the objects with the source ids                           *)
BySourceRuns(c, f, w) ==
  {h \in [0 .. Len(c) -> Assignments(f)] :
     /\ h[0] = [r \in DOMAIN f |-> 0] /\ h[Len(c)] = Fusion!BySource(c, f, w)
     /\ \A i \in 1 .. Len(c) :
          h[i] = IF i \in DOMAIN f THEN Fusion!SourceStep(c, f, w, h[i - 1], i) ELSE h[i - 1]}

(* The source ids of all the objects assign so.                            *)
LEMMA BySourceLoop ==
  ASSUME NEW c, Positions(c), NEW f, Objects(c, f), NEW w
  PROVE  BySourceRuns(c, f, w) # {}
<1>. DEFINE n == Len(c)
            A == Assignments(f)
            a == [r \in DOMAIN f |-> 0]
            step(s, i) == IF i \in DOMAIN f THEN Fusion!SourceStep(c, f, w, s, i) ELSE s
            Is(g) == g = [i \in 0 .. n |->
                            IF i = 0 THEN a
                            ELSE IF i \in DOMAIN f THEN Fusion!SourceStep(c, f, w, g[i - 1], i)
                            ELSE g[i - 1]]
            e == [i \in 1 .. n |-> [s \in A |-> step(s, i)]]
<1>1. n \in Nat
  BY DEF Positions
<1>2. a \in A
  BY DEF Assignments
<1>. HIDE DEF n, a, A
<1>3. ASSUME NEW i \in 1 .. n, NEW s \in A PROVE step(s, i) \in A
  BY SourceStepAssigns DEF A
<1>4. \A i \in 0 .. n : i = 0 \/ i \in 1 .. n
  BY <1>1
<1>5. PICK g \in [0 .. n -> A] : g[0] = a /\ \A i \in 1 .. n : g[i] = e[i][g[i - 1]]
  <2>1. e \in [1 .. n -> [A -> A]]
    BY <1>3
  <2>. HIDE DEF e
  <2>2. Runs(n, A, a, e) # {}
    BY <1>1, <1>2, <2>1, Iteration
  <2>. QED
    BY <2>2 DEF Runs
<1>6. Is(g)
  <2>1. ASSUME NEW i \in 1 .. n PROVE g[i] = step(g[i - 1], i)
    <3>1. i - 1 \in 0 .. n
      BY <1>1
    <3>. HIDE DEF step
    <3>2. g[i - 1] \in A
      BY <3>1
    <3>. QED
      BY <1>5, <3>2
  <2>. QED
    BY <1>4, <1>5, <2>1
<1>7. PICK h : Is(h) /\ Fusion!BySource(c, f, w) = h[n]
  <2>1. \E h : Is(h)
    BY <1>6
  <2>. QED
    BY <2>1 DEF Fusion!BySource, n, a
<1>. DEFINE T == {i \in 0 .. n : h[i] \in A}
<1>8. 0 \in T
  BY <1>1, <1>2, <1>7
<1>9. ASSUME NEW i \in 0 .. n, i < n, i \in T PROVE i + 1 \in T
  <2>1. i + 1 \in 1 .. n /\ i + 1 \in 0 .. n /\ i + 1 # 0 /\ (i + 1) - 1 = i
    BY <1>1, <1>9
  <2>2. h[i + 1] = step(h[i], i + 1)
    BY <1>7, <2>1
  <2>. HIDE DEF step
  <2>. QED
    BY <1>3, <1>9, <2>1, <2>2
<1>. HIDE DEF T
<1>11. \A i \in 0 .. n : i \in T
  BY <1>1, <1>8, <1>9, InductionUpTo
<1>12. /\ \A i \in 0 .. n : h[i] \in A
       /\ h = [i \in 0 .. n |->
                 IF i = 0 THEN a
                 ELSE IF i \in DOMAIN f THEN Fusion!SourceStep(c, f, w, h[i - 1], i)
                 ELSE h[i - 1]]
  BY <1>7, <1>11 DEF T
<1>13. /\ h[0] = a
       /\ \A i \in 1 .. n :
            h[i] = IF i \in DOMAIN f THEN Fusion!SourceStep(c, f, w, h[i - 1], i) ELSE h[i - 1]
  BY <1>1, <1>12
<1>14. h \in [0 .. n -> A] /\ h[n] = Fusion!BySource(c, f, w)
  BY <1>7, <1>12
<1>15. h \in BySourceRuns(c, f, w)
  BY <1>13, <1>14 DEF BySourceRuns, n, a, A
<1>. QED
  BY <1>15

(* They end with an assignment.                                            *)
LEMMA BySourceAssigns ==
  ASSUME NEW c, Positions(c), NEW f, Objects(c, f), NEW w
  PROVE  Fusion!BySource(c, f, w) \in Assignments(f)
<1>. DEFINE A == Assignments(f)
<1>1. PICK h \in BySourceRuns(c, f, w) : TRUE
  BY BySourceLoop
<1>2. h \in [0 .. Len(c) -> A] /\ h[Len(c)] = Fusion!BySource(c, f, w) /\ Len(c) \in 0 .. Len(c)
  BY <1>1 DEF BySourceRuns, Positions
<1>. HIDE DEF A
<1>3. Fusion!BySource(c, f, w) \in A
  BY <1>2
<1>. QED
  BY <1>3 DEF A

(* The tracks: named by gids, moving in whole distances.                   *)
TrackFields ==
  {"cls", "rawPos", "pos", "motionDelta", "lastMotionFrame", "hasMotion", "missedWindows"}

TracksType ==
  /\ DOMAIN byGid_ \subseteq Nat \ {0}
  /\ \A g \in DOMAIN byGid_ :
       /\ TrackFields \subseteq DOMAIN byGid_[g]
       /\ byGid_[g].rawPos \in Int /\ byGid_[g].motionDelta \in Int
       /\ byGid_[g].lastMotionFrame \in Int

(* An object is a whole distance away from where a track is expected.      *)
LEMMA OffType ==
  ASSUME TracksType, NEW o, o.pos \in Int, NEW g \in DOMAIN byGid_, NEW w \in Int
  PROVE  Fusion!Off(o, byGid_[g], w) \in Nat
<1>. DEFINE t == byGid_[g]
            at == Fusion!predictPosition(t, w)
<1>1. t.rawPos \in Int /\ t.motionDelta \in Int /\ t.lastMotionFrame \in Int
  BY DEF TracksType
<1>2. \A x, y, z, v \in Int : x + y * (z - v) \in Int
  OBVIOUS
<1>. HIDE DEF t
<1>3. at \in Int
  BY <1>1, <1>2 DEF Fusion!predictPosition
<1>. HIDE DEF at
<1>4. Fusion!Distance(o.pos, at) \in Nat
  BY <1>3 DEF Fusion!Distance
<1>. QED
  BY <1>4 DEF Fusion!Off, at, t

(* A closest pair there is.                                                *)
LEMMA LeastPair ==
  ASSUME TracksType, NEW c, Positions(c), NEW f, Objects(c, f), NEW w \in Int,
         NEW S \in SUBSET ((DOMAIN f) \X (DOMAIN byGid_)), S # {}
  PROVE  \E p \in S : \A q \in S :
           LET off(x) == Fusion!Off(f[x[1]], byGid_[x[2]], w)
           IN  \/ off(p) < off(q)
               \/ off(p) = off(q) /\ p[1] < q[1]
               \/ off(p) = off(q) /\ p[1] = q[1] /\ p[2] <= q[2]
<1>. DEFINE off(p) == Fusion!Off(f[p[1]], byGid_[p[2]], w)
<1>1. ASSUME NEW p \in S PROVE off(p) \in Nat /\ p[1] \in Nat /\ p[2] \in Nat
  <2>1. p[1] \in DOMAIN f /\ p[2] \in DOMAIN byGid_
    OBVIOUS
  <2>2. p[1] \in 1 .. Len(c) /\ f[p[1]].pos \in Int
    BY <2>1 DEF Objects, Positions
  <2>3. off(p) \in Nat
    BY <2>1, <2>2, OffType
  <2>4. p[1] \in Nat /\ p[2] \in Nat
    BY <2>1, <2>2 DEF TracksType, Positions
  <2>. QED
    BY <2>3, <2>4
<1>. HIDE DEF off
<1>2. PICK a \in S : \A q \in S : off(a) <= off(q)
  <2>. DEFINE T == {off(p) : p \in S}
  <2>1. T \in SUBSET Nat /\ T # {}
    BY <1>1
  <2>2. \E m \in T : \A i \in T : m <= i
    <3>. HIDE DEF T
    <3>. QED
      BY <2>1, LeastNat
  <2>. QED
    BY <2>2
<1>. DEFINE A == {p \in S : off(p) = off(a)}
<1>3. PICK b \in A : \A q \in A : b[1] <= q[1]
  <2>. DEFINE T == {p[1] : p \in A}
  <2>1. T \in SUBSET Nat /\ T # {}
    BY <1>1
  <2>2. \E m \in T : \A i \in T : m <= i
    <3>. HIDE DEF T
    <3>. QED
      BY <2>1, LeastNat
  <2>. HIDE DEF A
  <2>. QED
    BY <2>2
<1>. DEFINE B == {p \in A : p[1] = b[1]}
<1>4. PICK d \in B : \A q \in B : d[2] <= q[2]
  <2>. DEFINE T == {p[2] : p \in B}
  <2>1. T \in SUBSET Nat /\ T # {}
    BY <1>1
  <2>2. \E m \in T : \A i \in T : m <= i
    <3>. HIDE DEF T
    <3>. QED
      BY <2>1, LeastNat
  <2>. HIDE DEF B
  <2>. QED
    BY <2>2
<1>5. d \in S /\ off(d) = off(a) /\ d[1] = b[1]
  OBVIOUS
<1>6. ASSUME NEW q \in S
      PROVE  \/ off(d) < off(q)
             \/ off(d) = off(q) /\ d[1] < q[1]
             \/ off(d) = off(q) /\ d[1] = q[1] /\ d[2] <= q[2]
  <2>1. off(d) <= off(q) /\ off(d) \in Nat /\ off(q) \in Nat
    BY <1>1, <1>2, <1>5
  <2>2. off(q) = off(d) => d[1] <= q[1] /\ d[1] \in Nat /\ q[1] \in Nat
    BY <1>1, <1>3, <1>5
  <2>3. off(q) = off(d) /\ q[1] = d[1] => d[2] <= q[2]
    BY <1>4, <1>5
  <2>. QED
    BY <2>1, <2>2, <2>3
<1>. QED
  BY <1>5, <1>6 DEF off

(* It is the one that is chosen.                                           *)
LEMMA ClosestIsMember ==
  ASSUME TracksType, NEW c, Positions(c), NEW f, Objects(c, f), NEW w \in Int,
         NEW S \in SUBSET ((DOMAIN f) \X (DOMAIN byGid_)), S # {}
  PROVE  Fusion!Closest(f, w, S) \in S
<1>1. \E p \in S : \A q \in S :
        LET off(x) == Fusion!Off(f[x[1]], byGid_[x[2]], w)
        IN  \/ off(p) < off(q)
            \/ off(p) = off(q) /\ p[1] < q[1]
            \/ off(p) = off(q) /\ p[1] = q[1] /\ p[2] <= q[2]
  BY LeastPair
<1>. QED
  BY <1>1 DEF Fusion!Closest

(* The closest pair is a free track and an object of its class.            *)
LEMMA PlaceStepAssigns ==
  ASSUME TracksType, NEW c, Positions(c), NEW f, Objects(c, f), NEW w \in Int, NEW a \in Assignments(f)
  PROVE  Fusion!PlaceStep(f, w, a) \in Assignments(f)
<1>. DEFINE S == Fusion!Pairs(f, w, a)
            p == Fusion!Closest(f, w, S)
<1>1. Fusion!PlaceStep(f, w, a) = IF S = {} THEN a ELSE [a EXCEPT ![p[1]] = p[2]]
  BY DEF Fusion!PlaceStep
<1>2. CASE S = {}
  BY <1>1, <1>2
<1>3. CASE S # {}
  <2>1. S \in SUBSET ((DOMAIN f) \X (DOMAIN byGid_))
    BY DEF Fusion!Pairs
  <2>2. p \in S
    <3>. HIDE DEF S
    <3>. QED
      BY <1>3, <2>1, ClosestIsMember
  <2>3. /\ p[1] \in DOMAIN f /\ p[2] \in DOMAIN byGid_ /\ p[2] \notin Fusion!Range(a)
        /\ byGid_[p[2]].cls = f[p[1]].cls
    <3>. HIDE DEF p
    <3>. QED
      BY <2>2 DEF Fusion!Pairs
  <2>. HIDE DEF S, p
  <2>. QED
    BY <1>1, <1>3, <2>3, Assign
<1>. QED
  BY <1>2, <1>3

(* The loop that takes the closest pairs                                   *)
ByPlaceRuns(a, f, w) ==
  {h \in [0 .. Cardinality(DOMAIN f) -> Assignments(f)] :
     /\ h[0] = a /\ h[Cardinality(DOMAIN f)] = Fusion!ByPlace(a, f, w)
     /\ \A i \in 1 .. Cardinality(DOMAIN f) : h[i] = Fusion!PlaceStep(f, w, h[i - 1])}

(* Objects are finitely many.                                              *)
LEMMA ObjectsFinite ==
  ASSUME NEW c, Positions(c), NEW f, Objects(c, f)
  PROVE  /\ IsFiniteSet(DOMAIN f) /\ Cardinality(DOMAIN f) \in Nat
         /\ DOMAIN f \subseteq 1 .. Len(c) /\ DOMAIN f \in SUBSET Nat
<1>1. Len(c) \in Nat /\ DOMAIN f \subseteq 1 .. Len(c)
  BY DEF Positions, Objects
<1>2. IsFiniteSet(1 .. Len(c))
  BY <1>1, 1 \in Int, FS_Interval
<1>. QED
  BY <1>1, <1>2, FS_Subset, FS_CardinalityType

(* The closest pairs are taken one after the other.                        *)
LEMMA ByPlaceLoop ==
  ASSUME TracksType, NEW c, Positions(c), NEW f, Objects(c, f), NEW w \in Int, NEW a \in Assignments(f)
  PROVE  ByPlaceRuns(a, f, w) # {}
<1>. DEFINE n == Fusion!Cardinality(DOMAIN f)
            A == Assignments(f)
            Is(g) == g = [i \in 0 .. n |-> IF i = 0 THEN a ELSE Fusion!PlaceStep(f, w, g[i - 1])]
            step(s) == Fusion!PlaceStep(f, w, s)
            e == [i \in 1 .. n |-> [s \in A |-> step(s)]]
<1>1. n \in Nat /\ n = Cardinality(DOMAIN f)
  BY ObjectsFinite DEF Fusion!Cardinality, Cardinality
<1>2. a \in A
  OBVIOUS
<1>. HIDE DEF n, A
<1>3. ASSUME NEW i \in 1 .. n, NEW s \in A PROVE step(s) \in A
  BY PlaceStepAssigns DEF A
<1>4. \A i \in 0 .. n : i = 0 \/ i \in 1 .. n
  BY <1>1
<1>5. PICK g \in [0 .. n -> A] : g[0] = a /\ \A i \in 1 .. n : g[i] = e[i][g[i - 1]]
  <2>1. e \in [1 .. n -> [A -> A]]
    BY <1>3
  <2>. HIDE DEF e
  <2>2. Runs(n, A, a, e) # {}
    BY <1>1, <1>2, <2>1, Iteration
  <2>. QED
    BY <2>2 DEF Runs
<1>6. Is(g)
  <2>1. ASSUME NEW i \in 1 .. n PROVE g[i] = step(g[i - 1])
    <3>1. i - 1 \in 0 .. n
      BY <1>1
    <3>. HIDE DEF step
    <3>2. g[i - 1] \in A
      BY <3>1
    <3>. QED
      BY <1>5, <3>2
  <2>. QED
    BY <1>4, <1>5, <2>1
<1>7. PICK h : Is(h) /\ Fusion!ByPlace(a, f, w) = h[n]
  <2>1. \E h : Is(h)
    BY <1>6
  <2>. QED
    BY <2>1 DEF Fusion!ByPlace, n
<1>. DEFINE T == {i \in 0 .. n : h[i] \in A}
<1>8. 0 \in T
  BY <1>1, <1>2, <1>7
<1>9. ASSUME NEW i \in 0 .. n, i < n, i \in T PROVE i + 1 \in T
  <2>1. i + 1 \in 1 .. n /\ i + 1 \in 0 .. n /\ i + 1 # 0 /\ (i + 1) - 1 = i
    BY <1>1, <1>9
  <2>2. h[i + 1] = step(h[i])
    BY <1>7, <2>1
  <2>. HIDE DEF step
  <2>. QED
    BY <1>3, <1>9, <2>1, <2>2
<1>. HIDE DEF T
<1>11. \A i \in 0 .. n : i \in T
  BY <1>1, <1>8, <1>9, InductionUpTo
<1>12. /\ \A i \in 0 .. n : h[i] \in A
       /\ h = [i \in 0 .. n |-> IF i = 0 THEN a ELSE Fusion!PlaceStep(f, w, h[i - 1])]
  BY <1>7, <1>11 DEF T
<1>13. h[0] = a /\ \A i \in 1 .. n : h[i] = Fusion!PlaceStep(f, w, h[i - 1])
  BY <1>1, <1>12
<1>14. h \in [0 .. n -> A] /\ h[n] = Fusion!ByPlace(a, f, w)
  BY <1>7, <1>12
<1>15. h \in ByPlaceRuns(a, f, w)
  BY <1>1, <1>13, <1>14 DEF ByPlaceRuns, A
<1>. QED
  BY <1>15

(* They end with an assignment.                                            *)
LEMMA ByPlaceAssigns ==
  ASSUME TracksType, NEW c, Positions(c), NEW f, Objects(c, f), NEW w \in Int, NEW a \in Assignments(f)
  PROVE  Fusion!ByPlace(a, f, w) \in Assignments(f)
<1>. DEFINE A == Assignments(f)
            n == Cardinality(DOMAIN f)
<1>1. PICK h \in ByPlaceRuns(a, f, w) : TRUE
  BY ByPlaceLoop
<1>2. h \in [0 .. n -> A] /\ h[n] = Fusion!ByPlace(a, f, w) /\ n \in 0 .. n
  BY <1>1, ObjectsFinite DEF ByPlaceRuns
<1>. HIDE DEF A, n
<1>3. Fusion!ByPlace(a, f, w) \in A
  BY <1>2
<1>. QED
  BY <1>3 DEF A

(* What makes the two invariants inductive: the gids are those of before   *)
(* nextGlobalId_, a track counts the windows since its object was seen.    *)
FusionInv ==
  /\ world \in World /\ motionFrame_ \in Nat /\ nextGlobalId_ \in Nat \ {0}
  /\ TracksType
  /\ \A g \in DOMAIN byGid_ : byGid_[g].lastMotionFrame <= motionFrame_
  /\ DOMAIN lastSeen \subseteq 1 .. nextGlobalId_ - 1 /\ DOMAIN classOf = DOMAIN lastSeen
  /\ \A g \in DOMAIN lastSeen : lastSeen[g] \in 0 .. motionFrame_
  /\ DOMAIN byGid_ = {g \in DOMAIN lastSeen : motionFrame_ - lastSeen[g] <= kMaxMissedWindows}
  /\ \A g \in DOMAIN byGid_ :
       byGid_[g].cls = classOf[g] /\ byGid_[g].missedWindows = motionFrame_ - lastSeen[g]
  /\ {o.gid : o \in objects} = DOMAIN byGid_
  /\ GidIsOneObject

(* The gids of the objects: each its own, its track's or a new one.        *)
Naming(f, b, next) ==
  /\ next \in Nat /\ nextGlobalId_ <= next
  /\ b \in [DOMAIN f -> Nat \ {0}]
  /\ \A r, q \in DOMAIN f : b[r] = b[q] => r = q
  /\ \A r \in DOMAIN f : \/ b[r] \in DOMAIN byGid_ /\ byGid_[b[r]].cls = f[r].cls
                         \/ b[r] \in nextGlobalId_ .. next - 1

(* The rest gets gids that no object has or had.                           *)
LEMMA NewGids ==
  ASSUME FusionInv, NEW c, Positions(c), NEW f, Objects(c, f), NEW a \in Assignments(f)
  PROVE  Naming(f, Fusion!WithNew(a),
                nextGlobalId_ + Fusion!Cardinality({r \in DOMAIN f : a[r] = 0}))
<1>. DEFINE Z == {r \in DOMAIN f : a[r] = 0}
            before(r) == {q \in DOMAIN f : q < r /\ a[q] = 0}
            b == Fusion!WithNew(a)
            next == nextGlobalId_ + Cardinality(Z)
<1>1. DOMAIN f \subseteq Nat /\ IsFiniteSet(DOMAIN f)
  <2>1. Len(c) \in Nat /\ DOMAIN f \subseteq 1 .. Len(c)
    BY DEF Positions, Objects
  <2>2. IsFiniteSet(1 .. Len(c))
    BY <2>1, 1 \in Int, Len(c) \in Int, FS_Interval
  <2>3. IsFiniteSet(DOMAIN f)
    BY <2>1, <2>2, FS_Subset
  <2>. QED
    BY <2>1, <2>3
<1>2. a \in [DOMAIN f -> {0} \cup DOMAIN byGid_]
  BY DEF Assignments
<1>3. \A X : Fusion!Cardinality(X) = Cardinality(X)
  BY DEF Fusion!Cardinality, Cardinality
<1>4. Z \subseteq DOMAIN f /\ \A r \in DOMAIN f : before(r) \subseteq Z
  OBVIOUS
<1>5. \A r \in Z : r \notin before(r)
  BY <1>1
<1>6. \A r, q \in Z : q < r => q \in before(r) /\ before(q) \subseteq before(r)
  BY <1>1
<1>7. ASSUME NEW r \in DOMAIN f
      PROVE  b[r] = IF a[r] # 0 THEN a[r] ELSE nextGlobalId_ + Cardinality(before(r))
  <2>1. DOMAIN a = DOMAIN f
    BY <1>2
  <2>2. b[r] = IF a[r] # 0 THEN a[r]
               ELSE nextGlobalId_ + Fusion!Cardinality({q \in DOMAIN a : q < r /\ a[q] = 0})
    BY <2>1 DEF Fusion!WithNew
  <2>. HIDE DEF b
  <2>. QED
    BY <1>3, <2>1, <2>2
<1>8. DOMAIN b = DOMAIN f /\ b = [r \in DOMAIN b |-> b[r]]
  BY <1>2 DEF Fusion!WithNew
<1>. HIDE DEF Z, before, b
<1>9. IsFiniteSet(Z) /\ Cardinality(Z) \in Nat
  BY <1>1, <1>4, FS_Subset, FS_CardinalityType
<1>10. ASSUME NEW r \in DOMAIN f
       PROVE  IsFiniteSet(before(r)) /\ Cardinality(before(r)) \in Nat
  BY <1>4, <1>9, FS_Subset, FS_CardinalityType
<1>11. ASSUME NEW r \in Z PROVE Cardinality(before(r)) < Cardinality(Z)
  <2>1. r \in DOMAIN f /\ before(r) \subseteq Z /\ before(r) # Z
    BY <1>4, <1>5
  <2>2. Cardinality(before(r)) <= Cardinality(Z) /\ Cardinality(Z) # Cardinality(before(r))
    BY <1>9, <2>1, FS_Subset
  <2>. QED
    BY <1>9, <1>10, <2>1, <2>2
<1>12. ASSUME NEW r \in Z, NEW q \in Z, q < r
       PROVE  Cardinality(before(q)) < Cardinality(before(r))
  <2>1. r \in DOMAIN f /\ q \in DOMAIN f /\ before(q) \subseteq before(r) /\ before(q) # before(r)
    BY <1>4, <1>5, <1>6, <1>12
  <2>2. Cardinality(before(q)) <= Cardinality(before(r)) /\ Cardinality(before(r)) # Cardinality(before(q))
    BY <1>10, <2>1, FS_Subset
  <2>. QED
    BY <1>10, <2>1, <2>2
<1>13. nextGlobalId_ \in Nat \ {0} /\ DOMAIN byGid_ \subseteq 1 .. nextGlobalId_ - 1
  BY DEF FusionInv
<1>14. ASSUME NEW r \in DOMAIN f, r \in Z
       PROVE  b[r] \in nextGlobalId_ .. next - 1
  <2>1. b[r] = nextGlobalId_ + Cardinality(before(r))
    BY <1>7, <1>14 DEF Z
  <2>. QED
    BY <1>9, <1>10, <1>11, <1>13, <1>14, <2>1
<1>15. ASSUME NEW r \in DOMAIN f, r \notin Z
       PROVE  b[r] = a[r] /\ a[r] # 0 /\ a[r] \in DOMAIN byGid_ /\ byGid_[a[r]].cls = f[r].cls
  BY <1>2, <1>7, <1>15 DEF Z, Assignments
<1>16. ASSUME NEW r \in DOMAIN f, NEW q \in DOMAIN f, b[r] = b[q] PROVE r = q
  <2>1. CASE r \in Z /\ q \in Z
    <3>1. b[r] = nextGlobalId_ + Cardinality(before(r)) /\ b[q] = nextGlobalId_ + Cardinality(before(q))
      BY <1>7, <2>1 DEF Z
    <3>2. Cardinality(before(r)) = Cardinality(before(q))
      <4>1. \A x, y, z \in Nat : z + x = z + y => x = y
        OBVIOUS
      <4>2. nextGlobalId_ + Cardinality(before(r)) = nextGlobalId_ + Cardinality(before(q))
        BY <1>16, <3>1
      <4>3. Cardinality(before(r)) \in Nat /\ Cardinality(before(q)) \in Nat /\ nextGlobalId_ \in Nat
        BY <1>10, <1>13
      <4>. HIDE DEF next
      <4>. QED
        BY <4>1, <4>2, <4>3
    <3>3. ~(q < r) /\ ~(r < q)
      BY <1>10, <1>12, <2>1, <3>2
    <3>. QED
      BY <1>1, <3>3
  <2>2. CASE r \notin Z /\ q \notin Z
    <3>1. a[r] = a[q] /\ a[r] # 0
      BY <1>15, <1>16, <2>2
    <3>. QED
      BY <3>1 DEF Assignments
  <2>3. CASE r \in Z /\ q \notin Z
    BY <1>9, <1>13, <1>14, <1>15, <1>16, <2>3
  <2>4. CASE r \notin Z /\ q \in Z
    BY <1>9, <1>13, <1>14, <1>15, <1>16, <2>4
  <2>. QED
    BY <2>1, <2>2, <2>3, <2>4
<1>17. \A r \in DOMAIN f : b[r] \in Nat \ {0}
  BY <1>9, <1>13, <1>14, <1>15
<1>18. Naming(f, b, next)
  <2>1. b \in [DOMAIN f -> Nat \ {0}]
    BY <1>8, <1>17
  <2>. HIDE DEF next
  <2>2. next \in Nat /\ nextGlobalId_ <= next
    BY <1>9, <1>13 DEF next
  <2>3. \A r \in DOMAIN f : \/ b[r] \in DOMAIN byGid_ /\ byGid_[b[r]].cls = f[r].cls
                            \/ b[r] \in nextGlobalId_ .. next - 1
    BY <1>14, <1>15 DEF next
  <2>. QED
    BY <1>16, <2>1, <2>2, <2>3 DEF Naming
<1>. QED
  BY <1>3, <1>18 DEF b, Z

\* A call of fuse makes objects f of the candidates c and matches them with a.
Called(c, f, a) ==
  LET w == motionFrame_ + 1
      b == Fusion!WithNew(a)
  IN  /\ f = Fusion!Fused(c, Fusion!ufRoot(c))
      /\ a = Fusion!ByPlace(Fusion!BySource(c, f, w), f, w)
      /\ Objects(c, f) /\ Naming(f, b, nextGlobalId_')
      /\ motionFrame_' = w
      /\ Fusion!Track(c, f, b, w) /\ Fusion!Record(c, f, b, w)

(* It names the objects and lets the tracks follow them.                   *)
LEMMA FuseNames ==
  ASSUME FusionInv, NEW c, Positions(c), Fusion!fuse(c)
  PROVE  \E f, a : Called(c, f, a)
<1>. DEFINE w == motionFrame_ + 1
            root == Fusion!ufRoot(c)
            f == Fusion!Fused(c, root)
            a == Fusion!ByPlace(Fusion!BySource(c, f, w), f, w)
            b == Fusion!WithNew(a)
<1>1. /\ motionFrame_' = w
      /\ nextGlobalId_' = nextGlobalId_ + Fusion!Cardinality({r \in DOMAIN f : a[r] = 0})
      /\ Fusion!Track(c, f, b, w) /\ Fusion!Record(c, f, b, w)
  BY DEF Fusion!fuse
<1>2. Objects(c, f)
  <2>1. root \in Roots(c)
    BY ufRootType
  <2>. HIDE DEF root
  <2>. QED
    BY <2>1, FusedObjects
<1>3. TracksType /\ w \in Int
  BY DEF FusionInv
<1>. HIDE DEF f
<1>4. a \in Assignments(f)
  <2>1. Fusion!BySource(c, f, w) \in Assignments(f)
    BY <1>2, BySourceAssigns
  <2>. HIDE DEF w
  <2>. QED
    BY <1>2, <1>3, <2>1, ByPlaceAssigns
<1>. HIDE DEF a
<1>5. Naming(f, b, nextGlobalId_')
  BY <1>1, <1>2, <1>4, NewGids
<1>6. Called(c, f, a)
  <2>. HIDE DEF b
  <2>. QED
    BY <1>1, <1>2, <1>5 DEF Called, f, a, b, w
<1>. QED
  BY <1>6

(* The object a gid stands for                                             *)
LEMMA ObjectOf ==
  ASSUME NEW f, NEW b, NEW next, Naming(f, b, next), NEW r \in DOMAIN f
  PROVE  /\ (CHOOSE q \in DOMAIN b : b[q] = b[r]) = r
         /\ (CHOOSE q \in DOMAIN f : b[q] = b[r]) = r
  BY DEF Naming

(* The tracks and the frame after a call.                                  *)
LEMMA TracksAfter ==
  ASSUME FusionInv, NEW c, NEW f, NEW b, Objects(c, f), Naming(f, b, nextGlobalId_'),
         Fusion!Track(c, f, b, motionFrame_ + 1)
  PROVE  LET named == {b[r] : r \in DOMAIN f}
             coast == {g \in DOMAIN byGid_ \ named : byGid_[g].missedWindows + 1 <= kMaxMissedWindows}
         IN  /\ DOMAIN byGid_' = named \cup coast
             /\ \A r \in DOMAIN f :
                  byGid_'[b[r]] = Fusion!Updated(b[r], f[r], r \in Fusion!Ambiguous(f), motionFrame_ + 1)
             /\ \A g \in coast : byGid_'[g] = Fusion!Missed(byGid_[g])
             /\ \A o \in objects' :
                  \/ \E r \in DOMAIN f :
                       o = [gid |-> b[r], cls |-> f[r].cls, pos |-> Fusion!OutPos(b[r], f[r]),
                            key |-> r]
                  \/ \E g \in coast : o = [gid |-> g, cls |-> byGid_[g].cls, pos |-> byGid_[g].pos, key |-> 0]
             /\ \A g \in named \cup coast : \E o \in objects' : o.gid = g
<1>. DEFINE named == {b[r] : r \in DOMAIN f}
            coast == {g \in DOMAIN byGid_ \ named : byGid_[g].missedWindows + 1 <= kMaxMissedWindows}
            w == motionFrame_ + 1
            object(g) == CHOOSE r \in DOMAIN b : b[r] = g
            present(r) == [gid |-> b[r], cls |-> f[r].cls, pos |-> Fusion!OutPos(b[r], f[r]), key |-> r]
            coasting(g) == [gid |-> g, cls |-> byGid_[g].cls, pos |-> byGid_[g].pos, key |-> 0]
<1>1. DOMAIN b = DOMAIN f /\ Fusion!Range(b) = named /\ Fusion!Coasting(named) = coast
  BY DEF Naming, Fusion!Range, Fusion!Coasting
<1>2. byGid_' = [g \in named \cup coast |->
                   IF g \in named
                   THEN Fusion!Updated(g, f[object(g)], object(g) \in Fusion!Ambiguous(f), w)
                   ELSE Fusion!Missed(byGid_[g])]
  <2>. HIDE DEF named, coast
  <2>. QED
    BY <1>1 DEF Fusion!Track
<1>3. objects' = {present(r) : r \in DOMAIN f} \cup {coasting(g) : g \in coast}
  <2>. HIDE DEF named, coast
  <2>. QED
    BY <1>1 DEF Fusion!Track
<1>4. ASSUME NEW r \in DOMAIN f
      PROVE  byGid_'[b[r]] = Fusion!Updated(b[r], f[r], r \in Fusion!Ambiguous(f), w)
  <2>1. object(b[r]) = r /\ b[r] \in named
    BY ObjectOf
  <2>. HIDE DEF named, coast, object
  <2>. QED
    BY <1>2, <2>1
<1>5. \A g \in coast : byGid_'[g] = Fusion!Missed(byGid_[g])
  <2>1. \A g \in coast : g \notin named
    OBVIOUS
  <2>. HIDE DEF named, coast, object
  <2>. QED
    BY <1>2, <2>1
<1>6. DOMAIN byGid_' = named \cup coast
  <2>. HIDE DEF named, coast, object
  <2>. QED
    BY <1>2
<1>7. \A g \in named \cup coast : \E o \in objects' : o.gid = g
  <2>1. \A r \in DOMAIN f : present(r) \in objects' /\ present(r).gid = b[r]
    BY <1>3
  <2>2. \A g \in coast : coasting(g) \in objects' /\ coasting(g).gid = g
    <3>. HIDE DEF coast
    <3>. QED
      BY <1>3
  <2>. HIDE DEF present, coasting, coast
  <2>. QED
    BY <2>1, <2>2
<1>8. \A o \in objects' : (\E r \in DOMAIN f : o = present(r)) \/ (\E g \in coast : o = coasting(g))
  <2>. HIDE DEF present, coasting, coast
  <2>. QED
    BY <1>3
<1>. QED
  BY <1>4, <1>5, <1>6, <1>7, <1>8

(* A track that moves on with its object, and one that coasts.             *)
IsTrack(u) ==
  /\ TrackFields \subseteq DOMAIN u
  /\ u.rawPos \in Int /\ u.motionDelta \in Int
  /\ u.lastMotionFrame \in Int

(* The track of a detected object is as if just seen.                      *)
LEMMA UpdatedTrack ==
  ASSUME FusionInv, NEW o, o.pos \in Int, NEW ambiguous, NEW g,
         g \in DOMAIN byGid_ => byGid_[g].cls = o.cls
  PROVE  LET u == Fusion!Updated(g, o, ambiguous, motionFrame_ + 1)
         IN  /\ IsTrack(u) /\ u.lastMotionFrame <= motionFrame_ + 1
             /\ u.missedWindows = 0 /\ u.cls = o.cls
<1>. DEFINE w == motionFrame_ + 1
            t == byGid_[g]
            u == Fusion!Updated(g, o, ambiguous, w)
            born == [cls |-> o.cls, rawPos |-> o.pos, pos |-> o.pos, motionDelta |-> 0,
                     lastMotionFrame |-> w, hasMotion |-> FALSE, missedWindows |-> 0]
            moved(p, d) == [cls |-> o.cls, rawPos |-> o.pos, pos |-> p, motionDelta |-> d,
                            lastMotionFrame |-> w, hasMotion |-> TRUE, missedWindows |-> 0]
            kept == [t EXCEPT !.missedWindows = 0]
            Good(x) == /\ IsTrack(x) /\ x.lastMotionFrame <= w
                       /\ x.missedWindows = 0 /\ x.cls = o.cls
<1>1. w \in Int
  BY DEF FusionInv
<1>2. Good(born)
  BY <1>1 DEF IsTrack, TrackFields
<1>3. ASSUME g \in DOMAIN byGid_ PROVE IsTrack(t) /\ t.lastMotionFrame <= motionFrame_ /\ motionFrame_ \in Int
  BY <1>3 DEF FusionInv, TracksType, IsTrack
<1>4. ASSUME g \in DOMAIN byGid_ PROVE Good(kept)
  <2>1. IsTrack(t) /\ t.lastMotionFrame <= w /\ t.cls = o.cls
    BY <1>3, <1>4, <1>1 DEF IsTrack
  <2>. HIDE DEF t, w
  <2>2. /\ DOMAIN kept = DOMAIN t /\ kept.missedWindows = 0 /\ kept.cls = t.cls
        /\ kept.rawPos = t.rawPos /\ kept.motionDelta = t.motionDelta
        /\ kept.lastMotionFrame = t.lastMotionFrame
    BY <2>1 DEF IsTrack, TrackFields
  <2>. QED
    BY <2>1, <2>2 DEF IsTrack
<1>5. ASSUME g \in DOMAIN byGid_, NEW p
      PROVE  Good(moved(p, (o.pos - t.rawPos) \div (w - t.lastMotionFrame)))
  <2>1. t.rawPos \in Int /\ t.lastMotionFrame \in Int /\ w > t.lastMotionFrame
    BY <1>3, <1>5 DEF IsTrack
  <2>2. \A x, y, z, v \in Int : z > v => (x - y) \div (z - v) \in Int
    OBVIOUS
  <2>. DEFINE d == (o.pos - t.rawPos) \div (w - t.lastMotionFrame)
  <2>. HIDE DEF t
  <2>3. d \in Int
    BY <1>1, <2>1, <2>2
  <2>. HIDE DEF d, w
  <2>4. Good(moved(p, d))
    BY <1>1, <2>3 DEF IsTrack, TrackFields
  <2>. QED
    BY <2>4 DEF d, t, w
<1>6. u = IF g \notin DOMAIN byGid_ THEN born
          ELSE IF ambiguous THEN kept
          ELSE moved(Fusion!OutPos(g, o), (o.pos - t.rawPos) \div (w - t.lastMotionFrame))
  BY DEF Fusion!Updated
<1>. HIDE DEF u, born, kept, moved, t, w, Good
<1>7. Good(u)
  BY <1>2, <1>4, <1>5, <1>6
<1>. QED
  BY <1>7 DEF Good, u, w

(* A coasting track was missed once more.                                  *)
LEMMA MissedTrack ==
  ASSUME FusionInv, NEW g \in DOMAIN byGid_
  PROVE  LET u == Fusion!Missed(byGid_[g])
         IN  /\ IsTrack(u) /\ u.lastMotionFrame <= motionFrame_ + 1
             /\ u.missedWindows = byGid_[g].missedWindows + 1 /\ u.cls = byGid_[g].cls
<1>. DEFINE t == byGid_[g]
            u == Fusion!Missed(t)
<1>1. IsTrack(t) /\ t.lastMotionFrame <= motionFrame_ /\ motionFrame_ \in Int
  BY DEF FusionInv, TracksType, IsTrack
<1>. HIDE DEF t
<1>2. /\ DOMAIN u = DOMAIN t /\ u.missedWindows = t.missedWindows + 1 /\ u.cls = t.cls
      /\ u.rawPos = t.rawPos /\ u.motionDelta = t.motionDelta
      /\ u.lastMotionFrame = t.lastMotionFrame
  BY <1>1 DEF IsTrack, TrackFields, Fusion!Missed
<1>. HIDE DEF u
<1>3. /\ IsTrack(u) /\ u.lastMotionFrame <= motionFrame_ + 1
      /\ u.missedWindows = t.missedWindows + 1 /\ u.cls = t.cls
  BY <1>1, <1>2 DEF IsTrack
<1>. QED
  BY <1>3 DEF u, t

(* What the history records of a call.                                     *)
Recorded(f, b) ==
  LET named == {b[r] : r \in DOMAIN f}
  IN  /\ DOMAIN lastSeen' = DOMAIN lastSeen \cup named
      /\ DOMAIN classOf' = DOMAIN classOf \cup named
      /\ \A g \in DOMAIN lastSeen' : lastSeen'[g] = IF g \in named THEN motionFrame_ + 1 ELSE lastSeen[g]
      /\ \A g \in DOMAIN classOf : classOf'[g] = classOf[g]
      /\ \A r \in DOMAIN f : b[r] \notin DOMAIN classOf => classOf'[b[r]] = f[r].cls

(* It is what Record says.                                                 *)
LEMMA HistoryAfter ==
  ASSUME NEW c, NEW f, NEW b, Naming(f, b, nextGlobalId_'),
         Fusion!Record(c, f, b, motionFrame_ + 1)
  PROVE  Recorded(f, b)
<1>. DEFINE named == {b[r] : r \in DOMAIN f}
            w == motionFrame_ + 1
            object(g) == CHOOSE r \in DOMAIN f : b[r] = g
<1>1. Fusion!Range(b) = named
  BY DEF Naming, Fusion!Range
<1>. HIDE DEF named, object
<1>2. /\ lastSeen' = [g \in DOMAIN lastSeen \cup named |-> IF g \in named THEN w ELSE lastSeen[g]]
      /\ classOf' = [g \in DOMAIN classOf \cup named |->
                       IF g \in DOMAIN classOf THEN classOf[g] ELSE f[object(g)].cls]
  BY <1>1 DEF Fusion!Record, object
<1>3. \A r \in DOMAIN f : object(b[r]) = r /\ b[r] \in named
  BY ObjectOf DEF object, named
<1>4. \A r \in DOMAIN f : b[r] \notin DOMAIN classOf => classOf'[b[r]] = f[r].cls
  BY <1>2, <1>3
<1>5. DOMAIN lastSeen' = DOMAIN lastSeen \cup named /\ DOMAIN classOf' = DOMAIN classOf \cup named
  BY <1>2
<1>6. \A g \in DOMAIN lastSeen' : lastSeen'[g] = IF g \in named THEN w ELSE lastSeen[g]
  BY <1>2, <1>5
<1>7. \A g \in DOMAIN classOf : classOf'[g] = classOf[g]
  BY <1>2
<1>. QED
  BY <1>4, <1>5, <1>6, <1>7 DEF named, Recorded

(* A call of fuse keeps the invariant.                                     *)
LEMMA FuseKeepsInv ==
  ASSUME FusionInv, NEW c, Positions(c), Fusion!fuse(c), UNCHANGED world
  PROVE  FusionInv'
<1>. DEFINE w == motionFrame_ + 1
<1>0. PICK f, a : Called(c, f, a)
  BY FuseNames
<1>. DEFINE b == Fusion!WithNew(a)
<1>1. /\ Objects(c, f) /\ Naming(f, b, nextGlobalId_')
      /\ motionFrame_' = w
      /\ Fusion!Track(c, f, b, w) /\ Fusion!Record(c, f, b, w)
  BY <1>0 DEF Called
<1>. HIDE DEF b
<1>. DEFINE named == {b[r] : r \in DOMAIN f}
            coast == {g \in DOMAIN byGid_ \ named : byGid_[g].missedWindows + 1 <= kMaxMissedWindows}
            up(r) == Fusion!Updated(b[r], f[r], r \in Fusion!Ambiguous(f), w)
            miss(g) == Fusion!Missed(byGid_[g])
            present(r) == [gid |-> b[r], cls |-> f[r].cls, pos |-> Fusion!OutPos(b[r], f[r]), key |-> r]
            coasting(g) == [gid |-> g, cls |-> byGid_[g].cls, pos |-> byGid_[g].pos, key |-> 0]
<1>2. /\ DOMAIN byGid_' = named \cup coast
      /\ \A r \in DOMAIN f : byGid_'[b[r]] = up(r)
      /\ \A g \in coast : byGid_'[g] = miss(g)
      /\ \A o \in objects' : (\E r \in DOMAIN f : o = present(r)) \/ (\E g \in coast : o = coasting(g))
      /\ \A g \in named \cup coast : \E o \in objects' : o.gid = g
  BY <1>1, TracksAfter
<1>3. /\ DOMAIN lastSeen' = DOMAIN lastSeen \cup named
      /\ DOMAIN classOf' = DOMAIN classOf \cup named
      /\ \A g \in DOMAIN lastSeen' : lastSeen'[g] = IF g \in named THEN w ELSE lastSeen[g]
      /\ \A g \in DOMAIN classOf : classOf'[g] = classOf[g]
      /\ \A r \in DOMAIN f : b[r] \notin DOMAIN classOf => classOf'[b[r]] = f[r].cls
  <2>1. Recorded(f, b)
    BY <1>1, HistoryAfter
  <2>. QED
    BY <2>1 DEF Recorded
<1>4. motionFrame_ \in Nat /\ nextGlobalId_ \in Nat \ {0} /\ kMaxMissedWindows \in Nat
  BY FusionHolds DEF FusionInv, Fusion!DistanceAssumption
<1>5. /\ DOMAIN lastSeen \subseteq 1 .. nextGlobalId_ - 1 /\ DOMAIN classOf = DOMAIN lastSeen
      /\ \A g \in DOMAIN lastSeen : lastSeen[g] \in 0 .. motionFrame_
      /\ DOMAIN byGid_ = {g \in DOMAIN lastSeen : motionFrame_ - lastSeen[g] <= kMaxMissedWindows}
      /\ \A g \in DOMAIN byGid_ :
           byGid_[g].cls = classOf[g] /\ byGid_[g].missedWindows = motionFrame_ - lastSeen[g]
  BY DEF FusionInv
<1>6. /\ nextGlobalId_' \in Nat \ {0} /\ nextGlobalId_ <= nextGlobalId_'
      /\ \A r, q \in DOMAIN f : b[r] = b[q] => r = q
      /\ \A r \in DOMAIN f : \/ b[r] \in DOMAIN byGid_ /\ byGid_[b[r]].cls = f[r].cls
                             \/ b[r] \in nextGlobalId_ .. nextGlobalId_' - 1
  BY <1>1, <1>4 DEF Naming
<1>7. \A r \in DOMAIN f : b[r] \in DOMAIN byGid_ => byGid_[b[r]].cls = f[r].cls
  BY <1>4, <1>5, <1>6
<1>8. ASSUME NEW r \in DOMAIN f
      PROVE  IsTrack(up(r)) /\ up(r).lastMotionFrame <= w /\ up(r).missedWindows = 0 /\ up(r).cls = f[r].cls
  <2>1. f[r].pos \in Int
    BY <1>1 DEF Objects
  <2>. DEFINE o == f[r]
              g == b[r]
              ambiguous == r \in Fusion!Ambiguous(f)
  <2>2. o.pos \in Int /\ (g \in DOMAIN byGid_ => byGid_[g].cls = o.cls)
    BY <1>7, <2>1
  <2>. HIDE DEF o, g, ambiguous
  <2>3. LET u == Fusion!Updated(g, o, ambiguous, motionFrame_ + 1)
        IN  /\ IsTrack(u) /\ u.lastMotionFrame <= motionFrame_ + 1
            /\ u.missedWindows = 0 /\ u.cls = o.cls
    BY <2>2, UpdatedTrack
  <2>. QED
    BY <2>3 DEF o, g, ambiguous
<1>9. ASSUME NEW g \in DOMAIN byGid_
      PROVE  IsTrack(miss(g)) /\ miss(g).lastMotionFrame <= w
             /\ miss(g).missedWindows = byGid_[g].missedWindows + 1 /\ miss(g).cls = byGid_[g].cls
  BY MissedTrack
<1>10. \A g \in named : \E r \in DOMAIN f : g = b[r]
  OBVIOUS
<1>11. \A r \in DOMAIN f : b[r] \in named
  OBVIOUS
<1>12. coast = {g \in DOMAIN byGid_ \ named : byGid_[g].missedWindows + 1 <= kMaxMissedWindows}
  OBVIOUS
<1>13. /\ \A r \in DOMAIN f : present(r).gid = b[r] /\ present(r).cls = f[r].cls
       /\ \A g \in coast : coasting(g).gid = g /\ coasting(g).cls = byGid_[g].cls
  OBVIOUS
<1>. HIDE DEF w, named, coast, up, miss, present, coasting
<1>14. w = motionFrame_ + 1
  BY DEF w
<1>15. world' \in World /\ motionFrame_' \in Nat
  BY <1>1, <1>4, <1>14 DEF FusionInv
<1>16. ASSUME NEW g \in DOMAIN byGid_'
       PROVE  IsTrack(byGid_'[g]) /\ byGid_'[g].lastMotionFrame <= motionFrame_'
  <2>1. CASE g \in named
    BY <1>1, <1>2, <1>8, <1>10, <2>1
  <2>2. CASE g \in coast
    BY <1>1, <1>2, <1>9, <1>12, <2>2
  <2>. QED
    BY <1>2, <2>1, <2>2
<1>17. DOMAIN byGid_' \subseteq 1 .. nextGlobalId_' - 1 /\ DOMAIN lastSeen' \subseteq 1 .. nextGlobalId_' - 1
  <2>1. named \subseteq 1 .. nextGlobalId_' - 1
    <3>1. \A r \in DOMAIN f : b[r] \in 1 .. nextGlobalId_' - 1
      BY <1>4, <1>5, <1>6
    <3>. QED
      BY <1>10, <3>1
  <2>2. DOMAIN lastSeen \subseteq 1 .. nextGlobalId_' - 1
    BY <1>4, <1>5, <1>6
  <2>. QED
    BY <1>2, <1>3, <1>5, <1>12, <2>1, <2>2
<1>18. \A g \in DOMAIN lastSeen' : lastSeen'[g] \in 0 .. motionFrame_'
  BY <1>1, <1>3, <1>4, <1>5, <1>14
<1>19. DOMAIN classOf' = DOMAIN lastSeen'
  BY <1>3, <1>5
<1>20. DOMAIN byGid_' = {g \in DOMAIN lastSeen' : motionFrame_' - lastSeen'[g] <= kMaxMissedWindows}
  <2>1. ASSUME NEW g \in named
        PROVE  g \in DOMAIN lastSeen' /\ motionFrame_' - lastSeen'[g] <= kMaxMissedWindows
    BY <1>1, <1>3, <1>4, <1>14
  <2>2. ASSUME NEW g \in DOMAIN lastSeen, g \notin named
        PROVE  g \in coast <=> motionFrame_' - lastSeen'[g] <= kMaxMissedWindows
    <3>1. lastSeen'[g] = lastSeen[g] /\ lastSeen[g] \in Nat
      BY <1>3, <1>5, <2>2
    <3>2. g \in DOMAIN byGid_ <=> motionFrame_ - lastSeen[g] <= kMaxMissedWindows
      BY <1>5
    <3>3. g \in DOMAIN byGid_ => byGid_[g].missedWindows = motionFrame_ - lastSeen[g]
      BY <1>5
    <3>4. g \in coast <=> g \in DOMAIN byGid_ /\ byGid_[g].missedWindows + 1 <= kMaxMissedWindows
      BY <1>12, <2>2
    <3>. QED
      BY <1>1, <1>4, <1>14, <3>1, <3>2, <3>3, <3>4
  <2>3. coast \subseteq DOMAIN lastSeen /\ \A g \in coast : g \notin named
    BY <1>5, <1>12
  <2>. QED
    BY <1>2, <1>3, <2>1, <2>2, <2>3
<1>21. ASSUME NEW r \in DOMAIN f PROVE classOf'[b[r]] = f[r].cls
  <2>1. CASE b[r] \in DOMAIN byGid_
    BY <1>3, <1>5, <1>7, <2>1
  <2>2. CASE b[r] \in nextGlobalId_ .. nextGlobalId_' - 1
    <3>1. b[r] \notin DOMAIN classOf
      BY <1>4, <1>5, <2>2
    <3>. QED
      BY <1>3, <3>1
  <2>. QED
    BY <1>6, <2>1, <2>2
<1>22. ASSUME NEW g \in coast PROVE classOf'[g] = byGid_[g].cls /\ g \in DOMAIN byGid_ /\ g \notin named
  BY <1>3, <1>5, <1>12
<1>23. ASSUME NEW g \in DOMAIN byGid_'
       PROVE  byGid_'[g].cls = classOf'[g] /\ byGid_'[g].missedWindows = motionFrame_' - lastSeen'[g]
  <2>1. CASE g \in named
    <3>1. PICK r \in DOMAIN f : g = b[r]
      BY <1>10, <2>1
    <3>2. byGid_'[g].cls = classOf'[g] /\ byGid_'[g].missedWindows = 0
      BY <1>2, <1>8, <1>21, <3>1
    <3>3. lastSeen'[g] = w
      BY <1>3, <2>1
    <3>. QED
      BY <1>1, <1>4, <1>14, <3>2, <3>3
  <2>2. CASE g \in coast
    <3>1. byGid_'[g] = miss(g) /\ g \in DOMAIN lastSeen /\ g \notin named
      BY <1>2, <1>5, <1>22, <2>2
    <3>2. lastSeen'[g] = lastSeen[g] /\ lastSeen[g] \in Nat
      BY <1>3, <1>5, <3>1
    <3>3. byGid_'[g].missedWindows = motionFrame_ - lastSeen[g] + 1
      BY <1>5, <1>9, <1>22, <2>2, <3>1
    <3>4. byGid_'[g].cls = classOf'[g]
      BY <1>9, <1>22, <2>2, <3>1
    <3>. QED
      BY <1>1, <1>4, <1>14, <3>2, <3>3, <3>4
  <2>. QED
    BY <1>2, <2>1, <2>2
<1>24. {o.gid : o \in objects'} = DOMAIN byGid_'
  <2>1. \A o \in objects' : o.gid \in named \cup coast
    BY <1>2, <1>11, <1>13
  <2>. QED
    BY <1>2, <2>1
<1>25. ASSUME NEW o \in objects' PROVE o.cls = classOf'[o.gid]
  BY <1>2, <1>13, <1>21, <1>22
<1>26. ASSUME NEW o \in objects', NEW p \in objects', o.gid = p.gid PROVE o = p
  <2>1. CASE o.gid \in named
    <3>1. ASSUME NEW x \in objects', x.gid \in named PROVE \E r \in DOMAIN f : x = present(r) /\ x.gid = b[r]
      BY <1>2, <1>13, <1>22, <3>1
    <3>2. PICK r \in DOMAIN f : o = present(r) /\ o.gid = b[r]
      BY <2>1, <3>1
    <3>3. PICK q \in DOMAIN f : p = present(q) /\ p.gid = b[q]
      BY <1>26, <2>1, <3>1
    <3>4. r = q
      BY <1>6, <1>26, <3>2, <3>3
    <3>. QED
      BY <3>2, <3>3, <3>4
  <2>2. CASE o.gid \notin named
    <3>1. ASSUME NEW x \in objects', x.gid \notin named PROVE x = coasting(x.gid)
      BY <1>2, <1>11, <1>13, <3>1
    <3>. QED
      BY <1>26, <2>2, <3>1
  <2>. QED
    BY <2>1, <2>2
<1>27. GidIsOneObject'
  BY <1>25, <1>26 DEF GidIsOneObject, Fusion!GidIsOneObject
<1>28. TracksType'
  <2>1. DOMAIN byGid_' \subseteq Nat \ {0}
    BY <1>6, <1>17
  <2>. QED
    BY <1>16, <2>1 DEF TracksType, IsTrack
<1>. QED
  BY <1>6, <1>15, <1>16, <1>17, <1>18, <1>19, <1>20, <1>23, <1>24, <1>27, <1>28 DEF FusionInv

(* The initial states satisfy it.                                          *)
LEMMA FusionInit == Fusion!Init => FusionInv
<1>. SUFFICES ASSUME Fusion!Init PROVE FusionInv
  OBVIOUS
<1>1. /\ world \in World /\ motionFrame_ = 0 /\ nextGlobalId_ = 1
      /\ byGid_ = << >> /\ objects = {} /\ lastSeen = << >> /\ classOf = << >>
  BY DEF Fusion!Init
<1>2. DOMAIN byGid_ = {} /\ DOMAIN lastSeen = {} /\ DOMAIN classOf = {}
  BY <1>1
<1>3. GidIsOneObject
  BY <1>1 DEF GidIsOneObject, Fusion!GidIsOneObject
<1>4. {o.gid : o \in objects} = DOMAIN byGid_
  BY <1>1, <1>2
<1>5. DOMAIN byGid_ = {g \in DOMAIN lastSeen : motionFrame_ - lastSeen[g] <= kMaxMissedWindows}
  BY <1>2
<1>. QED
  BY <1>1, <1>2, <1>3, <1>4, <1>5 DEF FusionInv, TracksType

\* One window with the candidates c
Window(c) == c \in Seq(Detection) /\ Fusion!fuse(c) /\ UNCHANGED world

(* Every step is a window.                                                 *)
LEMMA EveryStepIsWindow ==
  ASSUME Fusion!Next
  PROVE  \E c : Window(c)
<1>1. CASE Fusion!RegularWindow
  <2>1. PICK channels \in Fusion!Orders(Channel), vehicles \in Fusion!Orders(Vehicle) :
          Fusion!fuse(Fusion!Candidates(Vehicle \X Channel, channels, vehicles, "right"))
    BY <1>1 DEF Fusion!RegularWindow
  <2>. DEFINE c == Fusion!Candidates(Vehicle \X Channel, channels, vehicles, "right")
  <2>2. c \in Seq(Detection)
    <3>1. "right" \in Mode
      BY DEF Mode
    <3>. QED
      BY <3>1, CandidatesType
  <2>3. UNCHANGED world
    BY <1>1 DEF Fusion!RegularWindow
  <2>. HIDE DEF c
  <2>4. Window(c)
    BY <2>1, <2>2, <2>3 DEF Window, c
  <2>. QED
    BY <2>4
<1>2. CASE Fusion!OddWindow
  <2>1. PICK c \in {Fusion!Candidates(sees, channels, vehicles, mode) :
                      sees \in SUBSET (Vehicle \X Channel), channels \in Fusion!Orders(Channel),
                      vehicles \in Fusion!Orders(Vehicle),
                      mode \in {"right", "swapped", "nameless", "mistaken"}} :
          Fusion!fuse(c)
    BY <1>2 DEF Fusion!OddWindow
  <2>2. c \in Seq(Detection)
    BY CandidatesType DEF Mode
  <2>3. UNCHANGED world
    BY <1>2 DEF Fusion!OddWindow
  <2>4. Window(c)
    BY <2>1, <2>2, <2>3 DEF Window
  <2>. QED
    BY <2>4
<1>. QED
  BY <1>1, <1>2 DEF Fusion!Next

(* Every window keeps the invariant.                                       *)
LEMMA FusionNext == FusionInv /\ [Fusion!Next]_Fusion!vars => FusionInv'
<1>. SUFFICES ASSUME FusionInv, [Fusion!Next]_Fusion!vars PROVE FusionInv'
  OBVIOUS
<1>1. CASE Fusion!Next
  <2>1. PICK c : Window(c)
    BY <1>1, EveryStepIsWindow
  <2>2. Positions(c)
    BY <2>1, CandidatesPositions DEF Window, FusionInv, FusionState
  <2>. QED
    BY <2>1, <2>2, FuseKeepsInv DEF Window
<1>2. CASE UNCHANGED Fusion!vars
  BY <1>2 DEF FusionInv, TracksType, GidIsOneObject, Fusion!GidIsOneObject, Fusion!vars,
     Fusion!fuserVars, Fusion!history
<1>. QED
  BY <1>1, <1>2

(* The invariant holds in every state of the fusion.                       *)
THEOREM FusionInvariant == Fusion!Spec => []FusionInv
<1>. QED
  BY FusionInit, FusionNext, PTL DEF Fusion!Spec

(* GridFuser::fuse: one gid is one object of one class, in every frame, for any*)
(* cameras, worlds and thresholds.                                         *)
THEOREM GidIsOneObjectHolds == Fusion!Spec => []GidIsOneObject
<1>1. FusionInv => GidIsOneObject
  BY DEF FusionInv
<1>. QED
  BY <1>1, FusionInvariant, PTL

(* GridFuser::fuse: an object stays for kMaxMissedWindows after it was seen*)
(* last, and not longer.                                                   *)
THEOREM CoastsThenExpiresHolds == Fusion!Spec => []CoastsThenExpires
<1>1. FusionInv => CoastsThenExpires
  BY DEF FusionInv, CoastsThenExpires, Fusion!CoastsThenExpires
<1>. QED
  BY <1>1, FusionInvariant, PTL

-----------------------------------------------------------------------------
(* Crossing vehicles.                                                      *)

\* What the candidates say of the places of the vehicles.
Sightings(c) ==
  \A i \in DOMAIN c : c[i].v \in Vehicle /\ c[i].pos = Fusion!Place(c[i].v, motionFrame_ + 1)

(* A camera sees a vehicle where it is.                                    *)
LEMMA CandidatesSightings ==
  ASSUME NEW c \in Seq(Detection)
  PROVE  Sightings(c)
<1>1. ASSUME NEW d \in Detection
      PROVE  d.v \in Vehicle /\ d.pos = Fusion!Place(d.v, motionFrame_ + 1)
  <2>1. PICK p \in Vehicle \X Channel, mode \in Mode : d = Fusion!Seen(p[1], p[2], mode)
    BY DEF Detection
  <2>2. d.v = p[1] /\ d.pos = Fusion!Place(p[1], motionFrame_ + 1)
    BY <2>1 DEF Fusion!Seen
  <2>. QED
    BY <2>2
<1>. QED
  BY <1>1 DEF Sightings

(* One more member adds one.                                               *)
LEMMA MembersUpTo ==
  ASSUME NEW n \in Nat, NEW M, NEW i \in 1 .. n
  PROVE  LET upTo(j) == {x \in 1 .. j : x \in M}
         IN  /\ Cardinality(upTo(i)) = Cardinality(upTo(i - 1)) + IF i \in M THEN 1 ELSE 0
             /\ Cardinality(upTo(i - 1)) \in Nat /\ Cardinality(upTo(0)) = 0
<1>. DEFINE upTo(j) == {x \in 1 .. j : x \in M}
<1>1. \A j \in 0 .. n : IsFiniteSet(upTo(j))
  <2>. TAKE j \in 0 .. n
  <2>1. IsFiniteSet(1 .. j)
    BY 1 \in Int, j \in Int, FS_Interval
  <2>2. upTo(j) \subseteq 1 .. j
    OBVIOUS
  <2>. HIDE DEF upTo
  <2>. QED
    BY <2>1, <2>2, FS_Subset
<1>2. IsFiniteSet(upTo(i - 1)) /\ i \notin upTo(i - 1)
  BY <1>1
<1>3. upTo(i) = IF i \in M THEN upTo(i - 1) \cup {i} ELSE upTo(i - 1)
  OBVIOUS
<1>4. upTo(0) = {}
  OBVIOUS
<1>. HIDE DEF upTo
<1>5. Cardinality(upTo(i - 1)) \in Nat
  BY <1>2, FS_CardinalityType
<1>6. Cardinality(upTo(i)) = Cardinality(upTo(i - 1)) + IF i \in M THEN 1 ELSE 0
  BY <1>2, <1>3, <1>5, FS_AddElement
<1>7. Cardinality(upTo(0)) = 0
  BY <1>4, FS_EmptySet
<1>. QED
  BY <1>5, <1>6, <1>7 DEF upTo

(* Detections of one place are on the mean at that place.                  *)
LEMMA MeanOfOnePlace ==
  ASSUME NEW c, Positions(c), NEW root, NEW r, NEW p \in Int, Fusion!Members(c, root, r) # {},
         \A i \in Fusion!Members(c, root, r) : c[i].pos = p
  PROVE  Fusion!SumPos(c, root, r) \div Fusion!Cardinality(Fusion!Members(c, root, r)) = p
<1>. DEFINE M == Fusion!Members(c, root, r)
            n == Len(c)
            upTo(j) == {x \in 1 .. j : x \in M}
            size(j) == Cardinality(upTo(j))
<1>1. n \in Nat /\ DOMAIN c = 1 .. n
  BY DEF Positions
<1>2. M = {i \in 1 .. n : root[i] = r} /\ M # {} /\ \A i \in M : c[i].pos = p
  BY <1>1 DEF Fusion!Members
<1>3. PICK h \in SumPosRuns(c, root, r) : TRUE
  BY SumPosLoop
<1>4. /\ h[0] = 0 /\ h[n] = Fusion!SumPos(c, root, r)
      /\ \A i \in 1 .. n : h[i] = h[i - 1] + IF root[i] = r THEN c[i].pos ELSE 0
  BY <1>3 DEF SumPosRuns
<1>. HIDE DEF n, M
<1>5. \A i \in 1 .. n : h[i] = h[i - 1] + IF i \in M THEN p ELSE 0
  BY <1>2, <1>4
<1>6. ASSUME NEW i \in 1 .. n
      PROVE  /\ size(i) = size(i - 1) + IF i \in M THEN 1 ELSE 0
             /\ size(i - 1) \in Nat /\ size(0) = 0
  BY <1>1, MembersUpTo
<1>7. upTo(n) = M /\ n > 0
  BY <1>1, <1>2
<1>8. n \in 1 .. n
  BY <1>1, <1>7
<1>. HIDE DEF upTo
<1>9. size(0) = 0
  BY <1>6, <1>8
<1>. HIDE DEF size
<1>. DEFINE T == {i \in 0 .. n : h[i] = p * size(i)}
<1>10. 0 \in T
  <2>1. p * 0 = 0
    OBVIOUS
  <2>. QED
    BY <1>1, <1>4, <1>9, <2>1
<1>11. ASSUME NEW i \in 0 .. n, i < n, i \in T PROVE i + 1 \in T
  <2>1. i + 1 \in 1 .. n /\ i + 1 \in 0 .. n /\ (i + 1) - 1 = i
    BY <1>1, <1>11
  <2>2. /\ h[i + 1] = h[i] + IF i + 1 \in M THEN p ELSE 0
        /\ size(i + 1) = size(i) + IF i + 1 \in M THEN 1 ELSE 0
        /\ size(i) \in Nat /\ h[i] = p * size(i)
    BY <1>5, <1>6, <1>11, <2>1
  <2>3. \A x \in Int, y \in Nat : x * (y + 1) = x * y + x
    OBVIOUS
  <2>4. h[i + 1] = p * size(i + 1)
    <3>1. CASE i + 1 \in M
      <4>1. h[i + 1] = p * size(i) + p /\ size(i + 1) = size(i) + 1
        BY <2>2, <3>1
      <4>2. p * (size(i) + 1) = p * size(i) + p
        BY <2>2, <2>3
      <4>. QED
        BY <4>1, <4>2
    <3>2. CASE i + 1 \notin M
      <4>1. p * size(i) \in Int
        BY <2>2
      <4>2. h[i + 1] = h[i] + 0 /\ size(i + 1) = size(i)
        BY <2>2, <3>2
      <4>. QED
        BY <2>2, <4>1, <4>2
    <3>. QED
      BY <3>1, <3>2
  <2>. QED
    BY <2>1, <2>4
<1>12. h[n] = p * size(n)
  <2>1. n \in 0 .. n
    BY <1>1
  <2>. HIDE DEF T
  <2>2. n \in T
    BY <1>1, <1>10, <1>11, <2>1, InductionUpTo
  <2>. QED
    BY <2>2 DEF T
<1>13. size(n) = Cardinality(M)
  BY <1>7 DEF size
<1>14. Cardinality(M) \in Nat /\ Cardinality(M) # 0
  <2>1. IsFiniteSet(1 .. n)
    BY <1>1, 1 \in Int, n \in Int, FS_Interval
  <2>2. M \subseteq 1 .. n
    BY <1>2
  <2>3. IsFiniteSet(M)
    BY <2>1, <2>2, FS_Subset
  <2>. QED
    BY <1>2, <2>3, FS_CardinalityType, FS_EmptySet
<1>15. \A x \in Int, y \in Nat : y # 0 => (x * y) \div y = x
  OBVIOUS
<1>16. (p * Cardinality(M)) \div Cardinality(M) = p
  BY <1>14, <1>15
<1>17. Fusion!Cardinality(M) = Cardinality(M)
  BY DEF Fusion!Cardinality, Cardinality
<1>. QED
  BY <1>4, <1>12, <1>13, <1>16, <1>17 DEF M

\* The objects in which a vehicle was seen.
At(c, f, v) == {r \in DOMAIN f : \E i \in f[r].members : c[i].v = v}

\* No vehicles were merged, split or taken for another class.
Told(c, f) ==
  /\ \A r \in DOMAIN f : \A i, j \in f[r].members : c[i].v = c[j].v
  /\ \A v \in Vehicle : Cardinality(At(c, f, v)) <= 1
  /\ \A i \in DOMAIN c : c[i].cls = world.cls[c[i].v]

\* Then an object is a vehicle, where it is and of its class.
Clear(c, f) ==
  /\ \A r \in DOMAIN f : /\ c[r].v \in Vehicle /\ f[r].cls = world.cls[c[r].v]
                         /\ f[r].pos = Fusion!Place(c[r].v, motionFrame_ + 1)
  /\ \A r, q \in DOMAIN f : c[r].v = c[q].v => r = q
  /\ \A v \in Vehicle : At(c, f, v) = {r \in DOMAIN f : c[r].v = v}

(* Vehicles are at whole distances.                                        *)
LEMMA PlaceType ==
  ASSUME FusionState, NEW v \in Vehicle, NEW n \in Int
  PROVE  /\ Fusion!Place(v, n) \in Int /\ world.start[v] \in Int /\ world.speed[v] \in Int
         /\ Fusion!Place(v, n) = world.start[v] + world.speed[v] * n
<1>1. world.start \in [Vehicle -> Int] /\ world.speed \in [Vehicle -> Int]
  BY FusionHolds DEF FusionState, Fusion!WorldAssumption
<1>2. \A x, y, z \in Int : x + y * z \in Int
  OBVIOUS
<1>. QED
  BY <1>1, <1>2 DEF Fusion!Place

(* Two different members of a set make it more than one.                   *)
LEMMA AtMostOne ==
  ASSUME NEW S, IsFiniteSet(S), Cardinality(S) <= 1, NEW x \in S, NEW y \in S
  PROVE  x = y
<1>. SUFFICES ASSUME x # y PROVE FALSE
  OBVIOUS
<1>1. IsFiniteSet(S \ {x}) /\ Cardinality(S \ {x}) = Cardinality(S) - 1
  BY FS_RemoveElement
<1>2. Cardinality(S) \in Nat /\ Cardinality(S \ {x}) \in Nat
  BY <1>1, FS_CardinalityType
<1>3. Cardinality(S \ {x}) = 0
  BY <1>1, <1>2
<1>4. S \ {x} = {}
  BY <1>1, <1>3, FS_EmptySet
<1>. QED
  BY <1>4

(* A window in which nothing is puzzling is clear.                         *)
LEMMA ClearWindow ==
  ASSUME FusionState, NEW c, Positions(c), Sightings(c), NEW root \in Roots(c),
         Told(c, Fusion!Fused(c, root))
  PROVE  Clear(c, Fusion!Fused(c, root))
<1>. DEFINE f == Fusion!Fused(c, root)
            M(r) == Fusion!Members(c, root, r)
            w == motionFrame_ + 1
<1>1. DOMAIN f = Fusion!Range(root) /\ root \in [DOMAIN c -> DOMAIN c]
  BY DEF Fusion!Fused, Roots
<1>2. ASSUME NEW r \in DOMAIN f
      PROVE  /\ r \in DOMAIN c /\ root[r] = r
             /\ f[r].members = M(r) /\ f[r].cls = c[r].cls
             /\ f[r].pos = Fusion!SumPos(c, root, r) \div Fusion!Cardinality(M(r))
  <2>1. PICK m \in DOMAIN c : r = root[m]
    BY <1>1 DEF Fusion!Range
  <2>2. r \in DOMAIN c /\ root[r] = r
    BY <1>1, <2>1 DEF Roots
  <2>3. f[r] = [members |-> M(r), cls |-> c[r].cls,
                pos |-> Fusion!SumPos(c, root, r) \div Fusion!Cardinality(M(r))]
    BY <1>1 DEF Fusion!Fused
  <2>. QED
    BY <2>2, <2>3
<1>3. Objects(c, f)
  BY FusedObjects
<1>4. Told(c, f)
  OBVIOUS
<1>5. \A r \in DOMAIN f : r \in M(r) /\ M(r) \subseteq DOMAIN c
  BY <1>2 DEF Fusion!Members
<1>6. w \in Int
  BY DEF FusionState
<1>. HIDE DEF f, M, w
<1>7. ASSUME NEW r \in DOMAIN f
      PROVE  /\ c[r].v \in Vehicle /\ f[r].cls = world.cls[c[r].v]
             /\ \A i \in M(r) : c[i].v = c[r].v /\ c[i].pos = Fusion!Place(c[r].v, w)
  <2>1. r \in DOMAIN c /\ r \in M(r) /\ M(r) \subseteq DOMAIN c
    BY <1>2, <1>5
  <2>2. c[r].v \in Vehicle /\ f[r].cls = world.cls[c[r].v]
    BY <1>2, <1>4, <2>1 DEF Told, Sightings
  <2>3. \A i \in M(r) : c[i].v = c[r].v
    BY <1>2, <1>4, <2>1 DEF Told
  <2>. QED
    BY <2>1, <2>2, <2>3 DEF Sightings, w
<1>8. ASSUME NEW r \in DOMAIN f PROVE f[r].pos = Fusion!Place(c[r].v, w)
  <2>1. Fusion!Place(c[r].v, w) \in Int
    BY <1>6, <1>7, PlaceType
  <2>2. M(r) # {} /\ \A i \in M(r) : c[i].pos = Fusion!Place(c[r].v, w)
    BY <1>5, <1>7
  <2>3. Fusion!SumPos(c, root, r) \div Fusion!Cardinality(M(r)) = Fusion!Place(c[r].v, w)
    BY <2>1, <2>2, MeanOfOnePlace DEF M
  <2>. QED
    BY <1>2, <2>3
<1>9. ASSUME NEW v \in Vehicle PROVE At(c, f, v) = {r \in DOMAIN f : c[r].v = v}
  BY <1>2, <1>5, <1>7 DEF At
<1>10. ASSUME NEW r \in DOMAIN f, NEW q \in DOMAIN f, c[r].v = c[q].v PROVE r = q
  <2>. DEFINE v == c[r].v
  <2>1. v \in Vehicle /\ r \in At(c, f, v) /\ q \in At(c, f, v)
    BY <1>7, <1>9, <1>10
  <2>2. IsFiniteSet(At(c, f, v))
    <3>1. IsFiniteSet(DOMAIN f) /\ At(c, f, v) \subseteq DOMAIN f
      BY <1>3, ObjectsFinite DEF At
    <3>. QED
      BY <3>1, FS_Subset
  <2>3. Cardinality(At(c, f, v)) <= 1
    BY <1>4, <2>1 DEF Told
  <2>. HIDE DEF v
  <2>. QED
    BY <2>1, <2>2, <2>3, AtMostOne
<1>11. Clear(c, f)
  BY <1>7, <1>8, <1>9, <1>10 DEF Clear, w
<1>. QED
  BY <1>11 DEF f

\* Every vehicle has its track, which moves with it and is not too old.
Known ==
  LET w == motionFrame_ + 1
      t(v) == byGid_[tracked[v]]
  IN  /\ \A v \in Vehicle :
           /\ tracked[v] \in DOMAIN byGid_ /\ t(v).hasMotion /\ t(v).cls = world.cls[v]
           /\ Fusion!Distance(Fusion!Place(v, w), t(v).rawPos) <= trackMaxDistance
           /\ Fusion!predictPosition(t(v), w) = Fusion!Place(v, w)
      /\ \A v, u \in Vehicle : tracked[v] = tracked[u] => v = u
      /\ \A g \in DOMAIN byGid_ : \E v \in Vehicle : g = tracked[v]

\* No other vehicle of its class is where an object is that is not ambiguous.
Alone(c, f) ==
  \A r \in DOMAIN f \ Fusion!Ambiguous(f), v \in Vehicle :
    v # c[r].v /\ world.cls[v] = f[r].cls => Fusion!Place(v, motionFrame_ + 1) # f[r].pos

\* Such an object has its own track or none, and no other object has it.
Rightful(c, f) ==
  {a \in Assignments(f) :
     \A q \in DOMAIN f \ Fusion!Ambiguous(f) :
       /\ a[q] \in {0, tracked[c[q].v]}
       /\ \A p \in DOMAIN f : a[p] = tracked[c[q].v] => p = q}

\* What holds in a window without puzzles.
Crossing(c, f) ==
  /\ FusionState /\ TracksType /\ Positions(c) /\ Objects(c, f)
  /\ Clear(c, f) /\ Known /\ Alone(c, f)

(* Two places are nothing apart if and only if they are the same.          *)
LEMMA DistanceType ==
  ASSUME NEW x \in Int, NEW y \in Int
  PROVE  /\ Fusion!Distance(x, y) \in Nat
         /\ Fusion!Distance(x, y) = 0 <=> x = y
  BY DEF Fusion!Distance

(* An object is off a track by as much as it is off the vehicle.           *)
LEMMA OffVehicle ==
  ASSUME NEW c, NEW f, Crossing(c, f), NEW r \in DOMAIN f, NEW v \in Vehicle
  PROVE  LET off == Fusion!Off(f[r], byGid_[tracked[v]], motionFrame_ + 1)
         IN  /\ off \in Nat
             /\ off = 0 <=> f[r].pos = Fusion!Place(v, motionFrame_ + 1)
             /\ v = c[r].v => off = 0
<1>. DEFINE w == motionFrame_ + 1
            off == Fusion!Off(f[r], byGid_[tracked[v]], w)
<1>1. w \in Int
  BY DEF Crossing, FusionState
<1>2. Fusion!predictPosition(byGid_[tracked[v]], w) = Fusion!Place(v, w)
  BY DEF Crossing, Known
<1>3. f[r].pos = Fusion!Place(c[r].v, w) /\ c[r].v \in Vehicle
  BY DEF Crossing, Clear
<1>. HIDE DEF w
<1>4. off = Fusion!Distance(f[r].pos, Fusion!Place(v, w))
  BY <1>2 DEF Fusion!Off
<1>5. f[r].pos \in Int /\ Fusion!Place(v, w) \in Int
  BY <1>1, <1>3, PlaceType DEF Crossing
<1>. HIDE DEF off
<1>6. off \in Nat /\ (off = 0 <=> f[r].pos = Fusion!Place(v, w))
  BY <1>4, <1>5, DistanceType
<1>. QED
  BY <1>3, <1>6 DEF off, w

(* Its own track an object may take.                                       *)
LEMMA TakeOwn ==
  ASSUME NEW c, NEW f, Crossing(c, f), NEW a \in Rightful(c, f), NEW r \in DOMAIN f,
         NEW g \in DOMAIN byGid_, g \notin Fusion!Range(a), byGid_[g].cls = f[r].cls,
         r \notin Fusion!Ambiguous(f) => g = tracked[c[r].v],
         \A q \in DOMAIN f \ Fusion!Ambiguous(f) : g = tracked[c[q].v] => q = r
  PROVE  [a EXCEPT ![r] = g] \in Rightful(c, f)
<1>. DEFINE b == [a EXCEPT ![r] = g]
<1>1. a \in Assignments(f) /\ a \in [DOMAIN f -> {0} \cup DOMAIN byGid_]
  BY DEF Rightful, Assignments
<1>2. b \in Assignments(f)
  BY <1>1, Assign
<1>3. \A q \in DOMAIN f : b[q] = IF q = r THEN g ELSE a[q]
  BY <1>1
<1>. HIDE DEF b
<1>4. ASSUME NEW q \in DOMAIN f \ Fusion!Ambiguous(f)
      PROVE  /\ b[q] \in {0, tracked[c[q].v]}
             /\ \A p \in DOMAIN f : b[p] = tracked[c[q].v] => p = q
  <2>1. /\ a[q] \in {0, tracked[c[q].v]}
        /\ \A p \in DOMAIN f : a[p] = tracked[c[q].v] => p = q
    BY DEF Rightful
  <2>. QED
    BY <1>3, <2>1
<1>. QED
  BY <1>2, <1>4 DEF Rightful, b

(* A source id that is believed names the object's own track: another one  *)
(* is contradicted by the own track, which moves to where the object is.   *)
LEMMA BelievedIsOwn ==
  ASSUME NEW c, NEW f, Crossing(c, f), NEW a \in Rightful(c, f), NEW r \in DOMAIN f, a[r] = 0,
         NEW s, Fusion!SourceMatch(s, f[r], r \in Fusion!Ambiguous(f), Fusion!Range(a), motionFrame_ + 1)
  PROVE  r \notin Fusion!Ambiguous(f) /\ idIndex_[s] = tracked[c[r].v]
<1>. DEFINE w == motionFrame_ + 1
            g == idIndex_[s]
            own == tracked[c[r].v]
            off(i) == Fusion!Off(f[r], byGid_[i], w)
<1>1. /\ g \notin Fusion!Range(a) /\ g \in DOMAIN byGid_ /\ byGid_[g].cls = f[r].cls
      /\ ~(r \in Fusion!Ambiguous(f) /\ byGid_[g].hasMotion)
      /\ ~Fusion!Contradicted(f[r], g, Fusion!Range(a), w)
  BY DEF Fusion!SourceMatch
<1>2. PICK v \in Vehicle : g = tracked[v]
  BY <1>1 DEF Crossing, Known
<1>3. byGid_[g].hasMotion /\ world.cls[v] = f[r].cls
  BY <1>1, <1>2 DEF Crossing, Known
<1>4. r \notin Fusion!Ambiguous(f)
  BY <1>1, <1>3
<1>5. /\ c[r].v \in Vehicle /\ f[r].cls = world.cls[c[r].v]
      /\ f[r].pos = Fusion!Place(c[r].v, w)
  BY DEF Crossing, Clear
<1>6. /\ own \in DOMAIN byGid_ /\ byGid_[own].hasMotion /\ byGid_[own].cls = f[r].cls
      /\ Fusion!Distance(f[r].pos, byGid_[own].rawPos) <= trackMaxDistance
  BY <1>5 DEF Crossing, Known
<1>7. ASSUME g # own PROVE FALSE
  <2>1. v # c[r].v
    BY <1>2, <1>7
  <2>2. Fusion!Place(v, w) # f[r].pos
    BY <1>3, <1>4, <2>1 DEF Crossing, Alone
  <2>3. off(own) = 0 /\ off(g) \in Nat /\ off(g) # 0
    BY <1>2, <1>5, <2>2, OffVehicle
  <2>4. own \notin Fusion!Range(a)
    <3>1. ASSUME NEW p \in DOMAIN f, a[p] = own PROVE FALSE
      <4>1. p = r
        BY <1>4, <3>1 DEF Rightful
      <4>2. own # 0
        BY <1>6 DEF Crossing, TracksType
      <4>. QED
        BY <3>1, <4>1, <4>2
    <3>2. DOMAIN a = DOMAIN f
      BY DEF Rightful, Assignments
    <3>. QED
      BY <3>1, <3>2 DEF Fusion!Range
  <2>5. own \in DOMAIN byGid_ \ (Fusion!Range(a) \cup {g})
    BY <1>6, <1>7, <2>4
  <2>6. off(own) < off(g)
    BY <2>3
  <2>7. Fusion!Contradicted(f[r], g, Fusion!Range(a), w)
    <3>. HIDE DEF own, g, w
    <3>. QED
      BY <1>3, <1>6, <2>5, <2>6 DEF Fusion!Contradicted, g
  <2>. QED
    BY <1>1, <2>7
<1>. QED
  BY <1>4, <1>7

(* Objects of one vehicle are one.                                         *)
LEMMA OwnTracksDiffer ==
  ASSUME NEW c, NEW f, Crossing(c, f), NEW r \in DOMAIN f, NEW q \in DOMAIN f,
         tracked[c[q].v] = tracked[c[r].v]
  PROVE  q = r
<1>1. c[q].v \in Vehicle /\ c[r].v \in Vehicle
  BY DEF Crossing, Clear
<1>2. c[q].v = c[r].v
  BY <1>1 DEF Crossing, Known
<1>. QED
  BY <1>2 DEF Crossing, Clear

(* A source id keeps the assignment rightful.                              *)
LEMMA SourceStepRightful ==
  ASSUME NEW c, NEW f, Crossing(c, f), NEW a \in Rightful(c, f), NEW r \in DOMAIN f, a[r] = 0
  PROVE  LET b == Fusion!SourceStep(c, f, motionFrame_ + 1, a, r)
         IN  b \in Rightful(c, f) /\ \A q \in DOMAIN f : q # r => b[q] = a[q]
<1>. DEFINE w == motionFrame_ + 1
            match(i) ==
              Fusion!SourceMatch(Fusion!Source(c[i]), f[r], r \in Fusion!Ambiguous(f),
                                 Fusion!Range(a), w)
            ok == {i \in f[r].members : match(i)}
            gid(i) == idIndex_[Fusion!Source(c[i])]
            b == Fusion!SourceStep(c, f, w, a, r)
<1>1. b = IF ok = {} THEN a ELSE [a EXCEPT ![r] = gid(Fusion!Min(ok))]
  BY DEF Fusion!SourceStep
<1>2. ok \in SUBSET Nat
  <2>1. f[r].members \subseteq 1 .. Len(c) /\ Len(c) \in Nat
    BY DEF Crossing, Objects, Positions
  <2>2. f[r].members \subseteq Nat
    BY <2>1
  <2>3. ok \subseteq f[r].members
    OBVIOUS
  <2>. HIDE DEF ok
  <2>. QED
    BY <2>2, <2>3
<1>3. CASE ok = {}
  BY <1>1, <1>3
<1>4. CASE ok # {}
  <2>. DEFINE m == Fusion!Min(ok)
              g == gid(m)
  <2>1. m \in ok
    <3>. HIDE DEF ok
    <3>. QED
      BY <1>2, <1>4, MinIsMember
  <2>2. match(m)
    <3>. HIDE DEF match, m
    <3>. QED
      BY <2>1
  <2>3. r \notin Fusion!Ambiguous(f) /\ g = tracked[c[r].v]
    <3>. HIDE DEF m
    <3>. QED
      BY <2>2, BelievedIsOwn
  <2>4. g \in DOMAIN byGid_ /\ g \notin Fusion!Range(a) /\ byGid_[g].cls = f[r].cls
    <3>. HIDE DEF m
    <3>. QED
      BY <2>2 DEF Fusion!SourceMatch
  <2>5. ASSUME NEW q \in DOMAIN f \ Fusion!Ambiguous(f), g = tracked[c[q].v] PROVE q = r
    BY <2>3, <2>5, OwnTracksDiffer
  <2>6. b = [a EXCEPT ![r] = g]
    <3>. HIDE DEF ok
    <3>. QED
      BY <1>1, <1>4
  <2>. HIDE DEF g, b
  <2>7. b \in Rightful(c, f)
    BY <2>3, <2>4, <2>5, <2>6, TakeOwn
  <2>8. \A q \in DOMAIN f : q # r => b[q] = a[q]
    BY <2>6 DEF Rightful, Assignments
  <2>. QED
    BY <2>7, <2>8 DEF b
<1>. QED
  BY <1>3, <1>4

(* So do all of them.                                                      *)
LEMMA BySourceRightful ==
  ASSUME NEW c, NEW f, Crossing(c, f)
  PROVE  Fusion!BySource(c, f, motionFrame_ + 1) \in Rightful(c, f)
<1>. DEFINE w == motionFrame_ + 1
            n == Len(c)
            R == Rightful(c, f)
<1>1. PICK h \in BySourceRuns(c, f, w) : TRUE
  BY BySourceLoop DEF Crossing
<1>2. /\ h[0] = [r \in DOMAIN f |-> 0] /\ h[n] = Fusion!BySource(c, f, w)
      /\ \A i \in 1 .. n :
           h[i] = IF i \in DOMAIN f THEN Fusion!SourceStep(c, f, w, h[i - 1], i) ELSE h[i - 1]
  BY <1>1 DEF BySourceRuns
<1>3. n \in Nat /\ DOMAIN f \subseteq 1 .. n
  BY DEF Crossing, Positions, Objects
<1>. DEFINE T == {i \in 0 .. n : h[i] \in R /\ \A q \in DOMAIN f : q > i => h[i][q] = 0}
<1>. HIDE DEF n
<1>4. 0 \in T
  <2>. DEFINE a == [r \in DOMAIN f |-> 0]
  <2>1. a \in Assignments(f)
    BY DEF Assignments
  <2>2. \A v \in Vehicle : tracked[v] # 0
    BY DEF Crossing, Known, TracksType
  <2>3. \A q \in DOMAIN f : c[q].v \in Vehicle
    BY DEF Crossing, Clear
  <2>4. \A q \in DOMAIN f : a[q] = 0
    OBVIOUS
  <2>. HIDE DEF a
  <2>5. a \in R
    BY <2>1, <2>2, <2>3, <2>4 DEF Rightful
  <2>. QED
    BY <1>2, <1>3, <2>4, <2>5 DEF a
<1>5. ASSUME NEW i \in 0 .. n, i < n, i \in T PROVE i + 1 \in T
  <2>1. i + 1 \in 1 .. n /\ i + 1 \in 0 .. n /\ (i + 1) - 1 = i
    BY <1>3, <1>5
  <2>2. h[i + 1] = IF i + 1 \in DOMAIN f THEN Fusion!SourceStep(c, f, w, h[i], i + 1) ELSE h[i]
    BY <1>2, <2>1
  <2>3. h[i] \in R /\ \A q \in DOMAIN f : q > i => h[i][q] = 0
    BY <1>5
  <2>4. \A q \in DOMAIN f : q \in Nat /\ (q > i + 1 => q > i /\ q # i + 1)
    BY <1>3
  <2>5. h[i + 1] \in R /\ \A q \in DOMAIN f : q > i + 1 => h[i + 1][q] = 0
    <3>1. CASE i + 1 \in DOMAIN f
      <4>1. h[i][i + 1] = 0
        BY <2>3, <3>1
      <4>. DEFINE b == Fusion!SourceStep(c, f, w, h[i], i + 1)
      <4>2. b \in Rightful(c, f) /\ \A q \in DOMAIN f : q # i + 1 => b[q] = h[i][q]
        BY <2>3, <3>1, <4>1, SourceStepRightful
      <4>3. h[i + 1] = b
        BY <2>2, <3>1
      <4>. HIDE DEF b
      <4>. QED
        BY <2>3, <2>4, <4>2, <4>3
    <3>2. CASE i + 1 \notin DOMAIN f
      BY <2>2, <2>3, <2>4, <3>2
    <3>. QED
      BY <3>1, <3>2
  <2>. QED
    BY <2>1, <2>5
<1>6. n \in T
  <2>1. n \in 0 .. n
    BY <1>3
  <2>. HIDE DEF T
  <2>. QED
    BY <1>3, <1>4, <1>5, <2>1, InductionUpTo
<1>7. Fusion!BySource(c, f, w) \in R
  BY <1>2, <1>6
<1>. QED
  BY <1>7

\* The objects that have no track yet.
Unnamed(f, a) == {r \in DOMAIN f : a[r] = 0}

(* An own track that is free makes the closest pair that there is.         *)
LEMMA OwnPair ==
  ASSUME NEW c, NEW f, Crossing(c, f), NEW a \in Rightful(c, f),
         NEW q \in DOMAIN f \ Fusion!Ambiguous(f), a[q] = 0
  PROVE  <<q, tracked[c[q].v]>> \in Fusion!Pairs(f, motionFrame_ + 1, a)
<1>. DEFINE w == motionFrame_ + 1
            own == tracked[c[q].v]
<1>1. c[q].v \in Vehicle /\ f[q].cls = world.cls[c[q].v]
  BY DEF Crossing, Clear
<1>2. own \in DOMAIN byGid_ /\ byGid_[own].cls = f[q].cls /\ own # 0
  BY <1>1 DEF Crossing, Known, TracksType
<1>3. Fusion!Off(f[q], byGid_[own], w) = 0
  BY <1>1, OffVehicle
<1>4. 0 <= trackMaxDistance
  BY FusionHolds DEF Fusion!DistanceAssumption
<1>5. own \notin Fusion!Range(a)
  <2>1. \A p \in DOMAIN f : a[p] = own => p = q
    BY DEF Rightful
  <2>2. DOMAIN a = DOMAIN f
    BY DEF Rightful, Assignments
  <2>3. \A p \in DOMAIN a : a[p] # own
    BY <1>2, <2>1, <2>2
  <2>. HIDE DEF own
  <2>. QED
    BY <2>3 DEF Fusion!Range
<1>6. <<q, own>> \in (DOMAIN f) \X (DOMAIN byGid_)
  BY <1>2
<1>. HIDE DEF own, w
<1>7. <<q, own>> \in Fusion!Pairs(f, w, a)
  BY <1>2, <1>3, <1>4, <1>5, <1>6 DEF Fusion!Pairs
<1>. QED
  BY <1>7 DEF own, w

(* The closest pair is at least as close as any other.                     *)
LEMMA ClosestIsLeast ==
  ASSUME NEW c, NEW f, Crossing(c, f), NEW S \in SUBSET ((DOMAIN f) \X (DOMAIN byGid_)), NEW q \in S
  PROVE  LET w == motionFrame_ + 1
             p == Fusion!Closest(f, w, S)
             off(x) == Fusion!Off(f[x[1]], byGid_[x[2]], w)
         IN  p \in S /\ off(p) <= off(q)
<1>. DEFINE w == motionFrame_ + 1
            off(x) == Fusion!Off(f[x[1]], byGid_[x[2]], w)
            Least(p) == \A x \in S : \/ off(p) < off(x)
                                     \/ off(p) = off(x) /\ p[1] < x[1]
                                     \/ off(p) = off(x) /\ p[1] = x[1] /\ p[2] <= x[2]
<1>1. w \in Int
  BY DEF Crossing, FusionState
<1>2. ASSUME NEW x \in S PROVE off(x) \in Nat
  <2>1. x[1] \in DOMAIN f /\ x[2] \in DOMAIN byGid_
    OBVIOUS
  <2>2. f[x[1]].pos \in Int
    BY <2>1 DEF Crossing, Objects
  <2>. HIDE DEF w
  <2>. QED
    BY <1>1, <2>1, <2>2, OffType DEF Crossing
<1>3. \E p \in S : Least(p)
  <2>. HIDE DEF w
  <2>. QED
    BY <1>1, LeastPair DEF Crossing
<1>. DEFINE p == Fusion!Closest(f, w, S)
<1>4. p \in S /\ Least(p)
  BY <1>3 DEF Fusion!Closest
<1>5. off(p) <= off(q)
  <2>. HIDE DEF off, p
  <2>. QED
    BY <1>2, <1>4
<1>. QED
  BY <1>4, <1>5

(* The closest pair keeps the assignment rightful: as long as an object    *)
(* that is not ambiguous has no track, its own is free and closest.        *)
LEMMA PlaceStepRightful ==
  ASSUME NEW c, NEW f, Crossing(c, f), NEW a \in Rightful(c, f),
         Fusion!Pairs(f, motionFrame_ + 1, a) # {}
  PROVE  LET b == Fusion!PlaceStep(f, motionFrame_ + 1, a)
         IN  /\ b \in Rightful(c, f)
             /\ \E r \in Unnamed(f, a) : Unnamed(f, b) = Unnamed(f, a) \ {r}
<1>. DEFINE w == motionFrame_ + 1
            S == Fusion!Pairs(f, w, a)
            p == Fusion!Closest(f, w, S)
            r == p[1]
            g == p[2]
            b == Fusion!PlaceStep(f, w, a)
            off(i, j) == Fusion!Off(f[i], byGid_[j], w)
<1>1. S \in SUBSET ((DOMAIN f) \X (DOMAIN byGid_))
  BY DEF Fusion!Pairs
<1>2. p \in S /\ \A q \in S : off(r, g) <= off(q[1], q[2])
  <2>. HIDE DEF S
  <2>1. PICK q \in S : TRUE
    BY DEF S
  <2>. QED
    BY <1>1, <2>1, ClosestIsLeast
<1>3. b = [a EXCEPT ![r] = g]
  BY DEF Fusion!PlaceStep
<1>. HIDE DEF p, S, b
<1>4. /\ r \in DOMAIN f /\ g \in DOMAIN byGid_ /\ a[r] = 0 /\ g \notin Fusion!Range(a)
      /\ byGid_[g].cls = f[r].cls
  BY <1>2 DEF Fusion!Pairs, S
<1>5. PICK v \in Vehicle : g = tracked[v]
  BY <1>4 DEF Crossing, Known
<1>6. world.cls[v] = f[r].cls
  BY <1>4, <1>5 DEF Crossing, Known
<1>7. off(r, g) \in Nat /\ (off(r, g) = 0 => f[r].pos = Fusion!Place(v, w))
  BY <1>4, <1>5, OffVehicle
<1>. HIDE DEF r, g, off, w
<1>8. ASSUME NEW q \in DOMAIN f \ Fusion!Ambiguous(f), a[q] = 0
      PROVE  f[r].pos = Fusion!Place(v, w)
  <2>1. <<q, tracked[c[q].v]>> \in S
    BY <1>8, OwnPair DEF S, w
  <2>2. off(q, tracked[c[q].v]) = 0
    <3>1. c[q].v \in Vehicle
      BY DEF Crossing, Clear
    <3>. QED
      BY <3>1, OffVehicle DEF off, w
  <2>3. off(r, g) <= off(q, tracked[c[q].v])
    BY <1>2, <2>1
  <2>. QED
    BY <1>7, <2>2, <2>3
<1>9. ASSUME r \notin Fusion!Ambiguous(f) PROVE v = c[r].v
  <2>1. f[r].pos = Fusion!Place(v, w)
    BY <1>4, <1>8, <1>9
  <2>. QED
    BY <1>4, <1>6, <1>9, <2>1 DEF Crossing, Alone, w
<1>10. ASSUME NEW q \in DOMAIN f \ Fusion!Ambiguous(f), g = tracked[c[q].v] PROVE q = r
  <2>. SUFFICES ASSUME q # r PROVE FALSE
    OBVIOUS
  <2>1. c[q].v \in Vehicle /\ f[q].cls = world.cls[c[q].v] /\ f[q].pos = Fusion!Place(c[q].v, w)
    BY DEF Crossing, Clear, w
  <2>2. v = c[q].v
    <3>1. \A x, u \in Vehicle : tracked[x] = tracked[u] => x = u
      BY DEF Crossing, Known
    <3>. QED
      BY <1>5, <1>10, <2>1, <3>1, Zenon
  <2>3. a[q] = 0
    <3>1. a[q] \in {0, g} /\ q \in DOMAIN a
      BY <1>10 DEF Rightful, Assignments
    <3>. QED
      BY <1>4, <3>1 DEF Fusion!Range
  <2>4. f[r].pos = f[q].pos /\ f[r].cls = f[q].cls
    BY <1>6, <1>8, <2>1, <2>2, <2>3
  <2>5. f[q].pos \in Int /\ positionJitterRadius \in Nat
    BY FusionHolds DEF Crossing, Objects, Fusion!DistanceAssumption
  <2>6. Fusion!Distance(f[r].pos, f[q].pos) <= positionJitterRadius
    BY <2>4, <2>5 DEF Fusion!Distance
  <2>7. q \in Fusion!Ambiguous(f)
    BY <1>4, <2>4, <2>6 DEF Fusion!Ambiguous
  <2>. QED
    BY <2>7
<1>11. b \in Rightful(c, f)
  BY <1>3, <1>4, <1>5, <1>9, <1>10, TakeOwn
<1>12. Unnamed(f, b) = Unnamed(f, a) \ {r} /\ r \in Unnamed(f, a)
  <2>1. a \in [DOMAIN f -> {0} \cup DOMAIN byGid_] /\ g # 0
    BY <1>4 DEF Rightful, Assignments, Crossing, TracksType
  <2>2. \A q \in DOMAIN f : b[q] = IF q = r THEN g ELSE a[q]
    BY <1>3, <2>1
  <2>. QED
    BY <1>4, <2>1, <2>2 DEF Unnamed
<1>. QED
  BY <1>11, <1>12 DEF b, w

(* When no pair is left every object that is not ambiguous has its track.  *)
LEMMA ByPlaceRightful ==
  ASSUME NEW c, NEW f, Crossing(c, f), NEW a \in Rightful(c, f)
  PROVE  LET b == Fusion!ByPlace(a, f, motionFrame_ + 1)
         IN  \A q \in DOMAIN f \ Fusion!Ambiguous(f) : b[q] = tracked[c[q].v]
<1>. DEFINE w == motionFrame_ + 1
            n == Cardinality(DOMAIN f)
            R == Rightful(c, f)
            left(x) == Cardinality(Unnamed(f, x))
            Done(x) == Fusion!Pairs(f, w, x) = {}
<1>1. w \in Int /\ a \in Assignments(f)
  BY DEF Crossing, FusionState, Rightful
<1>2. PICK h \in ByPlaceRuns(a, f, w) : TRUE
  <2>. HIDE DEF w
  <2>. QED
    BY <1>1, ByPlaceLoop DEF Crossing
<1>3. /\ h[0] = a /\ h[n] = Fusion!ByPlace(a, f, w)
      /\ \A i \in 1 .. n : h[i] = Fusion!PlaceStep(f, w, h[i - 1])
  BY <1>2 DEF ByPlaceRuns
<1>4. n \in Nat /\ IsFiniteSet(DOMAIN f)
  BY ObjectsFinite DEF Crossing
<1>5. ASSUME NEW x PROVE IsFiniteSet(Unnamed(f, x)) /\ left(x) \in Nat /\ left(x) <= n
  <2>1. Unnamed(f, x) \subseteq DOMAIN f
    BY DEF Unnamed
  <2>. QED
    BY <1>4, <2>1, FS_Subset, FS_CardinalityType
<1>. HIDE DEF n
<1>6. ASSUME NEW x \in R, ~Done(x)
      PROVE  Fusion!PlaceStep(f, w, x) \in R /\ left(Fusion!PlaceStep(f, w, x)) = left(x) - 1
  <2>. DEFINE b == Fusion!PlaceStep(f, w, x)
  <2>1. b \in R /\ \E r \in Unnamed(f, x) : Unnamed(f, b) = Unnamed(f, x) \ {r}
    BY <1>6, PlaceStepRightful
  <2>. HIDE DEF b
  <2>2. left(b) = left(x) - 1
    <3>1. PICK r \in Unnamed(f, x) : Unnamed(f, b) = Unnamed(f, x) \ {r}
      BY <2>1
    <3>2. IsFiniteSet(Unnamed(f, x))
      BY <1>5
    <3>3. Cardinality(Unnamed(f, x) \ {r}) = Cardinality(Unnamed(f, x)) - 1
      BY <3>2, FS_RemoveElement
    <3>. QED
      BY <3>1, <3>3
  <2>. QED
    BY <2>1, <2>2 DEF b
<1>7. ASSUME NEW x, Done(x) PROVE Fusion!PlaceStep(f, w, x) = x
  BY <1>7 DEF Fusion!PlaceStep
<1>. HIDE DEF Done, w
<1>. DEFINE T == {i \in 0 .. n : h[i] \in R /\ (Done(h[i]) \/ left(h[i]) <= n - i)}
<1>. HIDE DEF R, left
<1>8. 0 \in T
  BY <1>3, <1>4, <1>5 DEF R
<1>9. ASSUME NEW i \in 0 .. n, i < n, i \in T PROVE i + 1 \in T
  <2>1. i + 1 \in 1 .. n /\ i + 1 \in 0 .. n /\ (i + 1) - 1 = i
    BY <1>4, <1>9
  <2>2. h[i + 1] = Fusion!PlaceStep(f, w, h[i]) /\ h[i] \in R
    BY <1>3, <1>9, <2>1
  <2>3. CASE Done(h[i])
    BY <1>7, <2>1, <2>2, <2>3
  <2>4. CASE ~Done(h[i])
    <3>1. left(h[i]) <= n - i /\ left(h[i]) \in Nat
      BY <1>5, <1>9, <2>4
    <3>2. h[i + 1] \in R /\ left(h[i + 1]) = left(h[i]) - 1
      BY <1>6, <2>2, <2>4
    <3>3. left(h[i + 1]) <= n - (i + 1)
      BY <1>4, <3>1, <3>2
    <3>. QED
      BY <2>1, <3>2, <3>3
  <2>. QED
    BY <2>3, <2>4
<1>10. n \in T
  <2>1. n \in 0 .. n
    BY <1>4
  <2>. HIDE DEF T
  <2>. QED
    BY <1>4, <1>8, <1>9, <2>1, InductionUpTo
<1>. DEFINE b == h[n]
<1>11. b \in R /\ (Done(b) \/ left(b) <= 0)
  BY <1>4, <1>10
<1>. HIDE DEF b
<1>12. ASSUME NEW q \in DOMAIN f \ Fusion!Ambiguous(f) PROVE b[q] # 0
  <2>. SUFFICES ASSUME b[q] = 0 PROVE FALSE
    OBVIOUS
  <2>1. ~Done(b)
    BY <1>11, OwnPair DEF R, Done, w
  <2>2. left(b) = 0
    BY <1>5, <1>11, <2>1
  <2>3. Unnamed(f, b) = {}
    BY <1>5, <2>2, FS_EmptySet DEF left
  <2>. QED
    BY <2>3 DEF Unnamed
<1>13. \A q \in DOMAIN f \ Fusion!Ambiguous(f) : b[q] = tracked[c[q].v]
  BY <1>11, <1>12 DEF R, Rightful
<1>. QED
  BY <1>3, <1>13 DEF b, w

(* Vehicles keep their gids in a call on a crossing.                       *)
LEMMA OwnIsKept ==
  ASSUME NEW c, NEW f, NEW a, Called(c, f, a), Crossing(c, f)
  PROVE  tracked' = [v \in Vehicle |-> tracked[v]]
<1>. DEFINE w == motionFrame_ + 1
            b == Fusion!WithNew(a)
            at(v) == {r \in DOMAIN f : \E i \in f[r].members : c[i].v = v}
            s == Fusion!BySource(c, f, w)
<1>1. s \in Rightful(c, f)
  BY BySourceRightful
<1>. HIDE DEF s
<1>2. \A q \in DOMAIN f \ Fusion!Ambiguous(f) : a[q] = tracked[c[q].v]
  <2>1. a = Fusion!ByPlace(s, f, w)
    BY DEF Called, s
  <2>. QED
    BY <1>1, <2>1, ByPlaceRightful
<1>3. ASSUME NEW q \in DOMAIN f \ Fusion!Ambiguous(f) PROVE b[q] = tracked[c[q].v]
  <2>1. tracked[c[q].v] # 0
    BY DEF Crossing, Clear, Known, TracksType
  <2>2. DOMAIN b = DOMAIN f
    BY DEF Called, Naming
  <2>3. DOMAIN b = DOMAIN a
    BY DEF Fusion!WithNew
  <2>. QED
    BY <1>2, <2>1, <2>2, <2>3 DEF Fusion!WithNew
<1>. HIDE DEF b
<1>4. tracked' = [v \in Vehicle |->
                    IF at(v) # {} /\ at(v) \cap Fusion!Ambiguous(f) = {} THEN b[Fusion!Min(at(v))]
                    ELSE tracked[v]]
  BY DEF Called, Fusion!Record, b
<1>5. ASSUME NEW v \in Vehicle, at(v) # {}, at(v) \cap Fusion!Ambiguous(f) = {}
      PROVE  b[Fusion!Min(at(v))] = tracked[v]
  <2>1. at(v) = {r \in DOMAIN f : c[r].v = v}
    BY DEF Crossing, Clear, At
  <2>2. at(v) \in SUBSET Nat
    BY <2>1, ObjectsFinite DEF Crossing
  <2>. HIDE DEF at
  <2>. DEFINE q == Fusion!Min(at(v))
  <2>3. q \in at(v)
    BY <1>5, <2>2, MinIsMember
  <2>. HIDE DEF q
  <2>4. q \in DOMAIN f \ Fusion!Ambiguous(f) /\ c[q].v = v
    BY <1>5, <2>1, <2>3
  <2>5. b[q] = tracked[v]
    BY <1>3, <2>4
  <2>. QED
    BY <2>5 DEF q
<1>. HIDE DEF at
<1>. QED
  BY <1>4, <1>5

\* The gid under which a vehicle was seen has its class, as long as no vehicle
\* was merged, split or taken for another class.
CrossInv ==
  /\ FusionInv /\ DOMAIN tracked = Vehicle
  /\ ~puzzled => \A v \in Vehicle : tracked[v] # 0 =>
                   tracked[v] \in DOMAIN classOf /\ classOf[tracked[v]] = world.cls[v]

(* The classes of the gids are those of their objects.                     *)
LEMMA ClassAfter ==
  ASSUME FusionInv, NEW c, NEW f, NEW a, Called(c, f, a)
  PROVE  /\ \A r \in DOMAIN f : LET g == Fusion!WithNew(a)[r]
                                IN  g \in DOMAIN classOf' /\ classOf'[g] = f[r].cls
         /\ \A g \in DOMAIN classOf : g \in DOMAIN classOf' /\ classOf'[g] = classOf[g]
<1>. DEFINE b == Fusion!WithNew(a)
<1>1. Naming(f, b, nextGlobalId_') /\ Fusion!Record(c, f, b, motionFrame_ + 1)
  BY DEF Called
<1>. HIDE DEF b
<1>2. Recorded(f, b)
  BY <1>1, HistoryAfter
<1>3. /\ DOMAIN classOf' = DOMAIN classOf \cup {b[r] : r \in DOMAIN f}
      /\ \A g \in DOMAIN classOf : classOf'[g] = classOf[g]
      /\ \A r \in DOMAIN f : b[r] \notin DOMAIN classOf => classOf'[b[r]] = f[r].cls
  BY <1>2 DEF Recorded
<1>4. /\ nextGlobalId_ \in Nat \ {0} /\ DOMAIN classOf \subseteq 1 .. nextGlobalId_ - 1
      /\ \A g \in DOMAIN byGid_ : g \in DOMAIN classOf /\ byGid_[g].cls = classOf[g]
  BY DEF FusionInv
<1>5. \A r \in DOMAIN f : \/ b[r] \in DOMAIN byGid_ /\ byGid_[b[r]].cls = f[r].cls
                          \/ b[r] \in nextGlobalId_ .. nextGlobalId_' - 1
  BY <1>1 DEF Naming
<1>6. ASSUME NEW r \in DOMAIN f PROVE b[r] \in DOMAIN classOf' /\ classOf'[b[r]] = f[r].cls
  <2>1. CASE b[r] \in DOMAIN byGid_ /\ byGid_[b[r]].cls = f[r].cls
    BY <1>3, <1>4, <2>1
  <2>2. CASE b[r] \in nextGlobalId_ .. nextGlobalId_' - 1
    <3>1. b[r] \notin DOMAIN classOf
      BY <1>4, <2>2
    <3>. QED
      BY <1>3, <3>1
  <2>. QED
    BY <1>5, <2>1, <2>2
<1>. QED
  BY <1>3, <1>6 DEF b

(* A window that leaves no puzzle was clear.                               *)
LEMMA ClearCall ==
  ASSUME FusionState, NEW c, Positions(c), Sightings(c), NEW f, NEW a, Called(c, f, a), ~puzzled'
  PROVE  ~puzzled /\ Clear(c, f)
<1>. DEFINE at(v) == {r \in DOMAIN f : \E i \in f[r].members : c[i].v = v}
            mixed == \E r \in DOMAIN f : \E i, j \in f[r].members : c[i].v # c[j].v
            split == \E v \in Vehicle : Fusion!Cardinality(at(v)) > 1
            wrong == \E i \in DOMAIN c : c[i].cls # world.cls[c[i].v]
            root == Fusion!ufRoot(c)
<1>1. puzzled' = (puzzled \/ mixed \/ split \/ wrong)
  BY DEF Called, Fusion!Record
<1>. HIDE DEF mixed, split, wrong
<1>2. ~puzzled /\ ~mixed /\ ~split /\ ~wrong
  BY <1>1
<1>3. \A v \in Vehicle : Cardinality(At(c, f, v)) <= 1
  <2>. TAKE v \in Vehicle
  <2>1. at(v) = At(c, f, v) /\ At(c, f, v) \subseteq DOMAIN f
    BY DEF At
  <2>2. Fusion!Cardinality(at(v)) = Cardinality(At(c, f, v))
    BY <2>1 DEF Fusion!Cardinality, Cardinality
  <2>3. ~(Fusion!Cardinality(at(v)) > 1)
    BY <1>2 DEF split
  <2>4. IsFiniteSet(DOMAIN f)
    BY ObjectsFinite DEF Called
  <2>5. Cardinality(At(c, f, v)) \in Nat
    BY <2>1, <2>4, FS_Subset, FS_CardinalityType
  <2>. HIDE DEF at
  <2>. QED
    BY <2>2, <2>3, <2>5
<1>4. Told(c, f)
  BY <1>2, <1>3 DEF Told, mixed, wrong
<1>5. root \in Roots(c) /\ f = Fusion!Fused(c, root)
  BY ufRootType DEF Called
<1>. HIDE DEF root
<1>6. Clear(c, f)
  BY <1>4, <1>5, ClearWindow
<1>. QED
  BY <1>2, <1>6

(* Where a vehicle was last seen for sure, after a clear window            *)
LEMMA TrackedAfter ==
  ASSUME NEW c, Positions(c), NEW f, NEW a, Called(c, f, a), Clear(c, f), DOMAIN tracked = Vehicle
  PROVE  /\ DOMAIN tracked' = Vehicle
         /\ \A v \in Vehicle :
              \/ tracked'[v] = tracked[v]
              \/ \E q \in DOMAIN f : c[q].v = v /\ tracked'[v] = Fusion!WithNew(a)[q]
         /\ \A v \in Vehicle : gidOf'[v] # 0 => \E q \in DOMAIN f : c[q].v = v
<1>. DEFINE b == Fusion!WithNew(a)
            at(v) == {r \in DOMAIN f : \E i \in f[r].members : c[i].v = v}
<1>. HIDE DEF b
<1>1. /\ tracked' = [v \in Vehicle |->
                       IF at(v) # {} /\ at(v) \cap Fusion!Ambiguous(f) = {} THEN b[Fusion!Min(at(v))]
                       ELSE tracked[v]]
      /\ gidOf' = [v \in Vehicle |-> IF at(v) = {} THEN 0 ELSE b[Fusion!Min(at(v))]]
  BY DEF Called, Fusion!Record, b
<1>2. \A v \in Vehicle : at(v) = {r \in DOMAIN f : c[r].v = v}
  BY DEF Clear, At
<1>3. ASSUME NEW v \in Vehicle, at(v) # {} PROVE Fusion!Min(at(v)) \in DOMAIN f /\ c[Fusion!Min(at(v))].v = v
  <2>1. at(v) \in SUBSET Nat
    BY <1>2, ObjectsFinite DEF Called
  <2>. HIDE DEF at
  <2>2. Fusion!Min(at(v)) \in at(v)
    BY <1>3, <2>1, MinIsMember
  <2>. QED
    BY <1>2, <2>2
<1>. HIDE DEF at
<1>4. ASSUME NEW v \in Vehicle
      PROVE  \/ tracked'[v] = tracked[v]
             \/ \E q \in DOMAIN f : c[q].v = v /\ tracked'[v] = b[q]
  BY <1>1, <1>3
<1>5. ASSUME NEW v \in Vehicle, gidOf'[v] # 0 PROVE \E q \in DOMAIN f : c[q].v = v
  BY <1>1, <1>3, <1>5
<1>6. DOMAIN tracked' = Vehicle
  BY <1>1
<1>. QED
  BY <1>4, <1>5, <1>6 DEF b

(* A window keeps the invariant.                                           *)
LEMMA CallKeepsCrossInv ==
  ASSUME CrossInv, NEW c, Positions(c), Sightings(c), NEW f, NEW a, Called(c, f, a),
         UNCHANGED world, FusionInv'
  PROVE  CrossInv'
<1>. DEFINE b == Fusion!WithNew(a)
<1>1. FusionState /\ FusionInv /\ DOMAIN tracked = Vehicle
  BY DEF CrossInv, FusionInv, FusionState
<1>2. DOMAIN tracked' = Vehicle
  BY <1>1 DEF Called, Fusion!Record
<1>3. ASSUME ~puzzled', NEW v \in Vehicle, tracked'[v] # 0
      PROVE  tracked'[v] \in DOMAIN classOf' /\ classOf'[tracked'[v]] = world'.cls[v]
  <2>1. ~puzzled /\ Clear(c, f)
    BY <1>1, <1>3, ClearCall
  <2>2. CASE tracked'[v] = tracked[v]
    <3>1. tracked[v] \in DOMAIN classOf /\ classOf[tracked[v]] = world.cls[v]
      BY <1>3, <2>1, <2>2 DEF CrossInv
    <3>. QED
      BY <1>1, <2>2, <3>1, ClassAfter
  <2>3. CASE \E q \in DOMAIN f : c[q].v = v /\ tracked'[v] = b[q]
    <3>1. PICK q \in DOMAIN f : c[q].v = v /\ tracked'[v] = b[q]
      BY <2>3
    <3>. HIDE DEF b
    <3>2. b[q] \in DOMAIN classOf' /\ classOf'[b[q]] = f[q].cls
      BY <1>1, ClassAfter DEF b
    <3>3. f[q].cls = world.cls[v]
      BY <2>1, <3>1 DEF Clear
    <3>. QED
      BY <3>1, <3>2, <3>3
  <2>. QED
    BY <1>1, <2>1, <2>2, <2>3, TrackedAfter
<1>. QED
  BY <1>2, <1>3 DEF CrossInv

(* Tracks that have learnt the motion expect the vehicles where they are.  *)
LEMMA LearntIsKnown ==
  ASSUME CrossInv, ~puzzled, Fusion!Learnt, Fusion!InReach(motionFrame_ + 1)
  PROVE  Known
<1>. DEFINE w == motionFrame_ + 1
            t(v) == byGid_[tracked[v]]
<1>1. DOMAIN byGid_ = {tracked[v] : v \in Vehicle}
  BY DEF Fusion!Learnt, Fusion!Range, CrossInv
<1>2. \A v, u \in Vehicle : tracked[v] = tracked[u] => v = u
  BY DEF Fusion!Learnt
<1>3. ASSUME NEW v \in Vehicle
      PROVE  /\ tracked[v] \in DOMAIN byGid_ /\ t(v).hasMotion /\ t(v).cls = world.cls[v]
             /\ Fusion!Distance(Fusion!Place(v, w), t(v).rawPos) <= trackMaxDistance
             /\ Fusion!predictPosition(t(v), w) = Fusion!Place(v, w)
  <2>1. tracked[v] \in DOMAIN byGid_
    BY <1>1
  <2>2. /\ t(v).hasMotion /\ t(v).motionDelta = world.speed[v]
        /\ Fusion!predictPosition(t(v), motionFrame_) = Fusion!Place(v, motionFrame_)
    BY DEF Fusion!Learnt
  <2>3. t(v).cls = world.cls[v]
    BY <2>1 DEF CrossInv, FusionInv, TracksType
  <2>4. Fusion!Distance(Fusion!Place(v, w), t(v).rawPos) <= trackMaxDistance
    BY DEF Fusion!InReach
  <2>. DEFINE x == t(v).rawPos
              d == world.speed[v]
              l == t(v).lastMotionFrame
              s == world.start[v]
              n == motionFrame_
  <2>5. x \in Int /\ l \in Int /\ n \in Int
    BY <2>1 DEF CrossInv, FusionInv, TracksType
  <2>6. FusionState
    BY DEF CrossInv, FusionInv, FusionState
  <2>7. s \in Int /\ d \in Int /\ Fusion!Place(v, n) = s + d * n /\ Fusion!Place(v, w) = s + d * (n + 1)
    <3>1. w \in Int
      BY <2>5
    <3>. QED
      BY <2>5, <2>6, <3>1, PlaceType
  <2>8. /\ Fusion!predictPosition(t(v), n) = x + d * (n - l)
        /\ Fusion!predictPosition(t(v), w) = x + d * ((n + 1) - l)
    BY <2>2 DEF Fusion!predictPosition
  <2>9. x + d * (n - l) = s + d * n
    BY <2>2, <2>7, <2>8
  <2>. HIDE DEF x, d, l, s, n
  <2>10. \A i, j \in Int : i * (j + 1) = i * j + i
    OBVIOUS
  <2>11. d * (n + 1) = d * n + d /\ d * ((n - l) + 1) = d * (n - l) + d
    BY <2>5, <2>7, <2>10
  <2>12. (n + 1) - l = (n - l) + 1
    BY <2>5
  <2>13. d * n \in Int /\ d * (n - l) \in Int
    BY <2>5, <2>7
  <2>14. x + d * ((n + 1) - l) = s + d * (n + 1)
    BY <2>5, <2>7, <2>9, <2>11, <2>12, <2>13
  <2>15. Fusion!predictPosition(t(v), w) = Fusion!Place(v, w)
    BY <2>7, <2>8, <2>14
  <2>. QED
    BY <2>1, <2>2, <2>3, <2>4, <2>15
<1>4. \A g \in DOMAIN byGid_ : \E v \in Vehicle : g = tracked[v]
  BY <1>1
<1>. QED
  BY <1>2, <1>3, <1>4 DEF Known

(* Vehicles that are apart, or all seen, are told apart where it matters.  *)
LEMMA SeenOrApart ==
  ASSUME FusionState, NEW c, Positions(c), NEW f, NEW a, Called(c, f, a), Clear(c, f),
         DOMAIN tracked = Vehicle,
         Fusion!Apart(motionFrame_ + 1) \/ \A v \in Vehicle : gidOf'[v] # 0
  PROVE  Alone(c, f)
<1>. DEFINE w == motionFrame_ + 1
<1>. SUFFICES ASSUME NEW r \in DOMAIN f \ Fusion!Ambiguous(f), NEW v \in Vehicle,
                     v # c[r].v, world.cls[v] = f[r].cls, Fusion!Place(v, w) = f[r].pos
              PROVE  FALSE
  BY DEF Alone
<1>1. c[r].v \in Vehicle /\ f[r].pos = Fusion!Place(c[r].v, w)
  BY DEF Clear
<1>2. positionJitterRadius \in Nat /\ f[r].pos \in Int
  BY FusionHolds DEF Fusion!DistanceAssumption, Called, Objects
<1>3. Fusion!Distance(f[r].pos, f[r].pos) <= positionJitterRadius
  BY <1>2 DEF Fusion!Distance
<1>4. CASE Fusion!Apart(w)
  <2>1. Fusion!Distance(Fusion!Place(v, w), Fusion!Place(c[r].v, w)) > positionJitterRadius
    BY <1>1, <1>4 DEF Fusion!Apart
  <2>2. Fusion!Distance(f[r].pos, f[r].pos) \in Nat
    BY <1>2, DistanceType
  <2>. QED
    BY <1>1, <1>2, <1>3, <2>1, <2>2
<1>5. CASE \A u \in Vehicle : gidOf'[u] # 0
  <2>1. PICK q \in DOMAIN f : c[q].v = v
    BY <1>5, TrackedAfter
  <2>2. f[q].cls = f[r].cls /\ f[q].pos = f[r].pos /\ q # r
    BY <2>1 DEF Clear
  <2>. QED
    BY <1>3, <2>1, <2>2 DEF Fusion!Ambiguous
<1>. QED
  BY <1>4, <1>5

(* A step keeps the gids of the vehicles.                                  *)
LEMMA CrossStep ==
  ASSUME CrossInv, [Fusion!Next]_Fusion!vars
  PROVE  /\ CrossInv'
         /\ Fusion!Learnt /\ Fusion!InReach(motionFrame_') /\ ~puzzled'
            /\ (Fusion!Apart(motionFrame_') \/ \A v \in Vehicle : gidOf'[v] # 0)
            => \A v \in Vehicle : tracked'[v] = tracked[v]
<1>1. FusionInv /\ FusionInv' /\ FusionState
  BY FusionNext DEF CrossInv, FusionInv, FusionState
<1>2. CASE Fusion!Next
  <2>1. PICK c : Window(c)
    BY <1>2, EveryStepIsWindow
  <2>2. Positions(c) /\ Sightings(c) /\ UNCHANGED world
    BY <1>1, <2>1, CandidatesPositions, CandidatesSightings DEF Window
  <2>3. PICK f, a : Called(c, f, a)
    BY <1>1, <2>1, <2>2, FuseNames DEF Window
  <2>4. CrossInv'
    BY <1>1, <2>2, <2>3, CallKeepsCrossInv
  <2>5. ASSUME Fusion!Learnt, Fusion!InReach(motionFrame_'), ~puzzled',
               Fusion!Apart(motionFrame_') \/ \A v \in Vehicle : gidOf'[v] # 0,
               NEW v \in Vehicle
        PROVE  tracked'[v] = tracked[v]
    <3>1. motionFrame_' = motionFrame_ + 1
      BY <2>3 DEF Called
    <3>2. ~puzzled /\ Clear(c, f)
      BY <1>1, <2>2, <2>3, <2>5, ClearCall
    <3>3. Known
      BY <2>5, <3>1, <3>2, LearntIsKnown
    <3>4. Alone(c, f)
      BY <1>1, <2>2, <2>3, <2>5, <3>1, <3>2, SeenOrApart DEF CrossInv
    <3>5. Crossing(c, f)
      BY <1>1, <2>2, <2>3, <3>2, <3>3, <3>4 DEF Crossing, FusionInv, Called
    <3>6. tracked' = [u \in Vehicle |-> tracked[u]]
      BY <2>3, <3>5, OwnIsKept
    <3>. QED
      BY <3>6
  <2>. QED
    BY <2>4, <2>5
<1>3. CASE UNCHANGED Fusion!vars
  BY <1>1, <1>3 DEF CrossInv, Fusion!vars, Fusion!history
<1>. QED
  BY <1>2, <1>3

(* The initial states satisfy the invariant.                               *)
LEMMA CrossInit == Fusion!Init => CrossInv
<1>. SUFFICES ASSUME Fusion!Init PROVE CrossInv
  OBVIOUS
<1>1. FusionInv
  BY FusionInit
<1>2. tracked = [v \in Vehicle |-> 0]
  BY DEF Fusion!Init
<1>. QED
  BY <1>1, <1>2 DEF CrossInv

(* GridFuser::fuse: vehicles that cross keep their gids, for any number of *)
(* vehicles and cameras, any speeds and thresholds.                        *)
THEOREM CrossingKeepsGidHolds == Fusion!Spec => CrossingKeepsGid
<1>1. CrossInv /\ [Fusion!Next]_Fusion!vars =>
        [/\ Fusion!Learnt /\ Fusion!InReach(motionFrame_') /\ ~puzzled'
         /\ Fusion!Apart(motionFrame_') \/ \A v \in Vehicle : gidOf'[v] # 0
         => \A v \in Vehicle : tracked'[v] = tracked[v]]_Fusion!vars
  BY CrossStep
<1>2. CrossInv /\ [Fusion!Next]_Fusion!vars => CrossInv'
  BY CrossStep
<1>. QED
  BY <1>1, <1>2, CrossInit, PTL DEF Fusion!Spec, CrossingKeepsGid, Fusion!CrossingKeepsGid

=============================================================================
