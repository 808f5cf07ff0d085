-------------------------- MODULE SchedTimingProofs --------------------------
(***************************************************************************)
(* The bounds on the waiting time of a DANGER transition and of any other  *)
(* due channel, for any number of channels and boards, any duration of an  *)
(* unanswered command and any thresholds.  Every dispatch costs at most    *)
(* ACK_TIMEOUT ticks, and a dispatch that is not the watched channel's     *)
(* brings the cursor nearer to it, if it waits as a DANGER transition, or  *)
(* puts one more channel out of the race for the length of its back-off.   *)
(***************************************************************************)
EXTENDS SchedTiming, FiniteSetTheorems, TLAPS

(* Channels the scan passes before it gets to the watched one.             *)
Ahead == ScanPosition(Watched)

(* Ticks that the dispatches since the last full round may have taken.     *)
SpentAt(a) == (CHANNEL_COUNT - 1 - a) * ACK_TIMEOUT
Spent == SpentAt(Ahead)

(* The tick of the sleep before the first of them: it is over, or the task *)
(* is late and will not sleep.                                             *)
Slack == IF phase = "run" \/ lag > 0 THEN 1 ELSE 0

DangerInv ==
  /\ DangerServedInTime
  /\ Due(Watched, TRUE) => dangerWait <= Spent + Slack

(* The other channels that were tried since the watched one became due and *)
(* are held back by their back-off or until their refresh.                 *)
Tried == {c \in Channel \ {Watched} :
            idle[c] <= wait /\ (desired[c] # applied[c] => retry[c] # 0)}

Cost(n) == n * ACK_TIMEOUT
MostTries == CHANNEL_COUNT - 1 + wraps
Affordable == Cost(MostTries) + 1 < SCHED_BACKOFF

WaitInv ==
  Affordable => /\ wait <= Cost(MostTries) + 1
                /\ Due(Watched, FALSE) => wait <= Cost(Cardinality(Tried) + wraps) + Slack

IInv == TypeOK /\ DangerInv /\ WaitInv

-----------------------------------------------------------------------------
LEMMA Constants ==
  /\ CHANNEL_COUNT \in Nat \ {0} /\ ACK_TIMEOUT \in Nat \ {0} /\ Watched \in Channel
  /\ Channel = 0 .. CHANNEL_COUNT - 1 /\ SCHED_REFRESH \in Nat
BY ChannelAssumption, TimingAssumption, PeriodAssumption DEF Channel

(* The position of a channel in the scan, without the modulus.             *)
LEMMA Position ==
  ASSUME NEW c \in Channel, NEW k \in Channel
  PROVE  (c - k) % CHANNEL_COUNT = IF c >= k THEN c - k ELSE c - k + CHANNEL_COUNT
<1>1. CASE c >= k
  BY <1>1, Constants
<1>2. CASE c < k
  <2>1. (c - k) % CHANNEL_COUNT = c - k + CHANNEL_COUNT
    BY <1>2, Constants
  <2>. QED
    BY <1>2, <2>1, Constants
<1>. QED
  BY <1>1, <1>2, Constants

(* The cursor after a dispatch.                                            *)
LEMMA CursorAfter ==
  ASSUME NEW c \in Channel
  PROVE  /\ (c + 1) % CHANNEL_COUNT = IF c + 1 < CHANNEL_COUNT THEN c + 1 ELSE 0
         /\ (c + 1) % CHANNEL_COUNT \in Channel
<1>1. CASE c + 1 < CHANNEL_COUNT
  BY <1>1, Constants
<1>2. CASE c + 1 >= CHANNEL_COUNT
  BY <1>2, Constants
<1>. QED
  BY <1>1, <1>2, Constants

(* A larger factor by one gives a larger product by the other factor.      *)
LEMMA OneMore ==
  ASSUME NEW a \in Nat, NEW b \in Nat, NEW t \in Nat
  PROVE  /\ a * t \in Nat
         /\ a <= b => a * t <= b * t
         /\ a + 1 <= b => a * t + t <= b * t
OBVIOUS

LEMMA SpentType ==
  ASSUME NEW a \in 0 .. CHANNEL_COUNT - 1
  PROVE  SpentAt(a) \in Nat /\ SpentAt(a) <= (CHANNEL_COUNT - 1) * ACK_TIMEOUT
<1>1. PICK n \in Nat : n = CHANNEL_COUNT - 1 - a /\ n <= CHANNEL_COUNT - 1
  BY Constants
<1>2. PICK m \in Nat : m = CHANNEL_COUNT - 1
  BY Constants
<1>3. n * ACK_TIMEOUT \in Nat /\ n * ACK_TIMEOUT <= m * ACK_TIMEOUT
  BY <1>1, <1>2, OneMore, Constants
<1>. QED
  BY <1>1, <1>2, <1>3 DEF SpentAt

LEMMA SpentGrows ==
  ASSUME NEW a \in 0 .. CHANNEL_COUNT - 1, NEW b \in 0 .. CHANNEL_COUNT - 1, b < a
  PROVE  SpentAt(a) + ACK_TIMEOUT <= SpentAt(b)
<1>1. PICK n \in Nat, m \in Nat : n = CHANNEL_COUNT - 1 - a /\ m = CHANNEL_COUNT - 1 - b
  BY Constants
<1>2. n + 1 <= m
  BY <1>1, Constants
<1>3. n * ACK_TIMEOUT + ACK_TIMEOUT <= m * ACK_TIMEOUT
  BY <1>2, OneMore, Constants
<1>. QED
  BY <1>1, <1>3 DEF SpentAt

LEMMA AheadType ==
  ASSUME NEW k \in Channel
  PROVE  (Watched - k) % CHANNEL_COUNT \in 0 .. CHANNEL_COUNT - 1
BY Position, Constants

(* The dispatch of another channel, which the scan met before the watched  *)
(* one, brings the cursor nearer.                                          *)
LEMMA Nearer ==
  ASSUME cursor \in Channel, NEW c \in Channel, c # Watched, ScanPosition(c) <= Ahead,
         cursor' = (c + 1) % CHANNEL_COUNT
  PROVE  Ahead' < Ahead /\ Spent + ACK_TIMEOUT <= Spent'
<1>0. cursor' \in Channel
  BY CursorAfter
<1>1. /\ Ahead = IF Watched >= cursor THEN Watched - cursor ELSE Watched - cursor + CHANNEL_COUNT
      /\ Ahead' = IF Watched >= cursor' THEN Watched - cursor' ELSE Watched - cursor' + CHANNEL_COUNT
      /\ ScanPosition(c) = IF c >= cursor THEN c - cursor ELSE c - cursor + CHANNEL_COUNT
      /\ cursor' = IF c + 1 < CHANNEL_COUNT THEN c + 1 ELSE 0
  <2>1. Watched \in Channel
    BY Constants
  <2>2. /\ Ahead = (Watched - cursor) % CHANNEL_COUNT
        /\ Ahead' = (Watched - cursor') % CHANNEL_COUNT
        /\ ScanPosition(c) = (c - cursor) % CHANNEL_COUNT
    BY DEF Ahead, ScanPosition
  <2>3. Ahead = IF Watched >= cursor THEN Watched - cursor ELSE Watched - cursor + CHANNEL_COUNT
    BY <2>1, <2>2, Position
  <2>4. Ahead' = IF Watched >= cursor' THEN Watched - cursor' ELSE Watched - cursor' + CHANNEL_COUNT
    BY <1>0, <2>1, <2>2, Position
  <2>5. ScanPosition(c) = IF c >= cursor THEN c - cursor ELSE c - cursor + CHANNEL_COUNT
    BY <2>2, Position
  <2>6. cursor' = IF c + 1 < CHANNEL_COUNT THEN c + 1 ELSE 0
    BY CursorAfter
  <2>. QED
    BY <2>3, <2>4, <2>5, <2>6
<1>2. Ahead \in 0 .. CHANNEL_COUNT - 1 /\ Ahead' \in 0 .. CHANNEL_COUNT - 1 /\ Ahead' < Ahead
  BY <1>0, <1>1, Constants
<1>. QED
  BY <1>2, SpentGrows DEF Spent

-----------------------------------------------------------------------------
LEMMA RiskType == \A r : risk_to_status(r) \in Risk
BY DEF risk_to_status, Risk, NONE, WARNING, DANGER

LEMMA RetryType == \A n \in 0 .. RETRY_MOD - 1 : (n + 1) % RETRY_MOD \in 0 .. RETRY_MOD - 1
BY RetryAssumption

LEMMA AgedType ==
  ASSUME idle \in [Channel -> 0 .. SCHED_REFRESH], NEW t \in Nat
  PROVE  /\ Aged(t) \in [Channel -> 0 .. SCHED_REFRESH]
         /\ \A c \in Channel : TouchedAfter(c, t) \in [Channel -> 0 .. SCHED_REFRESH]
<1>1. Aged(t) \in [Channel -> 0 .. SCHED_REFRESH]
  BY Constants DEF Aged
<1>2. 0 \in 0 .. SCHED_REFRESH
  BY Constants
<1>. QED
  BY <1>1, <1>2 DEF TouchedAfter

LEMMA WaitsType ==
  ASSUME wait \in Nat, wraps \in Nat, dangerWait \in Nat, NEW t \in Nat, NEW w \in Nat, Waits(t, w)
  PROVE  wait' \in Nat /\ wraps' \in Nat /\ dangerWait' \in Nat
<1>1. /\ wait' = wait + t \/ wait' = 0
      /\ wraps' = wraps + w \/ wraps' = 0
      /\ dangerWait' = dangerWait + t \/ dangerWait' = 0
  BY DEF Waits
<1>. QED
  BY <1>1

LEMMA TypeStep ==
  ASSUME TypeOK, Next
  PROVE  TypeOK'
<1>0. ACK_TIMEOUT \in Nat /\ 0 \in Nat /\ 1 \in Nat
  BY Constants
<1>1. CASE osDelayUntil
  <2>1. CASE lag = 0
    <3>1. idle' \in [Channel -> 0 .. SCHED_REFRESH]
      BY <1>1, <2>1, AgedType DEF osDelayUntil, TypeOK, ChannelTypeOK
    <3>2. wait' \in Nat /\ wraps' \in Nat /\ dangerWait' \in Nat
      BY <1>0, <1>1, <2>1, WaitsType DEF osDelayUntil, TypeOK
    <3>. QED
      BY <1>1, <2>1, <3>1, <3>2 DEF osDelayUntil, TypeOK, ChannelTypeOK
  <2>2. CASE lag # 0
    <3>1. lag' \in Nat
      BY <1>1, <2>2 DEF osDelayUntil, TypeOK
    <3>. QED
      BY <1>1, <2>2, <3>1 DEF osDelayUntil, history, TypeOK, ChannelTypeOK
  <2>. QED
    BY <2>1, <2>2
<1>2. CASE sched_tick
  <2>1. CASE UNCHANGED <<ctrlVars, lag, history>>
    BY <1>2, <2>1 DEF sched_tick, ctrlVars, history, TypeOK, ChannelTypeOK
  <2>2. ASSUME NEW c \in Channel, cursor' = (c + 1) % CHANNEL_COUNT, dispatch_channel(c)
        PROVE  TypeOK'
    <3>1. cursor' \in Channel /\ phase' = "sleep" /\ alive' = alive
      BY <1>2, <2>2, CursorAfter DEF sched_tick
    <3>2. idle' \in [Channel -> 0 .. SCHED_REFRESH]
      <4>1. idle' = TouchedAfter(c, 0) \/ idle' = TouchedAfter(c, ACK_TIMEOUT)
        BY <2>2 DEF dispatch_channel
      <4>2. idle \in [Channel -> 0 .. SCHED_REFRESH]
        BY DEF TypeOK, ChannelTypeOK
      <4>3. /\ TouchedAfter(c, 0) \in [Channel -> 0 .. SCHED_REFRESH]
            /\ TouchedAfter(c, ACK_TIMEOUT) \in [Channel -> 0 .. SCHED_REFRESH]
        BY <1>0, <4>2, AgedType, Zenon
      <4>. QED
        BY <4>1, <4>3, Zenon
    <3>3. lag' \in Nat
      BY <1>0, <2>2 DEF dispatch_channel, TypeOK
    <3>h. wait' \in Nat /\ wraps' \in Nat /\ dangerWait' \in Nat
      <4>1. (IF retry'[c] = 0 THEN 1 ELSE 0) \in Nat
        OBVIOUS
      <4>2. CASE \E t \in Nat, w \in Nat : Waits(t, w)
        BY <4>2, WaitsType DEF TypeOK
      <4>3. CASE wait' = 0 /\ wraps' = 0 /\ dangerWait' = 0
        BY <4>3
      <4>. QED
        BY <1>0, <2>2, <4>1, <4>2, <4>3 DEF dispatch_channel
    <3>4. CASE Confirm(c, desired[c])
      BY <3>1, <3>2, <3>3, <3>h, <3>4, RiskType, RetryAssumption DEF Confirm, TypeOK,
         ChannelTypeOK
    <3>5. CASE Fail(c)
      BY <3>1, <3>2, <3>3, <3>h, <3>5, RetryType DEF Fail, TypeOK, ChannelTypeOK
    <3>. QED
      BY <2>2, <3>4, <3>5 DEF dispatch_channel
  <2>. QED
    BY <1>2, <2>1, <2>2 DEF sched_tick
<1>3. CASE Command
  <2>1. desired' \in [Channel -> Risk] /\ UNCHANGED <<applied, retry, idle, cursor, status>>
    BY <1>3, RiskType DEF Command, CtrlEvent, TypeOK, ChannelTypeOK
  <2>. QED
    BY <1>0, <1>3, <2>1 DEF Command, schedVars, TypeOK, ChannelTypeOK
<1>4. CASE BoardDies
  BY <1>0, <1>4 DEF BoardDies, ctrlVars, TypeOK, ChannelTypeOK
<1>. QED
  BY <1>1, <1>2, <1>3, <1>4 DEF Next

(* While a DANGER transition of the watched channel is due, a channel that *)
(* the scan meets before it is chosen, or it itself.                       *)
LEMMA ChosenIsAhead ==
  ASSUME NEW c \in Channel, Chosen(c), Due(Watched, TRUE)
  PROVE  ScanPosition(c) <= Ahead
BY Constants DEF Chosen, NothingDue, pick_pending, Ahead

LEMMA DangerStep ==
  ASSUME TypeOK, DangerInv, Next
  PROVE  DangerInv'
<1>. DEFINE Bound == (CHANNEL_COUNT - 1) * ACK_TIMEOUT
<1>0. /\ cursor \in Channel /\ dangerWait \in Nat /\ lag \in Nat
      /\ ACK_TIMEOUT \in Nat /\ ACK_TIMEOUT >= 1
      /\ Bound \in Nat /\ Spent \in Nat /\ Spent <= Bound
      /\ dangerWait <= Bound + 1 /\ Slack \in Nat
  <2>1. Bound \in Nat
    BY OneMore, Constants
  <2>2. cursor \in Channel /\ dangerWait \in Nat /\ lag \in Nat /\ dangerWait <= Bound + 1
    BY DEF TypeOK, ChannelTypeOK, DangerInv, DangerServedInTime
  <2>3. Slack \in Nat
    BY DEF Slack
  <2>4. Ahead \in 0 .. CHANNEL_COUNT - 1
    BY <2>2, AheadType DEF Ahead, ScanPosition
  <2>5. Spent \in Nat /\ Spent <= Bound
    BY <2>4, SpentType DEF Spent
  <2>6. ACK_TIMEOUT \in Nat /\ ACK_TIMEOUT >= 1
    BY Constants
  <2>. QED
    BY <2>1, <2>2, <2>3, <2>5, <2>6
<1>due. ASSUME Due(Watched, TRUE) PROVE dangerWait <= Spent + Slack
  BY <1>due DEF DangerInv
<1>after. PICK s \in Nat, f \in Nat : s = Spent' /\ f = Slack' /\ s <= Bound
  <2>1. cursor' \in Channel
    BY TypeStep DEF TypeOK, ChannelTypeOK
  <2>2. Slack' \in Nat
    BY DEF Slack
  <2>3. Spent' \in Nat /\ Spent' <= Bound
    <3>1. Ahead' \in 0 .. CHANNEL_COUNT - 1
      BY <2>1, AheadType DEF Ahead, ScanPosition
    <3>. QED
      BY <3>1, SpentType DEF Spent
  <2>. QED
    BY <2>1, <2>2, <2>3
<1>. HIDE DEF Bound
<1>. SUFFICES dangerWait' <= Bound + 1 /\ (Due(Watched, TRUE)' => dangerWait' <= s + f)
  BY <1>after, Zenon DEF DangerInv, DangerServedInTime, Bound
<1>below. s <= Bound
  BY <1>after
\* A wait that begins, or that nobody waits.
<1>1. CASE dangerWait' = 0
  <2>1. dangerWait' <= Bound + 1 /\ dangerWait' <= s + f
    BY <1>0, <1>below, <1>1
  <2>. QED
    BY <2>1
<1>2. CASE osDelayUntil
  <2>1. CASE lag = 0
    <3>1. Slack = 0 /\ f = 1 /\ s = Spent
      BY <1>2, <1>after, <2>1 DEF osDelayUntil, Slack, Spent, Ahead, ScanPosition
    <3>2. CASE Due(Watched, TRUE)
      <4>1. dangerWait' = dangerWait + 1
        BY <1>2, <2>1, <3>2 DEF osDelayUntil, Waits
      <4>2. dangerWait' <= Bound + 1 /\ dangerWait' <= s + f
        BY <1>0, <1>due, <3>1, <3>2, <4>1
      <4>. QED
        BY <4>2
    <3>3. CASE ~Due(Watched, TRUE)
      BY <1>1, <1>2, <2>1, <3>3 DEF osDelayUntil, Waits
    <3>. QED
      BY <3>2, <3>3
  <2>2. CASE lag # 0
    <3>1. Slack = 1 /\ f = 1 /\ s = Spent
      BY <1>0, <1>2, <1>after, <2>2 DEF osDelayUntil, Slack, Spent, Ahead, ScanPosition
    <3>2. UNCHANGED <<dangerWait, desired, applied, retry, idle>>
      BY <1>2, <2>2 DEF osDelayUntil, history
    <3>3. Due(Watched, TRUE)' <=> Due(Watched, TRUE)
      BY <3>2 DEF Due, BackingOff
    <3>. QED
      BY <1>0, <1>due, <3>1, <3>2, <3>3
  <2>. QED
    BY <2>1, <2>2
<1>3. CASE sched_tick
  <2>0. phase = "run" /\ Slack = 1
    BY <1>3 DEF sched_tick, Slack
  <2>1. CASE NothingDue(TRUE) /\ UNCHANGED <<ctrlVars, lag, history>>
    <3>1. ~Due(Watched, TRUE)
      BY <2>1, Constants DEF NothingDue
    <3>2. ~Due(Watched, TRUE)'
      BY <2>1, <3>1 DEF ctrlVars, Due, BackingOff
    <3>. QED
      BY <1>0, <2>1, <3>2 DEF history
  <2>2. ASSUME NEW c \in Channel, Chosen(c), cursor' = (c + 1) % CHANNEL_COUNT, dispatch_channel(c)
        PROVE  dangerWait' <= Bound + 1 /\ (Due(Watched, TRUE)' => dangerWait' <= s + f)
    <3>1. CASE ~Due(Watched, TRUE)
      BY <1>1, <2>2, <3>1 DEF dispatch_channel, Waits
    <3>2. CASE Due(Watched, TRUE) /\ c = Watched
      <4>1. CASE SlaveOf(c) \in alive
        <5>1. dangerWait' = dangerWait + 0
          BY <2>2, <3>2, <4>1 DEF dispatch_channel, Waits
        <5>2. applied' = [applied EXCEPT ![c] = desired[c]] /\ desired' = desired
          BY <2>2, <4>1 DEF dispatch_channel, Confirm
        <5>3. ~Due(Watched, TRUE)'
          BY <3>2, <5>2, Constants DEF Due, TypeOK, ChannelTypeOK
        <5>4. dangerWait' <= Bound + 1
          BY <1>0, <5>1
        <5>. QED
          BY <5>3, <5>4
      <4>2. CASE SlaveOf(c) \notin alive
        BY <1>1, <2>2, <3>2, <4>2 DEF dispatch_channel
      <4>. QED
        BY <4>1, <4>2
    <3>3. CASE Due(Watched, TRUE) /\ c # Watched
      <4>0. Spent + ACK_TIMEOUT <= s
        BY <1>0, <1>after, <2>2, <3>3, ChosenIsAhead, Nearer
      <4>1. CASE SlaveOf(c) \in alive
        <5>1. dangerWait' = dangerWait + 0
          BY <2>2, <3>3, <4>1 DEF dispatch_channel, Waits
        <5>2. dangerWait' <= Bound + 1 /\ dangerWait' <= s + f
          BY <1>0, <1>below, <1>due, <2>0, <3>3, <4>0, <5>1
        <5>. QED
          BY <5>2
      <4>2. CASE SlaveOf(c) \notin alive
        <5>1. dangerWait' = dangerWait + ACK_TIMEOUT /\ lag' = lag + ACK_TIMEOUT
          BY <2>2, <3>3, <4>2 DEF dispatch_channel, Waits
        <5>2. f = 1
          BY <1>0, <1>after, <5>1 DEF Slack
        <5>3. dangerWait' <= Bound + 1 /\ dangerWait' <= s + f
          BY <1>0, <1>below, <1>due, <2>0, <3>3, <4>0, <5>1, <5>2
        <5>. QED
          BY <5>3
      <4>. QED
        BY <4>1, <4>2
    <3>. QED
      BY <3>1, <3>2, <3>3
  <2>. QED
    BY <1>3, <2>1, <2>2 DEF sched_tick
<1>4. CASE Command
  <2>1. /\ UNCHANGED <<applied, retry, idle, cursor, phase, lag>>
        /\ dangerWait' = IF desired'[Watched] = desired[Watched] THEN dangerWait ELSE 0
    BY <1>4 DEF Command, CtrlEvent, schedVars
  <2>2. s = Spent /\ f = Slack
    BY <1>after, <2>1 DEF Spent, Ahead, ScanPosition, Slack
  <2>3. CASE desired'[Watched] = desired[Watched]
    <3>1. Due(Watched, TRUE)' <=> Due(Watched, TRUE)
      BY <2>1, <2>3 DEF Due, BackingOff
    <3>. QED
      BY <1>0, <1>due, <2>1, <2>2, <2>3, <3>1
  <2>. QED
    BY <1>1, <2>1, <2>3
<1>5. CASE BoardDies
  <2>1. UNCHANGED <<ctrlVars, phase, lag, dangerWait>>
    BY <1>5 DEF BoardDies
  <2>2. s = Spent /\ f = Slack /\ (Due(Watched, TRUE)' <=> Due(Watched, TRUE))
    BY <1>after, <2>1 DEF ctrlVars, Spent, Ahead, ScanPosition, Slack, Due, BackingOff
  <2>. QED
    BY <1>0, <1>due, <2>1, <2>2
<1>. QED
  BY <1>2, <1>3, <1>4, <1>5 DEF Next

-----------------------------------------------------------------------------
LEMMA CostGrows ==
  ASSUME NEW a \in Nat, NEW b \in Nat
  PROVE  /\ Cost(a) \in Nat
         /\ a <= b => Cost(a) <= Cost(b)
         /\ a + 1 <= b => Cost(a) + ACK_TIMEOUT <= Cost(b)
BY OneMore, Constants DEF Cost

(* Sets of channels other than the watched one.                            *)
LEMMA OthersType ==
  ASSUME NEW S \in SUBSET (Channel \ {Watched})
  PROVE  IsFiniteSet(S) /\ Cardinality(S) \in Nat /\ Cardinality(S) <= CHANNEL_COUNT - 1
<1>1. IsFiniteSet(Channel) /\ Cardinality(Channel) = CHANNEL_COUNT
  <2>1. 0 \in Int /\ CHANNEL_COUNT - 1 \in Int
    BY Constants
  <2>2. IsFiniteSet(0 .. CHANNEL_COUNT - 1)
    BY <2>1, FS_Interval
  <2>3. Cardinality(0 .. CHANNEL_COUNT - 1) = IF 0 > CHANNEL_COUNT - 1 THEN 0 ELSE CHANNEL_COUNT - 1 - 0 + 1
    BY <2>1, FS_Interval
  <2>. QED
    BY <2>2, <2>3, Constants
<1>2. IsFiniteSet(Channel \ {Watched}) /\ Cardinality(Channel \ {Watched}) = CHANNEL_COUNT - 1
  BY <1>1, FS_RemoveElement, Constants
<1>3. IsFiniteSet(S) /\ Cardinality(S) <= Cardinality(Channel \ {Watched})
  BY <1>2, FS_Subset
<1>4. Cardinality(S) \in Nat
  BY <1>3, FS_CardinalityType
<1>. QED
  BY <1>2, <1>3, <1>4

LEMMA OthersGrow ==
  ASSUME NEW S \in SUBSET (Channel \ {Watched}), NEW T \in SUBSET (Channel \ {Watched}), S \subseteq T
  PROVE  /\ Cardinality(S) <= Cardinality(T)
         /\ \A c \in T \ S : Cardinality(S) + 1 <= Cardinality(T)
<1>1. IsFiniteSet(S) /\ IsFiniteSet(T) /\ Cardinality(S) \in Nat
  BY OthersType
<1>2. Cardinality(S) <= Cardinality(T)
  BY <1>1, FS_Subset
<1>3. ASSUME NEW c \in T \ S
      PROVE  Cardinality(S) + 1 <= Cardinality(T)
  <2>1. IsFiniteSet(S \cup {c}) /\ Cardinality(S \cup {c}) = Cardinality(S) + 1
    BY <1>1, <1>3, FS_AddElement
  <2>2. Cardinality(S \cup {c}) <= Cardinality(T)
    BY <1>1, <1>3, FS_Subset
  <2>. QED
    BY <2>1, <2>2
<1>. QED
  BY <1>2, <1>3

(* A channel that was tried is not due while the wait is shorter than the  *)
(* back-off.                                                               *)
LEMMA TriedIsNotDue ==
  ASSUME TypeOK, wait < SCHED_BACKOFF, NEW c \in Tried
  PROVE  ~Due(c, FALSE) /\ ~Due(c, TRUE)
<1>1. idle[c] < SCHED_BACKOFF /\ idle[c] < SCHED_REFRESH
  BY PeriodAssumption DEF Tried, TypeOK, ChannelTypeOK
<1>2. desired[c] # applied[c] => BackingOff(c)
  BY <1>1 DEF Tried, BackingOff
<1>3. ~(idle[c] >= SCHED_REFRESH)
  <2>1. idle[c] \in Nat /\ SCHED_REFRESH \in Nat
    BY Constants DEF Tried, TypeOK, ChannelTypeOK
  <2>. QED
    BY <1>1, <2>1
<1>. QED
  BY <1>2, <1>3 DEF Due

(* Time passes for those that were tried as for the one that waits.        *)
LEMMA AgedLess ==
  ASSUME TypeOK, NEW t \in Nat, NEW c \in Channel, idle[c] <= wait
  PROVE  Aged(t)[c] <= wait + t
<1>1. idle[c] \in Nat /\ wait \in Nat /\ SCHED_REFRESH \in Nat
  BY Constants DEF TypeOK, ChannelTypeOK
<1>2. Aged(t)[c] = IF idle[c] + t < SCHED_REFRESH THEN idle[c] + t ELSE SCHED_REFRESH
  BY DEF Aged
<1>. QED
  BY <1>1, <1>2

(* What a dispatch of another channel does to the set of the tried ones.   *)
LEMMA TriedAfterDispatch ==
  ASSUME TypeOK, NEW c \in Channel \ Tried, c # Watched, Due(Watched, FALSE), dispatch_channel(c)
  PROVE  /\ wait' = wait + (IF SlaveOf(c) \in alive THEN 0 ELSE ACK_TIMEOUT)
         /\ \/ wraps' = wraps /\ Tried \cup {c} \subseteq Tried'
            \/ wraps' = wraps + 1 /\ SlaveOf(c) \notin alive /\ Tried \subseteq Tried'
<1>0. ACK_TIMEOUT \in Nat /\ 0 \in Nat /\ wait \in Nat /\ wraps \in Nat /\ wraps + 0 = wraps
  BY Constants DEF TypeOK
<1>1. CASE SlaveOf(c) \in alive
  <2>1. wait' = wait + 0 /\ wraps' = wraps + 0 /\ idle' = TouchedAfter(c, 0) /\ Confirm(c, desired[c])
    BY <1>1 DEF dispatch_channel, Waits
  <2>2. ASSUME NEW d \in Tried, d # c
        PROVE  d \in Tried'
    <3>1. d \in Channel \ {Watched} /\ idle[d] <= wait /\ (desired[d] # applied[d] => retry[d] # 0)
      BY <2>2 DEF Tried
    <3>2. Aged(0)[d] <= wait + 0
      BY <1>0, <3>1, AgedLess
    <3>3. idle'[d] = Aged(0)[d] /\ desired'[d] = desired[d] /\ applied'[d] = applied[d] /\ retry'[d] = retry[d]
      BY <2>1, <2>2, <3>1 DEF TouchedAfter, Aged, Confirm, TypeOK, ChannelTypeOK
    <3>4. idle'[d] <= wait'
      BY <2>1, <3>2, <3>3
    <3>. QED
      BY <3>1, <3>3, <3>4 DEF Tried
  <2>3. c \in Tried'
    <3>1. idle'[c] = 0 /\ desired'[c] = applied'[c]
      BY <2>1 DEF TouchedAfter, Aged, Confirm, TypeOK, ChannelTypeOK
    <3>2. 0 <= wait'
      BY <1>0, <2>1
    <3>. QED
      BY <3>1, <3>2 DEF Tried
  <2>. QED
    BY <1>0, <1>1, <2>1, <2>2, <2>3
<1>2. CASE SlaveOf(c) \notin alive
  <2>1. /\ wait' = wait + ACK_TIMEOUT
        /\ wraps' = wraps + (IF retry'[c] = 0 THEN 1 ELSE 0)
        /\ idle' = TouchedAfter(c, ACK_TIMEOUT)
        /\ Fail(c)
    BY <1>2 DEF dispatch_channel, Waits
  <2>2. ASSUME NEW d \in Tried, d # c
        PROVE  d \in Tried'
    <3>1. d \in Channel \ {Watched} /\ idle[d] <= wait /\ (desired[d] # applied[d] => retry[d] # 0)
      BY <2>2 DEF Tried
    <3>2. Aged(ACK_TIMEOUT)[d] <= wait + ACK_TIMEOUT
      BY <1>0, <3>1, AgedLess
    <3>3. idle'[d] = Aged(ACK_TIMEOUT)[d] /\ desired'[d] = desired[d] /\ applied'[d] = applied[d] /\ retry'[d] = retry[d]
      BY <2>1, <2>2, <3>1 DEF TouchedAfter, Aged, Fail, TypeOK, ChannelTypeOK
    <3>4. idle'[d] <= wait'
      BY <2>1, <3>2, <3>3
    <3>. QED
      BY <3>1, <3>3, <3>4 DEF Tried
  <2>3. idle'[c] = 0 /\ 0 <= wait'
    BY <1>0, <2>1 DEF TouchedAfter, Aged
  <2>4. CASE retry'[c] # 0
    <3>1. c \in Tried'
      BY <2>3, <2>4 DEF Tried
    <3>. QED
      BY <1>0, <1>2, <2>1, <2>2, <2>4, <3>1
  <2>5. CASE retry'[c] = 0
    <3>1. wraps' = wraps + 1
      BY <2>1, <2>5
    <3>. QED
      BY <1>2, <2>1, <2>2, <3>1
  <2>. QED
    BY <2>4, <2>5
<1>. QED
  BY <1>1, <1>2

LEMMA WaitStep ==
  ASSUME TypeOK, WaitInv, Next
  PROVE  WaitInv'
<1>0. /\ wait \in Nat /\ wraps \in Nat /\ lag \in Nat /\ Slack \in Nat
      /\ wait' \in Nat /\ wraps' \in Nat
      /\ ACK_TIMEOUT \in Nat /\ ACK_TIMEOUT >= 1
      /\ SCHED_BACKOFF \in Nat
  BY TypeStep, Constants, PeriodAssumption DEF TypeOK, Slack
<1>most. PICK most \in Nat : most = CHANNEL_COUNT - 1
  BY Constants
<1>set. Tried \in SUBSET (Channel \ {Watched}) /\ Tried' \in SUBSET (Channel \ {Watched})
  BY DEF Tried
<1>now. PICK n \in Nat : n = Cardinality(Tried) /\ n <= most
  BY <1>set, <1>most, OthersType
<1>after. PICK m \in Nat, v \in Nat, f \in Nat :
            m = Cardinality(Tried') /\ m <= most /\ v = wraps' /\ f = Slack'
  <2>1. Slack' \in Nat
    BY DEF Slack
  <2>. QED
    BY <1>0, <1>set, <1>most, <2>1, OthersType
<1>goal. SUFFICES ASSUME Cost(most + v) + 1 < SCHED_BACKOFF
                  PROVE  /\ wait' <= Cost(most + v) + 1
                         /\ Due(Watched, FALSE)' => wait' <= Cost(m + v) + f
  <2>1. MostTries' = most + v
    BY <1>most, <1>after, Zenon DEF MostTries
  <2>2. Cardinality(Tried)' = m
    BY <1>after
  <2>. QED
    BY <1>after, <2>1, <2>2, Zenon DEF WaitInv, Affordable
<1>nat. Cost(most + v) \in Nat /\ Cost(m + v) \in Nat /\ Cost(n + wraps) \in Nat
  BY <1>0, CostGrows
\* A wait that begins, or that nobody waits.
<1>1. CASE wait' = 0
  <2>1. wait' <= Cost(most + v) + 1 /\ wait' <= Cost(m + v) + f
    BY <1>nat, <1>1
  <2>. QED
    BY <2>1
\* A wait that goes on.
<1>on. ASSUME wraps <= v
       PROVE  /\ wait <= Cost(most + wraps) + 1
              /\ wait <= Cost(most + v) + 1
              /\ wait < SCHED_BACKOFF
              /\ Due(Watched, FALSE) => wait <= Cost(n + wraps) + Slack
  <2>1. Cost(most + wraps) \in Nat /\ Cost(most + wraps) <= Cost(most + v)
    <3>1. most + wraps \in Nat /\ most + v \in Nat /\ most + wraps <= most + v
      BY <1>0, <1>on
    <3>. QED
      BY <3>1, CostGrows
  <2>2. Cost(most + wraps) + 1 < SCHED_BACKOFF
    BY <1>0, <1>goal, <1>nat, <2>1
  <2>3. /\ wait <= Cost(most + wraps) + 1
        /\ Due(Watched, FALSE) => wait <= Cost(n + wraps) + Slack
    BY <1>most, <1>now, <2>2, Zenon DEF WaitInv, Affordable, MostTries
  <2>4. wait <= Cost(most + wraps) + 1
    BY <2>3
  <2>5. wait <= Cost(most + v) + 1 /\ wait < SCHED_BACKOFF
    BY <1>0, <1>nat, <2>1, <2>2, <2>4
  <2>. QED
    BY <2>3, <2>5
<1>2. CASE osDelayUntil
  <2>0. UNCHANGED <<desired, applied, retry>>
    BY <1>2 DEF osDelayUntil
  <2>1. CASE lag = 0
    <3>1. Slack = 0 /\ f = 1
      BY <1>2, <1>after, <2>1 DEF osDelayUntil, Slack
    <3>2. CASE ~Due(Watched, FALSE)
      BY <1>1, <1>2, <2>1, <3>2 DEF osDelayUntil, Waits
    <3>3. CASE Due(Watched, FALSE)
      <4>1. wait' = wait + 1 /\ wraps' = wraps + 0 /\ idle' = Aged(1)
        BY <1>2, <2>1, <3>3 DEF osDelayUntil, Waits
      <4>2. Tried \subseteq Tried'
        <5>1. ASSUME NEW d \in Tried
              PROVE  d \in Tried'
          <6>1. d \in Channel \ {Watched} /\ idle[d] <= wait /\ (desired[d] # applied[d] => retry[d] # 0)
            BY DEF Tried
          <6>2. idle'[d] <= wait'
            BY <4>1, <6>1, AgedLess
          <6>. QED
            BY <2>0, <6>1, <6>2 DEF Tried
        <5>. QED
          BY <5>1
      <4>3. n <= m
        BY <1>set, <1>now, <1>after, <4>2, OthersGrow
      <4>4. v = wraps
        BY <1>0, <1>after, <4>1
      <4>5. wait <= Cost(n + wraps)
        <5>1. wraps <= v
          BY <1>0, <4>4
        <5>2. wait <= Cost(n + wraps) + Slack
          BY <1>on, <3>3, <5>1
        <5>. QED
          BY <1>0, <1>nat, <3>1, <5>2
      <4>6. Cost(n + wraps) <= Cost(m + v) /\ Cost(m + v) <= Cost(most + v)
        <5>1. /\ n + wraps \in Nat /\ m + v \in Nat /\ most + v \in Nat
              /\ n + wraps <= m + v /\ m + v <= most + v
          BY <1>0, <1>after, <4>3, <4>4
        <5>. QED
          BY <5>1, CostGrows
      <4>7. wait' <= Cost(most + v) + 1 /\ wait' <= Cost(m + v) + f
        BY <1>0, <1>nat, <3>1, <4>1, <4>5, <4>6
      <4>. QED
        BY <4>7
    <3>. QED
      BY <3>2, <3>3
  <2>2. CASE lag # 0
    <3>1. Slack = 1 /\ f = 1
      BY <1>0, <1>2, <1>after, <2>2 DEF osDelayUntil, Slack
    <3>2. UNCHANGED <<idle, wait, wraps>>
      BY <1>2, <2>2 DEF osDelayUntil, history
    <3>3. (Due(Watched, FALSE)' <=> Due(Watched, FALSE)) /\ Tried' = Tried
      BY <2>0, <3>2 DEF Due, BackingOff, Tried
    <3>4. m = n /\ v = wraps /\ wraps <= v
      BY <1>0, <1>now, <1>after, <3>2, <3>3
    <3>5. wait' <= Cost(most + v) + 1
      BY <1>on, <3>2, <3>4
    <3>6. Due(Watched, FALSE) => wait' <= Cost(m + v) + f
      BY <1>on, <3>1, <3>2, <3>4
    <3>. QED
      BY <3>3, <3>5, <3>6
  <2>. QED
    BY <2>1, <2>2
<1>3. CASE sched_tick
  <2>0. phase = "run" /\ Slack = 1
    BY <1>3 DEF sched_tick, Slack
  <2>1. CASE NothingDue(FALSE) /\ UNCHANGED <<ctrlVars, lag, history>>
    <3>1. ~Due(Watched, FALSE)'
      BY <2>1, Constants DEF NothingDue, ctrlVars, Due, BackingOff
    <3>2. wait' = wait /\ v = wraps /\ wraps <= v
      BY <1>0, <1>after, <2>1 DEF history
    <3>. QED
      BY <1>on, <3>1, <3>2
  <2>2. ASSUME NEW c \in Channel, Chosen(c), dispatch_channel(c)
        PROVE  /\ wait' <= Cost(most + v) + 1
               /\ Due(Watched, FALSE)' => wait' <= Cost(m + v) + f
    <3>1. CASE ~Due(Watched, FALSE)
      BY <1>1, <2>2, <3>1 DEF dispatch_channel, Waits
    <3>2. CASE Due(Watched, FALSE) /\ c = Watched
      <4>1. CASE SlaveOf(c) \in alive
        <5>1. wait' = wait + 0 /\ wraps' = wraps + 0 /\ idle' = TouchedAfter(c, 0) /\ Confirm(c, desired[c])
          BY <2>2, <3>2, <4>1 DEF dispatch_channel, Waits
        <5>2. idle'[Watched] = 0 /\ desired'[Watched] = applied'[Watched]
          BY <3>2, <5>1, Constants DEF TouchedAfter, Aged, Confirm, TypeOK, ChannelTypeOK
        <5>3. ~(0 >= SCHED_REFRESH)
          BY PeriodAssumption
        <5>4. ~Due(Watched, FALSE)'
          BY <5>2, <5>3 DEF Due
        <5>5. wait' = wait /\ v = wraps /\ wraps <= v
          BY <1>0, <1>after, <5>1
        <5>. QED
          BY <1>on, <5>4, <5>5
      <4>2. CASE SlaveOf(c) \notin alive
        BY <1>1, <2>2, <3>2, <4>2 DEF dispatch_channel
      <4>. QED
        BY <4>1, <4>2
    <3>3. CASE Due(Watched, FALSE) /\ c # Watched
      <4>0. wraps <= v
        <5>1. wraps' = wraps + 0 \/ wraps' = wraps + (IF retry'[c] = 0 THEN 1 ELSE 0)
          BY <2>2, <3>3 DEF dispatch_channel, Waits
        <5>. QED
          BY <1>0, <1>after, <5>1
      <4>1. wait < SCHED_BACKOFF /\ wait <= Cost(n + wraps) + 1
        BY <1>on, <2>0, <3>3, <4>0
      <4>2. c \notin Tried
        <5>1. Due(c, TRUE) \/ Due(c, FALSE)
          BY <2>2 DEF Chosen, pick_pending
        <5>. QED
          BY <4>1, <5>1, TriedIsNotDue
      <4>3. /\ wait' = wait + (IF SlaveOf(c) \in alive THEN 0 ELSE ACK_TIMEOUT)
            /\ \/ wraps' = wraps /\ Tried \cup {c} \subseteq Tried'
               \/ wraps' = wraps + 1 /\ SlaveOf(c) \notin alive /\ Tried \subseteq Tried'
        BY <2>2, <3>3, <4>2, TriedAfterDispatch
      <4>4. n + wraps + 1 <= m + v
        <5>1. CASE wraps' = wraps /\ Tried \cup {c} \subseteq Tried'
          <6>0. Tried \subseteq Tried' /\ c \in Tried' \ Tried
            BY <4>2, <5>1
          <6>1. n + 1 <= m
            BY <1>set, <1>now, <1>after, <6>0, OthersGrow
          <6>. QED
            BY <1>0, <1>after, <5>1, <6>1
        <5>2. CASE wraps' = wraps + 1 /\ Tried \subseteq Tried'
          <6>1. n <= m
            BY <1>set, <1>now, <1>after, <5>2, OthersGrow
          <6>. QED
            BY <1>0, <1>after, <5>2, <6>1
        <5>. QED
          BY <4>3, <5>1, <5>2, Zenon
      <4>5. Cost(n + wraps) + ACK_TIMEOUT <= Cost(m + v) /\ Cost(m + v) <= Cost(most + v)
        <5>1. /\ n + wraps \in Nat /\ m + v \in Nat /\ most + v \in Nat
              /\ (n + wraps) + 1 <= m + v /\ m + v <= most + v
          <6>1. m <= most
            BY <1>after
          <6>. QED
            BY <1>0, <4>4, <6>1
        <5>. QED
          BY <5>1, CostGrows
      <4>6. CASE SlaveOf(c) \in alive
        <5>1. wait' = wait + 0
          BY <4>3, <4>6
        <5>2. wait' <= Cost(most + v) + 1 /\ wait' <= Cost(m + v) + f
          BY <1>0, <1>nat, <4>1, <4>5, <5>1
        <5>. QED
          BY <5>2
      <4>7. CASE SlaveOf(c) \notin alive
        <5>1. wait' = wait + ACK_TIMEOUT /\ lag' = lag + ACK_TIMEOUT
          BY <2>2, <4>3, <4>7 DEF dispatch_channel
        <5>2. f = 1
          BY <1>0, <1>after, <5>1 DEF Slack
        <5>3. wait' <= Cost(most + v) + 1 /\ wait' <= Cost(m + v) + f
          BY <1>0, <1>nat, <4>1, <4>5, <5>1, <5>2
        <5>. QED
          BY <5>3
      <4>. QED
        BY <4>6, <4>7
    <3>. QED
      BY <3>1, <3>2, <3>3
  <2>. QED
    BY <1>3, <2>1, <2>2 DEF sched_tick
<1>4. CASE Command
  BY <1>1, <1>4 DEF Command
<1>5. CASE BoardDies
  BY <1>1, <1>5 DEF BoardDies
<1>. QED
  BY <1>2, <1>3, <1>4, <1>5 DEF Next

LEMMA InitHolds == Init => IInv
<1>. SUFFICES ASSUME Init PROVE IInv
  OBVIOUS
<1>1. TypeOK
  BY Constants, RetryAssumption DEF Init, ChannelInit, TypeOK, ChannelTypeOK, Risk, NONE,
     UNKNOWN, DARK
<1>2. cursor \in Channel /\ dangerWait = 0 /\ Slack = 0
  BY <1>1 DEF Init, Slack, TypeOK, ChannelTypeOK
<1>3. Spent \in Nat /\ (CHANNEL_COUNT - 1) * ACK_TIMEOUT \in Nat
  <2>1. Ahead \in 0 .. CHANNEL_COUNT - 1
    BY <1>2, AheadType DEF Ahead, ScanPosition
  <2>. QED
    BY <2>1, SpentType, OneMore, Constants DEF Spent
<1>4. DangerServedInTime /\ dangerWait <= Spent + Slack
  BY <1>2, <1>3 DEF DangerServedInTime
<1>5. WaitInv
  <2>1. wait = 0 /\ wraps \in Nat
    BY DEF Init
  <2>2. /\ CHANNEL_COUNT - 1 + wraps \in Nat
        /\ Cardinality(Tried) + wraps \in Nat
    <3>1. Cardinality(Tried) \in Nat
      BY OthersType DEF Tried
    <3>. QED
      BY <2>1, <3>1, Constants
  <2>3. Cost(MostTries) \in Nat /\ Cost(Cardinality(Tried) + wraps) \in Nat
    BY <2>2, CostGrows DEF MostTries
  <2>4. 0 <= Cost(MostTries) + 1 /\ 0 <= Cost(Cardinality(Tried) + wraps) + 0
    BY <2>3
  <2>. QED
    BY <1>2, <2>1, <2>4 DEF WaitInv
<1>. QED
  BY <1>1, <1>4, <1>5 DEF IInv, DangerInv

(* The inductive invariant.                                                *)
THEOREM Invariance == Spec => []IInv
<1>1. IInv /\ Next => IInv'
  BY TypeStep, DangerStep, WaitStep DEF IInv
<1>2. IInv /\ UNCHANGED vars => IInv'
  BY DEF vars, ctrlVars, schedVars, history, IInv, TypeOK, ChannelTypeOK, DangerInv,
     DangerServedInTime,
         Due, BackingOff, Spent, Ahead, ScanPosition, Slack,
         WaitInv, Affordable, MostTries, Tried
<1>. QED
  BY <1>1, <1>2, InitHolds, PTL DEF Spec

(* The types of the scheduler.                                             *)
THEOREM TypeCorrect == Spec => []TypeOK
<1>1. IInv => TypeOK
  BY DEF IInv
<1>. QED
  BY <1>1, Invariance, PTL

(* A DANGER transition that is due is on the line in time.                 *)
THEOREM DangerSafe == Spec => []DangerServedInTime
<1>1. IInv => DangerServedInTime
  BY DEF IInv, DangerInv
<1>. QED
  BY <1>1, Invariance, PTL

(* Boards that do not answer cannot keep a due channel waiting.            *)
THEOREM StarvationSafe == Spec => []DeadBoardsDoNotStarve
<1>1. IInv => DeadBoardsDoNotStarve
  BY DEF IInv, WaitInv, Affordable, MostTries, Cost, DeadBoardsDoNotStarve
<1>. QED
  BY <1>1, Invariance, PTL

(* As long as no retry counter wraps, which takes RETRY_MOD failures in a  *)
(* row, one try of every other channel is all that a due channel waits     *)
(* for: the tries of one round fit in the back-off.                        *)
THEOREM OneRoundIsEnough == Spec => [](wraps = 0 => wait <= (CHANNEL_COUNT - 1) * ACK_TIMEOUT + 1)
<1>1. IInv => (wraps = 0 => wait <= (CHANNEL_COUNT - 1) * ACK_TIMEOUT + 1)
  <2>. SUFFICES ASSUME IInv, wraps = 0
                PROVE  wait <= (CHANNEL_COUNT - 1) * ACK_TIMEOUT + 1
    OBVIOUS
  <2>1. PICK most \in Nat : most = CHANNEL_COUNT - 1
    BY Constants
  <2>2. CHANNEL_COUNT \in Nat /\ most + 1 <= CHANNEL_COUNT /\ MostTries = most
    BY <2>1, Constants DEF MostTries
  <2>3. Cost(most) + ACK_TIMEOUT <= Cost(CHANNEL_COUNT) /\ Cost(most) \in Nat /\ Cost(CHANNEL_COUNT) \in Nat
    BY <2>2, CostGrows
  <2>4. Cost(CHANNEL_COUNT) < SCHED_BACKOFF
    BY BackoffAssumption DEF Cost
  <2>5. Affordable
    BY <2>2, <2>3, <2>4, Constants, PeriodAssumption DEF Affordable
  <2>. QED
    BY <2>1, <2>2, <2>5 DEF IInv, WaitInv, Cost
<1>. QED
  BY <1>1, Invariance, PTL

=============================================================================
