----------------------------- MODULE FrameSync -----------------------------
(***************************************************************************)
(* Frames on the UART between the Raspberry Pi and the master: START, a    *)
(* payload of fixed length, its XOR checksum, END, with no escaping, so    *)
(* that payload bytes can look like START or END.  Both receivers are the  *)
(* same automaton (downlink_feed_byte on the STM32, readerLoop on the Pi); *)
(* the STM32 also drops a partial frame when the line falls silent, the Pi *)
(* does not.                                                               *)
(***************************************************************************)
EXTENDS Integers, Sequences, SequencesExt

CONSTANTS
  Byte,            \* the byte values: 0 .. 2^k - 1
  VEDA_START_BYTE,
  VEDA_END_BYTE,
  PAYLOAD_LEN,
  RESYNC           \* a silent line resets the receiver (rx_task: TRUE, readerLoop: FALSE)

FramingAssumption ==
  /\ Byte \subseteq 0 .. 255
  /\ VEDA_START_BYTE \in Byte /\ VEDA_END_BYTE \in Byte /\ VEDA_START_BYTE # VEDA_END_BYTE
  /\ PAYLOAD_LEN \in Nat \ {0} /\ RESYNC \in BOOLEAN

Payload == [1 .. PAYLOAD_LEN -> Byte]

VARIABLES
  state,     \* downlink_state
  buffer,    \* downlink_payload up to downlink_payload_index
  checksum,  \* downlink_rx_checksum
  got,       \* the payloads accepted from the bytes of the current frame
  wire,      \* bytes of the frame being sent that are still under way
  payload,   \* history: what that frame carries
  quiet,     \* history: the line has been silent long enough
  fresh,     \* history: it had been when that frame began
  damaged,   \* history: bytes of that frame that arrived changed
  lost       \* history: a byte of that frame did not arrive

receiverVars == <<state, buffer, checksum, got>>
vars == <<receiverVars, wire, payload, quiet, fresh, damaged, lost>>

(* Type correctness; the payload buffer is never overrun.                  *)
TypeOK ==
  /\ state \in {"DL_WAIT_START", "DL_READ_PAYLOAD", "DL_READ_CHECKSUM", "DL_WAIT_END"}
  /\ buffer \in Seq(Byte) /\ Len(buffer) <= PAYLOAD_LEN
  /\ state \in {"DL_READ_CHECKSUM", "DL_WAIT_END"} => Len(buffer) = PAYLOAD_LEN
  /\ checksum \in Byte
  /\ got \in SUBSET Payload
  /\ wire \in Seq(Byte)
  /\ payload \in Payload
  /\ quiet \in BOOLEAN /\ fresh \in BOOLEAN /\ damaged \in 0 .. 2 /\ lost \in BOOLEAN

Init ==
  /\ state = "DL_WAIT_START" /\ buffer = <<>> /\ checksum = 0 /\ got = {}
  /\ wire = <<>> /\ payload \in Payload
  /\ quiet = TRUE /\ fresh = TRUE /\ damaged = 0 /\ lost = FALSE

(* x ^ y for two bytes, bit by bit                                         *)
Xor(x, y) ==
  LET bit(w) == w * (((x \div w) + (y \div w)) % 2)
  IN  bit(1) + bit(2) + bit(4) + bit(8) + bit(16) + bit(32) + bit(64) + bit(128)

veda_checksum(p) ==
  LET sum[i \in 0 .. Len(p)] == IF i = 0 THEN 0 ELSE Xor(sum[i - 1], p[i])
  IN  sum[Len(p)]

(* uplink_send and sendRiskEventLocked: the frame of a payload.            *)
FrameOf(p) == <<VEDA_START_BYTE>> \o p \o <<veda_checksum(p), VEDA_END_BYTE>>

Send(p) ==
  /\ wire = <<>>
  /\ wire' = FrameOf(p) /\ payload' = p
  /\ got' = {}
  /\ fresh' = quiet
  /\ damaged' = 0 /\ lost' = FALSE
  /\ UNCHANGED <<state, buffer, checksum, quiet>>

(* downlink_feed_byte, and the switch in readerLoop.                       *)
ReadPayload(b) ==
  /\ state = "DL_READ_PAYLOAD"
  /\ buffer' = Append(buffer, b)
  /\ state' = IF Len(buffer') = PAYLOAD_LEN THEN "DL_READ_CHECKSUM" ELSE state
  /\ UNCHANGED <<checksum, got>>

WaitEnd(b) ==
  /\ state = "DL_WAIT_END" /\ state' = "DL_WAIT_START"
  /\ got' = IF b = VEDA_END_BYTE /\ veda_checksum(buffer) = checksum
            THEN got \cup {buffer} ELSE got
  /\ UNCHANGED <<buffer, checksum>>

feed_byte(b) ==
  \/ /\ state = "DL_WAIT_START"
     /\ IF b = VEDA_START_BYTE
        THEN state' = "DL_READ_PAYLOAD" /\ buffer' = <<>>
        ELSE UNCHANGED <<state, buffer>>
     /\ UNCHANGED <<checksum, got>>
  \/ ReadPayload(b)
  \/ /\ state = "DL_READ_CHECKSUM" /\ state' = "DL_WAIT_END"
     /\ checksum' = b
     /\ UNCHANGED <<buffer, got>>
  \/ WaitEnd(b)

(* The next byte arrives, changed or not, or is lost on the way.           *)
Arrive ==
  /\ wire # <<>> /\ wire' = Tail(wire)
  /\ \E b \in Byte :
       /\ feed_byte(b)
       /\ damaged' = IF b = Head(wire) THEN damaged ELSE (IF damaged < 2 THEN damaged + 1 ELSE 2)
  /\ quiet' = FALSE
  /\ UNCHANGED <<payload, fresh, lost>>

Lose ==
  /\ wire # <<>> /\ wire' = Tail(wire)
  /\ lost' = TRUE /\ quiet' = FALSE
  /\ UNCHANGED <<receiverVars, payload, fresh, damaged>>

(* Mutant: the timeout forgets the state.                                  *)
SilenceKeeps ==
  /\ wire = <<>> /\ quiet' = TRUE
  /\ UNCHANGED <<receiverVars, wire, payload, fresh, damaged, lost>>

(* DOWNLINK_RESYNC_MSEC without a byte: veda_downlink_resync.              *)
Silence ==
  /\ wire = <<>> /\ quiet' = TRUE
  /\ state' = IF RESYNC THEN "DL_WAIT_START" ELSE state
  /\ UNCHANGED <<buffer, checksum, got, wire, payload, fresh, damaged, lost>>

Next == (\E p \in Payload : Send(p)) \/ Arrive \/ Lose \/ Silence

Spec == Init /\ [][Next]_vars

-----------------------------------------------------------------------------
(* veda_config.h: the remains of a frame that was cut off do not spoil     *)
(* the next one.  After a silent line, whatever the receiver went through  *)
(* before, an intact frame is accepted, whatever its payload looks like,   *)
(* and one changed byte does not turn it into another command.             *)
SilenceHeals ==
  wire = <<>> /\ fresh /\ ~lost /\ ~quiet =>
    /\ damaged = 0 => got = {payload}
    /\ damaged = 1 => got \subseteq {payload}

=============================================================================
