----------------------------- MODULE RtspShared -----------------------------
(***************************************************************************)
(* What the threads of the RTSP source share: the settings (AppConfig),    *)
(* the ring between the worker and the main thread, and the pointer        *)
(* through which stop() reaches the session of the worker.  RtspSource has *)
(* the threads.                                                            *)
(***************************************************************************)
EXTENDS Integers

CONSTANTS
  ringCapacity,
  backoffInitialSec,
  backoffMaxSec,
  PACKETS           \* bound on the number of packets

ASSUME RingAssumption == ringCapacity \in Nat \ {0}
ASSUME BackoffAssumption ==
  /\ backoffInitialSec \in Nat \ {0}
  /\ backoffMaxSec \in Nat /\ backoffMaxSec >= backoffInitialSec
ASSUME PacketsAssumption == PACKETS \in Nat

VARIABLES
  slots,         \* ring_
  head,
  count,
  produced,      \* history: packets put into the ring
  clientAlive,   \* the session's RtspClientV2 exists
  activeClient   \* activeClient_ points to it

ring == <<slots, head, count, produced>>

-----------------------------------------------------------------------------
(* Drop-oldest: the ring holds the newest packets, in their order, whatever*)
(* head_ and count_ went through.                                          *)
RingIsNewest ==
  \A i \in 0 .. count - 1 :
    slots[(head + i) % ringCapacity] = produced - count + 1 + i

(* stop() never cancels a client that has been destroyed: activeClient_ is *)
(* cleared before the client goes out of scope, on every way out of a      *)
(* session.                                                                *)
ActiveIsAlive == activeClient => clientAlive

=============================================================================
