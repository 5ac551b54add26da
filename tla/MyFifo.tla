------------------------------- MODULE MyFifo -------------------------------
(***************************************************************************)
(* my_fifo_t of ble2uart/source/utils.c: Num slots addressed through two   *)
(* free-running u8 counters.  The counters are never reduced modulo Num;   *)
(* they wrap at 256, their difference modulo 256 is the occupancy, and     *)
(* their low bits select the slot.  That is only a queue when Num is a     *)
(* power of two smaller than 256 (ad_fifo has Num = 4).                    *)
(*                                                                         *)
(* A producer calls my_fifo_wptr, fills the slot it returns and calls      *)
(* my_fifo_next; a consumer calls my_fifo_get, copies the slot out and     *)
(* calls my_fifo_pop.  Both run in main_loop, one after the other, so each *)
(* of the two sequences is one step.                                       *)
(***************************************************************************)
EXTENDS Integers, Sequences

CONSTANTS
  Frame,     (* contents a slot can hold                        *)
  NoFrame,   (* the zeroes of a slot that was never written     *)
  Num        (* number of slots: third argument of MYFIFO_INIT  *)

ASSUME NumAssumption == Num \in {1, 2, 4, 8, 16, 32, 64, 128}
ASSUME FrameAssumption == NoFrame \notin Frame

VARIABLES
  wptr,      (* u8: frames written, modulo 256            *)
  rptr,      (* u8: frames popped, modulo 256             *)
  slot,      (* the slot array                            *)
  taken      (* the frame the consumer copied out last    *)

vars == <<wptr, rptr, slot, taken>>

U8 == 256
Slots == 0 .. (Num - 1)

(* f->wptr & (f->num-1), f->num being a power of two. *)
SlotOf(ptr) == ptr % Num

(* A u8 counter plus one. *)
Next_u8(ptr) == (ptr + 1) % U8

Occupancy == (wptr - rptr) % U8

MYFIFO_INIT ==
  /\ wptr = 0
  /\ rptr = 0
  /\ slot = [s \in Slots |-> NoFrame]
  /\ taken = NoFrame

(***************************************************************************)
(* my_fifo_wptr returns a slot only while fewer than Num are in use; when  *)
(* it returns 0 every caller drops its frame and leaves the FIFO alone.    *)
(***************************************************************************)
HasRoom_SignedDifference == wptr - rptr < Num
HasRoom == Occupancy < Num

my_fifo_next(f) ==
  /\ HasRoom
  /\ slot' = [slot EXCEPT ![SlotOf(wptr)] = f]
  /\ wptr' = Next_u8(wptr)
  /\ UNCHANGED <<rptr, taken>>

(* The pointer my_fifo_get returns: the frame the counter rptr stands at.  *)
my_fifo_get == slot[SlotOf(rptr)]

(* A consumer copies that frame out and pops it.                           *)
my_fifo_pop ==
  /\ rptr # wptr
  /\ taken' = my_fifo_get
  /\ rptr' = Next_u8(rptr)
  /\ UNCHANGED <<wptr, slot>>

Next == my_fifo_pop \/ \E f \in Frame : my_fifo_next(f)

Spec == MYFIFO_INIT /\ [][Next]_vars

-----------------------------------------------------------------------------
(* The counters are bytes and the array keeps its slots. *)
TypeOK ==
  /\ wptr \in 0 .. (U8 - 1)
  /\ rptr \in 0 .. (U8 - 1)
  /\ slot \in [Slots -> Frame \cup {NoFrame}]
  /\ taken \in Frame \cup {NoFrame}

(* The i-th frame still queued, oldest first. *)
Queued(i) == slot[SlotOf(rptr + i - 1)]

(***************************************************************************)
(* However often the counters have wrapped, at most Num frames are queued, *)
(* so my_fifo_wptr never hands out the slot of a frame that still waits,   *)
(* and every queued slot holds a frame somebody wrote (utils.c:165-172).   *)
(***************************************************************************)
QueuedSlotsIntact ==
  /\ Occupancy <= Num
  /\ \A i \in 1 .. Occupancy : Queued(i) \in Frame

(* The refinement mapping onto the abstract queue. *)
QueueOf == [i \in 1 .. Occupancy |-> Queued(i)]

Abstract == INSTANCE BoundedQueue WITH Capacity <- Num, queue <- QueueOf

(***************************************************************************)
(* The slot array and its two wrapping counters are a bounded FIFO queue:  *)
(* once my_fifo_next has published a frame it is neither lost, repeated,   *)
(* reordered nor overwritten (utils.c:165-212, utils.h:10-18).             *)
(***************************************************************************)
ImplementsQueue == Abstract!Spec
=============================================================================
