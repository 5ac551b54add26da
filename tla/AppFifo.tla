------------------------------ MODULE AppFifo ------------------------------
(***************************************************************************)
(* app_drv_fifo.c of the CH582 firmware: a ring of Size bytes addressed by *)
(* two u16 counters that are never reduced modulo Size.  Ch582 takes       *)
(* app_tx_fifo for the queue of bytes this module is shown to implement.   *)
(*                                                                         *)
(* The functions that app_tx_fifo is used with are modelled; push, pop,    *)
(* write_from_same_addr and read_to_same_addr have no caller.  begin and   *)
(* end are only moved between the CH582's task and itself, so that each    *)
(* call is one step.                                                       *)
(***************************************************************************)
EXTENDS Integers, SequencesExt

CONSTANTS
  Byte,
  NoByte,     (* what the buffer holds before it is written                *)
  Size,       (* APP_TX_BUFFER_LENGTH                                      *)
  Wrap,       (* values of a u16: 65536                                    *)
  MaxMsg,     (* longest message written                                   *)
  MaxRead     (* most bytes read at a time: the endpoint's packet size     *)

(* app_drv_fifo_init refuses a size that is not a power of two.  A u16     *)
(* holds no larger power of two than half its number of values, which it   *)
(* divides; that is all that the ring needs.                               *)
AppFifoAssumption ==
  /\ {Size, Wrap} \subseteq Nat \ {0}
  /\ Wrap % Size = 0 /\ Size < Wrap
  /\ {MaxMsg, MaxRead} \subseteq Nat
  /\ NoByte \notin Byte

VARIABLES
  begin,      (* u16: bytes read, modulo Wrap                              *)
  end,        (* u16: bytes written, modulo Wrap                           *)
  data,       (* the buffer                                                *)
  read        (* the bytes app_drv_fifo_read has copied out last           *)

vars == <<begin, end, data, read>>

(* x & size_mask *)
SlotOf(x) == x % Size

fifo_length_Int == end - begin
fifo_length == (end - begin) % Wrap

app_drv_fifo_init ==
  /\ begin = 0 /\ end = 0
  /\ data = [s \in 0 .. Size - 1 |-> NoByte]
  /\ read = << >>

Msgs == BoundedSeq(Byte, MaxMsg) \ {<< >>}

(* The result of the call; observer.c does not look at it.                 *)
WriteFits(msg) == (Size - fifo_length) % Wrap >= Len(msg)

(* The position in msg of the byte that goes to slot s, if there is one.   *)
Goes(s, msg) == {i \in DOMAIN msg : SlotOf(end + i - 1) = s}

app_drv_fifo_write(msg) ==
  /\ WriteFits(msg)
  /\ data' = [s \in DOMAIN data |-> IF Goes(s, msg) = {} THEN data[s]
                                    ELSE msg[CHOOSE i \in Goes(s, msg) : TRUE]]
  /\ end' = (end + Len(msg)) % Wrap
  /\ UNCHANGED <<begin, read>>

app_drv_fifo_write_Refused(msg) ==
  /\ ~WriteFits(msg)
  /\ UNCHANGED vars

(* MIN(requested_len, byte_count) *)
ReadSize(n) == IF n < fifo_length THEN n ELSE fifo_length

app_drv_fifo_read(n) ==
  /\ fifo_length # 0
  /\ read' = [i \in 1 .. ReadSize(n) |-> data[SlotOf(begin + i - 1)]]
  /\ begin' = (begin + ReadSize(n)) % Wrap
  /\ UNCHANGED <<end, data>>

app_drv_fifo_flush_EndOnly ==
  /\ end' = 0
  /\ UNCHANGED <<begin, data, read>>

app_drv_fifo_flush ==
  /\ begin' = 0 /\ end' = 0
  /\ UNCHANGED <<data, read>>

Next ==
  \/ \E msg \in Msgs : app_drv_fifo_write(msg) \/ app_drv_fifo_write_Refused(msg)
  \/ \E n \in 1 .. MaxRead : app_drv_fifo_read(n)
  \/ app_drv_fifo_flush

Spec == app_drv_fifo_init /\ [][Next]_vars

-----------------------------------------------------------------------------
Queue == INSTANCE ByteQueue
           WITH Capacity <- Size,
                queue <- [i \in 1 .. fifo_length |-> data[SlotOf(begin + i - 1)]]

(***************************************************************************)
(* However often the u16 counters have wrapped, ring and counters are a    *)
(* queue of bytes: a message enters it whole or not at all, and every byte *)
(* leaves it once and in order (app_drv_fifo.c:16-19, 80-120, 153-186).    *)
(***************************************************************************)
ImplementsByteQueue == Queue!Spec
=============================================================================
