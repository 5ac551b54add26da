---------------------------- MODULE BoundedQueue ----------------------------
(***************************************************************************)
(* What the frame FIFO of the TLSR825x firmware promises to its users: a   *)
(* first-in first-out queue of at most Capacity frames.  A frame that does *)
(* not fit is refused by its producer, never stored over another one, and  *)
(* the consumer always takes the oldest frame.  MyFifo implements this     *)
(* with two byte counters and a slot array; Scanner implements it again,   *)
(* end to end, with the FIFO followed by the UART transmit buffer.         *)
(***************************************************************************)
EXTENDS Naturals, Sequences

CONSTANTS
  Frame,      (* what can be queued                                *)
  NoFrame,    (* value of taken before anything has been taken     *)
  Capacity    (* how many frames fit                               *)

VARIABLES
  queue,      (* the frames that wait, oldest first                *)
  taken       (* the frame that was taken last                     *)

Init ==
  /\ queue = << >>
  /\ taken = NoFrame

Put(f) ==
  /\ Len(queue) < Capacity
  /\ queue' = Append(queue, f)
  /\ UNCHANGED taken

Take ==
  /\ queue # << >>
  /\ taken' = Head(queue)
  /\ queue' = Tail(queue)

Next == Take \/ \E f \in Frame : Put(f)

Spec == Init /\ [][Next]_<<queue, taken>>
=============================================================================
