------------------------------ MODULE UsbPipe ------------------------------
(***************************************************************************)
(* What the two directions of endpoint 2 of the CH582 promise.  A packet   *)
(* is taken by the other side before the next one can be put, once and in  *)
(* order, however many handshakes are lost.  A reset of the pipe, by the   *)
(* bus or by CLEAR_FEATURE, drops the packet that waits, and nothing else  *)
(* does, as long as the data toggles of the two sides are in step.         *)
(*                                                                         *)
(* They can get out of step in one way only: the register that holds the   *)
(* device's toggle is written back with what it held before it was         *)
(* touched.  That costs at most one packet: the one that waits, or the     *)
(* next one, is missed, or the last one is taken again.                    *)
(* UsbDevice implements this twice.                                        *)
(***************************************************************************)
EXTENDS Integers, Sequences

CONSTANT Packet   (* a set of numbers: packets are put in their order *)

VARIABLES
  waiting,    (* the packet on its way, as a sequence of at most one       *)
  taken,      (* all packets that have been taken, in that order           *)
  touched,    (* the register has changed since it was read                *)
  slipped,    (* the toggles are out of step                               *)
  resets      (* parity of the resets so far                               *)

vars == <<waiting, taken, touched, slipped, resets>>

Init ==
  /\ waiting = << >> /\ taken = << >>
  /\ ~touched /\ ~slipped /\ resets = 0

(* The register is not written, or it is. *)
Unwritten == touched => touched'
Written == touched /\ ~touched' /\ slipped' \in BOOLEAN

Put(p) ==
  /\ waiting = << >> /\ waiting' = <<p>>
  /\ \A i \in DOMAIN taken : taken[i] < p
  /\ UNCHANGED <<taken, resets>>
  /\ Written \/ UNCHANGED <<touched, slipped>>

Take ==
  /\ waiting # << >> /\ ~slipped
  /\ waiting' = << >> /\ taken' = taken \o waiting
  /\ Unwritten /\ UNCHANGED <<slipped, resets>>

Miss ==
  /\ waiting # << >> /\ slipped
  /\ waiting' = << >> /\ ~slipped'
  /\ Unwritten /\ UNCHANGED <<taken, resets>>

TakeAgain ==
  /\ waiting = << >> /\ slipped /\ taken # << >>
  /\ taken' = Append(taken, taken[Len(taken)]) /\ ~slipped'
  /\ Unwritten /\ UNCHANGED <<waiting, resets>>

Touch == touched' /\ UNCHANGED <<waiting, taken, slipped, resets>>

WriteBack == Written /\ UNCHANGED <<waiting, taken, resets>>

Reset ==
  /\ resets' = 1 - resets
  /\ waiting' = << >> /\ ~slipped'
  /\ UNCHANGED taken

Next ==
  \/ \E p \in Packet : Put(p)
  \/ Take \/ Miss \/ TakeAgain
  \/ Touch \/ WriteBack \/ Reset

Spec == Init /\ [][Next]_vars
=============================================================================
