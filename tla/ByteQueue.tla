----------------------------- MODULE ByteQueue -----------------------------
(***************************************************************************)
(* What Ch582 takes app_tx_fifo for: a first-in first-out queue of at most *)
(* Capacity bytes.  A message that does not fit is refused as a whole; the *)
(* reader takes as many of the oldest bytes as it likes; the queue can be  *)
(* emptied.                                                                *)
(***************************************************************************)
EXTENDS Naturals, Sequences

CONSTANTS
  Msgs,       (* byte sequences that are written at a time                 *)
  Capacity

VARIABLES
  queue,
  read        (* the bytes the last reading has given                      *)

Init ==
  /\ queue = << >>
  /\ read = << >>

Put(m) ==
  /\ Len(queue) + Len(m) <= Capacity
  /\ queue' = queue \o m
  /\ UNCHANGED read

Take(n) ==
  /\ read' = SubSeq(queue, 1, n)
  /\ queue' = SubSeq(queue, n + 1, Len(queue))

Clear ==
  /\ queue' = << >>
  /\ UNCHANGED read

Next ==
  \/ \E m \in Msgs : Put(m)
  \/ \E n \in 1 .. Len(queue) : Take(n)
  \/ Clear

Spec == Init /\ [][Next]_<<queue, read>>
=============================================================================
