------------------------------ MODULE BaudCell ------------------------------
(***************************************************************************)
(* What the two flash sectors of tinyFlash promise for the one key the     *)
(* firmware stores, the index of the UART bit rate: a cell that only a     *)
(* write changes, first by emptying it and then by storing the value that  *)
(* is being written.  A write ends when it has stored its value.  A power  *)
(* loss finds the cell as it is or, in the middle of the storing, leaves   *)
(* some remains in it, and with one kind of remains no program starts.     *)
(***************************************************************************)
CONSTANTS
  Index,     (* what is written                                            *)
  Remains,   (* what a write cut short can leave                           *)
  Fatal,     (* one of them, which stops every later start                 *)
  Nothing    (* the content of an empty cell; no value is being written    *)

VARIABLES
  cell,
  up,        (* the program runs                                           *)
  writing    (* the value that it is writing                               *)

vars == <<cell, up, writing>>

Init == cell = Nothing /\ ~up /\ writing = Nothing

Start == ~up /\ cell # Fatal /\ up' = TRUE /\ UNCHANGED <<cell, writing>>

Begin(v) == up /\ writing = Nothing /\ writing' = v /\ UNCHANGED <<cell, up>>

Clear == writing # Nothing /\ cell' = Nothing /\ UNCHANGED <<up, writing>>

Store ==
  /\ writing # Nothing /\ cell = Nothing
  /\ cell' = writing /\ writing' = Nothing
  /\ UNCHANGED up

Stop == ~up' /\ writing' = Nothing

PowerLoss == Stop /\ UNCHANGED cell

CutShort == writing # Nothing /\ cell = Nothing /\ cell' \in Remains /\ Stop

Next == Start \/ (\E v \in Index : Begin(v)) \/ Clear \/ Store \/ PowerLoss \/ CutShort

Spec == Init /\ [][Next]_vars
=============================================================================
