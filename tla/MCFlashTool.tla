---------------------------- MODULE MCFlashTool ----------------------------
(* Command lines for FlashTool. *)
EXTENDS FlashTool

Full(b) == [u \in Unit |-> b]
Line(op, start, data, verify, old, lock) ==
  [op |-> op, start |-> start, data |-> data, verify |-> verify, old |-> old, locked |-> lock]

Files == {<<0, 1>>, <<1, 1, 0>>, <<0, 0, 1, 0, 0>>}

(* we, wf: from a sector, a page in a sector, and within a page.           *)
WriteJobs ==
  {Line(op, s, f, v, Full(b), b = 0) :
     op \in {"we", "wf"}, s \in {0, 1, 2}, f \in Files, v \in BOOLEAN, b \in Bit}
OtherJobs ==
  {Line(op, s, d, FALSE, Full(0), TRUE) :
     op \in {"es", "ea", "rf"}, s \in {0, 2}, d \in {<<0>>, <<0, 0, 0, 0, 0>>}}
AllJobs == WriteJobs \cup OtherJobs
OneWrite == {Line("we", 0, <<0, 1, 0, 0, 1, 0>>, TRUE, Full(1), FALSE)}
=============================================================================
