---------------------------- MODULE MCHostConfig ----------------------------
(* Lists for HostConfig. *)
EXTENDS HostConfig

CONSTANTS m1, m2, m3

NoList == [white |-> << >>, black |-> << >>]
SmallLists == {NoList, [white |-> <<m1, m2>>, black |-> << >>], [white |-> << >>, black |-> <<m1, m2>>]}
(* As many addresses as mac_list can hold. *)
FullList == {[white |-> [i \in 1 .. 64 |-> i], black |-> << >>]}
(* Listed by an earlier session. *)
OneMac == <<m3>>
=============================================================================
