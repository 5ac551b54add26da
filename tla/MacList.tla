------------------------------ MODULE MacList ------------------------------
(***************************************************************************)
(* mac_list_t: one array of addresses and one mode, white or black, for    *)
(* the whole of it.  The scanner selects advertisements with it; the host  *)
(* program fills it.                                                       *)
(***************************************************************************)
EXTENDS Integers, Sequences

CONSTANT ListMax   (* MAC_MAX_SCAN_LIST *)

ListCmd == {"WMAC", "BMAC"}
EmptyList == [mode |-> "WMAC", mac |-> << >>]

Listed(list, m) == \E i \in DOMAIN list.mac : list.mac[i] = m

chk_mac_ModeIgnored(list, m) == list.mac = << >> \/ Listed(list, m)

(* An empty list accepts everybody. *)
chk_mac(list, m) ==
  \/ list.mac = << >>
  \/ list.mode = "WMAC" /\ Listed(list, m)
  \/ list.mode = "BMAC" /\ ~Listed(list, m)

WithMac_FirstModeStays(list, mode, m) ==
  [mode |-> IF list.mac = << >> THEN mode ELSE list.mode,
   mac  |-> IF Len(list.mac) < ListMax THEN Append(list.mac, m) ELSE list.mac]

(* The list that CMD_ID_WMAC or CMD_ID_BMAC leaves: the mode is that of    *)
(* the last addition, and a full list takes no further address.            *)
WithMac(list, mode, m) ==
  [mode |-> mode,
   mac  |-> IF Len(list.mac) < ListMax THEN Append(list.mac, m) ELSE list.mac]

(* CMD_ID_CLRM resets the count; the mode stays. *)
WithoutMacs(list) == [mode |-> list.mode, mac |-> << >>]
=============================================================================
