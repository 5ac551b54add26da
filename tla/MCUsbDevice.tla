---------------------------- MODULE MCUsbDevice ----------------------------
(***************************************************************************)
(* Descriptors for UsbDevice: one that fills its packet exactly, and one   *)
(* that does not.  Packets on endpoint 2 meet only the standard requests   *)
(* that write: those that concern the endpoint or the device's address,    *)
(* one that does nothing and one that is refused.                          *)
(***************************************************************************)
EXTENDS UsbDevice

TwoDescr == [device |-> 3, config |-> 4]

Light == {r \in Writes : r.type = "standard"}

MCNext == Next /\ (outNo' + chunk' > 0 => req' \in Light \cup {None})

MCSpec == Init /\ [][MCNext]_vars /\ WF_vars(Control)
=============================================================================
