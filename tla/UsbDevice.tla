----------------------------- MODULE UsbDevice -----------------------------
(***************************************************************************)
(* The USB device of the CH582 firmware (app_usb.c): control transfers on  *)
(* endpoint 0, which the interrupt handler USB_DevTransProcess carries     *)
(* through, and data packets in both directions on endpoint 2.  What the   *)
(* firmware makes of the data is in Ch582.                                 *)
(*                                                                         *)
(* The controller answers NAK from a transaction to the end of its         *)
(* interrupt (RB_UC_INT_BUSY), so the two are one step.  But the observer  *)
(* task changes the control register of endpoint 2, which also holds the   *)
(* data toggles, by reading and writing it, and a step may come between.   *)
(*                                                                         *)
(* The host and the controller are outside the repository.  The host sends *)
(* a packet again until it sees the handshake, tells a repeated packet by  *)
(* its toggle, and gives a transfer up at any time.  Data that it sends in *)
(* a control transfer are ignored and left out.  Names with an underscore  *)
(* and a description are faulty variants that no action uses.              *)
(***************************************************************************)
EXTENDS Integers, SequencesExt

CONSTANTS
  DevEP0SIZE,
  Descr,        (* length of each descriptor that the device has           *)
  Lengths,      (* wLength of the host's requests                          *)
  Addresses,    (* that the host assigns                                   *)
  MaxSetups,    (* bound: control transfers                                *)
  MaxPackets,   (* bound: packets on endpoint 2, in each direction         *)
  MaxLost,      (* bound: handshakes lost, and bus resets                  *)
  None

(* Requests: those that read, with the source and the length asked for.    *)
(* GET_INTERFACE is a GET_CONFIGURATION.  "report" is a descriptor without *)
(* data, "unknown" what the device refuses.  The bRequest of a vendor read *)
(* (bRequestType 0xC0) names Return1 to 3, or nothing; of any other        *)
(* non-standard request, here "class", it is only stored, and is a code    *)
(* of standard requests for all that.                                      *)
Reads ==
       [type : {"standard"}, code : {"GET_DESCRIPTOR"}, of : DOMAIN Descr \cup {"report", "unknown"}, n : Lengths]
  \cup [type : {"standard"}, code : {"GET_CONFIGURATION", "GET_STATUS"}, of : {"value"}, n : Lengths]
  \cup [type : {"vendor"}, code : {"vendor"}, of : {"Return", "nothing", "unknown"}, n : Lengths]
  \cup [type : {"class"}, code : {"GET_DESCRIPTOR", "SET_ADDRESS"}, of : {"nothing"}, n : Lengths]
(* ... and those that write.  "other" is a standard request that is not    *)
(* supported or a CLEAR_FEATURE of anything else; a non-standard request   *)
(* of another code is a SET_CONFIGURATION, or a vendor read of nothing.    *)
Writes ==
       [type : {"standard"}, code : {"SET_ADDRESS"}, n : Addresses]
  \cup [type : {"standard"}, code : {"SET_CONFIGURATION", "clear IN", "clear OUT", "other"}, n : {0}]
  \cup [type : {"class"}, code : {"GET_DESCRIPTOR", "SET_ADDRESS"}, n : {0} \cup Lengths]
IsRead(r) == r \in Reads

(* R8_UEP2_CTRL: the toggles of both directions, the response to IN.       *)
Togs == {0, 1}
Ep2Type == [rtog : Togs, ttog : Togs, tres : {"ACK", "NAK"}]

(* A request for nothing has no data stage; the values of the device, two  *)
(* bytes at most, are shorter than a packet.                               *)
ASSUME UsbAssumption ==
  /\ DevEP0SIZE \in Nat /\ DevEP0SIZE >= 3
  /\ Descr \in [DOMAIN Descr -> Nat]
  /\ DOMAIN Descr \cap {"report", "unknown", "value", "Return", "nothing"} = {}
  /\ Lengths \subseteq Nat \ {0}
  /\ Addresses \subseteq 1 .. 127
  /\ {MaxSetups, MaxPackets, MaxLost} \subseteq Nat
  /\ None \notin Reads \cup Writes \cup Ep2Type

VARIABLES
  devAddr,                            (* R8_USB_DEV_AD                     *)
  SetupReqCode, SetupReqLen, pDescr,
  ep0,          (* endpoint 0: buffer, R8_UEP0_T_LEN, R8_UEP0_CTRL         *)
  ep2,          (* R8_UEP2_CTRL                                            *)
  chunk,        (* the number of the packet in pEP2_IN_DataBuf             *)
  reg,          (* the task's copy of R8_UEP2_CTRL                         *)
  dealt,        (* the packets given to DevEP2_OUT_Deal so far             *)
  stage,        (* of the host's control transfer                          *)
  req,
  got,          (* the bytes the host has received in it                   *)
  hostTog,      (* toggles of the host: endpoint 0, OUT 2, IN 2            *)
  hostAddr,     (* the address the host uses                               *)
  outNo,        (* packets that the host has begun to send ...             *)
  outPending,   (* ... and whether the last one has no handshake yet       *)
  taken,        (* the packets that the host has received so far           *)
  raced,        (* pipes whose toggle has changed since reg was read       *)
  resets,       (* of each pipe, by the bus or CLEAR_FEATURE: parity       *)
  parted,       (* a SET_ADDRESS's last handshake was lost, or a class     *)
                (* request with its code was carried out                   *)
  setups, lost

devVars == <<devAddr, SetupReqCode, SetupReqLen, pDescr, ep0>>
ctlVars == <<stage, req, got, hostAddr, parted>>
inVars == <<chunk, reg, taken>>
outVars == <<dealt, outNo, outPending>>
raceVars == <<raced, resets>>
vars == <<devVars, ctlVars, ep2, inVars, outVars, hostTog, raceVars, setups, lost>>

Flip(t) == 1 - t
Ep2Reset == [rtog |-> 0, ttog |-> 0, tres |-> "NAK"]
HostTogReset == [ep0 |-> 0, out |-> 0, in |-> 0]
Min2(a, b) == IF a < b THEN a ELSE b

Init ==
  /\ devAddr = 0
  /\ SetupReqCode = None /\ SetupReqLen = 0 /\ pDescr = [of |-> None, at |-> 0]
  /\ ep0 = [buf |-> << >>, ttog |-> 0, tres |-> "NAK"]
  /\ ep2 = Ep2Reset /\ chunk = 0 /\ reg = None /\ dealt = << >>
  /\ stage = "idle" /\ req = None /\ got = << >>
  /\ hostTog = HostTogReset /\ hostAddr = 0 /\ parted = FALSE
  /\ outNo = 0 /\ outPending = FALSE /\ taken = << >>
  /\ raced = {} /\ resets = [in |-> 0, out |-> 0] /\ setups = 0 /\ lost = 0

(* A handshake is lost. *)
Lost == lost < MaxLost /\ lost' = lost + 1
Race(pipes) == raced' = IF reg = None THEN raced ELSE raced \cup pipes
Resets(pipes) ==
  /\ Race(pipes)
  /\ resets' = [p \in {"in", "out"} |-> IF p \in pipes THEN Flip(resets[p]) ELSE resets[p]]

-----------------------------------------------------------------------------
(***************************************************************************)
(* Endpoint 0, device.                                                     *)
(***************************************************************************)
Bytes(of, from, n) == [i \in 1 .. n |-> <<of, from + i>>]

(* What there is to read. *)
Source(r) ==
  CASE r.code = "GET_DESCRIPTOR" -> IF r.of \in DOMAIN Descr THEN Descr[r.of] ELSE 0
    [] r.code = "GET_CONFIGURATION" -> 1
    [] r.code = "GET_STATUS" -> 2
    [] r.code = "vendor" /\ r.of = "Return" -> 2
    [] OTHER -> 0

Stalls(r) == r.code = "other" \/ (IsRead(r) /\ r.of = "unknown")

(* SetupReqLen before the first packet is cut off it.  Only a standard     *)
(* request is cut to what there is.                                        *)
ToUpload_WholeDescriptor(r) == IF r.type = "standard" THEN Source(r) ELSE r.n
ToUpload(r) == IF r.type = "standard" THEN Min2(r.n, Source(r)) ELSE r.n

FirstLen(r) == Min2(ToUpload(r), DevEP0SIZE)

(* Behind its data the buffer holds the SETUP packet and older bytes.      *)
FirstPacket(r) ==
  [i \in 1 .. FirstLen(r) |-> IF i <= Source(r) THEN <<r.of, i>> ELSE <<"stale", i>>]

(* GET_DESCRIPTOR leaves pDescr behind the first packet. *)
Loaded(r) ==
  CASE IsRead(r) /\ r.of \in DOMAIN Descr -> [of |-> r.of, at |-> FirstLen(r)]
    [] IsRead(r) /\ r.of = "Return" -> [of |-> r.of, at |-> 0]
    [] OTHER -> pDescr

AddressAfterSetup_AtOnce(r) == IF r.code = "SET_ADDRESS" THEN r.n ELSE devAddr
AddressAfterSetup(r) == devAddr

(* The SETUP branch. *)
SetupReceived(r) ==
  /\ SetupReqCode' = r.code
  /\ SetupReqLen' = CASE ~IsRead(r) -> r.n
                      [] IsRead(r) /\ Stalls(r) -> ToUpload(r)
                      [] OTHER -> ToUpload(r) - FirstLen(r)
  /\ pDescr' = Loaded(r)
  /\ ep0' = [buf |-> IF IsRead(r) /\ ~Stalls(r) THEN FirstPacket(r) ELSE << >>,
             ttog |-> 1, tres |-> IF Stalls(r) THEN "STALL" ELSE "ACK"]
  /\ devAddr' = AddressAfterSetup(r)

(* CLEAR_FEATURE of an endpoint resets its toggle and its response. *)
Cleared(r) ==
  ep2' = CASE r.code = "clear IN"  -> [rtog |-> ep2.rtog, ttog |-> 0, tres |-> "NAK"]
           [] r.code = "clear OUT" -> [ep2 EXCEPT !.rtog = 0]
           [] OTHER -> ep2

Idle0 == ep0' = [buf |-> << >>, ttog |-> 0, tres |-> "NAK"]

(* UIS_TOKEN_IN: after a packet that the host has acknowledged, the next   *)
(* piece of a descriptor, which may be empty; or the new address, seven    *)
(* bits; or the end, whatever else is to be uploaded.                      *)
NextRes_NoEmptyPacket(len) == IF len = 0 THEN "NAK" ELSE ep0.tres
NextRes(len) == ep0.tres

NextPiece ==
  LET len == Min2(SetupReqLen, DevEP0SIZE)
  IN  /\ ep0' = [buf |-> Bytes(pDescr.of, pDescr.at, len), ttog |-> Flip(ep0.ttog), tres |-> NextRes(len)]
      /\ SetupReqLen' = SetupReqLen - len
      /\ pDescr' = [pDescr EXCEPT !.at = @ + len]
      /\ UNCHANGED devAddr

InAcknowledged ==
  /\ CASE SetupReqCode = "GET_DESCRIPTOR" -> NextPiece
       [] SetupReqCode = "SET_ADDRESS" ->
            devAddr' = SetupReqLen % 128 /\ Idle0 /\ UNCHANGED <<SetupReqLen, pDescr>>
       [] OTHER -> Idle0 /\ UNCHANGED <<devAddr, SetupReqLen, pDescr>>
  /\ UNCHANGED SetupReqCode

-----------------------------------------------------------------------------
(***************************************************************************)
(* Endpoint 0, host.                                                       *)
(***************************************************************************)
ClearingIn == stage # "idle" /\ req.code = "clear IN"
ClearingOut == stage # "idle" /\ req.code = "clear OUT"
Clearing == ClearingIn \/ ClearingOut
Reachable == hostAddr = devAddr

(* A host clears a pipe that it does not use at the moment, and does not   *)
(* give up half way; it configures the device once after a reset.          *)
MaySend(r) ==
  /\ Clearing => r = req
  /\ r.code = "clear OUT" => ~outPending

Setup(r) ==
  /\ setups < MaxSetups /\ setups' = setups + 1
  /\ Reachable /\ MaySend(r)
  /\ stage' = IF IsRead(r) THEN "data" ELSE "status IN"
  /\ req' = r /\ got' = << >>
  /\ hostTog' = [hostTog EXCEPT !.ep0 = 1]
  /\ SetupReceived(r) /\ Cleared(r)
  /\ Resets(CASE r.code = "clear IN" -> {"in"} [] r.code = "clear OUT" -> {"out"} [] OTHER -> {})
  /\ UNCHANGED <<hostAddr, parted, inVars, outVars, lost>>

Ends == stage' = "idle"

(* The host takes a packet with the toggle it expects, and ignores the     *)
(* others.  A short packet ends the data.                                  *)
HostTakes ==
  IF ep0.ttog # hostTog.ep0 THEN UNCHANGED <<stage, got, hostTog, hostAddr>>
  ELSE IF stage = "data"
       THEN /\ got' = got \o ep0.buf
            /\ hostTog' = [hostTog EXCEPT !.ep0 = Flip(@)]
            /\ stage' = IF Len(ep0.buf) < DevEP0SIZE \/ Len(got') >= req.n THEN "status OUT" ELSE stage
            /\ UNCHANGED hostAddr
       ELSE /\ Ends
            /\ hostTog' = CASE req.code = "clear IN"  -> [hostTog EXCEPT !.in = 0]
                            [] req.code = "clear OUT" -> [hostTog EXCEPT !.out = 0]
                            [] OTHER -> hostTog
            /\ hostAddr' = IF req.code = "SET_ADDRESS" /\ req.type = "standard" THEN req.n ELSE hostAddr
            /\ UNCHANGED got

InToken == Reachable /\ stage \in {"data", "status IN"} /\ ep0.tres = "ACK"

In0 ==
  /\ InToken /\ HostTakes /\ InAcknowledged
  /\ parted' = (parted \/ (req.code = "SET_ADDRESS" /\ req.type = "class"))
  /\ UNCHANGED <<req, ep2, inVars, outVars, raceVars, setups, lost>>

In0_AckLost ==
  /\ InToken /\ HostTakes /\ Lost
  /\ parted' = (parted \/ hostAddr' # hostAddr)
  /\ UNCHANGED <<devVars, req, ep2, inVars, outVars, raceVars, setups>>

Stall0 ==
  /\ Reachable /\ stage \in {"data", "status IN"} /\ ep0.tres = "STALL"
  /\ Ends /\ req' = None /\ got' = << >>
  /\ UNCHANGED <<devVars, hostAddr, parted, ep2, inVars, outVars, hostTog, raceVars, setups, lost>>

(* The status stage of a request that reads; the device does nothing, and  *)
(* may be asked again.                                                     *)
Out0 ==
  /\ Reachable /\ stage = "status OUT" /\ ep0.tres # "STALL"
  /\ Ends
  /\ UNCHANGED <<devVars, req, got, hostAddr, parted, ep2, inVars, outVars, hostTog, raceVars, setups, lost>>

-----------------------------------------------------------------------------
(***************************************************************************)
(* Endpoint 2.                                                             *)
(***************************************************************************)
HostSends ==
  /\ outNo < MaxPackets /\ ~outPending /\ ~Clearing
  /\ outNo' = outNo + 1 /\ outPending' = TRUE
  /\ UNCHANGED <<devVars, ctlVars, ep2, inVars, dealt, hostTog, raceVars, setups, lost>>

(* UIS_TOKEN_OUT | 2: "Out-of-sync packets will be discarded".             *)
Deal_NotCompared ==
  /\ dealt' = Append(dealt, outNo)
  /\ ep2' = IF ep2.rtog = hostTog.out THEN [ep2 EXCEPT !.rtog = Flip(@)] ELSE ep2

Deal ==
  IF ep2.rtog = hostTog.out
  THEN dealt' = Append(dealt, outNo) /\ ep2' = [ep2 EXCEPT !.rtog = Flip(@)]
  ELSE UNCHANGED <<dealt, ep2>>

Out2 ==
  /\ Reachable /\ outPending /\ Deal /\ Race({"out"})
  /\ outPending' = FALSE
  /\ hostTog' = [hostTog EXCEPT !.out = Flip(@)]
  /\ UNCHANGED <<devVars, ctlVars, inVars, outNo, resets, setups, lost>>

Out2_AckLost ==
  /\ Reachable /\ outPending /\ Deal /\ Race({"out"}) /\ Lost
  /\ UNCHANGED <<devVars, ctlVars, inVars, outNo, outPending, hostTog, resets, setups>>

EndpointFree_NotAsked == TRUE
EndpointFree == ep2.tres # "ACK"

(* USBSendData as far as reading the register in DevEP2_IN_Deal ...        *)
Fill ==
  /\ reg = None /\ EndpointFree /\ chunk < MaxPackets
  /\ chunk' = chunk + 1
  /\ reg' = ep2
  /\ UNCHANGED <<devVars, ctlVars, ep2, outVars, taken, hostTog, raceVars, setups, lost>>

(* ... and writing it.                                                     *)
DevEP2_IN_Deal ==
  /\ reg # None
  /\ ep2' = [reg EXCEPT !.tres = "ACK"]
  /\ reg' = None /\ raced' = {}
  /\ UNCHANGED <<devVars, ctlVars, chunk, outVars, taken, hostTog, resets, setups, lost>>

HostTakes2 ==
  IF ep2.ttog = hostTog.in
  THEN taken' = Append(taken, chunk) /\ hostTog' = [hostTog EXCEPT !.in = Flip(@)]
  ELSE UNCHANGED <<taken, hostTog>>

(* UIS_TOKEN_IN | 2; the controller flips the toggle. *)
In2Acknowledged == ep2' = [rtog |-> ep2.rtog, ttog |-> Flip(ep2.ttog), tres |-> "NAK"]

In2 ==
  /\ Reachable /\ ep2.tres = "ACK" /\ ~Clearing
  /\ HostTakes2 /\ In2Acknowledged
  /\ UNCHANGED <<devVars, ctlVars, chunk, reg, outVars, raceVars, setups, lost>>

In2_AckLost ==
  /\ Reachable /\ ep2.tres = "ACK" /\ ~Clearing
  /\ HostTakes2 /\ Lost
  /\ UNCHANGED <<devVars, ctlVars, ep2, chunk, reg, outVars, raceVars, setups>>

-----------------------------------------------------------------------------
(* RB_UIF_BUS_RST; the request of the last SETUP stays.                    *)
BusReset ==
  /\ Lost
  /\ devAddr' = 0 /\ Idle0 /\ ep2' = Ep2Reset
  /\ Resets({"in", "out"})
  /\ stage' = "idle" /\ req' = None /\ got' = << >>
  /\ hostTog' = HostTogReset /\ hostAddr' = 0 /\ parted' = FALSE
  /\ outPending' = FALSE
  /\ UNCHANGED <<SetupReqCode, SetupReqLen, pDescr, inVars, dealt, outNo, setups>>

Control == In0 \/ Stall0 \/ Out0

Next ==
  \/ \E r \in Reads \cup Writes : Setup(r)
  \/ Control \/ In0_AckLost
  \/ HostSends \/ Out2 \/ Out2_AckLost
  \/ Fill \/ DevEP2_IN_Deal \/ In2 \/ In2_AckLost
  \/ BusReset

Spec == Init /\ [][Next]_vars

(* The host carries a transfer on until the device refuses or completes    *)
(* it.                                                                     *)
FairSpec == Spec /\ WF_vars(Control)

-----------------------------------------------------------------------------
ControlType ==
  /\ devAddr \in 0 .. 127 /\ hostAddr \in 0 .. 127
  /\ SetupReqLen \in Nat
  /\ ep0.ttog \in Togs /\ ep0.tres \in {"ACK", "NAK", "STALL"}
  /\ stage \in {"idle", "data", "status IN", "status OUT"}
  /\ stage # "idle" => req \in Reads \cup Writes

PacketType ==
  /\ ep2 \in Ep2Type /\ reg \in Ep2Type \cup {None}
  /\ chunk \in 0 .. MaxPackets /\ taken \in Seq(1 .. MaxPackets)
  /\ outNo \in 0 .. MaxPackets /\ dealt \in Seq(1 .. MaxPackets)
  /\ outPending \in BOOLEAN
  /\ raced \subseteq {"in", "out"}
  /\ resets \in [{"in", "out"} -> {0, 1}]

HostTogType == hostTog \in [ep0 : Togs, out : Togs, in : Togs]

TypeOK == ControlType /\ PacketType /\ HostTogType

(* Reads that the device has data for: of the vendor's, those that do not  *)
(* ask for more than there is.                                             *)
Served(r) == r \in Reads /\ (r.type = "standard" \/ r.n <= Source(r))

(***************************************************************************)
(* A control transfer that has read something has read what was asked      *)
(* for, all of it and each byte once, whether it fits into one packet,     *)
(* fills packets exactly or not, whatever handshakes were lost, and        *)
(* whatever transfer was given up before (app_usb.c:194-206, 330-403).     *)
(* Nothing is said of the other reads, which the device answers with stale *)
(* bytes: of a vendor request for more than its two bytes or for a value   *)
(* that it does not know, and of other types (app_usb.c:302-328).          *)
(***************************************************************************)
ReadsAreWhole ==
  stage \in {"idle", "status OUT"} /\ Served(req) => got = Bytes(req.of, 0, Min2(req.n, Source(req)))

(***************************************************************************)
(* The device has the address that the host uses: it keeps the old one     *)
(* until the host has seen the transfer end, and then has the new one,     *)
(* whatever other transfers were begun and given up.  Two events part      *)
(* them, until the next reset: the loss of that transfer's last handshake, *)
(* and a request of another type with bRequest 5, whose length is taken    *)
(* for an address (app_usb.c:207-210, 292, 406-408, 490).                  *)
(***************************************************************************)
AddressesAgree == ~parted => devAddr = hostAddr

(***************************************************************************)
(* A control transfer comes to an end, whatever was given up before, and   *)
(* the device does not answer NAK for ever.  The exceptions are reads of   *)
(* other types than standard that the device does not refuse: of more than *)
(* a packet, since it sends no second one, or with the code of             *)
(* SET_ADDRESS, since it then changes its address (app_usb.c:194-216,      *)
(* 302-328, 466-483).                                                      *)
(***************************************************************************)
Hangs(r) ==
  /\ r \in Reads /\ r.type # "standard" /\ ~Stalls(r)
  /\ r.code = "SET_ADDRESS" \/ (r.code # "GET_DESCRIPTOR" /\ r.n > DevEP0SIZE)

TransfersEnd == stage # "idle" ~> stage = "idle" \/ Hangs(req)

(***************************************************************************)
(* The two directions of endpoint 2 are pipes as UsbPipe describes them:   *)
(* each packet is dealt with once and in order, however handshakes are     *)
(* lost, and none is overwritten in the buffer.  Only when the toggle of   *)
(* the direction is touched between reading and writing R8_UEP2_CTRL, and  *)
(* set back, is one packet lost or taken again; then the toggles are in    *)
(* step again (app_usb.c:104-119, 239-251, 420-441, 488-497;               *)
(* CH58x_usbdev.c:79-83).                                                  *)
(***************************************************************************)
Newest(s) == IF s = << >> THEN 0 ELSE s[Len(s)]

(* Toggles the host expects next, after a CLEAR_FEATURE under way. *)
OutTog == IF ClearingOut THEN 0 ELSE hostTog.out
InTog == IF ClearingIn THEN 0 ELSE hostTog.in

OutWaits == outPending /\ Newest(dealt) # outNo
OutSlipped == IF outPending THEN OutWaits <=> ep2.rtog # OutTog ELSE ep2.rtog # OutTog

OutPipe == INSTANCE UsbPipe
             WITH Packet <- 1 .. MaxPackets, waiting <- IF OutWaits THEN <<outNo>> ELSE << >>,
                  taken <- dealt, touched <- "out" \in raced, slipped <- OutSlipped, resets <- resets["out"]

OutIsPipe == OutPipe!Spec

InWaits == ep2.tres = "ACK" /\ Newest(taken) # chunk
InSlipped == IF ep2.tres = "ACK" THEN InWaits <=> ep2.ttog # InTog ELSE ep2.ttog # InTog

InPipe == INSTANCE UsbPipe
            WITH Packet <- 1 .. MaxPackets, waiting <- IF InWaits THEN <<chunk>> ELSE << >>,
                 touched <- "in" \in raced, slipped <- InSlipped, resets <- resets["in"]

InIsPipe == InPipe!Spec
=============================================================================
