-------------------------- MODULE UsbDevice_proofs --------------------------
(***************************************************************************)
(* Proofs about UsbDevice for all packet sizes, descriptors, lengths and   *)
(* numbers of transfers, packets and lost handshakes.  The invariant has a *)
(* part for each thing that device and host must agree on: the request     *)
(* (CtlInv), the position in the data (DataInv), and the toggles of the    *)
(* two directions of endpoint 2 (OutInv, InInv).                           *)
(***************************************************************************)
EXTENDS UsbDevice, SequenceTheorems, TLAPS

(* The status stage of a write request finds the device in step with it.   *)
CtlInv ==
  /\ stage \in {"data", "status IN"} => SetupReqCode = req.code
  /\ stage \in {"data", "status OUT"} => req \in Reads
  /\ stage = "status IN" =>
       /\ req \notin Reads
       /\ ep0.ttog = hostTog.ep0 /\ ep0.tres = IF Stalls(req) THEN "STALL" ELSE "ACK"
       /\ SetupReqLen = req.n

(* All of the data, what is left of them, and the next piece.              *)
Want(r) == Min2(r.n, Source(r))
Rest == Want(req) - Len(got)
Piece == Min2(Rest, DevEP0SIZE)

(* The packet in the buffer follows what the host has ...                  *)
Untaken ==
  /\ ep0.buf = Bytes(req.of, Len(got), Piece)
  /\ SetupReqLen = Rest - Piece
  /\ req.code = "GET_DESCRIPTOR" /\ req.of \in DOMAIN Descr
       => pDescr = [of |-> req.of, at |-> Len(got) + Piece]

(* ... or the host has it, but its handshake was lost.                     *)
Repeated ==
  /\ req.code = "GET_DESCRIPTOR" /\ Len(got) >= 1
  /\ SetupReqLen = Rest
  /\ pDescr = [of |-> req.of, at |-> Len(got)]

DataInv ==
  stage = "data" /\ Served(req) =>
    IF Stalls(req) THEN ep0.tres = "STALL"
    ELSE /\ got = Bytes(req.of, 0, Len(got)) /\ Len(got) \in 0 .. Want(req)
         /\ IF ep0.ttog = hostTog.ep0 THEN Untaken ELSE Repeated

(* No packet has been dealt with before it was put, and the task's copy of *)
(* R8_UEP2_CTRL is stale only in the toggles that have changed since.      *)
OutInv ==
  /\ \A i \in DOMAIN dealt : dealt[i] <= outNo
  /\ outPending => outNo >= 1 /\ ~ClearingOut
  /\ "out" \in raced => reg # None
  /\ "out" \notin raced /\ reg # None => reg.rtog = ep2.rtog

InInv ==
  /\ \A i \in DOMAIN taken : taken[i] <= chunk
  /\ reg # None => ep2.tres = "NAK" /\ \A i \in DOMAIN taken : taken[i] < chunk
  /\ reg # None \/ ep2.tres = "ACK" => chunk >= 1
  /\ "in" \in raced => reg # None
  /\ "in" \notin raced /\ reg # None => reg.ttog = ep2.ttog

IInv == TypeOK /\ CtlInv /\ DataInv /\ OutInv /\ InInv /\ ReadsAreWhole /\ AddressesAgree

-----------------------------------------------------------------------------
(* Min2 is a lower bound. *)
LEMMA Min2Type ==
  ASSUME NEW x \in Nat, NEW y \in Nat
  PROVE  Min2(x, y) \in Nat /\ Min2(x, y) <= x /\ Min2(x, y) <= y
  BY DEF Min2

(* The fields of a request that reads ... *)
LEMMA ReadType ==
  ASSUME NEW r \in Reads
  PROVE  /\ r.n \in Nat \ {0} /\ Source(r) \in Nat
         /\ r.code \in {"GET_DESCRIPTOR", "GET_CONFIGURATION", "GET_STATUS", "vendor", "SET_ADDRESS"}
         /\ r.code = "SET_ADDRESS" => r.type = "class"
         /\ r.code # "GET_DESCRIPTOR" => Source(r) <= 2
         /\ r.code = "GET_DESCRIPTOR" /\ r.of \notin DOMAIN Descr => Source(r) = 0
<1>1. r.n \in Nat \ {0}
  BY UsbAssumption DEF Reads
<1>2. r.code \in {"GET_DESCRIPTOR", "GET_CONFIGURATION", "GET_STATUS", "vendor", "SET_ADDRESS"}
  BY DEF Reads
<1>3. r.code = "SET_ADDRESS" => r.type = "class"
  BY DEF Reads
<1>4. r.code # "GET_DESCRIPTOR" => Source(r) \in Nat /\ Source(r) <= 2
  BY DEF Source
<1>5. r.code = "GET_DESCRIPTOR" /\ r.of \notin DOMAIN Descr => Source(r) = 0
  BY DEF Source
<1>6. r.code = "GET_DESCRIPTOR" /\ r.of \in DOMAIN Descr => Source(r) \in Nat
  BY UsbAssumption DEF Source
<1>7. QED BY <1>1, <1>2, <1>3, <1>4, <1>5, <1>6

(* ... and of one that does not. *)
LEMMA WriteType ==
  ASSUME NEW r \in Reads \cup Writes, r \notin Reads
  PROVE  /\ r.n \in Nat
         /\ r.code = "SET_ADDRESS" => r.type = "class" \/ r.n \in 1 .. 127
<1>1. CASE r \in [type : {"standard"}, code : {"SET_ADDRESS"}, n : Addresses]
  <2>1. r.n \in Addresses
    BY <1>1
  <2>2. r.n \in 1 .. 127
    BY <2>1, UsbAssumption
  <2>3. QED BY <2>2
<1>2. CASE r \in [type : {"standard"}, code : {"SET_CONFIGURATION", "clear IN", "clear OUT", "other"}, n : {0}]
  <2>1. r.code # "SET_ADDRESS" /\ r.n = 0
    BY <1>2
  <2>2. QED BY <2>1
<1>3. CASE r \in [type : {"class"}, code : {"GET_DESCRIPTOR", "SET_ADDRESS"}, n : {0} \cup Lengths]
  <2>1. r.type = "class" /\ r.n \in {0} \cup Lengths
    BY <1>3
  <2>2. QED BY <2>1, UsbAssumption
<1>4. QED BY <1>1, <1>2, <1>3 DEF Writes

(* The first packet holds the beginning of the data. *)
LEMMA WantType ==
  ASSUME NEW r \in Reads
  PROVE  /\ Want(r) \in Nat /\ Want(r) <= r.n /\ Want(r) <= Source(r)
         /\ ToUpload(r) \in Nat /\ FirstLen(r) \in Nat /\ FirstLen(r) <= ToUpload(r)
         /\ Served(r) => /\ ToUpload(r) = Want(r) /\ FirstLen(r) = Min2(Want(r), DevEP0SIZE)
                         /\ FirstPacket(r) = Bytes(r.of, 0, FirstLen(r))
<1>1. r.n \in Nat /\ Source(r) \in Nat /\ DevEP0SIZE \in Nat
  BY ReadType, UsbAssumption
<1>2. Want(r) \in Nat /\ Want(r) <= r.n /\ Want(r) <= Source(r)
  BY <1>1, Min2Type DEF Want
<1>3. ToUpload(r) \in Nat
  BY <1>1, Min2Type DEF ToUpload
<1>4. FirstLen(r) \in Nat /\ FirstLen(r) <= ToUpload(r)
  BY <1>1, <1>3, Min2Type DEF FirstLen
<1>5. ASSUME Served(r)
      PROVE  /\ ToUpload(r) = Want(r) /\ FirstLen(r) = Min2(Want(r), DevEP0SIZE)
             /\ FirstPacket(r) = Bytes(r.of, 0, FirstLen(r))
  <2>1. ToUpload(r) = Want(r)
    BY <1>1, <1>5 DEF Served, ToUpload, Want, Min2
  <2>2. FirstLen(r) <= Source(r)
    BY <1>1, <1>2, <1>4, <2>1
  <2>3. ASSUME NEW i \in 1 .. FirstLen(r)
        PROVE  (IF i <= Source(r) THEN <<r.of, i>> ELSE <<"stale", i>>) = <<r.of, 0 + i>>
    BY <1>1, <1>4, <2>2
  <2>4. FirstPacket(r) = Bytes(r.of, 0, FirstLen(r))
    BY <2>3, Zenon DEF FirstPacket, Bytes
  <2>5. QED BY <2>1, <2>4 DEF FirstLen
<1>6. QED BY <1>2, <1>3, <1>4, <1>5

(* There are two toggles. *)
LEMMA FlipType ==
  ASSUME NEW t \in Togs
  PROVE  Flip(t) \in Togs /\ Flip(t) # t /\ \A u \in Togs : u # t => u = Flip(t)
  BY DEF Togs, Flip

(* One toggle of the host changes. *)
LEMMA HostTogExcept ==
  ASSUME HostTogType, NEW t \in Togs
  PROVE  /\ [hostTog EXCEPT !.ep0 = t] = [ep0 |-> t, out |-> hostTog.out, in |-> hostTog.in]
         /\ [hostTog EXCEPT !.out = t] = [ep0 |-> hostTog.ep0, out |-> t, in |-> hostTog.in]
         /\ [hostTog EXCEPT !.in = t] = [ep0 |-> hostTog.ep0, out |-> hostTog.out, in |-> t]
         /\ hostTog.ep0 \in Togs /\ hostTog.out \in Togs /\ hostTog.in \in Togs
         /\ {[hostTog EXCEPT !.ep0 = t], [hostTog EXCEPT !.out = t], [hostTog EXCEPT !.in = t]}
              \subseteq [ep0 : Togs, out : Togs, in : Togs]
  BY DEF HostTogType

(* The fields of R8_UEP2_CTRL change. *)
LEMMA Ep2Except ==
  ASSUME NEW e \in Ep2Type, NEW t \in Togs, NEW a \in {"ACK", "NAK"}
  PROVE  /\ [e EXCEPT !.rtog = t] = [rtog |-> t, ttog |-> e.ttog, tres |-> e.tres]
         /\ [e EXCEPT !.tres = a] = [rtog |-> e.rtog, ttog |-> e.ttog, tres |-> a]
         /\ e.rtog \in Togs /\ e.ttog \in Togs /\ e.tres \in {"ACK", "NAK"}
         /\ {[e EXCEPT !.rtog = t], [e EXCEPT !.tres = a], [rtog |-> e.rtog, ttog |-> t, tres |-> a]}
              \subseteq Ep2Type
<1>1. e.rtog \in Togs /\ e.ttog \in Togs /\ e.tres \in {"ACK", "NAK"}
  BY DEF Ep2Type
<1>2. [e EXCEPT !.rtog = t] = [rtog |-> t, ttog |-> e.ttog, tres |-> e.tres]
  BY DEF Ep2Type
<1>4. [e EXCEPT !.tres = a] = [rtog |-> e.rtog, ttog |-> e.ttog, tres |-> a]
  BY DEF Ep2Type
<1>5. [rtog |-> e.rtog, ttog |-> t, tres |-> a] \in Ep2Type
  BY <1>1 DEF Ep2Type
<1>7. [e EXCEPT !.rtog = t] \in Ep2Type /\ [e EXCEPT !.tres = a] \in Ep2Type
  BY DEF Ep2Type
<1>6. QED BY <1>1, <1>2, <1>4, <1>5, <1>7

(* Some assumptions on their own. *)
LEMMA Bounds == MaxPackets \in Nat /\ DevEP0SIZE \in Nat /\ DevEP0SIZE >= 3
  BY UsbAssumption

-----------------------------------------------------------------------------
(* What an IN transaction on endpoint 0 changes, on the host's side ...    *)
LEMMA HostTakesType ==
  ASSUME TypeOK, CtlInv, InToken, HostTakes
  PROVE  /\ HostTogType'
         /\ hostAddr' \in 0 .. 127
         /\ stage' \in {"idle", "data", "status IN", "status OUT"}
         /\ hostTog'.ep0 \in Togs
<1>1. stage \in {"data", "status IN"} /\ req \in Reads \cup Writes
  BY DEF InToken, TypeOK, ControlType
<1>2. hostAddr' \in 0 .. 127
  <2>1. stage = "status IN" /\ req.code = "SET_ADDRESS" /\ req.type = "standard" => req.n \in 1 .. 127
    BY <1>1, WriteType DEF CtlInv
  <2>2. \/ hostAddr' = hostAddr
        \/ stage # "data" /\ req.code = "SET_ADDRESS" /\ req.type = "standard" /\ hostAddr' = req.n
    BY DEF HostTakes
  <2>3. CASE hostAddr' = hostAddr
    BY <2>3 DEF TypeOK, ControlType
  <2>4. CASE hostAddr' # hostAddr
    <3>1. req.n \in 1 .. 127 /\ hostAddr' = req.n
      BY <1>1, <2>1, <2>2, <2>4
    <3>2. QED BY <3>1
  <2>5. QED BY <2>3, <2>4
<1>3. HostTogType' /\ hostTog'.ep0 \in Togs
  <2>1. \/ hostTog' = hostTog
        \/ hostTog' = [hostTog EXCEPT !.ep0 = Flip(hostTog.ep0)]
        \/ hostTog' = [hostTog EXCEPT !.in = 0]
        \/ hostTog' = [hostTog EXCEPT !.out = 0]
    BY DEF HostTakes
  <2>2. HostTogType /\ 0 \in Togs
    BY DEF TypeOK, Togs
  <2>3. Flip(hostTog.ep0) \in Togs
    BY <2>2, HostTogExcept, FlipType
  <2>4. hostTog' \in [ep0 : Togs, out : Togs, in : Togs]
    BY <2>1, <2>2, <2>3, HostTogExcept DEF HostTogType
  <2>5. QED BY <2>4 DEF HostTogType
<1>4. stage' \in {"idle", "data", "status IN", "status OUT"}
  BY <1>1 DEF HostTakes, Ends
<1>5. QED BY <1>2, <1>3, <1>4

(* ... and on the device's.                                                *)
LEMMA InAcknowledgedType ==
  ASSUME TypeOK, CtlInv, InToken, InAcknowledged
  PROVE  /\ devAddr' \in 0 .. 127 /\ SetupReqLen' \in Nat
         /\ ep0'.ttog \in Togs /\ ep0'.tres \in {"ACK", "NAK", "STALL"}
<1>1. /\ stage \in {"data", "status IN"} /\ req \in Reads \cup Writes
      /\ SetupReqCode = req.code /\ ep0.ttog \in Togs /\ ep0.tres \in {"ACK", "NAK", "STALL"}
      /\ SetupReqLen \in Nat /\ devAddr \in 0 .. 127
  BY DEF InToken, TypeOK, ControlType, CtlInv
<1>2. CASE SetupReqCode = "GET_DESCRIPTOR"
  <2>1. NextPiece
    BY <1>2 DEF InAcknowledged
  <2> DEFINE len == Min2(SetupReqLen, DevEP0SIZE)
  <2>2. len \in Nat /\ len <= SetupReqLen
    BY <1>1, Bounds, Min2Type
  <2>3. /\ SetupReqLen' = SetupReqLen - len /\ devAddr' = devAddr
        /\ ep0'.ttog = Flip(ep0.ttog) /\ ep0'.tres = ep0.tres
    BY <2>1 DEF NextPiece, NextRes
  <2> HIDE DEF len
  <2>4. SetupReqLen' \in Nat
    <3>1. SetupReqLen \in Nat /\ SetupReqLen' = SetupReqLen - len
      BY <1>1, <2>3
    <3>2. QED BY <2>2, <3>1
  <2>5. QED BY <1>1, <2>3, <2>4, FlipType
<1>3. CASE SetupReqCode = "SET_ADDRESS"
  <2>1. devAddr' = SetupReqLen % 128 /\ Idle0 /\ UNCHANGED SetupReqLen
    BY <1>3 DEF InAcknowledged
  <2>2. SetupReqLen % 128 \in 0 .. 127
    <3>1. SetupReqLen \in Nat
      BY <1>1
    <3>2. QED BY <3>1
  <2>3. ep0'.ttog \in Togs /\ ep0'.tres \in {"ACK", "NAK", "STALL"}
    BY <2>1 DEF Idle0, Togs
  <2>4. QED BY <1>1, <2>1, <2>2, <2>3
<1>4. CASE SetupReqCode \notin {"GET_DESCRIPTOR", "SET_ADDRESS"}
  <2>1. Idle0 /\ UNCHANGED <<devAddr, SetupReqLen>>
    BY <1>4 DEF InAcknowledged
  <2>2. QED BY <1>1, <2>1 DEF Idle0, Togs
<1>5. QED BY <1>2, <1>3, <1>4

(* Resets change the parity of the pipes. *)
LEMMA ResetsType ==
  ASSUME TypeOK, NEW pipes \in SUBSET {"in", "out"}, Resets(pipes)
  PROVE  raced' \subseteq {"in", "out"} /\ resets' \in [{"in", "out"} -> {0, 1}]
<1>1. raced' \subseteq {"in", "out"}
  BY DEF TypeOK, PacketType, Resets, Race
<1>2. resets' \in [{"in", "out"} -> {0, 1}]
  BY DEF TypeOK, PacketType, Resets, Flip
<1>3. QED BY <1>1, <1>2

(* A SETUP keeps the types ... *)
LEMMA TypeSetup ==
  ASSUME TypeOK, NEW r \in Reads \cup Writes, Setup(r)
  PROVE  TypeOK'
<1>1. SetupReqLen' \in Nat
  <2>1. CASE r \in Reads
    <3>1. SetupReqLen' \in {ToUpload(r), ToUpload(r) - FirstLen(r)}
      BY <2>1 DEF Setup, SetupReceived, IsRead
    <3>2. ToUpload(r) \in Nat /\ FirstLen(r) \in Nat /\ FirstLen(r) <= ToUpload(r)
      BY <2>1, WantType
    <3>3. QED BY <3>1, <3>2
  <2>2. CASE r \notin Reads
    <3>1. SetupReqLen' = r.n
      BY <2>2 DEF Setup, SetupReceived, IsRead
    <3>2. QED BY <2>2, <3>1, WriteType
  <2>3. QED BY <2>1, <2>2
<1>2. ep0'.ttog = 1 /\ ep0'.tres \in {"ACK", "NAK", "STALL"}
  BY DEF Setup, SetupReceived
<1>3. stage' \in {"data", "status IN"} /\ req' = r /\ devAddr' = devAddr /\ hostAddr' = hostAddr
  BY DEF Setup, SetupReceived, AddressAfterSetup
<1>4. ControlType'
  BY <1>1, <1>2, <1>3 DEF TypeOK, ControlType, Togs
<1>5. ep2' \in Ep2Type
  <2>1. \/ ep2' = ep2
        \/ ep2' = [rtog |-> ep2.rtog, ttog |-> 0, tres |-> "NAK"]
        \/ ep2' = [ep2 EXCEPT !.rtog = 0]
    BY DEF Setup, Cleared
  <2>2. ep2 \in Ep2Type /\ 0 \in Togs
    BY DEF TypeOK, PacketType, Togs
  <2>3. [ep2 EXCEPT !.rtog = 0] \in Ep2Type /\ [rtog |-> ep2.rtog, ttog |-> 0, tres |-> "NAK"] \in Ep2Type
    BY <2>2, Ep2Except
  <2>4. QED BY <2>1, <2>2, <2>3
<1>6. PacketType'
  <2>1. raced' \subseteq {"in", "out"} /\ resets' \in [{"in", "out"} -> {0, 1}]
    <3>1. CASE r.code = "clear IN"
      BY <3>1, ResetsType DEF Setup
    <3>2. CASE r.code = "clear OUT"
      BY <3>2, ResetsType DEF Setup
    <3>3. CASE r.code \notin {"clear IN", "clear OUT"}
      BY <3>3, ResetsType DEF Setup
    <3>4. QED BY <3>1, <3>2, <3>3
  <2>2. QED BY <1>5, <2>1 DEF TypeOK, PacketType, Setup, inVars, outVars
<1>7. HostTogType'
  <2>1. hostTog' = [hostTog EXCEPT !.ep0 = 1] /\ HostTogType /\ 1 \in Togs
    BY DEF Setup, TypeOK, Togs
  <2>2. hostTog' \in [ep0 : Togs, out : Togs, in : Togs]
    BY <2>1, HostTogExcept
  <2>3. QED BY <2>2 DEF HostTogType
<1>8. QED BY <1>4, <1>6, <1>7 DEF TypeOK

(* ... and so does every step. *)
LEMMA TypeStep ==
  ASSUME TypeOK, CtlInv, OutInv, InInv, [Next]_vars
  PROVE  TypeOK'
<1> SUFFICES ASSUME Next PROVE TypeOK'
  BY Zenon DEF vars, devVars, ctlVars, inVars, outVars, raceVars, TypeOK, ControlType, PacketType, HostTogType
<1>0. ep2 \in Ep2Type /\ hostTog.out \in Togs /\ hostTog.in \in Togs /\ HostTogType /\ 0 \in Togs
  <2>1. ep2 \in Ep2Type /\ HostTogType /\ 0 \in Togs
    BY DEF TypeOK, PacketType, Togs
  <2>2. QED BY <2>1, HostTogExcept
<1>1. ASSUME NEW r \in Reads \cup Writes, Setup(r)
      PROVE  TypeOK'
  BY <1>1, TypeSetup
<1>2. CASE In0
  <2>1. InToken /\ HostTakes /\ InAcknowledged
    BY <1>2 DEF In0
  <2>2. req' = req /\ req \in Reads \cup Writes
    BY <1>2 DEF In0, InToken, TypeOK, ControlType
  <2>3. ControlType' /\ HostTogType'
    BY <2>1, <2>2, HostTakesType, InAcknowledgedType DEF ControlType
  <2>4. PacketType'
    BY <1>2 DEF In0, TypeOK, PacketType, inVars, outVars, raceVars
  <2>5. QED BY <2>3, <2>4 DEF TypeOK
<1>3. CASE In0_AckLost
  <2>1. InToken /\ HostTakes
    BY <1>3 DEF In0_AckLost
  <2>2. req' = req /\ req \in Reads \cup Writes /\ UNCHANGED <<devAddr, SetupReqLen, ep0>>
    BY <1>3 DEF In0_AckLost, InToken, TypeOK, ControlType, devVars
  <2>3. ControlType' /\ HostTogType'
    BY <2>1, <2>2, HostTakesType DEF TypeOK, ControlType
  <2>4. PacketType'
    BY <1>3 DEF In0_AckLost, TypeOK, PacketType, inVars, outVars, raceVars
  <2>5. QED BY <2>3, <2>4 DEF TypeOK
<1>4. CASE Stall0 \/ Out0
  <2>1. /\ stage' = "idle" /\ UNCHANGED <<devAddr, hostAddr, SetupReqLen, ep0, hostTog>>
        /\ UNCHANGED <<ep2, reg, chunk, taken, outNo, dealt, outPending, raced, resets>>
    BY <1>4 DEF Stall0, Out0, Ends, devVars, inVars, outVars, raceVars
  <2>2. ControlType'
    BY <2>1 DEF TypeOK, ControlType
  <2>3. QED BY <2>1, <2>2 DEF TypeOK, PacketType, HostTogType
<1>5. CASE HostSends
  <2>1. outNo' \in 0 .. MaxPackets
    <3>1. outNo \in 0 .. MaxPackets /\ outNo < MaxPackets /\ outNo' = outNo + 1
      BY <1>5 DEF HostSends, TypeOK, PacketType
    <3>2. QED BY <3>1, Bounds
  <2>2. PacketType'
    BY <1>5, <2>1 DEF HostSends, TypeOK, PacketType, inVars, raceVars
  <2>3. ControlType' /\ HostTogType'
    BY <1>5, Zenon DEF HostSends, TypeOK, ControlType, HostTogType, devVars, ctlVars
  <2>4. QED BY <2>2, <2>3 DEF TypeOK
<1>6. CASE Out2 \/ Out2_AckLost
  <2>1. Deal /\ outPending' \in BOOLEAN /\ UNCHANGED <<reg, chunk, taken, outNo, resets>> /\ Race({"out"})
    BY <1>6 DEF Out2, Out2_AckLost, TypeOK, PacketType, inVars
  <2>2. dealt' \in Seq(1 .. MaxPackets) /\ raced' \subseteq {"in", "out"}
    <3>0. outNo \in 0 .. MaxPackets /\ outNo >= 1 /\ dealt \in Seq(1 .. MaxPackets)
      BY <1>6 DEF OutInv, Out2, Out2_AckLost, TypeOK, PacketType
    <3>1. outNo \in 1 .. MaxPackets
      BY <3>0, Bounds
    <3>2. Append(dealt, outNo) \in Seq(1 .. MaxPackets)
      BY <3>0, <3>1, AppendProperties
    <3>3. dealt' \in Seq(1 .. MaxPackets)
      BY <2>1, <3>0, <3>2 DEF Deal
    <3>4. QED BY <2>1, <3>3 DEF Race, TypeOK, PacketType
  <2>3. ep2' \in Ep2Type
    <3>1. ep2' = ep2 \/ ep2' = [ep2 EXCEPT !.rtog = Flip(ep2.rtog)]
      BY <2>1 DEF Deal
    <3>2. ep2.rtog \in Togs
      BY <1>0 DEF Ep2Type
    <3>3. [ep2 EXCEPT !.rtog = Flip(ep2.rtog)] \in Ep2Type
      BY <1>0, <3>2, FlipType, Ep2Except
    <3>4. QED BY <1>0, <3>1, <3>3
  <2>4. HostTogType'
    <3>1. hostTog' = hostTog \/ hostTog' = [hostTog EXCEPT !.out = Flip(hostTog.out)]
      BY <1>6 DEF Out2, Out2_AckLost
    <3>2. [hostTog EXCEPT !.out = Flip(hostTog.out)] \in [ep0 : Togs, out : Togs, in : Togs]
      BY <1>0, FlipType, HostTogExcept
    <3>3. QED BY <1>0, <3>1, <3>2 DEF HostTogType
  <2>5. ControlType'
    BY <1>6, Zenon DEF Out2, Out2_AckLost, TypeOK, ControlType, devVars, ctlVars
  <2>6. QED BY <2>1, <2>2, <2>3, <2>4, <2>5 DEF TypeOK, PacketType
<1>7. CASE Fill
  <2>1. chunk' \in 0 .. MaxPackets
    <3>1. chunk \in 0 .. MaxPackets /\ chunk < MaxPackets /\ chunk' = chunk + 1
      BY <1>7 DEF Fill, TypeOK, PacketType
    <3>2. QED BY <3>1, Bounds
  <2>2. PacketType'
    BY <1>7, <2>1 DEF Fill, TypeOK, PacketType, outVars, raceVars
  <2>3. ControlType' /\ HostTogType'
    BY <1>7, Zenon DEF Fill, TypeOK, ControlType, HostTogType, devVars, ctlVars
  <2>4. QED BY <2>2, <2>3 DEF TypeOK
<1>8. CASE DevEP2_IN_Deal
  <2>1. ep2' \in Ep2Type
    <3>1. reg \in Ep2Type /\ ep2' = [reg EXCEPT !.tres = "ACK"]
      BY <1>8 DEF DevEP2_IN_Deal, TypeOK, PacketType
    <3>2. [reg EXCEPT !.tres = "ACK"] \in Ep2Type
      BY <1>0, <3>1, Ep2Except
    <3>3. QED BY <3>1, <3>2
  <2>2. PacketType'
    BY <1>8, <2>1 DEF DevEP2_IN_Deal, TypeOK, PacketType, outVars
  <2>3. ControlType' /\ HostTogType'
    BY <1>8, Zenon DEF DevEP2_IN_Deal, TypeOK, ControlType, HostTogType, devVars, ctlVars
  <2>4. QED BY <2>2, <2>3 DEF TypeOK
<1>9. CASE In2 \/ In2_AckLost
  <2>1. HostTakes2 /\ UNCHANGED <<reg, chunk, outNo, dealt, outPending, raced, resets>>
    BY <1>9 DEF In2, In2_AckLost, outVars, raceVars
  <2>2. taken' \in Seq(1 .. MaxPackets)
    <3>1. chunk \in 1 .. MaxPackets /\ taken \in Seq(1 .. MaxPackets)
      BY <1>9 DEF InInv, In2, In2_AckLost, TypeOK, PacketType
    <3>2. Append(taken, chunk) \in Seq(1 .. MaxPackets)
      BY <3>1, AppendProperties
    <3>3. QED BY <2>1, <3>1, <3>2 DEF HostTakes2
  <2>3. HostTogType'
    <3>1. hostTog' = hostTog \/ hostTog' = [hostTog EXCEPT !.in = Flip(hostTog.in)]
      BY <2>1 DEF HostTakes2
    <3>2. [hostTog EXCEPT !.in = Flip(hostTog.in)] \in [ep0 : Togs, out : Togs, in : Togs]
      BY <1>0, FlipType, HostTogExcept
    <3>3. QED BY <1>0, <3>1, <3>2 DEF HostTogType
  <2>4. ep2' \in Ep2Type
    <3>1. ep2' = ep2 \/ ep2' = [rtog |-> ep2.rtog, ttog |-> Flip(ep2.ttog), tres |-> "NAK"]
      BY <1>9 DEF In2, In2_AckLost, In2Acknowledged
    <3>2. ep2.ttog \in Togs
      BY <1>0 DEF Ep2Type
    <3>3. [rtog |-> ep2.rtog, ttog |-> Flip(ep2.ttog), tres |-> "NAK"] \in Ep2Type
      BY <1>0, <3>2, FlipType, Ep2Except
    <3>4. QED BY <1>0, <3>1, <3>3
  <2>5. ControlType'
    BY <1>9, Zenon DEF In2, In2_AckLost, TypeOK, ControlType, devVars, ctlVars
  <2>6. PacketType'
    BY <2>1, <2>2, <2>4 DEF TypeOK, PacketType
  <2>7. QED BY <2>3, <2>5, <2>6 DEF TypeOK
<1>10. CASE BusReset
  <2>1. ControlType'
    <3>1. SetupReqLen \in Nat
      BY DEF TypeOK, ControlType
    <3>2. /\ devAddr' = 0 /\ hostAddr' = 0 /\ SetupReqLen' = SetupReqLen /\ stage' = "idle"
          /\ ep0'.ttog \in Togs /\ ep0'.tres = "NAK"
      BY <1>10 DEF BusReset, Idle0, Togs
    <3>3. 0 \in 0 .. 127
      OBVIOUS
    <3>4. QED BY <3>1, <3>2, <3>3 DEF ControlType
  <2>2. HostTogType' /\ ep2' \in Ep2Type
    BY <1>10 DEF BusReset, HostTogReset, Ep2Reset, HostTogType, Ep2Type, Togs
  <2>3. PacketType'
    <3>1. raced' \subseteq {"in", "out"} /\ resets' \in [{"in", "out"} -> {0, 1}]
      BY <1>10, ResetsType DEF BusReset
    <3>2. QED BY <1>10, <2>2, <3>1 DEF BusReset, TypeOK, PacketType, inVars
  <2>4. QED BY <2>1, <2>2, <2>3 DEF TypeOK
<1>11. QED
  BY <1>1, <1>2, <1>3, <1>4, <1>5, <1>6, <1>7, <1>8, <1>9, <1>10 DEF Next, Control

-----------------------------------------------------------------------------
(* The steps that leave the control transfer alone. *)
Elsewhere == HostSends \/ Out2 \/ Out2_AckLost \/ Fill \/ DevEP2_IN_Deal \/ In2 \/ In2_AckLost

(* They change nothing that endpoint 0 depends on. *)
LEMMA ElsewhereLeaves ==
  ASSUME HostTogType, Elsewhere
  PROVE  /\ UNCHANGED <<devAddr, SetupReqCode, SetupReqLen, pDescr, ep0>>
         /\ UNCHANGED <<stage, req, got, hostAddr, parted>>
         /\ hostTog'.ep0 = hostTog.ep0
<1>1. UNCHANGED <<devAddr, SetupReqCode, SetupReqLen, pDescr, ep0, stage, req, got, hostAddr, parted>>
  BY Zenon DEF Elsewhere, HostSends, Out2, Out2_AckLost, Fill, DevEP2_IN_Deal, In2, In2_AckLost,
     devVars, ctlVars
<1>2. \/ hostTog' = hostTog
      \/ hostTog' = [hostTog EXCEPT !.out = Flip(hostTog.out)]
      \/ hostTog' = [hostTog EXCEPT !.in = Flip(hostTog.in)]
  BY DEF Elsewhere, HostSends, Out2, Out2_AckLost, Fill, DevEP2_IN_Deal, In2, In2_AckLost, HostTakes2
<1>3. hostTog'.ep0 = hostTog.ep0
  BY <1>2 DEF HostTogType
<1>4. QED BY <1>1, <1>3

(* Every step keeps device and host at the same request. *)
LEMMA CtlStep ==
  ASSUME TypeOK, CtlInv, [Next]_vars
  PROVE  CtlInv'
<1> SUFFICES ASSUME Next PROVE CtlInv'
  BY Zenon DEF vars, devVars, ctlVars, CtlInv, Stalls
<1>1. ASSUME NEW r \in Reads \cup Writes, Setup(r)
      PROVE  CtlInv'
  <2>1. /\ stage' = IF r \in Reads THEN "data" ELSE "status IN"
        /\ req' = r /\ SetupReqCode' = r.code
        /\ r \notin Reads => SetupReqLen' = r.n
        /\ ep0'.ttog = 1 /\ ep0'.tres = IF Stalls(r) THEN "STALL" ELSE "ACK"
        /\ hostTog' = [hostTog EXCEPT !.ep0 = 1]
    BY <1>1 DEF Setup, SetupReceived, IsRead
  <2>2. hostTog'.ep0 = 1
    BY <2>1 DEF TypeOK, HostTogType
  <2>3. Stalls(req)' = Stalls(r)
    BY <2>1 DEF Stalls
  <2>4. QED BY <2>1, <2>2, <2>3 DEF CtlInv
<1>2. CASE In0 \/ In0_AckLost
  <2>1. HostTakes /\ InToken /\ req' = req /\ SetupReqCode' = SetupReqCode
    BY <1>2 DEF In0, In0_AckLost, InAcknowledged, devVars
  <2>2. CASE stage = "data"
    <3>1. stage' \in {"data", "status OUT"}
      BY <2>1, <2>2 DEF HostTakes
    <3>2. QED BY <2>1, <2>2, <3>1 DEF CtlInv
  <2>3. CASE stage = "status IN"
    <3>1. stage' = "idle"
      BY <2>1, <2>3 DEF HostTakes, Ends, CtlInv
    <3>2. QED BY <3>1 DEF CtlInv
  <2>4. QED BY <2>1, <2>2, <2>3 DEF InToken
<1>3. CASE Stall0 \/ Out0 \/ BusReset
  <2>1. stage' = "idle"
    BY <1>3 DEF Stall0, Out0, Ends, BusReset
  <2>2. QED BY <2>1 DEF CtlInv
<1>4. CASE Elsewhere
  BY <1>4, ElsewhereLeaves DEF TypeOK, CtlInv, Stalls
<1>5. QED BY <1>1, <1>2, <1>3, <1>4 DEF Next, Control, Elsewhere

(* Every step keeps the addresses equal. *)
LEMMA AddressStep ==
  ASSUME TypeOK, CtlInv, AddressesAgree, [Next]_vars
  PROVE  AddressesAgree'
<1> SUFFICES ASSUME Next PROVE AddressesAgree'
  BY DEF vars, devVars, ctlVars, AddressesAgree
<1>1. ASSUME NEW r \in Reads \cup Writes, Setup(r)
      PROVE  AddressesAgree'
  BY <1>1 DEF Setup, SetupReceived, AddressAfterSetup, AddressesAgree
<1>2. CASE In0
  <2>1. /\ HostTakes /\ InAcknowledged /\ stage \in {"data", "status IN"}
        /\ SetupReqCode = req.code /\ req \in Reads \cup Writes
        /\ parted' = (parted \/ (req.code = "SET_ADDRESS" /\ req.type = "class"))
    BY <1>2 DEF In0, InToken, CtlInv, TypeOK, ControlType
  <2>2. CASE req.code # "SET_ADDRESS"
    <3>1. devAddr' = devAddr
      BY <2>1, <2>2 DEF InAcknowledged, NextPiece
    <3>2. hostAddr' = hostAddr
      BY <2>2 , <2>1 DEF HostTakes
    <3>3. QED BY <2>1, <3>1, <3>2 DEF AddressesAgree
  <2>3. CASE req.code = "SET_ADDRESS" /\ req.type = "class"
    BY <2>1, <2>3 DEF AddressesAgree
  <2>4. CASE req.code = "SET_ADDRESS" /\ req.type # "class"
    <3>1. stage = "status IN"
      BY <2>1, <2>4, ReadType DEF CtlInv
    <3>2. SetupReqLen = req.n /\ req.n \in 1 .. 127 /\ req.type = "standard"
      <4>1. req \notin Reads /\ SetupReqLen = req.n
        BY <3>1 DEF CtlInv
      <4>2. req.n \in 1 .. 127
        BY <2>1, <2>4, <4>1, WriteType
      <4>3. req.type = "standard"
        BY <2>1, <2>4, <4>1 DEF Writes
      <4>4. QED BY <4>1, <4>2, <4>3
    <3>3. hostAddr' = req.n
      BY <2>1, <2>4, <3>1, <3>2 DEF HostTakes, CtlInv
    <3>4. devAddr' = SetupReqLen % 128
      BY <2>1, <2>4 DEF InAcknowledged
    <3>5. devAddr' = hostAddr'
      BY <3>2, <3>3, <3>4
    <3>6. QED BY <3>5 DEF AddressesAgree
  <2>5. QED BY <2>2, <2>3, <2>4
<1>3. CASE In0_AckLost
  BY <1>3 DEF In0_AckLost, devVars, AddressesAgree
<1>4. CASE Stall0 \/ Out0 \/ BusReset
  BY <1>4 DEF Stall0, Out0, BusReset, devVars, AddressesAgree
<1>5. CASE Elsewhere
  BY <1>5, ElsewhereLeaves DEF TypeOK, AddressesAgree
<1>6. QED BY <1>1, <1>2, <1>3, <1>4, <1>5 DEF Next, Control, Elsewhere

-----------------------------------------------------------------------------
(* Bytes is a sequence. *)
LEMMA BytesType ==
  ASSUME NEW of, NEW from \in Nat, NEW n \in Nat
  PROVE  /\ Bytes(of, from, n) \in Seq({of} \X Int)
         /\ Len(Bytes(of, from, n)) = n
         /\ \A i \in 1 .. n : Bytes(of, from, n)[i] = <<of, from + i>>
<1>1. \A i \in 1 .. n : <<of, from + i>> \in {of} \X Int
  OBVIOUS
<1>2. Bytes(of, from, n) \in [1 .. n -> {of} \X Int]
  BY <1>1 DEF Bytes
<1>3. Bytes(of, from, n) \in Seq({of} \X Int)
  BY <1>2, SeqDef, ZenonT(30)
<1>4. Len(Bytes(of, from, n)) = n
  BY <1>2, <1>3, LenProperties, SMT
<1>5. QED BY <1>3, <1>4 DEF Bytes

(* A piece that follows continues the data. *)
LEMMA BytesConcat ==
  ASSUME NEW of, NEW a \in Nat, NEW c \in Nat
  PROVE  Bytes(of, 0, a) \o Bytes(of, a, c) = Bytes(of, 0, a + c)
<1> DEFINE S == {of} \X Int
<1> DEFINE x == Bytes(of, 0, a)
<1> DEFINE y == Bytes(of, a, c)
<1> DEFINE z == Bytes(of, 0, a + c)
<1>1. /\ x \in Seq(S) /\ Len(x) = a /\ \A i \in 1 .. a : x[i] = <<of, 0 + i>>
      /\ y \in Seq(S) /\ Len(y) = c /\ \A i \in 1 .. c : y[i] = <<of, a + i>>
  BY BytesType
<1>2. z \in Seq(S) /\ Len(z) = a + c /\ \A i \in 1 .. a + c : z[i] = <<of, 0 + i>>
  <2>1. a + c \in Nat /\ 0 \in Nat
    OBVIOUS
  <2>2. QED BY <2>1, BytesType
<1> HIDE DEF S, x, y, z
<1>3. /\ x \o y \in Seq(S) /\ Len(x \o y) = a + c
      /\ \A i \in 1 .. a + c : (x \o y)[i] = IF i <= a THEN x[i] ELSE y[i - a]
  BY <1>1, ConcatProperties
<1>4. ASSUME NEW i \in 1 .. a + c
      PROVE  (x \o y)[i] = z[i]
  <2>1. CASE i <= a
    <3>1. i \in 1 .. a
      BY <2>1
    <3>2. (x \o y)[i] = x[i] /\ x[i] = <<of, 0 + i>>
      BY <1>1, <1>3, <2>1, <3>1
    <3>3. QED BY <1>2, <3>2
  <2>2. CASE ~(i <= a)
    <3>1. i - a \in 1 .. c /\ a + (i - a) = 0 + i
      BY <2>2
    <3>2. (x \o y)[i] = y[i - a] /\ y[i - a] = <<of, a + (i - a)>>
      BY <1>1, <1>3, <2>2, <3>1
    <3>3. QED BY <1>2, <3>1, <3>2
  <2>3. QED BY <2>1, <2>2
<1>5. x \o y = z
  BY <1>2, <1>3, <1>4, SeqEqual
<1>6. QED BY <1>5 DEF x, y, z

(* No data are the empty sequence. *)
LEMMA BytesNone ==
  ASSUME NEW of, NEW from \in Nat
  PROVE  Bytes(of, from, 0) = << >>
<1>1. 0 \in Nat
  OBVIOUS
<1>2. Bytes(of, from, 0) \in Seq({of} \X Int) /\ Len(Bytes(of, from, 0)) = 0
  BY <1>1, BytesType
<1>3. QED BY <1>2, EmptySeq

(* The numbers of a transfer in its data stage. *)
LEMMA DataNumbers ==
  ASSUME CtlInv, DataInv, stage = "data", Served(req), ~Stalls(req)
  PROVE  /\ req \in Reads /\ Want(req) \in Nat /\ req.n \in Nat /\ Want(req) <= req.n
         /\ Len(got) \in Nat /\ Len(got) <= Want(req)
         /\ Rest \in Nat /\ Piece \in Nat /\ Piece <= Rest /\ Piece <= DevEP0SIZE
         /\ Piece < DevEP0SIZE => Piece = Rest
         /\ DevEP0SIZE \in Nat
<1>1. req \in Reads
  BY DEF CtlInv
<1>2. Want(req) \in Nat /\ req.n \in Nat /\ Want(req) <= req.n
  BY <1>1, WantType, ReadType
<1>3. Len(got) \in Nat /\ Len(got) <= Want(req)
  BY <1>2 DEF DataInv
<1>4. Rest \in Nat
  BY <1>2, <1>3 DEF Rest
<1>5. Piece \in Nat /\ Piece <= Rest /\ Piece <= DevEP0SIZE
  BY <1>4, Bounds, Min2Type DEF Piece
<1>6. Piece < DevEP0SIZE => Piece = Rest
  BY <1>4, Bounds DEF Piece, Min2
<1>7. QED BY <1>1, <1>2, <1>3, <1>4, <1>5, <1>6, Bounds

(* The host takes a packet with the toggle it expects: it has all data, or *)
(* the packet was full and there is more.                                  *)
LEMMA Taking ==
  ASSUME TypeOK, CtlInv, DataInv, stage = "data", Served(req), InToken, HostTakes,
         ep0.ttog = hostTog.ep0
  PROVE  /\ ~Stalls(req)
         /\ got' = Bytes(req.of, 0, Len(got) + Piece) /\ Len(got') = Len(got) + Piece
         /\ hostTog'.ep0 = Flip(hostTog.ep0)
         /\ \/ stage' = "status OUT" /\ Len(got) + Piece = Want(req)
            \/ /\ stage' = "data" /\ Piece = DevEP0SIZE
               /\ req.code = "GET_DESCRIPTOR" /\ req.of \in DOMAIN Descr
<1> DEFINE g == Len(got)
<1> DEFINE c == Piece
<1> DEFINE W == Want(req)
<1>1. ~Stalls(req)
  BY DEF DataInv, InToken
<1>2. /\ req \in Reads /\ W \in Nat /\ req.n \in Nat /\ W <= req.n /\ g \in Nat /\ g <= W
      /\ Rest \in Nat /\ c \in Nat /\ c <= Rest /\ c <= DevEP0SIZE
      /\ c < DevEP0SIZE => c = Rest
      /\ DevEP0SIZE \in Nat
  BY <1>1, DataNumbers
<1>3. Rest = W - g
  BY DEF Rest
<1>4. got = Bytes(req.of, 0, g) /\ ep0.buf = Bytes(req.of, g, c)
  BY <1>1 DEF DataInv, Untaken
<1>5. got' = got \o ep0.buf
  BY DEF HostTakes
<1>6. stage' = IF Len(ep0.buf) < DevEP0SIZE \/ Len(got') >= req.n THEN "status OUT" ELSE stage
  BY DEF HostTakes
<1>7. hostTog'.ep0 = Flip(hostTog.ep0)
  BY DEF HostTakes, TypeOK, HostTogType
<1> HIDE DEF g, c, W
<1>8. got' = Bytes(req.of, 0, g + c)
  <2>1. g \in Nat /\ c \in Nat
    BY <1>2
  <2>2. Bytes(req.of, 0, g) \o Bytes(req.of, g, c) = Bytes(req.of, 0, g + c)
    BY <2>1, BytesConcat
  <2>3. QED BY <1>4, <1>5, <2>2
<1>9. Len(got') = g + c /\ Len(ep0.buf) = c
  <2>1. g \in Nat /\ c \in Nat /\ g + c \in Nat /\ 0 \in Nat
    BY <1>2
  <2>2. Len(Bytes(req.of, g, c)) = c /\ Len(Bytes(req.of, 0, g + c)) = g + c
    BY <2>1, BytesType
  <2>3. QED BY <1>4, <1>8, <2>2
<1>10. CASE c < DevEP0SIZE \/ g + c >= req.n
  <2>1. g + c = W
    BY <1>2, <1>3, <1>10
  <2>2. QED BY <1>1, <1>6, <1>7, <1>8, <1>9, <1>10, <2>1 DEF g, c, W
<1>11. CASE ~(c < DevEP0SIZE \/ g + c >= req.n)
  <2>1. c = DevEP0SIZE /\ g + c < req.n
    BY <1>2, <1>11
  <2>2. c >= 3 /\ W >= 3 /\ W <= Source(req)
    <3>1. W <= Source(req)
      BY <1>2, WantType DEF W
    <3>2. QED BY <1>2, <1>3, <2>1, <3>1, Bounds
  <2>3. req.code = "GET_DESCRIPTOR"
    <3>1. SUFFICES ASSUME req.code # "GET_DESCRIPTOR" PROVE FALSE
      OBVIOUS
    <3>2. Source(req) \in Nat /\ Source(req) <= 2
      BY <1>2, <3>1, ReadType
    <3>3. QED BY <1>2, <2>2, <3>2
  <2>4. req.of \in DOMAIN Descr
    <3>1. SUFFICES ASSUME req.of \notin DOMAIN Descr PROVE FALSE
      OBVIOUS
    <3>2. Source(req) = 0
      BY <1>2, <2>3, <3>1, ReadType
    <3>3. QED BY <1>2, <2>2, <3>2
  <2>5. stage' = "data"
    BY <1>6, <1>9, <1>11
  <2>6. QED BY <1>1, <1>7, <1>8, <1>9, <2>1, <2>3, <2>4, <2>5 DEF g, c
<1>12. QED BY <1>10, <1>11

(* A packet that the device prepares after an acknowledged one. *)
LEMMA NextPieceFits ==
  ASSUME NextPiece, NEW g \in Nat, NEW W \in Nat, g <= W,
         SetupReqLen = W - g, pDescr = [of |-> req.of, at |-> g],
         req' = req, Len(got') = g, Want(req)' = W
  PROVE  Untaken' /\ ep0'.ttog = Flip(ep0.ttog) /\ ep0'.tres = ep0.tres
<1> DEFINE len == Min2(SetupReqLen, DevEP0SIZE)
<1>1. /\ ep0'.buf = Bytes(pDescr.of, pDescr.at, len)
      /\ SetupReqLen' = SetupReqLen - len
      /\ pDescr' = [pDescr EXCEPT !.at = @ + len]
      /\ ep0'.ttog = Flip(ep0.ttog) /\ ep0'.tres = ep0.tres
  BY DEF NextPiece, NextRes
<1>2. Rest' = W - g
  BY DEF Rest
<1>3. Piece' = len
  BY <1>2 DEF Piece
<1>4. ep0'.buf = Bytes(req.of, g, len)
  BY <1>1
<1>5. pDescr' = [of |-> req.of, at |-> g + len]
  BY <1>1
<1> HIDE DEF len
<1>6. SetupReqLen' = Rest' - Piece'
  BY <1>1, <1>2, <1>3
<1>7. QED BY <1>1, <1>3, <1>4, <1>5, <1>6 DEF Untaken

(* Every step keeps the position in the data. *)
LEMMA DataStep ==
  ASSUME TypeOK, CtlInv, DataInv, ReadsAreWhole, [Next]_vars
  PROVE  DataInv' /\ ReadsAreWhole'
<1> DEFINE Goal == DataInv' /\ ReadsAreWhole'
<1>1. CASE UNCHANGED vars
  BY <1>1, Zenon DEF vars, devVars, ctlVars, DataInv, ReadsAreWhole, Untaken, Repeated, Stalls, Want,
     Rest, Piece, Source, Served
<1>2. ASSUME NEW r \in Reads \cup Writes, Setup(r)
      PROVE  Goal
  <2>1. /\ req' = r /\ got' = << >> /\ stage' = IF r \in Reads THEN "data" ELSE "status IN"
        /\ ep0'.ttog = 1 /\ hostTog' = [hostTog EXCEPT !.ep0 = 1]
        /\ ep0'.tres = IF Stalls(r) THEN "STALL" ELSE "ACK"
        /\ pDescr' = Loaded(r)
        /\ r \in Reads /\ ~Stalls(r) => /\ ep0'.buf = FirstPacket(r)
                                       /\ SetupReqLen' = ToUpload(r) - FirstLen(r)
    BY <1>2 DEF Setup, SetupReceived, IsRead
  <2>2. ReadsAreWhole'
    BY <2>1 DEF ReadsAreWhole
  <2>3. CASE ~Served(r)
    BY <2>1, <2>2, <2>3 DEF DataInv, Served, Source
  <2>4. CASE Stalls(r)
    BY <2>1, <2>2, <2>4 DEF DataInv, Stalls
  <2>5. CASE Served(r) /\ ~Stalls(r)
    <3>0. r \in Reads
      BY <2>5 DEF Served
    <3>1. hostTog'.ep0 = 1
      BY <2>1 DEF TypeOK, HostTogType
    <3>2. Len(got') = 0
      BY <2>1
    <3>3. Want(req)' = Want(r) /\ Want(r) \in Nat /\ ToUpload(r) = Want(r)
          /\ FirstLen(r) = Min2(Want(r), DevEP0SIZE) /\ FirstLen(r) \in Nat
          /\ FirstPacket(r) = Bytes(r.of, 0, FirstLen(r))
      BY <2>1, <2>5, <3>0, WantType DEF Want, Source
    <3>4. Rest' = Want(r)
      BY <3>2, <3>3 DEF Rest
    <3>5. Piece' = FirstLen(r) /\ Len(got') + Piece' = FirstLen(r)
      BY <3>2, <3>3, <3>4 DEF Piece
    <3>6. r.code = "GET_DESCRIPTOR" /\ r.of \in DOMAIN Descr
            => pDescr' = [of |-> r.of, at |-> FirstLen(r)]
      BY <2>1, <3>0, UsbAssumption DEF Loaded, IsRead
    <3>7. Untaken'
      BY <2>1, <2>5, <3>0, <3>2, <3>3, <3>4, <3>5, <3>6 DEF Untaken
    <3>8. got' = Bytes(r.of, 0, Len(got')) /\ Len(got') \in 0 .. Want(req)'
      <4>1. Bytes(r.of, 0, 0) = << >>
        BY BytesNone
      <4>2. got' = Bytes(r.of, 0, Len(got'))
        BY <2>1, <3>2, <4>1
      <4>3. 0 \in 0 .. Want(r)
        BY <3>3
      <4>4. QED BY <3>2, <3>3, <4>2, <4>3
    <3>9. ~Stalls(req)' /\ ep0'.ttog = hostTog'.ep0
      BY <2>1, <2>5, <3>1 DEF Stalls
    <3>10. QED BY <2>1, <2>2, <3>7, <3>8, <3>9 DEF DataInv
  <2>6. QED BY <2>3, <2>4, <2>5
<1>3. CASE (In0 \/ In0_AckLost) /\ stage = "data" /\ ~Served(req)
  <2>1. req' = req
    BY <1>3 DEF In0, In0_AckLost
  <2>2. ~Served(req)'
    BY <1>3, <2>1 DEF Served, Source
  <2>3. QED BY <2>2 DEF DataInv, ReadsAreWhole
<1>4. CASE (In0 \/ In0_AckLost) /\ stage = "data" /\ Served(req)
  <2>1. InToken /\ HostTakes /\ req' = req
    BY <1>4 DEF In0, In0_AckLost
  <2>2. ~Stalls(req) /\ Stalls(req)' = Stalls(req) /\ Want(req)' = Want(req)
    BY <1>4, <2>1 DEF DataInv, InToken, Stalls, Want, Source
  <2>3. /\ req \in Reads /\ Want(req) \in Nat /\ Len(got) \in Nat /\ Len(got) <= Want(req)
        /\ Piece \in Nat /\ Piece <= Rest /\ Rest = Want(req) - Len(got)
    BY <1>4, <2>2, DataNumbers DEF Rest
  <2>4. hostTog.ep0 \in Togs /\ ep0.ttog \in Togs
    BY DEF TypeOK, ControlType, HostTogType
  <2>5. CASE ep0.ttog = hostTog.ep0
    <3> DEFINE g == Len(got) + Piece
    <3>1. /\ got' = Bytes(req.of, 0, g) /\ Len(got') = g
          /\ hostTog'.ep0 = Flip(hostTog.ep0)
          /\ \/ stage' = "status OUT" /\ g = Want(req)
             \/ /\ stage' = "data" /\ Piece = DevEP0SIZE
                /\ req.code = "GET_DESCRIPTOR" /\ req.of \in DOMAIN Descr
      BY <1>4, <2>1, <2>5, Taking
    <3>2. CASE stage' = "status OUT"
      <4>1. got' = Bytes(req.of, 0, Want(req))
        BY <3>1, <3>2
      <4>2. QED BY <2>1, <3>2, <4>1 DEF DataInv, ReadsAreWhole, Want, Source
    <3>3. CASE stage' = "data"
      <4>1. Piece = DevEP0SIZE /\ req.code = "GET_DESCRIPTOR" /\ req.of \in DOMAIN Descr
        BY <3>1, <3>3
      <4>2. g \in Nat /\ g <= Want(req) /\ g >= 1 /\ Rest - Piece = Want(req) - g
        BY <2>3, <4>1, Bounds
      <4>3. SetupReqLen = Rest - Piece /\ pDescr = [of |-> req.of, at |-> g]
        BY <1>4, <2>2, <2>5, <4>1 DEF DataInv, Untaken
      <4>4. ReadsAreWhole'
        BY <3>3 DEF ReadsAreWhole
      <4> HIDE DEF g
      <4>5. SetupReqLen = Want(req) - g
        BY <4>2, <4>3
      <4>6. CASE In0
        <5>1. NextPiece
          BY <1>4, <4>1, <4>6 DEF In0, InAcknowledged, CtlInv
        <5>2. Untaken' /\ ep0'.ttog = Flip(ep0.ttog)
          BY <2>1, <2>2, <2>3, <3>1, <4>2, <4>3, <4>5, <5>1, NextPieceFits
        <5>3. Len(got') \in 0 .. Want(req)'
          <6>1. g \in Nat /\ Want(req) \in Nat /\ g <= Want(req)
            BY <2>3, <4>2
          <6>2. g \in 0 .. Want(req)
            BY <6>1
          <6>3. Len(got') = g /\ Want(req)' = Want(req)
            BY <2>2, <3>1
          <6>4. QED BY <6>2, <6>3
        <5>4. QED BY <2>1, <2>2, <2>5, <3>1, <3>3, <4>4, <5>2, <5>3 DEF DataInv
      <4>7. CASE In0_AckLost
        <5>1. UNCHANGED <<SetupReqLen, pDescr, ep0>>
          BY <4>7 DEF In0_AckLost, devVars
        <5>2. Rest' = Want(req) - g
          BY <2>1, <2>2, <3>1 DEF Rest
        <5>3. Repeated'
          BY <2>1, <3>1, <4>1, <4>2, <4>3, <4>5, <5>1, <5>2 DEF Repeated
        <5>4. ep0'.ttog # hostTog'.ep0
          BY <2>4, <2>5, <3>1, <5>1, FlipType
        <5>5. Len(got') \in 0 .. Want(req)'
          <6>1. g \in Nat /\ Want(req) \in Nat /\ g <= Want(req)
            BY <2>3, <4>2
          <6>2. g \in 0 .. Want(req)
            BY <6>1
          <6>3. Len(got') = g /\ Want(req)' = Want(req)
            BY <2>2, <3>1
          <6>4. QED BY <6>2, <6>3
        <5>6. QED BY <2>1, <2>2, <3>1, <3>3, <4>4, <5>3, <5>4, <5>5 DEF DataInv
      <4>8. QED BY <1>4, <4>6, <4>7
    <3>4. QED BY <3>1, <3>2, <3>3
  <2>6. CASE ep0.ttog # hostTog.ep0
    <3>1. UNCHANGED <<stage, got, hostTog>>
      BY <2>1, <2>6 DEF HostTakes
    <3>2. Repeated
      BY <1>4, <2>2, <2>6 DEF DataInv
    <3>3. ReadsAreWhole'
      BY <1>4, <3>1 DEF ReadsAreWhole
    <3>4. got' = Bytes(req.of, 0, Len(got')) /\ Len(got') \in 0 .. Want(req)'
      BY <1>4, <2>2, <3>1 DEF DataInv
    <3>5. CASE In0
      <4>1. NextPiece
        BY <1>4, <3>2, <3>5 DEF In0, InAcknowledged, CtlInv, Repeated
      <4>2. Len(got') = Len(got) /\ SetupReqLen = Want(req) - Len(got)
            /\ pDescr = [of |-> req.of, at |-> Len(got)]
        BY <2>3, <3>1, <3>2 DEF Repeated
      <4>3. Untaken' /\ ep0'.ttog = Flip(ep0.ttog)
        BY <2>1, <2>2, <2>3, <4>1, <4>2, NextPieceFits
      <4>4. ep0'.ttog = hostTog'.ep0
        BY <2>4, <2>6, <3>1, <4>3, FlipType
      <4>5. QED BY <1>4, <2>1, <2>2, <3>1, <3>3, <3>4, <4>3, <4>4 DEF DataInv
    <3>6. CASE In0_AckLost
      <4>1. UNCHANGED <<SetupReqLen, pDescr, ep0>>
        BY <3>6 DEF In0_AckLost, devVars
      <4>2. Repeated'
        BY <2>1, <2>2, <3>1, <3>2, <4>1 DEF Repeated, Rest
      <4>3. QED BY <1>4, <2>1, <2>2, <2>6, <3>1, <3>3, <3>4, <4>1, <4>2 DEF DataInv
    <3>7. QED BY <1>4, <3>5, <3>6
  <2>7. QED BY <2>5, <2>6
<1>5. CASE (In0 \/ In0_AckLost) /\ stage # "data"
  <2>1. HostTakes /\ stage = "status IN" /\ req' = req
    BY <1>5 DEF In0, In0_AckLost, InToken
  <2>2. stage' = "idle" /\ req \notin Reads
    BY <2>1 DEF HostTakes, Ends, CtlInv
  <2>3. QED BY <2>1, <2>2 DEF DataInv, ReadsAreWhole, Served
<1>6. CASE Stall0 \/ BusReset
  <2>1. stage' = "idle" /\ req' = None
    BY <1>6 DEF Stall0, Ends, BusReset
  <2>2. None \notin Reads
    BY UsbAssumption
  <2>3. QED BY <2>1, <2>2 DEF DataInv, ReadsAreWhole, Served
<1>7. CASE Out0
  <2>1. stage = "status OUT" /\ stage' = "idle" /\ UNCHANGED <<req, got>>
    BY <1>7 DEF Out0, Ends
  <2>2. QED BY <2>1 DEF DataInv, ReadsAreWhole, Source, Served
<1>8. CASE Elsewhere
  <2>1. /\ UNCHANGED <<SetupReqLen, pDescr, ep0, stage, req, got>>
        /\ hostTog'.ep0 = hostTog.ep0
    BY <1>8, ElsewhereLeaves DEF TypeOK
  <2>2. DataInv'
    BY <2>1 DEF DataInv, Untaken, Repeated, Stalls, Want, Rest, Piece, Source, Served
  <2>3. QED BY <2>1, <2>2 DEF ReadsAreWhole, Source, Served
<1>9. QED BY <1>1, <1>2, <1>3, <1>4, <1>5, <1>6, <1>7, <1>8 DEF Next, Control, Elsewhere

-----------------------------------------------------------------------------
(* Requests that clear an endpoint have no data stage and are not refused. *)
LEMMA ClearingStage ==
  ASSUME TypeOK, CtlInv, stage # "idle", req.code \in {"clear IN", "clear OUT"}
  PROVE  stage = "status IN" /\ req \notin Reads /\ ep0.tres = "ACK" /\ ep0.ttog = hostTog.ep0
<1>1. req \notin Reads
  BY ReadType
<1>2. stage = "status IN"
  BY <1>1 DEF TypeOK, ControlType, CtlInv
<1>3. ~Stalls(req)
  BY <1>1 DEF Stalls, IsRead
<1>4. QED BY <1>1, <1>2, <1>3 DEF CtlInv

(* What a control step makes of the toggles of endpoint 2 on the host. *)
LEMMA HostTakesClears ==
  ASSUME TypeOK, CtlInv, InToken, HostTakes, req' = req
  PROVE  /\ ~ClearingOut' /\ OutTog' = OutTog
         /\ ~ClearingIn' /\ InTog' = InTog
<1>1. HostTogType
  BY DEF TypeOK
<1>2. CASE stage = "data"
  <2>1. req \in Reads /\ stage' \in {"data", "status OUT"}
    BY <1>2 DEF CtlInv, HostTakes
  <2>2. req.code \notin {"clear IN", "clear OUT"}
    BY <2>1, ReadType
  <2>3. hostTog' = hostTog \/ hostTog' = [hostTog EXCEPT !.ep0 = Flip(hostTog.ep0)]
    BY <1>2 DEF HostTakes
  <2>4. hostTog'.out = hostTog.out /\ hostTog'.in = hostTog.in
    BY <1>1, <2>3 DEF HostTogType
  <2>5. QED BY <2>2, <2>4 DEF ClearingOut, ClearingIn, OutTog, InTog
<1>3. CASE stage = "status IN"
  <2>1. stage' = "idle" /\ hostTog' = CASE req.code = "clear IN"  -> [hostTog EXCEPT !.in = 0]
                                       [] req.code = "clear OUT" -> [hostTog EXCEPT !.out = 0]
                                       [] OTHER -> hostTog
    BY <1>3 DEF HostTakes, Ends, CtlInv
  <2>2. CASE req.code = "clear IN"
    BY <1>1, <1>3, <2>1, <2>2 DEF HostTogType, ClearingOut, ClearingIn, OutTog, InTog
  <2>3. CASE req.code = "clear OUT"
    BY <1>1, <1>3, <2>1, <2>3 DEF HostTogType, ClearingOut, ClearingIn, OutTog, InTog
  <2>4. CASE req.code \notin {"clear IN", "clear OUT"}
    BY <2>1, <2>4 DEF ClearingOut, ClearingIn, OutTog, InTog
  <2>5. QED BY <2>2, <2>3, <2>4
<1>4. QED BY <1>2, <1>3 DEF InToken

(* What a SETUP makes of endpoint 2. *)
LEMMA SetupClears ==
  ASSUME TypeOK, NEW r \in Reads \cup Writes, Setup(r)
  PROVE  /\ ClearingOut' = (r.code = "clear OUT")
         /\ ClearingIn' = (r.code = "clear IN")
         /\ r.code = "clear OUT" => ~outPending
         /\ ep2'.rtog = IF r.code = "clear OUT" THEN 0 ELSE ep2.rtog
         /\ ep2'.ttog = IF r.code = "clear IN" THEN 0 ELSE ep2.ttog
         /\ ep2'.tres = IF r.code = "clear IN" THEN "NAK" ELSE ep2.tres
         /\ OutTog' = IF r.code = "clear OUT" THEN 0 ELSE OutTog
         /\ InTog' = IF r.code = "clear IN" THEN 0 ELSE InTog
         /\ Resets(IF r.code = "clear IN" THEN {"in"} ELSE IF r.code = "clear OUT" THEN {"out"} ELSE {})
         /\ UNCHANGED <<reg, chunk, taken, outNo, dealt, outPending>>
<1>1. ClearingOut' = (r.code = "clear OUT") /\ ClearingIn' = (r.code = "clear IN")
  BY DEF Setup, ClearingOut, ClearingIn
<1>2. /\ ClearingOut => r.code = "clear OUT"
      /\ ClearingIn => r.code = "clear IN"
      /\ r.code = "clear OUT" => ~outPending
  BY DEF Setup, MaySend, Clearing, ClearingOut, ClearingIn
<1>3. ep2 \in Ep2Type /\ Cleared(r)
  BY DEF TypeOK, PacketType, Setup
<1>4. /\ ep2'.rtog = IF r.code = "clear OUT" THEN 0 ELSE ep2.rtog
      /\ ep2'.ttog = IF r.code = "clear IN" THEN 0 ELSE ep2.ttog
      /\ ep2'.tres = IF r.code = "clear IN" THEN "NAK" ELSE ep2.tres
  <2>1. CASE r.code = "clear IN"
    BY <1>3, <2>1 DEF Cleared
  <2>2. CASE r.code = "clear OUT"
    BY <1>3, <2>2 DEF Cleared, Ep2Type
  <2>3. CASE r.code \notin {"clear IN", "clear OUT"}
    BY <1>3, <2>3 DEF Cleared
  <2>4. QED BY <2>1, <2>2, <2>3
<1>5. Resets(IF r.code = "clear IN" THEN {"in"} ELSE IF r.code = "clear OUT" THEN {"out"} ELSE {})
  <2>1. CASE r.code = "clear IN"
    BY <2>1 DEF Setup
  <2>2. CASE r.code = "clear OUT"
    BY <2>2 DEF Setup
  <2>3. CASE r.code \notin {"clear IN", "clear OUT"}
    BY <2>3 DEF Setup
  <2>4. QED BY <2>1, <2>2, <2>3
<1>6. hostTog'.out = hostTog.out /\ hostTog'.in = hostTog.in
  BY DEF Setup, TypeOK, HostTogType
<1>7. /\ OutTog' = IF r.code = "clear OUT" THEN 0 ELSE OutTog
      /\ InTog' = IF r.code = "clear IN" THEN 0 ELSE InTog
  BY <1>1, <1>2, <1>6 DEF OutTog, InTog
<1>8. UNCHANGED <<reg, chunk, taken, outNo, dealt, outPending>>
  BY DEF Setup, inVars, outVars
<1>9. QED BY <1>1, <1>2, <1>4, <1>5, <1>7, <1>8

(* What a reset of some pipes does to one of them. *)
LEMMA ResetsOne ==
  ASSUME TypeOK, NEW pipes \in SUBSET {"in", "out"}, Resets(pipes), NEW p \in {"in", "out"}
  PROVE  /\ resets'[p] = IF p \in pipes THEN 1 - resets[p] ELSE resets[p]
         /\ p \in raced' <=> p \in raced \/ (p \in pipes /\ reg # None)
<1>1. resets'[p] = IF p \in pipes THEN 1 - resets[p] ELSE resets[p]
  BY DEF Resets, Flip
<1>2. p \in raced' <=> p \in raced \/ (p \in pipes /\ reg # None)
  BY DEF Resets, Race
<1>3. QED BY <1>1, <1>2

(* The last packet of a sequence. *)
LEMMA NewestType ==
  ASSUME NEW s \in Seq(1 .. MaxPackets)
  PROVE  /\ s = << >> => Newest(s) = 0
         /\ s # << >> => Len(s) \in DOMAIN s /\ Newest(s) = s[Len(s)]
         /\ \A n \in 1 .. MaxPackets :
              /\ Newest(Append(s, n)) = n
              /\ Append(s, n) = s \o <<n>>
              /\ \A i \in DOMAIN Append(s, n) : i \in DOMAIN s \/ Append(s, n)[i] = n
              /\ \A i \in DOMAIN s : Append(s, n)[i] = s[i]
<1>1. s # << >> => Len(s) \in DOMAIN s
  BY EmptySeq, LenProperties
<1>2. ASSUME NEW n \in 1 .. MaxPackets
      PROVE  /\ Newest(Append(s, n)) = n
             /\ Append(s, n) = s \o <<n>>
             /\ \A i \in DOMAIN Append(s, n) : i \in DOMAIN s \/ Append(s, n)[i] = n
             /\ \A i \in DOMAIN s : Append(s, n)[i] = s[i]
  <2> DEFINE S == 1 .. MaxPackets
  <2>0. s \in Seq(S) /\ n \in S
    OBVIOUS
  <2> HIDE DEF S
  <2>1. /\ Append(s, n) \in Seq(S) /\ Append(s, n) # << >>
        /\ Len(Append(s, n)) = Len(s) + 1 /\ Append(s, n)[Len(s) + 1] = n
        /\ \A i \in 1 .. Len(s) : Append(s, n)[i] = s[i]
    BY <2>0, AppendProperties
  <2>2. Len(s) \in Nat /\ DOMAIN s = 1 .. Len(s) /\ DOMAIN Append(s, n) = 1 .. Len(s) + 1
    BY <2>0, <2>1, LenProperties
  <2>3. Append(s, n) = s \o <<n>>
    BY <2>0, AppendIsConcat
  <2>4. Newest(Append(s, n)) = n
    BY <2>1, Zenon DEF Newest
  <2>5. QED BY <2>1, <2>2, <2>3, <2>4
<1>3. QED BY <1>1, <1>2 DEF Newest

-----------------------------------------------------------------------------
(* What OutPipe sees. *)
OutWaiting == IF OutWaits THEN <<outNo>> ELSE << >>
OutRaced == "out" \in raced
OutVars == <<OutWaiting, dealt, OutRaced, OutSlipped, resets["out"]>>

(* A step that leaves the packets of the host and the toggles for them.    *)
LEMMA OutStutter ==
  ASSUME OutInv, UNCHANGED <<dealt, outNo, outPending, OutRaced, reg>>,
         ep2'.rtog = ep2.rtog, OutTog' = OutTog, resets'["out"] = resets["out"],
         ClearingOut' => ClearingOut
  PROVE  OutInv' /\ UNCHANGED OutVars
<1>1. OutInv'
  BY DEF OutInv, OutRaced
<1>2. OutWaits' = OutWaits
  BY DEF OutWaits, Newest
<1>3. OutSlipped' = OutSlipped
  BY <1>2 DEF OutSlipped
<1>4. UNCHANGED OutVars
  BY <1>2, <1>3 DEF OutVars, OutWaiting
<1>5. QED BY <1>1, <1>4

(* The register changes at most. *)
LEMMA OutTouch ==
  ASSUME UNCHANGED <<OutWaiting, dealt, OutSlipped, resets>>, OutRaced => OutRaced'
  PROVE  [OutPipe!Next]_OutVars
<1>1. CASE OutRaced'
  <2>1. OutPipe!Touch
    BY <1>1 DEF OutPipe!Touch, OutWaiting, OutRaced
  <2>2. QED BY <2>1 DEF OutPipe!Next
<1>2. CASE ~OutRaced'
  <2>1. OutRaced' = OutRaced
    BY <1>2 DEF OutRaced
  <2>2. QED BY <2>1 DEF OutVars
<1>3. QED BY <1>1, <1>2

(* The device receives a packet. *)
LEMMA OutDeal ==
  ASSUME TypeOK, OutInv, Out2 \/ Out2_AckLost
  PROVE  OutInv' /\ [OutPipe!Next]_OutVars
<1>1. /\ outPending /\ Deal /\ UNCHANGED <<stage, req, reg, outNo, resets>> /\ Race({"out"})
      /\ \/ outPending' = FALSE /\ hostTog' = [hostTog EXCEPT !.out = Flip(hostTog.out)]
         \/ outPending' = outPending /\ hostTog' = hostTog
  BY DEF Out2, Out2_AckLost, ctlVars, inVars
<1>2. /\ ep2 \in Ep2Type /\ ep2.rtog \in Togs /\ hostTog.out \in Togs
      /\ outNo \in 1 .. MaxPackets /\ dealt \in Seq(1 .. MaxPackets)
  <2>1. ep2 \in Ep2Type /\ ep2.rtog \in Togs /\ hostTog.out \in Togs
    BY DEF TypeOK, PacketType, HostTogType, Ep2Type
  <2>2. outNo \in 0 .. MaxPackets /\ outNo >= 1 /\ dealt \in Seq(1 .. MaxPackets)
    BY <1>1 DEF TypeOK, PacketType, OutInv
  <2>3. QED BY <2>1, <2>2, Bounds
<1>3. ~ClearingOut /\ ~ClearingOut'
  BY <1>1 DEF OutInv, ClearingOut
<1>4. /\ OutTog = hostTog.out
      /\ \/ outPending' = FALSE /\ OutTog' = Flip(OutTog)
         \/ outPending' /\ OutTog' = OutTog
  BY <1>1, <1>3 DEF OutTog, TypeOK, HostTogType
<1>5. /\ OutRaced => OutRaced'
      /\ OutRaced' => reg' # None
      /\ ~OutRaced' => reg = None
  BY <1>1 DEF OutInv, OutRaced, Race
<1>6. CASE ep2.rtog = OutTog
  <2>1. dealt' = Append(dealt, outNo) /\ ep2'.rtog = Flip(ep2.rtog)
    BY <1>1, <1>2, <1>4, <1>6 DEF Deal, Ep2Type
  <2>2. /\ Newest(dealt') = outNo /\ dealt' = dealt \o <<outNo>>
        /\ \A i \in DOMAIN dealt' : i \in DOMAIN dealt \/ dealt'[i] = outNo
        /\ \A i \in DOMAIN dealt : dealt'[i] = dealt[i]
    BY <1>2, <2>1, NewestType
  <2>3. OutInv'
    <3>1. \A i \in DOMAIN dealt' : dealt'[i] <= outNo'
      BY <1>1, <1>2, <2>2 DEF OutInv
    <3>2. outNo' >= 1
      BY <1>1, <1>2
    <3>3. QED BY <1>1, <1>3, <1>5, <3>1, <3>2 DEF OutInv, OutRaced
  <2>4. ~OutWaits'
    BY <1>1, <2>2 DEF OutWaits
  <2>5. ~OutSlipped'
    BY <1>2, <1>4, <1>6, <2>1, <2>4, FlipType DEF OutSlipped
  <2>6. CASE OutWaits
    <3>1. ~OutSlipped
      BY <1>1, <1>6, <2>6 DEF OutSlipped
    <3>2. OutSlipped' = OutSlipped
      BY <2>5, <3>1 DEF OutSlipped
    <3>3. OutPipe!Take
      BY <1>1, <1>5, <2>2, <2>4, <2>6, <3>1, <3>2 DEF OutPipe!Take, OutPipe!Unwritten, OutRaced
    <3>4. QED BY <2>3, <3>3 DEF OutPipe!Next
  <2>7. CASE ~OutWaits
    <3>1. OutSlipped
      BY <1>1, <1>6, <2>7 DEF OutSlipped
    <3>2. dealt # << >> /\ outNo = dealt[Len(dealt)]
      BY <1>1, <1>2, <2>7 DEF OutWaits, Newest
    <3>3. OutPipe!TakeAgain
      BY <1>1, <1>5, <2>1, <2>4, <2>5, <2>7, <3>1, <3>2 DEF OutPipe!TakeAgain, OutPipe!Unwritten, OutRaced
    <3>4. QED BY <2>3, <3>3 DEF OutPipe!Next
  <2>8. QED BY <2>6, <2>7
<1>7. CASE ep2.rtog # OutTog
  <2>1. UNCHANGED <<dealt, ep2>> /\ Flip(OutTog) = ep2.rtog
    BY <1>1, <1>2, <1>4, <1>7, FlipType DEF Deal
  <2>2. OutInv'
    BY <1>1, <1>3, <1>5, <2>1 DEF OutInv, OutRaced
  <2>3. CASE outPending' = FALSE
    <3>1. ~OutWaits' /\ ~OutSlipped'
      BY <1>4, <2>1, <2>3 DEF OutWaits, OutSlipped
    <3>2. CASE OutWaits
      <4>1. OutSlipped
        BY <1>1, <1>7, <3>2 DEF OutSlipped
      <4>2. OutPipe!Miss
        BY <1>1, <1>5, <2>1, <3>1, <3>2, <4>1 DEF OutPipe!Miss, OutPipe!Unwritten, OutRaced
      <4>3. QED BY <2>2, <4>2 DEF OutPipe!Next
    <3>3. CASE ~OutWaits
      <4>1. ~OutSlipped
        BY <1>1, <1>7, <3>3 DEF OutSlipped
      <4>2. OutSlipped' = OutSlipped
        BY <3>1, <4>1 DEF OutSlipped
      <4>3. OutWaiting' = OutWaiting
        BY <3>1, <3>3 DEF OutWaiting
      <4>4. QED BY <1>1, <1>5, <2>1, <2>2, <4>2, <4>3, OutTouch
    <3>4. QED BY <3>2, <3>3
  <2>4. CASE outPending'
    <3>1. OutWaits' = OutWaits /\ OutTog' = OutTog
      BY <1>1, <1>4, <2>1, <2>4 DEF OutWaits, Newest
    <3>2. OutSlipped' = OutSlipped
      BY <1>1, <2>1, <2>4, <3>1 DEF OutSlipped
    <3>3. OutWaiting' = OutWaiting
      BY <1>1, <3>1 DEF OutWaiting
    <3>4. QED BY <1>1, <1>5, <2>1, <2>2, <3>2, <3>3, OutTouch
  <2>5. QED BY <1>1, <2>3, <2>4
<1>8. QED BY <1>6, <1>7

(* Every step is one of the pipe to the device. *)
LEMMA OutStep ==
  ASSUME TypeOK, CtlInv, OutInv, [Next]_vars
  PROVE  OutInv' /\ [OutPipe!Next]_OutVars
<1>0. /\ ep2 \in Ep2Type /\ HostTogType /\ MaxPackets \in Nat
      /\ outNo \in 0 .. MaxPackets /\ dealt \in Seq(1 .. MaxPackets)
      /\ outPending \in BOOLEAN
  BY Bounds DEF TypeOK, PacketType
<1>1. CASE UNCHANGED vars
  <2>1. /\ UNCHANGED <<dealt, outNo, outPending, OutRaced, reg, OutTog>>
        /\ ep2'.rtog = ep2.rtog /\ resets'["out"] = resets["out"]
        /\ ClearingOut' = ClearingOut
    BY <1>1 DEF vars, ctlVars, inVars, outVars, raceVars, OutRaced, OutTog, ClearingOut
  <2>2. QED BY <2>1, OutStutter
<1>2. ASSUME NEW r \in Reads \cup Writes, Setup(r)
      PROVE  OutInv' /\ [OutPipe!Next]_OutVars
  <2>1. /\ ClearingOut' = (r.code = "clear OUT")
        /\ r.code = "clear OUT" => ~outPending
        /\ ep2'.rtog = IF r.code = "clear OUT" THEN 0 ELSE ep2.rtog
        /\ OutTog' = IF r.code = "clear OUT" THEN 0 ELSE OutTog
        /\ Resets(IF r.code = "clear IN" THEN {"in"} ELSE IF r.code = "clear OUT" THEN {"out"} ELSE {})
        /\ UNCHANGED <<reg, outNo, dealt, outPending>>
    BY <1>2, SetupClears
  <2>2. CASE r.code = "clear OUT"
    <3>1. Resets({"out"})
      BY <2>1, <2>2
    <3>2. resets'["out"] = 1 - resets["out"] /\ (OutRaced' <=> OutRaced \/ reg # None)
      BY <3>1, ResetsOne DEF OutRaced
    <3>3. OutInv'
      BY <2>1, <2>2, <3>2 DEF OutInv, OutRaced
    <3>4. ~OutWaits' /\ ~OutSlipped'
      BY <2>1, <2>2 DEF OutWaits, OutSlipped
    <3>5. OutPipe!Reset
      BY <2>1, <3>2, <3>4 DEF OutPipe!Reset
    <3>6. QED BY <3>3, <3>5 DEF OutPipe!Next
  <2>3. CASE r.code # "clear OUT"
    <3>1. \E pipes \in {{"in"}, {}} : Resets(pipes)
      BY <2>1, <2>3
    <3>2. resets'["out"] = resets["out"] /\ (OutRaced' <=> OutRaced)
      BY <3>1, ResetsOne DEF OutRaced
    <3>3. OutRaced' = OutRaced
      BY <3>2 DEF OutRaced
    <3>4. ClearingOut' => ClearingOut
      BY <2>1, <2>3
    <3>5. QED BY <2>1, <2>3, <3>2, <3>3, <3>4, OutStutter
  <2>4. QED BY <2>2, <2>3
<1>3. CASE In0 \/ In0_AckLost
  <2>1. /\ InToken /\ HostTakes /\ req' = req
        /\ UNCHANGED <<ep2, reg, raced, resets, outNo, dealt, outPending>>
    BY <1>3 DEF In0, In0_AckLost, inVars, outVars, raceVars
  <2>2. ~ClearingOut' /\ OutTog' = OutTog
    BY <2>1, HostTakesClears
  <2>3. QED BY <2>1, <2>2, OutStutter DEF OutRaced
<1>4. CASE Stall0 \/ Out0
  <2>1. ~ClearingOut /\ ~ClearingOut'
    BY <1>4, ClearingStage DEF ClearingOut, Stall0, Out0, Ends
  <2>2. UNCHANGED <<ep2, reg, raced, resets, outNo, dealt, outPending, hostTog>>
    BY <1>4 DEF Stall0, Out0, inVars, outVars, raceVars
  <2>3. OutTog' = OutTog
    BY <2>1, <2>2 DEF OutTog
  <2>4. QED BY <2>1, <2>2, <2>3, OutStutter DEF OutRaced
<1>5. CASE HostSends
  <2>1. /\ ~outPending /\ outPending' = TRUE /\ outNo' = outNo + 1 /\ outNo < MaxPackets
        /\ UNCHANGED <<stage, req, ep2, reg, dealt, hostTog, raced, resets>>
        /\ ~ClearingOut
    BY <1>5 DEF HostSends, ctlVars, inVars, raceVars, Clearing
  <2>2. ~ClearingOut' /\ OutTog' = OutTog
    BY <2>1 DEF ClearingOut, OutTog
  <2>3. outNo' \in 1 .. MaxPackets /\ \A i \in DOMAIN dealt : dealt[i] < outNo'
    <3>1. outNo' \in 1 .. MaxPackets
      BY <1>0, <2>1
    <3>2. ASSUME NEW i \in DOMAIN dealt
          PROVE  dealt[i] < outNo'
      <4>1. dealt[i] \in 1 .. MaxPackets
        BY <1>0, ElementOfSeq, LenProperties
      <4>2. dealt[i] <= outNo
        BY DEF OutInv
      <4>3. QED BY <1>0, <2>1, <4>1, <4>2
    <3>3. QED BY <3>1, <3>2
  <2>4. OutInv'
    <3>1. ASSUME NEW i \in DOMAIN dealt
          PROVE  dealt[i] <= outNo'
      BY <1>0, <2>3, ElementOfSeq, LenProperties
    <3>2. outNo' >= 1
      BY <2>3
    <3>3. QED BY <2>1, <2>2, <3>1, <3>2 DEF OutInv
  <2>5. Newest(dealt) # outNo'
    BY <1>0, <2>3, NewestType
  <2>6. ~OutWaits /\ OutWaits'
    BY <2>1, <2>5 DEF OutWaits, Newest
  <2>7. OutSlipped' = OutSlipped
    BY <2>1, <2>2, <2>6 DEF OutSlipped
  <2>8. OutPipe!Put(outNo')
    BY <2>1, <2>3, <2>6, <2>7 DEF OutPipe!Put
  <2>9. QED BY <2>3, <2>4, <2>8 DEF OutPipe!Next
<1>6. CASE Out2 \/ Out2_AckLost
  BY <1>6, OutDeal
<1>7. CASE Fill
  <2>1. /\ reg = None /\ reg' = ep2
        /\ UNCHANGED <<stage, req, ep2, hostTog, raced, resets, outNo, dealt, outPending>>
    BY <1>7 DEF Fill, ctlVars, outVars, raceVars
  <2>2. OutInv'
    BY <1>0, <2>1, UsbAssumption DEF OutInv, ClearingOut
  <2>3. OutWaits' = OutWaits /\ OutTog' = OutTog
    BY <2>1 DEF OutWaits, OutTog, ClearingOut, Newest
  <2>4. OutSlipped' = OutSlipped
    BY <2>1, <2>3 DEF OutSlipped
  <2>5. UNCHANGED OutVars
    BY <2>1, <2>3, <2>4 DEF OutVars, OutWaiting, OutRaced
  <2>6. QED BY <2>2, <2>5
<1>8. CASE DevEP2_IN_Deal
  <2>1. /\ reg # None /\ reg' = None /\ ep2' = [reg EXCEPT !.tres = "ACK"] /\ raced' = {}
        /\ UNCHANGED <<stage, req, hostTog, resets, outNo, dealt, outPending>>
    BY <1>8 DEF DevEP2_IN_Deal, ctlVars, outVars
  <2>2. ep2'.rtog = reg.rtog
    BY <2>1 DEF TypeOK, PacketType, Ep2Type
  <2>3. OutInv'
    BY <2>1 DEF OutInv, ClearingOut
  <2>4. OutWaits' = OutWaits /\ OutTog' = OutTog
    BY <2>1 DEF OutWaits, OutTog, ClearingOut, Newest
  <2>5. OutWaiting' = OutWaiting /\ ~OutRaced'
    BY <2>1, <2>4 DEF OutWaiting, OutRaced
  <2>6. CASE OutRaced
    <3>1. OutSlipped' \in BOOLEAN
      BY DEF OutSlipped
    <3>2. OutPipe!WriteBack
      BY <2>1, <2>5, <2>6, <3>1 DEF OutPipe!WriteBack, OutPipe!Written, OutWaiting, OutRaced
    <3>3. QED BY <2>3, <3>2 DEF OutPipe!Next
  <2>7. CASE ~OutRaced
    <3>1. ep2'.rtog = ep2.rtog
      BY <2>1, <2>2, <2>7 DEF OutInv, OutRaced
    <3>2. OutSlipped' = OutSlipped
      BY <2>1, <2>4, <3>1 DEF OutSlipped
    <3>3. OutRaced' = OutRaced
      BY <2>5, <2>7 DEF OutRaced
    <3>4. UNCHANGED OutVars
      BY <2>1, <2>5, <3>2, <3>3 DEF OutVars
    <3>5. QED BY <2>3, <3>4
  <2>8. QED BY <2>6, <2>7
<1>9. CASE In2 \/ In2_AckLost
  <2>1. /\ UNCHANGED <<stage, req, reg, raced, resets, outNo, dealt, outPending>>
        /\ ep2' = ep2 \/ ep2' = [rtog |-> ep2.rtog, ttog |-> Flip(ep2.ttog), tres |-> "NAK"]
        /\ hostTog' = hostTog \/ hostTog' = [hostTog EXCEPT !.in = Flip(hostTog.in)]
    BY <1>9 DEF In2, In2_AckLost, HostTakes2, In2Acknowledged, ctlVars, outVars, raceVars
  <2>2. ep2'.rtog = ep2.rtog /\ hostTog'.out = hostTog.out
    BY <1>0, <2>1 DEF HostTogType
  <2>3. OutTog' = OutTog /\ ClearingOut' = ClearingOut
    BY <2>1, <2>2 DEF OutTog, ClearingOut
  <2>4. QED BY <2>1, <2>2, <2>3, OutStutter DEF OutRaced
<1>10. CASE BusReset
  <2>1. /\ stage' = "idle" /\ ep2'.rtog = 0 /\ hostTog'.out = 0 /\ outPending' = FALSE
        /\ Resets({"in", "out"}) /\ UNCHANGED <<reg, outNo, dealt>>
    BY <1>10 DEF BusReset, Ep2Reset, HostTogReset, inVars
  <2>2. resets'["out"] = 1 - resets["out"] /\ (OutRaced' <=> OutRaced \/ reg # None)
    BY <2>1, ResetsOne DEF OutRaced
  <2>3. OutInv'
    BY <2>1, <2>2 DEF OutInv, OutRaced
  <2>4. ~OutWaits' /\ ~OutSlipped'
    BY <2>1 DEF OutWaits, OutSlipped, OutTog, ClearingOut
  <2>5. OutPipe!Reset
    BY <2>1, <2>2, <2>4 DEF OutPipe!Reset
  <2>6. QED BY <2>3, <2>5 DEF OutPipe!Next
<1>11. QED
  BY <1>1, <1>2, <1>3, <1>4, <1>5, <1>6, <1>7, <1>8, <1>9, <1>10 DEF Next, Control

-----------------------------------------------------------------------------
(* What InPipe sees. *)
InWaiting == IF InWaits THEN <<chunk>> ELSE << >>
InRaced == "in" \in raced
InVars == <<InWaiting, taken, InRaced, InSlipped, resets["in"]>>

(* A step that leaves the packet in the buffer and the toggles for it.     *)
LEMMA InStutter ==
  ASSUME InInv, UNCHANGED <<chunk, taken, InRaced, reg>>,
         ep2'.ttog = ep2.ttog, ep2'.tres = ep2.tres, InTog' = InTog, resets'["in"] = resets["in"]
  PROVE  InInv' /\ UNCHANGED InVars
<1>1. InInv'
  BY DEF InInv, InRaced
<1>2. InWaits' = InWaits
  BY DEF InWaits, Newest
<1>3. InSlipped' = InSlipped
  BY <1>2 DEF InSlipped
<1>4. UNCHANGED InVars
  BY <1>2, <1>3 DEF InVars, InWaiting
<1>5. QED BY <1>1, <1>4

(* The task makes a packet ready. *)
LEMMA InPut ==
  ASSUME TypeOK, InInv, DevEP2_IN_Deal
  PROVE  InInv' /\ [InPipe!Next]_InVars
<1>1. /\ reg # None /\ reg' = None /\ ep2' = [reg EXCEPT !.tres = "ACK"] /\ raced' = {}
      /\ UNCHANGED <<stage, req, hostTog, resets, chunk, taken>>
  BY DEF DevEP2_IN_Deal, ctlVars, outVars
<1>2. /\ ep2'.ttog = reg.ttog /\ ep2'.tres = "ACK" /\ ep2.tres = "NAK"
      /\ chunk \in 1 .. MaxPackets /\ taken \in Seq(1 .. MaxPackets)
      /\ \A i \in DOMAIN taken : taken[i] < chunk
  BY <1>1 DEF TypeOK, PacketType, Ep2Type, InInv
<1>3. InInv'
  BY <1>1, <1>2 DEF InInv
<1>4. Newest(taken) # chunk
  BY <1>2, NewestType
<1>5. ~InWaits /\ InWaits' /\ InTog' = InTog /\ ~InRaced'
  BY <1>1, <1>2, <1>4 DEF InWaits, InTog, InRaced, ClearingIn, Newest
<1>6. CASE InRaced
  <2>1. InSlipped' \in BOOLEAN
    BY DEF InSlipped
  <2>2. InPipe!Put(chunk)
    BY <1>1, <1>2, <1>5, <1>6, <2>1 DEF InPipe!Put, InPipe!Written, InRaced
  <2>3. QED BY <1>2, <1>3, <2>2 DEF InPipe!Next
<1>7. CASE ~InRaced
  <2>1. ep2'.ttog = ep2.ttog
    BY <1>1, <1>2, <1>7 DEF InInv, InRaced
  <2>2. InSlipped' = InSlipped
    BY <1>2, <1>5, <2>1 DEF InSlipped
  <2>3. InRaced' = InRaced
    BY <1>5, <1>7 DEF InRaced
  <2>4. InPipe!Put(chunk)
    BY <1>1, <1>2, <1>5, <2>2, <2>3 DEF InPipe!Put, InRaced
  <2>5. QED BY <1>2, <1>3, <2>4 DEF InPipe!Next
<1>8. QED BY <1>6, <1>7

(* The host receives a packet. *)
LEMMA InTake ==
  ASSUME TypeOK, InInv, In2 \/ In2_AckLost
  PROVE  InInv' /\ [InPipe!Next]_InVars
<1>1. /\ HostTakes2 /\ UNCHANGED <<stage, req, reg, raced, resets, chunk>>
      /\ ep2.tres = "ACK" /\ ~ClearingIn
      /\ \/ ep2' = [rtog |-> ep2.rtog, ttog |-> Flip(ep2.ttog), tres |-> "NAK"]
         \/ ep2' = ep2
  BY DEF In2, In2_AckLost, In2Acknowledged, ctlVars, outVars, raceVars, Clearing
<1>2. /\ ep2.ttog \in Togs /\ hostTog.in \in Togs
      /\ chunk \in 1 .. MaxPackets /\ taken \in Seq(1 .. MaxPackets)
  <2>1. ep2.ttog \in Togs /\ hostTog.in \in Togs
    BY DEF TypeOK, PacketType, HostTogType, Ep2Type
  <2>2. chunk \in 0 .. MaxPackets /\ chunk >= 1 /\ taken \in Seq(1 .. MaxPackets)
    BY <1>1 DEF TypeOK, PacketType, InInv
  <2>3. QED BY <2>1, <2>2, Bounds
<1>3. \/ ep2'.tres = "NAK" /\ ep2'.ttog = Flip(ep2.ttog)
      \/ ep2'.tres = "ACK" /\ ep2'.ttog = ep2.ttog
  BY <1>1
<1>4. InTog = hostTog.in /\ InTog' = hostTog'.in
  BY <1>1 DEF InTog, ClearingIn
<1>5. reg = None /\ reg' = None /\ ~InRaced /\ ~InRaced' /\ InRaced' = InRaced
  BY <1>1 DEF InInv, InRaced
<1>6. CASE ep2.ttog = InTog
  <2>1. taken' = Append(taken, chunk) /\ InTog' = Flip(InTog)
    BY <1>1, <1>4, <1>6 DEF HostTakes2, TypeOK, HostTogType
  <2>2. /\ Newest(taken') = chunk /\ taken' = taken \o <<chunk>>
        /\ \A i \in DOMAIN taken' : i \in DOMAIN taken \/ taken'[i] = chunk
        /\ \A i \in DOMAIN taken : taken'[i] = taken[i]
    BY <1>2, <2>1, NewestType
  <2>3. InInv'
    <3>1. \A i \in DOMAIN taken' : taken'[i] <= chunk'
      BY <1>1, <1>2, <2>2 DEF InInv
    <3>2. chunk' >= 1
      BY <1>1, <1>2
    <3>3. QED BY <1>5, <3>1, <3>2 DEF InInv, InRaced
  <2>4. ~InWaits'
    BY <1>1, <2>2 DEF InWaits
  <2>5. ~InSlipped'
    BY <1>2, <1>3, <1>4, <1>6, <2>1, <2>4, FlipType DEF InSlipped
  <2>6. CASE InWaits
    <3>1. ~InSlipped
      BY <1>1, <1>6, <2>6 DEF InSlipped
    <3>2. InSlipped' = InSlipped
      BY <2>5, <3>1 DEF InSlipped
    <3>3. InPipe!Take
      BY <1>1, <1>5, <2>2, <2>4, <2>6, <3>1, <3>2 DEF InPipe!Take, InPipe!Unwritten, InRaced
    <3>4. QED BY <2>3, <3>3 DEF InPipe!Next
  <2>7. CASE ~InWaits
    <3>1. InSlipped
      BY <1>1, <1>6, <2>7 DEF InSlipped
    <3>2. taken # << >> /\ chunk = taken[Len(taken)]
      BY <1>1, <1>2, <2>7 DEF InWaits, Newest
    <3>3. InPipe!TakeAgain
      BY <1>1, <1>5, <2>1, <2>4, <2>5, <2>7, <3>1, <3>2 DEF InPipe!TakeAgain, InPipe!Unwritten, InRaced
    <3>4. QED BY <2>3, <3>3 DEF InPipe!Next
  <2>8. QED BY <2>6, <2>7
<1>7. CASE ep2.ttog # InTog
  <2>1. UNCHANGED <<taken, hostTog>> /\ InTog' = InTog /\ Flip(ep2.ttog) = InTog
    BY <1>1, <1>2, <1>4, <1>7, FlipType DEF HostTakes2
  <2>2. InInv'
    BY <1>1, <1>5, <2>1 DEF InInv, InRaced
  <2>3. CASE ep2'.tres = "NAK"
    <3>1. ~InWaits' /\ ~InSlipped'
      BY <1>3, <2>1, <2>3 DEF InWaits, InSlipped
    <3>2. CASE InWaits
      <4>1. InSlipped
        BY <1>1, <1>7, <3>2 DEF InSlipped
      <4>2. InPipe!Miss
        BY <1>1, <1>5, <2>1, <3>1, <3>2, <4>1 DEF InPipe!Miss, InPipe!Unwritten, InRaced
      <4>3. QED BY <2>2, <4>2 DEF InPipe!Next
    <3>3. CASE ~InWaits
      <4>1. ~InSlipped
        BY <1>1, <1>7, <3>3 DEF InSlipped
      <4>2. InSlipped' = InSlipped
        BY <3>1, <4>1 DEF InSlipped
      <4>3. InWaiting' = InWaiting
        BY <3>1, <3>3 DEF InWaiting
      <4>4. UNCHANGED InVars
        BY <1>1, <1>5, <2>1, <4>2, <4>3 DEF InVars
      <4>5. QED BY <2>2, <4>4
    <3>4. QED BY <3>2, <3>3
  <2>4. CASE ep2'.tres = "ACK"
    <3>1. InWaits' = InWaits
      BY <1>1, <2>1, <2>4 DEF InWaits, Newest
    <3>2. InSlipped' = InSlipped /\ InWaiting' = InWaiting
      BY <1>1, <1>3, <2>1, <2>4, <3>1 DEF InSlipped, InWaiting
    <3>3. UNCHANGED InVars
      BY <1>1, <1>5, <2>1, <3>2 DEF InVars
    <3>4. QED BY <2>2, <3>3
  <2>5. QED BY <1>3, <2>3, <2>4
<1>8. QED BY <1>6, <1>7

(* Every step is one of the pipe to the host. *)
LEMMA InStep ==
  ASSUME TypeOK, CtlInv, InInv, [Next]_vars
  PROVE  InInv' /\ [InPipe!Next]_InVars
<1>0. /\ ep2 \in Ep2Type /\ HostTogType /\ MaxPackets \in Nat
      /\ chunk \in 0 .. MaxPackets /\ taken \in Seq(1 .. MaxPackets)
  BY Bounds DEF TypeOK, PacketType
<1>1. CASE UNCHANGED vars
  <2>1. /\ UNCHANGED <<chunk, taken, InRaced, reg, InTog>>
        /\ ep2'.ttog = ep2.ttog /\ ep2'.tres = ep2.tres /\ resets'["in"] = resets["in"]
    BY <1>1 DEF vars, ctlVars, inVars, outVars, raceVars, InRaced, InTog, ClearingIn
  <2>2. QED BY <2>1, InStutter
<1>2. ASSUME NEW r \in Reads \cup Writes, Setup(r)
      PROVE  InInv' /\ [InPipe!Next]_InVars
  <2>1. /\ ep2'.ttog = IF r.code = "clear IN" THEN 0 ELSE ep2.ttog
        /\ ep2'.tres = IF r.code = "clear IN" THEN "NAK" ELSE ep2.tres
        /\ InTog' = IF r.code = "clear IN" THEN 0 ELSE InTog
        /\ Resets(IF r.code = "clear IN" THEN {"in"} ELSE IF r.code = "clear OUT" THEN {"out"} ELSE {})
        /\ UNCHANGED <<reg, chunk, taken>>
    BY <1>2, SetupClears
  <2>2. CASE r.code = "clear IN"
    <3>1. Resets({"in"})
      BY <2>1, <2>2
    <3>2. resets'["in"] = 1 - resets["in"] /\ (InRaced' <=> InRaced \/ reg # None)
      BY <3>1, ResetsOne DEF InRaced
    <3>3. InInv'
      BY <2>1, <2>2, <3>2 DEF InInv, InRaced
    <3>4. ~InWaits' /\ ~InSlipped'
      BY <2>1, <2>2 DEF InWaits, InSlipped
    <3>5. InPipe!Reset
      BY <2>1, <3>2, <3>4 DEF InPipe!Reset
    <3>6. QED BY <3>3, <3>5 DEF InPipe!Next
  <2>3. CASE r.code # "clear IN"
    <3>1. \E pipes \in {{"out"}, {}} : Resets(pipes)
      BY <2>1, <2>3
    <3>2. resets'["in"] = resets["in"] /\ (InRaced' <=> InRaced)
      BY <3>1, ResetsOne DEF InRaced
    <3>3. InRaced' = InRaced
      BY <3>2 DEF InRaced
    <3>4. QED BY <2>1, <2>3, <3>2, <3>3, InStutter
  <2>4. QED BY <2>2, <2>3
<1>3. CASE In0 \/ In0_AckLost
  <2>1. /\ InToken /\ HostTakes /\ req' = req
        /\ UNCHANGED <<ep2, reg, raced, resets, chunk, taken>>
    BY <1>3 DEF In0, In0_AckLost, inVars, outVars, raceVars
  <2>2. InTog' = InTog
    BY <2>1, HostTakesClears
  <2>3. QED BY <2>1, <2>2, InStutter DEF InRaced
<1>4. CASE Stall0 \/ Out0
  <2>1. ~ClearingIn /\ ~ClearingIn'
    BY <1>4, ClearingStage DEF ClearingIn, Stall0, Out0, Ends
  <2>2. UNCHANGED <<ep2, reg, raced, resets, chunk, taken, hostTog>>
    BY <1>4 DEF Stall0, Out0, inVars, outVars, raceVars
  <2>3. InTog' = InTog
    BY <2>1, <2>2 DEF InTog
  <2>4. QED BY <2>2, <2>3, InStutter DEF InRaced
<1>5. CASE HostSends
  <2>1. UNCHANGED <<stage, req, ep2, reg, raced, resets, chunk, taken, hostTog>>
    BY <1>5 DEF HostSends, ctlVars, inVars, raceVars
  <2>2. InTog' = InTog
    BY <2>1 DEF InTog, ClearingIn
  <2>3. QED BY <2>1, <2>2, InStutter DEF InRaced
<1>6. CASE Out2 \/ Out2_AckLost
  <2>1. /\ UNCHANGED <<stage, req, reg, resets, chunk, taken>> /\ Race({"out"})
        /\ hostTog' = hostTog \/ hostTog' = [hostTog EXCEPT !.out = Flip(hostTog.out)]
        /\ ep2' = ep2 \/ ep2' = [ep2 EXCEPT !.rtog = Flip(ep2.rtog)]
    BY <1>6 DEF Out2, Out2_AckLost, Deal, ctlVars, inVars
  <2>2. ep2'.ttog = ep2.ttog /\ ep2'.tres = ep2.tres /\ hostTog'.in = hostTog.in
    BY <1>0, <2>1 DEF HostTogType, Ep2Type
  <2>3. InTog' = InTog
    BY <2>1, <2>2 DEF InTog, ClearingIn
  <2>4. InRaced' <=> InRaced
    BY <2>1 DEF InRaced, Race
  <2>5. InRaced' = InRaced
    BY <2>4 DEF InRaced
  <2>6. QED BY <2>1, <2>2, <2>3, <2>5, InStutter
<1>7. CASE Fill
  <2>1. /\ reg = None /\ reg' = ep2 /\ ep2.tres = "NAK" /\ chunk' = chunk + 1
        /\ UNCHANGED <<stage, req, ep2, hostTog, raced, resets, taken>>
    BY <1>0, <1>7 DEF Fill, EndpointFree, ctlVars, outVars, raceVars, Ep2Type
  <2>2. InInv'
    <3>1. ASSUME NEW i \in DOMAIN taken
          PROVE  taken[i] < chunk'
      <4>1. taken[i] \in 1 .. MaxPackets
        BY <1>0, ElementOfSeq, LenProperties
      <4>2. taken[i] <= chunk
        BY DEF InInv
      <4>3. QED BY <1>0, <2>1, <4>1, <4>2
    <3>2. ASSUME NEW i \in DOMAIN taken
          PROVE  taken[i] <= chunk'
      <4>1. taken[i] \in 1 .. MaxPackets
        BY <1>0, ElementOfSeq, LenProperties
      <4>2. taken[i] <= chunk
        BY DEF InInv
      <4>3. QED BY <1>0, <2>1, <4>1, <4>2
    <3>3. chunk' >= 1
      BY <1>0, <2>1
    <3>4. reg' # None /\ ~InRaced'
      BY <1>0, <2>1, UsbAssumption DEF InInv, InRaced
    <3>5. QED BY <2>1, <3>1, <3>2, <3>3, <3>4 DEF InInv, InRaced
  <2>3. ~InWaits /\ ~InWaits' /\ InTog' = InTog
    BY <2>1 DEF InWaits, InTog, ClearingIn
  <2>4. InSlipped' = InSlipped
    BY <2>1, <2>3 DEF InSlipped
  <2>5. UNCHANGED InVars
    BY <2>1, <2>3, <2>4 DEF InVars, InWaiting, InRaced
  <2>6. QED BY <2>2, <2>5
<1>8. CASE DevEP2_IN_Deal
  BY <1>8, InPut
<1>9. CASE In2 \/ In2_AckLost
  BY <1>9, InTake
<1>10. CASE BusReset
  <2>1. /\ stage' = "idle" /\ ep2'.ttog = 0 /\ ep2'.tres = "NAK" /\ hostTog'.in = 0
        /\ Resets({"in", "out"}) /\ UNCHANGED <<reg, chunk, taken>>
    BY <1>10 DEF BusReset, Ep2Reset, HostTogReset, inVars
  <2>2. resets'["in"] = 1 - resets["in"] /\ (InRaced' <=> InRaced \/ reg # None)
    BY <2>1, ResetsOne DEF InRaced
  <2>3. InInv'
    BY <2>1, <2>2 DEF InInv, InRaced
  <2>4. ~InWaits' /\ ~InSlipped'
    BY <2>1 DEF InWaits, InSlipped, InTog, ClearingIn
  <2>5. InPipe!Reset
    BY <2>1, <2>2, <2>4 DEF InPipe!Reset
  <2>6. QED BY <2>3, <2>5 DEF InPipe!Next
<1>11. QED
  BY <1>1, <1>2, <1>3, <1>4, <1>5, <1>6, <1>7, <1>8, <1>9, <1>10 DEF Next, Control

-----------------------------------------------------------------------------
(* The invariant holds at first ... *)
LEMMA InitInv == Init => IInv
<1> SUFFICES ASSUME Init PROVE IInv
  OBVIOUS
<1>1. TypeOK
  <2>1. ControlType
    BY DEF Init, ControlType, Togs
  <2>2. ep2 \in Ep2Type /\ HostTogType
    BY DEF Init, Ep2Reset, HostTogReset, HostTogType, Ep2Type, Togs
  <2>3. PacketType
    <3>1. 0 \in 0 .. MaxPackets /\ << >> \in Seq(1 .. MaxPackets)
      BY Bounds, EmptySeq
    <3>2. resets \in [{"in", "out"} -> {0, 1}]
      BY DEF Init
    <3>3. QED BY <2>2, <3>1, <3>2 DEF Init, PacketType
  <2>4. QED BY <2>1, <2>2, <2>3 DEF TypeOK
<1>2. CtlInv /\ DataInv
  BY DEF Init, CtlInv, DataInv
<1>3. OutInv /\ InInv
  BY DEF Init, OutInv, InInv, Ep2Reset
<1>4. ReadsAreWhole /\ AddressesAgree
  <2>1. None \notin Reads
    BY UsbAssumption
  <2>2. QED BY <2>1 DEF Init, ReadsAreWhole, AddressesAgree, Served
<1>5. QED BY <1>1, <1>2, <1>3, <1>4 DEF IInv

(* ... and every step keeps it. *)
LEMMA StepInv == IInv /\ [Next]_vars => IInv'
<1>1. SUFFICES ASSUME IInv, [Next]_vars PROVE IInv'
  OBVIOUS
<1>2. QED BY <1>1, TypeStep, CtlStep, DataStep, OutStep, InStep, AddressStep DEF IInv

(* So it always holds. *)
LEMMA UsbInvariant == Spec => []IInv
<1>1. QED BY InitInv, StepInv, PTL DEF Spec

(* The variables of the device have their types. *)
THEOREM UsbTypeCorrect == Spec => []TypeOK
<1>1. IInv => TypeOK
  BY DEF IInv
<1>2. QED BY UsbInvariant, <1>1, PTL

(* A control transfer that has read something has read what was asked      *)
(* for, all of it and each byte once, for every length of descriptor,      *)
(* request and packet, and whatever handshakes were lost, except for what  *)
(* the device has no data for (app_usb.c:194-206, 302-403).                *)
THEOREM UsbReadsAreWhole == Spec => []ReadsAreWhole
<1>1. IInv => ReadsAreWhole
  BY DEF IInv
<1>2. QED BY UsbInvariant, <1>1, PTL

(* Device and host agree on the address, unless the handshake that ends    *)
(* the assignment was lost or a request of another type had its code       *)
(* (app_usb.c:207-210, 292, 406-408, 490).                                 *)
THEOREM UsbAddressesAgree == Spec => []AddressesAgree
<1>1. IInv => AddressesAgree
  BY DEF IInv
<1>2. QED BY UsbInvariant, <1>1, PTL

(* Packets to the device are dealt with once and in order, for any number  *)
(* of packets, lost handshakes and resets.  A change of the toggle between *)
(* reading and writing R8_UEP2_CTRL costs one packet at most               *)
(* (app_usb.c:239-251, 420-441, 488-497; CH58x_usbdev.c:79-83).            *)
THEOREM UsbOutIsPipe == Spec => OutIsPipe
<1>1. Init => OutPipe!Init
  <2>1. Init => ~OutWaits /\ ~OutSlipped /\ ~OutRaced
    BY DEF Init, OutWaits, OutSlipped, OutTog, OutRaced, ClearingOut, ClearingIn, Ep2Reset, HostTogReset
  <2>2. Init => dealt = << >> /\ resets["out"] = 0
    BY DEF Init
  <2>3. QED BY <2>1, <2>2 DEF OutPipe!Init, OutRaced
<1>2. IInv /\ [Next]_vars => [OutPipe!Next]_OutVars
  BY OutStep DEF IInv
<1>3. QED
  BY <1>1, <1>2, UsbInvariant, PTL
  DEF Spec, OutIsPipe, OutPipe!Spec, OutPipe!vars, OutVars, OutWaiting, OutRaced

(* So are packets to the host, and none is overwritten in the buffer       *)
(* before the host has taken it (app_usb.c:104-119, 249-251, 420-441,      *)
(* 488-497; CH58x_usbdev.c:79-83).                                         *)
THEOREM UsbInIsPipe == Spec => InIsPipe
<1>1. Init => InPipe!Init
  <2>1. Init => ~InWaits /\ ~InSlipped /\ ~InRaced
    BY DEF Init, InWaits, InSlipped, InTog, InRaced, ClearingOut, ClearingIn, Ep2Reset, HostTogReset
  <2>2. Init => taken = << >> /\ resets["in"] = 0
    BY DEF Init
  <2>3. QED BY <2>1, <2>2 DEF InPipe!Init, InRaced
<1>2. IInv /\ [Next]_vars => [InPipe!Next]_InVars
  BY InStep DEF IInv
<1>3. QED
  BY <1>1, <1>2, UsbInvariant, PTL
  DEF Spec, InIsPipe, InPipe!Spec, InPipe!vars, InVars, InWaiting, InRaced
=============================================================================
