---------------------------- MODULE Ch582_proofs ----------------------------
(***************************************************************************)
(* What holds of the CH582 firmware for every FIFO, endpoint and list      *)
(* size: the handshake over the command buffer, the wake-up of the sender, *)
(* the end of the scan, the types, and that the stream is whole messages.  *)
(***************************************************************************)
EXTENDS Ch582, SequenceTheorems, WellFoundedInduction, TLAPS

(***************************************************************************)
(* Besides the three properties: a command is being parsed only while the  *)
(* buffer is taken.                                                        *)
(***************************************************************************)
HandshakeInv ==
  /\ pc = "parse" => app_cmd_len
  /\ BufferNotStuck
  /\ SendingGoesOn
  /\ StoppedStaysStopped

LEMMA InitHandshake == Init => HandshakeInv
BY DEF Init, HandshakeInv, BufferNotStuck, SendingGoesOn, StoppedStaysStopped

LEMMA NextHandshake == HandshakeInv /\ [Next]_vars => HandshakeInv'
<1> SUFFICES ASSUME HandshakeInv, [Next]_vars PROVE HandshakeInv'
  OBVIOUS
<1> USE DEF HandshakeInv, BufferNotStuck, SendingGoesOn, StoppedStaysStopped,
            usbVars, cmdVars, cfgVars, scanVars
<1>1. CASE EndpointBusy
  BY <1>1 DEF EndpointBusy
<1>2. CASE SendChunk
  BY <1>2 DEF SendChunk
<1>3. CASE NewUsbData
  BY <1>3 DEF NewUsbData
<1>4. CASE StopDiscoveryEvent
  BY <1>4 DEF StopDiscoveryEvent, StopDiscovery, Cancel, app_drv_fifo_flush
<1>5. CASE Scan
  BY <1>5 DEF Scan, Executes, StopDiscovery, Cancel, app_drv_fifo_flush
<1>6. CASE AddMac \/ ClearMacs \/ Info
  BY <1>6 DEF AddMac, ClearMacs, Info, Executes
<1>7. CASE Unknown
  BY <1>7 DEF Unknown
<1>8. CASE send_cmd_resp
  BY <1>8 DEF send_cmd_resp
<1>9. ASSUME NEW m, NEW atype, NEW n, Forward(m, atype, n)
      PROVE HandshakeInv'
  BY <1>9 DEF Forward, app_drv_fifo_write
<1>10. CASE GAP_DEVICE_DISCOVERY_EVENT
  BY <1>10 DEF GAP_DEVICE_DISCOVERY_EVENT
<1>11. CASE ObserverEventCB
  BY <1>9, <1>10, <1>11 DEF ObserverEventCB, GAP_DEVICE_INFO_EVENT,
     GAP_EXT_ADV_DEVICE_INFO_EVENT, GAP_DIRECT_DEVICE_INFO_EVENT
<1>12. CASE TimerFires
  BY <1>12 DEF TimerFires
<1>13. CASE DiscoveryEnds
  BY <1>13 DEF DiscoveryEnds
<1>14. ASSUME NEW cmd, NEW arg, OutPacket(cmd, arg)
       PROVE HandshakeInv'
  BY <1>14 DEF OutPacket, DevEP2_OUT_Deal
<1>15. CASE InPacket
  BY <1>15 DEF InPacket
<1>16. CASE BusReset
  BY <1>16 DEF BusReset
<1>17. CASE BusSuspend
  BY <1>17 DEF BusSuspend
<1>18. CASE USB_DevTransProcess
  BY <1>14, <1>15, <1>16, <1>17, <1>18 DEF USB_DevTransProcess
<1>19. CASE UNCHANGED vars
  BY <1>19 DEF vars
<1> QED
  BY <1>1, <1>2, <1>3, <1>4, <1>5, <1>6, <1>7, <1>8, <1>11, <1>12, <1>13, <1>18, <1>19
     DEF Next, Observer_ProcessEvent, NewBleData, parse_command

LEMMA HandshakeInvariant == Spec => []HandshakeInv
BY InitHandshake, NextHandshake, PTL DEF Spec

(***************************************************************************)
(* The command buffer is never taken without its event pending, its        *)
(* command in work, or a command in it that parse_command does not know.   *)
(***************************************************************************)
THEOREM Ch582BufferNotStuck == Spec => []BufferNotStuck
<1>1. HandshakeInv => BufferNotStuck
  BY DEF HandshakeInv
<1> QED
  BY <1>1, HandshakeInvariant, PTL

(***************************************************************************)
(* While there are bytes in app_tx_fifo, NEW_BLEDATA_EVT is set or timed.  *)
(***************************************************************************)
THEOREM Ch582SendingGoesOn == Spec => []SendingGoesOn
<1>1. HandshakeInv => SendingGoesOn
  BY DEF HandshakeInv
<1> QED
  BY <1>1, HandshakeInvariant, PTL

(***************************************************************************)
(* No discovery runs while scan_params.phys is 0.                          *)
(***************************************************************************)
THEOREM Ch582StoppedStaysStopped == Spec => []StoppedStaysStopped
<1>1. HandshakeInv => StoppedStaysStopped
  BY DEF HandshakeInv
<1> QED
  BY <1>1, HandshakeInvariant, PTL

(***************************************************************************)
(* The answer to a stop command always finds room.                         *)
(***************************************************************************)
THEOREM Ch582StopIsAnswered == Spec => StopIsAnswered
<1>1. Next => (pc = "parse" /\ pc' = "resp" /\ Stops(app_cmd_buf) =>
                 HeadLen + Len(fifo') <= FifoSize)
  <2> SUFFICES ASSUME Next, pc = "parse", pc' = "resp", Stops(app_cmd_buf)
               PROVE  HeadLen + Len(fifo') <= FifoSize
    OBVIOUS
  <2>1. CASE Scan
    <3>1. fifo' = << >>
      BY <2>1 DEF Scan, Executes, Stops, StopDiscovery, app_drv_fifo_flush
    <3> QED
      BY <3>1, Ch582Assumption
  <2>2. CASE AddMac \/ ClearMacs \/ Info
    BY <2>2 DEF AddMac, ClearMacs, Info, Executes, Stops, ListCmd
  <2>3. CASE pc' # "resp"
    BY <2>3
  <2>4. CASE pc' = pc
    BY <2>4
  <2>5. Scan \/ AddMac \/ ClearMacs \/ Info \/ pc' # "resp" \/ pc' = pc
    <3>1. CASE NewBleData \/ NewUsbData \/ StopDiscoveryEvent
      BY <3>1 DEF NewBleData, EndpointBusy, SendChunk, NewUsbData, StopDiscoveryEvent
    <3>2. CASE parse_command \/ send_cmd_resp
      BY <3>2 DEF parse_command, Unknown, send_cmd_resp
    <3>3. CASE ObserverEventCB
      BY <3>3 DEF ObserverEventCB, GAP_DEVICE_INFO_EVENT, GAP_EXT_ADV_DEVICE_INFO_EVENT,
         GAP_DIRECT_DEVICE_INFO_EVENT, GAP_DEVICE_DISCOVERY_EVENT, Forward
    <3>4. CASE TimerFires \/ DiscoveryEnds
      BY <3>4 DEF TimerFires, DiscoveryEnds
    <3>5. CASE USB_DevTransProcess
      BY <3>5 DEF USB_DevTransProcess, OutPacket, InPacket, BusReset, BusSuspend
    <3> QED
      BY <3>1, <3>2, <3>3, <3>4, <3>5 DEF Next, Observer_ProcessEvent
  <2> QED
    BY <2>1, <2>2, <2>3, <2>4, <2>5
<1>2. [Next]_vars =>
        [pc = "parse" /\ pc' = "resp" /\ Stops(app_cmd_buf) =>
           HeadLen + Len(fifo') <= FifoSize]_vars
  BY <1>1
<1> QED
  BY <1>2, PTL DEF Spec, StopIsAnswered

-----------------------------------------------------------------------------
(* Some assumptions on their own. *)
LEMMA Sizes ==
  /\ HeadLen \in Nat /\ HeadLen >= 1 /\ EpSize \in Nat /\ EpSize >= 1
  /\ MaxData \in Nat /\ FifoSize \in Nat /\ MaxCmds \in Nat /\ ListMax \in Nat
  BY Ch582Assumption

(* The argument of a command is of the kind the command has. *)
LEMMA CommandFields ==
  ASSUME NEW c \in Command
  PROVE  /\ c.seq \in 1 .. MaxCmds /\ c.seq \in 0 .. MaxCmds
         /\ c.cmd \in {"SCAN", "WMAC", "BMAC", "CLRM", "INFO", "OTHER"}
         /\ c.cmd = "SCAN" => c.arg.start \in BOOLEAN /\ c.arg.filtr \in SUBSET Bit
         /\ c.cmd \in ListCmd => c.arg \in Mac
<1>1. CASE c \in [seq : 1 .. MaxCmds, cmd : {"SCAN"}, arg : ScanArg]
  BY <1>1, Sizes DEF ListCmd, ScanArg
<1>2. CASE c \in [seq : 1 .. MaxCmds, cmd : ListCmd, arg : Mac]
  BY <1>2, Sizes DEF ListCmd
<1>3. CASE c \in [seq : 1 .. MaxCmds, cmd : {"CLRM", "INFO", "OTHER"}, arg : {None}]
  BY <1>3, Sizes DEF ListCmd
<1>4. QED BY <1>1, <1>2, <1>3 DEF Command

(* The bytes of a message. *)
LEMMA BytesType ==
  ASSUME NEW msg \in Message
  PROVE  /\ Size(msg) \in Nat /\ Size(msg) >= 1 /\ Size(msg) <= HeadLen + MaxData
         /\ Bytes(msg) \in Seq(Byte) /\ Len(Bytes(msg)) = Size(msg)
         /\ \A i \in 1 .. Size(msg) : Bytes(msg)[i] = [msg |-> msg, pos |-> i]
<1>1. msg.len \in Nat /\ msg.len <= MaxData
  BY Sizes DEF Message
<1>2. Size(msg) \in Nat /\ Size(msg) >= 1 /\ Size(msg) <= HeadLen + MaxData
  BY <1>1, Sizes DEF Size
<1>3. \A i \in 1 .. Size(msg) : [msg |-> msg, pos |-> i] \in Byte
  BY <1>2, Sizes DEF Byte
<1>4. Bytes(msg) \in Seq(Byte)
  BY <1>2, <1>3, IsASeq DEF Bytes
<1>5. Len(Bytes(msg)) = Size(msg)
  BY <1>2 DEF Bytes
<1>6. QED BY <1>2, <1>4, <1>5 DEF Bytes

(* Every byte has a place in its message. *)
LEMMA ByteFields ==
  ASSUME NEW b \in Byte
  PROVE  b.pos \in Nat /\ b.pos >= 1 /\ b.msg \in Message /\ Size(b.msg) \in Nat
  BY BytesType, Sizes DEF Byte

-----------------------------------------------------------------------------
(* A set of numbers that is not empty and bounded has a last element: the  *)
(* distance to the bound has a least one. *)
LEMMA LastElement ==
  ASSUME NEW n \in Nat, NEW E \in SUBSET (0 .. n), E # {}
  PROVE  \E i \in E : \A j \in E : j <= i
<1> DEFINE D == {n - i : i \in E}
<1>1. D \subseteq Nat /\ D # {}
  <2>1. \A i \in E : i \in 0 .. n
    OBVIOUS
  <2>2. \A i \in 0 .. n : n - i \in Nat
    OBVIOUS
  <2>3. \A x \in D : x \in Nat
    BY <2>1, <2>2
  <2>4. PICK i \in E : TRUE
    OBVIOUS
  <2>5. n - i \in D
    OBVIOUS
  <2>6. QED BY <2>3, <2>5, Zenon
<1>2. \E x \in D : \A y \in D : ~(<<y, x>> \in OpToRel(<, Nat))
  BY <1>1, NatLessThanWellFounded, WFMin, Zenon
<1>3. PICK x \in D : \A y \in D : ~(<<y, x>> \in OpToRel(<, Nat))
  BY <1>2
<1>4. ASSUME NEW y \in D PROVE x <= y
  <2>1. x \in Nat /\ y \in Nat
    BY <1>1, <1>3, <1>4
  <2>2. ~(y < x)
    BY <1>3, <1>4, <2>1 DEF OpToRel
  <2>3. QED BY <2>1, <2>2
<1>5. PICK i \in E : x = n - i
  BY <1>3
<1>6. ASSUME NEW j \in E PROVE j <= i
  <2>1. n - j \in D
    BY <1>6
  <2>2. i \in 0 .. n /\ j \in 0 .. n
    BY <1>5, <1>6
  <2>3. x <= n - j
    BY <1>4, <2>1
  <2>4. QED BY <1>5, <2>2, <2>3
<1>7. QED BY <1>5, <1>6

(* What is unfinished starts behind the end of a message. *)
LEMMA UnfinishedIsSuffix ==
  ASSUME NEW d \in Seq(Byte)
  PROVE  \E n \in 0 .. Len(d) :
           /\ (n = 0 \/ (n \in DOMAIN d /\ Ends(d[n])))
           /\ Unfinished(d) = SubSeq(d, n + 1, Len(d))
           /\ Unfinished(d) \in Seq(Byte) /\ Len(Unfinished(d)) = Len(d) - n
           /\ \A i \in 1 .. Len(d) - n : Unfinished(d)[i] = d[n + i]
<1> DEFINE ends == {0} \cup {i \in DOMAIN d : Ends(d[i])}
           last == CHOOSE i \in ends : \A j \in ends : j <= i
<1>1. Len(d) \in Nat /\ DOMAIN d = 1 .. Len(d) /\ \A i \in 1 .. Len(d) : d[i] \in Byte
  BY LenProperties, ElementOfSeq
<1>2. ends \in SUBSET (0 .. Len(d)) /\ ends # {}
  BY <1>1
<1>3. \E i \in ends : \A j \in ends : j <= i
  <2> HIDE DEF ends
  <2>1. QED BY <1>1, <1>2, LastElement
<1>4. last \in ends
  <2> HIDE DEF ends
  <2>1. QED BY <1>3
<1>5. last \in 0 .. Len(d) /\ (last = 0 \/ (last \in DOMAIN d /\ Ends(d[last])))
  <2> HIDE DEF last
  <2>1. QED BY <1>2, <1>4
<1>6. Unfinished(d) = SubSeq(d, last + 1, Len(d))
  BY DEF Unfinished
<1> HIDE DEF last, ends
<1>7. /\ SubSeq(d, last + 1, Len(d)) \in Seq(Byte)
      /\ Len(SubSeq(d, last + 1, Len(d))) = IF last + 1 <= Len(d) THEN Len(d) - (last + 1) + 1 ELSE 0
      /\ \A i \in 1 .. Len(d) - (last + 1) + 1 : SubSeq(d, last + 1, Len(d))[i] = d[last + 1 + i - 1]
  <2>1. last + 1 \in Int /\ Len(d) \in Int /\ \A i \in last + 1 .. Len(d) : d[i] \in Byte
    BY <1>1, <1>5
  <2>2. QED BY <2>1, SubSeqProperties
<1>8. /\ Len(Unfinished(d)) = Len(d) - last
      /\ \A i \in 1 .. Len(d) - last : Unfinished(d)[i] = d[last + i]
  BY <1>1, <1>5, <1>6, <1>7
<1>9. QED BY <1>5, <1>6, <1>7, <1>8

-----------------------------------------------------------------------------
(* The list and the filter after a command. *)
LEMMA TypeExecutes ==
  ASSUME TypeOK, Scan \/ AddMac \/ ClearMacs \/ Info
  PROVE  TypeOK'
<1>1. /\ app_cmd_buf \in Command /\ pc' = "resp" /\ app_cmd_len' = FALSE
      /\ lastExec' = app_cmd_buf.seq
      /\ UNCHANGED <<events, timer, chunk, data, app_cmd_buf, sent>>
  BY DEF Scan, AddMac, ClearMacs, Info, Executes, TypeOK, CmdType, usbVars
<1>2. CmdType'
  BY <1>1, CommandFields DEF TypeOK, CmdType
<1>3. CASE Scan
  <2>1. app_cmd_buf.cmd = "SCAN" /\ filtr' = app_cmd_buf.arg.filtr /\ phys' = app_cmd_buf.arg.start
        /\ mac_list' = mac_list
    BY <1>3 DEF Scan, Executes
  <2>2. filtr' \in SUBSET Bit /\ phys' \in BOOLEAN
    BY <1>1, <2>1, CommandFields
  <2>3. CfgType'
    BY <2>1, <2>2 DEF TypeOK, CfgType
  <2>4. /\ discovering' \in BOOLEAN /\ over' \in BOOLEAN /\ cut' \in BOOLEAN
        /\ (fifo' = fifo \/ fifo' = << >>)
    <3>1. CASE phys' /\ discovering' = TRUE /\ UNCHANGED <<over, fifo, cut>>
      BY <3>1 DEF TypeOK, TaskType
    <3>2. CASE StopDiscovery
      BY <3>2 DEF StopDiscovery, Cancel, app_drv_fifo_flush, TypeOK, TaskType
    <3>3. QED BY <1>3, <3>1, <3>2 DEF Scan
  <2>5. StreamType'
    <3>1. << >> \in Seq(Byte) /\ Len(<< >>) = 0
      BY EmptySeq
    <3>2. fifo' \in Seq(Byte) /\ Len(fifo') <= FifoSize
      <4>1. CASE fifo' = fifo
        BY <4>1 DEF TypeOK, StreamType
      <4>2. CASE fifo' = << >>
        BY <3>1, <4>2, Sizes
      <4>3. QED BY <2>4, <4>1, <4>2
    <3>3. QED BY <1>1, <3>2, Zenon DEF TypeOK, StreamType
  <2>6. TaskType'
    BY <1>1, <2>2, <2>4 DEF TypeOK, TaskType
  <2>7. QED BY <1>2, <2>3, <2>5, <2>6 DEF TypeOK
<1>4. CASE AddMac \/ ClearMacs \/ Info
  <2>1. UNCHANGED <<filtr, phys, discovering, over, fifo, cut>>
    BY <1>4 DEF AddMac, ClearMacs, Info, cfgVars, scanVars
  <2>2. mac_list' \in [mode : ListCmd, mac : Seq(Mac)] /\ Len(mac_list'.mac) <= ListMax
    <3>1. /\ mac_list \in [mode : ListCmd, mac : Seq(Mac)] /\ Len(mac_list.mac) <= ListMax
          /\ mac_list.mac \in Seq(Mac) /\ Len(mac_list.mac) \in Nat /\ mac_list.mode \in ListCmd
      BY LenProperties DEF TypeOK, CfgType
    <3>2. CASE AddMac
      <4>1. app_cmd_buf.cmd \in ListCmd /\ app_cmd_buf.arg \in Mac
        BY <1>1, <3>2, CommandFields DEF AddMac, Executes
      <4>2. mac_list' = [mode |-> app_cmd_buf.cmd,
                         mac |-> IF Len(mac_list.mac) < ListMax THEN Append(mac_list.mac, app_cmd_buf.arg)
                                 ELSE mac_list.mac]
        BY <3>2 DEF AddMac, WithMac
      <4>3. mac_list'.mac \in Seq(Mac) /\ Len(mac_list'.mac) <= ListMax
        BY <3>1, <4>1, <4>2, AppendProperties, Sizes
      <4>4. QED BY <4>1, <4>2, <4>3
    <3>3. CASE ClearMacs
      <4>1. mac_list' = [mode |-> mac_list.mode, mac |-> << >>]
        BY <3>1, <3>3 DEF ClearMacs, WithoutMacs
      <4>2. QED BY <3>1, <4>1, EmptySeq, Sizes
    <3>4. CASE Info
      BY <3>1, <3>4 DEF Info, cfgVars
    <3>5. QED BY <1>4, <3>2, <3>3, <3>4
  <2>3. CfgType'
    BY <2>1, <2>2 DEF TypeOK, CfgType
  <2>4. StreamType' /\ TaskType'
    BY <1>1, <2>1 DEF TypeOK, StreamType, TaskType
  <2>5. QED BY <1>2, <2>3, <2>4 DEF TypeOK
<1>5. QED BY <1>3, <1>4

(* A message enters the FIFO whole or not at all. *)
LEMMA FifoWrite ==
  ASSUME StreamType, NEW msg \in Message, app_drv_fifo_write(msg)
  PROVE  fifo' \in Seq(Byte) /\ Len(fifo') <= FifoSize
<1>1. fifo \in Seq(Byte) /\ Len(fifo) \in Nat /\ Len(fifo) <= FifoSize
  BY LenProperties DEF StreamType
<1>2. CASE fifo' = fifo
  BY <1>1, <1>2
<1>3. CASE Room(msg) /\ fifo' = fifo \o Bytes(msg)
  <2>1. fifo' \in Seq(Byte) /\ Len(fifo') = Len(fifo) + Size(msg)
    BY <1>1, <1>3, BytesType, ConcatProperties
  <2>2. QED BY <1>3, <2>1 DEF Room
<1>4. QED BY <1>2, <1>3 DEF app_drv_fifo_write

(* The bytes of the FIFO are those of the chunk and those left.            *)
LEMMA FifoCut ==
  ASSUME StreamType
  PROVE  /\ ChunkLen \in Nat /\ ChunkLen <= EpSize /\ ChunkLen <= Len(fifo)
         /\ SubSeq(fifo, 1, ChunkLen) \in Seq(Byte) /\ Len(SubSeq(fifo, 1, ChunkLen)) = ChunkLen
         /\ SubSeq(fifo, ChunkLen + 1, Len(fifo)) \in Seq(Byte)
         /\ Len(SubSeq(fifo, ChunkLen + 1, Len(fifo))) = Len(fifo) - ChunkLen
         /\ SubSeq(fifo, 1, ChunkLen) \o SubSeq(fifo, ChunkLen + 1, Len(fifo)) = fifo
<1>1. fifo \in Seq(Byte) /\ Len(fifo) \in Nat /\ \A i \in 1 .. Len(fifo) : fifo[i] \in Byte
  BY LenProperties, ElementOfSeq DEF StreamType
<1> DEFINE n == ChunkLen
           p == SubSeq(fifo, 1, n)
           q == SubSeq(fifo, n + 1, Len(fifo))
<1>2. n \in Nat /\ n <= EpSize /\ n <= Len(fifo)
  BY <1>1, Sizes DEF ChunkLen
<1> HIDE DEF n
<1>3. p \in Seq(Byte) /\ Len(p) = n /\ \A i \in 1 .. n : p[i] = fifo[i]
  <2>1. 1 \in Int /\ n \in Int /\ \A i \in 1 .. n : fifo[i] \in Byte
    BY <1>1, <1>2
  <2>2. /\ SubSeq(fifo, 1, n) \in Seq(Byte)
        /\ Len(SubSeq(fifo, 1, n)) = IF 1 <= n THEN n - 1 + 1 ELSE 0
        /\ \A i \in 1 .. n - 1 + 1 : SubSeq(fifo, 1, n)[i] = fifo[1 + i - 1]
    BY <2>1, SubSeqProperties
  <2>3. QED BY <1>2, <2>2
<1>4. q \in Seq(Byte) /\ Len(q) = Len(fifo) - n /\ \A i \in 1 .. Len(fifo) - n : q[i] = fifo[n + i]
  <2>1. n + 1 \in Int /\ Len(fifo) \in Int /\ \A i \in n + 1 .. Len(fifo) : fifo[i] \in Byte
    BY <1>1, <1>2
  <2>2. /\ SubSeq(fifo, n + 1, Len(fifo)) \in Seq(Byte)
        /\ Len(SubSeq(fifo, n + 1, Len(fifo))) = IF n + 1 <= Len(fifo) THEN Len(fifo) - (n + 1) + 1 ELSE 0
        /\ \A i \in 1 .. Len(fifo) - (n + 1) + 1 : SubSeq(fifo, n + 1, Len(fifo))[i] = fifo[n + 1 + i - 1]
    BY <2>1, SubSeqProperties
  <2>3. QED BY <1>1, <1>2, <2>2
<1> HIDE DEF p, q
<1>5. /\ p \o q \in Seq(Byte) /\ Len(p \o q) = Len(p) + Len(q)
      /\ \A i \in 1 .. Len(p) + Len(q) : (p \o q)[i] = IF i <= Len(p) THEN p[i] ELSE q[i - Len(p)]
  BY <1>3, <1>4, ConcatProperties
<1>6. Len(p \o q) = Len(fifo)
  BY <1>1, <1>2, <1>3, <1>4, <1>5
<1>7. \A i \in 1 .. Len(p \o q) : (p \o q)[i] = fifo[i]
  BY <1>1, <1>2, <1>3, <1>4, <1>5
<1>8. p \o q = fifo
  BY <1>1, <1>5, <1>6, <1>7, SeqEqual
<1>9. QED BY <1>2, <1>3, <1>4, <1>8 DEF n, p, q

(* Every step keeps the types. *)
LEMMA TypeStep ==
  ASSUME TypeOK, [Next]_vars
  PROVE  TypeOK'
<1>1. CASE Scan \/ AddMac \/ ClearMacs \/ Info
  BY <1>1, TypeExecutes
<1>2. CASE EndpointBusy \/ NewUsbData \/ Unknown \/ TimerFires \/ DiscoveryEnds \/ BusSuspend
           \/ GAP_DEVICE_DISCOVERY_EVENT
  <2>1. UNCHANGED <<fifo, chunk, data, app_cmd_len, app_cmd_buf, sent, mac_list, filtr, lastExec, cut, phys>>
    BY <1>2 DEF EndpointBusy, NewUsbData, Unknown, TimerFires, DiscoveryEnds, BusSuspend,
       GAP_DEVICE_DISCOVERY_EVENT, usbVars, cmdVars, cfgVars, scanVars
  <2>2. pc' = pc \/ pc' = "idle" \/ (pc' = "parse" /\ app_cmd_len)
    BY <1>2 DEF EndpointBusy, NewUsbData, Unknown, TimerFires, DiscoveryEnds, BusSuspend,
       GAP_DEVICE_DISCOVERY_EVENT
  <2>3. /\ events' \in SUBSET Event /\ timer' \in BOOLEAN /\ discovering' \in BOOLEAN
        /\ over' \in BOOLEAN
    BY <1>2 DEF EndpointBusy, NewUsbData, Unknown, TimerFires, DiscoveryEnds, BusSuspend,
       GAP_DEVICE_DISCOVERY_EVENT, scanVars, TypeOK, TaskType, Event
  <2>4. StreamType' /\ CfgType'
    BY <2>1, Zenon DEF TypeOK, StreamType, CfgType
  <2>5. CmdType'
    BY <2>1, <2>2 DEF TypeOK, CmdType
  <2>6. TaskType'
    BY <2>1, <2>3, Zenon DEF TypeOK, TaskType
  <2>7. QED BY <2>4, <2>5, <2>6 DEF TypeOK
<1>3. CASE SendChunk
  <2>1. chunk' = SubSeq(fifo, 1, ChunkLen) /\ fifo' = SubSeq(fifo, ChunkLen + 1, Len(fifo)) /\ data' = data
    BY <1>3 DEF SendChunk
  <2>2. fifo \in Seq(Byte) /\ Len(fifo) <= FifoSize /\ Len(fifo) \in Nat
    BY LenProperties DEF TypeOK, StreamType
  <2>3. StreamType'
    BY <2>1, <2>2, FifoCut, Sizes, SMTT(30) DEF TypeOK, StreamType
  <2>4. TaskType'
    BY <1>3 DEF SendChunk, scanVars, TypeOK, TaskType
  <2>5. CmdType' /\ CfgType'
    BY <1>3, Zenon DEF SendChunk, cmdVars, cfgVars, TypeOK, CmdType, CfgType
  <2>6. QED BY <2>3, <2>4, <2>5 DEF TypeOK
<1>4. CASE StopDiscoveryEvent
  <2>1. /\ fifo' = << >> /\ events' = {} /\ discovering' \in BOOLEAN /\ over' \in BOOLEAN /\ cut' \in BOOLEAN
    BY <1>4 DEF StopDiscoveryEvent, StopDiscovery, Cancel, app_drv_fifo_flush, TypeOK, TaskType
  <2>2. << >> \in Seq(Byte) /\ Len(<< >>) = 0
    BY EmptySeq
  <2>3. UNCHANGED <<pc, timer, usbVars, cmdVars, cfgVars, phys, lastExec>>
    BY <1>4 DEF StopDiscoveryEvent
  <2>4. StreamType'
    <3>1. fifo' \in Seq(Byte) /\ Len(fifo') <= FifoSize
      BY <2>1, <2>2, Sizes
    <3>2. QED BY <2>3, <3>1, Zenon DEF usbVars, TypeOK, StreamType
  <2>5. TaskType'
    BY <2>1, <2>3 DEF TypeOK, TaskType
  <2>6. CmdType' /\ CfgType'
    BY <2>3, Zenon DEF cmdVars, cfgVars, TypeOK, CmdType, CfgType
  <2>7. QED BY <2>4, <2>5, <2>6 DEF TypeOK
<1>5. ASSUME NEW msg \in Message, app_drv_fifo_write(msg) \/ fifo' = fifo,
             UNCHANGED <<timer, usbVars, cmdVars, cfgVars, scanVars, lastExec, cut>>,
             pc' \in {pc, "idle"}, events' \in {events, events \cup {"NEW_BLEDATA"}}
      PROVE  TypeOK'
  <2>1. fifo' \in Seq(Byte) /\ Len(fifo') <= FifoSize
    BY <1>5, FifoWrite DEF TypeOK, StreamType
  <2>2. StreamType'
    BY <1>5, <2>1, Zenon DEF usbVars, TypeOK, StreamType
  <2>3. CmdType'
    BY <1>5 DEF cmdVars, TypeOK, CmdType
  <2>4. TaskType'
    BY <1>5 DEF scanVars, TypeOK, TaskType, Event
  <2>5. CfgType'
    BY <1>5, Zenon DEF cfgVars, TypeOK, CfgType
  <2>6. QED BY <2>2, <2>3, <2>4, <2>5 DEF TypeOK
<1>6. CASE send_cmd_resp
  <2>1. [to |-> lastExec, len |-> 0] \in Message
    BY Sizes DEF Message, TypeOK, CmdType
  <2>2. QED BY <1>5, <1>6, <2>1 DEF send_cmd_resp
<1>7. ASSUME NEW m, NEW atype, NEW n \in 0 .. MaxData, Forward(m, atype, n)
      PROVE  TypeOK'
  <2>1. [to |-> 0, len |-> n] \in Message
    BY DEF Message
  <2>2. QED BY <1>5, <1>7, <2>1 DEF Forward
<1>8. CASE ObserverEventCB
  <2>1. 0 \in 0 .. MaxData
    BY Sizes
  <2>2. QED BY <1>2, <1>7, <1>8, <2>1 DEF ObserverEventCB, GAP_DEVICE_INFO_EVENT,
               GAP_EXT_ADV_DEVICE_INFO_EVENT, GAP_DIRECT_DEVICE_INFO_EVENT
<1>9. ASSUME NEW c \in [cmd : {"SCAN"}, arg : ScanArg] \cup [cmd : ListCmd, arg : Mac]
                        \cup [cmd : {"CLRM", "INFO", "OTHER"}, arg : {None}],
             OutPacket(c.cmd, c.arg)
      PROVE  TypeOK'
  <2>1. sent < MaxCmds /\ sent' = sent + 1 /\ sent \in 0 .. MaxCmds /\ sent' \in 1 .. MaxCmds /\ sent' \in 0 .. MaxCmds
    BY <1>9, Sizes DEF OutPacket, TypeOK, CmdType
  <2>2. [seq |-> sent + 1, cmd |-> c.cmd, arg |-> c.arg] \in Command
    BY <1>9, <2>1 DEF Command
  <2>3. /\ \/ app_cmd_len' = TRUE /\ app_cmd_buf' = [seq |-> sent + 1, cmd |-> c.cmd, arg |-> c.arg]
           \/ UNCHANGED <<app_cmd_len, app_cmd_buf>>
        /\ (events' = events \/ events' = events \cup {"NEW_USBDATA"})
    BY <1>9 DEF OutPacket, DevEP2_OUT_Deal
  <2>4. UNCHANGED <<pc, timer, fifo, usbVars, cfgVars, scanVars, lastExec, cut>>
    BY <1>9 DEF OutPacket
  <2>5. CmdType'
    <3>1. CASE app_cmd_len' = TRUE /\ app_cmd_buf' = [seq |-> sent + 1, cmd |-> c.cmd, arg |-> c.arg]
      BY <2>1, <2>2, <2>4, <3>1, Zenon DEF TypeOK, CmdType
    <3>2. CASE UNCHANGED <<app_cmd_len, app_cmd_buf>>
      BY <2>1, <2>4, <3>2 DEF TypeOK, CmdType
    <3>3. QED BY <2>3, <3>1, <3>2
  <2>6. TaskType'
    BY <2>3, <2>4 DEF scanVars, TypeOK, TaskType, Event
  <2>7. StreamType' /\ CfgType'
    BY <2>4, Zenon DEF usbVars, cfgVars, TypeOK, StreamType, CfgType
  <2>8. QED BY <2>5, <2>6, <2>7 DEF TypeOK
<1>10. CASE InPacket \/ BusReset
  <2>1. UNCHANGED <<pc, events, timer, fifo, cmdVars, cfgVars, scanVars, lastExec>> /\ chunk' = << >>
    BY <1>10 DEF InPacket, BusReset
  <2>2. << >> \in Seq(Byte) /\ Len(<< >>) = 0
    BY EmptySeq
  <2>3. data' \in Seq(Byte)
    <3>1. CASE data' = data \/ data' = << >>
      BY <2>2, <3>1 DEF TypeOK, StreamType
    <3>2. CASE data' = Unfinished(data \o chunk)
      <4>1. data \o chunk \in Seq(Byte)
        BY ConcatProperties DEF TypeOK, StreamType
      <4>2. QED BY <3>2, <4>1, UnfinishedIsSuffix
    <3>3. QED BY <1>10, <3>1, <3>2 DEF InPacket, BusReset
  <2>4. cut' \in BOOLEAN
    BY <1>10 DEF InPacket, BusReset, TypeOK, TaskType
  <2>5. StreamType'
    <3>1. Len(chunk') <= EpSize /\ chunk' \in Seq(Byte)
      BY <2>1, <2>2, Sizes
    <3>2. QED BY <2>1, <2>3, <3>1, Zenon DEF TypeOK, StreamType
  <2>6. TaskType'
    BY <2>1, <2>4, Zenon DEF scanVars, TypeOK, TaskType
  <2>7. CmdType' /\ CfgType'
    BY <2>1, Zenon DEF cmdVars, cfgVars, TypeOK, CmdType, CfgType
  <2>8. QED BY <2>5, <2>6, <2>7 DEF TypeOK
<1>11. CASE UNCHANGED vars
  BY <1>11, Zenon DEF vars, usbVars, cmdVars, cfgVars, scanVars, TypeOK, StreamType, CmdType, CfgType, TaskType
<1>12. QED
  BY <1>1, <1>2, <1>3, <1>4, <1>6, <1>8, <1>9, <1>10, <1>11
     DEF Next, Observer_ProcessEvent, NewBleData, parse_command, USB_DevTransProcess

LEMMA InitTypes == Init => TypeOK
<1> SUFFICES ASSUME Init PROVE TypeOK
  OBVIOUS
<1>1. \A S : << >> \in Seq(S) /\ Len(<< >>) = 0
  BY EmptySeq
<1>2. StreamType
  BY <1>1, Sizes DEF Init, StreamType
<1>3. CmdType
  <2>1. pc = "idle" /\ app_cmd_len = FALSE /\ app_cmd_buf = None /\ sent = 0 /\ lastExec = 0
    BY DEF Init
  <2>2. 0 \in 0 .. MaxCmds
    BY Sizes
  <2>3. pc \in {"idle", "parse", "resp"} /\ pc # "parse"
    BY <2>1
  <2>4. QED BY <2>1, <2>2, <2>3, Zenon DEF CmdType
<1>4. CfgType
  <2>1. mac_list = [mode |-> "WMAC", mac |-> << >>] /\ filtr = {}
    BY DEF Init, EmptyList
  <2>2. QED BY <1>1, <2>1, Sizes DEF CfgType, ListCmd
<1>5. TaskType
  BY DEF Init, TaskType
<1>6. QED BY <1>2, <1>3, <1>4, <1>5 DEF TypeOK

(***************************************************************************)
(* The FIFO and the endpoint never hold more than they have room for, the  *)
(* list never more addresses than fit, and a command is being parsed only  *)
(* while the buffer is taken.                                              *)
(***************************************************************************)
THEOREM Ch582TypeCorrect == Spec => []TypeOK
BY InitTypes, TypeStep, PTL DEF Spec

-----------------------------------------------------------------------------
LEMMA BytesAssociative ==
  ASSUME NEW s \in Seq(Byte), NEW t \in Seq(Byte), NEW u \in Seq(Byte)
  PROVE  (s \o t) \o u = s \o (t \o u)
<1>1. QED BY ConcatAssociative

(* Whole, for indices in an interval. *)
LEMMA WholeIndices ==
  ASSUME NEW d \in Seq(Byte)
  PROVE  /\ Len(d) \in Nat
         /\ \A i \in 1 .. Len(d) : d[i] \in Byte
         /\ Whole(d) <=>
              /\ \A i \in 1 .. Len(d) :
                   IF i = 1 \/ Ends(d[i - 1])
                   THEN d[i].pos = 1
                   ELSE d[i].pos = d[i - 1].pos + 1 /\ d[i].msg = d[i - 1].msg
              /\ Len(d) > 0 => Ends(d[Len(d)])
<1>1. Len(d) \in Nat /\ DOMAIN d = 1 .. Len(d) /\ \A i \in 1 .. Len(d) : d[i] \in Byte
  BY LenProperties, ElementOfSeq
<1>2. d # << >> <=> Len(d) > 0
  BY <1>1, EmptySeq
<1>3. QED BY <1>1, <1>2 DEF Whole

(* A whole message may follow whole messages. *)
LEMMA WholeAndMessage ==
  ASSUME NEW d \in Seq(Byte), NEW msg \in Message, Whole(d)
  PROVE  Whole(d \o Bytes(msg))
<1> DEFINE n == Len(d)
           k == Size(msg)
           b == Bytes(msg)
           e == d \o b
<1>1. n \in Nat /\ k \in Nat /\ k >= 1 /\ b \in Seq(Byte) /\ Len(b) = k
  BY BytesType, LenProperties
<1>2. \A i \in 1 .. k : b[i] = [msg |-> msg, pos |-> i]
  BY BytesType
<1>3. /\ e \in Seq(Byte) /\ Len(e) = n + k
      /\ \A i \in 1 .. n + k : e[i] = IF i <= n THEN d[i] ELSE b[i - n]
  BY <1>1, ConcatProperties
<1>4. /\ \A i \in 1 .. n :
           IF i = 1 \/ Ends(d[i - 1])
           THEN d[i].pos = 1
           ELSE d[i].pos = d[i - 1].pos + 1 /\ d[i].msg = d[i - 1].msg
      /\ n > 0 => Ends(d[n])
  BY WholeIndices
<1> HIDE DEF n, b, e
<1>5. \A i \in n + 1 .. n + k : e[i] = [msg |-> msg, pos |-> i - n]
  <2> TAKE i \in n + 1 .. n + k
  <2>1. i - n \in 1 .. k /\ i \in 1 .. n + k /\ ~(i <= n)
    BY <1>1
  <2>2. QED BY <1>2, <1>3, <2>1
<1>6. \A i \in 1 .. n : e[i] = d[i]
  BY <1>1, <1>3
<1>7. ASSUME NEW i \in 1 .. n + k
      PROVE  IF i = 1 \/ Ends(e[i - 1])
             THEN e[i].pos = 1
             ELSE e[i].pos = e[i - 1].pos + 1 /\ e[i].msg = e[i - 1].msg
  <2>1. CASE i <= n
    <3>1. i \in 1 .. n /\ e[i] = d[i] /\ (i # 1 => e[i - 1] = d[i - 1])
      BY <1>1, <1>6, <1>7, <2>1
    <3>2. QED BY <1>4, <3>1
  <2>2. CASE i = n + 1
    <3>1. e[i].pos = 1
      <4>1. i \in n + 1 .. n + k /\ i - n = 1
        BY <1>1, <2>2
      <4>2. e[i] = [msg |-> msg, pos |-> i - n]
        BY <1>5, <4>1
      <4>3. QED BY <4>1, <4>2
    <3>2. i = 1 \/ Ends(e[i - 1])
      <4>1. CASE n = 0
        BY <2>2, <4>1
      <4>2. CASE n > 0
        <5>1. i - 1 = n /\ n \in 1 .. n
          BY <1>1, <2>2, <4>2
        <5>2. QED BY <1>4, <1>6, <4>2, <5>1
      <4>3. QED BY <1>1, <4>1, <4>2
    <3>3. QED BY <3>1, <3>2
  <2>3. CASE i > n + 1
    <3>1. /\ i \in n + 1 .. n + k /\ i - 1 \in n + 1 .. n + k
          /\ i # 1 /\ i - 1 - n # k /\ i - n = i - 1 - n + 1
      BY <1>1, <1>7, <2>3
    <3>2. e[i] = [msg |-> msg, pos |-> i - n] /\ e[i - 1] = [msg |-> msg, pos |-> i - 1 - n]
      BY <1>5, <3>1
    <3>3. ~Ends(e[i - 1])
      BY <3>1, <3>2 DEF Ends
    <3>4. QED BY <3>1, <3>2, <3>3
  <2>4. QED BY <1>1, <1>7, <2>1, <2>2, <2>3
<1>8. Ends(e[n + k])
  <2>1. e[n + k] = [msg |-> msg, pos |-> k]
    BY <1>1, <1>5
  <2>2. QED BY <2>1 DEF Ends
<1>9. Whole(e)
  BY <1>3, <1>7, <1>8, WholeIndices
<1>10. QED BY <1>9 DEF e, b

(* What goes before the beginning of a message is whole messages. *)
LEMMA WholePrefix ==
  ASSUME NEW d \in Seq(Byte), NEW e \in Seq(Byte), Whole(d \o e),
         e = << >> \/ e[1].pos = 1
  PROVE  Whole(d)
<1>1. CASE e = << >>
  BY <1>1, ConcatEmptySeq
<1>2. CASE e # << >> /\ e[1].pos = 1
  <2> DEFINE n == Len(d)
             w == d \o e
  <2>1. n \in Nat /\ Len(e) \in Nat /\ Len(e) >= 1
    BY <1>2, LenProperties, EmptySeq
  <2>2. /\ w \in Seq(Byte) /\ Len(w) = n + Len(e)
        /\ \A i \in 1 .. n + Len(e) : w[i] = IF i <= n THEN d[i] ELSE e[i - n]
    BY ConcatProperties
  <2> HIDE DEF w
  <2>3. \A i \in 1 .. n + Len(e) :
          IF i = 1 \/ Ends(w[i - 1])
          THEN w[i].pos = 1
          ELSE w[i].pos = w[i - 1].pos + 1 /\ w[i].msg = w[i - 1].msg
    <3>1. Whole(w)
      BY DEF w
    <3>2. QED BY <2>2, <3>1, WholeIndices
  <2> HIDE DEF n
  <2>4. \A i \in 1 .. n : w[i] = d[i] /\ i \in 1 .. n + Len(e) /\ (i # 1 => w[i - 1] = d[i - 1])
    BY <2>1, <2>2
  <2>5. \A i \in 1 .. n :
          IF i = 1 \/ Ends(d[i - 1])
          THEN d[i].pos = 1
          ELSE d[i].pos = d[i - 1].pos + 1 /\ d[i].msg = d[i - 1].msg
    <3> TAKE i \in 1 .. n
    <3>1. w[i] = d[i] /\ i \in 1 .. n + Len(e) /\ (i # 1 => w[i - 1] = d[i - 1])
      BY <2>4
    <3>2. QED BY <2>3, <3>1
  <2>6. ASSUME n > 0 PROVE Ends(d[n])
    <3>1. n \in 1 .. n /\ n + 1 \in 1 .. n + Len(e) /\ n + 1 # 1 /\ n + 1 - 1 = n /\ n + 1 - n = 1
      BY <2>1, <2>6
    <3>2. w[n + 1] = e[1] /\ w[n] = d[n]
      BY <2>1, <2>2, <2>4, <3>1
    <3>3. d[n] \in Byte
      BY <2>6, <3>1, ElementOfSeq DEF n
    <3>4. d[n].pos \in Nat /\ d[n].pos >= 1
      BY <3>3, ByteFields
    <3>5. Ends(w[n]) \/ w[n + 1].pos = w[n].pos + 1
      BY <2>3, <3>1
    <3>6. QED BY <1>2, <3>2, <3>4, <3>5
  <2>7. QED BY <2>5, <2>6, WholeIndices DEF n
<1>3. QED BY <1>1, <1>2

(* What comes behind the end of a message is whole messages. *)
LEMMA WholeSuffix ==
  ASSUME NEW d \in Seq(Byte), NEW q \in Seq(Byte), Whole(d),
         NEW n \in 0 .. Len(d), n = 0 \/ Ends(d[n]),
         Len(q) = Len(d) - n, \A i \in 1 .. Len(q) : q[i] = d[n + i]
  PROVE  Whole(q)
<1>1. Len(d) \in Nat /\ n \in Nat /\ Len(q) \in Nat
  BY LenProperties
<1>2. /\ \A i \in 1 .. Len(d) :
           IF i = 1 \/ Ends(d[i - 1])
           THEN d[i].pos = 1
           ELSE d[i].pos = d[i - 1].pos + 1 /\ d[i].msg = d[i - 1].msg
      /\ Len(d) > 0 => Ends(d[Len(d)])
  BY WholeIndices
<1>3. ASSUME NEW i \in 1 .. Len(q)
      PROVE  IF i = 1 \/ Ends(q[i - 1])
             THEN q[i].pos = 1
             ELSE q[i].pos = q[i - 1].pos + 1 /\ q[i].msg = q[i - 1].msg
  <2>1. n + i \in 1 .. Len(d) /\ q[i] = d[n + i]
    BY <1>1, <1>3
  <2>2. CASE i = 1
    <3>1. n + i - 1 = n
      BY <1>1, <2>2
    <3>2. n + i = 1 \/ Ends(d[n + i - 1])
      BY <1>1, <2>2, <3>1
    <3>3. QED BY <1>2, <2>1, <2>2, <3>2
  <2>3. CASE i # 1
    <3>1. i - 1 \in 1 .. Len(q) /\ n + i # 1 /\ n + (i - 1) = n + i - 1
      BY <1>1, <1>3, <2>3
    <3>2. q[i - 1] = d[n + i - 1]
      BY <3>1
    <3>3. QED BY <1>2, <2>1, <2>3, <3>1, <3>2
  <2>4. QED BY <2>2, <2>3
<1>4. ASSUME Len(q) > 0 PROVE Ends(q[Len(q)])
  <2>1. Len(q) \in 1 .. Len(q) /\ n + Len(q) = Len(d) /\ Len(d) > 0
    BY <1>1, <1>4
  <2>2. q[Len(q)] = d[Len(d)]
    BY <2>1
  <2>3. QED BY <1>2, <2>1, <2>2
<1>5. QED BY <1>3, <1>4, WholeIndices

-----------------------------------------------------------------------------
(* The host takes the messages that a chunk completes. *)
LEMMA WholeUnfinished ==
  ASSUME NEW d \in Seq(Byte), NEW e \in Seq(Byte), Whole(d \o e)
  PROVE  Unfinished(d) \in Seq(Byte) /\ Whole(Unfinished(d) \o e)
<1>1. PICK n \in 0 .. Len(d) :
        /\ (n = 0 \/ (n \in DOMAIN d /\ Ends(d[n])))
        /\ Unfinished(d) \in Seq(Byte) /\ Len(Unfinished(d)) = Len(d) - n
        /\ \A i \in 1 .. Len(d) - n : Unfinished(d)[i] = d[n + i]
  BY UnfinishedIsSuffix
<1> DEFINE u == Unfinished(d)
           w == d \o e
           q == u \o e
<1> HIDE DEF u
<1>2. /\ u \in Seq(Byte) /\ Len(u) = Len(d) - n
      /\ \A i \in 1 .. Len(d) - n : u[i] = d[n + i]
  BY <1>1 DEF u
<1>3. Len(d) \in Nat /\ Len(e) \in Nat /\ n \in Nat /\ n <= Len(d) /\ DOMAIN d = 1 .. Len(d)
  BY LenProperties
<1>4. /\ w \in Seq(Byte) /\ Len(w) = Len(d) + Len(e)
      /\ \A i \in 1 .. Len(d) + Len(e) : w[i] = IF i <= Len(d) THEN d[i] ELSE e[i - Len(d)]
  BY ConcatProperties
<1>5. /\ q \in Seq(Byte) /\ Len(q) = Len(u) + Len(e)
      /\ \A i \in 1 .. Len(u) + Len(e) : q[i] = IF i <= Len(u) THEN u[i] ELSE e[i - Len(u)]
  BY <1>2, ConcatProperties
<1>6. Whole(w)
  OBVIOUS
<1> HIDE DEF w, q
<1>7. n \in 0 .. Len(w) /\ Len(q) = Len(w) - n
  BY <1>2, <1>3, <1>4, <1>5
<1>8. n = 0 \/ Ends(w[n])
  <2>1. CASE n # 0
    <3>1. n \in 1 .. Len(d) + Len(e)
      BY <1>3, <2>1
    <3>2. w[n] = d[n]
      BY <1>3, <1>4, <3>1
    <3>3. QED BY <1>1, <2>1, <3>2
  <2>2. QED BY <2>1
<1>9. ASSUME NEW i \in 1 .. Len(q) PROVE q[i] = w[n + i]
  <2>1. i \in Nat /\ i >= 1 /\ i <= Len(u) + Len(e) /\ n + i \in 1 .. Len(d) + Len(e)
    BY <1>2, <1>3, <1>5, <1>9
  <2>2. CASE i <= Len(u)
    <3>1. i \in 1 .. Len(d) - n /\ n + i <= Len(d)
      BY <1>2, <1>3, <2>1, <2>2
    <3>2. q[i] = u[i] /\ u[i] = d[n + i] /\ w[n + i] = d[n + i]
      BY <1>2, <1>4, <1>5, <2>1, <2>2, <3>1
    <3>3. QED BY <3>2
  <2>3. CASE ~(i <= Len(u))
    <3>1. ~(n + i <= Len(d)) /\ n + i - Len(d) = i - Len(u)
      BY <1>2, <1>3, <2>1, <2>3
    <3>2. q[i] = e[i - Len(u)] /\ w[n + i] = e[n + i - Len(d)]
      BY <1>4, <1>5, <2>1, <2>3, <3>1
    <3>3. QED BY <3>1, <3>2
  <2>4. QED BY <2>2, <2>3
<1>10. Whole(q)
  BY <1>4, <1>5, <1>6, <1>7, <1>8, <1>9, WholeSuffix
<1>11. QED BY <1>2, <1>10 DEF u, q

(* A message written to the FIFO leaves the stream whole. *)
LEMMA WholeWrite ==
  ASSUME TypeOK, StreamWhole, NEW msg \in Message,
         app_drv_fifo_write(msg) \/ fifo' = fifo, UNCHANGED <<data, chunk, cut>>
  PROVE  StreamWhole'
<1>1. CASE fifo' = fifo
  BY <1>1 DEF StreamWhole
<1>2. CASE fifo' = fifo \o Bytes(msg)
  <2>1. data \in Seq(Byte) /\ chunk \in Seq(Byte) /\ fifo \in Seq(Byte) /\ Bytes(msg) \in Seq(Byte)
    BY BytesType DEF TypeOK, StreamType
  <2>2. data \o chunk \in Seq(Byte) /\ (data \o chunk) \o fifo \in Seq(Byte)
    BY <2>1, ConcatProperties
  <2>3. (data \o chunk) \o fifo' = ((data \o chunk) \o fifo) \o Bytes(msg)
    BY <1>2, <2>1, <2>2, BytesAssociative, ZenonT(30)
  <2>4. SUFFICES ASSUME ~cut PROVE Whole((data \o chunk) \o fifo')
    BY DEF StreamWhole
  <2>5. Whole((data \o chunk) \o fifo)
    BY <2>4 DEF StreamWhole
  <2>6. QED BY <2>2, <2>3, <2>5, WholeAndMessage
<1>3. QED BY <1>1, <1>2 DEF app_drv_fifo_write

(* Nor does the FIFO being flushed, unless a message has been begun. *)
LEMMA WholeFlush ==
  ASSUME TypeOK, StreamWhole, app_drv_fifo_flush, UNCHANGED <<data, chunk>>
  PROVE  StreamWhole'
<1>1. data \in Seq(Byte) /\ chunk \in Seq(Byte) /\ fifo \in Seq(Byte)
  BY DEF TypeOK, StreamType
<1>2. data \o chunk \in Seq(Byte)
  BY <1>1, ConcatProperties
<1>3. SUFFICES ASSUME ~cut' PROVE Whole((data \o chunk) \o fifo')
  BY DEF StreamWhole
<1>4. ~cut /\ (fifo = << >> \/ fifo[1].pos = 1) /\ fifo' = << >>
  BY <1>3 DEF app_drv_fifo_flush
<1>5. Whole((data \o chunk) \o fifo)
  BY <1>4 DEF StreamWhole
<1>6. Whole(data \o chunk)
  BY <1>1, <1>2, <1>4, <1>5, WholePrefix
<1>7. (data \o chunk) \o fifo' = data \o chunk
  BY <1>2, <1>4, ConcatEmptySeq
<1>8. QED BY <1>6, <1>7

(* Every step leaves the stream whole, unless it cuts a message. *)
LEMMA WholeStep ==
  ASSUME TypeOK, StreamWhole, [Next]_vars
  PROVE  StreamWhole'
<1>1. CASE UNCHANGED <<data, chunk, fifo, cut>>
  BY <1>1, Zenon DEF StreamWhole
<1>2. CASE SendChunk
  <2> DEFINE p == SubSeq(fifo, 1, ChunkLen)
             q == SubSeq(fifo, ChunkLen + 1, Len(fifo))
  <2>1. chunk = << >> /\ chunk' = p /\ fifo' = q /\ data' = data /\ cut' = cut
    BY <1>2 DEF SendChunk
  <2>2. p \in Seq(Byte) /\ q \in Seq(Byte) /\ p \o q = fifo /\ data \in Seq(Byte)
    BY FifoCut DEF TypeOK, StreamType
  <2> HIDE DEF p, q
  <2>3. (data \o chunk) \o fifo = data \o fifo
    BY <2>1, <2>2, ConcatEmptySeq
  <2>4. (data' \o chunk') \o fifo' = data \o fifo
    <3>1. (data \o p) \o q = data \o (p \o q)
      BY <2>2, BytesAssociative, Zenon
    <3>2. QED BY <2>1, <2>2, <3>1, Zenon
  <2>5. QED BY <2>1, <2>3, <2>4 DEF StreamWhole
<1>3. CASE StopDiscoveryEvent \/ Scan
  <2>1. UNCHANGED <<data, chunk>>
    BY <1>3 DEF StopDiscoveryEvent, Scan, Executes, usbVars
  <2>2. app_drv_fifo_flush \/ UNCHANGED <<fifo, cut>>
    BY <1>3 DEF StopDiscoveryEvent, Scan, StopDiscovery
  <2>3. CASE app_drv_fifo_flush
    BY <2>1, <2>3, WholeFlush
  <2>4. QED BY <1>1, <2>1, <2>2, <2>3
<1>4. CASE send_cmd_resp
  <2>1. [to |-> lastExec, len |-> 0] \in Message \/ [to |-> 0, len |-> 0] \in Message
    BY Sizes DEF Message
  <2>2. [to |-> lastExec, len |-> 0] \in Message
    BY Sizes DEF Message, TypeOK, CmdType
  <2>3. app_drv_fifo_write([to |-> lastExec, len |-> 0]) /\ UNCHANGED <<data, chunk, cut>>
    BY <1>4 DEF send_cmd_resp, usbVars
  <2>4. QED BY <2>2, <2>3, WholeWrite
<1>5. ASSUME NEW m, NEW atype, NEW n \in 0 .. MaxData, Forward(m, atype, n)
      PROVE  StreamWhole'
  <2>1. [to |-> 0, len |-> n] \in Message
    BY DEF Message
  <2>2. app_drv_fifo_write([to |-> 0, len |-> n]) \/ fifo' = fifo
    BY <1>5 DEF Forward
  <2>3. UNCHANGED <<data, chunk, cut>>
    BY <1>5 DEF Forward, usbVars
  <2>4. QED BY <2>1, <2>2, <2>3, WholeWrite
<1>6. CASE ObserverEventCB
  <2>1. 0 \in 0 .. MaxData
    BY Sizes
  <2>2. CASE GAP_DEVICE_DISCOVERY_EVENT
    BY <1>1, <2>2 DEF GAP_DEVICE_DISCOVERY_EVENT, usbVars
  <2>3. QED BY <1>5, <1>6, <2>1, <2>2 DEF ObserverEventCB, GAP_DEVICE_INFO_EVENT,
               GAP_EXT_ADV_DEVICE_INFO_EVENT, GAP_DIRECT_DEVICE_INFO_EVENT
<1>7. CASE InPacket
  <2>1. chunk' = << >> /\ fifo' = fifo /\ cut' = cut
        /\ data' = (IF cut THEN << >> ELSE Unfinished(data \o chunk))
    BY <1>7 DEF InPacket
  <2>2. SUFFICES ASSUME ~cut PROVE Whole((data' \o chunk') \o fifo')
    BY <2>1 DEF StreamWhole
  <2>3. data \o chunk \in Seq(Byte) /\ fifo \in Seq(Byte)
    BY ConcatProperties DEF TypeOK, StreamType
  <2>4. Whole((data \o chunk) \o fifo)
    BY <2>2 DEF StreamWhole
  <2>5. Unfinished(data \o chunk) \in Seq(Byte) /\ Whole(Unfinished(data \o chunk) \o fifo)
    BY <2>3, <2>4, WholeUnfinished
  <2>6. data' = Unfinished(data \o chunk)
    BY <2>1, <2>2
  <2>7. data' \o chunk' = data'
    BY <2>1, <2>5, <2>6, ConcatEmptySeq
  <2>8. QED BY <2>1, <2>5, <2>6, <2>7
<1>8. CASE BusReset
  <2>1. chunk' = << >> /\ fifo' = fifo /\ data' = data /\ cut' = (cut \/ chunk # << >>)
    BY <1>8 DEF BusReset
  <2>2. CASE chunk = << >>
    <3>1. cut' = cut
      BY <2>1, <2>2 DEF TypeOK, TaskType
    <3>2. QED BY <1>1, <2>1, <2>2, <3>1, Zenon
  <2>3. CASE chunk # << >>
    BY <2>1, <2>3 DEF StreamWhole
  <2>4. QED BY <2>2, <2>3
<1>9. CASE EndpointBusy \/ NewUsbData \/ AddMac \/ ClearMacs \/ Info \/ Unknown
           \/ TimerFires \/ DiscoveryEnds \/ BusSuspend
  <2>1. UNCHANGED <<data, chunk, fifo, cut>>
    BY <1>9 DEF EndpointBusy, NewUsbData, AddMac, ClearMacs, Info, Executes, Unknown,
       TimerFires, DiscoveryEnds, BusSuspend, usbVars
  <2>2. QED BY <1>1, <2>1
<1>10. ASSUME NEW cmd, NEW arg, OutPacket(cmd, arg) PROVE StreamWhole'
  BY <1>1, <1>10 DEF OutPacket, usbVars
<1>11. CASE UNCHANGED vars
  BY <1>1, <1>11 DEF vars, usbVars
<1>12. QED
  BY <1>2, <1>3, <1>4, <1>6, <1>7, <1>8, <1>9, <1>10, <1>11
     DEF Next, Observer_ProcessEvent, NewBleData, parse_command, USB_DevTransProcess

LEMMA InitWhole == Init => StreamWhole
<1> SUFFICES ASSUME Init PROVE StreamWhole
  OBVIOUS
<1>1. << >> \in Seq(Byte) /\ Len(<< >>) = 0
  BY EmptySeq
<1>2. << >> \o << >> = << >>
  BY <1>1, ConcatEmptySeq
<1>3. Whole(<< >>)
  <2>1. \A i \in DOMAIN << >> : FALSE
    OBVIOUS
  <2>2. QED BY <2>1, Zenon DEF Whole
<1>4. data = << >> /\ chunk = << >> /\ fifo = << >>
  BY DEF Init
<1>5. QED BY <1>2, <1>3, <1>4 DEF StreamWhole

(***************************************************************************)
(* However the messages are cut into chunks and however many are dropped,  *)
(* what the host has and will get is whole messages, one after the other,  *)
(* until a flush or a bus reset cuts one short.                            *)
(***************************************************************************)
THEOREM Ch582StreamWhole == Spec => []StreamWhole
<1>1. Init => TypeOK /\ StreamWhole
  BY InitTypes, InitWhole
<1>2. TypeOK /\ StreamWhole /\ [Next]_vars => TypeOK' /\ StreamWhole'
  BY TypeStep, WholeStep
<1>3. QED BY <1>1, <1>2, PTL DEF Spec
=============================================================================
