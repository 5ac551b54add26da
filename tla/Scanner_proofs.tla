--------------------------- MODULE Scanner_proofs ---------------------------
(***************************************************************************)
(* Proofs about Scanner, and about HostStream, which adds a host that      *)
(* listens, for any addresses, any number of list entries, of FIFO slots   *)
(* and of host commands, with and without noise.                           *)
(***************************************************************************)
EXTENDS HostStream, SequenceTheorems, WellFoundedInduction, TLAPS

USE DEF vars, hostVars, rxVars, txVars, cfgVars

(* What the callbacks and send_resp put into the FIFO are frames. *)
LEMMA AdvIsFrame ==
  ASSUME NEW m \in Mac, NEW a \in SUBSET Bit
  PROVE  [kind |-> "adv", mac |-> m, atype |-> a] \in Frame
BY DEF Frame, AdvFrame

LEMMA RespIsFrame ==
  ASSUME NEW c \in Command, NEW id \in 0 .. ListMax
  PROVE  [kind |-> "resp", to |-> c, id |-> id] \in Frame
BY DEF Frame, RespFrame

(* A received command is a command; its argument fits its name. *)
LEMMA CommandFacts ==
  ASSUME NEW f \in RxFrame
  PROVE  /\ f.body \in Command
         /\ f.crc \in BOOLEAN
         /\ f.body.seq \in 1 .. MaxCmds
         /\ f.body.cmd \in ListCmd => f.body.arg \in Mac
         /\ f.body.cmd = "SCAN" => f.body.arg \in ScanArg
BY DEF RxFrame, Command, ListCmd

LEMMA InitTypeOK == Init => TypeOK
<1> SUFFICES ASSUME Init PROVE TypeOK
  OBVIOUS
<1>1. MainType
  BY DEF Init, MainType
<1>2. StreamType
  <2>1. << >> \in Seq(Frame) /\ Len(<< >>) <= FifoNum
    BY ScannerAssumption
  <2>2. fifo = << >> /\ txBuf = None /\ wire = None /\ txBusy = FALSE
    BY DEF Init
  <2>3. QED
    BY <2>1, <2>2 DEF StreamType
<1>3. RxType
  BY DEF Init, RxType
<1>4. ConfigType
  <2>1. << >> \in Seq(Mac) /\ Len(<< >>) = 0
    OBVIOUS
  <2>2. mac_list \in [mode : ListCmd, mac : Seq(Mac)] /\ mac_list.mac = << >>
    BY <2>1 DEF Init, ListCmd, EmptyList
  <2>3. Len(mac_list.mac) <= ListMax /\ 0 \in 0 .. MaxCmds
    BY <2>1, <2>2, ScannerAssumption
  <2>4. filtr = {} /\ scanning = FALSE /\ sent = 0 /\ lastExec = 0
    BY DEF Init
  <2>5. QED
    BY <2>2, <2>3, <2>4 DEF ConfigType
<1>5. QED
  BY <1>1, <1>2, <1>3, <1>4 DEF TypeOK

(* Forwarding a report keeps the FIFO a sequence of at most FifoNum frames *)
(* and the red LED a flag.                                                 *)
LEMMA ForwardType ==
  ASSUME TypeOK, NEW m \in Mac, NEW a \in SUBSET Bit, Forward(m, a)
  PROVE  fifo' \in Seq(Frame) /\ Len(fifo') <= FifoNum /\ ledR' \in BOOLEAN
<1>1. fifo \in Seq(Frame) /\ Len(fifo) <= FifoNum /\ ledR \in BOOLEAN
  BY DEF TypeOK, StreamType, MainType
<1>2. [kind |-> "adv", mac |-> m, atype |-> a] \in Frame
  BY AdvIsFrame
<1>3. CASE fifo' = Append(fifo, [kind |-> "adv", mac |-> m, atype |-> a]) /\ HasRoom
  <2>1. fifo' \in Seq(Frame) /\ Len(fifo') = Len(fifo) + 1
    BY <1>1, <1>2, <1>3
  <2>2. QED
    BY <1>1, <1>3, <2>1, ScannerAssumption DEF Forward, HasRoom
<1>4. CASE fifo' = fifo
  BY <1>1, <1>4 DEF Forward
<1>5. QED
  BY <1>3, <1>4 DEF Forward

LEMMA RespondType ==
  ASSUME TypeOK, pc = "exec", NEW id \in 0 .. ListMax, send_resp(id)
  PROVE  fifo' \in Seq(Frame) /\ Len(fifo') <= FifoNum
<1>1. fifo \in Seq(Frame) /\ Len(fifo) <= FifoNum /\ buf \in RxFrame
  BY DEF TypeOK, StreamType, RxType
<1>2. [kind |-> "resp", to |-> buf.body, id |-> id] \in Frame
  BY <1>1, CommandFacts, RespIsFrame
<1>3. QED
  BY <1>1, <1>2, ScannerAssumption DEF send_resp, HasRoom

LEMMA WithMacType ==
  ASSUME ConfigType, NEW mode \in ListCmd, NEW m \in Mac
  PROVE  LET l == WithMac(mac_list, mode, m) IN
         /\ l \in [mode : ListCmd, mac : Seq(Mac)]
         /\ Len(l.mac) <= ListMax
         /\ Len(l.mac) \in 0 .. ListMax
BY ScannerAssumption DEF ConfigType, WithMac

-----------------------------------------------------------------------------
(* Type correctness.  Each action is proved to keep the four parts.        *)
LEMMA CallbackKeepsType ==
  ASSUME TypeOK, app_controller_event_callback
  PROVE  TypeOK'
<1> USE DEF TypeOK, MainType, StreamType, RxType, ConfigType
<1>1. ASSUME NEW m \in Mac, NEW a \in SUBSET Bit, Forward(m, a),
             UNCHANGED <<pc, txVars, hostVars, rxVars, cfgVars, periodic_adv>>
      PROVE  TypeOK'
  BY <1>1, ForwardType
<1>2. ASSUME NEW m \in Mac, NEW a \in SUBSET Bit, ble_adv_callback(m, a)
      PROVE  TypeOK'
  BY <1>1, <1>2 DEF ble_adv_callback
<1>3. ASSUME NEW m \in Mac, NEW a \in SUBSET Bit, ble_ext_adv_callback(m, a)
      PROVE  TypeOK'
  BY <1>1, <1>3 DEF ble_ext_adv_callback
<1>4. ASSUME NEW m \in Mac, NEW a \in SUBSET Bit, NEW h \in Handle,
             ble_le_periodic_adv_sync_established_callback(h, m, a)
      PROVE  TypeOK'
  BY <1>4, NoneAssumption DEF ble_le_periodic_adv_sync_established_callback
<1>5. ASSUME ble_le_periodic_adv_sync_lost_callback
      PROVE  TypeOK'
  BY <1>5 DEF ble_le_periodic_adv_sync_lost_callback
<1>6. ASSUME NEW h \in Handle, ble_le_periodic_adv_callback(h)
      PROVE  TypeOK'
  <2>1. periodic_adv.mac \in Mac /\ periodic_adv.atype \in SUBSET Bit
    BY <1>6, NoneAssumption DEF ble_le_periodic_adv_callback
  <2>2. QED
    BY <1>1, <1>6, <2>1 DEF ble_le_periodic_adv_callback
<1>7. QED
  BY <1>2, <1>3, <1>4, <1>5, <1>6 DEF app_controller_event_callback

(* What all executed commands have in common. *)
LEMMA ExecutesType ==
  ASSUME TypeOK, NEW cmds, Executes(cmds)
  PROVE  /\ pc = "exec" /\ pc' = "key"
         /\ buf \in RxFrame /\ buf.body.cmd \in cmds
         /\ lastExec' \in 0 .. MaxCmds
         /\ RxType'
         /\ ledR' \in BOOLEAN => MainType'
         /\ fifo' \in Seq(Frame) /\ Len(fifo') <= FifoNum => StreamType'
         /\ sent' = sent
<1>1. /\ pc = "exec" /\ pc' = "key" /\ buf' = None
      /\ UNCHANGED <<txVars, hostVars, rxBuf, rxFlag, periodic_adv>>
      /\ buf.body.cmd \in cmds /\ lastExec' = buf.body.seq
  BY DEF Executes
<1>2. buf \in RxFrame
  BY <1>1 DEF TypeOK, RxType
<1>3. buf.body.seq \in 1 .. MaxCmds
  BY <1>2, CommandFacts
<1>4. lastExec' \in 0 .. MaxCmds
  BY <1>1, <1>3, ScannerAssumption
<1>5. RxType'
  BY <1>1 DEF TypeOK, RxType
<1>6. ledR' \in BOOLEAN => MainType'
  BY <1>1 DEF TypeOK, MainType
<1>7. fifo' \in Seq(Frame) /\ Len(fifo') <= FifoNum => StreamType'
  BY <1>1 DEF TypeOK, StreamType
<1>8. QED
  BY <1>1, <1>2, <1>4, <1>5, <1>6, <1>7

LEMMA ExecuteKeepsType ==
  ASSUME TypeOK, Scan \/ AddMac \/ ClearMacs \/ Info \/ Unknown
  PROVE  TypeOK'
<1>1. /\ ConfigType /\ ledR \in BOOLEAN
      /\ fifo \in Seq(Frame) /\ Len(fifo) <= FifoNum
      /\ Len(mac_list.mac) \in 0 .. ListMax
  BY DEF TypeOK, ConfigType, MainType, StreamType
<1>2. CASE Scan
  <2>1. Executes({"SCAN"})
    BY <1>2 DEF Scan
  <2>2. buf.body.arg \in ScanArg
    BY <2>1, ExecutesType, CommandFacts
  <2>3. fifo' \in Seq(Frame) /\ Len(fifo') <= FifoNum
    BY <1>1, <1>2, <2>1, ExecutesType, RespondType DEF Scan
  <2>4. filtr' \in SUBSET Bit /\ scanning' \in BOOLEAN /\ ledR' \in BOOLEAN
        /\ mac_list' = mac_list
    BY <1>1, <1>2, <2>2 DEF Scan, ScanArg, ConfigType
  <2>5. ConfigType'
    BY <1>1, <2>1, <2>4, ExecutesType DEF ConfigType
  <2>6. QED
    BY <2>1, <2>3, <2>4, <2>5, ExecutesType DEF TypeOK
<1>3. CASE AddMac
  <2>1. Executes(ListCmd)
    BY <1>3 DEF AddMac
  <2>2. buf.body.arg \in Mac /\ buf.body.cmd \in ListCmd
    BY <2>1, ExecutesType, CommandFacts
  <2>3. /\ mac_list' \in [mode : ListCmd, mac : Seq(Mac)]
        /\ Len(mac_list'.mac) <= ListMax /\ Len(mac_list'.mac) \in 0 .. ListMax
    BY <1>1, <1>3, <2>2, WithMacType DEF AddMac
  <2>4. fifo' \in Seq(Frame) /\ Len(fifo') <= FifoNum
    BY <1>3, <2>1, <2>3, ExecutesType, RespondType DEF AddMac
  <2>5. UNCHANGED <<filtr, scanning, ledR>>
    BY <1>3 DEF AddMac
  <2>6. ConfigType'
    BY <1>1, <2>1, <2>3, <2>5, ExecutesType DEF ConfigType
  <2>7. QED
    BY <1>1, <2>1, <2>4, <2>5, <2>6, ExecutesType DEF TypeOK
<1>4. CASE ClearMacs
  <2>1. Executes({"CLRM"}) /\ send_resp(ListMax) /\ ListMax \in 0 .. ListMax
    BY <1>4, ScannerAssumption DEF ClearMacs
  <2>2. /\ mac_list' \in [mode : ListCmd, mac : Seq(Mac)]
        /\ Len(mac_list'.mac) <= ListMax
    <3>1. << >> \in Seq(Mac) /\ Len(<< >>) <= ListMax
      BY ScannerAssumption
    <3>2. mac_list \in [mode : ListCmd, mac : Seq(Mac)]
      BY <1>1 DEF ConfigType
    <3>3. mac_list' = [mode |-> mac_list.mode, mac |-> << >>]
      BY <1>4 DEF ClearMacs, WithoutMacs
    <3>4. QED
      BY <3>1, <3>2, <3>3
  <2>3. fifo' \in Seq(Frame) /\ Len(fifo') <= FifoNum
    BY <2>1, ExecutesType, RespondType
  <2>4. UNCHANGED <<filtr, scanning, ledR>>
    BY <1>4 DEF ClearMacs
  <2>5. ConfigType'
    BY <1>1, <2>1, <2>2, <2>4, ExecutesType DEF ConfigType
  <2>6. QED
    BY <1>1, <2>1, <2>3, <2>4, <2>5, ExecutesType DEF TypeOK
<1>5. CASE Info \/ Unknown
  <2>1. \E cmds : Executes(cmds)
    BY <1>5 DEF Info, Unknown
  <2>2. UNCHANGED <<mac_list, filtr, scanning, ledR>>
    BY <1>5 DEF Info, Unknown
  <2>3. fifo' \in Seq(Frame) /\ Len(fifo') <= FifoNum
    <3>1. CASE Info
      <4>1. send_resp(0) /\ 0 \in 0 .. ListMax
        BY <3>1, ScannerAssumption DEF Info
      <4>2. QED
        BY <2>1, <4>1, ExecutesType, RespondType
    <3>2. CASE Unknown
      BY <1>1, <3>2 DEF Unknown
    <3>3. QED
      BY <1>5, <3>1, <3>2
  <2>4. ConfigType'
    BY <1>1, <2>1, <2>2, ExecutesType DEF ConfigType
  <2>5. QED
    BY <1>1, <2>1, <2>2, <2>3, <2>4, ExecutesType DEF TypeOK
<1>6. QED
  BY <1>2, <1>3, <1>4, <1>5

LEMMA ScanTaskKeepsType ==
  ASSUME TypeOK, scan_task \/ SdkReturns
  PROVE  TypeOK'
<1> USE DEF TypeOK, MainType, StreamType, RxType, ConfigType
<1>1. CASE SdkReturns
  BY <1>1 DEF SdkReturns
<1>2. CASE SendFrame
  <2>1. Head(fifo) \in Frame /\ Tail(fifo) \in Seq(Frame) /\ Len(Tail(fifo)) <= FifoNum
    BY <1>2, ScannerAssumption DEF SendFrame
  <2>2. QED
    BY <1>2, <2>1 DEF SendFrame
<1>3. CASE UartBusy
  BY <1>3 DEF UartBusy
<1>4. CASE FifoIdle
  BY <1>4, ZenonT(30) DEF FifoIdle
<1>5. CASE NothingReceived
  BY <1>5 DEF NothingReceived
<1>6. CASE CopyCommand
  BY <1>6 DEF CopyCommand
<1>7. CASE ClearRxFlag
  BY <1>7 DEF ClearRxFlag
<1>8. CASE Scan \/ AddMac \/ ClearMacs \/ Info \/ Unknown
  BY <1>8, ExecuteKeepsType
<1>9. CASE BadCrc
  BY <1>9 DEF BadCrc
<1>10. CASE KeyUp
  BY <1>10 DEF KeyUp
<1>11. CASE KeyDown
  BY <1>11 DEF KeyDown
<1>12. CASE change_baud_rate
  BY <1>12 DEF change_baud_rate
<1>13. QED
  BY <1>1, <1>2, <1>3, <1>4, <1>5, <1>6, <1>7, <1>8, <1>9, <1>10, <1>11,
     <1>12 DEF scan_task, Execute

LEMMA EnvironmentKeepsType ==
  ASSUME TypeOK, TxDone \/ RxDone \/ Host
  PROVE  TypeOK'
<1> USE DEF TypeOK, MainType, StreamType, RxType, ConfigType
<1>1. CASE TxDone
  BY <1>1, ZenonT(30) DEF TxDone
<1>2. CASE RxDone
  <2>1. rxBuf' \in RxFrame
    BY <1>2 DEF RxDone, RxFrame
  <2>2. QED
    BY <1>2, <2>1, ZenonT(30) DEF RxDone
<1>3. ASSUME NEW cmd, NEW arg, HostSends(cmd, arg),
             \/ cmd = "SCAN" /\ arg \in ScanArg
             \/ cmd \in ListCmd /\ arg \in Mac
             \/ cmd \in {"CLRM", "INFO", "OTHER"} /\ arg = None
      PROVE  TypeOK'
  <2>1. sent + 1 \in 1 .. MaxCmds
    BY <1>3, ScannerAssumption DEF HostSends
  <2>2. [seq |-> sent + 1, cmd |-> cmd, arg |-> arg] \in Command
    BY <1>3, <2>1 DEF Command
  <2>3. rxBuf' \in RxFrame
    BY <1>3, <2>2 DEF HostSends, RxFrame
  <2>4. sent' \in 0 .. MaxCmds
    BY <1>3, <2>1, ScannerAssumption DEF HostSends
  <2>5. QED
    BY <1>3, <2>3, <2>4 DEF HostSends
<1>4. CASE Host
  BY <1>3, <1>4 DEF Host
<1>5. QED
  BY <1>1, <1>2, <1>4

LEMMA StutterKeepsType == TypeOK /\ UNCHANGED vars => TypeOK'
BY DEF TypeOK, MainType, StreamType, RxType, ConfigType

LEMMA StepKeepsType == TypeOK /\ [Next]_vars => TypeOK'
BY CallbackKeepsType, ScanTaskKeepsType, EnvironmentKeepsType, StutterKeepsType
   DEF Next

(***************************************************************************)
(* Every variable keeps its type: in particular the FIFO and the address   *)
(* list never outgrow their arrays, and scan_task always holds a command   *)
(* when it executes one.                                                   *)
(***************************************************************************)
THEOREM ScannerTypeCorrect == Spec => []TypeOK
BY InitTypeOK, StepKeepsType, PTL DEF Spec

-----------------------------------------------------------------------------
(* Commands.  rxBuf always holds what the host sent last; whatever is      *)
(* still to be executed is newer than everything that has been.            *)
CommandInv ==
  /\ lastExec <= sent
  /\ rxBuf # None => rxBuf.body.seq = sent
  /\ buf # None => buf.body.seq <= sent
  /\ arriving => ~rxBuf.crc
  /\ arriving => sent > lastExec /\ (buf # None /\ buf.crc => buf.body.seq < sent)
  /\ rxFlag /\ rxBuf.crc /\ pc # "clear"
       => sent > lastExec /\ (buf # None /\ buf.crc => buf.body.seq < sent)
  /\ buf # None /\ buf.crc => buf.body.seq > lastExec

LEMMA InitCommandInv == Init => CommandInv
BY ScannerAssumption DEF Init, CommandInv

LEMMA StepKeepsCommandInv ==
  ASSUME TypeOK, CommandInv, [Next]_vars
  PROVE  CommandInv'
<1>1. /\ sent \in Nat /\ lastExec \in Nat
      /\ rxBuf \in RxFrame \cup {None} /\ buf \in RxFrame \cup {None}
      /\ rxBuf # None => rxBuf.body.seq \in Nat
      /\ buf # None => buf.body.seq \in Nat
      /\ pc \in {"clear", "exec"} <=> buf # None
      /\ arriving \/ rxFlag => rxBuf # None
  <2>1. \A f \in RxFrame : f.body.seq \in Nat
    BY CommandFacts, ScannerAssumption
  <2>2. /\ sent \in 0 .. MaxCmds /\ lastExec \in 0 .. MaxCmds
        /\ rxBuf \in RxFrame \cup {None}
        /\ pc \in {"clear", "exec"} => buf \in RxFrame
        /\ pc \notin {"clear", "exec"} => buf = None
        /\ arriving \/ rxFlag => rxBuf \in RxFrame
    BY DEF TypeOK, RxType, ConfigType
  <2>3. QED
    BY <2>1, <2>2, NoneAssumption, ScannerAssumption
<1>2. ASSUME UNCHANGED <<lastExec, sent, rxBuf, rxFlag, buf, arriving>>,
             pc # "clear", pc' # "clear"
      PROVE  CommandInv'
  BY <1>2 DEF CommandInv
<1>3. CASE app_controller_event_callback \/ SdkReturns
  BY <1>2, <1>3
     DEF app_controller_event_callback, ble_adv_callback, ble_ext_adv_callback,
         ble_le_periodic_adv_sync_established_callback,
         ble_le_periodic_adv_sync_lost_callback, ble_le_periodic_adv_callback,
         SdkReturns
<1>4. CASE SendFrame \/ UartBusy \/ FifoIdle \/ NothingReceived \/ KeyUp \/ KeyDown
  BY <1>2, <1>4 DEF SendFrame, UartBusy, FifoIdle, NothingReceived, KeyUp, KeyDown
<1>5. CASE CopyCommand
  BY <1>1, <1>5 DEF CopyCommand, CommandInv
<1>6. CASE ClearRxFlag
  BY <1>1, <1>6 DEF ClearRxFlag, CommandInv
<1>7. ASSUME NEW cmds, Executes(cmds)
      PROVE  CommandInv'
  BY <1>1, <1>7 DEF Executes, CrcMatches, CommandInv
<1>8. CASE Scan \/ AddMac \/ ClearMacs \/ Info \/ Unknown
  BY <1>7, <1>8 DEF Scan, AddMac, ClearMacs, Info, Unknown
<1>9. CASE BadCrc
  BY <1>1, <1>9 DEF BadCrc, CommandInv
<1>10. CASE change_baud_rate
  BY <1>1, <1>10 DEF change_baud_rate, CommandInv
<1>11. CASE TxDone
  BY <1>11 DEF TxDone, CommandInv
<1>12. CASE RxDone
  BY <1>1, <1>12 DEF RxDone, CommandInv, RxFrame
<1>13. ASSUME NEW cmd, NEW arg, HostSends(cmd, arg)
       PROVE  CommandInv'
  BY <1>1, <1>13 DEF HostSends, CommandInv
<1>14. CASE Host
  BY <1>13, <1>14 DEF Host
<1>15. CASE UNCHANGED vars
  BY <1>15 DEF CommandInv
<1>16. QED
  BY <1>3, <1>4, <1>5, <1>6, <1>8, <1>9, <1>10, <1>11, <1>12, <1>14, <1>15
     DEF Next, scan_task, Execute

(***************************************************************************)
(* No command is executed twice or out of order, whatever is lost, torn or *)
(* overwritten on its way: the reset of the receive flag comes after the   *)
(* copy, so it can lose a command but never repeat one.                    *)
(***************************************************************************)
THEOREM CommandsExecutedOnceInOrder == Spec => CommandsOnceInOrder
<1>1. ASSUME TypeOK, CommandInv, [Next]_vars,
             pc = "exec", pc' = "key", CrcMatches(buf)
      PROVE  lastExec' > lastExec
  <2>1. buf # None /\ buf.crc
    BY <1>1, NoneAssumption DEF TypeOK, RxType, CrcMatches
  <2>2. buf.body.seq > lastExec
    BY <1>1, <2>1 DEF CommandInv
  <2>3. lastExec' = buf.body.seq
    BY <1>1
       DEF Next, scan_task, Execute, app_controller_event_callback,
           ble_adv_callback, ble_ext_adv_callback,
           ble_le_periodic_adv_sync_established_callback,
           ble_le_periodic_adv_sync_lost_callback, ble_le_periodic_adv_callback,
           SdkReturns, SendFrame, UartBusy, FifoIdle, NothingReceived,
           CopyCommand, ClearRxFlag, Scan, AddMac, ClearMacs, Info, Unknown,
           Executes, BadCrc, KeyUp, KeyDown, change_baud_rate, TxDone, RxDone,
           Host, HostSends
  <2>4. QED
    BY <2>2, <2>3
<1>2. TypeOK /\ CommandInv /\ [Next]_vars => TypeOK' /\ CommandInv'
  BY StepKeepsType, StepKeepsCommandInv
<1>3. TypeOK /\ CommandInv /\ [Next]_vars
        => [pc = "exec" /\ pc' = "key" /\ CrcMatches(buf) => lastExec' > lastExec]_vars
  BY <1>1
<1>4. QED
  BY <1>2, <1>3, InitTypeOK, InitCommandInv, PTL DEF Spec, CommandsOnceInOrder

-----------------------------------------------------------------------------
(* The red LED.  Between the sending of a frame and the end of the pass    *)
(* the FIFO can only be full if the UART was busy in this very pass.       *)
LedInv == pc \in {"rx", "clear", "exec"} /\ Len(fifo) = FifoNum => ledR

LEMMA StepKeepsLedInv ==
  ASSUME TypeOK, LedInv, [Next]_vars
  PROVE  LedInv'
<1>1. /\ fifo \in Seq(Frame) /\ Len(fifo) \in Nat /\ Len(fifo) <= FifoNum
      /\ FifoNum \in Nat \ {0}
  BY ScannerAssumption DEF TypeOK, StreamType
<1>2. ASSUME pc' \notin {"rx", "clear", "exec"}
      PROVE  LedInv'
  BY <1>2 DEF LedInv
<1>3. ASSUME pc \in {"rx", "clear", "exec"}, UNCHANGED <<fifo, ledR>>
      PROVE  LedInv'
  BY <1>3 DEF LedInv
<1>4. CASE app_controller_event_callback
  BY <1>2, <1>4
     DEF app_controller_event_callback, ble_adv_callback, ble_ext_adv_callback,
         ble_le_periodic_adv_sync_established_callback,
         ble_le_periodic_adv_sync_lost_callback, ble_le_periodic_adv_callback
<1>5. CASE SdkReturns \/ NothingReceived \/ KeyUp \/ KeyDown \/ change_baud_rate
  BY <1>2, <1>5 DEF SdkReturns, NothingReceived, KeyUp, KeyDown, change_baud_rate
<1>6. CASE SendFrame
  <2>1. Len(fifo') < FifoNum
    BY <1>1, <1>6 DEF SendFrame
  <2>2. QED
    BY <1>1, <2>1 DEF LedInv
<1>7. CASE UartBusy
  BY <1>7 DEF UartBusy, LedInv
<1>8. CASE FifoIdle
  <2>1. Len(fifo') = 0
    BY <1>8 DEF FifoIdle
  <2>2. QED
    BY <1>1, <2>1 DEF LedInv
<1>9. CASE CopyCommand \/ ClearRxFlag
  BY <1>3, <1>9 DEF CopyCommand, ClearRxFlag
<1>10. CASE Execute
  BY <1>2, <1>10
     DEF Execute, Scan, AddMac, ClearMacs, Info, Unknown, Executes, BadCrc
<1>11. CASE TxDone \/ RxDone
  BY <1>11 DEF TxDone, RxDone, LedInv
<1>12. CASE Host
  BY <1>12 DEF Host, HostSends, LedInv
<1>13. CASE UNCHANGED vars
  BY <1>13 DEF LedInv
<1>14. QED
  BY <1>4, <1>5, <1>6, <1>7, <1>8, <1>9, <1>10, <1>11, <1>12, <1>13
     DEF Next, scan_task

(***************************************************************************)
(* A list or info response is never dropped behind the user's back: the    *)
(* red LED is on when it happens.                                          *)
(***************************************************************************)
THEOREM LostResponsesAreVisible == Spec => LostResponseShowsRed
<1> DEFINE Cmds == ListCmd \cup {"CLRM", "INFO"}
<1>1. ASSUME TypeOK, LedInv, [Next]_vars, ResponseLost(Cmds)
      PROVE  ledR'
  <2>1. /\ fifo \in Seq(Frame) /\ Len(fifo) \in Nat /\ Len(fifo) <= FifoNum
        /\ FifoNum \in Nat
    BY <1>1, ScannerAssumption DEF TypeOK, StreamType
  <2>2. pc = "exec" /\ pc' = "key" /\ buf.body.cmd \in Cmds /\ fifo' = fifo
        /\ CrcMatches(buf)
    BY <1>1 DEF ResponseLost
  <2>3. AddMac \/ ClearMacs \/ Info
    BY <1>1, <2>2
       DEF Next, scan_task, Execute, app_controller_event_callback,
           ble_adv_callback, ble_ext_adv_callback,
           ble_le_periodic_adv_sync_established_callback,
           ble_le_periodic_adv_sync_lost_callback, ble_le_periodic_adv_callback,
           SdkReturns, SendFrame, UartBusy, FifoIdle, NothingReceived,
           CopyCommand, ClearRxFlag, Scan, Unknown, Executes, BadCrc,
           KeyUp, KeyDown, change_baud_rate, TxDone, RxDone, Host, HostSends,
           ListCmd
  <2>4. UNCHANGED ledR /\ \E id : send_resp(id)
    BY <2>3 DEF AddMac, ClearMacs, Info
  <2>5. \A f : Append(fifo, f) # fifo
    BY <2>1
  <2>6. ~HasRoom
    BY <2>2, <2>4, <2>5 DEF send_resp
  <2>7. Len(fifo) = FifoNum
    BY <2>1, <2>6 DEF HasRoom
  <2>8. QED
    BY <1>1, <2>2, <2>4, <2>7 DEF LedInv
<1>2. Init => LedInv
  BY DEF Init, LedInv
<1>3. TypeOK /\ LedInv /\ [Next]_vars => TypeOK' /\ LedInv'
  BY StepKeepsType, StepKeepsLedInv
<1>4. TypeOK /\ LedInv /\ [Next]_vars => [ResponseLost(Cmds) => ledR']_vars
  BY <1>1
<1>5. QED
  BY <1>2, <1>3, <1>4, InitTypeOK, PTL DEF Spec, LostResponseShowsRed

-----------------------------------------------------------------------------
(* End-to-end refinement: FIFO and transmit buffer are one queue.          *)

LEMMA PendingFacts ==
  ASSUME TypeOK
  PROVE  /\ Pending \in Seq(Frame)
         /\ txBusy => /\ Len(Pending) = Len(fifo) + 1
                      /\ Pending # << >>
                      /\ Head(Pending) = txBuf
                      /\ Tail(Pending) = fifo
         /\ ~txBusy => Pending = fifo
<1>1. fifo \in Seq(Frame) /\ txBusy \in BOOLEAN
  BY DEF TypeOK, StreamType
<1>2. CASE txBusy
  <2>1. txBuf \in Frame /\ <<txBuf>> \in Seq(Frame) /\ Pending = <<txBuf>> \o fifo
    BY <1>2 DEF TypeOK, StreamType, Pending
  <2>2. /\ Pending \in Seq(Frame)
        /\ Len(Pending) = Len(<<txBuf>>) + Len(fifo)
        /\ \A i \in 1 .. Len(<<txBuf>>) + Len(fifo) :
             Pending[i] = IF i <= Len(<<txBuf>>) THEN <<txBuf>>[i] ELSE fifo[i - Len(<<txBuf>>)]
    BY <1>1, <2>1, ConcatProperties
  <2>3. /\ Len(Pending) = Len(fifo) + 1
        /\ \A i \in 1 .. Len(fifo) + 1 : Pending[i] = IF i = 1 THEN txBuf ELSE fifo[i - 1]
    BY <1>1, <2>2
  <2>4. Pending # << >> /\ Head(Pending) = txBuf
    BY <1>1, <2>2, <2>3
  <2>5. Tail(Pending) = fifo
    <3>1. /\ Tail(Pending) \in Seq(Frame)
          /\ Len(Tail(Pending)) = Len(fifo)
          /\ \A i \in 1 .. Len(Tail(Pending)) : Tail(Pending)[i] = Pending[i + 1]
      BY <1>1, <2>2, <2>3, <2>4, HeadTailProperties
    <3>2. \A i \in 1 .. Len(fifo) : Tail(Pending)[i] = fifo[i]
      BY <1>1, <2>3, <3>1
    <3>3. QED
      BY <1>1, <3>1, <3>2, SeqEqual
  <2>6. QED
    BY <1>2, <2>2, <2>3, <2>4, <2>5
<1>3. CASE ~txBusy
  BY <1>1, <1>3, ConcatEmptySeq DEF Pending
<1>4. QED
  BY <1>1, <1>2, <1>3

(* A frame appended to the FIFO is appended to the queue, if it fits.      *)
LEMMA AppendIsPut ==
  ASSUME TypeOK, NEW f \in Frame,
         HasRoom, fifo' = Append(fifo, f), UNCHANGED txVars
  PROVE  Link!Put(f)
<1>1. fifo \in Seq(Frame) /\ txBusy \in BOOLEAN /\ Len(fifo) < FifoNum
      /\ txBusy' = txBusy /\ txBuf' = txBuf /\ wire' = wire
  BY DEF TypeOK, StreamType, HasRoom
<1>2. Len(Pending) < FifoNum + 1
  BY <1>1, PendingFacts, ScannerAssumption
<1>3. Pending' = Append(Pending, f)
  <2>1. CASE txBusy
    <3>1. txBuf \in Frame /\ <<txBuf>> \in Seq(Frame) /\ <<f>> \in Seq(Frame)
      BY <2>1 DEF TypeOK, StreamType
    <3>2. Pending = <<txBuf>> \o fifo /\ Pending' = <<txBuf>> \o Append(fifo, f)
      BY <1>1, <2>1 DEF Pending
    <3>3. Append(fifo, f) = fifo \o <<f>>
      BY <1>1, AppendIsConcat
    <3>4. (<<txBuf>> \o fifo) \o <<f>> = <<txBuf>> \o (fifo \o <<f>>)
      BY <1>1, <3>1, ConcatAssociative
    <3>5. Append(Pending, f) = Pending \o <<f>>
      BY PendingFacts, AppendIsConcat
    <3>6. QED
      BY <3>2, <3>3, <3>4, <3>5
  <2>2. CASE ~txBusy
    <3>1. Append(fifo, f) \in Seq(Frame)
      BY <1>1
    <3>2. Pending' = << >> \o Append(fifo, f)
      BY <1>1, <2>2 DEF Pending
    <3>3. QED
      BY <2>2, <3>1, <3>2, PendingFacts, ConcatEmptySeq
  <2>3. QED
    BY <1>1, <2>1, <2>2
<1>4. QED
  BY <1>1, <1>2, <1>3 DEF Link!Put

LEMMA SendIsInvisible ==
  ASSUME TypeOK, SendFrame
  PROVE  Pending' = Pending /\ wire' = wire
<1>1. /\ fifo \in Seq(Frame) /\ fifo # << >> /\ ~txBusy
      /\ txBuf' = Head(fifo) /\ txBusy' = TRUE /\ fifo' = Tail(fifo) /\ wire' = wire
  BY DEF TypeOK, StreamType, SendFrame
<1>2. Pending = fifo /\ Pending' = <<Head(fifo)>> \o Tail(fifo)
  BY <1>1, PendingFacts DEF Pending
<1>3. TypeOK'
  BY ScanTaskKeepsType DEF scan_task
<1>4. /\ Head(fifo) \in Frame /\ Tail(fifo) \in Seq(Frame)
      /\ Len(Tail(fifo)) = Len(fifo) - 1
      /\ \A i \in 1 .. Len(Tail(fifo)) : Tail(fifo)[i] = fifo[i + 1]
  BY <1>1, HeadTailProperties
<1>5. <<Head(fifo)>> \in Seq(Frame)
  BY <1>4
<1>6. /\ Pending' \in Seq(Frame)
      /\ Len(Pending') = Len(<<Head(fifo)>>) + Len(Tail(fifo))
      /\ \A i \in 1 .. Len(<<Head(fifo)>>) + Len(Tail(fifo)) :
           Pending'[i] = IF i <= Len(<<Head(fifo)>>) THEN <<Head(fifo)>>[i]
                                                     ELSE Tail(fifo)[i - Len(<<Head(fifo)>>)]
  BY <1>2, <1>4, <1>5, ConcatProperties
<1>7. Len(Pending') = Len(fifo) /\ \A i \in 1 .. Len(fifo) : Pending'[i] = fifo[i]
  BY <1>1, <1>4, <1>6
<1>8. Pending' = fifo
  BY <1>1, <1>6, <1>7, SeqEqual
<1>9. QED
  BY <1>1, <1>2, <1>8

LEMMA DoneIsTake ==
  ASSUME TypeOK, TxDone
  PROVE  Link!Take
<1>1. txBusy /\ txBusy' = FALSE /\ wire' = txBuf /\ fifo' = fifo
  BY DEF TxDone
<1>2. fifo \in Seq(Frame)
  BY DEF TypeOK, StreamType
<1>3. Pending' = fifo
  BY <1>1, <1>2, ConcatEmptySeq DEF Pending
<1>4. QED
  BY <1>1, <1>3, PendingFacts DEF Link!Take

LEMMA ForwardIsPut ==
  ASSUME TypeOK, NEW m \in Mac, NEW a \in SUBSET Bit, Forward(m, a), UNCHANGED txVars
  PROVE  (\E f \in Frame : Link!Put(f)) \/ UNCHANGED <<Pending, wire>>
<1>1. CASE HasRoom /\ fifo' = Append(fifo, [kind |-> "adv", mac |-> m, atype |-> a])
  BY <1>1, AdvIsFrame, AppendIsPut
<1>2. CASE fifo' = fifo
  BY <1>2 DEF Pending
<1>3. QED
  BY <1>1, <1>2 DEF Forward

LEMMA RespondIsPut ==
  ASSUME TypeOK, pc = "exec", NEW id \in 0 .. ListMax, send_resp(id), UNCHANGED txVars
  PROVE  (\E f \in Frame : Link!Put(f)) \/ UNCHANGED <<Pending, wire>>
<1>1. [kind |-> "resp", to |-> buf.body, id |-> id] \in Frame
  BY CommandFacts, RespIsFrame DEF TypeOK, RxType
<1>2. CASE HasRoom
  BY <1>1, <1>2, AppendIsPut DEF send_resp
<1>3. CASE ~HasRoom
  BY <1>3 DEF send_resp, Pending
<1>4. QED
  BY <1>2, <1>3

LEMMA ExecuteIsPut ==
  ASSUME TypeOK, Execute
  PROVE  (\E f \in Frame : Link!Put(f)) \/ UNCHANGED <<Pending, wire>>
<1>1. 0 \in 0 .. ListMax /\ ListMax \in 0 .. ListMax
  BY ScannerAssumption
<1>2. Len(mac_list.mac) \in 0 .. ListMax
  BY DEF TypeOK, ConfigType
<1>3. CASE Scan
  BY <1>2, <1>3, RespondIsPut DEF Scan, Executes
<1>4. CASE AddMac
  <2>1. buf \in RxFrame /\ buf.body.cmd \in ListCmd /\ pc = "exec"
    BY <1>4 DEF AddMac, Executes, TypeOK, RxType
  <2>2. Len(mac_list'.mac) \in 0 .. ListMax
    BY <1>4, <2>1, CommandFacts, WithMacType DEF AddMac, TypeOK
  <2>3. QED
    BY <1>4, <2>1, <2>2, RespondIsPut DEF AddMac, Executes
<1>5. CASE ClearMacs
  BY <1>1, <1>5, RespondIsPut DEF ClearMacs, Executes
<1>6. CASE Info
  BY <1>1, <1>6, RespondIsPut DEF Info, Executes
<1>7. CASE Unknown \/ BadCrc
  BY <1>7 DEF Unknown, Executes, BadCrc, Pending
<1>8. QED
  BY <1>3, <1>4, <1>5, <1>6, <1>7 DEF Execute

LEMMA StepRefines ==
  ASSUME TypeOK, [Next]_vars
  PROVE  [Link!Next]_<<Pending, wire>>
<1>1. (\E f \in Frame : Link!Put(f)) => Link!Next
  BY DEF Link!Next
<1>2. ASSUME UNCHANGED <<fifo, txBuf, txBusy, wire>>
      PROVE  UNCHANGED <<Pending, wire>>
  BY <1>2 DEF Pending
<1>3. CASE app_controller_event_callback
  <2>1. ASSUME NEW m \in Mac, NEW a \in SUBSET Bit, Forward(m, a), UNCHANGED txVars
        PROVE  [Link!Next]_<<Pending, wire>>
    BY <1>1, <2>1, ForwardIsPut
  <2>2. ASSUME NEW h \in Handle, ble_le_periodic_adv_callback(h)
        PROVE  [Link!Next]_<<Pending, wire>>
    <3>1. periodic_adv.mac \in Mac /\ periodic_adv.atype \in SUBSET Bit
      BY <2>2, NoneAssumption DEF ble_le_periodic_adv_callback, TypeOK, MainType
    <3>2. QED
      BY <2>1, <2>2, <3>1 DEF ble_le_periodic_adv_callback
  <2>3. QED
    BY <1>2, <1>3, <2>1, <2>2
       DEF app_controller_event_callback, ble_adv_callback, ble_ext_adv_callback,
           ble_le_periodic_adv_sync_established_callback,
           ble_le_periodic_adv_sync_lost_callback
<1>4. CASE SendFrame
  BY <1>4, SendIsInvisible
<1>5. CASE Execute
  BY <1>1, <1>5, ExecuteIsPut
<1>6. CASE TxDone
  BY <1>6, DoneIsTake DEF Link!Next
<1>7. CASE \/ SdkReturns \/ UartBusy \/ FifoIdle \/ NothingReceived
           \/ CopyCommand \/ ClearRxFlag \/ KeyUp \/ KeyDown
           \/ change_baud_rate \/ RxDone \/ Host \/ UNCHANGED vars
  BY <1>2, <1>7
     DEF SdkReturns, UartBusy, FifoIdle, NothingReceived, CopyCommand,
         ClearRxFlag, KeyUp, KeyDown, change_baud_rate, RxDone, Host, HostSends
<1>8. QED
  BY <1>3, <1>4, <1>5, <1>6, <1>7 DEF Next, scan_task

(***************************************************************************)
(* The scanner's output is a bounded FIFO queue of FifoNum + 1 frames, end *)
(* to end: whatever has entered ad_fifo reaches the host once, in order.   *)
(***************************************************************************)
THEOREM ScannerImplementsQueue == Spec => StreamIsQueue
<1>1. Init => Link!Init
  <2>1. << >> \in Seq(Frame)
    OBVIOUS
  <2>2. QED
    BY <2>1, ConcatEmptySeq DEF Init, Link!Init, Pending
<1>2. TypeOK /\ [Next]_vars => [Link!Next]_<<Pending, wire>>
  BY StepRefines
<1>3. QED
  BY <1>1, <1>2, InitTypeOK, StepKeepsType, PTL DEF Spec, StreamIsQueue, Link!Spec

-----------------------------------------------------------------------------
(* HostStream: what a host that replays the responses knows.               *)

(* A set of numbers with 0 and all successors has all. *)
LEMMA Induction ==
  ASSUME NEW S, 0 \in S, \A n \in Nat : n \in S => n + 1 \in S
  PROVE  \A n \in Nat : n \in S
<1> DEFINE T == {n \in Nat : n \notin S}
<1> SUFFICES ASSUME T # {} PROVE FALSE
  OBVIOUS
<1>1. T \subseteq Nat
  OBVIOUS
<1>2. \E x \in T : \A y \in T : ~(<<y, x>> \in OpToRel(<, Nat))
  <2> HIDE DEF T
  <2>1. QED BY <1>1, NatLessThanWellFounded, WFMin, Zenon
<1>3. PICK x \in T : \A y \in T : ~(<<y, x>> \in OpToRel(<, Nat))
  BY <1>2
<1>4. x \in Nat /\ x # 0
  BY <1>3
<1>5. x - 1 \in Nat /\ x - 1 < x /\ (x - 1) + 1 = x
  BY <1>4
<1>6. x - 1 \notin T
  <2>1. <<x - 1, x>> \in OpToRel(<, Nat)
    BY <1>4, <1>5 DEF OpToRel
  <2>2. QED BY <1>3, <2>1
<1>7. QED BY <1>3, <1>5, <1>6

(* The recursion in Knowledge has a solution. *)
LEMMA KnowledgeDef ==
  ASSUME NEW v, NEW s, Len(s) \in Nat
  PROVE  \A n \in 0 .. Len(s) :
           Knowledge(v, s)[n] = IF n = 0 THEN v ELSE Learn(Knowledge(v, s)[n - 1], s[n])
<1> DEFINE Solves(f, m) == f = [n \in 0 .. m |-> IF n = 0 THEN v ELSE Learn(f[n - 1], s[n])]
<1> DEFINE S == {m \in Nat : \E f : Solves(f, m)}
<1>1. 0 \in S
  <2> DEFINE f == [n \in 0 .. 0 |-> v]
  <2>1. f = [n \in 0 .. 0 |-> IF n = 0 THEN v ELSE Learn(f[n - 1], s[n])]
    <3>1. \A n \in 0 .. 0 : n = 0
      OBVIOUS
    <3>2. QED BY <3>1
  <2>2. QED BY <2>1
<1>2. ASSUME NEW m \in Nat, m \in S PROVE m + 1 \in S
  <2>1. PICK f : Solves(f, m)
    BY <1>2
  <2> DEFINE g == [n \in 0 .. m + 1 |-> IF n = 0 THEN v ELSE Learn(f[n - 1], s[n])]
  <2>2. \A n \in 0 .. m : g[n] = f[n]
    <3>1. \A n \in 0 .. m : n \in 0 .. m + 1
      OBVIOUS
    <3>2. QED BY <2>1, <3>1
  <2>3. \A n \in 0 .. m + 1 : n # 0 => n - 1 \in 0 .. m
    OBVIOUS
  <2>4. g = [n \in 0 .. m + 1 |-> IF n = 0 THEN v ELSE Learn(g[n - 1], s[n])]
    <3>1. \A n \in 0 .. m + 1 : n # 0 => g[n - 1] = f[n - 1]
      BY <2>2, <2>3
    <3> HIDE DEF g
    <3>2. \A n \in 0 .. m + 1 : (IF n = 0 THEN v ELSE Learn(f[n - 1], s[n]))
                              = (IF n = 0 THEN v ELSE Learn(g[n - 1], s[n]))
      BY <3>1
    <3>3. QED BY <3>2, Zenon DEF g
  <2>5. m + 1 \in Nat
    OBVIOUS
  <2>6. QED BY <2>4, <2>5
<1>3. Len(s) \in S
  <2> HIDE DEF S
  <2>1. QED BY <1>1, <1>2, Induction
<1>4. PICK f : Solves(f, Len(s))
  BY <1>3
<1>5. Knowledge(v, s) = CHOOSE g : Solves(g, Len(s))
  BY DEF Knowledge
<1>6. Solves(Knowledge(v, s), Len(s))
  <2> HIDE DEF Solves
  <2>1. QED BY <1>4, <1>5
<1> DEFINE k == Knowledge(v, s)
<1>7. k = [n \in 0 .. Len(s) |-> IF n = 0 THEN v ELSE Learn(k[n - 1], s[n])]
  BY <1>6
<1> HIDE DEF k
<1>8. \A n \in 0 .. Len(s) : k[n] = IF n = 0 THEN v ELSE Learn(k[n - 1], s[n])
  BY <1>7
<1>9. QED BY <1>8 DEF k

View == [mode : ListCmd, mac : Seq(Mac), filtr : SUBSET Bit]

LEMMA LearnType ==
  ASSUME NEW v \in View, NEW f \in Frame
  PROVE  Learn(v, f) \in View
<1>1. CASE f \in AdvFrame
  BY <1>1 DEF Learn, AdvFrame
<1>2. CASE f \in RespFrame
  <2>1. f.kind = "resp" /\ f.to \in Command /\ << >> \in Seq(Mac)
    BY <1>2 DEF RespFrame
  <2>2. f.to.cmd \in ListCmd => f.to.arg \in Mac
    BY <2>1 DEF Command, ListCmd
  <2>3. f.to.cmd = "SCAN" => f.to.arg.filtr \in SUBSET Bit
    BY <2>1 DEF Command, ListCmd, ScanArg
  <2>4. QED BY <2>1, <2>2, <2>3 DEF Learn, Starts, View
<1>3. QED BY <1>1, <1>2 DEF Frame

LEMMA KnowledgeType ==
  ASSUME NEW v \in View, NEW s \in Seq(Frame)
  PROVE  \A n \in 0 .. Len(s) : Knowledge(v, s)[n] \in View
<1> DEFINE k == Knowledge(v, s)
<1> DEFINE S == {n \in Nat : n <= Len(s) => k[n] \in View}
<1>1. \A n \in 0 .. Len(s) : k[n] = IF n = 0 THEN v ELSE Learn(k[n - 1], s[n])
  BY KnowledgeDef
<1> HIDE DEF k
<1>2. 0 \in S
  BY <1>1
<1>3. ASSUME NEW n \in Nat, n \in S PROVE n + 1 \in S
  <2>1. CASE n + 1 <= Len(s)
    <3>1. k[n] \in View /\ s[n + 1] \in Frame
      BY <1>3, <2>1
    <3>2. n + 1 \in 0 .. Len(s) /\ n + 1 # 0 /\ (n + 1) - 1 = n
      BY <2>1
    <3>3. k[n + 1] = Learn(k[n], s[n + 1])
      BY <1>1, <3>2
    <3>4. QED BY <3>1, <3>3, LearnType
  <2>2. CASE ~(n + 1 <= Len(s))
    BY <2>2
  <2>3. QED BY <2>1, <2>2
<1>4. \A n \in Nat : n \in S
  <2> HIDE DEF S
  <2>1. QED BY <1>2, <1>3, Induction
<1>5. QED BY <1>4 DEF k

(* A frame more does not change what is known before it. *)
LEMMA KnowledgeOfAppend ==
  ASSUME NEW v, NEW s \in Seq(Frame), NEW f \in Frame
  PROVE  /\ \A n \in 0 .. Len(s) : Knowledge(v, Append(s, f))[n] = Knowledge(v, s)[n]
         /\ Knowledge(v, Append(s, f))[Len(s) + 1] = Learn(Knowledge(v, s)[Len(s)], f)
<1> DEFINE t == Append(s, f)
<1> DEFINE k == Knowledge(v, s)
<1> DEFINE l == Knowledge(v, t)
<1> DEFINE S == {n \in Nat : n <= Len(s) => l[n] = k[n]}
<1>1. /\ t \in Seq(Frame) /\ Len(t) = Len(s) + 1 /\ Len(s) \in Nat
      /\ \A i \in 1 .. Len(s) : t[i] = s[i]
      /\ t[Len(s) + 1] = f
  OBVIOUS
<1> HIDE DEF t
<1>2. \A n \in 0 .. Len(s) : k[n] = IF n = 0 THEN v ELSE Learn(k[n - 1], s[n])
  BY KnowledgeDef
<1>3. \A n \in 0 .. Len(t) : l[n] = IF n = 0 THEN v ELSE Learn(l[n - 1], t[n])
  BY <1>1, KnowledgeDef
<1> HIDE DEF k, l
<1>4. 0 \in S
  BY <1>1, <1>2, <1>3
<1>5. ASSUME NEW n \in Nat, n \in S PROVE n + 1 \in S
  <2>1. CASE n + 1 <= Len(s)
    <3>1. n + 1 \in 0 .. Len(s) /\ n + 1 \in 0 .. Len(t) /\ n + 1 # 0 /\ (n + 1) - 1 = n
          /\ n + 1 \in 1 .. Len(s)
      BY <1>1, <2>1
    <3>2. l[n + 1] = Learn(l[n], t[n + 1]) /\ k[n + 1] = Learn(k[n], s[n + 1])
      BY <1>2, <1>3, <3>1
    <3>3. l[n] = k[n] /\ t[n + 1] = s[n + 1]
      BY <1>1, <1>5, <2>1, <3>1
    <3>4. QED BY <3>2, <3>3
  <2>2. CASE ~(n + 1 <= Len(s))
    BY <2>2
  <2>3. QED BY <2>1, <2>2
<1>6. \A n \in Nat : n \in S
  <2> HIDE DEF S
  <2>1. QED BY <1>4, <1>5, Induction
<1>7. \A n \in 0 .. Len(s) : l[n] = k[n]
  BY <1>6
<1>8. l[Len(s) + 1] = Learn(k[Len(s)], f)
  <2>1. Len(s) + 1 \in 0 .. Len(t) /\ Len(s) + 1 # 0 /\ (Len(s) + 1) - 1 = Len(s)
        /\ Len(s) \in 0 .. Len(s)
    BY <1>1
  <2>2. l[Len(s) + 1] = Learn(l[Len(s)], t[Len(s) + 1])
    BY <1>3, <2>1
  <2>3. QED BY <1>1, <1>7, <2>1, <2>2
<1>9. QED BY <1>7, <1>8 DEF k, l, t

(* Having learnt the first frame, one learns the same from the others.     *)
LEMMA KnowledgeOfTail ==
  ASSUME NEW v, NEW s \in Seq(Frame), s # << >>
  PROVE  \A n \in 0 .. Len(s) - 1 :
           Knowledge(Learn(v, Head(s)), Tail(s))[n] = Knowledge(v, s)[n + 1]
<1> DEFINE t == Tail(s)
<1> DEFINE w == Learn(v, Head(s))
<1> DEFINE k == Knowledge(v, s)
<1> DEFINE l == Knowledge(w, t)
<1> DEFINE S == {n \in Nat : n <= Len(s) - 1 => l[n] = k[n + 1]}
<1>1. /\ t \in Seq(Frame) /\ Len(t) = Len(s) - 1 /\ Len(s) \in Nat \ {0}
      /\ \A i \in 1 .. Len(t) : t[i] = s[i + 1]
      /\ w = Learn(v, s[1])
  BY HeadTailProperties
<1> HIDE DEF t, w
<1>2. \A n \in 0 .. Len(s) : k[n] = IF n = 0 THEN v ELSE Learn(k[n - 1], s[n])
  BY KnowledgeDef
<1>3. \A n \in 0 .. Len(t) : l[n] = IF n = 0 THEN w ELSE Learn(l[n - 1], t[n])
  BY <1>1, KnowledgeDef
<1> HIDE DEF k, l
<1>4. 0 \in S
  <2>1. l[0] = w /\ k[0] = v
    BY <1>1, <1>2, <1>3
  <2>2. 1 \in 0 .. Len(s) /\ 1 # 0 /\ 1 - 1 = 0 /\ 0 + 1 = 1
    BY <1>1
  <2>3. k[1] = Learn(k[0], s[1])
    BY <1>2, <2>2
  <2>4. QED BY <1>1, <2>1, <2>2, <2>3
<1>5. ASSUME NEW n \in Nat, n \in S PROVE n + 1 \in S
  <2>1. CASE n + 1 <= Len(s) - 1
    <3>1. /\ n + 1 \in 0 .. Len(t) /\ n + 1 # 0 /\ (n + 1) - 1 = n /\ n + 1 \in 1 .. Len(t)
          /\ n + 2 \in 0 .. Len(s) /\ n + 2 # 0 /\ (n + 2) - 1 = n + 1 /\ (n + 1) + 1 = n + 2
      BY <1>1, <2>1
    <3>2. l[n + 1] = Learn(l[n], t[n + 1])
      BY <1>3, <3>1
    <3>3. k[n + 2] = Learn(k[n + 1], s[n + 2])
      BY <1>2, <3>1
    <3>4. l[n] = k[n + 1] /\ t[n + 1] = s[n + 2]
      BY <1>1, <1>5, <2>1, <3>1
    <3>5. QED BY <3>1, <3>2, <3>3, <3>4
  <2>2. CASE ~(n + 1 <= Len(s) - 1)
    BY <2>2
  <2>3. QED BY <2>1, <2>2
<1>6. \A n \in Nat : n \in S
  <2> HIDE DEF S
  <2>1. QED BY <1>4, <1>5, Induction
<1>7. \A n \in 0 .. Len(s) - 1 : l[n] = k[n + 1]
  BY <1>1, <1>6
<1>8. QED BY <1>7 DEF k, l, t, w

-----------------------------------------------------------------------------
(* What each kind of step does to the replay; first one that nobody sees.  *)
LEMMA StandingStill ==
  ASSUME ReplayAgrees, AdvsFitReplay, UNCHANGED <<Pending, view, stale, mac_list, filtr>>
  PROVE  ReplayAgrees' /\ AdvsFitReplay'
<1>1. \A j : Known(j)' = Known(j)
  BY DEF Known
<1>2. ReplayAgrees'
  BY <1>1 DEF ReplayAgrees
<1>3. AdvsFitReplay'
  BY <1>1 DEF AdvsFitReplay
<1>4. QED BY <1>2, <1>3

(* AdvsFitReplay for the frame number j. *)
ClearBehind(j) == \E k \in j .. Len(Pending) : Answers({"CLRM"}, Pending[k])
StartBehind(j) == \E k \in j .. Len(Pending) : Pending[k].kind = "resp" /\ Starts(Pending[k].to)

Fits(j) ==
  Pending[j].kind = "adv" =>
    /\ "list" \notin stale /\ ~ClearBehind(j) => Selects(Known(j - 1), Pending[j].mac)
    /\ "filtr" \notin stale /\ ~StartBehind(j) => Pending[j].atype \cap Known(j - 1).filtr = {}

LEMMA AllFit ==
  ASSUME TypeOK
  PROVE  AdvsFitReplay <=> \A j \in 1 .. Len(Pending) : Fits(j)
<1>1. DOMAIN Pending = 1 .. Len(Pending)
  BY PendingFacts
<1>2. QED BY <1>1 DEF AdvsFitReplay, Fits, ClearBehind, StartBehind

LEMMA AllFitNext ==
  ASSUME Pending' \in Seq(Frame), \A j \in 1 .. Len(Pending') : Fits(j)'
  PROVE  AdvsFitReplay'
<1>1. DOMAIN (Pending') = 1 .. Len(Pending')
  OBVIOUS
<1>2. QED BY <1>1 DEF AdvsFitReplay, Fits, ClearBehind, StartBehind

(* A frame arrives: the host then knows what it would have known. *)
LEMMA ArrivalKeeps ==
  ASSUME TypeOK, TypeOK', ReplayAgrees, AdvsFitReplay, Pending # << >>,
         Pending' = Tail(Pending), view' = Learn(view, Head(Pending)),
         UNCHANGED <<stale, mac_list, filtr>>
  PROVE  ReplayAgrees' /\ AdvsFitReplay'
<1>1. /\ Pending \in Seq(Frame) /\ Len(Pending) \in Nat \ {0}
      /\ Pending' \in Seq(Frame) /\ Len(Pending') = Len(Pending) - 1
      /\ \A i \in 1 .. Len(Pending') : Pending'[i] = Pending[i + 1]
  BY PendingFacts, HeadTailProperties
<1>2. \A n \in 0 .. Len(Pending) - 1 : Known(n)' = Known(n + 1)
  BY <1>1, KnowledgeOfTail DEF Known
<1>3. ReplayAgrees'
  <2>2. \A n : n = Len(Pending') => Known(n)' = Known(n + 1) /\ n + 1 = Len(Pending)
    BY <1>1, <1>2
  <2>3. Known(Len(Pending))' = Known(Len(Pending))
    BY <1>1, <2>2
  <2>4. QED BY <2>3 DEF ReplayAgrees
<1>4. AdvsFitReplay'
  <2>1. ASSUME NEW j \in 1 .. Len(Pending') PROVE Fits(j)'
    <3>1. j + 1 \in 1 .. Len(Pending) /\ Pending'[j] = Pending[j + 1] /\ (j + 1) - 1 = j
      BY <1>1
    <3>2. Fits(j + 1)
      BY <3>1, AllFit
    <3>3. Known(j - 1)' = Known(j)
      <4>1. j - 1 \in 0 .. Len(Pending) - 1 /\ (j - 1) + 1 = j
        BY <1>1
      <4>2. QED BY <1>2, <4>1
    <3>4. ASSUME NEW k \in j + 1 .. Len(Pending)
          PROVE  \E i \in j .. Len(Pending') : Pending'[i] = Pending[k]
      <4>1. k - 1 \in j .. Len(Pending') /\ k - 1 \in 1 .. Len(Pending') /\ (k - 1) + 1 = k
        BY <1>1
      <4>2. QED BY <1>1, <4>1
    <3>5. ClearBehind(j + 1) => ClearBehind(j)'
      BY <3>4 DEF ClearBehind, Answers
    <3>6. ASSUME StartBehind(j + 1) PROVE StartBehind(j)'
      <4>1. PICK k \in j + 1 .. Len(Pending) : Pending[k].kind = "resp" /\ Starts(Pending[k].to)
        BY <3>6 DEF StartBehind
      <4>2. PICK i \in j .. Len(Pending') : Pending'[i] = Pending[k]
        BY <3>4
      <4>3. QED BY <4>1, <4>2, Zenon DEF StartBehind, Starts
    <3>7. QED BY <3>1, <3>2, <3>3, <3>5, <3>6 DEF Fits, Selects
  <2>2. QED BY <1>1, <2>1, AllFitNext
<1>5. QED BY <1>3, <1>4

(* A frame is put into the FIFO.  Nothing changes for those before it, for *)
(* which a part that is open remains open only if it was open before.      *)
LEMMA OldFramesFit ==
  ASSUME TypeOK, AdvsFitReplay, NEW f \in Frame,
         Pending' = Append(Pending, f), view' = view,
         "list" \notin stale' => "list" \notin stale \/ Answers({"CLRM"}, f),
         "filtr" \notin stale' => "filtr" \notin stale \/ (f.kind = "resp" /\ Starts(f.to)),
         NEW j \in 1 .. Len(Pending)
  PROVE  Fits(j)'
<1>1. /\ Pending \in Seq(Frame) /\ Len(Pending) \in Nat
      /\ Len(Pending') = Len(Pending) + 1
      /\ \A i \in 1 .. Len(Pending) : Pending'[i] = Pending[i]
      /\ Pending'[Len(Pending) + 1] = f
  BY PendingFacts
<1>2. Known(j - 1)' = Known(j - 1) /\ Pending'[j] = Pending[j]
  BY <1>1, KnowledgeOfAppend DEF Known
<1>3. /\ j .. Len(Pending) \subseteq j .. Len(Pending')
      /\ \A k \in j .. Len(Pending) : Pending'[k] = Pending[k]
      /\ Len(Pending) + 1 \in j .. Len(Pending')
  BY <1>1
<1>4. ClearBehind(j) \/ Answers({"CLRM"}, f) => ClearBehind(j)'
  BY <1>1, <1>3 DEF ClearBehind, Answers
<1>5. StartBehind(j) \/ (f.kind = "resp" /\ Starts(f.to)) => StartBehind(j)'
  BY <1>1, <1>3 DEF StartBehind, Starts
<1>6. Fits(j)
  BY AllFit
<1>7. QED BY <1>2, <1>4, <1>5, <1>6 DEF Fits, Selects

(* An advertisement that the device lets pass fits its present state.      *)
LEMMA AdvertisementKeeps ==
  ASSUME TypeOK, ReplayAgrees, AdvsFitReplay, NEW m \in Mac, NEW a \in SUBSET Bit,
         a \cap filtr = {}, chk_mac(mac_list, m),
         Pending' = Append(Pending, [kind |-> "adv", mac |-> m, atype |-> a]),
         UNCHANGED <<view, stale, mac_list, filtr>>
  PROVE  ReplayAgrees' /\ AdvsFitReplay'
<1> DEFINE f == [kind |-> "adv", mac |-> m, atype |-> a]
<1>0. PICK n \in Nat : n = Len(Pending)
  BY PendingFacts
<1>1. f \in Frame /\ f.kind = "adv" /\ f.mac = m /\ f.atype = a
  BY AdvIsFrame
<1>2. /\ Pending \in Seq(Frame) /\ n = Len(Pending)
      /\ Pending' \in Seq(Frame) /\ Len(Pending') = n + 1
      /\ Pending'[n + 1] = f
  BY <1>0, <1>1, PendingFacts
<1>3. Learn(Known(n), f) = Known(n)
  BY <1>1 DEF Learn
<1> HIDE DEF f
<1>4. Known(n)' = Known(n) /\ Known(n + 1)' = Known(n)
  BY <1>1, <1>2, <1>3, KnowledgeOfAppend DEF Known, f
<1>5. ReplayAgrees'
  BY <1>2, <1>4 DEF ReplayAgrees
<1>6. Fits(n + 1)'
  <2>1. "list" \notin stale => Selects(Known(n), m)
    <3>1. SUFFICES ASSUME "list" \notin stale PROVE Selects(Known(n), m)
      OBVIOUS
    <3>2. Known(n).mac = mac_list.mac /\ (mac_list.mac # << >> => Known(n).mode = mac_list.mode)
      BY <1>2, <3>1 DEF ReplayAgrees
    <3>3. mac_list.mode \in ListCmd
      BY DEF TypeOK, ConfigType
    <3>4. Listed(mac_list, m) <=> m \in ToSet(mac_list.mac)
      BY DEF Listed, ToSet
    <3>5. QED BY <3>2, <3>3, <3>4 DEF Selects, chk_mac, ListCmd
  <2>2. "filtr" \notin stale => a \cap Known(n).filtr = {}
    BY <1>2 DEF ReplayAgrees
  <2>3. (n + 1) - 1 = n /\ Pending'[n + 1].mac = m /\ Pending'[n + 1].atype = a
    BY <1>1, <1>2
  <2>4. QED BY <1>4, <2>1, <2>2, <2>3 DEF Fits, Selects
<1>7. \A j \in 1 .. n : Fits(j)'
  BY <1>1, <1>2, OldFramesFit DEF f
<1>8. \A j \in 1 .. Len(Pending') : Fits(j)'
  BY <1>2, <1>6, <1>7
<1>9. QED BY <1>2, <1>5, <1>8, AllFitNext

(* A response that tells what its command has done. *)
LEMMA ResponseKeeps ==
  ASSUME TypeOK, view \in View, ReplayAgrees, AdvsFitReplay,
         NEW c \in Command, NEW id \in 0 .. ListMax,
         LET f == [kind |-> "resp", to |-> c, id |-> id] IN
         /\ Pending' = Append(Pending, f)
         /\ \A v \in View :
              /\ (/\ "list" \notin stale
                  /\ v.mac = mac_list.mac
                  /\ (mac_list.mac # << >> => v.mode = mac_list.mode))
                   \/ c.cmd = "CLRM"
                   => /\ Learn(v, f).mac = mac_list'.mac
                      /\ mac_list'.mac # << >> => Learn(v, f).mode = mac_list'.mode
              /\ v.filtr = filtr \/ Starts(c) => Learn(v, f).filtr = filtr',
         view' = view, stale' = stale \ Settles(c)
  PROVE  ReplayAgrees' /\ AdvsFitReplay'
<1> DEFINE f == [kind |-> "resp", to |-> c, id |-> id]
<1>0. PICK n \in Nat : n = Len(Pending)
  BY PendingFacts
<1>1. f \in Frame /\ f.kind = "resp" /\ f.to = c
  BY RespIsFrame
<1>2. /\ Pending \in Seq(Frame) /\ n = Len(Pending)
      /\ Pending' \in Seq(Frame) /\ Len(Pending') = n + 1
      /\ Pending'[n + 1] = f
  BY <1>0, <1>1, PendingFacts
<1>3. /\ "list" \notin stale' => "list" \notin stale \/ c.cmd = "CLRM"
      /\ "filtr" \notin stale' => "filtr" \notin stale \/ Starts(c)
  BY DEF Settles
<1>4. \A v \in View :
        /\ (/\ "list" \notin stale
            /\ v.mac = mac_list.mac
            /\ (mac_list.mac # << >> => v.mode = mac_list.mode))
             \/ c.cmd = "CLRM"
             => /\ Learn(v, f).mac = mac_list'.mac
                /\ mac_list'.mac # << >> => Learn(v, f).mode = mac_list'.mode
        /\ v.filtr = filtr \/ Starts(c) => Learn(v, f).filtr = filtr'
  OBVIOUS
<1>5. Pending' = Append(Pending, f)
  OBVIOUS
<1> HIDE DEF f
<1>6. Known(n) \in View /\ Known(n + 1)' = Learn(Known(n), f)
  BY <1>1, <1>2, <1>5, KnowledgeOfAppend, KnowledgeType DEF Known
<1>7. ReplayAgrees'
  <2>1. "list" \notin stale => Known(n).mac = mac_list.mac
                               /\ (mac_list.mac # << >> => Known(n).mode = mac_list.mode)
    BY <1>2 DEF ReplayAgrees
  <2>2. "filtr" \notin stale => Known(n).filtr = filtr
    BY <1>2 DEF ReplayAgrees
  <2>3. "list" \notin stale' => /\ Learn(Known(n), f).mac = mac_list'.mac
                                /\ mac_list'.mac # << >> => Learn(Known(n), f).mode = mac_list'.mode
    BY <1>3, <1>4, <1>6, <2>1
  <2>4. "filtr" \notin stale' => Learn(Known(n), f).filtr = filtr'
    BY <1>3, <1>4, <1>6, <2>2
  <2>5. QED BY <1>2, <1>6, <2>3, <2>4 DEF ReplayAgrees
<1>8. \A j \in 1 .. n : Fits(j)'
  BY <1>1, <1>2, <1>3, <1>5, OldFramesFit DEF Answers
<1>9. Fits(n + 1)'
  BY <1>1, <1>2 DEF Fits
<1>10. \A j \in 1 .. Len(Pending') : Fits(j)'
  BY <1>2, <1>8, <1>9
<1>11. QED BY <1>2, <1>7, <1>10, AllFitNext

(* A response that is dropped: what its command has changed is stale.      *)
LEMMA DroppedKeeps ==
  ASSUME ReplayAgrees, AdvsFitReplay, NEW c,
         UNCHANGED <<Pending, view>>, stale' = stale \cup Changes(c),
         mac_list' # mac_list => c.cmd \in ListCmd \cup {"CLRM"},
         filtr' # filtr => Starts(c)
  PROVE  ReplayAgrees' /\ AdvsFitReplay'
<1>1. \A j : Known(j)' = Known(j)
  BY DEF Known
<1>2. /\ "list" \notin stale' => "list" \notin stale /\ mac_list' = mac_list
      /\ "filtr" \notin stale' => "filtr" \notin stale /\ filtr' = filtr
  BY DEF Changes
<1>3. ReplayAgrees'
  BY <1>1, <1>2 DEF ReplayAgrees
<1>4. AdvsFitReplay'
  BY <1>1, <1>2 DEF AdvsFitReplay
<1>5. QED BY <1>3, <1>4

(* scan_task with a command. *)
LEMMA CommandKeeps ==
  ASSUME TypeOK, view \in View, ReplayAgrees, AdvsFitReplay,
         Scan \/ AddMac \/ ClearMacs \/ Info \/ Unknown, Observe
  PROVE  view' = view /\ ReplayAgrees' /\ AdvsFitReplay'
<1>1. /\ pc = "exec" /\ pc' = "key" /\ CrcMatches(buf) /\ UNCHANGED txVars
  BY DEF Scan, AddMac, ClearMacs, Info, Unknown, Executes
<1> DEFINE c == buf.body
<1>2. c \in Command /\ fifo \in Seq(Frame) /\ mac_list \in [mode : ListCmd, mac : Seq(Mac)]
      /\ Len(mac_list.mac) \in 0 .. ListMax /\ 0 \in 0 .. ListMax /\ ListMax \in 0 .. ListMax
      /\ filtr \in SUBSET Bit
  BY <1>1, CommandFacts, ScannerAssumption DEF TypeOK, RxType, StreamType, ConfigType
<1>3. view' = view
  BY <1>1 DEF Observe
<1>4. stale' = IF fifo' = fifo THEN stale \cup Changes(c) ELSE stale \ Settles(c)
  BY <1>1 DEF Observe
<1>5. /\ mac_list' # mac_list => c.cmd \in ListCmd \cup {"CLRM"}
      /\ filtr' # filtr => Starts(c)
  BY DEF Scan, AddMac, ClearMacs, Info, Unknown, Executes, Starts
<1>6. CASE fifo' = fifo
  <2>1. UNCHANGED Pending
    BY <1>1, <1>6 DEF Pending
  <2>2. QED BY <1>3, <1>4, <1>5, <1>6, <2>1, DroppedKeeps
<1>7. ASSUME NEW id \in 0 .. ListMax, send_resp(id), fifo' # fifo
      PROVE  Pending' = Append(Pending, [kind |-> "resp", to |-> c, id |-> id])
  <2>1. HasRoom /\ fifo' = Append(fifo, [kind |-> "resp", to |-> c, id |-> id])
    BY <1>7 DEF send_resp
  <2>2. QED BY <1>1, <1>2, <2>1, RespIsFrame, AppendIsPut DEF Link!Put
<1>8. CASE fifo' # fifo
  <2>1. stale' = stale \ Settles(c)
    BY <1>4, <1>8
  <2> HIDE DEF c
  <2>2. CASE Scan
    <3>1. c.cmd = "SCAN" /\ send_resp(Len(mac_list.mac)) /\ mac_list' = mac_list
          /\ filtr' = IF c.arg.start THEN c.arg.filtr ELSE filtr
      BY <2>2 DEF Scan, Executes, c
    <3>2. QED BY <1>2, <1>3, <1>7, <1>8, <2>1, <3>1, ResponseKeeps DEF Learn, Starts, ListCmd, View
  <2>3. CASE AddMac
    <3>1. /\ c.cmd \in ListCmd /\ send_resp(Len(mac_list'.mac)) /\ filtr' = filtr
          /\ mac_list' = WithMac(mac_list, c.cmd, c.arg)
      BY <2>3 DEF AddMac, Executes, c
    <3>2. c.arg \in Mac
      BY <1>2, <3>1 DEF Command, ListCmd
    <3>3. Len(mac_list'.mac) \in 0 .. ListMax
      BY <3>1, <3>2, WithMacType DEF TypeOK
    <3>4. /\ mac_list'.mode = c.cmd
          /\ mac_list'.mac = IF Len(mac_list'.mac) > Len(mac_list.mac)
                             THEN Append(mac_list.mac, c.arg) ELSE mac_list.mac
      BY <1>2, <3>1, <3>2 DEF WithMac
    <3>5. c.cmd # "CLRM" /\ c.cmd # "SCAN"
      BY <3>1 DEF ListCmd
    <3>6. QED BY <1>2, <1>3, <1>7, <1>8, <2>1, <3>1, <3>3, <3>4, <3>5, ResponseKeeps
              DEF Learn, Starts, View
  <2>4. CASE ClearMacs
    <3>1. c.cmd = "CLRM" /\ send_resp(ListMax) /\ filtr' = filtr /\ mac_list'.mac = << >>
      BY <1>2, <2>4 DEF ClearMacs, Executes, WithoutMacs, c
    <3>2. QED BY <1>2, <1>3, <1>7, <1>8, <2>1, <3>1, ResponseKeeps DEF Learn, Starts, View, ListCmd
  <2>5. CASE Info
    <3>1. c.cmd = "INFO" /\ send_resp(0) /\ filtr' = filtr /\ mac_list' = mac_list
      BY <2>5 DEF Info, Executes, c
    <3>2. QED BY <1>2, <1>3, <1>7, <1>8, <2>1, <3>1, ResponseKeeps DEF Learn, Starts, View, ListCmd
  <2>6. CASE Unknown
    BY <1>8, <2>6 DEF Unknown
  <2>7. QED BY <2>2, <2>3, <2>4, <2>5, <2>6
<1>9. QED BY <1>3, <1>6, <1>8

-----------------------------------------------------------------------------
HSInv == TypeOK /\ view \in View /\ ReplayAgrees /\ AdvsFitReplay

LEMMA HSInitInv == HSInit => HSInv
<1> SUFFICES ASSUME HSInit PROVE HSInv
  OBVIOUS
<1>1. TypeOK
  BY InitTypeOK DEF HSInit
<1>2. << >> \in Seq(Frame) /\ << >> \in Seq(Mac) /\ Len(<< >>) = 0
  OBVIOUS
<1>3. view = [mode |-> "WMAC", mac |-> << >>, filtr |-> {}] /\ stale = {}
      /\ mac_list = [mode |-> "WMAC", mac |-> << >>] /\ filtr = {} /\ fifo = << >> /\ ~txBusy
  BY DEF HSInit, Init, EmptyList
<1>4. view \in View
  BY <1>2, <1>3 DEF View, ListCmd
<1>5. Pending = << >>
  BY <1>1, <1>3, PendingFacts
<1>6. Known(0) = view
  BY <1>2, <1>5, KnowledgeDef DEF Known
<1>7. ReplayAgrees
  BY <1>2, <1>3, <1>5, <1>6 DEF ReplayAgrees
<1>8. AdvsFitReplay
  BY <1>5 DEF AdvsFitReplay
<1>9. QED BY <1>1, <1>4, <1>7, <1>8 DEF HSInv

LEMMA ForwardKeeps ==
  ASSUME HSInv, TypeOK', NEW m \in Mac, NEW a \in SUBSET Bit, Forward(m, a),
         UNCHANGED <<txVars, view, stale, mac_list, filtr>>
  PROVE  HSInv'
<1>1. CASE fifo' = fifo
  <2>1. UNCHANGED Pending
    BY <1>1 DEF Pending
  <2>2. QED BY <2>1, StandingStill DEF HSInv
<1>2. CASE fifo' # fifo
  <2> DEFINE f == [kind |-> "adv", mac |-> m, atype |-> a]
  <2>1. a \cap filtr = {} /\ chk_mac(mac_list, m) /\ HasRoom /\ fifo' = Append(fifo, f)
    BY <1>2 DEF Forward
  <2>2. f \in Frame
    BY AdvIsFrame
  <2>3. Pending' = Append(Pending, f)
    BY <2>1, <2>2, AppendIsPut DEF HSInv, Link!Put
  <2>4. QED BY <2>1, <2>3, AdvertisementKeeps DEF HSInv
<1>3. QED BY <1>1, <1>2

LEMMA HSStepInv ==
  ASSUME HSInv, [HSNext]_hostStreamVars
  PROVE  HSInv'
<1>1. TypeOK'
  BY StepKeepsType DEF HSInv, HSNext, hostStreamVars
<1>2. CASE UNCHANGED hostStreamVars
  BY <1>1, <1>2, StandingStill DEF HSInv, hostStreamVars, Pending
<1>3. CASE HSNext
  <2>1. Next /\ Observe
    BY <1>3 DEF HSNext
  <2>2. ASSUME pc # "exec" \/ pc' # "key" \/ ~CrcMatches(buf), txBusy' \/ ~txBusy
        PROVE  UNCHANGED <<view, stale>>
    BY <2>1, <2>2 DEF Observe
  <2>3. ASSUME UNCHANGED <<Pending, view, stale, mac_list, filtr>>
        PROVE  HSInv'
    BY <1>1, <2>3, StandingStill DEF HSInv
  <2>4. CASE app_controller_event_callback
    <3>1. /\ pc = "sdk" /\ UNCHANGED <<txBuf, txBusy, wire, mac_list, filtr>>
      BY <2>4 DEF app_controller_event_callback, ble_adv_callback, ble_ext_adv_callback,
           ble_le_periodic_adv_sync_established_callback,
           ble_le_periodic_adv_sync_lost_callback, ble_le_periodic_adv_callback
    <3>2. UNCHANGED <<view, stale>>
      BY <3>1, <2>2
    <3>3. CASE fifo' = fifo
      BY <2>3, <3>1, <3>2, <3>3 DEF Pending
    <3>4. ASSUME NEW m \in Mac, NEW a \in SUBSET Bit, Forward(m, a) PROVE HSInv'
      BY <1>1, <3>1, <3>2, <3>4, ForwardKeeps
    <3>5. ASSUME NEW h \in Handle, ble_le_periodic_adv_callback(h) PROVE HSInv'
      <4>1. periodic_adv.mac \in Mac /\ periodic_adv.atype \in SUBSET Bit
        BY <3>5, NoneAssumption DEF ble_le_periodic_adv_callback, HSInv, TypeOK, MainType
      <4>2. QED BY <3>4, <3>5, <4>1 DEF ble_le_periodic_adv_callback
    <3>6. QED BY <2>4, <3>3, <3>4, <3>5
            DEF app_controller_event_callback, ble_adv_callback, ble_ext_adv_callback,
                ble_le_periodic_adv_sync_established_callback,
                ble_le_periodic_adv_sync_lost_callback
  <2>5. CASE SendFrame
    <3>1. UNCHANGED Pending
      BY <2>5, SendIsInvisible DEF HSInv
    <3>2. pc = "tx" /\ txBusy' /\ UNCHANGED <<mac_list, filtr>>
      BY <2>5 DEF SendFrame
    <3>3. QED BY <2>2, <2>3, <3>1, <3>2
  <2>6. CASE Scan \/ AddMac \/ ClearMacs \/ Info \/ Unknown
    BY <1>1, <2>1, <2>6, CommandKeeps DEF HSInv
  <2>7. CASE BadCrc
    <3>1. ~CrcMatches(buf) /\ UNCHANGED <<fifo, txBuf, txBusy, mac_list, filtr>>
      BY <2>7 DEF BadCrc
    <3>2. QED BY <2>2, <2>3, <3>1 DEF Pending
  <2>8. CASE TxDone
    <3>1. /\ txBusy /\ ~txBusy' /\ pc' = pc /\ UNCHANGED <<mac_list, filtr>>
      BY <2>8 DEF TxDone
    <3>2. Pending # << >> /\ Pending' = Tail(Pending) /\ Head(Pending) = txBuf
      BY <2>8, <3>1, DoneIsTake, PendingFacts DEF Link!Take, HSInv
    <3>3. view' = Learn(view, Head(Pending)) /\ stale' = stale
      BY <2>1, <3>1, <3>2 DEF Observe
    <3>4. view' \in View
      <4>1. Head(Pending) \in Frame
        BY <3>2, PendingFacts DEF HSInv
      <4>2. QED BY <3>3, <4>1, LearnType DEF HSInv
    <3>5. QED BY <1>1, <3>1, <3>2, <3>3, <3>4, ArrivalKeeps DEF HSInv
  <2>9. CASE \/ SdkReturns \/ UartBusy \/ FifoIdle \/ NothingReceived
             \/ CopyCommand \/ ClearRxFlag \/ KeyUp \/ KeyDown
             \/ change_baud_rate \/ RxDone \/ Host
    <3>1. /\ UNCHANGED <<fifo, txBuf, txBusy, mac_list, filtr>>
          /\ pc # "exec" \/ pc' # "key"
      BY <2>9
         DEF SdkReturns, UartBusy, FifoIdle, NothingReceived, CopyCommand,
             ClearRxFlag, KeyUp, KeyDown, change_baud_rate, RxDone, Host, HostSends
    <3>2. txBusy' \/ ~txBusy
      BY <3>1
    <3>3. QED BY <2>2, <2>3, <3>1, <3>2 DEF Pending
  <2>10. QED
    BY <2>1, <2>4, <2>5, <2>6, <2>7, <2>8, <2>9 DEF Next, scan_task, Execute
<1>4. QED BY <1>2, <1>3

(***************************************************************************)
(* A host that replays the responses knows the device's list and filter,   *)
(* but for a part whose last change was announced by a dropped response,   *)
(* however many frames are on their way.                                   *)
(***************************************************************************)
THEOREM ReplayIsConfiguration == HSSpec => []ReplayAgrees
<1>1. HSInv => ReplayAgrees
  BY DEF HSInv
<1>2. QED BY <1>1, HSInitInv, HSStepInv, PTL DEF HSSpec

(***************************************************************************)
(* Each advertisement on its way has passed the list and the filter that   *)
(* the responses in front of it describe.                                  *)
(***************************************************************************)
THEOREM ResponsesAreMarkers == HSSpec => []AdvsFitReplay
<1>1. HSInv => AdvsFitReplay
  BY DEF HSInv
<1>2. QED BY <1>1, HSInitInv, HSStepInv, PTL DEF HSSpec
=============================================================================
