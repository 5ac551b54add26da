------------------------------ MODULE Scanner ------------------------------
(***************************************************************************)
(* The TLSR825x firmware (ble2uart/source): main_loop calls the SDK, which *)
(* runs the advertising callbacks, and then scan_task, which sends one     *)
(* frame, reads one host command and looks at the key.  All of that is one *)
(* thread, so the program counter pc names the place between two steps of  *)
(* it where the hardware may intervene: the UART's two DMA channels and    *)
(* the host at the other end of the line run on their own.                 *)
(*                                                                         *)
(* ad_fifo is the abstract queue that MyFifo is proved to implement.       *)
(* Definitions named X_Something are faulty variants of X (a dropped       *)
(* guard, a missing reset): no action uses them, they serve to see that    *)
(* the properties below notice the fault.                                  *)
(* A frame is what the properties tell apart: an advertisement carries its *)
(* address and address type, a response the command, the echoed argument   *)
(* and the id byte.  Payload, rssi, PHY, scan window and CRC bytes are not *)
(* represented; of the CRC only whether it matches.                        *)
(***************************************************************************)
EXTENDS MacList

CONSTANTS
  Mac,        (* device addresses                                          *)
  Bit,        (* bits of the address type that filtr can mask              *)
  FifoNum,    (* third argument of MYFIFO_INIT(ad_fifo, ...)               *)
  Handle,     (* periodic sync handles; {} when the SDK reports none       *)
  MaxCmds,    (* bound: commands the host sends                            *)
  Calm,       (* TRUE: the host leaves 50 ms between commands, the line    *)
              (* has no noise and nobody touches the key                   *)
  None        (* absence of a frame, a command, an argument or a handle    *)

ASSUME ScannerAssumption ==
  /\ FifoNum \in Nat \ {0}
  /\ ListMax \in Nat \ {0}
  /\ MaxCmds \in Nat
  /\ Calm \in BOOLEAN

ScanArg == [start : BOOLEAN, filtr : SUBSET Bit]

(* A host command; "OTHER" is any frame with a good CRC whose length and   *)
(* id match no branch of scan_task.  seq numbers what the host has sent.   *)
Command == [seq : 1 .. MaxCmds, cmd : {"SCAN"}, arg : ScanArg]
      \cup [seq : 1 .. MaxCmds, cmd : ListCmd, arg : Mac]
      \cup [seq : 1 .. MaxCmds, cmd : {"CLRM", "INFO", "OTHER"}, arg : {None}]

(* What stands in a receive buffer: the bytes of a command, and whether    *)
(* crcFast over them gives 0.  It does not after line noise, nor while the *)
(* receive DMA is still writing the command over an older one.             *)
RxFrame == [body : Command, crc : BOOLEAN]

AdvFrame == [kind : {"adv"}, mac : Mac, atype : SUBSET Bit]
RespFrame == [kind : {"resp"}, to : Command, id : 0 .. ListMax]
Frame == AdvFrame \cup RespFrame

ASSUME NoneAssumption ==
  /\ None \notin Mac \cup Handle
  /\ None \notin RxFrame
  /\ None \notin Frame

VARIABLES
  pc,           (* where the main loop stands                              *)
  fifo,         (* ad_fifo                                                 *)
  txBuf,        (* utxb: the frame the UART sends or has sent last         *)
  txBusy,       (* ~FLD_UART_TX_DONE                                       *)
  wire,         (* the frame the host has received last                    *)
  arriving,     (* the receive DMA is in the middle of a command           *)
  rxBuf,        (* urxb: the receive DMA buffer                            *)
  rxFlag,       (* reg_dma_rx_rdy0 & FLD_DMA_IRQ_UART_RX                   *)
  buf,          (* scan_task's local copy of urxb                          *)
  mac_list,     (* mode and the mac[0..count-1] of mac_list_t              *)
  filtr,        (* mac_list.filtr as the set of its one bits               *)
  scanning,     (* the controller is scanning                              *)
  periodic_adv, (* the last periodicAdvSyncEstablished event               *)
  ledR,         (* the red LED                                             *)
  sent,         (* commands the host has sent                              *)
  lastExec      (* seq of the command executed last                        *)

hostVars == <<arriving, sent>>
rxVars   == <<rxBuf, rxFlag, buf>>
txVars   == <<txBuf, txBusy, wire>>
cfgVars  == <<mac_list, filtr, scanning, lastExec>>
vars == <<pc, fifo, txVars, hostVars, rxVars, cfgVars, periodic_adv, ledR>>

Init ==
  /\ pc = "sdk"
  /\ fifo = << >>
  /\ txBuf = None /\ txBusy = FALSE /\ wire = None
  /\ arriving = FALSE /\ sent = 0
  /\ rxBuf = None /\ rxFlag = FALSE /\ buf = None
  /\ mac_list = EmptyList
  /\ filtr = {}
  /\ scanning = FALSE
  /\ lastExec = 0
  /\ periodic_adv = [handle |-> None, mac |-> None, atype |-> {}]
  /\ ledR = FALSE

-----------------------------------------------------------------------------
(* The SDK phase: callbacks of blc_sdk_main_loop.                          *)

HasRoom_OffByOne == Len(fifo) <= FifoNum
HasRoom == Len(fifo) < FifoNum

Forward_NoTypeFilter(m, atype) ==
  IF chk_mac(mac_list, m)
  THEN IF HasRoom
       THEN /\ fifo' = Append(fifo, [kind |-> "adv", mac |-> m, atype |-> atype])
            /\ UNCHANGED ledR
       ELSE /\ ledR' = TRUE
            /\ UNCHANGED fifo
  ELSE UNCHANGED <<fifo, ledR>>

(* What the advertising callbacks do with a report that is neither empty,  *)
(* nor too long, nor without rssi: forward it, or show the red LED when    *)
(* the FIFO has no slot left.                                              *)
Forward(m, atype) ==
  IF atype \cap filtr = {} /\ chk_mac(mac_list, m)
  THEN IF HasRoom
       THEN /\ fifo' = Append(fifo, [kind |-> "adv", mac |-> m, atype |-> atype])
            /\ UNCHANGED ledR
       ELSE /\ ledR' = TRUE
            /\ UNCHANGED fifo
  ELSE UNCHANGED <<fifo, ledR>>

(* One report of an HCI_SUB_EVT_LE_ADVERTISING_REPORT event.               *)
ble_adv_callback(m, atype) ==
  /\ pc = "sdk" /\ scanning
  /\ Forward(m, atype)
  /\ UNCHANGED <<pc, txVars, hostVars, rxVars, cfgVars, periodic_adv>>

(* One turn of the loop over the reports of an extended advertising event; *)
(* nothing but this callback touches the FIFO between two turns.           *)
ble_ext_adv_callback(m, atype) ==
  /\ pc = "sdk" /\ scanning
  /\ Forward(m, atype)
  /\ UNCHANGED <<pc, txVars, hostVars, rxVars, cfgVars, periodic_adv>>

ble_le_periodic_adv_sync_established_callback(h, m, atype) ==
  /\ pc = "sdk" /\ scanning
  /\ periodic_adv' = [handle |-> h, mac |-> m, atype |-> atype]
  /\ UNCHANGED <<pc, fifo, ledR, txVars, hostVars, rxVars, cfgVars>>

ble_le_periodic_adv_sync_lost_callback ==
  /\ pc = "sdk" /\ periodic_adv.handle # None
  /\ periodic_adv' = [periodic_adv EXCEPT !.handle = None]
  /\ UNCHANGED <<pc, fifo, ledR, txVars, hostVars, rxVars, cfgVars>>

ble_le_periodic_adv_callback(h) ==
  /\ pc = "sdk" /\ periodic_adv.handle = h
  /\ Forward(periodic_adv.mac, periodic_adv.atype)
  /\ UNCHANGED <<pc, txVars, hostVars, rxVars, cfgVars, periodic_adv>>

(* blc_sdk_main_loop returns and main_loop calls scan_task. *)
SdkReturns ==
  /\ pc = "sdk"
  /\ pc' = "tx"
  /\ UNCHANGED <<fifo, ledR, txVars, hostVars, rxVars, cfgVars, periodic_adv>>

-----------------------------------------------------------------------------
(* scan_task: the frame at the head of ad_fifo.                            *)

SendFrame_DoneNotChecked ==
  /\ pc = "tx" /\ fifo # << >>
  /\ txBuf' = Head(fifo)
  /\ txBusy' = TRUE
  /\ fifo' = Tail(fifo)
  /\ pc' = "rx"
  /\ UNCHANGED <<wire, ledR, hostVars, rxVars, cfgVars, periodic_adv>>

SendFrame_NotPopped ==
  /\ pc = "tx" /\ fifo # << >> /\ ~txBusy
  /\ txBuf' = Head(fifo)
  /\ txBusy' = TRUE
  /\ pc' = "rx"
  /\ UNCHANGED <<fifo, wire, ledR, hostVars, rxVars, cfgVars, periodic_adv>>

(* uart_send copies the slot and starts the DMA; only then is it popped.   *)
SendFrame ==
  /\ pc = "tx" /\ fifo # << >> /\ ~txBusy
  /\ txBuf' = Head(fifo)
  /\ txBusy' = TRUE
  /\ fifo' = Tail(fifo)
  /\ pc' = "rx"
  /\ UNCHANGED <<wire, ledR, hostVars, rxVars, cfgVars, periodic_adv>>

UartBusy_NoLed ==
  /\ pc = "tx" /\ fifo # << >> /\ txBusy
  /\ pc' = "rx"
  /\ UNCHANGED <<fifo, ledR, txVars, hostVars, rxVars, cfgVars, periodic_adv>>

(* uart_send returns -1: the frame stays and the red LED goes on.          *)
UartBusy ==
  /\ pc = "tx" /\ fifo # << >> /\ txBusy
  /\ ledR' = TRUE
  /\ pc' = "rx"
  /\ UNCHANGED <<fifo, txVars, hostVars, rxVars, cfgVars, periodic_adv>>

(* Nothing to send: the red LED goes off if it was set 2 s ago or earlier. *)
FifoIdle ==
  /\ pc = "tx" /\ fifo = << >>
  /\ ledR' \in {ledR, FALSE}
  /\ pc' = "rx"
  /\ UNCHANGED <<fifo, txVars, hostVars, rxVars, cfgVars, periodic_adv>>

-----------------------------------------------------------------------------
(* scan_task: uart_read.  The copy and the reset of the flag are two steps *)
(* because the receive DMA may complete a frame between them.              *)

NothingReceived_WhileSending ==
  /\ pc = "rx" /\ (rxFlag => txBusy)
  /\ pc' = "key"
  /\ UNCHANGED <<fifo, ledR, txVars, hostVars, rxVars, cfgVars, periodic_adv>>

NothingReceived ==
  /\ pc = "rx" /\ ~rxFlag
  /\ pc' = "key"
  /\ UNCHANGED <<fifo, ledR, txVars, hostVars, rxVars, cfgVars, periodic_adv>>

CopyCommand ==
  /\ pc = "rx" /\ rxFlag
  /\ buf' = rxBuf
  /\ pc' = "clear"
  /\ UNCHANGED <<fifo, ledR, txVars, hostVars, rxBuf, rxFlag, cfgVars, periodic_adv>>

ClearRxFlag_Forgotten ==
  /\ pc = "clear"
  /\ pc' = "exec"
  /\ UNCHANGED <<fifo, ledR, txVars, hostVars, rxBuf, rxFlag, buf, cfgVars, periodic_adv>>

ClearRxFlag ==
  /\ pc = "clear"
  /\ rxFlag' = FALSE
  /\ pc' = "exec"
  /\ UNCHANGED <<fifo, ledR, txVars, hostVars, rxBuf, buf, cfgVars, periodic_adv>>

-----------------------------------------------------------------------------
(* scan_task: the command in buf.                                          *)

CrcMatches(f) == f.crc

(* scan_task has a command with a good CRC of the given kind, and is done  *)
(* with it after this step.                                                *)
Executes(cmds) ==
  /\ pc = "exec"
  /\ CrcMatches(buf)
  /\ buf.body.cmd \in cmds
  /\ lastExec' = buf.body.seq
  /\ buf' = None
  /\ pc' = "key"
  /\ UNCHANGED <<txVars, hostVars, rxBuf, rxFlag, periodic_adv>>

(* send_resp: without a free slot the response is dropped, and nothing     *)
(* tells anybody.                                                          *)
send_resp(id) ==
  fifo' = IF HasRoom
          THEN Append(fifo, [kind |-> "resp", to |-> buf.body, id |-> id])
          ELSE fifo

Scan_FiltrKept ==
  /\ Executes({"SCAN"})
  /\ ledR' = FALSE
  /\ scanning' \in {scanning, buf.body.arg.start}
  /\ send_resp(Len(mac_list.mac))
  /\ UNCHANGED <<mac_list, filtr>>

(* CMD_ID_SCAN.  start_adv_scanning darkens the LEDs; the controller may   *)
(* refuse to enable or disable, which changes neither filtr nor response.  *)
Scan ==
  /\ Executes({"SCAN"})
  /\ ledR' = FALSE
  /\ scanning' \in {scanning, buf.body.arg.start}
  /\ filtr' = IF buf.body.arg.start THEN buf.body.arg.filtr ELSE filtr
  /\ send_resp(Len(mac_list.mac))
  /\ UNCHANGED mac_list

AddMac ==
  /\ Executes(ListCmd)
  /\ mac_list' = WithMac(mac_list, buf.body.cmd, buf.body.arg)
  /\ send_resp(Len(mac_list'.mac))
  /\ UNCHANGED <<filtr, scanning, ledR>>

ClearMacs ==
  /\ Executes({"CLRM"})
  /\ mac_list' = WithoutMacs(mac_list)
  /\ send_resp(ListMax)
  /\ UNCHANGED <<filtr, scanning, ledR>>

(* CMD_ID_INFO; the version number is abstracted to 0. *)
Info ==
  /\ Executes({"INFO"})
  /\ send_resp(0)
  /\ UNCHANGED <<mac_list, filtr, scanning, ledR>>

Unknown ==
  /\ Executes({"OTHER"})
  /\ UNCHANGED <<fifo, mac_list, filtr, scanning, ledR>>

BadCrc ==
  /\ pc = "exec" /\ ~CrcMatches(buf)
  /\ buf' = None
  /\ pc' = "key"
  /\ UNCHANGED <<fifo, ledR, txVars, hostVars, rxBuf, rxFlag, cfgVars, periodic_adv>>

-----------------------------------------------------------------------------
(* scan_task: the key, and the end of the pass.                            *)

KeyUp ==
  /\ pc = "key"
  /\ pc' = "sdk"
  /\ UNCHANGED <<fifo, ledR, txVars, hostVars, rxVars, cfgVars, periodic_adv>>

(* change_baud_rate blocks the main loop until the key is released ...     *)
KeyDown ==
  /\ pc = "key" /\ ~Calm
  /\ pc' = "held"
  /\ UNCHANGED <<fifo, ledR, txVars, hostVars, rxVars, cfgVars, periodic_adv>>

(* ... and ends in init_uart, which forgets what the UART was receiving.   *)
(* It comes at least 50 ms after the key was seen, when the longest frame  *)
(* (242 bytes, 21 ms at 115200 baud) has left the transmitter.  rgb_blink  *)
(* leaves the red LED off.                                                 *)
change_baud_rate ==
  /\ pc = "held" /\ ~txBusy
  /\ pc' = "sdk"
  /\ ledR' = FALSE
  /\ rxFlag' = FALSE
  /\ arriving' = FALSE
  /\ UNCHANGED <<fifo, txVars, sent, rxBuf, buf, cfgVars, periodic_adv>>

-----------------------------------------------------------------------------
(* The hardware and the host.                                              *)

TxDone ==
  /\ txBusy
  /\ txBusy' = FALSE
  /\ wire' = txBuf
  /\ UNCHANGED <<pc, fifo, ledR, txBuf, hostVars, rxVars, cfgVars, periodic_adv>>

(* The host sends its next command: its bytes start to replace those in    *)
(* the receive buffer, read or not.  A calm host has left the main loop    *)
(* the time to execute the previous one.                                   *)
HostSends(cmd, arg) ==
  /\ sent < MaxCmds /\ ~arriving
  /\ Calm => ~rxFlag /\ buf = None
  /\ sent' = sent + 1
  /\ arriving' = TRUE
  /\ rxBuf' = [body |-> [seq |-> sent + 1, cmd |-> cmd, arg |-> arg], crc |-> FALSE]
  /\ UNCHANGED <<pc, fifo, ledR, txVars, rxFlag, buf, cfgVars, periodic_adv>>

(* The receive DMA completes; noise on the line leaves a bad CRC. *)
RxDone ==
  /\ arriving
  /\ arriving' = FALSE
  /\ rxFlag' = TRUE
  /\ \E good \in BOOLEAN : (Calm => good) /\ rxBuf' = [rxBuf EXCEPT !.crc = good]
  /\ UNCHANGED <<pc, fifo, ledR, txVars, sent, buf, cfgVars, periodic_adv>>

-----------------------------------------------------------------------------
(* app_controller_event_callback dispatches on the subevent code. *)
app_controller_event_callback ==
  \/ \E m \in Mac, atype \in SUBSET Bit :
       \/ ble_adv_callback(m, atype)
       \/ ble_ext_adv_callback(m, atype)
       \/ \E h \in Handle : ble_le_periodic_adv_sync_established_callback(h, m, atype)
  \/ ble_le_periodic_adv_sync_lost_callback
  \/ \E h \in Handle : ble_le_periodic_adv_callback(h)

Execute == Scan \/ AddMac \/ ClearMacs \/ Info \/ Unknown \/ BadCrc

(* scan_task from its first statement to its last. *)
scan_task ==
  \/ SendFrame \/ UartBusy \/ FifoIdle
  \/ NothingReceived \/ CopyCommand \/ ClearRxFlag
  \/ Execute
  \/ KeyUp \/ KeyDown \/ change_baud_rate

Host ==
  \E c \in [cmd : {"SCAN"}, arg : ScanArg] \cup [cmd : ListCmd, arg : Mac]
           \cup [cmd : {"CLRM", "INFO", "OTHER"}, arg : {None}] :
    HostSends(c.cmd, c.arg)

Next ==
  \/ app_controller_event_callback
  \/ SdkReturns
  \/ scan_task
  \/ TxDone \/ RxDone
  \/ Host

Spec == Init /\ [][Next]_vars

(* main_loop keeps running (the SDK returns, scan_task goes from step to   *)
(* step, the key is let go), and the UART completes what it has started.   *)
Fairness ==
  /\ WF_vars(SdkReturns)
  /\ WF_vars(scan_task)
  /\ WF_vars(TxDone)
  /\ WF_vars(RxDone)

FairSpec == Spec /\ Fairness

-----------------------------------------------------------------------------
MainType ==
  /\ pc \in {"sdk", "tx", "rx", "clear", "exec", "key", "held"}
  /\ ledR \in BOOLEAN
  /\ periodic_adv \in [handle : Handle \cup {None}, mac : Mac \cup {None}, atype : SUBSET Bit]
  /\ periodic_adv.handle # None => periodic_adv.mac # None

StreamType ==
  /\ fifo \in Seq(Frame) /\ Len(fifo) <= FifoNum
  /\ txBuf \in Frame \cup {None}
  /\ wire \in Frame \cup {None}
  /\ txBusy \in BOOLEAN
  /\ txBusy => txBuf \in Frame

RxType ==
  /\ arriving \in BOOLEAN
  /\ rxFlag \in BOOLEAN
  /\ rxBuf \in RxFrame \cup {None}
  /\ arriving \/ rxFlag => rxBuf \in RxFrame
  /\ pc \in {"clear", "exec"} => buf \in RxFrame
  /\ pc \notin {"clear", "exec"} => buf = None

ConfigType ==
  /\ mac_list \in [mode : ListCmd, mac : Seq(Mac)]
  /\ Len(mac_list.mac) <= ListMax
  /\ filtr \in SUBSET Bit
  /\ scanning \in BOOLEAN
  /\ sent \in 0 .. MaxCmds
  /\ lastExec \in 0 .. MaxCmds

TypeOK == MainType /\ StreamType /\ RxType /\ ConfigType

(* What is on its way to the host, oldest first. *)
Pending == (IF txBusy THEN <<txBuf>> ELSE << >>) \o fifo

Link == INSTANCE BoundedQueue
          WITH NoFrame <- None, Capacity <- FifoNum + 1,
               queue <- Pending, taken <- wire

(***************************************************************************)
(* From the moment a callback or a command has put a frame into ad_fifo,   *)
(* it reaches the host exactly once and in order, whatever main loop, UART *)
(* and host do: FIFO and transmit buffer together are one queue            *)
(* (scanning.c:229-250, drv_uart.c:41-52).                                 *)
(***************************************************************************)
StreamIsQueue == Link!Spec

(***************************************************************************)
(* Overwritten, torn and noisy commands are lost, but a command is never   *)
(* executed twice, nor after a command the host has sent later             *)
(* (drv_uart.c:54-65, scanning.c:284-319).                                 *)
(***************************************************************************)
CommandsOnceInOrder ==
  [][pc = "exec" /\ pc' = "key" /\ CrcMatches(buf) => lastExec' > lastExec]_vars

(* scan_task executes one of the commands cmds and its response finds no   *)
(* slot.                                                                   *)
ResponseLost(cmds) ==
  /\ pc = "exec" /\ pc' = "key" /\ CrcMatches(buf)
  /\ buf.body.cmd \in cmds
  /\ fifo' = fifo

(***************************************************************************)
(* send_resp drops silently, yet no list or info response is lost without  *)
(* the red LED being on: a full FIFO at that point means that uart_send    *)
(* was busy earlier in the same pass (scanning.c:53-66, 238-249).          *)
(***************************************************************************)
LostResponseShowsRed ==
  [][ResponseLost(ListCmd \cup {"CLRM", "INFO"}) => ledR']_vars

(***************************************************************************)
(* A response that found a slot reaches the host, however many             *)
(* advertisements compete with it for the UART.                            *)
(***************************************************************************)
ResponsesDelivered ==
  \A n \in 1 .. MaxCmds :
    (\E i \in DOMAIN fifo : fifo[i].kind = "resp" /\ fifo[i].to.seq = n)
      ~> (wire # None /\ wire.kind = "resp" /\ wire.to.seq = n)

(***************************************************************************)
(* A command that has arrived undamaged is executed, however much there is *)
(* to send, unless the host sends the next one too early, or the key is    *)
(* pressed, which resets the UART, or the one before it was still being    *)
(* copied: uart_read then clears the flag of the new one with that of the  *)
(* old one.  A host that leaves 50 ms after each command meets none of     *)
(* these (scanning.c:284-319, drv_uart.c:54-65).                           *)
(***************************************************************************)
ReceivedCommandsExecuted ==
  \A n \in 1 .. MaxCmds :
    (rxFlag /\ ~arriving /\ rxBuf.crc /\ rxBuf.body.seq = n /\ pc # "clear")
      ~> (lastExec >= n \/ sent > n \/ pc = "held")
=============================================================================
