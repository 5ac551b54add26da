------------------------------- MODULE Ch582 -------------------------------
(***************************************************************************)
(* The CH582 firmware (CH582M_SCAN/APP): TMOS, a scheduler that runs one   *)
(* task at a time, calls Observer_ProcessEvent for the events of the       *)
(* observer task and ObserverEventCB for what the BLE stack reports.  The  *)
(* USB interrupt may come between any two statements of theirs; it shares  *)
(* with them the command buffer, the endpoint and the event bits.          *)
(*                                                                         *)
(* Messages have no CRC and no mark: the host finds where one ends by its  *)
(* length byte alone.  So app_tx_fifo is a sequence of bytes, each of them *)
(* reduced to the message it is of and its place in it.                    *)
(*                                                                         *)
(* The model starts when START_DEVICE_EVT has been handled, long before    *)
(* the host has enumerated the device.  X_Something is a faulty variant of *)
(* X that no action uses.                                                  *)
(***************************************************************************)
EXTENDS MacList

CONSTANTS
  Mac,        (* device addresses                                          *)
  Bit,        (* bits of the address type that filtr can mask              *)
  HeadLen,    (* HEAD_MSG_LEN                                              *)
  MaxData,    (* longest advertisement                                     *)
  FifoSize,   (* APP_TX_BUFFER_LENGTH                                      *)
  EpSize,     (* DevEP2SIZE                                                *)
  MaxCmds,    (* bound: commands the host sends                            *)
  None

ASSUME Ch582Assumption ==
  /\ {HeadLen, EpSize} \subseteq Nat \ {0}
  /\ {MaxData, FifoSize, MaxCmds} \subseteq Nat
  /\ ListMax \in Nat \ {0}
  /\ HeadLen <= FifoSize

(* "OTHER" is a command that parse_command does not know, or too short.    *)
ScanArg == [start : BOOLEAN, filtr : SUBSET Bit]
Command == [seq : 1 .. MaxCmds, cmd : {"SCAN"}, arg : ScanArg]
      \cup [seq : 1 .. MaxCmds, cmd : ListCmd, arg : Mac]
      \cup [seq : 1 .. MaxCmds, cmd : {"CLRM", "INFO", "OTHER"}, arg : {None}]

Stops(c) == c.cmd = "SCAN" /\ ~c.arg.start

(* to: the number of the command that is answered, 0 in an advertisement.  *)
Message == [to : {0}, len : 0 .. MaxData] \cup [to : 1 .. MaxCmds, len : {0}]
Size(msg) == HeadLen + msg.len
Bytes(msg) == [i \in 1 .. Size(msg) |-> [msg |-> msg, pos |-> i]]
Byte == [msg : Message, pos : 1 .. HeadLen + MaxData]
Ends(b) == b.pos = Size(b.msg)

Event == {"NEW_BLEDATA", "NEW_USBDATA", "STOP_DISCOVERY"}

VARIABLES
  pc,           (* "idle": in TMOS; "parse", "resp": in parse_command      *)
  events,       (* event bits of the observer task                         *)
  timer,        (* a tmos_start_task of NEW_BLEDATA_EVT is running         *)
  fifo,         (* app_tx_fifo                                             *)
  chunk,        (* the bytes endpoint 2 will send; << >>: it answers NAK   *)
  app_cmd_len,  (* # 0                                                     *)
  app_cmd_buf,
  mac_list, filtr,
  phys,         (* scan_params.phys # 0                                    *)
  discovering,  (* the stack is scanning ...                               *)
  over,         (* ... or has to report that it has stopped                *)
  sent,         (* commands the host has sent                              *)
  lastExec,     (* the command executed last                               *)
  data,         (* what the host has of an unfinished message              *)
  cut           (* a message has been cut short                            *)

usbVars == <<chunk, data>>
cmdVars == <<app_cmd_len, app_cmd_buf, sent>>
cfgVars == <<mac_list, filtr>>
scanVars == <<phys, discovering, over>>
vars == <<pc, events, timer, fifo, usbVars, cmdVars, cfgVars, scanVars, lastExec, cut>>

Init ==
  /\ pc = "idle" /\ events = {} /\ timer = FALSE
  /\ fifo = << >> /\ chunk = << >> /\ data = << >>
  /\ app_cmd_len = FALSE /\ app_cmd_buf = None
  /\ mac_list = EmptyList /\ filtr = {}
  /\ phys = FALSE /\ discovering = FALSE /\ over = FALSE
  /\ sent = 0 /\ lastExec = 0
  /\ cut = FALSE

-----------------------------------------------------------------------------
Room(msg) == Len(fifo) + Size(msg) <= FifoSize

app_drv_fifo_write_WhatFits(msg) ==
  fifo' = SubSeq(fifo \o Bytes(msg), 1, IF Room(msg) THEN Len(fifo) + Size(msg) ELSE FifoSize)

(* All or nothing; no caller looks at the result. *)
app_drv_fifo_write(msg) == fifo' = IF Room(msg) THEN fifo \o Bytes(msg) ELSE fifo

(* What is flushed may be the rest of a message whose beginning is already *)
(* on its way.                                                             *)
app_drv_fifo_flush ==
  /\ fifo' = << >>
  /\ cut' = (cut \/ (fifo # << >> /\ fifo[1].pos # 1))

(* GAPRole_ObserverCancelDiscovery; whether the stack reports the end of a *)
(* discovery that was cancelled is left open.                              *)
Cancel ==
  /\ discovering' = FALSE
  /\ over' \in (IF discovering THEN BOOLEAN ELSE {over})

StopDiscovery_NoFlush == Cancel /\ UNCHANGED <<fifo, cut>>
StopDiscovery == Cancel /\ app_drv_fifo_flush

-----------------------------------------------------------------------------
(* ObserverEventCB.                                                        *)

Forward(m, atype, n) ==
  /\ pc = "idle" /\ discovering
  /\ IF chk_mac(mac_list, m) /\ atype \cap filtr = {}
     THEN /\ app_drv_fifo_write([to |-> 0, len |-> n])
          /\ events' = events \cup {"NEW_BLEDATA"}
     ELSE UNCHANGED <<fifo, events>>
  /\ UNCHANGED <<pc, timer, usbVars, cmdVars, cfgVars, scanVars, lastExec, cut>>

GAP_DEVICE_INFO_EVENT(m, atype, n) == Forward(m, atype, n)
GAP_EXT_ADV_DEVICE_INFO_EVENT(m, atype, n) == Forward(m, atype, n)
GAP_DIRECT_DEVICE_INFO_EVENT(m, atype) == Forward(m, atype, 0)

GAP_DEVICE_DISCOVERY_EVENT_Always ==
  /\ pc = "idle" /\ over
  /\ over' = FALSE
  /\ discovering' = TRUE
  /\ UNCHANGED <<pc, events, timer, fifo, usbVars, cmdVars, cfgVars, phys, lastExec, cut>>

(* A discovery that has ended is started again, unless the host has        *)
(* stopped it.                                                             *)
GAP_DEVICE_DISCOVERY_EVENT ==
  /\ pc = "idle" /\ over
  /\ over' = FALSE
  /\ discovering' = (discovering \/ phys)
  /\ UNCHANGED <<pc, events, timer, fifo, usbVars, cmdVars, cfgVars, phys, lastExec, cut>>

ObserverEventCB ==
  \/ \E m \in Mac, atype \in SUBSET Bit :
       \/ \E n \in 0 .. MaxData : GAP_DEVICE_INFO_EVENT(m, atype, n)
                                  \/ GAP_EXT_ADV_DEVICE_INFO_EVENT(m, atype, n)
       \/ GAP_DIRECT_DEVICE_INFO_EVENT(m, atype)
  \/ GAP_DEVICE_DISCOVERY_EVENT

(* scan_params.duration is over. *)
DiscoveryEnds ==
  /\ discovering /\ ~over
  /\ discovering' = FALSE /\ over' = TRUE
  /\ UNCHANGED <<pc, events, timer, fifo, usbVars, cmdVars, cfgVars, phys, lastExec, cut>>

-----------------------------------------------------------------------------
(* Observer_ProcessEvent: one event per call, in this order.               *)

(* USBSendData finds that the host has not fetched the last chunk: again   *)
(* in a moment.                                                            *)
EndpointBusy ==
  /\ pc = "idle" /\ "NEW_BLEDATA" \in events
  /\ chunk # << >>
  /\ timer' = TRUE
  /\ events' = events \ {"NEW_BLEDATA"}
  /\ UNCHANGED <<pc, fifo, usbVars, cmdVars, cfgVars, scanVars, lastExec, cut>>

ChunkLen == IF Len(fifo) < EpSize THEN Len(fifo) ELSE EpSize

SendChunk_OnlyOne ==
  /\ pc = "idle" /\ "NEW_BLEDATA" \in events
  /\ chunk = << >>
  /\ chunk' = SubSeq(fifo, 1, ChunkLen)
  /\ fifo' = SubSeq(fifo, ChunkLen + 1, Len(fifo))
  /\ events' = events \ {"NEW_BLEDATA"}
  /\ UNCHANGED <<pc, timer, data, cmdVars, cfgVars, scanVars, lastExec, cut>>

(* USBSendData moves bytes to the endpoint; the event is raised again if   *)
(* some are left.                                                          *)
SendChunk ==
  /\ pc = "idle" /\ "NEW_BLEDATA" \in events
  /\ chunk = << >>
  /\ chunk' = SubSeq(fifo, 1, ChunkLen)
  /\ fifo' = SubSeq(fifo, ChunkLen + 1, Len(fifo))
  /\ timer' = (timer \/ fifo' # << >>)
  /\ events' = events \ {"NEW_BLEDATA"}
  /\ UNCHANGED <<pc, data, cmdVars, cfgVars, scanVars, lastExec, cut>>

NewUsbData ==
  /\ pc = "idle" /\ "NEW_USBDATA" \in events /\ "NEW_BLEDATA" \notin events
  /\ events' = events \ {"NEW_USBDATA"}
  /\ pc' = IF app_cmd_len THEN "parse" ELSE "idle"
  /\ UNCHANGED <<timer, fifo, usbVars, cmdVars, cfgVars, scanVars, lastExec, cut>>

(* STOP_DISCOVERY_EVT comes last.  scan_params.phys stays as it is.        *)
StopDiscoveryEvent ==
  /\ pc = "idle" /\ events = {"STOP_DISCOVERY"}
  /\ events' = {}
  /\ StopDiscovery
  /\ UNCHANGED <<pc, timer, usbVars, cmdVars, cfgVars, phys, lastExec>>

-----------------------------------------------------------------------------
Executes_LenKept(cmds) ==
  /\ pc = "parse"
  /\ app_cmd_buf.cmd \in cmds
  /\ lastExec' = app_cmd_buf.seq
  /\ pc' = "resp"
  /\ UNCHANGED <<events, timer, usbVars, cmdVars>>

(* parse_command up to the point where send_cmd_resp has taken what it     *)
(* needs from app_cmd_buf and gives it back to the interrupt ... (What     *)
(* CMD_ID_INFO leaves in the buffer is never read.)                        *)
Executes(cmds) ==
  /\ pc = "parse"
  /\ app_cmd_buf.cmd \in cmds
  /\ app_cmd_len' = FALSE
  /\ lastExec' = app_cmd_buf.seq
  /\ pc' = "resp"
  /\ UNCHANGED <<events, timer, usbVars, app_cmd_buf, sent>>

Scan ==
  /\ Executes({"SCAN"})
  /\ filtr' = app_cmd_buf.arg.filtr
  /\ phys' = app_cmd_buf.arg.start
  /\ IF phys' THEN discovering' = TRUE /\ UNCHANGED <<over, fifo, cut>>
              ELSE StopDiscovery
  /\ UNCHANGED mac_list

AddMac ==
  /\ Executes(ListCmd)
  /\ mac_list' = WithMac(mac_list, app_cmd_buf.cmd, app_cmd_buf.arg)
  /\ UNCHANGED <<filtr, scanVars, fifo, cut>>

ClearMacs ==
  /\ Executes({"CLRM"})
  /\ mac_list' = WithoutMacs(mac_list)
  /\ UNCHANGED <<filtr, scanVars, fifo, cut>>

Info ==
  /\ Executes({"INFO"})
  /\ UNCHANGED <<cfgVars, scanVars, fifo, cut>>

(* No branch of parse_command, and app_cmd_len stays. *)
Unknown ==
  /\ pc = "parse" /\ app_cmd_buf.cmd = "OTHER"
  /\ pc' = "idle"
  /\ UNCHANGED <<events, timer, fifo, usbVars, cmdVars, cfgVars, scanVars, lastExec, cut>>

(* ... and the rest of send_cmd_resp. *)
send_cmd_resp ==
  /\ pc = "resp"
  /\ app_drv_fifo_write([to |-> lastExec, len |-> 0])
  /\ events' = events \cup {"NEW_BLEDATA"}
  /\ pc' = "idle"
  /\ UNCHANGED <<timer, usbVars, cmdVars, cfgVars, scanVars, lastExec, cut>>

-----------------------------------------------------------------------------
(* A tmos_start_task has run out. *)
TimerFires ==
  /\ timer
  /\ timer' = FALSE
  /\ events' = events \cup {"NEW_BLEDATA"}
  /\ UNCHANGED <<pc, fifo, usbVars, cmdVars, cfgVars, scanVars, lastExec, cut>>

DevEP2_OUT_Deal_LenNotChecked(c) ==
  app_cmd_len' = TRUE /\ app_cmd_buf' = c /\ events' = events \cup {"NEW_USBDATA"}

(* A command that finds the buffer in use is dropped, though acknowledged. *)
DevEP2_OUT_Deal(c) ==
  IF ~app_cmd_len
  THEN app_cmd_len' = TRUE /\ app_cmd_buf' = c /\ events' = events \cup {"NEW_USBDATA"}
  ELSE UNCHANGED <<app_cmd_len, app_cmd_buf, events>>

(* The interrupt for an OUT packet on endpoint 2. *)
OutPacket(cmd, arg) ==
  /\ sent < MaxCmds
  /\ sent' = sent + 1
  /\ DevEP2_OUT_Deal([seq |-> sent + 1, cmd |-> cmd, arg |-> arg])
  /\ UNCHANGED <<pc, timer, fifo, usbVars, cfgVars, scanVars, lastExec, cut>>

(* The bytes of d behind the last message that is complete. *)
Unfinished(d) ==
  LET ends == {0} \cup {i \in DOMAIN d : Ends(d[i])}
      last == CHOOSE i \in ends : \A j \in ends : j <= i
  IN  SubSeq(d, last + 1, Len(d))

(* The interrupt after the host has fetched the chunk.  Once a message has *)
(* been cut short the host is out of step and no longer followed.          *)
InPacket ==
  /\ chunk # << >>
  /\ chunk' = << >>
  /\ data' = IF cut THEN << >> ELSE Unfinished(data \o chunk)
  /\ UNCHANGED <<pc, events, timer, fifo, cmdVars, cfgVars, scanVars, lastExec, cut>>

(* The endpoint forgets a chunk it has not sent; a CLEAR_FEATURE of the    *)
(* endpoint (UsbDevice) does the same.                                     *)
BusReset ==
  /\ chunk' = << >>
  /\ cut' = (cut \/ chunk # << >>)
  /\ UNCHANGED <<pc, events, timer, fifo, data, cmdVars, cfgVars, scanVars, lastExec>>

BusSuspend ==
  /\ events' = events \cup {"STOP_DISCOVERY"}
  /\ UNCHANGED <<pc, timer, fifo, usbVars, cmdVars, cfgVars, scanVars, lastExec, cut>>

-----------------------------------------------------------------------------
NewBleData == EndpointBusy \/ SendChunk
parse_command == Scan \/ AddMac \/ ClearMacs \/ Info \/ Unknown
Observer_ProcessEvent ==
  NewBleData \/ NewUsbData \/ StopDiscoveryEvent \/ parse_command \/ send_cmd_resp

USB_DevTransProcess ==
  \/ \E c \in [cmd : {"SCAN"}, arg : ScanArg] \cup [cmd : ListCmd, arg : Mac]
              \cup [cmd : {"CLRM", "INFO", "OTHER"}, arg : {None}] :
       OutPacket(c.cmd, c.arg)
  \/ InPacket \/ BusReset \/ BusSuspend

Next ==
  \/ Observer_ProcessEvent
  \/ ObserverEventCB
  \/ TimerFires \/ DiscoveryEnds
  \/ USB_DevTransProcess

Spec == Init /\ [][Next]_vars

(* TMOS runs the task while it has events, and the host fetches what there *)
(* is.  NEW_BLEDATA_EVT goes before NEW_USBDATA_EVT, but a call takes less *)
(* time than passes between two advertisements or two timer ticks, so that *)
(* the latter has its turn again and again: strong fairness.               *)
Fairness ==
  /\ WF_vars(NewBleData)
  /\ SF_vars(NewUsbData)
  /\ WF_vars(parse_command)
  /\ WF_vars(send_cmd_resp)
  /\ WF_vars(TimerFires)
  /\ WF_vars(InPacket)

FairSpec == Spec /\ Fairness

-----------------------------------------------------------------------------
StreamType ==
  /\ fifo \in Seq(Byte) /\ Len(fifo) <= FifoSize
  /\ chunk \in Seq(Byte) /\ Len(chunk) <= EpSize
  /\ data \in Seq(Byte)

(* A command is in work only while the buffer is taken.                    *)
CmdType ==
  /\ pc \in {"idle", "parse", "resp"}
  /\ app_cmd_len \in BOOLEAN
  /\ app_cmd_buf \in Command \cup {None}
  /\ pc = "parse" => app_cmd_len
  /\ app_cmd_len => app_cmd_buf \in Command
  /\ sent \in 0 .. MaxCmds /\ lastExec \in 0 .. MaxCmds

CfgType ==
  /\ mac_list \in [mode : ListCmd, mac : Seq(Mac)]
  /\ Len(mac_list.mac) <= ListMax
  /\ filtr \in SUBSET Bit

TaskType ==
  /\ events \in SUBSET Event
  /\ timer \in BOOLEAN /\ phys \in BOOLEAN /\ discovering \in BOOLEAN
  /\ over \in BOOLEAN /\ cut \in BOOLEAN

TypeOK == StreamType /\ CmdType /\ CfgType /\ TaskType

(* d consists of whole messages, one after the other. *)
Whole(d) ==
  /\ \A i \in DOMAIN d :
       IF i = 1 \/ Ends(d[i - 1])
       THEN d[i].pos = 1
       ELSE d[i].pos = d[i - 1].pos + 1 /\ d[i].msg = d[i - 1].msg
  /\ d # << >> => Ends(d[Len(d)])

(***************************************************************************)
(* The host never loses step: however messages are cut into chunks, and    *)
(* however many are dropped for lack of room, what it has and will get is  *)
(* whole messages.  Only flushing the rest of a message already begun, or  *)
(* a bus reset, ends that (observer.c:155-159, 424-425; app_usb.c:104-119).*)
(***************************************************************************)
StreamWhole == ~cut => Whole(data \o chunk \o fifo)

(***************************************************************************)
(* The interrupt and parse_command hand the command buffer back and forth  *)
(* without getting stuck: while it is taken, its event is pending or its   *)
(* command in work, unless parse_command did not know the command          *)
(* (app_usb.c:139-150, observer.c:135, 268-273).                           *)
(***************************************************************************)
BufferNotStuck ==
  app_cmd_len =>
    \/ "NEW_USBDATA" \in events
    \/ pc = "parse"
    \/ app_cmd_buf.cmd = "OTHER"

(***************************************************************************)
(* No byte is forgotten in the FIFO: while there are any, the event that   *)
(* sends them is pending or its timer running, also after the endpoint was *)
(* busy (observer.c:258-266).                                              *)
(***************************************************************************)
SendingGoesOn == fifo # << >> => "NEW_BLEDATA" \in events \/ timer

(***************************************************************************)
(* However full the FIFO was, the host gets an answer when it stops the    *)
(* scan (observer.c:190-193).                                              *)
(***************************************************************************)
StopIsAnswered ==
  [][pc = "parse" /\ pc' = "resp" /\ Stops(app_cmd_buf) =>
       HeadLen + Len(fifo') <= FifoSize]_vars

(***************************************************************************)
(* After a stop command there is no scanning until the next start, also    *)
(* when a discovery had just ended and was about to be started again       *)
(* (observer.c:180-192, 430-440).                                          *)
(***************************************************************************)
StoppedStaysStopped == discovering => phys

(***************************************************************************)
(* A command the interrupt has taken is executed, however many             *)
(* advertisements there are and whatever the host sends next.              *)
(***************************************************************************)
TakenCommandsExecuted ==
  \A n \in 1 .. MaxCmds :
    (app_cmd_len /\ app_cmd_buf.seq = n /\ app_cmd_buf.cmd # "OTHER") ~> (lastExec = n)
=============================================================================
