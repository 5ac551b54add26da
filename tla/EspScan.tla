------------------------------ MODULE EspScan ------------------------------
(***************************************************************************)
(* The ESP32-C3 firmware (ble50_scan.c).  io_task reads the host's         *)
(* commands from the USB driver; esp_gap_cb runs in the Bluetooth task,    *)
(* which has a higher priority on the only core and never blocks (the USB  *)
(* timeouts of 5 ms are no tick at all at 100 Hz).  So a callback may come *)
(* between any two statements of io_task, but is not interrupted by it.    *)
(* They share mac_list without a lock, and both write to the USB driver.   *)
(*                                                                         *)
(* Stopping a scan, setting its parameters and starting it are requests to *)
(* the Bluetooth stack, which carries them out later and in order; that    *)
(* the parameters are set it reports to esp_gap_cb, which then asks for    *)
(* the start.                                                              *)
(*                                                                         *)
(* Commands come as bytes and a read takes what there is: it may end in a  *)
(* command or take several.  A command is two pieces here, and the CRC     *)
(* matches exactly if the two are read together and alone.  X_Something is *)
(* a faulty variant of X that no action uses.                              *)
(***************************************************************************)
EXTENDS MacList

CONSTANTS
  Mac,        (* device addresses                                          *)
  Bit,        (* bits of the address type that filtr can mask              *)
  ReadMax,    (* HEAD_CRC_ADD_LEN, in pieces                               *)
  RingMax,    (* the USB driver's tx_buffer_size, in responses             *)
  AdvLen,     (* an advertisement's share of it                            *)
  MaxCmds,    (* bound: commands the host sends                            *)
  None

ASSUME EspScanAssumption ==
  /\ {ReadMax, RingMax, AdvLen, ListMax} \subseteq Nat \ {0}
  /\ MaxCmds \in Nat
  /\ None \notin Mac

(* "OTHER" is a command that io_task does not know, or too short.          *)
Body == [cmd : {"SCAN"}, arg : [start : BOOLEAN, filtr : SUBSET Bit]]
   \cup [cmd : ListCmd, arg : Mac]
   \cup [cmd : {"CLRM", "INFO", "OTHER"}, arg : {None}]
Command == [seq : 1 .. MaxCmds, body : Body]
Piece == [of : Command, no : {1, 2}]
Frame == [kind : {"adv"}, mac : Mac, atype : SUBSET Bit]
    \cup [kind : {"resp"}, to : 1 .. MaxCmds]
Request == [op : {"stop", "start"}, params : {0}] \cup [op : {"params"}, params : 1 .. MaxCmds]

VARIABLES
  pc,               (* "read", or the next statement of io_task           *)
  rx,               (* what the USB driver has received                    *)
  read_buf,
  mac_list,         (* mode, count and the array mac                       *)
  filtr,
  ext_scan_params,  (* the number of the command that they are of         *)
  requests,         (* to the Bluetooth stack                              *)
  paramsSet,        (* SET_EXT_SCAN_PARAMS_COMPLETE events to deliver      *)
  inForce,          (* the parameters that the controller has              *)
  scanning,
  ring,             (* the USB driver's transmit buffer                    *)
  sent,             (* commands the host has sent                          *)
  lastExec,         (* the command executed last                           *)
  wanted,           (* whether the last scan command was a start           *)
  before,           (* the list before the command in work                 *)
  rushed            (* the host has sent a command while another was in    *)
                    (* work                                                *)

rxVars == <<rx, sent, rushed>>
ioVars == <<pc, read_buf, lastExec, wanted, before>>
cfgVars == <<mac_list, filtr, ext_scan_params>>
stackVars == <<requests, paramsSet, inForce, scanning>>
vars == <<rxVars, ioVars, cfgVars, stackVars, ring>>

List == [mode |-> mac_list.mode, mac |-> SubSeq(mac_list.mac, 1, mac_list.count)]

Init ==
  /\ pc = "read" /\ read_buf = None
  /\ rx = << >> /\ sent = 0 /\ rushed = FALSE
  /\ mac_list = [mode |-> "WMAC", count |-> 0, mac |-> [i \in 1 .. ListMax |-> None]]
  /\ filtr = {} /\ ext_scan_params = 0
  /\ requests = << >> /\ paramsSet = 0 /\ inForce = 0 /\ scanning = FALSE
  /\ ring = << >>
  /\ lastExec = 0 /\ wanted = FALSE /\ before = EmptyList

-----------------------------------------------------------------------------
IsAdv(f) == f.kind = "adv"
Used == Len(ring) + (AdvLen - 1) * Len(SelectSeq(ring, IsAdv))

(* usb_serial_jtag_write_bytes: a frame that does not fit is not written;  *)
(* no caller looks at the result.                                          *)
Write(frame, size) == ring' = IF Used + size <= RingMax THEN Append(ring, frame) ELSE ring

Ask(op, params) == [op |-> op, params |-> params]

(***************************************************************************)
(* esp_gap_cb.                                                             *)
(***************************************************************************)

ParamsComplete_NotStarted ==
  /\ paramsSet > 0
  /\ paramsSet' = paramsSet - 1
  /\ UNCHANGED <<rxVars, ioVars, cfgVars, requests, inForce, scanning, ring>>

(* SET_EXT_SCAN_PARAMS_COMPLETE with success. *)
ParamsComplete ==
  /\ paramsSet > 0
  /\ paramsSet' = paramsSet - 1
  /\ requests' = Append(requests, Ask("start", 0))
  /\ UNCHANGED <<rxVars, ioVars, cfgVars, inForce, scanning, ring>>

AdvReport_NoTypeFilter(m, atype) ==
  /\ inForce # 0
  /\ IF chk_mac(List, m)
     THEN Write([kind |-> "adv", mac |-> m, atype |-> atype], AdvLen)
     ELSE UNCHANGED ring
  /\ UNCHANGED <<rxVars, ioVars, cfgVars, stackVars>>

(* EXT_ADV_REPORT; it may have been queued before the scan was stopped.    *)
AdvReport(m, atype) ==
  /\ inForce # 0
  /\ IF chk_mac(List, m) /\ atype \cap filtr = {}
     THEN Write([kind |-> "adv", mac |-> m, atype |-> atype], AdvLen)
     ELSE UNCHANGED ring
  /\ UNCHANGED <<rxVars, ioVars, cfgVars, stackVars>>

esp_gap_cb == ParamsComplete \/ \E m \in Mac, atype \in SUBSET Bit : AdvReport(m, atype)

(***************************************************************************)
(* io_task.                                                                *)
(***************************************************************************)

CrcMatches_FirstPiece(d) == d # << >>

(* len > 2 && crcFast(read_buf, len) == 0 *)
CrcMatches(d) == Len(d) = 2 /\ d[1].no = 1 /\ d[2] = [d[1] EXCEPT !.no = 2]

(* Where io_task goes on. *)
Branch(c) ==
  CASE c.cmd = "SCAN" -> "stop"
    [] c.cmd \in ListCmd -> "mode"
    [] c.cmd = "CLRM" -> "clear"
    [] c.cmd = "INFO" -> "resp"
    [] c.cmd = "OTHER" -> "read"

(* usb_serial_jtag_read_bytes gives up to ReadMax of the pieces there are, *)
(* and fewer where its ring buffer begins anew.                            *)
ReadBytes ==
  /\ pc = "read"
  /\ \E k \in 1 .. ReadMax :
       /\ k <= Len(rx)
       /\ rx' = SubSeq(rx, k + 1, Len(rx))
       /\ LET d == SubSeq(rx, 1, k) IN
          IF CrcMatches(d) /\ d[1].of.body.cmd # "OTHER"
          THEN /\ read_buf' = d[1].of
               /\ pc' = Branch(d[1].of.body)
               /\ lastExec' = d[1].of.seq
               /\ before' = List
          ELSE UNCHANGED <<read_buf, pc, lastExec, before>>
  /\ UNCHANGED <<sent, rushed, wanted, cfgVars, stackVars, ring>>

StopScan_NotStopped ==
  /\ pc = "stop"
  /\ wanted' = read_buf.body.arg.start
  /\ pc' = IF wanted' THEN "filtr" ELSE "resp"
  /\ UNCHANGED <<rxVars, read_buf, lastExec, before, cfgVars, stackVars, ring>>

(* Every CMD_ID_SCAN stops the scan ...                                    *)
StopScan ==
  /\ pc = "stop"
  /\ requests' = Append(requests, Ask("stop", 0))
  /\ wanted' = read_buf.body.arg.start
  /\ pc' = IF wanted' THEN "filtr" ELSE "resp"
  /\ UNCHANGED <<rxVars, read_buf, lastExec, before, cfgVars, paramsSet, inForce, scanning, ring>>

(* ... and a start sets the filter at once ...                             *)
SetFiltr ==
  /\ pc = "filtr"
  /\ ext_scan_params' = read_buf.seq
  /\ filtr' = read_buf.body.arg.filtr
  /\ pc' = "params"
  /\ UNCHANGED <<rxVars, read_buf, lastExec, wanted, before, mac_list, stackVars, ring>>

(* ... and asks for the parameters. *)
SetParams ==
  /\ pc = "params"
  /\ requests' = Append(requests, Ask("params", ext_scan_params))
  /\ pc' = "resp"
  /\ UNCHANGED <<rxVars, read_buf, lastExec, wanted, before, cfgVars, paramsSet, inForce, scanning, ring>>

StoreMode_NewList ==
  /\ pc = "mode"
  /\ mac_list' = [mac_list EXCEPT !.mode = read_buf.body.cmd, !.count = 0]
  /\ pc' = "mac"
  /\ UNCHANGED <<rxVars, read_buf, lastExec, wanted, before, filtr, ext_scan_params, stackVars, ring>>

(* A list command stores the mode ...                                      *)
StoreMode ==
  /\ pc = "mode"
  /\ mac_list' = [mac_list EXCEPT !.mode = read_buf.body.cmd]
  /\ pc' = IF mac_list.count < ListMax THEN "mac" ELSE "resp"
  /\ UNCHANGED <<rxVars, read_buf, lastExec, wanted, before, filtr, ext_scan_params, stackVars, ring>>

(* ... the address, if there is room, ...                                  *)
StoreMac ==
  /\ pc = "mac"
  /\ mac_list' = [mac_list EXCEPT !.mac[mac_list.count + 1] = read_buf.body.arg]
  /\ pc' = "count"
  /\ UNCHANGED <<rxVars, read_buf, lastExec, wanted, before, filtr, ext_scan_params, stackVars, ring>>

(* ... and the count. *)
CountUp ==
  /\ pc = "count"
  /\ mac_list' = [mac_list EXCEPT !.count = @ + 1]
  /\ pc' = "resp"
  /\ UNCHANGED <<rxVars, read_buf, lastExec, wanted, before, filtr, ext_scan_params, stackVars, ring>>

ClearMacs ==
  /\ pc = "clear"
  /\ mac_list' = [mac_list EXCEPT !.count = 0]
  /\ pc' = "resp"
  /\ UNCHANGED <<rxVars, read_buf, lastExec, wanted, before, filtr, ext_scan_params, stackVars, ring>>

send_resp ==
  /\ pc = "resp"
  /\ Write([kind |-> "resp", to |-> read_buf.seq], 1)
  /\ pc' = "read" /\ read_buf' = None
  /\ UNCHANGED <<rxVars, lastExec, wanted, before, cfgVars, stackVars>>

io_task ==
  \/ ReadBytes
  \/ StopScan \/ SetFiltr \/ SetParams
  \/ StoreMode \/ StoreMac \/ CountUp \/ ClearMacs
  \/ send_resp

(***************************************************************************)
(* The Bluetooth stack carries out one request.  The controller refuses    *)
(* new parameters while it scans.                                          *)
(***************************************************************************)
StackStep ==
  /\ requests # << >>
  /\ requests' = Tail(requests)
  /\ LET r == Head(requests) IN
     \/ r.op = "stop" /\ scanning' = FALSE /\ UNCHANGED <<inForce, paramsSet>>
     \/ r.op = "start" /\ scanning' = TRUE /\ UNCHANGED <<inForce, paramsSet>>
     \/ /\ r.op = "params"
        /\ IF scanning THEN UNCHANGED <<inForce, paramsSet>>
           ELSE inForce' = r.params /\ paramsSet' = paramsSet + 1
        /\ UNCHANGED scanning
  /\ UNCHANGED <<rxVars, ioVars, cfgVars, ring>>

Quiet == pc = "read" /\ rx = << >> /\ requests = << >> /\ paramsSet = 0

(* BLE2UART.command; flushOutput may discard the rest of the command (one  *)
(* that is discarded whole is as if it had not been sent).  The pause of   *)
(* 20 ms after it is usually enough to find the scanner quiet.             *)
HostSends ==
  /\ sent < MaxCmds
  /\ sent' = sent + 1
  /\ \E b \in Body, n \in {1, 2} :
       rx' = rx \o [i \in 1 .. n |-> [of |-> [seq |-> sent', body |-> b], no |-> i]]
  /\ rushed' = (rushed \/ ~Quiet)
  /\ UNCHANGED <<ioVars, cfgVars, stackVars, ring>>

HostReads ==
  /\ ring # << >>
  /\ ring' = Tail(ring)
  /\ UNCHANGED <<rxVars, ioVars, cfgVars, stackVars>>

Next ==
  \/ esp_gap_cb
  \/ io_task
  \/ StackStep
  \/ HostSends \/ HostReads

Spec == Init /\ [][Next]_vars

(* The stack and its events go on, and io_task has its turn in the pauses  *)
(* between callbacks.                                                      *)
Fairness ==
  /\ WF_vars(io_task)
  /\ WF_vars(StackStep)
  /\ WF_vars(ParamsComplete)

FairSpec == Spec /\ Fairness

-----------------------------------------------------------------------------
HostType == rx \in Seq(Piece) /\ sent \in 0 .. MaxCmds /\ rushed \in BOOLEAN

(* The command in work is one that the statement is for.                   *)
IoType ==
  /\ pc \in {"read", "stop", "filtr", "params", "mode", "mac", "count", "clear", "resp"}
  /\ pc = "read" => read_buf = None
  /\ pc # "read" => read_buf \in Command
  /\ pc \in {"stop", "filtr", "params"} => read_buf.body.cmd = "SCAN"
  /\ pc \in {"mode", "mac", "count"} => read_buf.body.cmd \in ListCmd
  /\ pc = "clear" => read_buf.body.cmd = "CLRM"
  /\ lastExec \in 0 .. MaxCmds
  /\ wanted \in BOOLEAN

(* The address of a list command is stored where there is room for it.     *)
CfgType ==
  /\ mac_list \in [mode : ListCmd, count : 0 .. ListMax, mac : [1 .. ListMax -> Mac \cup {None}]]
  /\ pc \in {"mac", "count"} => mac_list.count < ListMax
  /\ filtr \in SUBSET Bit
  /\ ext_scan_params \in 0 .. MaxCmds
  /\ pc = "params" => ext_scan_params # 0

StackType ==
  /\ requests \in Seq(Request)
  /\ paramsSet \in Nat
  /\ inForce \in 0 .. MaxCmds
  /\ scanning \in BOOLEAN

TypeOK == HostType /\ IoType /\ CfgType /\ StackType /\ ring \in Seq(Frame)

(***************************************************************************)
(* A command is executed at most once and never after a later one, however *)
(* the reads cut and join what the host has sent (ble50_scan.c:747-752).   *)
(***************************************************************************)
CommandsOnceInOrder ==
  [][pc = "read" /\ pc' # "read" => lastExec' > lastExec]_vars

(***************************************************************************)
(* The response to a command is a mark in the stream: an advertisement     *)
(* behind it has passed the list and the filter that the command has left, *)
(* although the two are written to the driver by different tasks           *)
(* (ble50_scan.c:490-496, 652-673).                                        *)
(***************************************************************************)
ResponseIsMark ==
  pc = "read" =>
    \A i, j \in DOMAIN ring :
      (i < j /\ ring[i] = [kind |-> "resp", to |-> lastExec] /\ IsAdv(ring[j]))
        => chk_mac(List, ring[j].mac) /\ ring[j].atype \cap filtr = {}

(***************************************************************************)
(* No advertisement is let through by half a change of the list: what is   *)
(* written to the driver passes the list before the command in work or the *)
(* one after it, unless the command turns a white list into a black one or *)
(* the reverse (ble50_scan.c:498-513, 789-821).                                     *)
(***************************************************************************)
NoHalfChange ==
  [][\A m \in Mac :
       (Len(ring') > Len(ring) /\ IsAdv(ring'[Len(ring')]) /\ ring'[Len(ring')].mac = m
          /\ pc \in {"mode", "mac", "count", "resp"} /\ read_buf.body.cmd \in ListCmd)
         => \/ chk_mac(before, m)
            \/ chk_mac(WithMac(before, read_buf.body.cmd, read_buf.body.arg), m)
            \/ before.mac # << >> /\ before.mode # read_buf.body.cmd]_vars

(***************************************************************************)
(* When the scanner is quiet it scans if the last scan command was a       *)
(* start, and with the parameters of that command - given a host that      *)
(* waited for the one to be done before it sent the next, since a start    *)
(* that is still being carried out overtakes the stop behind it            *)
(* (ble50_scan.c:530-538, 752-784).                                        *)
(***************************************************************************)
ScanAsCommanded ==
  Quiet /\ ~rushed => scanning = wanted /\ (scanning => inForce = ext_scan_params)

(***************************************************************************)
(* A scan command takes effect: from some time on the controller does what *)
(* the last one said (with the same host).                                 *)
(***************************************************************************)
ScanSettles == <>[](rushed \/ scanning = wanted)
=============================================================================
