--------------------------- MODULE EspScan_proofs ---------------------------
(***************************************************************************)
(* Proofs about EspScan for all lists, reads, buffers and numbers of       *)
(* commands.  The invariant has a part for each thing that the two tasks   *)
(* and the Bluetooth stack must agree on: the order of what is received    *)
(* (OrderInv), the list while a command changes it (BeforeInv), the        *)
(* answers in the transmit buffer (MarkInv), and what the stack has still  *)
(* to do (ScanInv).                                                        *)
(***************************************************************************)
EXTENDS EspScan, SequenceTheorems, TLAPS

(* What waits to be read is newer than what has been executed, and in the  *)
(* order in which it was sent.                                             *)
OrderInv ==
  /\ lastExec <= sent
  /\ \A i \in DOMAIN rx : lastExec < rx[i].of.seq /\ rx[i].of.seq <= sent
  /\ \A i, j \in DOMAIN rx : i < j =>
       \/ rx[i].of.seq < rx[j].of.seq
       \/ rx[i].of.seq = rx[j].of.seq /\ rx[i].no < rx[j].no

(* How far the command in work has come with the list.                     *)
BeforeInv ==
  /\ pc = "mode" => before = List
  /\ pc \in {"mac", "count"} =>
       before.mac = List.mac /\ List.mode = read_buf.body.cmd
  /\ pc = "count" => mac_list.mac[mac_list.count + 1] = read_buf.body.arg
  /\ pc = "resp" /\ read_buf.body.cmd \in ListCmd =>
       List = WithMac(before, read_buf.body.cmd, read_buf.body.arg)

(* No answer in the buffer is of a command that has not been answered.     *)
MarkInv ==
  /\ pc # "read" => read_buf.seq = lastExec
  /\ \A i \in DOMAIN ring : ring[i].kind = "resp" =>
       ring[i].to <= lastExec /\ (pc # "read" => ring[i].to < lastExec)
  /\ ResponseIsMark

(* What the stack still has to do, after a scan command ...                *)
Fresh == requests = << >> /\ paramsSet = 0
Settled == scanning = wanted /\ (scanning => inForce = ext_scan_params)

Stopping ==
  /\ paramsSet = 0
  /\ requests = <<Ask("stop", 0)>> \/ (requests = << >> /\ ~scanning)

Starting ==
  \/ requests = <<Ask("stop", 0), Ask("params", ext_scan_params)>> /\ paramsSet = 0
  \/ requests = <<Ask("params", ext_scan_params)>> /\ paramsSet = 0 /\ ~scanning
  \/ requests = << >> /\ paramsSet = 1 /\ ~scanning /\ inForce = ext_scan_params
  \/ requests = <<Ask("start", 0)>> /\ paramsSet = 0 /\ ~scanning /\ inForce = ext_scan_params
  \/ requests = << >> /\ paramsSet = 0 /\ scanning /\ inForce = ext_scan_params

Decided ==
  \/ Fresh /\ Settled
  \/ ~wanted /\ Stopping
  \/ wanted /\ Starting

(* ... of a host that waits.                                               *)
ScanInv ==
  ~rushed =>
    /\ Len(rx) <= 2
    /\ pc # "read" => rx = << >>
    /\ rx # << >> \/ pc \in {"stop", "mode", "mac", "count", "clear"} => Fresh /\ Settled
    /\ pc \in {"filtr", "params"} => wanted /\ Stopping
    /\ pc \in {"read", "resp"} => Decided

-----------------------------------------------------------------------------
(* Some assumptions on their own. *)
LEMMA Bounds == ReadMax \in Nat /\ ReadMax >= 1 /\ MaxCmds \in Nat /\ ListMax \in Nat /\ ListMax >= 1
  BY EspScanAssumption

(* The argument of a command is of the kind the command has. *)
LEMMA BodyType ==
  ASSUME NEW b \in Body
  PROVE  /\ b.cmd \in {"SCAN", "WMAC", "BMAC", "CLRM", "INFO", "OTHER"}
         /\ b.cmd = "SCAN" => b.arg.start \in BOOLEAN /\ b.arg.filtr \in SUBSET Bit
         /\ b.cmd \in ListCmd => b.arg \in Mac
<1>1. CASE b \in [cmd : {"SCAN"}, arg : [start : BOOLEAN, filtr : SUBSET Bit]]
  BY <1>1 DEF ListCmd
<1>2. CASE b \in [cmd : ListCmd, arg : Mac]
  BY <1>2 DEF ListCmd
<1>3. CASE b \in [cmd : {"CLRM", "INFO", "OTHER"}, arg : {None}]
  BY <1>3 DEF ListCmd
<1>4. QED BY <1>1, <1>2, <1>3 DEF Body

(* Whoever has a command has its number and its body. *)
LEMMA CommandFields ==
  ASSUME NEW c \in Command
  PROVE  c.seq \in Nat /\ c.seq \in 1 .. MaxCmds /\ c.body \in Body
  BY DEF Command

(* A read takes pieces from the front. *)
LEMMA Rest ==
  ASSUME NEW q \in Seq(Piece), NEW k \in 1 .. Len(q)
  PROVE  /\ SubSeq(q, 1, k) \in Seq(Piece) /\ Len(SubSeq(q, 1, k)) = k
         /\ \A i \in 1 .. k : SubSeq(q, 1, k)[i] = q[i]
         /\ SubSeq(q, k + 1, Len(q)) \in Seq(Piece)
         /\ Len(SubSeq(q, k + 1, Len(q))) = Len(q) - k
         /\ \A i \in 1 .. Len(q) - k : SubSeq(q, k + 1, Len(q))[i] = q[k + i]
<1>1. Len(q) \in Nat /\ \A i \in 1 .. Len(q) : q[i] \in Piece
  BY LenProperties, ElementOfSeq
<1>2. /\ SubSeq(q, 1, k) \in Seq(Piece) /\ Len(SubSeq(q, 1, k)) = k
      /\ \A i \in 1 .. k : SubSeq(q, 1, k)[i] = q[i]
  <2>1. 1 \in Int /\ k \in Int /\ \A i \in 1 .. k : q[i] \in Piece
    BY <1>1
  <2>2. /\ SubSeq(q, 1, k) \in Seq(Piece)
        /\ Len(SubSeq(q, 1, k)) = IF 1 <= k THEN k - 1 + 1 ELSE 0
        /\ \A i \in 1 .. k - 1 + 1 : SubSeq(q, 1, k)[i] = q[1 + i - 1]
    BY <2>1, SubSeqProperties
  <2>3. QED BY <2>2
<1>3. /\ SubSeq(q, k + 1, Len(q)) \in Seq(Piece)
      /\ Len(SubSeq(q, k + 1, Len(q))) = Len(q) - k
      /\ \A i \in 1 .. Len(q) - k : SubSeq(q, k + 1, Len(q))[i] = q[k + i]
  <2>1. k + 1 \in Int /\ Len(q) \in Int /\ \A i \in k + 1 .. Len(q) : q[i] \in Piece
    BY <1>1
  <2>2. /\ SubSeq(q, k + 1, Len(q)) \in Seq(Piece)
        /\ Len(SubSeq(q, k + 1, Len(q))) = IF k + 1 <= Len(q) THEN Len(q) - (k + 1) + 1 ELSE 0
        /\ \A i \in 1 .. Len(q) - (k + 1) + 1 : SubSeq(q, k + 1, Len(q))[i] = q[k + 1 + i - 1]
    BY <2>1, SubSeqProperties
  <2>3. QED BY <1>1, <2>2
<1>4. QED BY <1>2, <1>3

(* What a read does: it leaves the rest, and with a command, which is two  *)
(* pieces read together, that command is in work.                          *)
LEMMA ReadEffect ==
  ASSUME TypeOK, ReadBytes
  PROVE  \E k \in 1 .. Len(rx) :
           /\ rx' = SubSeq(rx, k + 1, Len(rx))
           /\ \/ UNCHANGED <<pc, read_buf, lastExec, before>>
              \/ /\ k = 2 /\ rx[1] \in Piece /\ rx[2] = [rx[1] EXCEPT !.no = 2]
                 /\ rx[1].no = 1
                 /\ rx[1].of.body.cmd # "OTHER"
                 /\ read_buf' = rx[1].of /\ pc' = Branch(rx[1].of.body)
                 /\ lastExec' = rx[1].of.seq /\ before' = List
<1>1. rx \in Seq(Piece) /\ Len(rx) \in Nat
  BY DEF TypeOK, HostType
<1>2. PICK k \in 1 .. ReadMax :
        /\ k <= Len(rx)
        /\ rx' = SubSeq(rx, k + 1, Len(rx))
        /\ LET d == SubSeq(rx, 1, k) IN
             IF CrcMatches(d) /\ d[1].of.body.cmd # "OTHER"
             THEN /\ read_buf' = d[1].of
                  /\ pc' = Branch(d[1].of.body)
                  /\ lastExec' = d[1].of.seq
                  /\ before' = List
             ELSE UNCHANGED <<read_buf, pc, lastExec, before>>
  BY DEF ReadBytes
<1> DEFINE d == SubSeq(rx, 1, k)
<1>3. k \in 1 .. Len(rx)
  BY <1>1, <1>2, Bounds
<1>4. Len(d) = k /\ \A i \in 1 .. k : d[i] = rx[i]
  BY <1>1, <1>3, Rest
<1> HIDE DEF d
<1>5. CASE CrcMatches(d) /\ d[1].of.body.cmd # "OTHER"
  <2>1. k = 2 /\ d[1].no = 1 /\ d[2] = [d[1] EXCEPT !.no = 2]
    BY <1>4, <1>5 DEF CrcMatches
  <2>2. d[1] = rx[1] /\ d[2] = rx[2] /\ rx[1] \in Piece
    BY <1>1, <1>3, <1>4, <2>1, ElementOfSeq
  <2>3. /\ read_buf' = d[1].of /\ pc' = Branch(d[1].of.body)
        /\ lastExec' = d[1].of.seq /\ before' = List
    BY <1>2, <1>5 DEF d
  <2>4. QED BY <1>2, <1>3, <1>5, <2>1, <2>2, <2>3
<1>6. CASE ~(CrcMatches(d) /\ d[1].of.body.cmd # "OTHER")
  <2>1. UNCHANGED <<pc, read_buf, lastExec, before>>
    BY <1>2, <1>6 DEF d
  <2>2. QED BY <1>2, <1>3, <2>1
<1>7. QED BY <1>5, <1>6

(* Where a command goes on is never the read. *)
LEMMA BranchType ==
  ASSUME NEW b \in Body, b.cmd # "OTHER"
  PROVE  /\ b.cmd = "SCAN" => Branch(b) = "stop"
         /\ b.cmd \in ListCmd => Branch(b) = "mode"
         /\ b.cmd = "CLRM" => Branch(b) = "clear"
         /\ b.cmd = "INFO" => Branch(b) = "resp"
         /\ Branch(b) \in {"stop", "mode", "clear", "resp"}
<1>1. b.cmd \in {"SCAN", "WMAC", "BMAC", "CLRM", "INFO"}
  BY BodyType
<1>2. QED BY <1>1 DEF Branch, ListCmd

-----------------------------------------------------------------------------
(* The fields of mac_list, and what a statement makes of them. *)
LEMMA ListFields ==
  ASSUME CfgType
  PROVE  /\ mac_list.mode \in ListCmd /\ mac_list.count \in Nat /\ mac_list.count <= ListMax
         /\ mac_list.mac \in [1 .. ListMax -> Mac \cup {None}]
         /\ mac_list = [mode |-> mac_list.mode, count |-> mac_list.count, mac |-> mac_list.mac]
  BY Bounds DEF CfgType

(* What io_task changes of the list has its type. *)
LEMMA ListExcept ==
  ASSUME CfgType
  PROVE  /\ \A c \in ListCmd :
              [mac_list EXCEPT !.mode = c] = [mode |-> c, count |-> mac_list.count, mac |-> mac_list.mac]
         /\ \A n \in 0 .. ListMax :
              [mac_list EXCEPT !.count = n] = [mode |-> mac_list.mode, count |-> n, mac |-> mac_list.mac]
  BY DEF CfgType

(* The types of what no command changes. *)
LEMMA TypeOthers ==
  ASSUME TypeOK,
         ParamsComplete \/ StackStep \/ HostSends \/ HostReads
           \/ \E m \in Mac, atype \in SUBSET Bit : AdvReport(m, atype)
  PROVE  TypeOK'
<1>1. CASE ParamsComplete
  <2>1. StackType'
    <3>1. paramsSet' \in Nat
      BY <1>1 DEF ParamsComplete, TypeOK, StackType
    <3>2. Ask("start", 0) \in Request
      BY DEF Ask, Request
    <3>3. requests' \in Seq(Request)
      BY <1>1, <3>2, AppendProperties DEF ParamsComplete, TypeOK, StackType
    <3>4. QED BY <1>1, <3>1, <3>3 DEF ParamsComplete, TypeOK, StackType
  <2>2. QED BY <1>1, <2>1, Zenon DEF ParamsComplete, rxVars, ioVars, cfgVars, TypeOK, HostType, IoType, CfgType
<1>2. CASE StackStep
  <2>1. requests' \in Seq(Request) /\ Head(requests) \in Request
    BY <1>2, HeadTailProperties DEF StackStep, TypeOK, StackType
  <2>2. scanning' \in BOOLEAN /\ paramsSet' \in Nat /\ inForce' \in 0 .. MaxCmds
    <3>1. CASE Head(requests).op \in {"stop", "start"}
      BY <1>2, <3>1 DEF StackStep, TypeOK, StackType
    <3>2. CASE Head(requests).op = "params"
      <4>1. Head(requests).params \in 0 .. MaxCmds
        BY <2>1, <3>2, Bounds DEF Request
      <4>2. QED BY <1>2, <3>2, <4>1 DEF StackStep, TypeOK, StackType
    <3>3. QED BY <2>1, <3>1, <3>2 DEF Request
  <2>3. QED BY <1>2, <2>1, <2>2, Zenon DEF StackStep, rxVars, ioVars, cfgVars, TypeOK, HostType, IoType, CfgType, StackType
<1>3. CASE HostSends
  <2>1. sent' \in 0 .. MaxCmds /\ sent' \in 1 .. MaxCmds
    BY <1>3, Bounds DEF HostSends, TypeOK, HostType
  <2>2. PICK b \in Body, n \in {1, 2} :
          rx' = rx \o [i \in 1 .. n |-> [of |-> [seq |-> sent', body |-> b], no |-> i]]
    BY <1>3 DEF HostSends
  <2>3. [i \in 1 .. n |-> [of |-> [seq |-> sent', body |-> b], no |-> i]] \in Seq(Piece)
    <3>1. \A i \in 1 .. n : [of |-> [seq |-> sent', body |-> b], no |-> i] \in Piece
      BY <2>1 DEF Piece, Command
    <3>2. n \in Nat
      OBVIOUS
    <3>3. QED BY <3>1, <3>2, IsASeq
  <2>4. rx' \in Seq(Piece)
    BY <2>2, <2>3, ConcatProperties DEF TypeOK, HostType
  <2>5. HostType'
    BY <1>3, <2>1, <2>4 DEF HostSends, TypeOK, HostType, Quiet
  <2>6. QED BY <1>3, <2>5, Zenon DEF HostSends, ioVars, cfgVars, stackVars, TypeOK, IoType, CfgType, StackType
<1>4. CASE HostReads
  <2>1. ring' \in Seq(Frame)
    BY <1>4, HeadTailProperties DEF HostReads, TypeOK
  <2>2. QED BY <1>4, <2>1, Zenon DEF HostReads, rxVars, ioVars, cfgVars, stackVars, TypeOK, HostType, IoType, CfgType, StackType
<1>5. ASSUME NEW m \in Mac, NEW atype \in SUBSET Bit, AdvReport(m, atype)
      PROVE  TypeOK'
  <2>1. [kind |-> "adv", mac |-> m, atype |-> atype] \in Frame
    BY DEF Frame
  <2>2. ring' \in Seq(Frame)
    BY <1>5, <2>1, AppendProperties DEF AdvReport, Write, TypeOK
  <2>3. QED BY <1>5, <2>2, Zenon DEF AdvReport, rxVars, ioVars, cfgVars, stackVars, TypeOK, HostType, IoType, CfgType, StackType
<1>6. QED BY <1>1, <1>2, <1>3, <1>4, <1>5

(* The types of what io_task changes. *)
LEMMA TypeIo ==
  ASSUME TypeOK, io_task
  PROVE  TypeOK'
<1>0. pc # "read" => read_buf \in Command /\ read_buf.seq \in 1 .. MaxCmds /\ read_buf.body \in Body
  BY CommandFields DEF TypeOK, IoType
<1>1. CASE ReadBytes
  <2>1. PICK k \in 1 .. Len(rx) :
           /\ rx' = SubSeq(rx, k + 1, Len(rx))
           /\ \/ UNCHANGED <<pc, read_buf, lastExec, before>>
              \/ /\ k = 2 /\ rx[1] \in Piece /\ rx[2] = [rx[1] EXCEPT !.no = 2]
                 /\ rx[1].no = 1
                 /\ rx[1].of.body.cmd # "OTHER"
                 /\ read_buf' = rx[1].of /\ pc' = Branch(rx[1].of.body)
                 /\ lastExec' = rx[1].of.seq /\ before' = List
    BY <1>1, ReadEffect
  <2>2. HostType' /\ StackType' /\ (ring \in Seq(Frame))'
    <3>1. rx' \in Seq(Piece)
      BY <2>1, Rest DEF TypeOK, HostType
    <3>2. QED BY <1>1, <3>1, Zenon DEF ReadBytes, stackVars, TypeOK, HostType, StackType
  <2>3. wanted' = wanted /\ mac_list' = mac_list /\ filtr' = filtr /\ ext_scan_params' = ext_scan_params /\ pc = "read"
    BY <1>1 DEF ReadBytes, cfgVars
  <2>4. CASE UNCHANGED <<pc, read_buf, lastExec, before>>
    BY <2>2, <2>3, <2>4, Zenon DEF TypeOK, IoType, CfgType
  <2>5. CASE /\ k = 2 /\ rx[1] \in Piece
             /\ rx[1].of.body.cmd # "OTHER"
             /\ read_buf' = rx[1].of /\ pc' = Branch(rx[1].of.body)
             /\ lastExec' = rx[1].of.seq
    <3>1. read_buf' \in Command /\ read_buf'.body \in Body /\ lastExec' \in 1 .. MaxCmds
      BY <2>5, CommandFields DEF Piece
    <3>2. /\ read_buf'.body.cmd = "SCAN" => pc' = "stop"
          /\ read_buf'.body.cmd \in ListCmd => pc' = "mode"
          /\ read_buf'.body.cmd = "CLRM" => pc' = "clear"
          /\ read_buf'.body.cmd = "INFO" => pc' = "resp"
          /\ pc' \in {"stop", "mode", "clear", "resp"}
      BY <2>5, <3>1, BranchType
    <3>3. read_buf'.body.cmd \in {"SCAN", "WMAC", "BMAC", "CLRM", "INFO"}
      BY <2>5, <3>1, BodyType
    <3>4. lastExec' \in 0 .. MaxCmds
      BY <3>1
    <3>5. IoType'
      BY <2>3, <3>1, <3>2, <3>3, <3>4 DEF TypeOK, IoType, ListCmd
    <3>6. CfgType'
      BY <2>3, <3>2 DEF TypeOK, CfgType
    <3>7. QED BY <2>2, <3>5, <3>6 DEF TypeOK
  <2>6. QED BY <2>1, <2>4, <2>5
<1>2. CASE StopScan
  <2>1. Ask("stop", 0) \in Request
    BY DEF Ask, Request
  <2>2. requests' \in Seq(Request)
    BY <1>2, <2>1, AppendProperties DEF StopScan, TypeOK, StackType
  <2>3. pc = "stop" /\ wanted' \in BOOLEAN /\ pc' \in {"filtr", "resp"} /\ read_buf.body.cmd = "SCAN"
    BY <1>2, <1>0, BodyType DEF StopScan, TypeOK, IoType
  <2>4. IoType'
    BY <1>2, <2>3 DEF StopScan, TypeOK, IoType
  <2>5. CfgType'
    BY <1>2, <2>3 DEF StopScan, TypeOK, CfgType, cfgVars
  <2>6. QED BY <1>2, <2>2, <2>4, <2>5, Zenon DEF StopScan, rxVars, TypeOK, HostType, StackType
<1>3. CASE SetFiltr
  <2>1. /\ pc = "filtr" /\ pc' = "params" /\ read_buf.body.cmd = "SCAN"
        /\ filtr' \in SUBSET Bit /\ ext_scan_params' \in 0 .. MaxCmds /\ ext_scan_params' # 0
    BY <1>3, <1>0, BodyType DEF SetFiltr, TypeOK, IoType
  <2>2. IoType'
    BY <1>3, <2>1 DEF SetFiltr, TypeOK, IoType
  <2>3. CfgType'
    BY <1>3, <2>1 DEF SetFiltr, TypeOK, CfgType
  <2>4. QED BY <1>3, <2>2, <2>3, Zenon DEF SetFiltr, rxVars, stackVars, TypeOK, HostType, StackType
<1>4. CASE SetParams
  <2>1. Ask("params", ext_scan_params) \in Request
    BY <1>4 DEF SetParams, TypeOK, CfgType, Ask, Request
  <2>2. requests' \in Seq(Request)
    BY <1>4, <2>1, AppendProperties DEF SetParams, TypeOK, StackType
  <2>3. IoType'
    BY <1>4 DEF SetParams, TypeOK, IoType
  <2>4. CfgType'
    BY <1>4 DEF SetParams, TypeOK, CfgType, cfgVars
  <2>5. QED BY <1>4, <2>2, <2>3, <2>4, Zenon DEF SetParams, rxVars, TypeOK, HostType, StackType
<1>5. CASE StoreMode \/ StoreMac \/ CountUp \/ ClearMacs
  <2>1. /\ pc \in {"mode", "mac", "count", "clear"} /\ pc' \in {"mac", "count", "resp"}
        /\ pc' = "count" => pc = "mac"
        /\ pc' = "mac" => pc = "mode" /\ mac_list.count < ListMax
        /\ UNCHANGED <<rxVars, read_buf, lastExec, wanted, filtr, ext_scan_params, stackVars, ring>>
    BY <1>5 DEF StoreMode, StoreMac, CountUp, ClearMacs
  <2>2. IoType'
    BY <2>1 DEF TypeOK, IoType
  <2>3. CfgType'
    <3>1. CASE StoreMode
      <4>1. mac_list' = [mode |-> read_buf.body.cmd, count |-> mac_list.count, mac |-> mac_list.mac]
        BY <3>1, ListExcept DEF StoreMode, TypeOK, IoType
      <4>2. read_buf.body.cmd \in ListCmd
        BY <3>1 DEF StoreMode, TypeOK, IoType
      <4>3. mac_list' \in [mode : ListCmd, count : 0 .. ListMax, mac : [1 .. ListMax -> Mac \cup {None}]]
        BY <4>1, <4>2 DEF TypeOK, CfgType
      <4>4. QED BY <2>1, <4>1, <4>3 DEF TypeOK, CfgType
    <3>2. CASE StoreMac
      <4>1. read_buf.body.arg \in Mac
        BY <1>0, <3>2, BodyType DEF StoreMac, TypeOK, IoType
      <4>2. mac_list' = [mac_list EXCEPT !.mac = [mac_list.mac EXCEPT ![mac_list.count + 1] = read_buf.body.arg]]
        BY <3>2 DEF StoreMac, TypeOK, CfgType
      <4>3. [mac_list.mac EXCEPT ![mac_list.count + 1] = read_buf.body.arg] \in [1 .. ListMax -> Mac \cup {None}]
        BY <4>1, ListFields DEF TypeOK
      <4>4. mac_list' = [mode |-> mac_list.mode, count |-> mac_list.count,
                         mac |-> [mac_list.mac EXCEPT ![mac_list.count + 1] = read_buf.body.arg]]
        BY <4>2 DEF TypeOK, CfgType
      <4>5. mac_list' \in [mode : ListCmd, count : 0 .. ListMax, mac : [1 .. ListMax -> Mac \cup {None}]]
        BY <4>3, <4>4 DEF TypeOK, CfgType
      <4>6. mac_list.count < ListMax /\ mac_list'.count = mac_list.count
        BY <3>2, <4>4 DEF StoreMac, TypeOK, CfgType
      <4>7. QED BY <2>1, <4>5, <4>6 DEF TypeOK, CfgType
    <3>3. CASE CountUp \/ ClearMacs
      <4>1. \E n \in 0 .. ListMax : mac_list' = [mac_list EXCEPT !.count = n]
        <5>1. CASE CountUp
          <6>1. mac_list' = [mac_list EXCEPT !.count = mac_list.count + 1] /\ mac_list.count < ListMax
            BY <5>1 DEF CountUp, TypeOK, CfgType
          <6>2. mac_list.count + 1 \in 0 .. ListMax
            BY <6>1, ListFields, Bounds DEF TypeOK
          <6>3. QED BY <6>1, <6>2
        <5>2. CASE ClearMacs
          BY <5>2, Bounds DEF ClearMacs
        <5>3. QED BY <3>3, <5>1, <5>2
      <4>2. PICK n \in 0 .. ListMax : mac_list' = [mode |-> mac_list.mode, count |-> n, mac |-> mac_list.mac]
        BY <4>1, ListExcept DEF TypeOK
      <4>3. mac_list' \in [mode : ListCmd, count : 0 .. ListMax, mac : [1 .. ListMax -> Mac \cup {None}]]
        BY <4>2 DEF TypeOK, CfgType
      <4>4. pc' = "resp"
        BY <3>3 DEF CountUp, ClearMacs
      <4>5. QED BY <2>1, <4>3, <4>4 DEF TypeOK, CfgType
    <3>4. QED BY <1>5, <3>1, <3>2, <3>3
  <2>4. QED BY <2>1, <2>2, <2>3, Zenon DEF rxVars, stackVars, TypeOK, HostType, StackType
<1>6. CASE send_resp
  <2>1. [kind |-> "resp", to |-> read_buf.seq] \in Frame
    BY <1>6, <1>0 DEF send_resp, Frame
  <2>2. ring' \in Seq(Frame)
    BY <1>6, <2>1, AppendProperties DEF send_resp, Write, TypeOK
  <2>3. IoType'
    BY <1>6 DEF send_resp, TypeOK, IoType
  <2>4. CfgType'
    BY <1>6 DEF send_resp, TypeOK, CfgType, cfgVars
  <2>5. QED BY <1>6, <2>2, <2>3, <2>4, Zenon DEF send_resp, rxVars, stackVars, TypeOK, HostType, StackType
<1>7. QED BY <1>1, <1>2, <1>3, <1>4, <1>5, <1>6 DEF io_task

(* Every step keeps the types. *)
LEMMA TypeStep ==
  ASSUME TypeOK, [Next]_vars
  PROVE  TypeOK'
<1>1. CASE esp_gap_cb \/ StackStep \/ HostSends \/ HostReads
  BY <1>1, TypeOthers DEF esp_gap_cb
<1>2. CASE io_task
  BY <1>2, TypeIo
<1>3. CASE UNCHANGED vars
  BY <1>3, Zenon DEF vars, rxVars, ioVars, cfgVars, stackVars, TypeOK, HostType, IoType, CfgType, StackType
<1>4. QED BY <1>1, <1>2, <1>3 DEF Next

-----------------------------------------------------------------------------
(* What is not a read, a response or the host's leaves the order alone. *)
LEMMA OrderFrame ==
  ASSUME TypeOK, Next, ~ReadBytes, ~HostSends
  PROVE  UNCHANGED <<rx, sent, rushed, lastExec, before>>
  BY DEF Next, esp_gap_cb, io_task, ParamsComplete, AdvReport, StopScan, SetFiltr, SetParams,
     StoreMode, StoreMac, CountUp, ClearMacs, send_resp, StackStep, HostReads, rxVars, ioVars

(* The pieces that a read leaves are those it found, further back. *)
LEMMA OrderRead ==
  ASSUME TypeOK, OrderInv, ReadBytes
  PROVE  OrderInv' /\ (pc' # "read" => lastExec' > lastExec)
<1>1. PICK k \in 1 .. Len(rx) :
         /\ rx' = SubSeq(rx, k + 1, Len(rx))
         /\ \/ UNCHANGED <<pc, read_buf, lastExec, before>>
            \/ /\ k = 2 /\ rx[1] \in Piece /\ rx[2] = [rx[1] EXCEPT !.no = 2]
               /\ rx[1].no = 1
               /\ rx[1].of.body.cmd # "OTHER"
               /\ read_buf' = rx[1].of /\ pc' = Branch(rx[1].of.body)
               /\ lastExec' = rx[1].of.seq /\ before' = List
  BY ReadEffect
<1>2. /\ rx \in Seq(Piece) /\ Len(rx) \in Nat /\ DOMAIN rx = 1 .. Len(rx)
      /\ sent' = sent /\ pc = "read" /\ sent \in Nat /\ lastExec \in Nat
  <2>1. rx \in Seq(Piece) /\ sent \in 0 .. MaxCmds /\ lastExec \in 0 .. MaxCmds
    BY DEF TypeOK, HostType, IoType
  <2>2. QED BY <2>1, LenProperties DEF ReadBytes
<1>3. \A i \in 1 .. Len(rx) : rx[i].of.seq \in Nat /\ rx[i].no \in {1, 2}
  <2>1. \A i \in 1 .. Len(rx) : rx[i] \in Piece
    BY <1>2, ElementOfSeq
  <2>2. \A i \in 1 .. Len(rx) : rx[i].of \in Command /\ rx[i].no \in {1, 2}
    BY <2>1 DEF Piece
  <2>3. QED BY <2>2, CommandFields
<1>4. /\ rx' \in Seq(Piece) /\ Len(rx') = Len(rx) - k
      /\ \A i \in 1 .. Len(rx) - k : rx'[i] = rx[k + i]
  BY <1>1, <1>2, Rest
<1>5. DOMAIN rx' = 1 .. Len(rx) - k
  BY <1>4, LenProperties
<1>6. \A i \in DOMAIN rx' : k + i \in DOMAIN rx /\ rx'[i] = rx[k + i]
  BY <1>2, <1>4, <1>5
<1>7. \A i, j \in DOMAIN rx' : i < j =>
       \/ rx'[i].of.seq < rx'[j].of.seq
       \/ rx'[i].of.seq = rx'[j].of.seq /\ rx'[i].no < rx'[j].no
  <2>1. SUFFICES ASSUME NEW i \in DOMAIN rx', NEW j \in DOMAIN rx', i < j
                 PROVE  \/ rx[k + i].of.seq < rx[k + j].of.seq
                        \/ rx[k + i].of.seq = rx[k + j].of.seq /\ rx[k + i].no < rx[k + j].no
    BY <1>6
  <2>2. k + i < k + j
    BY <1>2, <1>5, <2>1
  <2>3. QED BY <1>6, <2>2 DEF OrderInv
<1>8. \A i \in DOMAIN rx' : lastExec < rx'[i].of.seq /\ rx'[i].of.seq <= sent
  BY <1>6 DEF OrderInv
<1>9. CASE UNCHANGED <<pc, read_buf, lastExec, before>>
  BY <1>2, <1>7, <1>8, <1>9 DEF OrderInv
<1>10. CASE /\ k = 2 /\ rx[1] \in Piece /\ rx[2] = [rx[1] EXCEPT !.no = 2]
            /\ lastExec' = rx[1].of.seq
  <2>1. rx[2].of = rx[1].of /\ rx[2].no = 2 /\ 1 \in DOMAIN rx /\ 2 \in DOMAIN rx
    BY <1>1, <1>2, <1>10 DEF Piece
  <2>2. lastExec' > lastExec /\ lastExec' <= sent
    BY <1>2, <1>3, <1>10, <2>1 DEF OrderInv
  <2>3. ASSUME NEW i \in DOMAIN rx' PROVE lastExec' < rx'[i].of.seq
    <3>1. 2 < 2 + i /\ 2 + i \in DOMAIN rx /\ rx'[i] = rx[2 + i]
      BY <1>5, <1>6, <1>10
    <3>2. \/ rx[2].of.seq < rx[2 + i].of.seq
          \/ rx[2].of.seq = rx[2 + i].of.seq /\ rx[2].no < rx[2 + i].no
      BY <2>1, <3>1 DEF OrderInv
    <3>3. ~(rx[2].no < rx[2 + i].no)
      BY <1>2, <1>3, <2>1, <3>1
    <3>4. QED BY <1>10, <2>1, <3>1, <3>2, <3>3
  <2>4. QED BY <1>2, <1>7, <1>8, <2>2, <2>3 DEF OrderInv
<1>11. QED BY <1>1, <1>9, <1>10, <1>2

(* A new command is behind all others. *)
LEMMA OrderSend ==
  ASSUME TypeOK, OrderInv, HostSends
  PROVE  OrderInv'
<1>1. PICK b \in Body, n \in {1, 2} :
        rx' = rx \o [i \in 1 .. n |-> [of |-> [seq |-> sent', body |-> b], no |-> i]]
  BY DEF HostSends
<1> DEFINE new == [i \in 1 .. n |-> [of |-> [seq |-> sent', body |-> b], no |-> i]]
<1>2. /\ rx \in Seq(Piece) /\ Len(rx) \in Nat /\ DOMAIN rx = 1 .. Len(rx)
      /\ sent' = sent + 1 /\ lastExec' = lastExec /\ sent \in Nat /\ lastExec \in Nat
  <2>1. rx \in Seq(Piece) /\ sent \in 0 .. MaxCmds /\ lastExec \in 0 .. MaxCmds
    BY DEF TypeOK, HostType, IoType
  <2>2. QED BY <2>1, LenProperties DEF HostSends, ioVars
<1>3. \A i \in DOMAIN rx : rx[i].of.seq \in Nat /\ rx[i].no \in Nat
  <2>1. \A i \in 1 .. Len(rx) : rx[i] \in Piece
    BY <1>2, ElementOfSeq
  <2>2. \A i \in 1 .. Len(rx) : rx[i].of \in Command /\ rx[i].no \in {1, 2}
    BY <2>1 DEF Piece
  <2>3. QED BY <1>2, <2>2, CommandFields
<1>4. new \in Seq(Piece) /\ Len(new) = n
  <2>1. sent' \in 1 .. MaxCmds
    BY Bounds DEF HostSends, TypeOK, HostType
  <2>2. \A i \in 1 .. n : [of |-> [seq |-> sent', body |-> b], no |-> i] \in Piece
    BY <2>1 DEF Piece, Command
  <2>3. n \in Nat
    OBVIOUS
  <2>4. QED BY <2>2, <2>3, IsASeq
<1>5. \A i \in 1 .. n : new[i].of.seq = sent + 1 /\ new[i].no = i
  BY <1>2
<1> HIDE DEF new
<1>6. /\ Len(rx') = Len(rx) + n /\ rx' \in Seq(Piece)
      /\ \A i \in 1 .. Len(rx) + n : rx'[i] = IF i <= Len(rx) THEN rx[i] ELSE new[i - Len(rx)]
  BY <1>1, <1>2, <1>4, ConcatProperties DEF new
<1>7. DOMAIN rx' = 1 .. Len(rx) + n
  BY <1>6, LenProperties
<1>8. \A i \in DOMAIN rx' :
        \/ i \in DOMAIN rx /\ rx'[i] = rx[i]
        \/ i > Len(rx) /\ rx'[i].of.seq = sent + 1 /\ rx'[i].no = i - Len(rx)
  <2>1. SUFFICES ASSUME NEW i \in DOMAIN rx'
                 PROVE  \/ i \in DOMAIN rx /\ rx'[i] = rx[i]
                        \/ i > Len(rx) /\ rx'[i].of.seq = sent + 1 /\ rx'[i].no = i - Len(rx)
    OBVIOUS
  <2>2. i \in 1 .. Len(rx) + n /\ i \in Nat
    BY <1>2, <1>7
  <2>3. CASE i <= Len(rx)
    BY <1>2, <1>6, <2>2, <2>3
  <2>4. CASE i > Len(rx)
    <3>1. i - Len(rx) \in 1 .. n
      BY <1>2, <2>2, <2>4
    <3>2. rx'[i] = new[i - Len(rx)]
      BY <1>2, <1>6, <2>2, <2>4
    <3>3. QED BY <1>5, <2>4, <3>1, <3>2
  <2>5. QED BY <1>2, <2>2, <2>3, <2>4
<1>9. ASSUME NEW i \in DOMAIN rx' PROVE lastExec' < rx'[i].of.seq /\ rx'[i].of.seq <= sent'
  BY <1>2, <1>3, <1>8, <1>9 DEF OrderInv
<1>10. ASSUME NEW i \in DOMAIN rx', NEW j \in DOMAIN rx', i < j
       PROVE  \/ rx'[i].of.seq < rx'[j].of.seq
              \/ rx'[i].of.seq = rx'[j].of.seq /\ rx'[i].no < rx'[j].no
  <2>1. i \in Nat /\ j \in Nat
    BY <1>7
  <2>2. CASE j \in DOMAIN rx /\ rx'[j] = rx[j]
    <3>1. i \in DOMAIN rx /\ rx'[i] = rx[i]
      BY <1>2, <1>8, <1>10, <2>1, <2>2
    <3>2. QED BY <1>10, <2>2, <3>1 DEF OrderInv
  <2>3. CASE j > Len(rx) /\ rx'[j].of.seq = sent + 1 /\ rx'[j].no = j - Len(rx)
    <3>1. CASE i \in DOMAIN rx /\ rx'[i] = rx[i]
      <4>1. rx[i].of.seq <= sent /\ rx[i].of.seq \in Nat
        BY <1>3, <3>1 DEF OrderInv
      <4>2. QED BY <1>2, <2>3, <3>1, <4>1
    <3>2. CASE i > Len(rx) /\ rx'[i].of.seq = sent + 1 /\ rx'[i].no = i - Len(rx)
      BY <1>2, <1>10, <2>1, <2>3, <3>2
    <3>3. QED BY <1>8, <3>1, <3>2
  <2>4. QED BY <1>8, <2>2, <2>3
<1>11. lastExec' <= sent'
  BY <1>2 DEF OrderInv
<1>12. QED BY <1>9, <1>10, <1>11 DEF OrderInv

(* The order is kept. *)
LEMMA OrderStep ==
  ASSUME TypeOK, OrderInv, [Next]_vars
  PROVE  OrderInv'
<1>1. CASE ReadBytes
  BY <1>1, OrderRead
<1>2. CASE HostSends
  BY <1>2, OrderSend
<1>3. CASE UNCHANGED <<rx, sent, lastExec>>
  BY <1>3 DEF OrderInv
<1>4. UNCHANGED vars => UNCHANGED <<rx, sent, lastExec>>
  BY DEF vars, rxVars, ioVars
<1>5. QED BY <1>1, <1>2, <1>3, <1>4, OrderFrame

-----------------------------------------------------------------------------
Entry == Mac \cup {None}

(* The first n entries of an array of addresses are a sequence. *)
LEMMA Entries ==
  ASSUME NEW a \in [1 .. ListMax -> Entry], NEW n \in 0 .. ListMax
  PROVE  /\ SubSeq(a, 1, n) \in Seq(Entry) /\ Len(SubSeq(a, 1, n)) = n
         /\ \A i \in 1 .. n : SubSeq(a, 1, n)[i] = a[i]
<1>1. 1 \in Int /\ n \in Int /\ \A i \in 1 .. n : a[i] \in Entry
  BY Bounds
<1>2. /\ SubSeq(a, 1, n) \in Seq(Entry)
      /\ Len(SubSeq(a, 1, n)) = IF 1 <= n THEN n - 1 + 1 ELSE 0
      /\ \A i \in 1 .. n - 1 + 1 : SubSeq(a, 1, n)[i] = a[1 + i - 1]
  BY <1>1, SubSeqProperties
<1>3. n >= 0
  BY Bounds
<1>4. QED BY <1>1, <1>2, <1>3

(* An entry behind them does not matter ... *)
LEMMA EntriesSame ==
  ASSUME NEW a \in [1 .. ListMax -> Entry], NEW n \in 0 .. ListMax, NEW e \in Entry
  PROVE  SubSeq([a EXCEPT ![n + 1] = e], 1, n) = SubSeq(a, 1, n)
<1> DEFINE b == [a EXCEPT ![n + 1] = e]
<1>1. b \in [1 .. ListMax -> Entry] /\ \A i \in 1 .. n : b[i] = a[i]
  <2>1. b \in [1 .. ListMax -> Entry]
    OBVIOUS
  <2>2. ASSUME NEW i \in 1 .. n PROVE b[i] = a[i]
    <3>1. i # n + 1 /\ i \in 1 .. ListMax
      BY Bounds
    <3>2. QED BY <3>1
  <2>3. QED BY <2>1, <2>2
<1> HIDE DEF b
<1>2. \A i \in 1 .. n : SubSeq(b, 1, n)[i] = SubSeq(a, 1, n)[i]
  BY <1>1, Entries
<1>3. SubSeq(b, 1, n) = SubSeq(a, 1, n)
  BY <1>1, <1>2, Entries, SeqEqual
<1>4. QED BY <1>3 DEF b

(* ... until it is counted. *)
LEMMA EntriesMore ==
  ASSUME NEW a \in [1 .. ListMax -> Entry], NEW n \in 0 .. ListMax, n < ListMax
  PROVE  SubSeq(a, 1, n + 1) = Append(SubSeq(a, 1, n), a[n + 1])
<1>1. n + 1 \in 0 .. ListMax /\ n + 1 \in 1 .. ListMax /\ n \in Nat /\ a[n + 1] \in Entry
  BY Bounds
<1> DEFINE s == SubSeq(a, 1, n + 1)
           t == SubSeq(a, 1, n)
           u == Append(t, a[n + 1])
<1>2. s \in Seq(Entry) /\ Len(s) = n + 1 /\ \A i \in 1 .. n + 1 : s[i] = a[i]
  BY <1>1, Entries
<1>3. t \in Seq(Entry) /\ Len(t) = n /\ \A i \in 1 .. n : t[i] = a[i]
  BY <1>1, Entries
<1> HIDE DEF s, t
<1>4. u \in Seq(Entry) /\ Len(u) = n + 1 /\ u[n + 1] = a[n + 1] /\ \A i \in 1 .. n : u[i] = t[i]
  BY <1>1, <1>3, AppendProperties
<1> HIDE DEF u
<1>5. \A i \in 1 .. n + 1 : s[i] = u[i]
  BY <1>1, <1>2, <1>3, <1>4
<1>6. s = u
  BY <1>2, <1>4, <1>5, SeqEqual
<1>7. QED BY <1>6 DEF s, t, u

(* List is as long as count says. *)
LEMMA ListLength ==
  ASSUME CfgType
  PROVE  List.mac = SubSeq(mac_list.mac, 1, mac_list.count) /\ Len(List.mac) = mac_list.count
         /\ mac_list.mac \in [1 .. ListMax -> Entry] /\ mac_list.count \in 0 .. ListMax
         /\ List.mode = mac_list.mode
<1>1. mac_list.mac \in [1 .. ListMax -> Entry] /\ mac_list.count \in 0 .. ListMax
  BY DEF CfgType, Entry
<1>2. QED BY <1>1, Entries DEF List

(* The list statements take the list from the one before to the one after. *)
LEMMA BeforeList ==
  ASSUME TypeOK, BeforeInv, StoreMode \/ StoreMac \/ CountUp \/ ClearMacs
  PROVE  BeforeInv'
<1>1. /\ List.mac = SubSeq(mac_list.mac, 1, mac_list.count) /\ Len(List.mac) = mac_list.count
      /\ mac_list.mac \in [1 .. ListMax -> Entry] /\ mac_list.count \in 0 .. ListMax
      /\ List.mode = mac_list.mode
  BY ListLength DEF TypeOK
<1>2. CASE StoreMode
  <2>1. /\ pc = "mode" /\ before' = before /\ read_buf' = read_buf /\ before = List
        /\ pc' = IF mac_list.count < ListMax THEN "mac" ELSE "resp"
        /\ read_buf.body.cmd \in ListCmd
    BY <1>2 DEF StoreMode, BeforeInv, TypeOK, IoType
  <2>2. mac_list' = [mode |-> read_buf.body.cmd, count |-> mac_list.count, mac |-> mac_list.mac]
    BY <1>2, <2>1, ListExcept DEF StoreMode, TypeOK
  <2>3. List' = [mode |-> read_buf.body.cmd, mac |-> before.mac]
    BY <1>1, <2>1, <2>2 DEF List
  <2>4. pc' = "resp" => WithMac(before, read_buf.body.cmd, read_buf.body.arg) = List'
    BY <1>1, <2>1, <2>3 DEF WithMac
  <2>5. QED BY <2>1, <2>3, <2>4 DEF BeforeInv
<1>3. CASE StoreMac
  <2>1. /\ pc = "mac" /\ pc' = "count" /\ before' = before /\ read_buf' = read_buf
        /\ before.mac = List.mac /\ List.mode = read_buf.body.cmd
        /\ mac_list.count < ListMax /\ read_buf.body.arg \in Entry
    <3>1. read_buf.body.arg \in Mac
      BY <1>3, CommandFields, BodyType DEF StoreMac, TypeOK, IoType
    <3>2. QED BY <1>3, <3>1 DEF StoreMac, BeforeInv, TypeOK, CfgType, Entry
  <2> DEFINE a == [mac_list.mac EXCEPT ![mac_list.count + 1] = read_buf.body.arg]
  <2>2. mac_list' = [mode |-> mac_list.mode, count |-> mac_list.count, mac |-> a]
    BY <1>3 DEF StoreMac, TypeOK, CfgType
  <2>3. a[mac_list.count + 1] = read_buf.body.arg
    BY <1>1, <2>1, Bounds
  <2>4. SubSeq(a, 1, mac_list.count) = List.mac
    BY <1>1, <2>1, EntriesSame
  <2> HIDE DEF a
  <2>5. List' = [mode |-> mac_list.mode, mac |-> List.mac]
    BY <2>2, <2>4 DEF List
  <2>6. List'.mac = List.mac /\ List'.mode = List.mode
    BY <1>1, <2>5
  <2>7. mac_list'.mac[mac_list'.count + 1] = read_buf.body.arg
    BY <2>2, <2>3
  <2>8. QED BY <2>1, <2>6, <2>7 DEF BeforeInv
<1>4. CASE CountUp
  <2>1. /\ pc = "count" /\ pc' = "resp" /\ before' = before /\ read_buf' = read_buf
        /\ before.mac = List.mac /\ List.mode = read_buf.body.cmd
        /\ mac_list.count < ListMax /\ mac_list.mac[mac_list.count + 1] = read_buf.body.arg
    BY <1>4 DEF CountUp, BeforeInv, TypeOK, CfgType
  <2>2. mac_list' = [mode |-> mac_list.mode, count |-> mac_list.count + 1, mac |-> mac_list.mac]
    <3>1. mac_list' = [mac_list EXCEPT !.count = mac_list.count + 1]
      BY <1>4 DEF CountUp, TypeOK, CfgType
    <3>2. mac_list.count + 1 \in 0 .. ListMax
      BY <1>1, <2>1, Bounds
    <3>3. QED BY <3>1, <3>2, ListExcept DEF TypeOK
  <2>3. List' = [mode |-> mac_list.mode, mac |-> Append(List.mac, read_buf.body.arg)]
    BY <1>1, <2>1, <2>2, EntriesMore DEF List
  <2>4. WithMac(before, read_buf.body.cmd, read_buf.body.arg) = List'
    BY <1>1, <2>1, <2>3 DEF WithMac
  <2>5. QED BY <2>1, <2>4 DEF BeforeInv
<1>5. CASE ClearMacs
  BY <1>5 DEF ClearMacs, BeforeInv, TypeOK, IoType, ListCmd
<1>6. QED BY <1>2, <1>3, <1>4, <1>5

(* A read remembers the list; no other step changes it. *)
LEMMA BeforeStep ==
  ASSUME TypeOK, BeforeInv, [Next]_vars
  PROVE  BeforeInv'
<1>1. CASE StoreMode \/ StoreMac \/ CountUp \/ ClearMacs
  BY <1>1, BeforeList
<1>2. CASE ReadBytes
  <2>1. PICK k \in 1 .. Len(rx) :
           \/ UNCHANGED <<pc, read_buf, lastExec, before>>
           \/ /\ k = 2 /\ rx[1] \in Piece
              /\ rx[1].of.body.cmd # "OTHER"
              /\ read_buf' = rx[1].of /\ pc' = Branch(rx[1].of.body)
              /\ before' = List
    BY <1>2, ReadEffect
  <2>2. List' = List /\ pc = "read"
    BY <1>2 DEF ReadBytes, cfgVars, List
  <2>3. CASE UNCHANGED <<pc, read_buf, lastExec, before>>
    BY <2>2, <2>3 DEF BeforeInv
  <2>4. CASE /\ rx[1] \in Piece /\ rx[1].of.body.cmd # "OTHER"
             /\ read_buf' = rx[1].of /\ pc' = Branch(rx[1].of.body)
             /\ before' = List
    <3>1. rx[1].of.body \in Body
      BY <2>4, CommandFields DEF Piece
    <3>2. pc' \in {"stop", "mode", "clear", "resp"} /\ (read_buf'.body.cmd \in ListCmd => pc' = "mode")
      BY <2>4, <3>1, BranchType
    <3>3. QED BY <2>2, <2>4, <3>2 DEF BeforeInv
  <2>5. QED BY <2>1, <2>3, <2>4
<1>3. CASE StopScan \/ SetFiltr \/ SetParams
  <2>1. pc' \in {"filtr", "params", "resp"} /\ read_buf'.body.cmd = "SCAN"
    BY <1>3 DEF StopScan, SetFiltr, SetParams, TypeOK, IoType
  <2>2. QED BY <2>1 DEF BeforeInv, ListCmd
<1>4. CASE send_resp
  <2>1. pc' = "read"
    BY <1>4 DEF send_resp
  <2>2. QED BY <2>1 DEF BeforeInv
<1>5. CASE UNCHANGED <<pc, read_buf, before, mac_list>>
  BY <1>5 DEF BeforeInv, List
<1>6. \/ StoreMode \/ StoreMac \/ CountUp \/ ClearMacs \/ ReadBytes
      \/ StopScan \/ SetFiltr \/ SetParams \/ send_resp
      \/ UNCHANGED <<pc, read_buf, before, mac_list>>
  BY DEF Next, esp_gap_cb, io_task, ParamsComplete, AdvReport, StackStep, HostReads, HostSends,
     ioVars, cfgVars, vars
<1>7. QED BY <1>1, <1>2, <1>3, <1>4, <1>5, <1>6

-----------------------------------------------------------------------------
(* A frame enters the transmit buffer at its end. *)
LEMMA RingWrite ==
  ASSUME ring \in Seq(Frame), NEW f \in Frame, NEW n, Write(f, n)
  PROVE  /\ \A i \in DOMAIN ring' :
              \/ i \in DOMAIN ring /\ ring'[i] = ring[i]
              \/ ring'[i] = f /\ \A j \in DOMAIN ring' : j <= i
         /\ DOMAIN ring' = 1 .. Len(ring') /\ Len(ring') \in Nat
<1>1. DOMAIN ring = 1 .. Len(ring) /\ Len(ring) \in Nat
  BY LenProperties
<1>2. CASE ring' = ring
  BY <1>1, <1>2
<1>3. CASE ring' = Append(ring, f)
  <2>1. /\ ring' \in Seq(Frame) /\ Len(ring') = Len(ring) + 1
        /\ \A i \in 1 .. Len(ring) : ring'[i] = ring[i]
        /\ ring'[Len(ring) + 1] = f
    BY <1>3, AppendProperties
  <2>2. DOMAIN ring' = 1 .. Len(ring) + 1
    BY <2>1, LenProperties
  <2>3. ASSUME NEW i \in DOMAIN ring'
        PROVE  \/ i \in DOMAIN ring /\ ring'[i] = ring[i]
               \/ ring'[i] = f /\ \A j \in DOMAIN ring' : j <= i
    <3>1. CASE i \in 1 .. Len(ring)
      BY <1>1, <2>1, <3>1
    <3>2. CASE i = Len(ring) + 1
      BY <1>1, <2>1, <2>2, <3>2
    <3>3. QED BY <1>1, <2>2, <2>3, <3>1, <3>2
  <2>4. QED BY <1>1, <2>1, <2>2, <2>3
<1>4. QED BY <1>2, <1>3 DEF Write

(* MarkInv when neither a command nor the list changes. *)
LEMMA MarkSame ==
  ASSUME MarkInv, UNCHANGED <<pc, read_buf, lastExec, ring>>, UNCHANGED <<mac_list, filtr>> \/ pc # "read"
  PROVE  MarkInv'
<1>1. pc # "read" => ResponseIsMark'
  BY DEF ResponseIsMark
<1>2. UNCHANGED <<mac_list, filtr>> => List' = List /\ filtr' = filtr
  BY DEF List
<1>3. ResponseIsMark'
  BY <1>1, <1>2 DEF MarkInv, ResponseIsMark
<1>4. QED BY <1>3 DEF MarkInv

(* An advertisement is written behind an answer only as list and filter    *)
(* are when the answer has been written. *)
LEMMA MarkAdv ==
  ASSUME TypeOK, MarkInv, NEW m \in Mac, NEW atype \in SUBSET Bit, AdvReport(m, atype)
  PROVE  MarkInv'
<1> DEFINE f == [kind |-> "adv", mac |-> m, atype |-> atype]
<1>1. UNCHANGED <<pc, read_buf, lastExec, mac_list, filtr>> /\ List' = List
  BY DEF AdvReport, ioVars, cfgVars, List
<1>2. CASE ring' = ring
  BY <1>1, <1>2, MarkSame
<1>3. CASE Write(f, AdvLen) /\ chk_mac(List, m) /\ atype \cap filtr = {}
  <2>1. f \in Frame /\ f.kind = "adv" /\ f.mac = m /\ f.atype = atype
    BY DEF Frame
  <2> HIDE DEF f
  <2>2. /\ \A i \in DOMAIN ring' :
              \/ i \in DOMAIN ring /\ ring'[i] = ring[i]
              \/ ring'[i] = f /\ \A j \in DOMAIN ring' : j <= i
        /\ DOMAIN ring' \subseteq Nat
    BY <1>3, <2>1, RingWrite DEF TypeOK
  <2>3. \A i \in DOMAIN ring' : ring'[i].kind = "resp" =>
          ring'[i].to <= lastExec /\ (pc # "read" => ring'[i].to < lastExec)
    BY <2>1, <2>2 DEF MarkInv
  <2>4. ASSUME pc = "read", NEW i \in DOMAIN ring', NEW j \in DOMAIN ring', i < j,
               ring'[i] = [kind |-> "resp", to |-> lastExec], IsAdv(ring'[j])
        PROVE  chk_mac(List, ring'[j].mac) /\ ring'[j].atype \cap filtr = {}
    <3>1. i \in DOMAIN ring /\ ring'[i] = ring[i]
      <4>1. ring'[i] # f
        BY <2>1, <2>4
      <4>2. QED BY <2>2, <2>4, <4>1
    <3>2. CASE j \in DOMAIN ring /\ ring'[j] = ring[j]
      BY <2>4, <3>1, <3>2 DEF MarkInv, ResponseIsMark
    <3>3. CASE ring'[j] = f
      BY <1>3, <2>1, <3>3
    <3>4. QED BY <2>2, <3>2, <3>3
  <2>5. ResponseIsMark'
    BY <1>1, <2>4 DEF ResponseIsMark
  <2>6. QED BY <1>1, <2>3, <2>5 DEF MarkInv
<1>4. QED BY <1>2, <1>3 DEF AdvReport

(* An answer is written behind everything else. *)
LEMMA MarkAnswer ==
  ASSUME TypeOK, MarkInv, send_resp
  PROVE  MarkInv'
<1> DEFINE f == [kind |-> "resp", to |-> lastExec]
<1>1. /\ pc = "resp" /\ pc' = "read" /\ lastExec' = lastExec /\ read_buf.seq = lastExec
      /\ Write(f, 1) /\ List' = List /\ filtr' = filtr
  BY DEF send_resp, MarkInv, cfgVars, List
<1>2. f \in Frame /\ f.kind = "resp" /\ f.to = lastExec /\ lastExec \in Nat
  BY <1>1, CommandFields DEF Frame, TypeOK, IoType
<1> HIDE DEF f
<1>3. /\ \A i \in DOMAIN ring' :
            \/ i \in DOMAIN ring /\ ring'[i] = ring[i]
            \/ ring'[i] = f /\ \A j \in DOMAIN ring' : j <= i
      /\ DOMAIN ring' \subseteq Nat
  BY <1>1, <1>2, RingWrite DEF TypeOK
<1>4. ASSUME NEW i \in DOMAIN ring', ring'[i].kind = "resp"
      PROVE  ring'[i].to <= lastExec
  <2>1. CASE i \in DOMAIN ring /\ ring'[i] = ring[i]
    BY <1>4, <2>1 DEF MarkInv
  <2>2. CASE ring'[i] = f
    BY <1>2, <2>2
  <2>3. QED BY <1>3, <2>1, <2>2
<1>5. ASSUME NEW i \in DOMAIN ring', NEW j \in DOMAIN ring', i < j,
             ring'[i] = [kind |-> "resp", to |-> lastExec]
      PROVE  FALSE
  <2>1. ring'[i].kind = "resp" /\ ring'[i].to = lastExec
    BY <1>5
  <2>2. CASE i \in DOMAIN ring /\ ring'[i] = ring[i]
    <3>1. ring[i].to < lastExec
      BY <1>1, <2>1, <2>2 DEF MarkInv
    <3>2. QED BY <1>2, <2>1, <2>2, <3>1
  <2>3. CASE j <= i
    BY <1>3, <1>5, <2>3
  <2>4. QED BY <1>3, <2>2, <2>3
<1>6. ResponseIsMark'
  BY <1>1, <1>5 DEF ResponseIsMark
<1>7. QED BY <1>1, <1>4, <1>6 DEF MarkInv

(* The host takes a frame. *)
LEMMA MarkTaken ==
  ASSUME TypeOK, MarkInv, HostReads
  PROVE  MarkInv'
<1>1. /\ ring' = Tail(ring) /\ ring # << >> /\ ring \in Seq(Frame)
      /\ UNCHANGED <<pc, read_buf, lastExec, filtr>> /\ List' = List
  BY DEF HostReads, ioVars, cfgVars, TypeOK, List
<1>2. /\ ring' \in Seq(Frame) /\ Len(ring') = Len(ring) - 1 /\ Len(ring) \in Nat
      /\ \A i \in 1 .. Len(ring') : ring'[i] = ring[i + 1]
  BY <1>1, HeadTailProperties, LenProperties
<1>3. DOMAIN ring = 1 .. Len(ring) /\ DOMAIN ring' = 1 .. Len(ring')
  BY <1>1, <1>2, LenProperties
<1>4. \A i \in DOMAIN ring' : i \in Nat /\ i + 1 \in DOMAIN ring /\ ring'[i] = ring[i + 1]
  BY <1>2, <1>3
<1>5. ASSUME pc = "read", NEW i \in DOMAIN ring', NEW j \in DOMAIN ring', i < j,
             ring'[i] = [kind |-> "resp", to |-> lastExec], IsAdv(ring'[j])
      PROVE  chk_mac(List, ring'[j].mac) /\ ring'[j].atype \cap filtr = {}
  <2>1. i + 1 < j + 1
    BY <1>4, <1>5
  <2>2. QED BY <1>4, <1>5, <2>1 DEF MarkInv, ResponseIsMark
<1>6. ResponseIsMark'
  BY <1>1, <1>5 DEF ResponseIsMark
<1>7. \A i \in DOMAIN ring' : ring'[i].kind = "resp" =>
          ring'[i].to <= lastExec /\ (pc # "read" => ring'[i].to < lastExec)
  BY <1>4 DEF MarkInv
<1>8. QED BY <1>1, <1>6, <1>7 DEF MarkInv

(* MarkInv is kept. *)
LEMMA MarkStep ==
  ASSUME TypeOK, OrderInv, MarkInv, [Next]_vars
  PROVE  MarkInv'
<1>1. ASSUME NEW m \in Mac, NEW atype \in SUBSET Bit, AdvReport(m, atype)
      PROVE  MarkInv'
  BY <1>1, MarkAdv
<1>2. CASE send_resp
  BY <1>2, MarkAnswer
<1>3. CASE HostReads
  BY <1>3, MarkTaken
<1>4. CASE ReadBytes
  <2>1. PICK k \in 1 .. Len(rx) :
           \/ UNCHANGED <<pc, read_buf, lastExec, before>>
           \/ /\ rx[1] \in Piece /\ rx[1].of.body.cmd # "OTHER"
              /\ read_buf' = rx[1].of /\ pc' = Branch(rx[1].of.body)
              /\ lastExec' = rx[1].of.seq
    BY <1>4, ReadEffect
  <2>2. UNCHANGED <<ring, mac_list, filtr>> /\ pc = "read"
    BY <1>4 DEF ReadBytes, cfgVars
  <2>3. CASE UNCHANGED <<pc, read_buf, lastExec, before>>
    BY <2>2, <2>3, MarkSame
  <2>4. CASE /\ rx[1] \in Piece /\ rx[1].of.body.cmd # "OTHER"
             /\ read_buf' = rx[1].of /\ pc' = Branch(rx[1].of.body)
             /\ lastExec' = rx[1].of.seq
    <3>1. rx[1].of.body \in Body /\ lastExec' \in Nat
      BY <2>4, CommandFields DEF Piece
    <3>2. pc' \in {"stop", "mode", "clear", "resp"}
      BY <2>4, <3>1, BranchType
    <3>3. pc' # "read" /\ read_buf'.seq = lastExec'
      BY <2>4, <3>2
    <3>4. lastExec' > lastExec
      BY <1>4, <3>3, OrderRead
    <3>5. ASSUME NEW i \in DOMAIN ring, ring[i].kind = "resp"
          PROVE  ring[i].to <= lastExec' /\ ring[i].to < lastExec'
      <4>1. ring[i].to <= lastExec
        BY <3>5 DEF MarkInv
      <4>2. ring[i] \in Frame
        BY ElementOfSeq, LenProperties DEF TypeOK
      <4>3. ring[i].to \in Nat
        BY <3>5, <4>2 DEF Frame
      <4>4. lastExec \in Nat
        BY DEF TypeOK, IoType
      <4>5. QED BY <3>1, <3>4, <4>1, <4>3, <4>4
    <3>6. ResponseIsMark'
      BY <3>3 DEF ResponseIsMark
    <3>7. QED BY <2>2, <3>3, <3>5, <3>6 DEF MarkInv
  <2>5. QED BY <2>1, <2>3, <2>4
<1>5. CASE StopScan \/ SetFiltr \/ SetParams \/ StoreMode \/ StoreMac \/ CountUp \/ ClearMacs
  <2>1. pc # "read" /\ pc' # "read" /\ UNCHANGED <<read_buf, lastExec, ring>>
    BY <1>5 DEF StopScan, SetFiltr, SetParams, StoreMode, StoreMac, CountUp, ClearMacs
  <2>2. ResponseIsMark'
    BY <2>1 DEF ResponseIsMark
  <2>3. QED BY <2>1, <2>2 DEF MarkInv
<1>6. CASE UNCHANGED <<pc, read_buf, lastExec, ring, mac_list, filtr>>
  BY <1>6, MarkSame
<1>7. \/ \E m \in Mac, atype \in SUBSET Bit : AdvReport(m, atype)
      \/ send_resp \/ HostReads \/ ReadBytes
      \/ StopScan \/ SetFiltr \/ SetParams \/ StoreMode \/ StoreMac \/ CountUp \/ ClearMacs
      \/ UNCHANGED <<pc, read_buf, lastExec, ring, mac_list, filtr>>
  BY DEF Next, esp_gap_cb, io_task, ParamsComplete, StackStep, HostSends, ioVars, cfgVars, vars
<1>8. QED BY <1>1, <1>2, <1>3, <1>4, <1>5, <1>6, <1>7

-----------------------------------------------------------------------------
(* Requests come and go one by one. *)
LEMMA Few ==
  ASSUME NEW x, NEW y
  PROVE  /\ Append(<< >>, x) = <<x>> /\ <<x>> # << >> /\ Head(<<x>>) = x /\ Tail(<<x>>) = << >>
         /\ Append(<<x>>, y) = <<x, y>> /\ <<x, y>> # << >>
         /\ Head(<<x, y>>) = x /\ Tail(<<x, y>>) = <<y>>
<1>1. <<x>> # << >> /\ <<x, y>> # << >> /\ Append(<< >>, x) = <<x>>
  <2>1. Len(<<x>>) = 1 /\ Len(<<x, y>>) = 2 /\ Len(<< >>) = 0
    OBVIOUS
  <2>2. QED BY <2>1
<1>2. << >> \in Seq({x, y}) /\ <<x>> \in Seq({x, y}) /\ <<x, y>> \in Seq({x, y}) /\ <<y>> \in Seq({x, y})
  OBVIOUS
<1>3. Append(<<x>>, y) = <<x, y>>
  <2>1. /\ Append(<<x>>, y) \in Seq({x, y}) /\ Len(Append(<<x>>, y)) = Len(<<x>>) + 1
        /\ \A i \in 1 .. Len(<<x>>) : Append(<<x>>, y)[i] = <<x>>[i]
        /\ Append(<<x>>, y)[Len(<<x>>) + 1] = y
    BY <1>2, AppendProperties
  <2>2. Len(<<x>>) = 1 /\ <<x>>[1] = x /\ Len(<<x, y>>) = 2 /\ <<x, y>>[1] = x /\ <<x, y>>[2] = y
    OBVIOUS
  <2>3. \A i \in 1 .. Len(Append(<<x>>, y)) : Append(<<x>>, y)[i] = <<x, y>>[i]
    BY <2>1, <2>2
  <2> DEFINE s == Append(<<x>>, y)
             t == <<x, y>>
  <2>4. s \in Seq({x, y}) /\ t \in Seq({x, y}) /\ Len(s) = Len(t) /\ \A i \in 1 .. Len(s) : s[i] = t[i]
    BY <1>2, <2>1, <2>2, <2>3
  <2> HIDE DEF s, t
  <2>5. s = t
    BY <2>4, SeqEqual
  <2>6. QED BY <2>5 DEF s, t
<1>4. /\ Head(Append(<< >>, x)) = x /\ Tail(Append(<< >>, x)) = << >>
      /\ Head(Append(<< >>, y)) = y /\ Tail(Append(<< >>, y)) = << >>
  BY <1>2, HeadTailAppend
<1>5. Head(Append(<<x>>, y)) = Head(<<x>>) /\ Tail(Append(<<x>>, y)) = Append(Tail(<<x>>), y)
  BY <1>1, <1>2, HeadTailAppend
<1>6. Append(<< >>, y) = <<y>>
  OBVIOUS
<1>7. QED BY <1>1, <1>3, <1>4, <1>5, <1>6

(* The stack carries out one request of a stop ... *)
LEMMA StopCarriedOut ==
  ASSUME TypeOK, Stopping, StackStep
  PROVE  requests' = << >> /\ ~scanning' /\ paramsSet' = 0 /\ ext_scan_params' = ext_scan_params
<1>1. requests = <<Ask("stop", 0)>>
  BY DEF Stopping, StackStep
<1>2. Head(requests) = Ask("stop", 0) /\ requests' = << >>
  BY <1>1, Few DEF StackStep
<1>3. Head(requests).op = "stop"
  BY <1>2 DEF Ask
<1>4. QED BY <1>2, <1>3 DEF StackStep, Stopping, cfgVars

(* ... or of a start. *)
LEMMA StartCarriedOut ==
  ASSUME TypeOK, Starting, StackStep
  PROVE  Starting'
<1>1. ext_scan_params' = ext_scan_params
  BY DEF StackStep, cfgVars
<1>2. CASE requests = <<Ask("stop", 0), Ask("params", ext_scan_params)>> /\ paramsSet = 0
  <2>1. Head(requests) = Ask("stop", 0) /\ requests' = <<Ask("params", ext_scan_params)>>
    BY <1>2, Few DEF StackStep
  <2>2. Head(requests).op = "stop"
    BY <2>1 DEF Ask
  <2>3. QED BY <1>1, <1>2, <2>1, <2>2 DEF StackStep, Starting
<1>3. CASE requests = <<Ask("params", ext_scan_params)>> /\ paramsSet = 0 /\ ~scanning
  <2>1. Head(requests) = Ask("params", ext_scan_params) /\ requests' = << >>
    BY <1>3, Few DEF StackStep
  <2>2. Head(requests).op = "params" /\ Head(requests).params = ext_scan_params
    BY <2>1 DEF Ask
  <2>3. inForce' = ext_scan_params /\ paramsSet' = 1 /\ ~scanning'
    BY <1>3, <2>2 DEF StackStep
  <2>4. QED BY <1>1, <2>1, <2>3 DEF Starting
<1>4. CASE requests = <<Ask("start", 0)>> /\ paramsSet = 0 /\ ~scanning /\ inForce = ext_scan_params
  <2>1. Head(requests) = Ask("start", 0) /\ requests' = << >>
    BY <1>4, Few DEF StackStep
  <2>2. Head(requests).op = "start"
    BY <2>1 DEF Ask
  <2>3. inForce' = ext_scan_params /\ paramsSet' = 0 /\ scanning'
    BY <1>4, <2>2 DEF StackStep
  <2>4. QED BY <1>1, <2>1, <2>3 DEF Starting
<1>5. requests # << >>
  BY DEF StackStep
<1>6. QED BY <1>2, <1>3, <1>4, <1>5 DEF Starting

(* When the stack has nothing more to do it has done what was wanted. *)
LEMMA DoneIsSettled ==
  ASSUME TypeOK, Decided, Fresh
  PROVE  Settled
<1>1. CASE ~wanted /\ Stopping
  BY <1>1, Few DEF Fresh, Stopping, Settled, TypeOK, StackType, IoType
<1>2. CASE wanted /\ Starting
  BY <1>2, Few DEF Fresh, Starting, Settled, TypeOK, StackType, IoType
<1>3. QED BY <1>1, <1>2 DEF Decided

(* What the stack and esp_gap_cb do keeps ScanInv ... *)
LEMMA ScanStack ==
  ASSUME TypeOK, ScanInv, StackStep \/ ParamsComplete
  PROVE  ScanInv'
<1>1. UNCHANGED <<rx, sent, rushed, pc, wanted, ext_scan_params>>
  BY DEF StackStep, ParamsComplete, rxVars, ioVars, cfgVars
<1>2. ~Fresh
  BY DEF StackStep, ParamsComplete, Fresh
<1>3. SUFFICES ASSUME ~rushed PROVE ScanInv'
  BY <1>1 DEF ScanInv
<1>4. Stopping => Stopping'
  <2>1. CASE StackStep /\ Stopping
    BY <2>1, StopCarriedOut DEF Stopping
  <2>2. ~(ParamsComplete /\ Stopping)
    BY DEF ParamsComplete, Stopping
  <2>3. QED BY <2>1, <2>2
<1>5. Starting => Starting'
  <2>1. CASE ParamsComplete
    <3>1. SUFFICES ASSUME Starting PROVE Starting'
      OBVIOUS
    <3>2. paramsSet > 0 /\ paramsSet' = paramsSet - 1 /\ requests' = Append(requests, Ask("start", 0))
          /\ UNCHANGED <<inForce, scanning>>
      BY <2>1 DEF ParamsComplete
    <3>3. requests = << >> /\ paramsSet = 1 /\ ~scanning /\ inForce = ext_scan_params
      BY <3>1, <3>2 DEF Starting
    <3>4. requests' = <<Ask("start", 0)>>
      BY <3>2, <3>3, Few
    <3>5. QED BY <1>1, <3>2, <3>3, <3>4 DEF Starting
  <2>2. QED BY <2>1, StartCarriedOut
<1>6. Decided => Decided'
  BY <1>1, <1>2, <1>4, <1>5 DEF Decided
<1>7. QED BY <1>1, <1>2, <1>3, <1>4, <1>6 DEF ScanInv

(* ... and so does io_task. *)
LEMMA ScanIo ==
  ASSUME TypeOK, ScanInv, io_task
  PROVE  ScanInv'
<1>0. rushed' = rushed
  BY DEF io_task, ReadBytes, StopScan, SetFiltr, SetParams, StoreMode, StoreMac, CountUp, ClearMacs,
     send_resp, rxVars
<1>1. SUFFICES ASSUME ~rushed PROVE ScanInv'
  BY <1>0 DEF ScanInv
<1>2. CASE ReadBytes
  <2>1. PICK k \in 1 .. Len(rx) :
         /\ rx' = SubSeq(rx, k + 1, Len(rx))
         /\ \/ UNCHANGED <<pc, read_buf, lastExec, before>>
            \/ /\ k = 2 /\ rx[1] \in Piece
               /\ rx[1].of.body.cmd # "OTHER"
               /\ read_buf' = rx[1].of /\ pc' = Branch(rx[1].of.body)
               /\ lastExec' = rx[1].of.seq /\ before' = List
    BY <1>2, ReadEffect
  <2>2. rx \in Seq(Piece) /\ Len(rx) \in Nat /\ Len(rx) <= 2
    BY <1>1, LenProperties DEF TypeOK, HostType, ScanInv
  <2>3. rx' \in Seq(Piece) /\ Len(rx') = Len(rx) - k
    BY <2>1, <2>2, Rest
  <2>4. rx # << >> /\ Fresh /\ Settled
    <3>1. Len(rx) # 0
      BY <2>2, <2>1
    <3>2. rx # << >>
      BY <3>1
    <3>3. QED BY <1>1, <3>2 DEF ScanInv
  <2>5. UNCHANGED <<wanted, ext_scan_params, requests, paramsSet, inForce, scanning>> /\ pc = "read"
    BY <1>2 DEF ReadBytes, cfgVars, stackVars
  <2>6. Fresh' /\ Settled' /\ Decided' /\ Len(rx') <= 2
    BY <2>1, <2>2, <2>3, <2>4, <2>5 DEF Fresh, Settled, Decided
  <2>7. CASE UNCHANGED <<pc, read_buf, lastExec, before>>
    BY <2>5, <2>6, <2>7 DEF ScanInv
  <2>8. CASE /\ k = 2 /\ rx[1] \in Piece
             /\ rx[1].of.body.cmd # "OTHER"
             /\ read_buf' = rx[1].of /\ pc' = Branch(rx[1].of.body)
    <3>1. rx[1].of.body \in Body
      BY <2>8, CommandFields DEF Piece
    <3>2. pc' \in {"stop", "mode", "clear", "resp"}
      BY <2>8, <3>1, BranchType
    <3>3. Len(rx') = 0
      BY <2>1, <2>2, <2>3, <2>8
    <3>4. rx' = << >>
      BY <2>3, <3>3, EmptySeq
    <3>5. QED BY <2>6, <3>2, <3>3, <3>4 DEF ScanInv
  <2>9. QED BY <2>1, <2>7, <2>8
<1>3. CASE StopScan
  <2>1. Fresh /\ Settled /\ rx = << >> /\ Len(rx) <= 2
    BY <1>1, <1>3 DEF StopScan, ScanInv
  <2>2. rx' = rx /\ paramsSet' = 0 /\ requests' = <<Ask("stop", 0)>>
    BY <1>3, <2>1, Few DEF StopScan, Fresh, rxVars
  <2>3. Stopping'
    BY <2>2 DEF Stopping
  <2>4. \/ pc' = "filtr" /\ wanted'
        \/ pc' = "resp" /\ ~wanted'
    BY <1>3 DEF StopScan
  <2>5. QED BY <2>1, <2>2, <2>3, <2>4 DEF ScanInv, Decided
<1>4. CASE SetFiltr
  <2>1. /\ pc = "filtr" /\ pc' = "params" /\ wanted /\ Stopping /\ rx = << >> /\ Len(rx) <= 2
        /\ UNCHANGED <<rx, wanted, requests, paramsSet, scanning>>
    BY <1>1, <1>4 DEF SetFiltr, ScanInv, rxVars, stackVars
  <2>2. Stopping'
    BY <2>1 DEF Stopping
  <2>3. QED BY <2>1, <2>2 DEF ScanInv
<1>5. CASE SetParams
  <2>1. /\ pc = "params" /\ pc' = "resp" /\ wanted /\ Stopping /\ rx = << >> /\ Len(rx) <= 2
        /\ UNCHANGED <<rx, wanted, paramsSet, scanning, ext_scan_params>>
        /\ requests' = Append(requests, Ask("params", ext_scan_params))
    BY <1>1, <1>5 DEF SetParams, ScanInv, rxVars, cfgVars
  <2>2. Starting'
    BY <2>1, Few, ZenonT(30) DEF Stopping, Starting
  <2>3. QED BY <2>1, <2>2 DEF ScanInv, Decided
<1>6. CASE StoreMode \/ StoreMac \/ CountUp \/ ClearMacs
  <2>1. /\ pc \in {"mode", "mac", "count", "clear"} /\ pc' \in {"mac", "count", "resp"}
        /\ UNCHANGED <<rx, wanted, requests, paramsSet, inForce, scanning, ext_scan_params>>
    BY <1>6 DEF StoreMode, StoreMac, CountUp, ClearMacs, rxVars, stackVars
  <2>2. rx = << >> /\ Len(rx) <= 2 /\ Fresh /\ Settled
    BY <1>1, <2>1 DEF ScanInv
  <2>3. Fresh' /\ Settled' /\ Decided'
    BY <2>1, <2>2 DEF Fresh, Settled, Decided
  <2>4. QED BY <2>1, <2>2, <2>3 DEF ScanInv
<1>7. CASE send_resp
  <2>1. /\ pc = "resp" /\ pc' = "read"
        /\ UNCHANGED <<rx, wanted, requests, paramsSet, inForce, scanning, ext_scan_params>>
    BY <1>7 DEF send_resp, rxVars, cfgVars, stackVars
  <2>2. rx = << >> /\ Len(rx) <= 2 /\ Decided
    BY <1>1, <2>1 DEF ScanInv
  <2>3. Decided'
    BY <2>1, <2>2 DEF Decided, Fresh, Settled, Stopping, Starting
  <2>4. QED BY <2>1, <2>2, <2>3 DEF ScanInv
<1>8. QED BY <1>2, <1>3, <1>4, <1>5, <1>6, <1>7 DEF io_task

(* A host that waits sends when everything is done. *)
LEMMA ScanSend ==
  ASSUME TypeOK, ScanInv, HostSends
  PROVE  ScanInv'
<1>1. SUFFICES ASSUME ~rushed' PROVE ScanInv'
  BY DEF ScanInv
<1>2. ~rushed /\ Quiet
  BY <1>1 DEF HostSends
<1>3. pc = "read" /\ rx = << >> /\ Fresh
  BY <1>2 DEF Quiet, Fresh
<1>4. Decided
  BY <1>2, <1>3 DEF ScanInv
<1>5. Settled
  BY <1>3, <1>4, DoneIsSettled
<1>6. UNCHANGED <<pc, wanted, requests, paramsSet, inForce, scanning, ext_scan_params>>
  BY DEF HostSends, ioVars, cfgVars, stackVars
<1>7. Fresh' /\ Settled' /\ Decided'
  BY <1>3, <1>5, <1>6 DEF Fresh, Settled, Decided
<1>8. Len(rx') <= 2
  <2>1. PICK b \in Body, n \in {1, 2} :
          rx' = rx \o [i \in 1 .. n |-> [of |-> [seq |-> sent', body |-> b], no |-> i]]
    BY DEF HostSends
  <2> DEFINE new == [i \in 1 .. n |-> [of |-> [seq |-> sent', body |-> b], no |-> i]]
  <2>2. new \in Seq(Piece) /\ Len(new) = n
    <3>1. sent' \in 1 .. MaxCmds
      BY Bounds DEF HostSends, TypeOK, HostType
    <3>2. \A i \in 1 .. n : [of |-> [seq |-> sent', body |-> b], no |-> i] \in Piece
      BY <3>1 DEF Piece, Command
    <3>3. n \in Nat
      OBVIOUS
    <3>4. QED BY <3>2, <3>3, IsASeq
  <2> HIDE DEF new
  <2>3. rx' = new
    BY <1>3, <2>1, <2>2, ConcatEmptySeq DEF new
  <2>4. QED BY <2>2, <2>3
<1>9. QED BY <1>3, <1>6, <1>7, <1>8 DEF ScanInv

(* ScanInv is kept. *)
LEMMA ScanStep ==
  ASSUME TypeOK, ScanInv, [Next]_vars
  PROVE  ScanInv'
<1>1. CASE StackStep \/ ParamsComplete
  BY <1>1, ScanStack
<1>2. CASE io_task
  BY <1>2, ScanIo
<1>3. CASE HostSends
  BY <1>3, ScanSend
<1>4. CASE UNCHANGED <<rx, rushed, pc, wanted, requests, paramsSet, inForce, scanning, ext_scan_params>>
  BY <1>4 DEF ScanInv, Decided, Fresh, Settled, Stopping, Starting
<1>5. \/ StackStep \/ ParamsComplete \/ io_task \/ HostSends
      \/ UNCHANGED <<rx, rushed, pc, wanted, requests, paramsSet, inForce, scanning, ext_scan_params>>
  BY DEF Next, esp_gap_cb, AdvReport, HostReads, rxVars, ioVars, cfgVars, stackVars, vars
<1>6. QED BY <1>1, <1>2, <1>3, <1>4, <1>5

-----------------------------------------------------------------------------
IInv == TypeOK /\ OrderInv /\ BeforeInv /\ MarkInv /\ ScanInv

(* The invariant holds at the start ... *)
LEMMA InitInv == Init => IInv
<1> SUFFICES ASSUME Init PROVE IInv
  OBVIOUS
<1>1. TypeOK
  <2>0. /\ 0 \in 0 .. MaxCmds /\ 0 \in Nat /\ FALSE \in BOOLEAN
        /\ << >> \in Seq(Piece) /\ << >> \in Seq(Request) /\ << >> \in Seq(Frame)
    BY Bounds, EmptySeq
  <2>1. HostType
    BY <2>0, Zenon DEF Init, HostType
  <2>2. IoType
    <3>1. pc = "read" /\ read_buf = None /\ lastExec = 0 /\ wanted \in BOOLEAN
      BY <2>0 DEF Init
    <3>2. QED BY <2>0, <3>1 DEF IoType
  <2>3. CfgType
    BY Bounds DEF Init, CfgType, ListCmd
  <2>4. StackType /\ ring \in Seq(Frame)
    BY <2>0, Zenon DEF Init, StackType
  <2>5. QED BY <2>1, <2>2, <2>3, <2>4 DEF TypeOK
<1>2. OrderInv
  BY DEF Init, OrderInv
<1>3. BeforeInv
  BY DEF Init, BeforeInv
<1>4. MarkInv
  BY DEF Init, MarkInv, ResponseIsMark
<1>5. ScanInv
  <2>1. Fresh
    BY DEF Init, Fresh
  <2>2. Settled
    BY DEF Init, Settled
  <2>3. rx = << >> /\ Len(rx) <= 2 /\ pc = "read"
    BY EmptySeq DEF Init
  <2>4. QED BY <2>1, <2>2, <2>3 DEF ScanInv, Decided
<1>6. QED BY <1>1, <1>2, <1>3, <1>4, <1>5 DEF IInv

(* ... and every step keeps it. *)
LEMMA StepInv == IInv /\ [Next]_vars => IInv'
BY TypeStep, OrderStep, BeforeStep, MarkStep, ScanStep DEF IInv

LEMMA Invariant == Spec => []IInv
BY InitInv, StepInv, PTL DEF Spec

(***************************************************************************)
(* Type correctness of both tasks, the Bluetooth stack and the USB         *)
(* buffers (ble50_scan.c); among it that an address is stored only where   *)
(* the list has room.                                                      *)
(***************************************************************************)
THEOREM EspTypeCorrect == Spec => []TypeOK
<1>1. IInv => TypeOK
  BY DEF IInv
<1>2. QED BY <1>1, Invariant, PTL

(***************************************************************************)
(* No command is executed twice or after a later one, however reads cut    *)
(* and join what the host has sent (ble50_scan.c:747-752).                 *)
(***************************************************************************)
THEOREM EspCommandsOnceInOrder == Spec => CommandsOnceInOrder
<1>1. IInv /\ [Next]_vars => [pc = "read" /\ pc' # "read" => lastExec' > lastExec]_vars
  <2>1. SUFFICES ASSUME IInv, Next, pc = "read", pc' # "read"
                 PROVE  lastExec' > lastExec
    OBVIOUS
  <2>2. ReadBytes
    BY <2>1 DEF Next, esp_gap_cb, io_task, ParamsComplete, AdvReport, StopScan, SetFiltr, SetParams,
       StoreMode, StoreMac, CountUp, ClearMacs, send_resp, StackStep, HostReads, HostSends, ioVars
  <2>3. QED BY <2>1, <2>2, OrderRead DEF IInv
<1>2. QED BY <1>1, Invariant, PTL DEF Spec, CommandsOnceInOrder

(***************************************************************************)
(* Behind an answer there are only advertisements that pass the list and   *)
(* the filter as the command has left them (ble50_scan.c:490-496).         *)
(***************************************************************************)
THEOREM EspResponseIsMark == Spec => []ResponseIsMark
<1>1. IInv => ResponseIsMark
  BY DEF IInv, MarkInv
<1>2. QED BY <1>1, Invariant, PTL

(***************************************************************************)
(* A callback between the statements of a list command lets nothing        *)
(* through that neither the list before nor the list after would           *)
(* (ble50_scan.c:498-513, 789-821).                                        *)
(***************************************************************************)
THEOREM EspNoHalfChange == Spec => NoHalfChange
<1> DEFINE Half == \A m \in Mac :
       (Len(ring') > Len(ring) /\ IsAdv(ring'[Len(ring')]) /\ ring'[Len(ring')].mac = m
          /\ pc \in {"mode", "mac", "count", "resp"} /\ read_buf.body.cmd \in ListCmd)
         => \/ chk_mac(before, m)
            \/ chk_mac(WithMac(before, read_buf.body.cmd, read_buf.body.arg), m)
            \/ before.mac # << >> /\ before.mode # read_buf.body.cmd
<1>1. ASSUME IInv, Next PROVE Half
  <2>1. SUFFICES ASSUME NEW m \in Mac, Len(ring') > Len(ring),
                        IsAdv(ring'[Len(ring')]), ring'[Len(ring')].mac = m,
                        pc \in {"mode", "mac", "count", "resp"}, read_buf.body.cmd \in ListCmd
                 PROVE  \/ chk_mac(before, m)
                        \/ chk_mac(WithMac(before, read_buf.body.cmd, read_buf.body.arg), m)
                        \/ before.mac # << >> /\ before.mode # read_buf.body.cmd
    OBVIOUS
  <2>2. ring \in Seq(Frame) /\ Len(ring) \in Nat
    BY <1>1, LenProperties DEF IInv, TypeOK
  <2>3. ring' # ring
    BY <2>1, <2>2
  <2>4. ~HostReads
    BY <2>1, <2>2, HeadTailProperties DEF HostReads
  <2>5. ~send_resp
    <3>1. SUFFICES ASSUME send_resp PROVE FALSE
      OBVIOUS
    <3>2. read_buf.seq \in 1 .. MaxCmds
      BY <1>1, <3>1, CommandFields DEF send_resp, IInv, TypeOK, IoType
    <3>3. [kind |-> "resp", to |-> read_buf.seq] \in Frame
      BY <3>2 DEF Frame
    <3>4. ring' = Append(ring, [kind |-> "resp", to |-> read_buf.seq])
      BY <2>3, <3>1 DEF send_resp, Write
    <3>5. ring'[Len(ring')] = [kind |-> "resp", to |-> read_buf.seq]
      BY <2>2, <3>3, <3>4, AppendProperties
    <3>6. QED BY <2>1, <3>5 DEF IsAdv
  <2>6. PICK a \in Mac, atype \in SUBSET Bit : AdvReport(a, atype)
    BY <1>1, <2>3, <2>4, <2>5 DEF Next, esp_gap_cb, io_task, ParamsComplete, ReadBytes, StopScan, SetFiltr,
       SetParams, StoreMode, StoreMac, CountUp, ClearMacs, StackStep, HostSends
  <2>7. chk_mac(List, a) /\ ring' = Append(ring, [kind |-> "adv", mac |-> a, atype |-> atype])
    BY <2>3, <2>6 DEF AdvReport, Write
  <2>8. a = m
    <3>1. [kind |-> "adv", mac |-> a, atype |-> atype] \in Frame
      BY DEF Frame
    <3>2. ring'[Len(ring')] = [kind |-> "adv", mac |-> a, atype |-> atype]
      BY <2>2, <2>7, <3>1, AppendProperties
    <3>3. QED BY <2>1, <3>2
  <2>9. CASE pc = "mode"
    BY <1>1, <2>7, <2>8, <2>9 DEF IInv, BeforeInv
  <2>10. CASE pc \in {"mac", "count"}
    BY <1>1, <2>7, <2>8, <2>10 DEF IInv, BeforeInv, chk_mac, Listed
  <2>11. CASE pc = "resp"
    BY <1>1, <2>1, <2>7, <2>8, <2>11 DEF IInv, BeforeInv
  <2>12. QED BY <2>1, <2>9, <2>10, <2>11
<1>2. IInv /\ [Next]_vars => [Half]_vars
  BY <1>1
<1>3. QED BY <1>2, Invariant, PTL DEF Spec, NoHalfChange

(***************************************************************************)
(* A scanner that is quiet scans as the last scan command said and with    *)
(* its parameters, if the host has waited (ble50_scan.c:530-538, 752-784). *)
(***************************************************************************)
THEOREM EspScanAsCommanded == Spec => []ScanAsCommanded
<1>1. IInv => ScanAsCommanded
  <2>1. SUFFICES ASSUME IInv, Quiet, ~rushed PROVE Settled
    BY DEF ScanAsCommanded, Settled
  <2>2. Fresh /\ Decided /\ TypeOK
    BY <2>1 DEF IInv, ScanInv, Quiet, Fresh
  <2>3. QED BY <2>2, DoneIsSettled
<1>2. QED BY <1>1, Invariant, PTL
=============================================================================
