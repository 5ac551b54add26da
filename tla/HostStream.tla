----------------------------- MODULE HostStream -----------------------------
(***************************************************************************)
(* A host that listens to the scanner's stream and replays the responses   *)
(* in it (adv2uart.py:291-347 prints exactly these fields).  The question  *)
(* is what it may conclude: which list and which address-type filter are   *)
(* in force in the device, and which of them selected the advertisements   *)
(* that stand between two responses.                                       *)
(***************************************************************************)
EXTENDS Scanner, SequencesExt

VARIABLES
  view,     (* the configuration the host has replayed                     *)
  stale     (* the parts of it whose last change the device could not      *)
            (* announce because the FIFO was full                          *)

hostStreamVars == <<vars, view, stale>>

Starts(c) == c.cmd = "SCAN" /\ c.arg.start

(* The host learns from the id byte of a list response whether the address *)
(* was taken: a full list answers with an unchanged count.                 *)
Learn(v, f) ==
  IF f.kind = "adv" THEN v
  ELSE [mode  |-> IF f.to.cmd \in ListCmd THEN f.to.cmd ELSE v.mode,
        mac   |-> IF f.to.cmd = "CLRM" THEN << >>
                  ELSE IF f.to.cmd \in ListCmd /\ f.id > Len(v.mac)
                       THEN Append(v.mac, f.to.arg) ELSE v.mac,
        filtr |-> IF Starts(f.to) THEN f.to.arg.filtr ELSE v.filtr]

(* The parts of the configuration a command changes, and those that its    *)
(* response describes completely.                                          *)
Changes(c) == {x \in {"list", "filtr"} :
                 IF x = "list" THEN c.cmd \in ListCmd \cup {"CLRM"} ELSE Starts(c)}
Settles(c) == {x \in {"list", "filtr"} :
                 IF x = "list" THEN c.cmd = "CLRM" ELSE Starts(c)}

HSInit ==
  /\ Init
  /\ view = [mode |-> "WMAC", mac |-> << >>, filtr |-> {}]
  /\ stale = {}

Observe ==
  /\ view' = IF txBusy /\ ~txBusy' THEN Learn(view, txBuf) ELSE view
  /\ stale' = IF pc = "exec" /\ pc' = "key" /\ CrcMatches(buf)
              THEN IF fifo' = fifo THEN stale \cup Changes(buf.body)
                                   ELSE stale \ Settles(buf.body)
              ELSE stale

HSNext == Next /\ Observe

HSSpec == HSInit /\ [][HSNext]_hostStreamVars

-----------------------------------------------------------------------------
(* What a host that knows v has learnt after each number of the frames.    *)
Knowledge(v, frames) ==
  LET known[n \in 0 .. Len(frames)] ==
        IF n = 0 THEN v ELSE Learn(known[n - 1], frames[n])
  IN  known

(* What the host will know when j of the frames on their way have arrived. *)
Known(j) == Knowledge(view, Pending)[j]

(***************************************************************************)
(* Once everything on its way has arrived, the host's replay agrees with   *)
(* the device: with mac_list (the mode counts only while the list is not   *)
(* empty) and with filtr, except for a part whose last announcement was    *)
(* dropped; CMD_ID_CLRM and a scan start end that exception                *)
(* (scanning.c:53-66, 290-314; ble.c:232).                                 *)
(***************************************************************************)
ReplayAgrees ==
  LET known == Known(Len(Pending)) IN
  /\ "list" \notin stale => /\ known.mac = mac_list.mac
                            /\ mac_list.mac # << >> => known.mode = mac_list.mode
  /\ "filtr" \notin stale => known.filtr = filtr

(* Selection by a replayed list, stated without the device's chk_mac. *)
Selects(v, m) == v.mac = << >> \/ ((m \in ToSet(v.mac)) = (v.mode = "WMAC"))

Answers(cmds, f) == f.kind = "resp" /\ f.to.cmd \in cmds

(***************************************************************************)
(* Responses are markers in the stream: an advertisement behind a response *)
(* has passed the list and the filter that the responses before it         *)
(* describe, so the host can tell from when on a new configuration holds.  *)
(* (Advertisements in front of a CLRM or start response may belong to a    *)
(* configuration whose announcement was dropped.)                          *)
(***************************************************************************)
AdvsFitReplay ==
  \A j \in DOMAIN Pending :
    LET known == Known(j - 1)
        later == {Pending[k] : k \in j .. Len(Pending)}
    IN  Pending[j].kind = "adv" =>
          /\ "list" \notin stale /\ ~(\E f \in later : Answers({"CLRM"}, f))
               => Selects(known, Pending[j].mac)
          /\ "filtr" \notin stale /\ ~(\E f \in later : f.kind = "resp" /\ Starts(f.to))
               => Pending[j].atype \cap known.filtr = {}
=============================================================================
