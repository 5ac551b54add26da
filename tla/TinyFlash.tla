----------------------------- MODULE TinyFlash -----------------------------
(***************************************************************************)
(* tinyFlash.c with its only user, the bit rate index of ble.c: a log of   *)
(* records in one flash sector, moved to the other sector when it is full. *)
(* Writing deletes the old record first, and the power can fail between    *)
(* any two flash operations, or while a record is being programmed.        *)
(*                                                                         *)
(* Flash contents are records, not bytes: a record is the key byte, its    *)
(* complement (zeroed to delete the record), the length byte and one data  *)
(* byte.  Of a record cut short only a prefix is programmed and the rest   *)
(* reads 0xFF, so that it may seem live and may seem 258 bytes long.       *)
(* Everything else in a sector is blank: the log of a sector is its        *)
(* records in the order of their addresses, which a reader follows from    *)
(* one to the next by their lengths.                                       *)
(***************************************************************************)
EXTENDS Integers, Sequences

CONSTANTS
  SecLen,     (* bytes of a sector behind its header: 4096 - 32             *)
  RecLen,     (* bytes of a record: 3 + 1                                   *)
  TornLen,    (* bytes a record without length seems to have: 3 + 0xFF      *)
  NumBauds,   (* length of baudrate_list                                    *)
  None        (* no record; no bit rate set                                 *)

Index == 0 .. NumBauds - 1
Blank == 255   (* an erased byte, read as an index *)
Sector == {"first", "second"}
Other(s) == IF s = "first" THEN "second" ELSE "first"

Record == [at : 0 .. SecLen, span : {RecLen, TornLen}, live : BOOLEAN, val : Index \cup {Blank}]

FlashAssumption ==
  /\ SecLen \in Nat /\ RecLen \in Nat /\ TornLen \in Nat
  /\ 0 < RecLen /\ RecLen <= SecLen /\ RecLen < TornLen
  /\ NumBauds \in Nat \ {0}
  /\ None \notin Int \cup Record

VARIABLES
  log,      (* the records of each sector                                   *)
  marked,   (* the sector's first byte is not 0xFF                          *)
  used,     (* tinyFlash_Used_Addr; tinyFlash_Swap_Addr is the other one    *)
  pc,
  index,    (* baudrate_index of change_baud_rate                           *)
  dirty,    (* dirty_data_len > 0                                           *)
  uart      (* index of the bit rate the UART runs at                       *)

flash == <<log, marked>>
vars == <<flash, used, pc, index, dirty, uart>>

(* tinyFlash_Init looks at the first sector's header only; on a new device *)
(* the second one is used, its header unmarked.                            *)
UsedAtBoot == IF marked["first"] THEN "first" ELSE "second"

Init ==
  /\ log = [s \in Sector |-> << >>]
  /\ marked = [s \in Sector |-> FALSE]
  /\ used = "second"
  /\ pc = "boot"
  /\ index = 0 /\ dirty = FALSE /\ uart = None

(* The address behind the last record. *)
End(l) == IF l = << >> THEN 0 ELSE l[Len(l)].at + l[Len(l)].span

(* Where the key byte is followed by its complement. *)
FoundAt(l) == {i \in DOMAIN l : l[i].live}
First(l) == CHOOSE i \in FoundAt(l) : \A j \in FoundAt(l) : i <= j

(* What tinyFlash_Read finds under the key in log l. *)
Read(l) == IF FoundAt(l) = {} THEN None ELSE l[First(l)]

(* tinyFlash_Read copies as many bytes as the record seems to have into a  *)
(* buffer of one.                                                          *)
Overrun(r) == r # None /\ r.span = TornLen

(* read_baud_rate: nothing stored and an index that is not in the list     *)
(* both give the first entry.                                              *)
read_baud_rate(r) == IF r # None /\ r.val \in Index THEN r.val ELSE 0

-----------------------------------------------------------------------------
(* init_ble; after an overrun the stack is gone and so is the program.     *)
Boot ==
  /\ pc = "boot"
  /\ IF Overrun(Read(log[used]))
     THEN pc' = "lost" /\ UNCHANGED uart
     ELSE pc' = "idle" /\ uart' = read_baud_rate(Read(log[used]))
  /\ UNCHANGED <<flash, used, index, dirty>>

KeyPressed ==
  /\ pc = "idle"
  /\ index' = (read_baud_rate(Read(log[used])) + 1) % NumBauds
  /\ pc' = "delete"
  /\ UNCHANGED <<flash, used, dirty, uart>>

DeleteOld_Forgotten ==
  /\ pc = "delete"
  /\ dirty' = FALSE
  /\ pc' = "search"
  /\ UNCHANGED <<flash, used, index, uart>>

(* tinyFlash_Write begins with tinyFlash_Read(KEY, NULL, NULL).            *)
DeleteOld ==
  /\ pc = "delete"
  /\ log' = IF FoundAt(log[used]) = {} THEN log
            ELSE [log EXCEPT ![used][First(log[used])].live = FALSE]
  /\ dirty' = FALSE
  /\ pc' = "search"
  /\ UNCHANGED <<marked, used, index, uart>>

Fits(l) == End(l) <= SecLen - RecLen

(* The loop of tinyFlash_Write up to the end of the log.  A sector without *)
(* room is exchanged if a dead record was seen, in it or before an earlier *)
(* exchange; otherwise -1 is returned, which change_baud_rate ignores.     *)
Search ==
  /\ pc = "search"
  /\ dirty' = (dirty \/ \E i \in DOMAIN log[used] : ~log[used][i].live)
  /\ pc' = IF Fits(log[used]) THEN "program" ELSE IF dirty' THEN "copy" ELSE "apply"
  /\ UNCHANGED <<flash, used, index, uart>>

Written(live, span, val) ==
  log' = [log EXCEPT ![used] = Append(@, [at |-> End(@), span |-> span, live |-> live, val |-> val])]

Program ==
  /\ pc = "program"
  /\ Written(TRUE, RecLen, index)
  /\ pc' = "apply"
  /\ UNCHANGED <<marked, used, index, dirty, uart>>

(* The live records of l, one behind the other.                            *)
Compacted(l) ==
  LET copies == SelectSeq(l, LAMBDA r : r.live)
  IN  [i \in DOMAIN copies |-> [copies[i] EXCEPT !.at = (i - 1) * RecLen]]

SwapCopies_HeaderRebuilt ==
  /\ pc = "copy"
  /\ log' = [log EXCEPT ![Other(used)] = <<[log[used][Len(log[used])] EXCEPT !.at = 0, !.live = TRUE]>>]
  /\ pc' = "mark"
  /\ UNCHANGED <<marked, used, index, dirty, uart>>

(* tinyFlash_Swap copies the live records to the other sector, which it    *)
(* takes to be blank ...                                                   *)
SwapCopies ==
  /\ pc = "copy"
  /\ log' = IF FoundAt(log[used]) = {} THEN log
            ELSE [log EXCEPT ![Other(used)] = Compacted(log[used])]
  /\ pc' = "mark"
  /\ UNCHANGED <<marked, used, index, dirty, uart>>

(* ... marks the sector ...                                                *)
SwapMarks ==
  /\ pc = "mark"
  /\ marked' = [marked EXCEPT ![Other(used)] = TRUE]
  /\ pc' = "erase"
  /\ UNCHANGED <<log, used, index, dirty, uart>>

SwapErases_Forgotten ==
  /\ pc = "erase"
  /\ marked' = [marked EXCEPT ![used] = FALSE]
  /\ used' = Other(used)
  /\ pc' = "search"
  /\ UNCHANGED <<log, index, dirty, uart>>

SwapErases_HeaderStays ==
  /\ pc = "erase"
  /\ log' = [log EXCEPT ![used] = << >>]
  /\ used' = Other(used)
  /\ pc' = "search"
  /\ UNCHANGED <<marked, index, dirty, uart>>

(* ... and erases the old one.                                             *)
SwapErases ==
  /\ pc = "erase"
  /\ log' = [log EXCEPT ![used] = << >>]
  /\ marked' = [marked EXCEPT ![used] = FALSE]
  /\ used' = Other(used)
  /\ pc' = "search"
  /\ UNCHANGED <<index, dirty, uart>>

(* The rest of change_baud_rate. *)
Apply ==
  /\ pc = "apply"
  /\ uart' = index
  /\ pc' = "idle"
  /\ UNCHANGED <<flash, used, index, dirty>>

-----------------------------------------------------------------------------
Restarts ==
  /\ used' = UsedAtBoot
  /\ pc' = "boot"
  /\ index' = 0 /\ dirty' = FALSE /\ uart' = None

(* The power fails between two flash operations. *)
PowerLoss ==
  /\ pc # "boot"
  /\ Restarts
  /\ UNCHANGED flash

(* The power fails when n bytes of the record are programmed. *)
PowerLossInRecord(n) ==
  /\ pc = "program"
  /\ Written(n # 1, IF n < 3 THEN TornLen ELSE RecLen, Blank)
  /\ Restarts
  /\ UNCHANGED marked

tinyFlash_Swap == SwapCopies \/ SwapMarks \/ SwapErases
tinyFlash_Write == DeleteOld \/ Search \/ Program \/ tinyFlash_Swap
change_baud_rate == KeyPressed \/ tinyFlash_Write \/ Apply

Next ==
  \/ Boot
  \/ change_baud_rate
  \/ PowerLoss \/ \E n \in 1 .. 3 : PowerLossInRecord(n)

Spec == Init /\ [][Next]_vars

(* The program keeps running; nobody has to press the key. *)
FairSpec == Spec /\ WF_vars(Boot) /\ WF_vars(tinyFlash_Write) /\ WF_vars(Apply)

-----------------------------------------------------------------------------
Chained(l) ==
  \A i \in DOMAIN l :
    /\ l[i].at = (IF i = 1 THEN 0 ELSE l[i - 1].at + l[i - 1].span)
    /\ l[i].at <= SecLen - RecLen

TypeOK ==
  /\ log \in [Sector -> Seq(Record)]
  /\ \A s \in Sector : Chained(log[s])
  /\ marked \in [Sector -> BOOLEAN]
  /\ used \in Sector
  /\ pc \in {"boot", "lost", "idle", "delete", "search", "program",
             "copy", "mark", "erase", "apply"}
  /\ index \in Index
  /\ dirty \in BOOLEAN
  /\ uart \in Index \cup {None}

(***************************************************************************)
(* Whatever writes and power losses came before, a write that has returned *)
(* is what a restart would read: it is in the sector that tinyFlash_Init   *)
(* will choose, ahead of every other live record, even when the last       *)
(* exchange of sectors was cut short (tinyFlash.c:45-67, 126-184).         *)
(***************************************************************************)
WriteIsDurable ==
  pc \in {"apply", "idle"} =>
    /\ UsedAtBoot = used
    /\ pc = "apply" => /\ ~Overrun(Read(log[used]))
                       /\ read_baud_rate(Read(log[used])) = index
    /\ pc = "idle"  => read_baud_rate(Read(log[used])) = uart

(***************************************************************************)
(* tinyFlash_Swap programs its copies into a sector that it has not        *)
(* erased, and that an exchange cut short has left full of old records.    *)
(* That is harmless only because it never finds a live record to copy      *)
(* (tinyFlash.c:186-226).                                                  *)
(***************************************************************************)
NothingToCopy == pc = "copy" => FoundAt(log[used]) = {}

(***************************************************************************)
(* Seen from the next start the two sectors are one cell.  An exchange of  *)
(* sectors never changes what tinyFlash_Read will find, neither finished   *)
(* nor cut short between any two of its flash operations: only a write     *)
(* does, by deleting what is there and then programming the index that is  *)
(* being written, and it does not return before it has.  A record cut      *)
(* short before its length overruns the buffer at every start, and is      *)
(* never replaced (tinyFlash.c:45-236).                                    *)
(***************************************************************************)
Endless == -1   (* stands for what a record without length gives *)
Content(r) == IF r = None THEN None ELSE IF r.span = TornLen THEN Endless ELSE r.val
Stored == Content(Read(log[UsedAtBoot]))

Running == pc \notin {"boot", "lost"}
BeingWritten == IF pc \in {"delete", "search", "program", "copy", "mark", "erase"} THEN index ELSE None

Cell == INSTANCE BaudCell
          WITH Remains <- {None, Endless, Blank}, Fatal <- Endless, Nothing <- None,
               cell <- Stored, up <- Running, writing <- BeingWritten

FlashIsCell == Cell!Spec

(***************************************************************************)
(* tinyFlash_Write comes to an end: its loop exchanges sectors at most     *)
(* until one has room (tinyFlash.c:135-181).                               *)
(***************************************************************************)
WriteEnds == pc = "search" ~> pc \in {"apply", "boot"}

(***************************************************************************)
(* The README: "any change in the bitrate performed with the key is        *)
(* permanently stored".  Then a restart would find the bit rate in use or  *)
(* the one being stored.                                                   *)
(***************************************************************************)
ChangeIsPermanent ==
  [][uart # None /\ uart' = None =>
       read_baud_rate(Read(log'[UsedAtBoot'])) \in {uart, index}]_vars
=============================================================================
