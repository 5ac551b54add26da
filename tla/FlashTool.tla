----------------------------- MODULE FlashTool -----------------------------
(***************************************************************************)
(* TlsrPgm.py writing, erasing and reading the flash of a TLSR825x through *)
(* a programmer board on a serial line.  Each command waits for its answer *)
(* for at most 0.1 s; an answer that comes later is found by whatever      *)
(* command waits then, unless the next one has emptied the input buffer    *)
(* after it came.                                                          *)
(*                                                                         *)
(* The board, the line and the flash chip are outside the repository.  The *)
(* board executes its commands one by one and answers each; the line loses *)
(* and damages commands and answers but keeps their order.  Writing to the *)
(* flash takes time, can only turn ones into zeroes, and is ignored while  *)
(* the chip is busy or locked.  A block that crosses the border of a page  *)
(* is assumed to be written through: the chip alone would wrap within the  *)
(* page, and the tool leaves it to the board to split such a block.        *)
(*                                                                         *)
(* Addresses count units of which Page make a block and Sector a sector;   *)
(* a unit is one (erased) or zero.  Names with an underscore and a         *)
(* description are faulty variants that no action uses.                    *)
(***************************************************************************)
EXTENDS Integers, SequencesExt

CONSTANTS
  Page,         (* 0x100, "Flash write max 256 bytes"                      *)
  Sector,       (* FLASH_SECTOR_SIZE                                       *)
  Size,         (* of the flash                                            *)
  ReadSize,     (* MAX_BUF_READ_SIZE                                       *)
  RetryCount,   (* ERR_RETRY_COUNT                                         *)
  Polls,        (* count of WaitingFlashReady: 5, 300 or 3000              *)
  Jobs,         (* command lines and what they find, to choose from        *)
  MaxFaults,    (* bound: commands and answers lost or damaged, and writes *)
                (* that the chip ignores                                   *)
  None

Unit == 0 .. Size - 1
Bit == {0, 1}
Ops == {"we", "wf", "es", "ea", "rf"}

(* data: the file (for es and rf only its length counts); verify: the      *)
(* board has RDCRC (pgm_ver_int >= 3); old: the flash before.              *)
Job == [op : Ops, start : Unit, data : Seq(Bit), verify : BOOLEAN,
        old : [Unit -> Bit], locked : BOOLEAN]

(* Nothing is asked for behind the end of the flash, and None (0xffffffff  *)
(* for erasec) is not an address.                                          *)
ASSUME FlashToolAssumption ==
  /\ {Page, Sector, Size, ReadSize, RetryCount, Polls} \subseteq Nat \ {0}
  /\ Sector % Page = 0 /\ Size % Sector = 0
  /\ MaxFaults \in Nat /\ None \notin Unit
  /\ Jobs \subseteq Job /\ \A j \in Jobs : j.start + Len(j.data) <= Size

VARIABLES
  job,
  pc,           (* the next or the pending command, "head" or "data" in a  *)
                (* loop, or how the program has ended                      *)
  then,         (* what WaitingFlashReady was called after                 *)
  polls,        (* count of WaitingFlashReady                              *)
  offset, left, (* offset and size (of es: count) of the loops             *)
  erasec,
  cnt_err,
  waiting,      (* a command waits for its answer                          *)
  toBoard,      (* commands on the line ...                                *)
  toHost,       (* ... answers on the line ...                             *)
  inbuf,        (* ... and those in the input buffer                       *)
  flash, busy, locked,
  faults,
  skipped       (* where a command failed that the loop went on from       *)

loopVars == <<offset, left, erasec, cnt_err, skipped>>
toolVars == <<pc, then, polls, loopVars>>
lineVars == <<waiting, toBoard, toHost, inbuf>>
chipVars == <<flash, busy, locked>>
vars == <<job, toolVars, lineVars, chipVars, faults>>

Min2(a, b) == IF a < b THEN a ELSE b
SectorOf(a) == a - (a % Sector)

(* A we that starts within a sector does not erase that sector.            *)
FirstErasec_None == None
FirstErasec == IF job.op = "we" /\ job.start % Sector # 0 THEN SectorOf(job.start) ELSE None

(* The wf, we, es and ea branches of main unlock the flash first; es       *)
(* rounds its region to sectors.                                           *)
Init ==
  /\ job \in Jobs
  /\ pc = IF job.op = "rf" THEN "head" ELSE "wren"
  /\ then = "unlock" /\ polls = Polls
  /\ offset = IF job.op = "es" THEN SectorOf(job.start) ELSE job.start
  /\ left = IF job.op = "es" THEN (Len(job.data) + Sector - 1) \div Sector ELSE Len(job.data)
  /\ erasec = FirstErasec
  /\ cnt_err = RetryCount /\ skipped = {}
  /\ waiting = FALSE /\ toBoard = << >> /\ toHost = << >> /\ inbuf = << >>
  /\ flash = job.old /\ busy = FALSE /\ locked = job.locked
  /\ faults = 0

-----------------------------------------------------------------------------
(***************************************************************************)
(* One command.                                                            *)
(***************************************************************************)
CommandPc == {"wren", "wrsr", "poll", "rdsr", "erase", "eraseall", "write", "crc", "read"}

(* ReadFlashStatus and WaitingFlashReady send the same command.            *)
Func == CASE pc \in {"poll", "rdsr"} -> "status"
          [] pc \in {"wren", "wrsr"} -> "wrrd"
          [] OTHER -> pc

(* The block that stream.read returns at offset.                           *)
Block(n) == SubSeq(job.data, offset - job.start + 1, offset - job.start + Min2(n, left))

Cmd == [func |-> Func, at |-> offset,
        data |-> IF Func \in {"write", "crc"} THEN Block(Page) ELSE << >>,
        wrsr |-> pc = "wrsr", own |-> TRUE]

(* What is on the way no longer belongs to the pending command.            *)
Disowned(s) == [i \in DOMAIN s |-> [s[i] EXCEPT !.own = FALSE]]

(* write: reset_input_buffer, then send.                                   *)
Send ==
  /\ ~waiting /\ pc \in CommandPc
  /\ waiting' = TRUE
  /\ inbuf' = << >>
  /\ toBoard' = Append(Disowned(toBoard), Cmd)
  /\ toHost' = Disowned(toHost)
  /\ UNCHANGED <<job, toolVars, chipVars, faults>>

(* The bytes that came first are an answer to such a command, undamaged,   *)
(* without an error.                                                       *)
Accepts(a) == a.good /\ a.func = Func

(* read and the checks of command: what it returns, None after an error.   *)
Returns(a) ==
  /\ waiting /\ waiting' = FALSE
  /\ IF inbuf = << >> THEN a = None /\ UNCHANGED inbuf
     ELSE /\ a = IF Accepts(Head(inbuf)) THEN Head(inbuf) ELSE None
          /\ inbuf' = Tail(inbuf)
  /\ UNCHANGED <<job, toBoard, toHost, chipVars, faults>>

-----------------------------------------------------------------------------
(***************************************************************************)
(* What the tool does with the answer a.                                   *)
(***************************************************************************)
Goto(l) == pc' = l /\ UNCHANGED <<then, polls, loopVars>>
Wait(reason) == pc' = "poll" /\ then' = reason /\ polls' = Polls /\ UNCHANGED loopVars

WriteFlashStatus(a) ==
  \/ /\ pc = "wren"
     /\ Goto(IF a = None THEN "failed" ELSE "wrsr")
  \/ /\ pc = "wrsr"
     /\ IF a = None THEN Goto("failed") ELSE Wait("unlock")

(* The end of FlashUnlock: the register must read 0.                       *)
Unlocked(a) == ~a.busy /\ ~a.locked

ReadFlashStatus(a) ==
  /\ pc = "rdsr"
  /\ Goto(IF a = None \/ ~Unlocked(a) THEN "failed"
          ELSE IF job.op = "ea" THEN "eraseall" ELSE "head")

(* The head of the loops; in WriteBlockFlash a sector is erased before the *)
(* first block in it.                                                      *)
LoopHead ==
  /\ pc = "head"
  /\ Goto(IF left = 0 THEN "done"
          ELSE CASE job.op = "rf" -> "read"
                 [] job.op = "es" -> "erase"
                 [] job.op = "we" /\ erasec # SectorOf(offset) -> "erase"
                 [] OTHER -> "data")
  /\ UNCHANGED <<job, lineVars, chipVars, faults>>

Advanced(n) == offset' = offset + n /\ left' = left - n /\ pc' = "head"

BlockLen == Min2(Page, left)

(* A block of 0xFF only is not written.                                    *)
ReadData ==
  /\ pc = "data"
  /\ IF 0 \in Range(Block(Page)) THEN Goto("write")
     ELSE Advanced(BlockLen) /\ UNCHANGED <<then, polls, erasec, cnt_err, skipped>>
  /\ UNCHANGED <<job, lineVars, chipVars, faults>>

(* ERASE and WRITE: whatever the answer, first wait for the flash.         *)
Changed_NoWaitAfterError(a) ==
  /\ pc = "write"
  /\ IF a = None
     THEN /\ Advanced(BlockLen) /\ skipped' = skipped \cup {offset}
          /\ UNCHANGED <<then, polls, erasec, cnt_err>>
     ELSE Wait("written")

Changed(a) ==
  /\ pc \in {"erase", "write"}
  /\ Wait(CASE pc = "erase" -> IF a = None THEN "erase failed" ELSE "erased"
            [] pc = "write" -> IF a = None THEN "write failed" ELSE "written")

EraseAll(a) ==
  /\ pc = "eraseall"
  /\ IF a = None THEN Goto("failed") ELSE Wait("all erased")

(* A failure that is not the last of RetryCount in a row: the break at the *)
(* end of the "while 1" leaves that loop, and the outer one goes on.       *)
GoesOn(ok) ==
  /\ cnt_err' = IF ok THEN RetryCount ELSE cnt_err - 1
  /\ skipped' = IF ok THEN skipped ELSE skipped \cup {offset}

Failed == then \in {"erase failed", "write failed"}

LastTry == cnt_err = 1

ErasecAfter_Forgotten == erasec
ErasecAfter == SectorOf(offset)

AfterErase ==
  IF job.op = "es" THEN offset' = offset + Sector /\ left' = left - 1 /\ pc' = "head" /\ UNCHANGED erasec
  ELSE pc' = "data" /\ erasec' = ErasecAfter /\ UNCHANGED <<offset, left>>

FlashIsReady ==
  CASE then = "unlock" -> Goto("rdsr")
    [] then = "all erased" -> Goto("done")
    [] then = "written" /\ job.verify -> Goto("crc")
    [] Failed /\ LastTry -> Goto("failed")
    [] OTHER -> /\ GoesOn(~Failed)
                /\ IF then \in {"erased", "erase failed"} THEN AfterErase
                   ELSE Advanced(BlockLen) /\ UNCHANGED erasec
                /\ UNCHANGED <<then, polls>>

Polled(a) ==
  IF ~a.busy THEN FlashIsReady
  ELSE /\ polls' = polls - 1
       /\ pc' = IF polls = 1 THEN "failed" ELSE "poll"
       /\ UNCHANGED <<then, loopVars>>

WaitingFlashReady_Persistent(a) ==
  /\ pc = "poll"
  /\ IF a = None THEN Goto("poll") ELSE Polled(a)

WaitingFlashReady_Countless(a) ==
  /\ pc = "poll"
  /\ IF a = None THEN Goto("failed") ELSE IF a.busy THEN Goto("poll") ELSE FlashIsReady

WaitingFlashReady(a) ==
  /\ pc = "poll"
  /\ IF a = None THEN Goto("failed") ELSE Polled(a)

Matches_NotCompared(a) == TRUE
Matches(a) == a.data = Block(Page)

Verified(a) ==
  /\ pc = "crc"
  /\ IF a = None \/ ~Matches(a) THEN Goto("failed")
     ELSE /\ GoesOn(TRUE) /\ Advanced(BlockLen)
          /\ UNCHANGED <<then, polls, erasec>>

(* What rf has read is not followed further.                               *)
ReadBlockFlash(a) ==
  /\ pc = "read"
  /\ IF a = None THEN Goto("failed")
     ELSE /\ Advanced(Min2(ReadSize, left))
          /\ UNCHANGED <<then, polls, erasec, cnt_err, skipped>>

Handles(a) ==
  \/ WriteFlashStatus(a) \/ ReadFlashStatus(a)
  \/ Changed(a) \/ EraseAll(a)
  \/ WaitingFlashReady(a) \/ Verified(a)
  \/ ReadBlockFlash(a)

command == \E a \in Range(inbuf) \cup {None} : Returns(a) /\ Handles(a)

Tool == Send \/ command \/ LoopHead \/ ReadData

-----------------------------------------------------------------------------
(***************************************************************************)
(* The board, the chip and the line.                                       *)
(***************************************************************************)
Covered(c) ==
  CASE c.func = "erase"    -> {u \in Unit : SectorOf(u) = SectorOf(c.at)}
    [] c.func = "eraseall" -> Unit
    [] OTHER               -> {u \in Unit : u - c.at \in 0 .. Len(c.data) - 1}

Erases(c) == c.func \in {"erase", "eraseall"}
Changes(c) == Erases(c) \/ c.func = "write" \/ c.wrsr

(* Linear, also across the border of a page: the board is assumed to split *)
(* the block as the firmware's own flash driver does                       *)
(* (SDK/drivers/8258/flash.c:243-256, tinyFlash.c:258-273).                *)
FlashAfter(c) ==
  [u \in Unit |-> IF u \notin Covered(c) THEN flash[u]
                  ELSE IF Erases(c) THEN 1 ELSE Min2(flash[u], c.data[u - c.at + 1])]

Executed(c) ==
  IF ~Changes(c) \/ busy THEN UNCHANGED chipVars
  ELSE /\ busy' = TRUE
       /\ IF c.wrsr THEN locked' = FALSE /\ UNCHANGED flash
          ELSE flash' = (IF locked THEN flash ELSE FlashAfter(c)) /\ UNCHANGED locked

Answer(c, good) ==
  [func |-> c.func, good |-> good, own |-> c.own, busy |-> busy, locked |-> locked,
   data |-> IF c.func = "crc" THEN [i \in DOMAIN c.data |-> flash[c.at + i - 1]] ELSE << >>]

NextCommand(c) == toBoard # << >> /\ c = Head(toBoard) /\ toBoard' = Tail(toBoard)
Answers(a) == toHost' = Append(toHost, a)
Fault == faults < MaxFaults /\ faults' = faults + 1

Execute ==
  /\ \E c \in Range(toBoard) : NextCommand(c) /\ Executed(c) /\ Answers(Answer(c, TRUE))
  /\ UNCHANGED <<job, toolVars, waiting, inbuf, faults>>

(* Executed, but the answer is damaged, reports an error or is lost.       *)
ExecuteUnconfirmed ==
  /\ Fault
  /\ \E c \in Range(toBoard) :
       NextCommand(c) /\ Executed(c) /\ (Answers(Answer(c, FALSE)) \/ UNCHANGED toHost)
  /\ UNCHANGED <<job, toolVars, waiting, inbuf>>

(* Not executed: refused with an error, or lost.                           *)
NotExecuted ==
  /\ Fault
  /\ \E c \in Range(toBoard) : NextCommand(c) /\ (Answers(Answer(c, FALSE)) \/ UNCHANGED toHost)
  /\ UNCHANGED <<job, toolVars, waiting, inbuf, chipVars>>

(* Confirmed by the board and ignored by the chip.                         *)
Ignored ==
  /\ Fault
  /\ \E c \in Range(toBoard) : NextCommand(c) /\ Changes(c) /\ Answers(Answer(c, TRUE))
  /\ UNCHANGED <<job, toolVars, waiting, inbuf, chipVars>>

Deliver ==
  /\ toHost # << >>
  /\ inbuf' = Append(inbuf, Head(toHost))
  /\ toHost' = Tail(toHost)
  /\ UNCHANGED <<job, toolVars, waiting, toBoard, chipVars, faults>>

BecomesReady ==
  /\ busy /\ busy' = FALSE
  /\ UNCHANGED <<job, toolVars, lineVars, flash, locked, faults>>

Board == Execute \/ ExecuteUnconfirmed \/ NotExecuted \/ Ignored \/ Deliver \/ BecomesReady

Next == Tool \/ Board

Spec == Init /\ [][Next]_vars

(* The program runs on; nothing is asked of the board.                     *)
FairSpec == Spec /\ WF_vars(Tool)

-----------------------------------------------------------------------------
Funcs == {"status", "wrrd", "erase", "eraseall", "write", "crc", "read"}
Command == [func : Funcs, at : Nat, data : Seq(Bit), wrsr : BOOLEAN, own : BOOLEAN]
Reply == [func : Funcs, good : BOOLEAN, own : BOOLEAN, busy : BOOLEAN, locked : BOOLEAN,
          data : Seq(Bit)]
Reasons == {"unlock", "erased", "erase failed", "written", "write failed", "all erased"}

ToolType ==
  /\ job \in Jobs
  /\ pc \in CommandPc \cup {"head", "data", "done", "failed"}
  /\ then \in Reasons
  /\ polls \in 0 .. Polls /\ (pc = "poll" => polls # 0)
  /\ offset \in Nat /\ left \in Nat
  /\ cnt_err \in 1 .. RetryCount
  /\ waiting \in BOOLEAN /\ (waiting => pc \in CommandPc)

LineType ==
  /\ toBoard \in Seq(Command) /\ toHost \in Seq(Reply) /\ inbuf \in Seq(Reply)
  /\ faults \in 0 .. MaxFaults

ChipType == flash \in [Unit -> Bit] /\ busy \in BOOLEAN /\ locked \in BOOLEAN

TypeOK == ToolType /\ LineType /\ ChipType

(***************************************************************************)
(* An answer that comes after its command was given up is never taken for  *)
(* the answer to a later command: no command number tells them apart, only *)
(* the emptied input buffer, the function byte, and that the status is     *)
(* read between any two commands that change the flash                     *)
(* (TlsrPgm.py:219-257, 412-424).                                          *)
(***************************************************************************)
NoLateAnswerTaken == waiting /\ inbuf # << >> /\ Accepts(Head(inbuf)) => Head(inbuf).own

(***************************************************************************)
(* No command reaches the flash while it is still busy with an earlier one *)
(* or locked, also when the earlier one was thought to have failed         *)
(* (TlsrPgm.py:425-440, 716-767, 880-888).                                 *)
(***************************************************************************)
FlashTakesEveryCommand ==
  toBoard # << >> /\ Changes(Head(toBoard)) => ~busy /\ (locked => Head(toBoard).wrsr)

(* The sectors that es, or we for the blocks behind offset a, may erase.   *)
MayErase(u) ==
  CASE job.op = "ea" -> TRUE
    [] job.op = "es" -> SectorOf(u) >= SectorOf(job.start)
                        /\ u < SectorOf(job.start) + Len(job.data) + Sector - 1
    [] job.op = "we" -> SectorOf(u) >= job.start /\ SectorOf(u) < job.start + Len(job.data)
    [] OTHER -> FALSE

(***************************************************************************)
(* What lies outside the region named on the command line stays: before    *)
(* the start of a we even in a sector that it writes to, and behind its    *)
(* end up to the sector that the end lies in, if the board splits a block  *)
(* at the border of a page, as FlashAfter assumes (TlsrPgm.py:710-771).    *)
(***************************************************************************)
OthersUntouched ==
  \A u \in Unit :
    ~MayErase(u) /\ (job.op \in {"we", "wf"} => u - job.start \notin 0 .. Len(job.data) - 1)
      => flash[u] = job.old[u]

(* The bytes of the file, at their addresses.                              *)
Region == {u \in Unit : u - job.start \in 0 .. Len(job.data) - 1}
Wanted(u) == job.data[u - job.start + 1]
BlockOf(u) == u - ((u - job.start) % Page)

Writes == pc = "done" /\ job.op \in {"we", "wf"}

(***************************************************************************)
(* If we ends with success and no command was given up or ignored, the     *)
(* flash holds the file, whatever it held before; from a start inside a    *)
(* sector that holds for the sectors that begin in the file.  (For a start *)
(* on a page boundary; TlsrPgm.py:710-771.)                                *)
(***************************************************************************)
CleanRunWrites ==
  Writes /\ job.op = "we" /\ job.start % Page = 0 /\ skipped = {} /\ faults = 0 =>
    \A u \in Region : SectorOf(u) >= job.start => flash[u] = Wanted(u)

(***************************************************************************)
(* With a board that computes checksums the only blocks that success can   *)
(* leave wrong are those that were given up, and those of 0xFF only: also  *)
(* erasing that failed, or that was confirmed and not done, is noticed.    *)
(* (For a start on a page boundary; TlsrPgm.py:758-765.)                   *)
(***************************************************************************)
VerifiedBlocksWritten ==
  Writes /\ job.verify /\ job.start % Page = 0 =>
    \A u \in Region :
      \/ BlockOf(u) \in skipped
      \/ flash[u] = Wanted(u)
      \/ \A v \in Region : BlockOf(v) = BlockOf(u) => Wanted(v) = 1

(***************************************************************************)
(* The tool comes to an end, even if the board falls silent or the flash   *)
(* stays busy (TlsrPgm.py:412-424).                                        *)
(***************************************************************************)
ToolEnds == <>(pc \in {"done", "failed"})

(***************************************************************************)
(* The help of we: "Write file to Flash with sectors erases"; and          *)
(* ERR_RETRY_COUNT = 3.  So a we that ends with success has written.       *)
(***************************************************************************)
SuccessMeansWritten ==
  Writes /\ job.op = "we" => \A u \in Region : SectorOf(u) >= job.start => flash[u] = Wanted(u)
=============================================================================
