-------------------------- MODULE FlashTool_proofs --------------------------
(***************************************************************************)
(* Proofs about FlashTool for all sizes of blocks, sectors and the flash,  *)
(* all jobs within it, and any number of polls, retries and faults.        *)
(***************************************************************************)
EXTENDS FlashTool, SequenceTheorems, TLAPS

(* Where each kind of job can be, and what its polls can be for.           *)
LoopPcs ==
  CASE job.op = "rf" -> {"read"}
    [] job.op = "ea" -> {"eraseall"}
    [] job.op = "es" -> {"erase", "head"}
    [] job.op = "we" -> {"erase", "head", "data", "write", "crc"}
    [] job.op = "wf" -> {"head", "data", "write", "crc"}
UnlockPcs == {"wren", "wrsr", "rdsr"}
LoopReasons ==
  CASE job.op = "rf" -> {}
    [] job.op = "ea" -> {"all erased"}
    [] job.op = "es" -> {"erased", "erase failed"}
    [] job.op = "we" -> {"erased", "erase failed", "written", "write failed"}
    [] job.op = "wf" -> {"written", "write failed"}

OpInv ==
  IF job.op = "rf" THEN pc \in {"head", "read", "done", "failed"}
  ELSE /\ pc \in LoopPcs \cup UnlockPcs \cup {"poll", "done", "failed"}
       /\ pc = "poll" => then \in LoopReasons \cup {"unlock"}

(* What belongs to the pending command is the last thing on the way.       *)
OwnIsLast ==
  /\ \A i \in DOMAIN inbuf : inbuf[i].own => i = Len(inbuf) /\ toHost = << >> /\ toBoard = << >>
  /\ \A i \in DOMAIN toHost : toHost[i].own => i = Len(toHost) /\ toBoard = << >>
  /\ \A i \in DOMAIN toBoard : toBoard[i].own => i = Len(toBoard)

(* x may be on the way.  What was given up is an erase or a write of one   *)
(* sector or block, and until it has come or is thrown away the tool does  *)
(* nothing but poll.                                                       *)
Fits(x) ==
  \/ pc = "failed"
  \/ pc = "poll" /\ x.func \in {"erase", "write"} /\ (waiting => ~x.own)
  \/ waiting /\ x.own /\ x.func = Func

Expected ==
  /\ \A i \in DOMAIN inbuf : Fits(inbuf[i])
  /\ \A i \in DOMAIN toHost : Fits(toHost[i])
  /\ \A i \in DOMAIN toBoard :
       /\ Fits(toBoard[i])
       /\ toBoard[i].wrsr => pc \in {"wrsr", "failed"} /\ toBoard[i].func = "wrrd"
       /\ pc = "wrsr" => toBoard[i].wrsr

LineInv == OwnIsLast /\ Expected

ChangePcs == {"wrsr", "erase", "eraseall", "write"}

(* A command that changes the flash finds it ready, is the only one, and   *)
(* while the flash is busy the tool waits for such a command, or polls.    *)
BusyInv ==
  /\ busy => pc \in {"poll", "failed"} \/ (pc \in ChangePcs /\ waiting)
  /\ \A i \in DOMAIN toBoard : Changes(toBoard[i]) =>
       ~busy /\ \A j \in DOMAIN toBoard : Changes(toBoard[j]) => j = i

LockInv ==
  /\ locked => job.op = "rf" \/ pc \in UnlockPcs \cup {"failed"} \/ (pc = "poll" /\ then = "unlock")
  /\ \A i \in DOMAIN toBoard : Changes(toBoard[i]) /\ locked => toBoard[i].wrsr

(* A status that the tool still waits for is not out of date.              *)
StatusInv ==
  /\ \A i \in DOMAIN inbuf : inbuf[i].own /\ inbuf[i].func = "status" =>
       (busy => inbuf[i].busy) /\ (locked => inbuf[i].locked)
  /\ \A i \in DOMAIN toHost : toHost[i].own /\ toHost[i].func = "status" =>
       (busy => toHost[i].busy) /\ (locked => toHost[i].locked)



(* Where the loops are, and that there is something left to do.            *)
Count == (Len(job.data) + Sector - 1) \div Sector
Place ==
  IF job.op = "es" THEN offset = SectorOf(job.start) + Sector * (Count - left)
                   ELSE offset + left = job.start + Len(job.data)

Base == IF job.op = "es" THEN SectorOf(job.start) ELSE job.start

PosInv ==
  /\ Place
  /\ offset >= Base
  /\ pc \in {"erase", "data", "write", "crc", "read"} => left # 0
  /\ pc = "poll" /\ then \notin {"unlock", "all erased"} => left # 0

(* The sector in which a we starts counts as erased.                       *)
ErasecInv ==
  job.op = "we" =>
    /\ job.start % Sector # 0 /\ SectorOf(offset) = SectorOf(job.start) => erasec = SectorOf(job.start)
    /\ pc = "erase" => erasec # SectorOf(offset)

Allowed(u) == MayErase(u) \/ (job.op \in {"we", "wf"} /\ u - job.start \in 0 .. Len(job.data) - 1)

CoverInv ==
  \A i \in DOMAIN toBoard : \A u \in Unit :
    Changes(toBoard[i]) /\ ~toBoard[i].wrsr /\ u \in Covered(toBoard[i]) => Allowed(u)

(* What is to be compared lies in the flash.                               *)
CrcInv ==
  \A i \in DOMAIN toBoard :
    toBoard[i].func = "crc" => toBoard[i].at + Len(toBoard[i].data) <= Size


-----------------------------------------------------------------------------
(***************************************************************************)
(* Sequences of commands and answers.                                      *)
(***************************************************************************)

(* What is left when the first element has been taken.                     *)
LEMMA TailElements ==
  ASSUME NEW S, NEW s \in Seq(S), s # << >>
  PROVE  /\ Head(s) \in S /\ Tail(s) \in Seq(S) /\ 1 \in DOMAIN s /\ Head(s) = s[1]
         /\ Len(Tail(s)) = Len(s) - 1
         /\ Len(s) = 1 => Tail(s) = << >>
         /\ \A i \in DOMAIN Tail(s) : i + 1 \in DOMAIN s /\ Tail(s)[i] = s[i + 1]
<1>1. Head(s) \in S /\ Tail(s) \in Seq(S) /\ Len(Tail(s)) = Len(s) - 1
      /\ Head(s) = s[1] /\ \A i \in 1 .. Len(Tail(s)) : Tail(s)[i] = s[i + 1]
  BY HeadTailProperties
<1>2. Len(s) \in Nat /\ DOMAIN s = 1 .. Len(s) /\ Len(s) # 0
  BY LenProperties, EmptySeq
<1>3. Len(Tail(s)) \in Nat /\ DOMAIN Tail(s) = 1 .. Len(Tail(s))
  BY <1>1, LenProperties
<1>4. Len(s) = 1 => Tail(s) = << >>
  <2> SUFFICES ASSUME Len(s) = 1, Tail(s) # << >> PROVE FALSE
    OBVIOUS
  <2>1. Len(Tail(s)) \in Nat \ {0}
    BY <1>1, EmptySeq
  <2>2. QED
    BY <1>1, <2>1
<1>5. QED
  BY <1>1, <1>2, <1>3, <1>4

(* What there is when an element has been put behind the others.           *)
LEMMA AppendElements ==
  ASSUME NEW S, NEW s \in Seq(S), NEW x \in S
  PROVE  /\ Append(s, x) \in Seq(S) /\ Len(Append(s, x)) = Len(s) + 1
         /\ \A i \in DOMAIN Append(s, x) :
              \/ i \in DOMAIN s /\ Append(s, x)[i] = s[i]
              \/ i = Len(s) + 1 /\ Append(s, x)[i] = x
BY AppendProperties

(* Disowned commands differ in nothing else.                               *)
LEMMA DisownedCommands ==
  ASSUME NEW s \in Seq(Command)
  PROVE  /\ Disowned(s) \in Seq(Command) /\ Len(Disowned(s)) = Len(s)
         /\ DOMAIN Disowned(s) = DOMAIN s
         /\ \A i \in DOMAIN s :
              /\ ~Disowned(s)[i].own
              /\ Disowned(s)[i].func = s[i].func /\ Disowned(s)[i].at = s[i].at
              /\ Disowned(s)[i].data = s[i].data /\ Disowned(s)[i].wrsr = s[i].wrsr
<1>1. DOMAIN s = 1 .. Len(s) /\ Len(s) \in Nat
  BY LenProperties
<1>2. \A i \in DOMAIN s : s[i] \in Command
  BY ElementOfSeq, <1>1
<1>3. \A c \in Command :
        /\ [c EXCEPT !.own = FALSE] \in Command
        /\ ~[c EXCEPT !.own = FALSE].own
        /\ [c EXCEPT !.own = FALSE].func = c.func /\ [c EXCEPT !.own = FALSE].at = c.at
        /\ [c EXCEPT !.own = FALSE].data = c.data /\ [c EXCEPT !.own = FALSE].wrsr = c.wrsr
  BY DEF Command
<1>4. Disowned(s) = [i \in 1 .. Len(s) |-> [s[i] EXCEPT !.own = FALSE]]
  BY <1>1 DEF Disowned
<1>5. \A i \in 1 .. Len(s) : [s[i] EXCEPT !.own = FALSE] \in Command
  BY <1>1, <1>2, <1>3
<1>6. Disowned(s) \in Seq(Command)
  BY <1>1, <1>4, <1>5, IsASeq
<1>7. DOMAIN Disowned(s) = DOMAIN s
  BY <1>1, <1>4
<1>8. Len(Disowned(s)) = Len(s)
  BY <1>1, <1>6, <1>7, LenProperties
<1>9. \A i \in DOMAIN s : Disowned(s)[i] = [s[i] EXCEPT !.own = FALSE]
  BY <1>1, <1>4
<1>10. QED
  BY <1>2, <1>3, <1>6, <1>7, <1>8, <1>9

(* Nor do disowned answers.                                                *)
LEMMA DisownedReplies ==
  ASSUME NEW s \in Seq(Reply)
  PROVE  /\ Disowned(s) \in Seq(Reply) /\ Len(Disowned(s)) = Len(s)
         /\ DOMAIN Disowned(s) = DOMAIN s
         /\ \A i \in DOMAIN s : ~Disowned(s)[i].own /\ Disowned(s)[i].func = s[i].func
<1>1. DOMAIN s = 1 .. Len(s) /\ Len(s) \in Nat
  BY LenProperties
<1>2. \A i \in DOMAIN s : s[i] \in Reply
  BY ElementOfSeq, <1>1
<1>3. \A a \in Reply :
        /\ [a EXCEPT !.own = FALSE] \in Reply
        /\ ~[a EXCEPT !.own = FALSE].own /\ [a EXCEPT !.own = FALSE].func = a.func
  BY DEF Reply
<1>4. Disowned(s) = [i \in 1 .. Len(s) |-> [s[i] EXCEPT !.own = FALSE]]
  BY <1>1 DEF Disowned
<1>5. \A i \in 1 .. Len(s) : [s[i] EXCEPT !.own = FALSE] \in Reply
  BY <1>1, <1>2, <1>3
<1>6. Disowned(s) \in Seq(Reply)
  BY <1>1, <1>4, <1>5, IsASeq
<1>7. DOMAIN Disowned(s) = DOMAIN s
  BY <1>1, <1>4
<1>8. Len(Disowned(s)) = Len(s)
  BY <1>1, <1>6, <1>7, LenProperties
<1>9. \A i \in DOMAIN s : Disowned(s)[i] = [s[i] EXCEPT !.own = FALSE]
  BY <1>1, <1>4
<1>10. QED
  BY <1>2, <1>3, <1>6, <1>7, <1>8, <1>9

-----------------------------------------------------------------------------
(***************************************************************************)
(* How a command ends.                                                     *)
(***************************************************************************)

(* The elements of the three sequences, and where they are.                *)
LEMMA Elements ==
  ASSUME LineType
  PROVE  /\ toBoard \in Seq(Command) /\ toHost \in Seq(Reply) /\ inbuf \in Seq(Reply)
         /\ \A i \in DOMAIN toBoard : toBoard[i] \in Command /\ i \in 1 .. Len(toBoard)
         /\ \A i \in DOMAIN toHost : toHost[i] \in Reply /\ i \in 1 .. Len(toHost)
         /\ \A i \in DOMAIN inbuf : inbuf[i] \in Reply /\ i \in 1 .. Len(inbuf)
         /\ Len(toBoard) \in Nat /\ Len(toHost) \in Nat /\ Len(inbuf) \in Nat
<1>1. toBoard \in Seq(Command) /\ toHost \in Seq(Reply) /\ inbuf \in Seq(Reply)
  BY DEF LineType
<1>2. /\ DOMAIN toBoard = 1 .. Len(toBoard) /\ Len(toBoard) \in Nat
      /\ DOMAIN toHost = 1 .. Len(toHost) /\ Len(toHost) \in Nat
      /\ DOMAIN inbuf = 1 .. Len(inbuf) /\ Len(inbuf) \in Nat
  BY <1>1, LenProperties
<1>3. QED
  BY <1>1, <1>2, ElementOfSeq

(* What is accepted belongs to the command that waits, and nothing else is *)
(* on the way.                                                             *)
LEMMA AcceptedIsOwn ==
  ASSUME TypeOK, LineInv, waiting, inbuf # << >>, Accepts(Head(inbuf))
  PROVE  /\ Head(inbuf).own /\ Head(inbuf).func = Func /\ Tail(inbuf) = << >>
         /\ toHost = << >> /\ toBoard = << >>
         /\ 1 \in DOMAIN inbuf /\ Head(inbuf) = inbuf[1]
<1>1. inbuf \in Seq(Reply)
  BY DEF TypeOK, LineType
<1>2. 1 \in DOMAIN inbuf /\ Head(inbuf) = inbuf[1] /\ (Len(inbuf) = 1 => Tail(inbuf) = << >>)
  BY <1>1, TailElements
<1>3. Fits(inbuf[1])
  BY <1>2 DEF LineInv, Expected
<1>4. inbuf[1].func = Func
  BY <1>2 DEF Accepts
<1>5. pc # "failed"
  BY DEF TypeOK, ToolType, CommandPc
<1>6. ~(pc = "poll" /\ inbuf[1].func \in {"erase", "write"})
  BY <1>4 DEF Func
<1>7. inbuf[1].own
  BY <1>3, <1>5, <1>6 DEF Fits
<1>8. Len(inbuf) = 1 /\ toHost = << >> /\ toBoard = << >>
  BY <1>2, <1>7 DEF LineInv, OwnIsLast
<1>9. QED
  BY <1>2, <1>4, <1>7, <1>8

(* Either the answer was accepted, and nothing is on the way any more, or  *)
(* the command has failed, and at most one answer is out of the way.       *)
Accepted(a) ==
  /\ inbuf # << >> /\ a = inbuf[1] /\ 1 \in DOMAIN inbuf /\ a.own /\ a.func = Func
  /\ inbuf' = << >> /\ toHost' = << >> /\ toBoard' = << >>
GivenUp(a) ==
  /\ a = None
  /\ inbuf' = inbuf \/ (inbuf # << >> /\ inbuf' = Tail(inbuf))
  /\ toHost' = toHost /\ toBoard' = toBoard

(* Every command ends in one of the two ways.                              *)
LEMMA ReturnsFacts ==
  ASSUME TypeOK, LineInv, NEW a, Returns(a)
  PROVE  /\ waiting /\ waiting' = FALSE
         /\ Accepted(a) \/ GivenUp(a)
         /\ job' = job /\ flash' = flash /\ busy' = busy /\ locked' = locked /\ faults' = faults
<1>1. /\ waiting /\ waiting' = FALSE /\ toHost' = toHost /\ toBoard' = toBoard
      /\ job' = job /\ flash' = flash /\ busy' = busy /\ locked' = locked /\ faults' = faults
  BY DEF Returns, chipVars
<1>2. CASE inbuf = << >>
  <2>1. a = None /\ inbuf' = inbuf
    BY <1>2 DEF Returns
  <2>2. QED
    BY <1>1, <2>1 DEF GivenUp
<1>3. CASE inbuf # << >> /\ Accepts(Head(inbuf))
  <2>1. a = Head(inbuf) /\ inbuf' = Tail(inbuf)
    BY <1>3 DEF Returns
  <2>2. QED
    BY <1>1, <1>3, <2>1, AcceptedIsOwn DEF Accepted
<1>4. CASE inbuf # << >> /\ ~Accepts(Head(inbuf))
  <2>1. a = None /\ inbuf' = Tail(inbuf)
    BY <1>4 DEF Returns
  <2>2. QED
    BY <1>1, <1>4, <2>1 DEF GivenUp
<1>5. QED
  BY <1>2, <1>3, <1>4

(* A failed command ends the program, except for an erase or a write,      *)
(* after which the tool waits for the flash like after a successful one.   *)
LEMMA AfterFailure ==
  ASSUME Handles(None)
  PROVE  \/ pc' = "failed" /\ then' = then
         \/ pc = "erase" /\ pc' = "poll" /\ then' = "erase failed"
         \/ pc = "write" /\ pc' = "poll" /\ then' = "write failed"
<1>1. CASE WriteFlashStatus(None)
  BY <1>1 DEF WriteFlashStatus, Goto
<1>2. CASE ReadFlashStatus(None)
  BY <1>2 DEF ReadFlashStatus, Goto
<1>3. CASE Changed(None)
  BY <1>3 DEF Changed, Wait
<1>4. CASE EraseAll(None)
  BY <1>4 DEF EraseAll, Goto
<1>5. CASE WaitingFlashReady(None)
  BY <1>5 DEF WaitingFlashReady, Goto
<1>6. CASE Verified(None)
  BY <1>6 DEF Verified, Goto
<1>7. CASE ReadBlockFlash(None)
  BY <1>7 DEF ReadBlockFlash, Goto
<1>8. QED
  BY <1>1, <1>2, <1>3, <1>4, <1>5, <1>6, <1>7 DEF Handles

(* What follows the end of the wait for the flash.                         *)
LEMMA WhenReady ==
  ASSUME FlashIsReady, ToolType
  PROVE  \/ pc' = "failed" /\ then' = then
         \/ then = "unlock" /\ pc' = "rdsr"
         \/ then = "all erased" /\ pc' = "done"
         \/ then = "written" /\ pc' = "crc"
         \/ then \in {"erased", "erase failed"} /\ job.op = "es" /\ pc' = "head"
         \/ then \in {"erased", "erase failed"} /\ job.op # "es" /\ pc' = "data"
         \/ then \in {"written", "write failed"} /\ pc' = "head"
<1>1. then \in Reasons
  BY DEF ToolType
<1>2. CASE then \in {"erased", "erase failed"} /\ ~(Failed /\ LastTry)
  <2>1. AfterErase
    BY <1>2 DEF FlashIsReady
  <2>2. QED
    BY <1>2, <2>1 DEF AfterErase
<1>3. CASE then \in {"written", "write failed"} /\ ~(Failed /\ LastTry) /\ ~(then = "written" /\ job.verify)
  <2>1. Advanced(BlockLen)
    BY <1>3 DEF FlashIsReady
  <2>2. QED
    BY <1>3, <2>1 DEF Advanced
<1>4. CASE Failed /\ LastTry
  <2>1. Goto("failed")
    BY <1>4 DEF FlashIsReady, Failed
  <2>2. QED
    BY <2>1 DEF Goto
<1>5. CASE then = "unlock"
  BY <1>5 DEF FlashIsReady, Goto
<1>6. CASE then = "all erased"
  BY <1>6 DEF FlashIsReady, Goto
<1>7. CASE then = "written" /\ job.verify
  BY <1>7 DEF FlashIsReady, Goto
<1>8. QED
  BY <1>1, <1>2, <1>3, <1>4, <1>5, <1>6, <1>7 DEF Reasons

(* Where a command leads.                                                  *)
LEMMA AfterAnswer ==
  ASSUME NEW a, Handles(a), ToolType
  PROVE  \/ pc' = "failed" /\ then' = then
         \/ pc = "wren" /\ pc' = "wrsr"
         \/ pc = "wrsr" /\ pc' = "poll" /\ then' = "unlock"
         \/ pc = "erase" /\ pc' = "poll" /\ then' \in {"erased", "erase failed"}
         \/ pc = "write" /\ pc' = "poll" /\ then' \in {"written", "write failed"}
         \/ pc = "eraseall" /\ pc' = "poll" /\ then' = "all erased"
         \/ pc = "rdsr" /\ a # None /\ Unlocked(a) /\ job.op = "ea" /\ pc' = "eraseall"
         \/ pc = "rdsr" /\ a # None /\ Unlocked(a) /\ job.op # "ea" /\ pc' = "head"
         \/ pc = "crc" /\ pc' = "head"
         \/ pc = "read" /\ pc' = "head"
         \/ pc = "poll" /\ pc' = "poll" /\ then' = then
         \/ pc = "poll" /\ a # None /\ ~a.busy /\ FlashIsReady
<1>1. CASE WriteFlashStatus(a)
  BY <1>1 DEF WriteFlashStatus, Goto, Wait
<1>2. CASE ReadFlashStatus(a)
  BY <1>2 DEF ReadFlashStatus, Goto
<1>3. CASE Changed(a)
  BY <1>3 DEF Changed, Wait
<1>4. CASE EraseAll(a)
  BY <1>4 DEF EraseAll, Goto, Wait
<1>5. CASE WaitingFlashReady(a)
  BY <1>5 DEF WaitingFlashReady, Goto, Polled
<1>6. CASE Verified(a)
  BY <1>6 DEF Verified, Goto, Advanced
<1>7. CASE ReadBlockFlash(a)
  BY <1>7 DEF ReadBlockFlash, Goto, Advanced
<1>8. QED
  BY <1>1, <1>2, <1>3, <1>4, <1>5, <1>6, <1>7 DEF Handles

-----------------------------------------------------------------------------
(***************************************************************************)
(* The invariants, one after the other.                                    *)
(***************************************************************************)

(* A step of the board leaves the tool alone.                              *)
LEMMA BoardFacts ==
  ASSUME Board
  PROVE  /\ job' = job /\ pc' = pc /\ then' = then /\ polls' = polls /\ waiting' = waiting
         /\ offset' = offset /\ left' = left /\ erasec' = erasec /\ cnt_err' = cnt_err
         /\ skipped' = skipped
BY DEF Board, Execute, ExecuteUnconfirmed, NotExecuted, Ignored, Deliver, BecomesReady,
       toolVars, loopVars, lineVars

(* The four things that can happen to a command on the line.               *)
Served ==
  /\ toBoard # << >> /\ toBoard' = Tail(toBoard) /\ inbuf' = inbuf
  /\ toHost' = toHost \/ \E g \in BOOLEAN : toHost' = Append(toHost, Answer(Head(toBoard), g))
  /\ Executed(Head(toBoard)) \/ (flash' = flash /\ busy' = busy /\ locked' = locked)
  /\ faults' = faults \/ (faults < MaxFaults /\ faults' = faults + 1)

(* Every step of the board is one of three.                                *)
LEMMA BoardMoves ==
  ASSUME Board
  PROVE  \/ Served
         \/ Deliver
         \/ BecomesReady
<1>1. CASE Execute
  <2>1. PICK c \in Range(toBoard) : NextCommand(c) /\ Executed(c) /\ Answers(Answer(c, TRUE))
    BY <1>1 DEF Execute
  <2>2. c = Head(toBoard) /\ toBoard # << >> /\ toBoard' = Tail(toBoard)
    BY <2>1 DEF NextCommand
  <2>3. toHost' = Append(toHost, Answer(Head(toBoard), TRUE))
    BY <2>1, <2>2 DEF Answers
  <2>4. inbuf' = inbuf /\ faults' = faults
    BY <1>1 DEF Execute
  <2>5. QED
    BY <2>1, <2>2, <2>3, <2>4 DEF Served
<1>2. CASE ExecuteUnconfirmed
  <2>1. PICK c \in Range(toBoard) :
          NextCommand(c) /\ Executed(c) /\ (Answers(Answer(c, FALSE)) \/ UNCHANGED toHost)
    BY <1>2 DEF ExecuteUnconfirmed
  <2>2. c = Head(toBoard) /\ toBoard # << >> /\ toBoard' = Tail(toBoard)
    BY <2>1 DEF NextCommand
  <2>3. toHost' = Append(toHost, Answer(Head(toBoard), FALSE)) \/ toHost' = toHost
    BY <2>1, <2>2 DEF Answers
  <2>4. inbuf' = inbuf /\ faults < MaxFaults /\ faults' = faults + 1
    BY <1>2 DEF ExecuteUnconfirmed, Fault
  <2>5. QED
    BY <2>1, <2>2, <2>3, <2>4 DEF Served
<1>3. CASE NotExecuted
  <2>1. PICK c \in Range(toBoard) :
          NextCommand(c) /\ (Answers(Answer(c, FALSE)) \/ UNCHANGED toHost)
    BY <1>3 DEF NotExecuted
  <2>2. c = Head(toBoard) /\ toBoard # << >> /\ toBoard' = Tail(toBoard)
    BY <2>1 DEF NextCommand
  <2>3. toHost' = Append(toHost, Answer(Head(toBoard), FALSE)) \/ toHost' = toHost
    BY <2>1, <2>2 DEF Answers
  <2>4. inbuf' = inbuf /\ faults < MaxFaults /\ faults' = faults + 1
        /\ flash' = flash /\ busy' = busy /\ locked' = locked
    BY <1>3 DEF NotExecuted, Fault, chipVars
  <2>5. QED
    BY <2>2, <2>3, <2>4 DEF Served
<1>4. CASE Ignored
  <2>1. PICK c \in Range(toBoard) : NextCommand(c) /\ Changes(c) /\ Answers(Answer(c, TRUE))
    BY <1>4 DEF Ignored
  <2>2. c = Head(toBoard) /\ toBoard # << >> /\ toBoard' = Tail(toBoard)
    BY <2>1 DEF NextCommand
  <2>3. toHost' = Append(toHost, Answer(Head(toBoard), TRUE))
    BY <2>1, <2>2 DEF Answers
  <2>4. inbuf' = inbuf /\ faults < MaxFaults /\ faults' = faults + 1
        /\ flash' = flash /\ busy' = busy /\ locked' = locked
    BY <1>4 DEF Ignored, Fault, chipVars
  <2>5. QED
    BY <2>2, <2>3, <2>4 DEF Served
<1>5. QED
  BY <1>1, <1>2, <1>3, <1>4 DEF Board

(* What a tool step other than the end of a command changes.               *)
LEMMA SendFacts ==
  ASSUME Send
  PROVE  /\ ~waiting /\ pc \in CommandPc /\ waiting' = TRUE /\ inbuf' = << >>
         /\ toBoard' = Append(Disowned(toBoard), Cmd) /\ toHost' = Disowned(toHost)
         /\ job' = job /\ pc' = pc /\ then' = then /\ polls' = polls
         /\ offset' = offset /\ left' = left /\ erasec' = erasec /\ cnt_err' = cnt_err
         /\ flash' = flash /\ busy' = busy /\ locked' = locked /\ faults' = faults
BY DEF Send, toolVars, loopVars, chipVars

(* What a step of the loops leaves alone.                                  *)
LEMMA LoopFacts ==
  ASSUME LoopHead \/ ReadData
  PROVE  /\ job' = job /\ then' = then /\ polls' = polls /\ erasec' = erasec /\ cnt_err' = cnt_err
         /\ waiting' = waiting /\ inbuf' = inbuf /\ toHost' = toHost /\ toBoard' = toBoard
         /\ flash' = flash /\ busy' = busy /\ locked' = locked /\ faults' = faults
BY DEF LoopHead, ReadData, Goto, Advanced, loopVars, lineVars, chipVars

(* Where the loops lead.                                                   *)
LEMMA LoopMoves ==
  ASSUME LoopHead \/ ReadData
  PROVE  \/ pc = "head" /\ pc' = "done"
         \/ pc = "head" /\ job.op = "rf" /\ pc' = "read"
         \/ pc = "head" /\ job.op \in {"es", "we"} /\ pc' = "erase"
         \/ pc = "head" /\ job.op \notin {"rf", "es"} /\ pc' = "data"
         \/ pc = "data" /\ pc' \in {"write", "head"}
<1>1. CASE LoopHead
  <2>1. CASE left = 0
    BY <1>1, <2>1 DEF LoopHead, Goto
  <2>2. CASE left # 0
    BY <1>1, <2>2 DEF LoopHead, Goto
  <2>3. QED
    BY <2>1, <2>2
<1>2. CASE ReadData
  BY <1>2 DEF ReadData, Goto, Advanced
<1>3. QED
  BY <1>1, <1>2

(* The job is an operation of the program and stays the same.              *)
LEMMA JobFacts ==
  ASSUME FlashToolAssumption, ToolType
  PROVE  job \in Job /\ job.op \in Ops /\ job.start \in Unit /\ job.data \in Seq(Bit)
         /\ job.start + Len(job.data) <= Size
BY DEF FlashToolAssumption, ToolType, Job

(* No step changes the job.                                                *)
LEMMA JobStays ==
  ASSUME [Next]_vars
  PROVE  job' = job
<1>1. CASE Board
  BY <1>1, BoardFacts
<1>2. CASE command
  BY <1>2 DEF command, Returns
<1>3. QED
  BY <1>1, <1>2, SendFacts, LoopFacts DEF Next, Tool, vars

(* Each job keeps to its own part of the program.                          *)
LEMMA OpInvStep ==
  ASSUME FlashToolAssumption, ToolType, OpInv, [Next]_vars
  PROVE  OpInv'
<1>1. job' = job /\ job.op \in Ops
  BY JobStays, JobFacts
<1>2. CASE pc' = pc /\ then' = then
  BY <1>1, <1>2 DEF OpInv, LoopPcs, LoopReasons, UnlockPcs
<1>3. CASE LoopHead \/ ReadData
  <2>1. CASE job.op = "rf"
    BY <1>1, <1>3, <2>1, LoopMoves DEF OpInv
  <2>2. CASE job.op \in {"ea", "es", "we", "wf"}
    BY <1>1, <1>3, <2>2, LoopMoves DEF OpInv, LoopPcs, UnlockPcs
  <2>3. QED
    BY <1>1, <2>1, <2>2 DEF Ops
<1>4. CASE command
  <2>1. PICK a : Handles(a)
    BY <1>4 DEF command
  <2>2. CASE pc = "poll" /\ FlashIsReady
    BY <1>1, <2>2, WhenReady DEF OpInv, LoopPcs, LoopReasons, UnlockPcs, Ops
  <2>3. CASE ~(pc = "poll" /\ FlashIsReady)
    BY <1>1, <2>1, <2>3, AfterAnswer DEF OpInv, LoopPcs, LoopReasons, UnlockPcs, Ops
  <2>4. QED
    BY <2>2, <2>3
<1>5. CASE Send
  BY <1>2, <1>5, SendFacts
<1>6. CASE Board
  BY <1>2, <1>6, BoardFacts
<1>7. CASE UNCHANGED vars
  BY <1>2, <1>7 DEF vars, toolVars
<1>8. QED
  BY <1>3, <1>4, <1>5, <1>6, <1>7 DEF Next, Tool

-----------------------------------------------------------------------------
(***************************************************************************)
(* The loops.                                                              *)
(***************************************************************************)

(* A block fits into what is left.                                         *)
LEMMA MinFacts ==
  ASSUME NEW a \in Nat, NEW b \in Nat
  PROVE  Min2(a, b) \in Nat /\ Min2(a, b) <= a /\ Min2(a, b) <= b
BY DEF Min2

(* What the end of the wait for the flash does to the variables of the     *)
(* loops.                                                                  *)
Stays == offset' = offset /\ left' = left /\ erasec' = erasec
NextSector == offset' = offset + Sector /\ left' = left - 1 /\ erasec' = erasec
SectorErased == offset' = offset /\ left' = left /\ erasec' = SectorOf(offset)
Forward(n) == offset' = offset + n /\ left' = left - n /\ erasec' = erasec

(* The next place, and the position in the file.                           *)
LEMMA ReadyFacts ==
  ASSUME FlashToolAssumption, ToolType, FlashIsReady
  PROVE  /\ polls' = polls /\ then' = then /\ cnt_err' \in 1 .. RetryCount
         /\ \/ Stays /\ pc' \in {"failed", "rdsr", "done"}
            \/ Stays /\ pc' = "crc" /\ then = "written"
            \/ NextSector /\ pc' = "head" /\ job.op = "es" /\ then \in {"erased", "erase failed"}
            \/ SectorErased /\ pc' = "data" /\ job.op # "es" /\ then \in {"erased", "erase failed"}
            \/ Forward(BlockLen) /\ pc' = "head" /\ then \in {"written", "write failed"}
<1>1. then \in Reasons /\ cnt_err \in 1 .. RetryCount /\ RetryCount \in Nat \ {0}
  BY DEF ToolType, FlashToolAssumption
<1>2. ASSUME GoesOn(~Failed), ~(Failed /\ LastTry)
      PROVE  cnt_err' \in 1 .. RetryCount
  BY <1>1, <1>2 DEF GoesOn, LastTry
<1>3. CASE then \in {"erased", "erase failed"} /\ ~(Failed /\ LastTry)
  <2>1. AfterErase /\ GoesOn(~Failed) /\ then' = then /\ polls' = polls
    BY <1>3 DEF FlashIsReady
  <2>2. CASE job.op = "es"
    BY <1>2, <1>3, <2>1, <2>2 DEF AfterErase, NextSector
  <2>3. CASE job.op # "es"
    BY <1>2, <1>3, <2>1, <2>3 DEF AfterErase, ErasecAfter, SectorErased
  <2>4. QED
    BY <2>2, <2>3
<1>4. CASE then \in {"written", "write failed"} /\ ~(Failed /\ LastTry) /\ ~(then = "written" /\ job.verify)
  <2>1. Advanced(BlockLen) /\ erasec' = erasec /\ GoesOn(~Failed) /\ then' = then /\ polls' = polls
    BY <1>4 DEF FlashIsReady
  <2>2. QED
    BY <1>2, <1>4, <2>1 DEF Advanced, Forward
<1>5. CASE Failed /\ LastTry
  <2>1. Goto("failed")
    BY <1>5 DEF FlashIsReady, Failed
  <2>2. QED
    BY <1>1, <2>1 DEF Goto, loopVars, Stays
<1>6. CASE then = "unlock" \/ then = "all erased"
  <2>1. Goto("rdsr") \/ Goto("done")
    BY <1>6 DEF FlashIsReady, Failed
  <2>2. QED
    BY <1>1, <2>1 DEF Goto, loopVars, Stays
<1>7. CASE then = "written" /\ job.verify
  <2>1. Goto("crc")
    BY <1>7 DEF FlashIsReady, Failed
  <2>2. QED
    BY <1>1, <1>7, <2>1 DEF Goto, loopVars, Stays
<1>8. QED
  BY <1>1, <1>3, <1>4, <1>5, <1>6, <1>7 DEF Reasons

(* The same for the end of any command.                                    *)
LEMMA AnswerFacts ==
  ASSUME FlashToolAssumption, ToolType, NEW a, Handles(a)
  PROVE  /\ cnt_err' \in 1 .. RetryCount /\ then' \in Reasons
         /\ polls' \in 0 .. Polls /\ (pc' = "poll" => polls' # 0)
         /\ \/ pc # "poll" /\ Stays /\ pc' \in {"failed", "wrsr", "eraseall", "head"}
            \/ pc \in {"wrsr", "eraseall"} /\ Stays /\ pc' = "poll" /\ then' \in {"unlock", "all erased"}
            \/ pc \in {"erase", "write"} /\ Stays /\ pc' = "poll"
            \/ pc = "crc" /\ Forward(BlockLen) /\ pc' = "head"
            \/ pc = "read" /\ Forward(Min2(ReadSize, left)) /\ pc' = "head"
            \/ pc = "poll" /\ Stays /\ pc' = "failed"
            \/ pc = "poll" /\ Stays /\ pc' = "poll" /\ then' = then
            \/ pc = "poll" /\ FlashIsReady
<1>1. /\ then \in Reasons /\ cnt_err \in 1 .. RetryCount /\ RetryCount \in Nat \ {0}
      /\ polls \in 0 .. Polls /\ Polls \in Nat \ {0} /\ (pc = "poll" => polls # 0)
  BY DEF ToolType, FlashToolAssumption
<1>2. ASSUME NEW l, Goto(l), l # "poll" \/ pc = "poll"
      PROVE  /\ Stays /\ pc' = l /\ then' = then /\ then' \in Reasons /\ cnt_err' \in 1 .. RetryCount
             /\ polls' \in 0 .. Polls /\ (pc' = "poll" => polls' # 0)
  BY <1>1, <1>2 DEF Goto, loopVars, Stays
<1>3. ASSUME NEW r \in Reasons, Wait(r)
      PROVE  /\ Stays /\ pc' = "poll" /\ then' = r /\ then' \in Reasons /\ cnt_err' \in 1 .. RetryCount
             /\ polls' \in 0 .. Polls /\ polls' # 0
  <2>1. pc' = "poll" /\ then' = r /\ polls' = Polls /\ Stays /\ cnt_err' = cnt_err
    BY <1>3 DEF Wait, loopVars, Stays
  <2>2. QED
    BY <1>1, <2>1
<1>4. CASE WriteFlashStatus(a)
  <2>1. \/ pc = "wren" /\ (Goto("failed") \/ Goto("wrsr"))
        \/ pc = "wrsr" /\ (Goto("failed") \/ Wait("unlock"))
    BY <1>4 DEF WriteFlashStatus
  <2>2. "unlock" \in Reasons
    BY DEF Reasons
  <2>3. QED
    BY <1>2, <1>3, <2>1, <2>2
<1>5. CASE ReadFlashStatus(a)
  BY <1>1, <1>5 DEF ReadFlashStatus, Goto, loopVars, Stays
<1>6. CASE Changed(a)
  <2>1. pc \in {"erase", "write"} /\ \E r \in Reasons : Wait(r)
    BY <1>6 DEF Changed, Reasons
  <2>2. QED
    BY <1>3, <2>1
<1>7. CASE EraseAll(a)
  <2>1. pc = "eraseall" /\ (Goto("failed") \/ Wait("all erased"))
    BY <1>7 DEF EraseAll
  <2>2. "all erased" \in Reasons
    BY DEF Reasons
  <2>3. QED
    BY <1>2, <1>3, <2>1, <2>2
<1>8. CASE WaitingFlashReady(a)
  <2>1. CASE a = None
    BY <1>1, <1>8, <2>1 DEF WaitingFlashReady, Goto, loopVars, Stays
  <2>2. CASE a # None /\ a.busy
    BY <1>1, <1>8, <2>2 DEF WaitingFlashReady, Polled, loopVars, Stays
  <2>3. CASE a # None /\ ~a.busy
    <3>1. FlashIsReady /\ pc = "poll"
      BY <1>8, <2>3 DEF WaitingFlashReady, Polled
    <3>2. polls' = polls /\ then' = then /\ cnt_err' \in 1 .. RetryCount /\ pc' # "poll"
      BY <3>1, ReadyFacts
    <3>3. QED
      BY <1>1, <3>1, <3>2
  <2>4. QED
    BY <2>1, <2>2, <2>3
<1>9. CASE Verified(a)
  <2>1. CASE a = None \/ ~Matches(a)
    BY <1>1, <1>9, <2>1 DEF Verified, Goto, loopVars, Stays
  <2>2. CASE ~(a = None \/ ~Matches(a))
    <3>1. pc = "crc" /\ GoesOn(TRUE) /\ Advanced(BlockLen) /\ then' = then /\ polls' = polls
          /\ erasec' = erasec
      BY <1>9, <2>2 DEF Verified
    <3>2. QED
      BY <1>1, <3>1 DEF GoesOn, Advanced, Forward
  <2>3. QED
    BY <2>1, <2>2
<1>10. CASE ReadBlockFlash(a)
  <2>1. CASE a = None
    BY <1>1, <1>10, <2>1 DEF ReadBlockFlash, Goto, loopVars, Stays
  <2>2. CASE a # None
    BY <1>1, <1>10, <2>2 DEF ReadBlockFlash, Advanced, Forward
  <2>3. QED
    BY <2>1, <2>2
<1>11. QED
  BY <1>4, <1>5, <1>6, <1>7, <1>8, <1>9, <1>10 DEF Handles

(* The head of a loop looks at what is left; only a block of ones is       *)
(* passed over.                                                            *)
LEMMA HeadFacts ==
  ASSUME LoopHead \/ ReadData
  PROVE  \/ pc = "head" /\ Stays /\ pc' = "done"
         \/ pc = "head" /\ Stays /\ left # 0 /\ pc' \in {"read", "data"}
         \/ pc = "head" /\ Stays /\ left # 0 /\ pc' = "erase"
            /\ (job.op = "we" => erasec # SectorOf(offset))
         \/ pc = "data" /\ Stays /\ pc' = "write"
         \/ pc = "data" /\ Forward(BlockLen) /\ pc' = "head"
<1>1. CASE LoopHead
  <2>1. CASE left = 0
    BY <1>1, <2>1 DEF LoopHead, Goto, loopVars, Stays
  <2>2. CASE left # 0
    BY <1>1, <2>2 DEF LoopHead, Goto, loopVars, Stays
  <2>3. QED
    BY <2>1, <2>2
<1>2. CASE ReadData
  <2>1. CASE 0 \in Range(Block(Page))
    BY <1>2, <2>1 DEF ReadData, Goto, loopVars, Stays
  <2>2. CASE 0 \notin Range(Block(Page))
    BY <1>2, <2>2 DEF ReadData, Advanced, Forward
  <2>3. QED
    BY <2>1, <2>2
<1>3. QED
  BY <1>1, <1>2

(* All steps of the loops in one: every one either leaves the position, or *)
(* goes on by a block that is left, or (es) by a sector.                   *)
LEMMA LoopSteps ==
  ASSUME FlashToolAssumption, ToolType, OpInv, PosInv, [Next]_vars
  PROVE  \/ Stays
         \/ SectorErased /\ job.op # "es" /\ pc' = "data" /\ left # 0
         \/ NextSector /\ job.op = "es" /\ pc' = "head" /\ left # 0
         \/ job.op # "es" /\ pc' = "head" /\ \E n \in 0 .. left : Forward(n)
<1>1. left \in Nat /\ Page \in Nat /\ ReadSize \in Nat
  BY DEF ToolType, FlashToolAssumption
<1>2. BlockLen \in 0 .. left /\ Min2(ReadSize, left) \in 0 .. left
  <2>1. /\ Min2(Page, left) \in Nat /\ Min2(Page, left) <= left
        /\ Min2(ReadSize, left) \in Nat /\ Min2(ReadSize, left) <= left
    BY <1>1, MinFacts
  <2>2. QED
    BY <1>1, <2>1 DEF BlockLen
<1>3. job.op = "es" => pc \notin {"data", "crc", "read"} /\ (pc = "poll" => then \notin {"written", "write failed"})
  BY DEF OpInv, LoopPcs, UnlockPcs, LoopReasons
<1>4. CASE command
  <2>1. PICK a : Handles(a)
    BY <1>4 DEF command
  <2>2. CASE pc = "poll" /\ FlashIsReady
    <3>1. then \in {"erased", "erase failed"} => left # 0
      BY <2>2 DEF PosInv
    <3>2. QED
      BY <1>2, <1>3, <2>2, <3>1, ReadyFacts
  <2>3. CASE ~(pc = "poll" /\ FlashIsReady)
    BY <1>2, <1>3, <2>1, <2>3, AnswerFacts
  <2>4. QED
    BY <2>2, <2>3
<1>5. CASE LoopHead \/ ReadData
  BY <1>2, <1>3, <1>5, HeadFacts
<1>6. CASE Send
  BY <1>6, SendFacts DEF Stays
<1>7. CASE Board
  BY <1>7, BoardFacts DEF Stays
<1>8. CASE UNCHANGED vars
  BY <1>8 DEF vars, toolVars, loopVars, Stays
<1>9. QED
  BY <1>4, <1>5, <1>6, <1>7, <1>8 DEF Next, Tool

-----------------------------------------------------------------------------
(***************************************************************************)
(* Sectors, and the position in the file.                                  *)
(***************************************************************************)

(* Quotient and remainder.                                                 *)
LEMMA DivMod ==
  ASSUME NEW x \in Int, NEW S \in Nat \ {0}
  PROVE  /\ x \div S \in Int /\ x % S \in Int
         /\ x = S * (x \div S) + (x % S)
         /\ 0 <= x % S /\ x % S < S
BY SMT

(* A sector starts at a multiple of its size, and an address is within its *)
(* sector.                                                                 *)
LEMMA SectorFacts ==
  ASSUME FlashToolAssumption, NEW a \in Nat
  PROVE  /\ SectorOf(a) \in Nat /\ SectorOf(a) <= a /\ a < SectorOf(a) + Sector
         /\ a \div Sector \in Int /\ SectorOf(a) = Sector * (a \div Sector)
<1> DEFINE q == a \div Sector
<1>1. Sector \in Nat \ {0}
  BY DEF FlashToolAssumption
<1>2. q \in Int /\ a % Sector \in Int /\ a = Sector * q + (a % Sector)
      /\ 0 <= a % Sector /\ a % Sector < Sector
  BY <1>1, DivMod, SMTT(30)
<1> HIDE DEF q
<1>3. SectorOf(a) = Sector * q
  BY <1>1, <1>2 DEF SectorOf
<1>4. Sector * q >= 0
  <2>1. q >= 0 \/ q <= -1
    BY <1>2
  <2>2. q <= -1 => Sector * q <= -Sector
    BY <1>1, <1>2
  <2>3. q >= 0 => Sector * q >= 0
    BY <1>1, <1>2
  <2>4. QED
    BY <1>1, <1>2, <2>1, <2>2, <2>3
<1>5. Sector * q \in Int
  BY <1>1, <1>2
<1>6. SectorOf(a) \in Nat /\ SectorOf(a) <= a /\ a < SectorOf(a) + Sector
  BY <1>1, <1>2, <1>3, <1>4, <1>5
<1>7. QED
  BY <1>2, <1>3, <1>6 DEF q

(* Different sectors do not overlap, and later addresses are in later      *)
(* sectors.                                                                *)
LEMMA SectorsApart ==
  ASSUME FlashToolAssumption, NEW a \in Nat, NEW b \in Nat, a <= b
  PROVE  /\ SectorOf(a) <= SectorOf(b)
         /\ SectorOf(a) # SectorOf(b) => a < SectorOf(b)
<1> DEFINE p == a \div Sector
<1> DEFINE q == b \div Sector
<1>1. p \in Int /\ SectorOf(a) = Sector * p /\ SectorOf(a) <= a /\ a < SectorOf(a) + Sector
  BY SectorFacts
<1>2. q \in Int /\ SectorOf(b) = Sector * q /\ SectorOf(b) <= b /\ b < SectorOf(b) + Sector
  BY SectorFacts
<1>3. Sector \in Nat \ {0} /\ SectorOf(a) \in Nat /\ SectorOf(b) \in Nat
  BY SectorFacts DEF FlashToolAssumption
<1> HIDE DEF p, q
<1>4. CASE p = q
  BY <1>1, <1>2, <1>3, <1>4
<1>5. CASE p <= q - 1
  <2>1. Sector * p <= Sector * q - Sector
    BY <1>1, <1>2, <1>3, <1>5
  <2>2. QED
    BY <1>1, <1>2, <1>3, <2>1
<1>6. CASE q <= p - 1
  <2>1. Sector * q <= Sector * p - Sector
    BY <1>1, <1>2, <1>3, <1>6
  <2>2. QED
    BY <1>1, <1>2, <1>3, <2>1
<1>7. QED
  BY <1>1, <1>2, <1>4, <1>5, <1>6

(* A multiple of the sector size starts a sector.                          *)
LEMMA MultipleStarts ==
  ASSUME FlashToolAssumption, NEW a \in Nat, NEW k \in Int, a = Sector * k
  PROVE  SectorOf(a) = a
<1> DEFINE q == a \div Sector
<1>1. q \in Int /\ SectorOf(a) = Sector * q /\ SectorOf(a) <= a /\ a < SectorOf(a) + Sector
  BY SectorFacts
<1>2. Sector \in Nat \ {0}
  BY DEF FlashToolAssumption
<1> HIDE DEF q
<1>3. CASE q <= k - 1
  <2>1. Sector * q <= Sector * k - Sector
    BY <1>1, <1>2, <1>3
  <2>2. QED
    BY <1>1, <1>2, <2>1
<1>4. CASE k <= q - 1
  <2>1. Sector * k <= Sector * q - Sector
    BY <1>1, <1>2, <1>4
  <2>2. QED
    BY <1>1, <1>2, <2>1
<1>5. CASE k = q
  BY <1>1, <1>5
<1>6. QED
  BY <1>1, <1>3, <1>4, <1>5

(* The numbers of the job.                                                 *)
LEMMA JobNumbers ==
  ASSUME FlashToolAssumption, ToolType
  PROVE  /\ job.start \in Nat /\ job.start < Size /\ Len(job.data) \in Nat
         /\ SectorOf(job.start) \in Nat /\ Base \in Nat /\ Count \in Int
         /\ Size \in Nat /\ Sector \in Nat \ {0}
         /\ Sector * Count <= Len(job.data) + Sector - 1
<1>1. Size \in Nat /\ Sector \in Nat \ {0}
  BY DEF FlashToolAssumption
<1>2. job.start \in Nat /\ job.start < Size /\ Len(job.data) \in Nat
  <2>1. job.start \in 0 .. Size - 1 /\ Len(job.data) \in Nat
    BY JobFacts, LenProperties DEF Unit
  <2>2. QED
    BY <1>1, <2>1
<1>3. SectorOf(job.start) \in Nat
  BY <1>1, <1>2, SectorFacts
<1>4. Base \in Nat
  BY <1>2, <1>3 DEF Base
<1>5. Len(job.data) + Sector - 1 \in Int
  BY <1>1, <1>2
<1>6. Count \in Int /\ Sector * Count <= Len(job.data) + Sector - 1
  <2> DEFINE x == Len(job.data) + Sector - 1
  <2>1. x \in Int
    BY <1>5
  <2> HIDE DEF x
  <2>2. x \div Sector \in Int /\ x % Sector \in Int /\ x = Sector * (x \div Sector) + (x % Sector)
        /\ 0 <= x % Sector
    BY <1>1, <2>1, DivMod
  <2> DEFINE q == x \div Sector
  <2> DEFINE r == x % Sector
  <2>3. q \in Int /\ r \in Int /\ x = Sector * q + r /\ 0 <= r
    BY <2>2
  <2>4. Count = q
    BY DEF Count, x, q
  <2> HIDE DEF q, r
  <2>5. Sector * q <= x
    <3>1. Sector * q \in Int
      BY <1>1, <2>3
    <3>2. QED
      BY <2>1, <2>3, <3>1
  <2>6. QED
    BY <2>3, <2>4, <2>5 DEF x
<1>7. QED
  BY <1>1, <1>2, <1>3, <1>4, <1>6

(* The position: behind the base by what has been done.                    *)
LEMMA PlaceStep ==
  ASSUME FlashToolAssumption, ToolType, OpInv, PosInv, [Next]_vars
  PROVE  /\ offset' \in Nat /\ left' \in Nat /\ Place' /\ Base' = Base /\ offset' >= offset
<1>1. job' = job
  BY JobStays
<1>2. offset \in Nat /\ left \in Nat /\ Place
  BY DEF ToolType, PosInv
<1>3. Base' = Base /\ Count' = Count /\ SectorOf(job.start)' = SectorOf(job.start)
  BY <1>1 DEF Base, Count, SectorOf
<1>4. Base \in Nat /\ Count \in Int /\ SectorOf(job.start) \in Nat /\ Sector \in Nat \ {0}
      /\ job.start \in Nat /\ Len(job.data) \in Nat
  BY JobNumbers
<1>5. CASE offset' = offset /\ left' = left
  BY <1>1, <1>2, <1>3, <1>5 DEF Place
<1>6. CASE NextSector /\ job.op = "es" /\ left # 0
  <2>1. offset' = offset + Sector /\ left' = left - 1
    BY <1>6 DEF NextSector
  <2>2. offset = SectorOf(job.start) + Sector * (Count - left)
    BY <1>2, <1>6 DEF Place
  <2> DEFINE c == Count
  <2> DEFINE s == SectorOf(job.start)
  <2>3. c \in Int /\ s \in Nat /\ offset = s + Sector * (c - left)
    BY <1>4, <2>2
  <2>4. c' = c /\ s' = s
    BY <1>3
  <2> HIDE DEF c, s
  <2>5. Sector * (c - (left - 1)) = Sector * (c - left) + Sector
    BY <1>2, <1>4, <2>3
  <2>6. Sector * (c - left) \in Int
    BY <1>2, <1>4, <2>3
  <2>7. offset + Sector = s + Sector * (c - (left - 1))
    BY <1>2, <1>4, <2>3, <2>5, <2>6
  <2>8. offset' = s + Sector * (c - left')
    BY <2>1, <2>7
  <2>9. offset' = s' + Sector * (c' - left')
    BY <2>4, <2>8
  <2>10. Place'
    BY <1>1, <1>6, <2>9 DEF Place, c, s
  <2>11. offset' \in Nat /\ left' \in Nat /\ offset' >= offset
    BY <1>2, <1>4, <1>6, <2>1
  <2>12. QED
    BY <1>3, <2>10, <2>11
<1>7. ASSUME NEW n \in 0 .. left, Forward(n), job.op # "es"
      PROVE  offset' \in Nat /\ left' \in Nat /\ Place' /\ offset' >= offset
  <2>1. offset' = offset + n /\ left' = left - n
    BY <1>7 DEF Forward
  <2>2. offset + left = job.start + Len(job.data)
    BY <1>2, <1>7 DEF Place
  <2>3. offset' \in Nat /\ left' \in Nat /\ offset' >= offset /\ offset' + left' = offset + left
    BY <1>2, <2>1
  <2>4. QED
    BY <1>1, <1>7, <2>2, <2>3 DEF Place
<1>8. QED
  BY <1>3, <1>5, <1>6, <1>7, LoopSteps DEF Stays, SectorErased

(* There is something left to do wherever the loops do it.                 *)
LEMMA PosInvStep ==
  ASSUME FlashToolAssumption, ToolType, OpInv, PosInv, [Next]_vars
  PROVE  PosInv'
<1> DEFINE Busy == {"erase", "data", "write", "crc", "read"}
<1> DEFINE P == pc \in Busy => left # 0
<1> DEFINE Q == pc = "poll" /\ then \notin {"unlock", "all erased"} => left # 0
<1>1. P /\ Q
  BY DEF PosInv
<1>2. Place' /\ offset' >= Base'
  <2>1. offset \in Nat /\ Base \in Nat /\ offset >= Base
    BY JobNumbers DEF ToolType, PosInv
  <2>2. offset' \in Nat /\ Place' /\ Base' = Base /\ offset' >= offset
    BY PlaceStep
  <2>3. QED
    BY <2>1, <2>2
<1> SUFFICES P' /\ Q'
  BY <1>2 DEF PosInv
<1>3. CASE pc' = pc /\ then' = then /\ left' = left
  BY <1>1, <1>3
<1>4. CASE command
  <2>1. PICK a : Handles(a)
    BY <1>4 DEF command
  <2>2. CASE pc = "poll" /\ FlashIsReady
    BY <1>1, <2>2, ReadyFacts DEF Stays, SectorErased
  <2>3. CASE ~(pc = "poll" /\ FlashIsReady)
    BY <1>1, <2>1, <2>3, AnswerFacts DEF Stays
  <2>4. QED
    BY <2>2, <2>3
<1>5. CASE LoopHead \/ ReadData
  BY <1>1, <1>5, HeadFacts DEF Stays
<1>6. CASE Send
  BY <1>3, <1>6, SendFacts
<1>7. CASE Board
  BY <1>3, <1>7, BoardFacts
<1>8. CASE UNCHANGED vars
  BY <1>3, <1>8 DEF vars, toolVars, loopVars
<1>9. QED
  BY <1>4, <1>5, <1>6, <1>7, <1>8 DEF Next, Tool

(* The sector in which a we starts is not erased.                          *)
LEMMA ErasecInvStep ==
  ASSUME FlashToolAssumption, ToolType, OpInv, PosInv, ErasecInv, [Next]_vars
  PROVE  ErasecInv'
<1> SUFFICES ASSUME job.op = "we" PROVE ErasecInv'
  BY JobStays DEF ErasecInv
<1> DEFINE P == job.start % Sector # 0 /\ SectorOf(offset) = SectorOf(job.start)
                  => erasec = SectorOf(job.start)
<1> DEFINE Q == pc = "erase" => erasec # SectorOf(offset)
<1>1. P /\ Q
  BY DEF ErasecInv
<1>2. job' = job
  BY JobStays
<1>3. P'
  <2>1. CASE Stays
    BY <1>1, <1>2, <2>1 DEF Stays, SectorOf
  <2>2. CASE SectorErased
    BY <1>2, <2>2 DEF SectorErased, SectorOf
  <2>3. CASE \E n \in 0 .. left : Forward(n)
    <3>1. offset \in Nat /\ offset' \in Nat /\ job.start \in Nat
          /\ job.start <= offset /\ offset <= offset' /\ erasec' = erasec
      BY <2>3, JobNumbers, PlaceStep DEF ToolType, PosInv, Base, Forward
    <3>2. SectorOf(offset') = SectorOf(job.start) => SectorOf(offset) = SectorOf(job.start)
      <4>1. SectorOf(job.start) <= SectorOf(offset) /\ SectorOf(offset) <= SectorOf(offset')
        BY <3>1, SectorsApart
      <4>2. SectorOf(job.start) \in Nat /\ SectorOf(offset) \in Nat /\ SectorOf(offset') \in Nat
        BY <3>1, SectorFacts
      <4>3. QED
        BY <4>1, <4>2
    <3>3. SectorOf(offset)' = SectorOf(offset') /\ SectorOf(job.start)' = SectorOf(job.start)
      BY <1>2 DEF SectorOf
    <3>4. QED
      BY <1>1, <1>2, <3>1, <3>2, <3>3
  <2>4. QED
    BY <2>1, <2>2, <2>3, LoopSteps
<1>4. Q'
  <2>1. CASE Stays /\ pc' = pc
    BY <1>1, <2>1 DEF Stays, SectorOf
  <2>2. CASE LoopHead \/ ReadData
    BY <2>2, HeadFacts DEF Stays, SectorOf
  <2>3. CASE command
    <3>1. PICK a : Handles(a)
      BY <2>3 DEF command
    <3>2. CASE pc = "poll" /\ FlashIsReady
      BY <3>2, ReadyFacts
    <3>3. CASE ~(pc = "poll" /\ FlashIsReady)
      BY <3>1, <3>3, AnswerFacts
    <3>4. QED
      BY <3>2, <3>3
  <2>4. CASE Send
    BY <2>1, <2>4, SendFacts DEF Stays
  <2>5. CASE Board
    BY <2>1, <2>5, BoardFacts DEF Stays
  <2>6. CASE UNCHANGED vars
    BY <2>1, <2>6 DEF vars, toolVars, loopVars, Stays
  <2>7. QED
    BY <2>2, <2>3, <2>4, <2>5, <2>6 DEF Next, Tool
<1>5. QED
  BY <1>3, <1>4 DEF ErasecInv

(* The blocks that are written and compared are those of the file.         *)
LEMMA BlockType ==
  ASSUME FlashToolAssumption, ToolType, PosInv, job.op # "es"
  PROVE  /\ Block(Page) \in Seq(Bit) /\ Len(Block(Page)) <= left /\ Len(Block(Page)) \in Nat
         /\ offset >= job.start /\ offset + left = job.start + Len(job.data)
<1> DEFINE m == offset - job.start + 1
<1> DEFINE k == Min2(Page, left)
<1> DEFINE n == offset - job.start + k
<1>1. offset \in Nat /\ left \in Nat /\ Page \in Nat /\ job.start \in Nat /\ Len(job.data) \in Nat
  BY JobNumbers DEF ToolType, FlashToolAssumption
<1>2. offset >= job.start /\ offset + left = job.start + Len(job.data)
  BY DEF PosInv, Place, Base
<1>3. k \in Nat /\ k <= left
  <2>1. Min2(Page, left) \in Nat /\ Min2(Page, left) <= left
    BY <1>1, MinFacts
  <2>2. QED
    BY <2>1
<1>4. job.data \in Seq(Bit)
  BY JobFacts
<1> HIDE DEF k
<1>5. m \in Int /\ n \in Int /\ m >= 1 /\ n <= Len(job.data) /\ n - m + 1 = k
  <2>1. m \in Int /\ m >= 1
    BY <1>1, <1>2
  <2>2. n \in Int
    BY <1>1, <1>3
  <2>3. n <= Len(job.data)
    BY <1>1, <1>2, <1>3, SMTT(30)
  <2>4. n - m + 1 = k
    BY <1>1, <1>3
  <2>5. QED
    BY <2>1, <2>2, <2>3, <2>4
<1>6. Block(Page) = SubSeq(job.data, m, n)
  BY DEF Block, k
<1> HIDE DEF m, n
<1>7. \A i \in m .. n : job.data[i] \in Bit
  <2>1. \A i \in m .. n : i \in 1 .. Len(job.data)
    BY <1>1, <1>5
  <2>2. QED
    BY <1>4, <2>1, ElementOfSeq
<1>8. /\ SubSeq(job.data, m, n) \in Seq(Bit)
      /\ Len(SubSeq(job.data, m, n)) = IF m <= n THEN n - m + 1 ELSE 0
  BY <1>5, <1>7, SubSeqProperties
<1>9. Len(Block(Page)) = k
  <2>1. CASE m <= n
    BY <1>5, <1>6, <1>8, <2>1
  <2>2. CASE ~(m <= n)
    <3>1. k = 0
      BY <1>3, <1>5, <2>2
    <3>2. QED
      BY <1>6, <1>8, <2>2, <3>1
  <2>3. QED
    BY <2>1, <2>2
<1>10. QED
  BY <1>2, <1>3, <1>6, <1>8, <1>9

(* What is sent is a command.                                              *)
LEMMA CmdType ==
  ASSUME FlashToolAssumption, ToolType, OpInv, PosInv, pc \in CommandPc
  PROVE  Cmd \in Command
<1>1. Func \in Funcs
  BY DEF Func, Funcs, CommandPc
<1>2. offset \in Nat
  BY DEF ToolType
<1>3. (IF Func \in {"write", "crc"} THEN Block(Page) ELSE << >>) \in Seq(Bit)
  <2>1. CASE Func \in {"write", "crc"}
    <3>1. pc \in {"write", "crc"}
      BY <2>1 DEF Func, CommandPc
    <3>2. job.op # "es"
      BY <3>1 DEF OpInv, LoopPcs, UnlockPcs
    <3>3. QED
      BY <2>1, <3>2, BlockType
  <2>2. CASE Func \notin {"write", "crc"}
    BY <2>2, EmptySeq
  <2>3. QED
    BY <2>1, <2>2
<1>4. QED
  BY <1>1, <1>2, <1>3 DEF Cmd, Command

-----------------------------------------------------------------------------
(***************************************************************************)
(* Types.                                                                  *)
(***************************************************************************)

(* The tool's variables keep their types.                                  *)
LEMMA ToolTypeStep ==
  ASSUME FlashToolAssumption, TypeOK, OpInv, PosInv, LineInv, [Next]_vars
  PROVE  ToolType'
<1> DEFINE Pcs == CommandPc \cup {"head", "data", "done", "failed"}
<1>1. /\ ToolType /\ job \in Jobs /\ pc \in Pcs /\ then \in Reasons
      /\ polls \in 0 .. Polls /\ (pc = "poll" => polls # 0)
      /\ cnt_err \in 1 .. RetryCount
      /\ waiting \in BOOLEAN /\ (waiting => pc \in CommandPc)
  BY DEF TypeOK, ToolType
<1>2. job' = job /\ offset' \in Nat /\ left' \in Nat
  BY <1>1, JobStays, PlaceStep
<1>3. Pcs' = Pcs /\ CommandPc' = CommandPc /\ Reasons' = Reasons
  BY DEF CommandPc, Reasons
<1> SUFFICES /\ pc' \in Pcs /\ then' \in Reasons
             /\ polls' \in 0 .. Polls /\ (pc' = "poll" => polls' # 0)
             /\ cnt_err' \in 1 .. RetryCount
             /\ waiting' \in BOOLEAN /\ (waiting' => pc' \in CommandPc)
  BY <1>1, <1>2, <1>3 DEF ToolType
<1>4. CASE /\ pc' = pc /\ then' = then /\ polls' = polls /\ cnt_err' = cnt_err
           /\ waiting' = waiting \/ (waiting' = TRUE /\ pc \in CommandPc)
  <2>1. pc' \in Pcs /\ then' \in Reasons /\ cnt_err' \in 1 .. RetryCount
    BY <1>1, <1>4
  <2>2. polls' \in 0 .. Polls /\ (pc' = "poll" => polls' # 0)
    BY <1>1, <1>4
  <2>3. CASE waiting' = waiting /\ pc' = pc
    BY <1>1, <2>1, <2>2, <2>3
  <2>4. CASE waiting' = TRUE /\ pc' = pc /\ pc \in CommandPc
    BY <2>1, <2>2, <2>4
  <2>5. QED
    BY <1>4, <2>3, <2>4
<1>5. CASE command
  <2>1. PICK a : Returns(a) /\ Handles(a)
    BY <1>5 DEF command
  <2>2. waiting' = FALSE
    BY <2>1 DEF Returns
  <2>3. /\ then' \in Reasons /\ polls' \in 0 .. Polls /\ (pc' = "poll" => polls' # 0)
        /\ cnt_err' \in 1 .. RetryCount
    BY <1>1, <2>1, AnswerFacts
  <2>4. pc' \in Pcs
    <3>1. CASE pc = "poll" /\ FlashIsReady
      BY <1>1, <3>1, WhenReady DEF CommandPc
    <3>2. CASE ~(pc = "poll" /\ FlashIsReady)
      BY <1>1, <2>1, <3>2, AfterAnswer DEF CommandPc
    <3>3. QED
      BY <3>1, <3>2
  <2>5. QED
    BY <2>2, <2>3, <2>4
<1>6. CASE LoopHead \/ ReadData
  <2>1. pc' \in Pcs /\ pc' # "poll" /\ pc \notin CommandPc
    BY <1>6, LoopMoves DEF CommandPc
  <2>2. QED
    BY <1>1, <1>6, <2>1, LoopFacts
<1>7. CASE Send
  BY <1>4, <1>7, SendFacts
<1>8. CASE Board
  BY <1>4, <1>8, BoardFacts
<1>9. CASE UNCHANGED vars
  BY <1>4, <1>9 DEF vars, toolVars, loopVars, lineVars
<1>10. QED
  BY <1>5, <1>6, <1>7, <1>8, <1>9 DEF Next, Tool

(* An answer to a command is an answer; checksums are of bytes in the      *)
(* flash.                                                                  *)
LEMMA AnswerType ==
  ASSUME FlashToolAssumption, ChipType, NEW c \in Command, NEW g \in BOOLEAN,
         c.func = "crc" => c.at + Len(c.data) <= Size
  PROVE  Answer(c, g) \in Reply
<1> DEFINE d == IF c.func = "crc" THEN [i \in DOMAIN c.data |-> flash[c.at + i - 1]] ELSE << >>
<1>1. c.func \in Funcs /\ c.own \in BOOLEAN /\ c.at \in Nat /\ c.data \in Seq(Bit)
  BY DEF Command
<1>2. busy \in BOOLEAN /\ locked \in BOOLEAN /\ flash \in [Unit -> Bit]
  BY DEF ChipType
<1>3. d \in Seq(Bit)
  <2>1. CASE c.func = "crc"
    <3>1. Len(c.data) \in Nat /\ DOMAIN c.data = 1 .. Len(c.data)
      BY <1>1, LenProperties
    <3>2. \A i \in 1 .. Len(c.data) : c.at + i - 1 \in Unit
      <4>1. Size \in Nat /\ c.at + Len(c.data) <= Size
        BY <2>1 DEF FlashToolAssumption
      <4>2. QED
        BY <1>1, <3>1, <4>1, SMTT(30) DEF Unit
    <3>3. \A i \in 1 .. Len(c.data) : flash[c.at + i - 1] \in Bit
      BY <1>2, <3>2
    <3>4. [i \in 1 .. Len(c.data) |-> flash[c.at + i - 1]] \in Seq(Bit)
      BY <3>1, <3>3, IsASeq
    <3>5. d = [i \in 1 .. Len(c.data) |-> flash[c.at + i - 1]]
      BY <2>1, <3>1
    <3>6. QED
      BY <3>4, <3>5
  <2>2. CASE c.func # "crc"
    BY <2>2, EmptySeq
  <2>3. QED
    BY <2>1, <2>2
<1>4. Answer(c, g) = [func |-> c.func, good |-> g, own |-> c.own, busy |-> busy,
                      locked |-> locked, data |-> d]
  BY DEF Answer
<1> HIDE DEF d
<1>5. QED
  BY <1>1, <1>2, <1>3, <1>4 DEF Reply

(* What is on the line stays commands and answers.                         *)
LEMMA LineTypeStep ==
  ASSUME FlashToolAssumption, TypeOK, OpInv, PosInv, LineInv, CrcInv, [Next]_vars
  PROVE  LineType'
<1>1. /\ toBoard \in Seq(Command) /\ toHost \in Seq(Reply) /\ inbuf \in Seq(Reply)
      /\ faults \in 0 .. MaxFaults /\ MaxFaults \in Nat
  BY DEF TypeOK, LineType, FlashToolAssumption
<1>2. CASE toBoard' = toBoard /\ toHost' = toHost /\ inbuf' = inbuf /\ faults' = faults
  BY <1>1, <1>2 DEF LineType, Command, Reply
<1>3. CASE Send
  <2>1. Cmd \in Command
    BY <1>3, CmdType, SendFacts DEF TypeOK
  <2>2. Disowned(toBoard) \in Seq(Command) /\ Disowned(toHost) \in Seq(Reply)
    BY <1>1, DisownedCommands, DisownedReplies
  <2>3. Append(Disowned(toBoard), Cmd) \in Seq(Command) /\ << >> \in Seq(Reply)
    BY <2>1, <2>2, AppendProperties, EmptySeq
  <2>4. QED
    BY <1>1, <1>3, <2>2, <2>3, SendFacts DEF LineType
<1>4. CASE command
  <2>1. PICK a : Returns(a)
    BY <1>4 DEF command
  <2>2. faults' = faults /\ (Accepted(a) \/ GivenUp(a))
    BY <2>1, ReturnsFacts
  <2>3. CASE Accepted(a)
    <3>1. << >> \in Seq(Reply) /\ << >> \in Seq(Command)
      BY EmptySeq
    <3>2. QED
      BY <1>1, <2>2, <2>3, <3>1 DEF Accepted, LineType
  <2>4. CASE GivenUp(a)
    <3>1. inbuf' \in Seq(Reply)
      BY <1>1, <2>4, HeadTailProperties DEF GivenUp
    <3>2. QED
      BY <1>1, <2>2, <2>4, <3>1 DEF GivenUp, LineType
  <2>5. QED
    BY <2>2, <2>3, <2>4
<1>5. CASE LoopHead \/ ReadData
  BY <1>2, <1>5, LoopFacts
<1>6. CASE Served
  <2>1. Head(toBoard) \in Command /\ Tail(toBoard) \in Seq(Command)
        /\ 1 \in DOMAIN toBoard /\ Head(toBoard) = toBoard[1]
    BY <1>1, <1>6, TailElements DEF Served
  <2>2. \A g \in BOOLEAN : Answer(Head(toBoard), g) \in Reply
    BY <2>1, AnswerType DEF CrcInv, TypeOK
  <2>3. toHost' \in Seq(Reply)
    <3>1. CASE toHost' = toHost
      BY <1>1, <3>1
    <3>2. ASSUME NEW g \in BOOLEAN, toHost' = Append(toHost, Answer(Head(toBoard), g))
          PROVE  toHost' \in Seq(Reply)
      <4>1. Answer(Head(toBoard), g) \in Reply
        BY <2>2
      <4>2. QED
        BY <1>1, <3>2, <4>1, AppendProperties
    <3>3. QED
      BY <1>6, <3>1, <3>2 DEF Served
  <2>4. faults' \in 0 .. MaxFaults
    BY <1>1, <1>6 DEF Served
  <2>5. QED
    BY <1>1, <1>6, <2>1, <2>3, <2>4 DEF Served, LineType
<1>7. CASE Deliver
  <2>1. Head(toHost) \in Reply /\ Tail(toHost) \in Seq(Reply)
    BY <1>1, <1>7, HeadTailProperties DEF Deliver
  <2>2. Append(inbuf, Head(toHost)) \in Seq(Reply)
    BY <1>1, <2>1, AppendProperties
  <2>3. QED
    BY <1>1, <1>7, <2>1, <2>2 DEF Deliver, LineType
<1>8. CASE BecomesReady
  BY <1>2, <1>8 DEF BecomesReady, lineVars
<1>9. CASE UNCHANGED vars
  BY <1>2, <1>9 DEF vars, lineVars
<1>10. QED
  BY <1>3, <1>4, <1>5, <1>6, <1>7, <1>8, <1>9, BoardMoves DEF Next, Tool

(* Flash memory holds bits.                                                *)
LEMMA FlashAfterType ==
  ASSUME FlashToolAssumption, ChipType, NEW c \in Command
  PROVE  FlashAfter(c) \in [Unit -> Bit]
<1>1. c.at \in Nat /\ c.data \in Seq(Bit) /\ Size \in Nat
  BY DEF Command, FlashToolAssumption
<1>2. Len(c.data) \in Nat
  BY <1>1, LenProperties
<1>3. SUFFICES ASSUME NEW u \in Unit, u \in Covered(c), ~Erases(c)
               PROVE  Min2(flash[u], c.data[u - c.at + 1]) \in Bit
  BY DEF FlashAfter, ChipType, Bit
<1>4. u \in Int /\ u - c.at \in 0 .. Len(c.data) - 1
  BY <1>1, <1>3 DEF Covered, Erases, Unit
<1>5. u - c.at + 1 \in 1 .. Len(c.data)
  BY <1>1, <1>2, <1>4, SMTT(30)
<1>6. c.data[u - c.at + 1] \in Bit
  BY <1>1, <1>5, ElementOfSeq
<1>7. flash[u] \in Bit
  BY DEF ChipType
<1>8. QED
  BY <1>6, <1>7 DEF Min2

(* What serving a command does to the flash.                               *)
LEMMA ServedFacts ==
  ASSUME Served
  PROVE  \/ flash' = flash /\ busy' = busy /\ locked' = locked
         \/ /\ Changes(Head(toBoard)) /\ busy' = TRUE
            /\ \/ Head(toBoard).wrsr /\ locked' = FALSE /\ flash' = flash
               \/ ~Head(toBoard).wrsr /\ locked' = locked
                  /\ flash' = (IF locked THEN flash ELSE FlashAfter(Head(toBoard)))
BY DEF Served, Executed, chipVars

(* The chip keeps its types.                                               *)
LEMMA ChipTypeStep ==
  ASSUME FlashToolAssumption, TypeOK, LineInv, [Next]_vars
  PROVE  ChipType'
<1>1. ChipType /\ flash \in [Unit -> Bit] /\ busy \in BOOLEAN /\ locked \in BOOLEAN
  BY DEF TypeOK, ChipType
<1>2. CASE flash' = flash /\ busy' = busy /\ locked' = locked
  BY <1>1, <1>2 DEF ChipType, Unit, Bit
<1>3. CASE Served
  <2>1. Head(toBoard) \in Command
    BY <1>3, HeadTailProperties DEF Served, TypeOK, LineType
  <2>2. FlashAfter(Head(toBoard)) \in [Unit -> Bit]
    BY <1>1, <2>1, FlashAfterType
  <2>3. QED
    BY <1>1, <1>3, <2>2, ServedFacts DEF ChipType, Unit, Bit
<1>4. CASE BecomesReady
  BY <1>1, <1>4 DEF BecomesReady, ChipType, Unit, Bit
<1>5. CASE command
  BY <1>2, <1>5, ReturnsFacts DEF command
<1>6. CASE Deliver
  BY <1>2, <1>6 DEF Deliver, chipVars
<1>7. CASE UNCHANGED vars
  BY <1>2, <1>7 DEF vars, chipVars
<1>8. QED
  BY <1>2, <1>3, <1>4, <1>5, <1>6, <1>7, BoardMoves, SendFacts, LoopFacts DEF Next, Tool

-----------------------------------------------------------------------------
(***************************************************************************)
(* What is on the way.                                                     *)
(***************************************************************************)

(* While no command waits, what is on the way was given up, and the tool   *)
(* polls.                                                                  *)
LEMMA NothingOnTheWay ==
  ASSUME Expected, ~waiting, pc \notin {"poll", "failed"}
  PROVE  DOMAIN inbuf = {} /\ DOMAIN toHost = {} /\ DOMAIN toBoard = {}
BY DEF Expected, Fits

(* The sequences after a command was sent.                                 *)
LEMMA SentElements ==
  ASSUME FlashToolAssumption, TypeOK, OpInv, PosInv, Send
  PROVE  /\ Cmd \in Command
         /\ DOMAIN toHost' = DOMAIN toHost
         /\ \A i \in DOMAIN toHost : ~toHost'[i].own /\ toHost'[i].func = toHost[i].func
         /\ Len(toBoard) \in Nat /\ Len(toBoard') = Len(toBoard) + 1
         /\ \A i \in DOMAIN toBoard' :
              \/ /\ i \in DOMAIN toBoard /\ i <= Len(toBoard) /\ ~toBoard'[i].own
                 /\ toBoard'[i].func = toBoard[i].func /\ toBoard'[i].at = toBoard[i].at
                 /\ toBoard'[i].data = toBoard[i].data /\ toBoard'[i].wrsr = toBoard[i].wrsr
              \/ i = Len(toBoard) + 1 /\ toBoard'[i] = Cmd
<1>1. ToolType /\ toBoard \in Seq(Command) /\ toHost \in Seq(Reply)
  BY DEF TypeOK, LineType
<1>2. Cmd \in Command
  BY <1>1, CmdType, SendFacts
<1> DEFINE d == Disowned(toBoard)
<1>3. /\ d \in Seq(Command) /\ Len(d) = Len(toBoard) /\ DOMAIN d = DOMAIN toBoard
      /\ \A i \in DOMAIN toBoard :
           /\ ~d[i].own /\ d[i].func = toBoard[i].func /\ d[i].at = toBoard[i].at
           /\ d[i].data = toBoard[i].data /\ d[i].wrsr = toBoard[i].wrsr
  BY <1>1, DisownedCommands
<1>4. toBoard' = Append(d, Cmd)
  BY SendFacts
<1> HIDE DEF d
<1>5. /\ Len(toBoard') = Len(d) + 1
      /\ \A i \in DOMAIN toBoard' :
           \/ i \in DOMAIN d /\ toBoard'[i] = d[i]
           \/ i = Len(d) + 1 /\ toBoard'[i] = Cmd
  BY <1>2, <1>3, <1>4, AppendElements
<1>6. Len(toBoard) \in Nat /\ \A i \in DOMAIN toBoard : i <= Len(toBoard)
  BY <1>1, LenProperties
<1>7. /\ DOMAIN toHost' = DOMAIN toHost
      /\ \A i \in DOMAIN toHost : ~toHost'[i].own /\ toHost'[i].func = toHost[i].func
  BY <1>1, DisownedReplies, SendFacts
<1>8. QED
  BY <1>2, <1>3, <1>5, <1>6, <1>7

(* The pending command.                                                    *)
LEMMA CmdFacts ==
  /\ Cmd.own /\ Cmd.func = Func /\ Cmd.at = offset /\ Cmd.wrsr = (pc = "wrsr")
  /\ Cmd.data = IF Func \in {"write", "crc"} THEN Block(Page) ELSE << >>
BY DEF Cmd

(* Sending disowns what was on the way.                                    *)
LEMMA LineInvSend ==
  ASSUME FlashToolAssumption, TypeOK, OpInv, PosInv, LineInv, Send
  PROVE  LineInv'
<1>1. /\ ~waiting /\ waiting' = TRUE /\ pc' = pc /\ pc # "failed" /\ inbuf' = << >>
      /\ Func' = Func
  BY SendFacts DEF CommandPc, Func
<1>2. \A i \in DOMAIN toHost : pc = "poll" /\ toHost[i].func \in {"erase", "write"}
  BY <1>1 DEF LineInv, Expected, Fits
<1>3. \A i \in DOMAIN toBoard : pc = "poll" /\ toBoard[i].func \in {"erase", "write"} /\ ~toBoard[i].wrsr
  BY <1>1 DEF LineInv, Expected, Fits
<1>4. DOMAIN inbuf' = {}
  BY <1>1, EmptySeq
<1>5. OwnIsLast'
  BY <1>4, SentElements DEF OwnIsLast
<1>6. \A i \in DOMAIN toHost' : Fits(toHost[i])'
  BY <1>1, <1>2, SentElements DEF Fits
<1>7. Func = "wrrd" <=> pc \in {"wren", "wrsr"}
  BY SendFacts DEF Func, CommandPc
<1>8. ASSUME NEW i \in DOMAIN toBoard'
      PROVE  /\ Fits(toBoard[i])'
             /\ toBoard'[i].wrsr => pc' \in {"wrsr", "failed"} /\ toBoard'[i].func = "wrrd"
             /\ pc' = "wrsr" => toBoard'[i].wrsr
  <2>1. CASE i \in DOMAIN toBoard /\ ~toBoard'[i].own /\ toBoard'[i].func = toBoard[i].func
             /\ toBoard'[i].wrsr = toBoard[i].wrsr
    BY <1>1, <1>3, <2>1 DEF Fits
  <2>2. CASE toBoard'[i] = Cmd
    <3>1. toBoard'[i].own /\ toBoard'[i].func = Func /\ toBoard'[i].wrsr = (pc = "wrsr")
      BY <2>2, CmdFacts
    <3>2. QED
      BY <1>1, <1>7, <3>1 DEF Fits
  <2>3. QED
    BY <2>1, <2>2, SentElements
<1>9. Expected'
  BY <1>4, <1>6, <1>8 DEF Expected
<1>10. QED
  BY <1>5, <1>9 DEF LineInv

(* A finished command leaves nothing on the way, unless it has failed:     *)
(* then the tool polls or has ended.                                       *)
LEMMA LineInvCommand ==
  ASSUME TypeOK, LineInv, command
  PROVE  LineInv'
<1>1. PICK a : Returns(a) /\ Handles(a)
  BY DEF command
<1>2. waiting /\ waiting' = FALSE /\ (Accepted(a) \/ GivenUp(a))
  BY <1>1, ReturnsFacts
<1>3. CASE Accepted(a)
  <2>1. DOMAIN inbuf' = {} /\ DOMAIN toHost' = {} /\ DOMAIN toBoard' = {}
    BY <1>3, EmptySeq DEF Accepted
  <2>2. QED
    BY <2>1 DEF LineInv, OwnIsLast, Expected
<1>4. CASE GivenUp(a)
  <2>1. toHost' = toHost /\ toBoard' = toBoard /\ inbuf \in Seq(Reply)
    BY <1>4 DEF GivenUp, TypeOK, LineType
  <2>2. \A i \in DOMAIN inbuf' :
          \/ i \in DOMAIN inbuf /\ inbuf'[i] = inbuf[i] /\ Len(inbuf') = Len(inbuf)
          \/ i + 1 \in DOMAIN inbuf /\ inbuf'[i] = inbuf[i + 1] /\ Len(inbuf') = Len(inbuf) - 1
    <3>1. CASE inbuf' = inbuf
      BY <3>1
    <3>2. CASE inbuf # << >> /\ inbuf' = Tail(inbuf)
      BY <2>1, <3>2, TailElements
    <3>3. QED
      BY <1>4, <3>1, <3>2 DEF GivenUp
  <2>3. Len(inbuf) \in Nat /\ \A i \in DOMAIN inbuf' : i \in Nat
    <3>1. Len(inbuf) \in Nat /\ DOMAIN inbuf = 1 .. Len(inbuf)
      BY <2>1, LenProperties
    <3>2. inbuf' \in Seq(Reply)
      BY <1>4, <2>1, HeadTailProperties DEF GivenUp
    <3>3. QED
      BY <3>1, <3>2, LenProperties
  <2>4. OwnIsLast'
    BY <2>1, <2>2, <2>3 DEF LineInv, OwnIsLast
  <2>5. Handles(None)
    BY <1>1, <1>4 DEF GivenUp
  <2>6. \/ pc' = "failed"
        \/ pc \in {"erase", "write"} /\ pc' = "poll"
    BY <2>5, AfterFailure
  <2>7. \A x : Fits(x) => Fits(x)'
    <3>1. pc \in {"erase", "write"} => Func \in {"erase", "write"}
      BY DEF Func
    <3>2. QED
      BY <1>2, <2>6, <3>1 DEF Fits
  <2>8. Expected'
    <3>1. \A i \in DOMAIN inbuf' : Fits(inbuf[i])'
      <4>1. \A i \in DOMAIN inbuf' : Fits(inbuf'[i])
        BY <2>2 DEF LineInv, Expected
      <4>2. QED
        BY <1>2, <2>7, <4>1, <2>6 DEF Fits
    <3>2. \A i \in DOMAIN toHost' : Fits(toHost[i])'
      BY <2>1, <2>7 DEF LineInv, Expected
    <3>3. \A i \in DOMAIN toBoard' :
            /\ Fits(toBoard[i])'
            /\ toBoard'[i].wrsr => pc' \in {"wrsr", "failed"} /\ toBoard'[i].func = "wrrd"
            /\ pc' = "wrsr" => toBoard'[i].wrsr
      BY <2>1, <2>6, <2>7 DEF LineInv, Expected
    <3>4. QED
      BY <3>1, <3>2, <3>3 DEF Expected
  <2>9. QED
    BY <2>4, <2>8 DEF LineInv
<1>5. QED
  BY <1>2, <1>3, <1>4

(* The board turns the first command on the line into the last answer.     *)
LEMMA ServedElements ==
  ASSUME LineType, Served
  PROVE  /\ 1 \in DOMAIN toBoard /\ Head(toBoard) = toBoard[1]
         /\ Head(toBoard) \in Command
         /\ \A i \in DOMAIN toBoard' :
              i \in Nat \ {0} /\ i + 1 \in DOMAIN toBoard /\ toBoard'[i] = toBoard[i + 1]
         /\ Len(toBoard) \in Nat /\ Len(toBoard') = Len(toBoard) - 1
         /\ Len(toBoard) = 1 => toBoard' = << >>
<1>1. toBoard \in Seq(Command) /\ toBoard # << >> /\ toBoard' = Tail(toBoard)
  BY DEF LineType, Served
<1>2. \A i \in DOMAIN toBoard' : i \in Nat \ {0}
  BY <1>1, HeadTailProperties, LenProperties
<1>3. Len(toBoard) \in Nat
  BY <1>1, LenProperties
<1>4. QED
  BY <1>1, <1>2, <1>3, TailElements

(* An answer behind the others tells the state before the command.         *)
LEMMA ServedAnswers ==
  ASSUME FlashToolAssumption, TypeOK, CrcInv, Served
  PROVE  /\ Len(toHost) \in Nat
         /\ \A i \in DOMAIN toHost' :
           \/ i \in DOMAIN toHost /\ toHost'[i] = toHost[i] /\ i <= Len(toHost)
           \/ /\ i = Len(toHost') /\ toHost'[i].own = Head(toBoard).own
              /\ toHost'[i].func = Head(toBoard).func
              /\ toHost'[i].busy = busy /\ toHost'[i].locked = locked
<1>1. LineType /\ toHost \in Seq(Reply) /\ Len(toHost) \in Nat /\ DOMAIN toHost = 1 .. Len(toHost)
  BY LenProperties DEF TypeOK, LineType
<1>2. CASE toHost' = toHost
  BY <1>1, <1>2
<1>3. ASSUME NEW g \in BOOLEAN, toHost' = Append(toHost, Answer(Head(toBoard), g))
      PROVE  \A i \in DOMAIN toHost' :
               \/ i \in DOMAIN toHost /\ toHost'[i] = toHost[i] /\ i <= Len(toHost)
               \/ i = Len(toHost') /\ toHost'[i] = Answer(Head(toBoard), g)
  <2>1. Answer(Head(toBoard), g) \in Reply
    BY <1>1, ServedElements, AnswerType DEF CrcInv, TypeOK
  <2>2. QED
    BY <1>1, <1>3, <2>1, AppendElements
<1>4. \A g \in BOOLEAN :
        LET a == Answer(Head(toBoard), g) IN
          /\ a.own = Head(toBoard).own /\ a.func = Head(toBoard).func
          /\ a.busy = busy /\ a.locked = locked
  BY DEF Answer
<1>5. QED
  BY <1>1, <1>2, <1>3, <1>4 DEF Served

(* Serving a command keeps the order.                                      *)
LEMMA LineInvServed ==
  ASSUME FlashToolAssumption, TypeOK, LineInv, CrcInv, Board, Served
  PROVE  LineInv'
<1>1. LineType /\ inbuf' = inbuf /\ pc' = pc /\ waiting' = waiting /\ Func' = Func
  BY BoardFacts DEF TypeOK, Served, Func
<1>2. \A x : Fits(x) => Fits(x)'
  BY <1>1 DEF Fits
<1>3. OwnIsLast'
  <2>1. \A i \in DOMAIN inbuf' : ~inbuf'[i].own
    BY <1>1 DEF LineInv, OwnIsLast, Served
  <2>2. \A i \in DOMAIN toHost' : toHost'[i].own => i = Len(toHost') /\ toBoard' = << >>
    <3>1. \A i \in DOMAIN toHost : ~toHost[i].own
      BY DEF LineInv, OwnIsLast, Served
    <3>2. Head(toBoard).own => toBoard' = << >>
      BY <1>1, ServedElements DEF LineInv, OwnIsLast
    <3>3. QED
      BY <3>1, <3>2, ServedAnswers
  <2>3. \A i \in DOMAIN toBoard' : toBoard'[i].own => i = Len(toBoard')
    BY <1>1, ServedElements DEF LineInv, OwnIsLast
  <2>4. QED
    BY <2>1, <2>2, <2>3 DEF OwnIsLast
<1>4. Expected'
  <2>1. Fits(Head(toBoard))
    BY <1>1, ServedElements DEF LineInv, Expected
  <2>2. \A i \in DOMAIN toHost' : Fits(toHost'[i])
    BY <2>1, ServedAnswers DEF LineInv, Expected, Fits
  <2>3. \A i \in DOMAIN toHost' : Fits(toHost[i])'
    BY <1>1, <2>2 DEF Fits
  <2>4. \A i \in DOMAIN inbuf' : Fits(inbuf[i])'
    BY <1>1, <1>2 DEF LineInv, Expected
  <2>5. \A i \in DOMAIN toBoard' :
          /\ Fits(toBoard'[i])
          /\ toBoard'[i].wrsr => pc \in {"wrsr", "failed"} /\ toBoard'[i].func = "wrrd"
          /\ pc = "wrsr" => toBoard'[i].wrsr
    BY <1>1, ServedElements DEF LineInv, Expected
  <2>6. \A i \in DOMAIN toBoard' : Fits(toBoard[i])'
    BY <1>1, <2>5 DEF Fits
  <2>7. QED
    BY <1>1, <2>3, <2>4, <2>5, <2>6 DEF Expected
<1>5. QED
  BY <1>3, <1>4 DEF LineInv

(* Delivery moves the first answer behind those that have come.            *)
LEMMA DeliveredElements ==
  ASSUME LineType, Deliver
  PROVE  /\ 1 \in DOMAIN toHost /\ Len(inbuf) \in Nat /\ Len(toHost) \in Nat
         /\ toBoard' = toBoard
         /\ Len(toHost') = Len(toHost) - 1
         /\ Len(toHost) = 1 => toHost' = << >>
         /\ \A i \in DOMAIN toHost' :
              i \in Nat /\ i + 1 \in DOMAIN toHost /\ toHost'[i] = toHost[i + 1]
         /\ \A i \in DOMAIN inbuf' :
              \/ i \in DOMAIN inbuf /\ inbuf'[i] = inbuf[i]
              \/ i = Len(inbuf') /\ inbuf'[i] = toHost[1]
<1>1. /\ toHost \in Seq(Reply) /\ toHost # << >> /\ toHost' = Tail(toHost)
      /\ inbuf \in Seq(Reply) /\ inbuf' = Append(inbuf, Head(toHost)) /\ toBoard' = toBoard
  BY DEF LineType, Deliver
<1>2. \A i \in DOMAIN toHost' : i \in Nat
  BY <1>1, HeadTailProperties, LenProperties
<1>3. Len(inbuf) \in Nat /\ Len(toHost) \in Nat
  BY <1>1, LenProperties
<1>4. /\ Head(toHost) \in Reply /\ 1 \in DOMAIN toHost /\ Head(toHost) = toHost[1]
      /\ Len(toHost') = Len(toHost) - 1
      /\ Len(toHost) = 1 => toHost' = << >>
      /\ \A i \in DOMAIN toHost' : i + 1 \in DOMAIN toHost /\ toHost'[i] = toHost[i + 1]
  BY <1>1, TailElements
<1>5. /\ Len(inbuf') = Len(inbuf) + 1
      /\ \A i \in DOMAIN inbuf' :
           \/ i \in DOMAIN inbuf /\ inbuf'[i] = inbuf[i]
           \/ i = Len(inbuf) + 1 /\ inbuf'[i] = Head(toHost)
  BY <1>1, <1>4, AppendElements
<1>6. QED
  BY <1>1, <1>2, <1>3, <1>4, <1>5

(* So does delivering an answer.                                           *)
LEMMA LineInvDeliver ==
  ASSUME TypeOK, LineInv, Board, Deliver
  PROVE  LineInv'
<1>1. LineType /\ pc' = pc /\ waiting' = waiting /\ Func' = Func
  BY BoardFacts DEF TypeOK, Func
<1>2. \A i \in DOMAIN inbuf : ~inbuf[i].own
  BY DEF LineInv, OwnIsLast, Deliver
<1>3. OwnIsLast'
  <2>1. toHost[1].own => toHost' = << >> /\ toBoard' = << >>
    BY <1>1, DeliveredElements DEF LineInv, OwnIsLast
  <2>2. \A i \in DOMAIN inbuf' : inbuf'[i].own => i = Len(inbuf') /\ toHost' = << >> /\ toBoard' = << >>
    BY <1>1, <1>2, <2>1, DeliveredElements
  <2>3. \A i \in DOMAIN toHost' : toHost'[i].own => i = Len(toHost') /\ toBoard' = << >>
    BY <1>1, DeliveredElements DEF LineInv, OwnIsLast
  <2>4. \A i \in DOMAIN toBoard' : toBoard'[i].own => i = Len(toBoard')
    BY <1>1, DeliveredElements DEF LineInv, OwnIsLast
  <2>5. QED
    BY <2>2, <2>3, <2>4 DEF OwnIsLast
<1>4. Expected'
  <2>1. \A i \in DOMAIN inbuf' : Fits(inbuf'[i])
    BY <1>1, DeliveredElements DEF LineInv, Expected
  <2>2. \A i \in DOMAIN toHost' : Fits(toHost'[i])
    BY <1>1, DeliveredElements DEF LineInv, Expected
  <2>3. /\ \A i \in DOMAIN inbuf' : Fits(inbuf[i])'
        /\ \A i \in DOMAIN toHost' : Fits(toHost[i])'
    BY <1>1, <2>1, <2>2 DEF Fits
  <2>4. \A i \in DOMAIN toBoard' :
          /\ Fits(toBoard'[i])
          /\ toBoard'[i].wrsr => pc \in {"wrsr", "failed"} /\ toBoard'[i].func = "wrrd"
          /\ pc = "wrsr" => toBoard'[i].wrsr
    BY <1>1, DeliveredElements DEF LineInv, Expected
  <2>5. \A i \in DOMAIN toBoard' : Fits(toBoard[i])'
    BY <1>1, <2>4 DEF Fits
  <2>6. QED
    BY <1>1, <2>3, <2>4, <2>5 DEF Expected
<1>5. QED
  BY <1>3, <1>4 DEF LineInv

(* Order and ownership of what is on the way, after every step.            *)
LEMMA LineInvStep ==
  ASSUME FlashToolAssumption, TypeOK, OpInv, PosInv, LineInv, CrcInv, [Next]_vars
  PROVE  LineInv'
<1>1. ASSUME inbuf' = inbuf, toHost' = toHost, toBoard' = toBoard, pc' = pc, waiting' = waiting
      PROVE  LineInv'
  <2>1. Func' = Func
    BY <1>1 DEF Func
  <2>2. OwnIsLast'
    BY <1>1 DEF LineInv, OwnIsLast
  <2>3. \A x : Fits(x) => Fits(x)'
    BY <1>1, <2>1 DEF Fits
  <2>4. Expected'
    BY <1>1, <2>3 DEF LineInv, Expected
  <2>5. QED
    BY <2>2, <2>4 DEF LineInv
<1>2. CASE LoopHead \/ ReadData
  <2>1. ~waiting /\ pc \notin {"poll", "failed"}
    BY <1>2, LoopMoves DEF TypeOK, ToolType, CommandPc
  <2>2. DOMAIN inbuf = {} /\ DOMAIN toHost = {} /\ DOMAIN toBoard = {}
    BY <2>1, NothingOnTheWay DEF LineInv
  <2>3. inbuf' = inbuf /\ toHost' = toHost /\ toBoard' = toBoard
    BY <1>2, LoopFacts
  <2>4. QED
    BY <2>2, <2>3 DEF LineInv, OwnIsLast, Expected
<1>3. CASE Board
  <2>1. CASE BecomesReady
    <3>1. inbuf' = inbuf /\ toHost' = toHost /\ toBoard' = toBoard
      BY <2>1 DEF BecomesReady, lineVars
    <3>2. pc' = pc /\ waiting' = waiting
      BY <1>3, BoardFacts
    <3>3. QED
      BY <1>1, <3>1, <3>2
  <2>2. QED
    BY <1>3, <2>1, BoardMoves, LineInvServed, LineInvDeliver
<1>4. CASE UNCHANGED vars
  BY <1>1, <1>4 DEF vars, lineVars, toolVars
<1>5. QED
  BY <1>2, <1>3, <1>4, LineInvSend, LineInvCommand DEF Next, Tool

-----------------------------------------------------------------------------
(***************************************************************************)
(* The flash: ready and unlocked for each command that changes it.         *)
(***************************************************************************)

(* A pending command changes the flash in these four places.               *)
LEMMA CmdChanges ==
  ASSUME pc \in CommandPc
  PROVE  Changes(Cmd) <=> pc \in ChangePcs
<1>1. /\ Func = "erase" <=> pc = "erase"
      /\ Func = "eraseall" <=> pc = "eraseall"
      /\ Func = "write" <=> pc = "write"
  BY DEF Func, CommandPc
<1>2. QED
  BY <1>1, CmdFacts DEF Changes, Erases, ChangePcs

(* Commands that differ in their owner only change the flash alike.        *)
LEMMA ChangesAlike ==
  ASSUME NEW c, NEW d, c.func = d.func, c.wrsr = d.wrsr
  PROVE  Changes(c) <=> Changes(d)
BY DEF Changes, Erases

(* An accepted status is up to date.                                       *)
LEMMA StatusIsTrue ==
  ASSUME TypeOK, LineInv, StatusInv, NEW a, Accepted(a), pc \in {"poll", "rdsr"}
  PROVE  (busy => a.busy) /\ (locked => a.locked)
BY DEF Accepted, Func, StatusInv

(* Sending a command to the flash, which is ready.                         *)
LEMMA BusyInvSend ==
  ASSUME FlashToolAssumption, TypeOK, OpInv, PosInv, LineInv, BusyInv, Send
  PROVE  BusyInv'
<1>1. ~waiting /\ waiting' = TRUE /\ pc' = pc /\ busy' = busy /\ pc \in CommandPc
  BY SendFacts
<1>2. busy' => pc' \in {"poll", "failed"} \/ (pc' \in ChangePcs /\ waiting')
  BY <1>1 DEF BusyInv
<1>3. CASE pc = "poll"
  <2>1. ~Changes(Cmd)
    BY <1>1, <1>3, CmdChanges DEF ChangePcs
  <2>2. \A i \in DOMAIN toBoard' : Changes(toBoard'[i]) =>
          i \in DOMAIN toBoard /\ Changes(toBoard[i])
    BY <2>1, SentElements, ChangesAlike
  <2>3. \A i \in DOMAIN toBoard' : Changes(toBoard'[i]) =>
          ~busy' /\ \A j \in DOMAIN toBoard' : Changes(toBoard'[j]) => j = i
    BY <1>1, <2>2 DEF BusyInv
  <2>4. QED
    BY <1>2, <2>3 DEF BusyInv, Changes, Erases
<1>4. CASE pc # "poll"
  <2>1. DOMAIN toBoard = {}
    BY <1>1, <1>4, NothingOnTheWay DEF LineInv, CommandPc
  <2>2. \A i \in DOMAIN toBoard' : toBoard'[i] = Cmd /\ i = Len(toBoard) + 1
    BY <2>1, SentElements
  <2>3. Changes(Cmd) => ~busy
    BY <1>1, CmdChanges DEF BusyInv, ChangePcs
  <2>4. \A i \in DOMAIN toBoard' : Changes(toBoard'[i]) =>
          ~busy' /\ \A j \in DOMAIN toBoard' : Changes(toBoard'[j]) => j = i
    BY <1>1, <2>2, <2>3
  <2>5. QED
    BY <1>2, <2>4 DEF BusyInv, Changes, Erases
<1>5. QED
  BY <1>3, <1>4

(* After a command the tool polls until the flash is ready.                *)
LEMMA BusyInvCommand ==
  ASSUME TypeOK, LineInv, StatusInv, BusyInv, command
  PROVE  BusyInv'
<1>1. PICK a : Returns(a) /\ Handles(a)
  BY DEF command
<1>2. busy' = busy /\ waiting' = FALSE /\ (Accepted(a) \/ GivenUp(a))
  BY <1>1, ReturnsFacts
<1>3. \A i \in DOMAIN toBoard' : i \in DOMAIN toBoard /\ toBoard'[i] = toBoard[i]
  BY <1>2, EmptySeq DEF Accepted, GivenUp
<1>4. ToolType
  BY DEF TypeOK
<1>5. busy => pc' \in {"poll", "failed"}
  <2> SUFFICES ASSUME busy PROVE pc' \in {"poll", "failed"}
    OBVIOUS
  <2>1. pc \in {"poll", "failed"} \cup ChangePcs
    BY DEF BusyInv
  <2>2. CASE pc = "poll"
    <3>1. CASE GivenUp(a)
      BY <1>1, <2>2, <3>1, AfterFailure DEF GivenUp
    <3>2. CASE Accepted(a)
      <4>1. a.busy
        BY <2>2, <3>2, StatusIsTrue
      <4>2. QED
        BY <1>1, <1>4, <2>2, <4>1, AfterAnswer
    <3>3. QED
      BY <1>2, <3>1, <3>2
  <2>3. CASE pc # "poll"
    BY <1>1, <1>4, <2>1, <2>3, AfterAnswer DEF ChangePcs
  <2>4. QED
    BY <2>2, <2>3
<1>6. QED
  BY <1>2, <1>3, <1>5 DEF BusyInv, Changes, Erases

(* The flash is ready after every step that does not start a change.       *)
LEMMA BusyInvStep ==
  ASSUME FlashToolAssumption, TypeOK, OpInv, PosInv, LineInv, BusyInv, StatusInv, [Next]_vars
  PROVE  BusyInv'
<1>1. ASSUME toBoard' = toBoard, pc' = pc, waiting' = waiting, busy' = busy \/ ~busy'
      PROVE  BusyInv'
  BY <1>1 DEF BusyInv, Changes, Erases
<1>2. CASE LoopHead \/ ReadData
  <2>1. ~waiting /\ pc \notin {"poll", "failed"}
    BY <1>2, LoopMoves DEF TypeOK, ToolType, CommandPc
  <2>2. toBoard' = toBoard /\ DOMAIN toBoard = {} /\ busy' = busy /\ ~busy
    BY <1>2, <2>1, LoopFacts, NothingOnTheWay DEF LineInv, BusyInv
  <2>3. QED
    BY <2>2 DEF BusyInv
<1>3. CASE Board /\ Served
  <2>1. LineType /\ pc' = pc /\ waiting' = waiting
    BY <1>3, BoardFacts DEF TypeOK
  <2>2. \A i \in DOMAIN toBoard' :
          i \in Nat \ {0} /\ i + 1 \in DOMAIN toBoard /\ toBoard'[i] = toBoard[i + 1]
    BY <1>3, <2>1, ServedElements
  <2>3. CASE busy' = busy
    <3>1. \A i \in DOMAIN toBoard' : Changes(toBoard'[i]) =>
            ~busy' /\ \A j \in DOMAIN toBoard' : Changes(toBoard'[j]) => j = i
      BY <2>2, <2>3 DEF BusyInv
    <3>2. QED
      BY <2>1, <2>3, <3>1 DEF BusyInv, Changes, Erases
  <2>4. CASE Changes(Head(toBoard))
    <3>1. 1 \in DOMAIN toBoard /\ Changes(toBoard[1])
      BY <1>3, <2>1, <2>4, ServedElements
    <3>2. \A i \in DOMAIN toBoard' : ~Changes(toBoard'[i])
      BY <2>2, <3>1 DEF BusyInv
    <3>3. pc \in {"poll", "failed"} \/ (pc \in ChangePcs /\ waiting)
      <4>1. Fits(toBoard[1]) /\ (toBoard[1].wrsr => pc \in {"wrsr", "failed"} /\ toBoard[1].func = "wrrd")
        BY <3>1 DEF LineInv, Expected
      <4>2. toBoard[1].func \in {"erase", "eraseall", "write"} \/ toBoard[1].wrsr
        BY <3>1 DEF Changes, Erases
      <4>3. Func \in {"erase", "eraseall", "write"} => pc \in ChangePcs
        BY DEF Func, ChangePcs, TypeOK, ToolType, CommandPc
      <4>4. waiting => pc \in CommandPc
        BY DEF TypeOK, ToolType
      <4>5. QED
        BY <4>1, <4>2, <4>3, <4>4 DEF Fits, ChangePcs
    <3>4. QED
      BY <2>1, <3>2, <3>3 DEF BusyInv, Changes, Erases
  <2>5. QED
    BY <1>3, <2>3, <2>4, ServedFacts
<1>4. CASE Board /\ ~Served
  <2>1. pc' = pc /\ waiting' = waiting /\ toBoard' = toBoard /\ (busy' = busy \/ ~busy')
    BY <1>4, BoardFacts, BoardMoves DEF Deliver, BecomesReady, chipVars, lineVars
  <2>2. QED
    BY <1>1, <2>1
<1>5. CASE UNCHANGED vars
  BY <1>1, <1>5 DEF vars, lineVars, toolVars, chipVars
<1>6. QED
  BY <1>2, <1>3, <1>4, <1>5, BusyInvSend, BusyInvCommand DEF Next, Tool

(* A locked flash is sent nothing but what unlocks it.                     *)
LEMMA LockInvStep ==
  ASSUME FlashToolAssumption, TypeOK, OpInv, PosInv, LineInv, LockInv, StatusInv, [Next]_vars
  PROVE  LockInv'
<1> DEFINE L == job.op = "rf" \/ pc \in UnlockPcs \cup {"failed"} \/ (pc = "poll" /\ then = "unlock")
<1> DEFINE C == \A i \in DOMAIN toBoard : Changes(toBoard[i]) /\ locked => toBoard[i].wrsr
<1>1. (locked => L) /\ C /\ job' = job /\ ToolType
  BY JobStays DEF LockInv, TypeOK
<1>2. locked' => locked
  <2>1. CASE Board
    BY <2>1, BoardMoves, ServedFacts DEF Deliver, BecomesReady, chipVars
  <2>2. CASE command
    BY <2>2, ReturnsFacts DEF command
  <2>3. QED
    BY <2>1, <2>2, SendFacts, LoopFacts DEF Next, Tool, vars, chipVars
<1>3. locked' => L'
  <2> SUFFICES ASSUME locked PROVE L'
    BY <1>2
  <2>1. CASE pc' = pc /\ then' = then
    BY <1>1, <2>1 DEF UnlockPcs
  <2>2. CASE LoopHead \/ ReadData
    BY <1>1, <2>2, LoopMoves DEF UnlockPcs
  <2>3. CASE command
    <3>1. PICK a : Returns(a) /\ Handles(a)
      BY <2>3 DEF command
    <3>2. Accepted(a) \/ GivenUp(a)
      BY <3>1, ReturnsFacts
    <3>3. CASE GivenUp(a)
      <4>1. Handles(None)
        BY <3>1, <3>3 DEF GivenUp
      <4>2. QED
        BY <1>1, <4>1, AfterFailure DEF UnlockPcs
    <3>4. CASE Accepted(a)
      <4>1. pc \in {"poll", "rdsr"} => a.locked
        BY <3>4, StatusIsTrue
      <4>2. pc = "rdsr" => ~Unlocked(a)
        BY <4>1 DEF Unlocked
      <4>3. CASE pc = "poll" /\ FlashIsReady
        BY <1>1, <4>3, WhenReady DEF UnlockPcs
      <4>4. CASE ~(pc = "poll" /\ FlashIsReady)
        BY <1>1, <3>1, <4>2, <4>4, AfterAnswer DEF UnlockPcs
      <4>5. QED
        BY <4>3, <4>4
    <3>5. QED
      BY <3>2, <3>3, <3>4
  <2>4. CASE Send
    BY <2>1, <2>4, SendFacts
  <2>5. CASE Board
    BY <2>1, <2>5, BoardFacts
  <2>6. CASE UNCHANGED vars
    BY <2>1, <2>6 DEF vars, toolVars
  <2>7. QED
    BY <2>2, <2>3, <2>4, <2>5, <2>6 DEF Next, Tool
<1>4. \A i \in DOMAIN toBoard' : Changes(toBoard'[i]) /\ locked' => toBoard'[i].wrsr
  <2>1. CASE toBoard' = toBoard
    BY <1>1, <1>2, <2>1
  <2>2. CASE Send
    <3>1. ASSUME locked, Changes(Cmd) PROVE Cmd.wrsr
      <4>1. pc \in CommandPc /\ pc \in ChangePcs
        BY <2>2, <3>1, SendFacts, CmdChanges
      <4>2. job.op # "rf"
        BY <4>1 DEF OpInv, ChangePcs
      <4>3. pc = "wrsr"
        BY <1>1, <3>1, <4>1, <4>2 DEF ChangePcs, UnlockPcs
      <4>4. QED
        BY <4>3, CmdFacts
    <3>2. ASSUME NEW i \in DOMAIN toBoard', Changes(toBoard'[i]), locked'
          PROVE  toBoard'[i].wrsr
      <4>1. CASE toBoard'[i] = Cmd
        BY <1>2, <3>1, <3>2, <4>1
      <4>2. CASE i \in DOMAIN toBoard /\ toBoard'[i].func = toBoard[i].func
                 /\ toBoard'[i].wrsr = toBoard[i].wrsr
        BY <1>1, <1>2, <3>2, <4>2, ChangesAlike
      <4>3. QED
        BY <2>2, <4>1, <4>2, SentElements
    <3>3. QED
      BY <3>2
  <2>3. CASE Served
    BY <1>1, <1>2, <2>3, ServedElements DEF TypeOK
  <2>4. CASE toBoard' = << >>
    BY <2>4, EmptySeq
  <2>5. CASE command
    BY <2>1, <2>4, <2>5, ReturnsFacts DEF command, Accepted, GivenUp
  <2>6. CASE Board
    BY <2>1, <2>3, <2>6, BoardMoves DEF Deliver, BecomesReady, lineVars
  <2>7. CASE UNCHANGED vars
    BY <2>1, <2>7 DEF vars, lineVars
  <2>8. QED
    BY <2>1, <2>2, <2>5, <2>6, <2>7, LoopFacts DEF Next, Tool
<1>5. QED
  BY <1>3, <1>4 DEF LockInv, Changes, Erases

(* A status that was read after all changes stays true.                    *)
LEMMA StatusInvStep ==
  ASSUME FlashToolAssumption, TypeOK, OpInv, PosInv, LineInv, CrcInv, StatusInv, [Next]_vars
  PROVE  StatusInv'
<1> DEFINE Old(x) == (busy => x.busy) /\ (locked => x.locked)
<1>1. ASSUME inbuf' = inbuf, toHost' = toHost, busy' => busy, locked' => locked
      PROVE  StatusInv'
  BY <1>1 DEF StatusInv
<1>2. CASE Send
  <2>1. DOMAIN inbuf' = {} /\ \A i \in DOMAIN toHost' : ~toHost'[i].own
    BY <1>2, SendFacts, SentElements, EmptySeq
  <2>2. QED
    BY <2>1 DEF StatusInv
<1>3. CASE command
  <2>1. PICK a : Returns(a)
    BY <1>3 DEF command
  <2>2. busy' = busy /\ locked' = locked /\ (Accepted(a) \/ GivenUp(a))
    BY <2>1, ReturnsFacts
  <2>3. CASE Accepted(a)
    <3>1. DOMAIN inbuf' = {} /\ DOMAIN toHost' = {}
      BY <2>3, EmptySeq DEF Accepted
    <3>2. QED
      BY <3>1 DEF StatusInv
  <2>4. CASE GivenUp(a)
    <3>1. \A i \in DOMAIN inbuf' : \E j \in DOMAIN inbuf : inbuf'[i] = inbuf[j]
      <4>1. CASE inbuf' = inbuf
        BY <4>1
      <4>2. CASE inbuf # << >> /\ inbuf' = Tail(inbuf)
        <5>1. inbuf \in Seq(Reply)
          BY DEF TypeOK, LineType
        <5>2. \A i \in DOMAIN inbuf' : i + 1 \in DOMAIN inbuf /\ inbuf'[i] = inbuf[i + 1]
          BY <4>2, <5>1, TailElements
        <5>3. QED
          BY <5>2
      <4>3. QED
        BY <2>4, <4>1, <4>2 DEF GivenUp
    <3>2. QED
      BY <2>2, <2>4, <3>1 DEF StatusInv, GivenUp
  <2>5. QED
    BY <2>2, <2>3, <2>4
<1>4. CASE Board /\ Served
  <2>1. inbuf' = inbuf /\ LineType
    BY <1>4 DEF Served, TypeOK
  <2>2. (\A i \in DOMAIN inbuf' : ~inbuf'[i].own) /\ (\A i \in DOMAIN toHost : ~toHost[i].own)
    BY <1>4, <2>1 DEF LineInv, OwnIsLast, Served
  <2>3. CASE busy' = busy /\ locked' = locked
    BY <1>4, <2>2, <2>3, ServedAnswers DEF StatusInv
  <2>4. CASE Changes(Head(toBoard))
    <3>1. Head(toBoard).func # "status"
      <4>1. Head(toBoard).wrsr => Head(toBoard).func = "wrrd"
        BY <1>4, <2>1, ServedElements DEF LineInv, Expected
      <4>2. QED
        BY <2>4, <4>1 DEF Changes, Erases
    <3>2. \A i \in DOMAIN toHost' : ~(toHost'[i].own /\ toHost'[i].func = "status")
      BY <1>4, <2>2, <3>1, ServedAnswers
    <3>3. QED
      BY <2>2, <3>2 DEF StatusInv
  <2>5. QED
    BY <1>4, <2>3, <2>4, ServedFacts
<1>5. CASE Board /\ Deliver
  <2>1. busy' = busy /\ locked' = locked
    BY <1>5 DEF Deliver, chipVars
  <2>2. (\A i \in DOMAIN inbuf : ~inbuf[i].own)
    BY <1>5 DEF LineInv, OwnIsLast, Deliver
  <2>3. LineType
    BY DEF TypeOK
  <2>4. QED
    BY <1>5, <2>1, <2>2, <2>3, DeliveredElements DEF StatusInv
<1>6. CASE BecomesReady
  BY <1>1, <1>6 DEF BecomesReady, lineVars
<1>7. CASE UNCHANGED vars
  BY <1>1, <1>7 DEF vars, lineVars, chipVars
<1>8. QED
  BY <1>1, <1>2, <1>3, <1>4, <1>5, <1>6, <1>7, LoopFacts, BoardMoves DEF Next, Tool

-----------------------------------------------------------------------------
(***************************************************************************)
(* What is erased and written.                                             *)
(***************************************************************************)

(* A sector that we may erase: not the one in which it starts, unless it   *)
(* starts with it.                                                         *)
LEMMA ErasedByWrite ==
  ASSUME FlashToolAssumption, ToolType, PosInv, ErasecInv, job.op = "we", pc = "erase",
         NEW u \in Unit, SectorOf(u) = SectorOf(offset)
  PROVE  MayErase(u)
<1>1. /\ offset \in Nat /\ left \in Nat /\ left # 0 /\ job.start \in Nat /\ Len(job.data) \in Nat
      /\ job.start <= offset /\ offset + left = job.start + Len(job.data)
  BY JobNumbers DEF ToolType, PosInv, Place, Base
<1>2. /\ SectorOf(offset) \in Nat /\ SectorOf(offset) <= offset
      /\ SectorOf(job.start) \in Nat /\ SectorOf(job.start) <= SectorOf(offset)
      /\ SectorOf(job.start) # SectorOf(offset) => job.start < SectorOf(offset)
  BY <1>1, SectorFacts, SectorsApart
<1>3. job.start <= SectorOf(offset)
  <2>1. CASE job.start % Sector = 0
    <3>1. SectorOf(job.start) = job.start
      BY <1>1, <2>1 DEF SectorOf
    <3>2. QED
      BY <1>2, <3>1
  <2>2. CASE job.start % Sector # 0
    <3>1. SectorOf(job.start) # SectorOf(offset)
      BY <2>2 DEF ErasecInv
    <3>2. QED
      BY <1>1, <1>2, <3>1
  <2>3. QED
    BY <2>1, <2>2
<1>4. SectorOf(offset) < job.start + Len(job.data)
  BY <1>1, <1>2
<1>5. QED
  BY <1>3, <1>4 DEF MayErase

(* A sector that es may erase.                                             *)
LEMMA ErasedBySectors ==
  ASSUME FlashToolAssumption, ToolType, PosInv, job.op = "es", pc = "erase",
         NEW u \in Unit, SectorOf(u) = SectorOf(offset)
  PROVE  MayErase(u)
<1> DEFINE s == SectorOf(job.start)
<1> DEFINE c == Count
<1> DEFINE n == Len(job.data)
<1>1. /\ offset \in Nat /\ left \in Nat /\ left # 0 /\ offset >= s
      /\ offset = s + Sector * (c - left)
  BY DEF ToolType, PosInv, Place, Base
<1>2. /\ s \in Nat /\ c \in Int /\ n \in Nat /\ Sector \in Nat \ {0}
      /\ Sector * c <= n + Sector - 1
  BY JobNumbers
<1>3. job.start \div Sector \in Int /\ s = Sector * (job.start \div Sector)
  BY JobNumbers, SectorFacts
<1> DEFINE k == job.start \div Sector
<1>4. k \in Int /\ s = Sector * k
  BY <1>3
<1>5. u \in Nat
  BY JobNumbers DEF Unit
<1>6. SectorOf(u) <= u /\ u < SectorOf(u) + Sector
  BY <1>5, SectorFacts
<1>7. SectorOf(offset) = offset
  <2> HIDE DEF s, c, n, k
  <2>1. offset = Sector * (k + (c - left)) /\ k + (c - left) \in Int
    BY <1>1, <1>2, <1>4
  <2>2. QED
    BY <1>1, <2>1, MultipleStarts
<1> HIDE DEF s, c, n, k
<1>8. Sector * (c - left) <= Sector * c - Sector
  <2>1. Sector * (c - left) = Sector * c - Sector * left
    BY <1>1, <1>2
  <2>2. Sector * left >= Sector
    BY <1>1, <1>2
  <2>3. Sector * c \in Int /\ Sector * left \in Int
    BY <1>1, <1>2
  <2>4. QED
    BY <1>2, <2>1, <2>2, <2>3
<1>9. Sector * (c - left) \in Int /\ Sector * c \in Int
  BY <1>1, <1>2
<1>10. offset <= s + n - 1
  BY <1>1, <1>2, <1>8, <1>9
<1>11. SectorOf(u) >= s /\ u < s + n + Sector - 1
  BY <1>1, <1>2, <1>5, <1>6, <1>7, <1>10
<1>12. QED
  BY <1>11 DEF MayErase, s, n

(* The pending command stays in bounds.                                    *)
LEMMA CmdCovers ==
  ASSUME FlashToolAssumption, ToolType, OpInv, PosInv, ErasecInv, pc \in CommandPc,
         Changes(Cmd), ~Cmd.wrsr, NEW u \in Unit, u \in Covered(Cmd)
  PROVE  Allowed(u)
<1>1. pc \in {"erase", "eraseall", "write"}
  BY CmdChanges, CmdFacts DEF ChangePcs
<1>2. CASE pc = "erase"
  <2>1. Cmd.func = "erase" /\ Cmd.at = offset
    BY <1>2, CmdFacts DEF Func
  <2>2. SectorOf(u) = SectorOf(offset)
    BY <2>1 DEF Covered
  <2>3. job.op \in {"es", "we"}
    BY <1>2, JobFacts DEF OpInv, LoopPcs, UnlockPcs, Ops
  <2>4. QED
    BY <1>2, <2>2, <2>3, ErasedByWrite, ErasedBySectors DEF Allowed
<1>3. CASE pc = "eraseall"
  <2>1. job.op = "ea"
    BY <1>3, JobFacts DEF OpInv, LoopPcs, UnlockPcs, Ops
  <2>2. QED
    BY <2>1 DEF Allowed, MayErase
<1>4. CASE pc = "write"
  <2>1. Cmd.func = "write" /\ Cmd.at = offset /\ Cmd.data = Block(Page)
    BY <1>4, CmdFacts DEF Func
  <2>2. job.op \in {"we", "wf"}
    BY <1>4, JobFacts DEF OpInv, LoopPcs, UnlockPcs, Ops
  <2>3. /\ Len(Block(Page)) <= left /\ Len(Block(Page)) \in Nat
        /\ offset >= job.start /\ offset + left = job.start + Len(job.data)
    BY <2>2, BlockType
  <2>4. u - offset \in 0 .. Len(Block(Page)) - 1
    BY <2>1 DEF Covered
  <2>5. /\ offset \in Nat /\ left \in Nat /\ job.start \in Nat /\ Len(job.data) \in Nat
        /\ u \in Int
    BY JobNumbers DEF ToolType, Unit
  <2> DEFINE s == job.start
  <2> DEFINE d == Len(job.data)
  <2> DEFINE n == Len(Block(Page))
  <2>6. /\ n <= left /\ n \in Nat /\ offset >= s /\ offset + left = s + d
        /\ 0 <= u - offset /\ u - offset <= n - 1
        /\ offset \in Nat /\ left \in Nat /\ s \in Nat /\ d \in Nat /\ u \in Int
    BY <2>3, <2>4, <2>5
  <2> HIDE DEF s, d, n
  <2>7. u - s \in 0 .. d - 1
    BY <2>6
  <2>8. QED
    BY <2>2, <2>7 DEF Allowed, s, d
<1>5. QED
  BY <1>1, <1>2, <1>3, <1>4

(* What a command covers depends on its function, address and data.        *)
LEMMA CoveredAlike ==
  ASSUME NEW c, NEW d, c.func = d.func, c.at = d.at, c.data = d.data
  PROVE  Covered(c) = Covered(d)
BY DEF Covered

(* So do all commands on the line.                                         *)
LEMMA CoverInvStep ==
  ASSUME FlashToolAssumption, TypeOK, OpInv, PosInv, ErasecInv, LineInv, CoverInv, CrcInv,
         [Next]_vars
  PROVE  CoverInv' /\ CrcInv'
<1>1. job' = job
  BY JobStays
<1>2. /\ \A u \in Unit : Allowed(u) => Allowed(u)'
      /\ \A c : Changes(c)' = Changes(c) /\ Covered(c)' = Covered(c)
  BY <1>1 DEF Allowed, MayErase, SectorOf, Changes, Erases, Covered, Unit
<1> DEFINE Good(c) ==
      /\ \A u \in Unit : Changes(c) /\ ~c.wrsr /\ u \in Covered(c) => Allowed(u)
      /\ c.func = "crc" => c.at + Len(c.data) <= Size
<1>3. \A i \in DOMAIN toBoard : Good(toBoard[i])
  BY DEF CoverInv, CrcInv
<1>4. SUFFICES \A i \in DOMAIN toBoard' : Good(toBoard'[i])
  <2>1. CrcInv'
    BY <1>4 DEF CrcInv
  <2>2. CoverInv'
    BY <1>1, <1>4 DEF CoverInv, Allowed, MayErase, SectorOf, Changes, Erases, Covered, Unit
  <2>3. QED
    BY <2>1, <2>2
<1>5. CASE toBoard' = toBoard
  BY <1>3, <1>5
<1>6. CASE toBoard' = << >>
  BY <1>6, EmptySeq
<1>7. CASE Send
  <2>1. ToolType /\ pc \in CommandPc
    BY <1>7, SendFacts DEF TypeOK
  <2>2. Good(Cmd)
    <3>1. \A u \in Unit : Changes(Cmd) /\ ~Cmd.wrsr /\ u \in Covered(Cmd) => Allowed(u)
      BY <2>1, CmdCovers
    <3>2. ASSUME Cmd.func = "crc" PROVE Cmd.at + Len(Cmd.data) <= Size
      <4>1. pc = "crc" /\ Cmd.at = offset /\ Cmd.data = Block(Page)
        BY <2>1, <3>2, CmdFacts DEF Func, CommandPc
      <4>2. job.op # "es"
        BY <4>1 DEF OpInv, LoopPcs, UnlockPcs
      <4>3. /\ Len(Block(Page)) <= left /\ Len(Block(Page)) \in Nat
            /\ offset + left = job.start + Len(job.data)
        BY <2>1, <4>2, BlockType
      <4>4. job.start + Len(job.data) <= Size /\ offset \in Nat /\ left \in Nat /\ Size \in Nat
            /\ job.start \in Nat /\ Len(job.data) \in Nat
        BY <2>1, JobFacts, JobNumbers DEF ToolType
      <4>5. QED
        BY <4>1, <4>3, <4>4
    <3>3. QED
      BY <3>1, <3>2
  <2>3. ASSUME NEW i \in DOMAIN toBoard' PROVE Good(toBoard'[i])
    <3>1. CASE toBoard'[i] = Cmd
      BY <2>2, <3>1
    <3>2. CASE /\ i \in DOMAIN toBoard
               /\ toBoard'[i].func = toBoard[i].func /\ toBoard'[i].at = toBoard[i].at
               /\ toBoard'[i].data = toBoard[i].data /\ toBoard'[i].wrsr = toBoard[i].wrsr
      <4>1. Changes(toBoard'[i]) <=> Changes(toBoard[i])
        BY <3>2, ChangesAlike
      <4>2. Covered(toBoard'[i]) = Covered(toBoard[i])
        BY <3>2, CoveredAlike
      <4>3. QED
        BY <1>3, <3>2, <4>1, <4>2
    <3>3. QED
      BY <1>7, <3>1, <3>2, SentElements
  <2>4. QED
    BY <2>3
<1>8. CASE Served
  <2>1. \A i \in DOMAIN toBoard' : i + 1 \in DOMAIN toBoard /\ toBoard'[i] = toBoard[i + 1]
    BY <1>8, ServedElements DEF TypeOK
  <2>2. QED
    BY <1>3, <2>1
<1>9. CASE command
  BY <1>5, <1>6, <1>9, ReturnsFacts DEF command, Accepted, GivenUp
<1>10. CASE Board
  BY <1>5, <1>8, <1>10, BoardMoves DEF Deliver, BecomesReady, lineVars
<1>11. CASE UNCHANGED vars
  BY <1>5, <1>11 DEF vars, lineVars
<1>12. QED
  BY <1>5, <1>7, <1>9, <1>10, <1>11, LoopFacts DEF Next, Tool

(* The flash changes only where it may.                                    *)
LEMMA OthersUntouchedStep ==
  ASSUME FlashToolAssumption, TypeOK, CoverInv, OthersUntouched, [Next]_vars
  PROVE  OthersUntouched'
<1>1. job' = job
  BY JobStays
<1>2. ASSUME NEW u \in Unit, ~Allowed(u) PROVE flash'[u] = flash[u]
  <2>1. CASE Served
    <3>1. 1 \in DOMAIN toBoard /\ Head(toBoard) = toBoard[1]
      BY <2>1, ServedElements DEF TypeOK
    <3>2. CASE flash' = flash
      BY <3>2
    <3>3. CASE /\ Changes(Head(toBoard)) /\ ~Head(toBoard).wrsr
               /\ flash' = FlashAfter(Head(toBoard))
      <4>1. u \notin Covered(Head(toBoard))
        BY <1>2, <3>1, <3>3 DEF CoverInv
      <4>2. QED
        BY <3>3, <4>1 DEF FlashAfter
    <3>4. QED
      BY <2>1, <3>2, <3>3, ServedFacts
  <2>2. CASE flash' = flash
    BY <2>2
  <2>3. CASE command
    BY <2>2, <2>3, ReturnsFacts DEF command, Returns, chipVars
  <2>4. CASE Board
    BY <2>1, <2>2, <2>4, BoardMoves DEF Deliver, BecomesReady, chipVars
  <2>5. CASE UNCHANGED vars
    BY <2>2, <2>5 DEF vars, chipVars
  <2>6. QED
    BY <2>2, <2>3, <2>4, <2>5, SendFacts, LoopFacts DEF Next, Tool
<1>3. \A u \in Unit : ~Allowed(u) => flash[u] = job.old[u]
  BY DEF OthersUntouched, Allowed
<1>4. \A u \in Unit : ~Allowed(u) => flash'[u] = job'.old[u]
  BY <1>1, <1>2, <1>3
<1>5. QED
  BY <1>1, <1>4 DEF OthersUntouched, Allowed, MayErase, SectorOf, Unit

-----------------------------------------------------------------------------
(***************************************************************************)
(* The theorems.                                                           *)
(***************************************************************************)
IInv ==
  /\ TypeOK /\ OpInv /\ LineInv
  /\ BusyInv /\ LockInv /\ StatusInv
  /\ PosInv /\ ErasecInv /\ CoverInv /\ CrcInv /\ OthersUntouched

(* At the start nothing is on the way and nothing was changed.             *)
LEMMA InitIInv ==
  ASSUME FlashToolAssumption, Init
  PROVE  IInv
<1>1. /\ job \in Jobs /\ job \in Job /\ pc = (IF job.op = "rf" THEN "head" ELSE "wren")
      /\ then = "unlock" /\ polls = Polls /\ cnt_err = RetryCount
      /\ waiting = FALSE /\ toBoard = << >> /\ toHost = << >> /\ inbuf = << >>
      /\ flash = job.old /\ busy = FALSE /\ locked = job.locked /\ faults = 0
      /\ erasec = FirstErasec
  BY DEF Init, FlashToolAssumption
<1>2. /\ job.op \in Ops /\ job.start \in Nat /\ Len(job.data) \in Nat /\ job.old \in [Unit -> Bit]
      /\ job.locked \in BOOLEAN /\ job.start \in Unit
  <2>1. job.op \in Ops /\ job.start \in Unit /\ job.data \in Seq(Bit)
        /\ job.old \in [Unit -> Bit] /\ job.locked \in BOOLEAN
    BY <1>1 DEF Job
  <2>2. job.start \in Nat
    BY <2>1 DEF Unit, FlashToolAssumption
  <2>3. QED
    BY <2>1, <2>2, LenProperties
<1>3. Polls \in Nat \ {0} /\ RetryCount \in Nat \ {0} /\ Sector \in Nat \ {0} /\ MaxFaults \in Nat
  BY DEF FlashToolAssumption
<1>4. SectorOf(job.start) \in Nat
  BY <1>2, SectorFacts
<1>5. (Len(job.data) + Sector - 1) \div Sector \in Nat
  <2> DEFINE x == Len(job.data) + Sector - 1
  <2>1. x \in Nat
    BY <1>2, <1>3
  <2> HIDE DEF x
  <2> DEFINE q == x \div Sector
  <2> DEFINE r == x % Sector
  <2>2. q \in Int /\ r \in Int /\ x = Sector * q + r /\ r < Sector
    BY <1>3, <2>1, DivMod
  <2> HIDE DEF q, r
  <2>3. q <= -1 => Sector * q <= -Sector
    BY <1>3, <2>2
  <2>4. Sector * q \in Int
    BY <1>3, <2>2
  <2>5. ~(q <= -1)
    BY <1>3, <2>1, <2>2, <2>3, <2>4
  <2>6. q \in Nat
    BY <2>2, <2>5
  <2>7. QED
    BY <2>6 DEF q, x
<1>6. /\ offset = Base
      /\ left = IF job.op = "es" THEN Count ELSE Len(job.data)
      /\ offset \in Nat /\ left \in Nat
  BY <1>2, <1>4, <1>5 DEF Init, Base, Count
<1>7. ToolType
  <2>1. pc \in CommandPc \cup {"head", "data", "done", "failed"} /\ pc # "poll"
    BY <1>1 DEF CommandPc
  <2>2. then \in Reasons
    BY <1>1 DEF Reasons
  <2>3. polls \in 0 .. Polls /\ cnt_err \in 1 .. RetryCount
    BY <1>1, <1>3
  <2>4. QED
    BY <1>1, <1>6, <2>1, <2>2, <2>3 DEF ToolType
<1>8. LineType
  BY <1>1, <1>3, EmptySeq DEF LineType
<1>9. ChipType
  BY <1>1, <1>2 DEF ChipType
<1>10. OpInv
  BY <1>1 DEF OpInv, UnlockPcs
<1>11. DOMAIN inbuf = {} /\ DOMAIN toHost = {} /\ DOMAIN toBoard = {}
  BY <1>1, EmptySeq
<1>12. LineInv /\ StatusInv /\ CoverInv /\ CrcInv
  BY <1>11 DEF LineInv, OwnIsLast, Expected, StatusInv, CoverInv, CrcInv
<1>13. BusyInv /\ LockInv
  BY <1>1, <1>11 DEF BusyInv, LockInv, UnlockPcs
<1>14. Place
  <2>1. Count \in Int /\ Sector * (Count - Count) = 0
    BY <1>3, <1>5 DEF Count
  <2>2. CASE job.op = "es"
    BY <1>4, <1>6, <2>1, <2>2 DEF Place, Base
  <2>3. CASE job.op # "es"
    BY <1>2, <1>6, <2>3 DEF Place, Base
  <2>4. QED
    BY <2>2, <2>3
<1>15. PosInv
  BY <1>1, <1>6, <1>14 DEF PosInv
<1>16. ErasecInv
  BY <1>1, <1>6 DEF ErasecInv, FirstErasec
<1>17. OthersUntouched
  BY <1>1 DEF OthersUntouched
<1>18. QED
  BY <1>7, <1>8, <1>9, <1>10, <1>12, <1>13, <1>15, <1>16, <1>17 DEF IInv, TypeOK

(* The invariant is inductive.                                             *)
LEMMA IInvStep ==
  ASSUME FlashToolAssumption, IInv, [Next]_vars
  PROVE  IInv'
<1>1. /\ TypeOK /\ ToolType /\ OpInv /\ LineInv /\ BusyInv /\ LockInv /\ StatusInv
      /\ PosInv /\ ErasecInv /\ CoverInv /\ CrcInv /\ OthersUntouched
  BY DEF IInv, TypeOK
<1>2. TypeOK'
  BY <1>1, ToolTypeStep, LineTypeStep, ChipTypeStep DEF TypeOK
<1>3. OpInv' /\ PosInv' /\ ErasecInv'
  BY <1>1, OpInvStep, PosInvStep, ErasecInvStep
<1>4. LineInv' /\ BusyInv' /\ LockInv' /\ StatusInv'
  BY <1>1, LineInvStep, BusyInvStep, LockInvStep, StatusInvStep
<1>5. CoverInv' /\ CrcInv' /\ OthersUntouched'
  BY <1>1, CoverInvStep, OthersUntouchedStep
<1>6. QED
  BY <1>2, <1>3, <1>4, <1>5 DEF IInv

(* So it always holds.                                                     *)
LEMMA IInvAlways ==
  ASSUME FlashToolAssumption
  PROVE  Spec => []IInv
<1>1. Init => IInv
  BY InitIInv
<1>2. IInv /\ [Next]_vars => IInv'
  BY IInvStep
<1>3. QED
  BY <1>1, <1>2, PTL DEF Spec

(***************************************************************************)
(* Types, among them that checksums are of bytes in the flash              *)
(* (TlsrPgm.py:710-771).                                                   *)
(***************************************************************************)
THEOREM FlashToolTypeCorrect ==
  ASSUME FlashToolAssumption
  PROVE  Spec => []TypeOK
<1>1. IInv => TypeOK
  BY DEF IInv
<1>2. QED
  BY <1>1, IInvAlways, PTL

(***************************************************************************)
(* No answer is taken for the answer to a later command, although answers  *)
(* carry no number (TlsrPgm.py:219-257).                                   *)
(***************************************************************************)
THEOREM LateAnswersAreRefused ==
  ASSUME FlashToolAssumption
  PROVE  Spec => []NoLateAnswerTaken
<1>1. IInv => NoLateAnswerTaken
  BY AcceptedIsOwn DEF IInv, NoLateAnswerTaken
<1>2. QED
  BY <1>1, IInvAlways, PTL

(***************************************************************************)
(* The flash is ready, and unlocked, whenever a command that changes it    *)
(* reaches it (TlsrPgm.py:412-441, 678-771).                               *)
(***************************************************************************)
THEOREM FlashIsReadyForCommands ==
  ASSUME FlashToolAssumption
  PROVE  Spec => []FlashTakesEveryCommand
<1>1. ASSUME IInv, toBoard # << >>, Changes(Head(toBoard))
      PROVE  ~busy /\ (locked => Head(toBoard).wrsr)
  <2>1. toBoard \in Seq(Command)
    BY <1>1 DEF IInv, TypeOK, LineType
  <2>2. 1 \in DOMAIN toBoard /\ Head(toBoard) = toBoard[1]
    BY <1>1, <2>1, TailElements
  <2>3. QED
    BY <1>1, <2>2 DEF IInv, BusyInv, LockInv
<1>2. IInv => FlashTakesEveryCommand
  BY <1>1 DEF FlashTakesEveryCommand
<1>3. QED
  BY <1>2, IInvAlways, PTL

(***************************************************************************)
(* Only the sectors and bytes that the command line names are changed      *)
(* (TlsrPgm.py:678-771, 1200-1210).                                        *)
(***************************************************************************)
THEOREM OthersAreUntouched ==
  ASSUME FlashToolAssumption
  PROVE  Spec => []OthersUntouched
<1>1. IInv => OthersUntouched
  BY DEF IInv
<1>2. QED
  BY <1>1, IInvAlways, PTL

-----------------------------------------------------------------------------
(***************************************************************************)
(* Jobs that write: where their blocks are, what is on the way to and from *)
(* them, and what has been done with those behind.                         *)
(***************************************************************************)

(* A job that writes, from a page boundary.                                *)
Writing == job.op \in {"we", "wf"} /\ job.start % Page = 0

InWrite == pc \in {"write", "crc"} \/ (pc = "poll" /\ then \in {"written", "write failed"})

(* Blocks start on page boundaries, and the sector of the current block is *)
(* the one erased last, or starts with it.                                 *)
AlignInv ==
  Writing =>
    /\ left # 0 => offset % Page = 0
    /\ job.op = "we" /\ left # 0 => erasec = SectorOf(offset) \/ offset = SectorOf(offset)
    /\ job.op = "we" /\ (pc = "data" \/ InWrite) => erasec = SectorOf(offset)
    /\ pc = "done" => left = 0

(* What is on the way to the flash changes nothing below the current       *)
(* block, and nothing at all once the board has confirmed.                 *)
BelowInv ==
  Writing /\ pc # "failed" =>
    \A i \in DOMAIN toBoard : Changes(toBoard[i]) /\ ~toBoard[i].wrsr =>
      /\ \A u \in Covered(toBoard[i]) : u >= offset
      /\ pc = "poll" => then \in {"erase failed", "write failed"}

(* The pending command is about the current block, and the data of an      *)
(* answer to crc is what the flash holds.                                  *)
PendingInv ==
  \A i \in DOMAIN toBoard : toBoard[i].own =>
    /\ toBoard[i].at = offset
    /\ toBoard[i].func \in {"write", "crc"} => toBoard[i].data = Block(Page)

Compared(a) == \A k \in DOMAIN a.data : a.data[k] = flash[offset + k - 1]

ComparedInv ==
  /\ \A i \in DOMAIN toHost : toHost[i].own /\ toHost[i].func = "crc" => Compared(toHost[i])
  /\ \A i \in DOMAIN inbuf : inbuf[i].own /\ inbuf[i].func = "crc" => Compared(inbuf[i])

(* What a verified job has done with the blocks behind it.                 *)
Settled(u) ==
  \/ BlockOf(u) \in skipped
  \/ flash[u] = Wanted(u)
  \/ \A v \in Region : BlockOf(v) = BlockOf(u) => Wanted(v) = 1

SettledInv ==
  Writing /\ job.verify /\ pc # "failed" => \A u \in Region : u < offset => Settled(u)

(* A we from a page boundary in which nothing was given up or ignored.     *)
Clean == job.op = "we" /\ job.start % Page = 0 /\ skipped = {} /\ faults = 0 /\ pc # "failed"

(* The sector of the current block is blank from address k on, and the     *)
(* current block is written.                                               *)
Blank(k) == \A u \in Unit : SectorOf(u) = SectorOf(offset) /\ u >= k => flash[u] = 1
Holds == \A u \in Region : u >= offset /\ u < offset + BlockLen => flash[u] = Wanted(u)

OnBoard == \E i \in DOMAIN toBoard : toBoard[i].own
Answered(f) ==
  \/ \E i \in DOMAIN toHost : toHost[i].own /\ toHost[i].func = f
  \/ \E i \in DOMAIN inbuf : inbuf[i].own /\ inbuf[i].func = f

Unlocking == pc \in UnlockPcs \/ (pc = "poll" /\ then = "unlock")
SectorDone ==
  \/ pc \in {"head", "data"} /\ left # 0 /\ erasec = SectorOf(offset)
  \/ pc = "poll" /\ then = "erased"
  \/ pc = "erase" /\ Answered("erase")
  \/ pc = "write" /\ (~waiting \/ OnBoard)
BlockDone ==
  \/ pc = "write" /\ Answered("write")
  \/ pc = "crc"
  \/ pc = "poll" /\ then = "written"

(* How far such a job is, in the sectors that begin in the file.           *)
CleanInv ==
  Clean =>
    /\ \A u \in Region : u < offset /\ SectorOf(u) >= job.start => flash[u] = Wanted(u)
    /\ SectorOf(offset) >= job.start =>
         /\ Unlocking => erasec # SectorOf(offset)
         /\ SectorDone => Blank(offset)
         /\ BlockDone => Holds /\ Blank(offset + BlockLen)

-----------------------------------------------------------------------------
(* Arithmetic of pages.                                                    *)

(* There is only one remainder.                                            *)
LEMMA ModUnique ==
  ASSUME NEW x \in Int, NEW S \in Nat \ {0}, NEW q \in Int, NEW r \in Int,
         x = S * q + r, 0 <= r, r < S
  PROVE  x % S = r
<1> DEFINE p == x \div S
<1> DEFINE t == x % S
<1>1. p \in Int /\ t \in Int /\ x = S * p + t /\ 0 <= t /\ t < S
  BY DivMod
<1> HIDE DEF p, t
<1>2. S * (p - q) = r - t
  BY <1>1, SMT
<1>3. CASE p = q
  BY <1>1, <1>3 DEF t
<1>4. CASE p >= q + 1
  <2>1. S * (p - q) >= S
    BY <1>1, <1>4
  <2>2. QED BY <1>1, <1>2, <2>1
<1>5. CASE p <= q - 1
  <2>1. S * (p - q) <= -S
    BY <1>1, <1>5
  <2>2. QED BY <1>1, <1>2, <2>1
<1>6. QED BY <1>1, <1>3, <1>4, <1>5

(* A sector is found from any of its addresses.                            *)
LEMMA SectorUnique ==
  ASSUME FlashToolAssumption, NEW b \in Nat, NEW q \in Int,
         Sector * q <= b, b < Sector * q + Sector
  PROVE  SectorOf(b) = Sector * q
<1> DEFINE p == b \div Sector
<1>1. p \in Int /\ SectorOf(b) = Sector * p /\ SectorOf(b) <= b /\ b < SectorOf(b) + Sector
  BY SectorFacts
<1>2. Sector \in Nat \ {0}
  BY DEF FlashToolAssumption
<1> HIDE DEF p
<1>3. CASE p = q
  BY <1>1, <1>3
<1>4. CASE p >= q + 1
  <2>1. Sector * p >= Sector * q + Sector
    BY <1>1, <1>2, <1>4
  <2>2. QED BY <1>1, <1>2, <2>1
<1>5. CASE p <= q - 1
  <2>1. Sector * p <= Sector * q - Sector
    BY <1>1, <1>2, <1>5
  <2>2. QED BY <1>1, <1>2, <2>1
<1>6. QED BY <1>1, <1>3, <1>4, <1>5, SMTT(30)

(* A page is within one sector, and the next one in the same, or starts    *)
(* one.                                                                    *)
LEMMA NextPage ==
  ASSUME FlashToolAssumption, NEW a \in Nat, a % Page = 0
  PROVE  /\ (a + Page) % Page = 0
         /\ a + Page <= SectorOf(a) + Sector
         /\ SectorOf(a + Page) = SectorOf(a) \/ SectorOf(a + Page) = a + Page
<1>1. Page \in Nat \ {0} /\ Sector \in Nat \ {0} /\ Sector % Page = 0
  BY DEF FlashToolAssumption
<1>2. PICK p \in Int : a = Page * p
  <2>1. a \div Page \in Int /\ a = Page * (a \div Page) + (a % Page) /\ a % Page = 0
    BY <1>1, DivMod
  <2>2. Page * (a \div Page) \in Int
    BY <1>1, <2>1
  <2>3. a = Page * (a \div Page)
    BY <2>1, <2>2
  <2>4. QED BY <2>1, <2>3
<1>3. PICK m \in Int : Sector = Page * m
  <2>1. Sector \div Page \in Int /\ Sector = Page * (Sector \div Page) + (Sector % Page)
    BY <1>1, DivMod
  <2>2. Page * (Sector \div Page) \in Int
    BY <1>1, <2>1
  <2>3. Sector = Page * (Sector \div Page)
    BY <1>1, <2>1, <2>2
  <2>4. QED BY <2>1, <2>3
<1>4. PICK q \in Int : SectorOf(a) = Sector * q /\ SectorOf(a) <= a /\ a < SectorOf(a) + Sector
  BY SectorFacts
<1>5. (a + Page) % Page = 0
  <2>1. PICK x \in Int, t \in Int : x = a + Page /\ t = p + 1
    BY <1>1, <1>2
  <2>2. x = Page * t + 0 /\ 0 < Page
    BY <1>1, <1>2, <2>1
  <2>3. x % Page = 0
    BY <1>1, <2>2, ModUnique
  <2>4. QED BY <2>1, <2>3
<1>6. a + Page <= Sector * q + Sector
  <2> DEFINE e == m * q + m
  <2>1. e \in Int /\ Sector * q + Sector = Page * e
    BY <1>1, <1>3
  <2> HIDE DEF e
  <2>2. Page * p < Page * e
    BY <1>1, <1>2, <1>4, <2>1
  <2>3. p + 1 <= e
    <3> SUFFICES ASSUME e <= p PROVE FALSE
      BY <2>1
    <3>1. Page * e <= Page * p
      BY <1>1, <2>1
    <3>2. Page * e \in Int /\ Page * p \in Int
      BY <1>1, <2>1
    <3>3. QED BY <2>2, <3>1, <3>2
  <2>4. Page * (p + 1) <= Page * e
    BY <1>1, <2>1, <2>3
  <2>5. Page * (p + 1) = Page * p + Page
    BY <1>1
  <2>6. Page * e \in Int
    BY <1>1, <2>1
  <2>7. QED BY <1>1, <1>2, <2>1, <2>4, <2>5, <2>6
<1>7. CASE a + Page = Sector * q + Sector
  <2>1. a + Page = Sector * (q + 1) /\ q + 1 \in Int /\ a + Page \in Nat
    BY <1>1, <1>7
  <2>2. SectorOf(a + Page) = a + Page
    BY <2>1, MultipleStarts
  <2>3. QED BY <1>4, <1>5, <1>6, <2>2
<1>8. CASE a + Page < Sector * q + Sector
  <2>1. a + Page \in Nat /\ Sector * q \in Int /\ Sector * q <= a + Page
    BY <1>1, <1>4
  <2>2. SectorOf(a + Page) = Sector * q
    BY <1>8, <2>1, SectorUnique
  <2>3. QED BY <1>4, <1>5, <1>6, <2>2
<1>9. QED
  <2>1. a + Page \in Int /\ Sector * q + Sector \in Int
    BY <1>1
  <2>2. QED BY <1>6, <1>7, <1>8, <2>1

(* The addresses of a page are in its sector.                              *)
LEMMA PageInSector ==
  ASSUME FlashToolAssumption, NEW a \in Nat, a % Page = 0, NEW u \in Nat, u >= a, u < a + Page
  PROVE  SectorOf(u) = SectorOf(a)
<1>1. Page \in Nat \ {0} /\ Sector \in Nat \ {0}
  BY DEF FlashToolAssumption
<1>2. PICK q \in Int : SectorOf(a) = Sector * q /\ SectorOf(a) <= a /\ SectorOf(a) \in Nat
  BY SectorFacts
<1>3. a + Page <= SectorOf(a) + Sector
  BY NextPage
<1>4. Sector * q <= u /\ u < Sector * q + Sector
  BY <1>1, <1>2, <1>3
<1>5. QED BY <1>2, <1>4, SectorUnique

(* The block of an address.                                                *)
LEMMA BlockStart ==
  ASSUME FlashToolAssumption, NEW a \in Nat, a % Page = 0, job.start \in Nat, job.start % Page = 0,
         NEW u \in Int
  PROVE  BlockOf(u) = a <=> u >= a /\ u < a + Page
<1> DEFINE s == job.start
<1>1. Page \in Nat \ {0} /\ s \in Nat
  BY DEF FlashToolAssumption
<1>2. PICK p \in Int : a = Page * p
  <2>1. a \div Page \in Int /\ a = Page * (a \div Page) + (a % Page) /\ a % Page = 0
    BY <1>1, DivMod
  <2>2. Page * (a \div Page) \in Int
    BY <1>1, <2>1
  <2>3. QED BY <2>1, <2>2
<1>3. PICK k \in Int : s = Page * k
  <2>1. s \div Page \in Int /\ s = Page * (s \div Page) + (s % Page) /\ s % Page = 0
    <3>1. s % Page = 0
      OBVIOUS
    <3>2. s \in Int
      BY <1>1
    <3> HIDE DEF s
    <3>3. QED BY <1>1, <3>1, <3>2, DivMod
  <2>2. Page * (s \div Page) \in Int
    BY <1>1, <2>1
  <2>3. QED BY <2>1, <2>2
<1>4. BlockOf(u) = u - ((u - s) % Page)
  BY DEF BlockOf
<1> HIDE DEF s
<1>5. ASSUME u >= a, u < a + Page PROVE BlockOf(u) = a
  <2>1. PICK x \in Int, t \in Int, e \in Int : x = u - s /\ t = p - k /\ e = u - a
    BY <1>1, <1>2, <1>3
  <2>2. x = Page * t + e /\ 0 <= e /\ e < Page
    BY <1>1, <1>2, <1>3, <1>5, <2>1
  <2>3. x % Page = e
    BY <1>1, <2>2, ModUnique
  <2>4. QED BY <1>4, <2>1, <2>3
<1>6. ASSUME BlockOf(u) = a PROVE u >= a /\ u < a + Page
  <2>1. u - s \in Int
    BY <1>1
  <2>2. (u - s) % Page \in Int /\ 0 <= (u - s) % Page /\ (u - s) % Page < Page
    BY <1>1, <2>1, DivMod
  <2>3. QED BY <1>1, <1>4, <1>6, <2>2
<1>7. QED BY <1>5, <1>6

-----------------------------------------------------------------------------
(* The steps of a job that writes.                                         *)

(* The numbers of such a job.                                              *)
LEMMA WritingFacts ==
  ASSUME FlashToolAssumption, ToolType, PosInv, Writing
  PROVE  /\ job.op # "es" /\ job.op \in {"we", "wf"} /\ job.start % Page = 0
         /\ offset \in Nat /\ left \in Nat /\ job.start \in Nat /\ Len(job.data) \in Nat
         /\ offset >= job.start /\ offset + left = job.start + Len(job.data)
         /\ job.start + Len(job.data) <= Size /\ Size \in Nat
         /\ Page \in Nat \ {0}
         /\ BlockLen \in Nat /\ BlockLen <= Page /\ BlockLen <= left
         /\ BlockLen = Page \/ BlockLen = left
<1>1. /\ job.op # "es" /\ job.op \in {"we", "wf"} /\ job.start % Page = 0
      /\ offset \in Nat /\ left \in Nat /\ job.start \in Nat /\ Len(job.data) \in Nat
      /\ offset >= job.start /\ offset + left = job.start + Len(job.data)
  BY JobNumbers DEF ToolType, PosInv, Place, Base, Writing
<1>2. job.start + Len(job.data) <= Size /\ Size \in Nat
  BY JobFacts, JobNumbers
<1>3. Page \in Nat \ {0}
  BY DEF FlashToolAssumption
<1>4. /\ BlockLen \in Nat /\ BlockLen <= Page /\ BlockLen <= left
      /\ BlockLen = Page \/ BlockLen = left
  BY <1>1, <1>3 DEF BlockLen, Min2
<1>5. QED BY <1>1, <1>2, <1>3, <1>4

(* It stays the same job with the same file.                               *)
LEMMA WritingStays ==
  ASSUME [Next]_vars
  PROVE  /\ job' = job /\ Writing' = Writing /\ Region' = Region
         /\ \A u : BlockOf(u)' = BlockOf(u) /\ Wanted(u)' = Wanted(u)
         /\ \A u : SectorOf(u)' = SectorOf(u)
         /\ \A c : Changes(c)' = Changes(c) /\ Covered(c)' = Covered(c)
<1>1. job' = job
  BY JobStays
<1>2. QED
  BY <1>1 DEF Writing, Region, BlockOf, Wanted, SectorOf, Changes, Erases, Covered, Unit

(* The position either stays, or moves on by a block.                      *)
LEMMA WritingMoves ==
  ASSUME FlashToolAssumption, ToolType, OpInv, PosInv, Writing, [Next]_vars
  PROVE  \/ Stays
         \/ SectorErased /\ pc' = "data" /\ pc = "poll" /\ then \in {"erased", "erase failed"} /\ left # 0
         \/ /\ Forward(BlockLen) /\ pc' = "head"
            /\ pc \in {"data", "crc"} \/ (pc = "poll" /\ then \in {"written", "write failed"})
<1>1. job.op # "es" /\ pc # "read"
  BY DEF Writing, OpInv, LoopPcs, UnlockPcs
<1>2. CASE command
  <2>1. PICK a : Handles(a)
    BY <1>2 DEF command
  <2>2. CASE pc = "poll" /\ FlashIsReady
    <3>1. then \in {"erased", "erase failed"} => left # 0
      BY <2>2 DEF PosInv
    <3>2. QED BY <1>1, <2>2, <3>1, ReadyFacts
  <2>3. CASE ~(pc = "poll" /\ FlashIsReady)
    BY <1>1, <2>1, <2>3, AnswerFacts
  <2>4. QED BY <2>2, <2>3
<1>3. CASE LoopHead \/ ReadData
  BY <1>3, HeadFacts
<1>4. CASE Send
  BY <1>4, SendFacts DEF Stays
<1>5. CASE Board
  BY <1>5, BoardFacts DEF Stays
<1>6. CASE UNCHANGED vars
  BY <1>6 DEF vars, toolVars, loopVars, Stays
<1>7. QED
  BY <1>2, <1>3, <1>4, <1>5, <1>6 DEF Next, Tool

(* A block was given up for good.                                          *)
LEMMA SkippedReady ==
  ASSUME ToolType, FlashIsReady
  PROVE  /\ skipped \subseteq skipped'
         /\ then \in {"erase failed", "write failed"} => pc' = "failed" \/ offset \in skipped'
<1>1. then \in Reasons
  BY DEF ToolType
<1>2. CASE then = "unlock" \/ then = "all erased" \/ (then = "written" /\ job.verify)
           \/ (Failed /\ LastTry)
  <2>1. \E l : Goto(l) /\ (Failed => l = "failed")
    BY <1>2 DEF FlashIsReady, Failed
  <2>2. QED BY <2>1 DEF Goto, loopVars, Failed
<1>3. CASE ~(then = "unlock" \/ then = "all erased" \/ (then = "written" /\ job.verify)
             \/ (Failed /\ LastTry))
  <2>1. GoesOn(~Failed)
    BY <1>3 DEF FlashIsReady
  <2>2. QED BY <2>1 DEF GoesOn, Failed
<1>4. QED BY <1>2, <1>3

(* Blocks that were given up stay given up.                                *)
LEMMA SkippedGrows ==
  ASSUME ToolType, [Next]_vars
  PROVE  skipped \subseteq skipped'
<1>1. CASE command
  <2>1. PICK a : Handles(a)
    BY <1>1 DEF command
  <2>2. CASE WriteFlashStatus(a) \/ ReadFlashStatus(a)
    BY <2>2 DEF WriteFlashStatus, ReadFlashStatus, Goto, Wait, loopVars
  <2>3. CASE Changed(a) \/ EraseAll(a)
    BY <2>3 DEF Changed, EraseAll, Goto, Wait, loopVars
  <2>4. CASE WaitingFlashReady(a)
    <3>1. CASE FlashIsReady
      BY <3>1, SkippedReady
    <3>2. CASE ~FlashIsReady
      BY <2>4, <3>2 DEF WaitingFlashReady, Polled, Goto, loopVars
    <3>3. QED BY <3>1, <3>2
  <2>5. CASE Verified(a)
    BY <2>5 DEF Verified, Goto, GoesOn, loopVars
  <2>6. CASE ReadBlockFlash(a)
    BY <2>6 DEF ReadBlockFlash, Goto, loopVars
  <2>7. QED BY <2>1, <2>2, <2>3, <2>4, <2>5, <2>6 DEF Handles
<1>2. CASE LoopHead \/ ReadData
  BY <1>2 DEF LoopHead, ReadData, Goto, loopVars
<1>3. CASE Send
  BY <1>3 DEF Send, toolVars, loopVars
<1>4. CASE Board
  BY <1>4, BoardFacts
<1>5. CASE UNCHANGED vars
  BY <1>5 DEF vars, toolVars, loopVars
<1>6. QED
  BY <1>1, <1>2, <1>3, <1>4, <1>5 DEF Next, Tool

(* How the program gets to a block, and from there to its end.             *)
LEMMA ToWrite ==
  ASSUME FlashToolAssumption, ToolType, OpInv, Writing, [Next]_vars
  PROVE  /\ pc' = "data" \/ InWrite' =>
              \/ SectorErased
              \/ Stays /\ (pc = "data" \/ InWrite)
              \/ Stays /\ (job.op = "we" => erasec = SectorOf(offset))
         /\ pc' = "done" => Stays /\ (left = 0 \/ pc = "done")
<1>1. then = "all erased" => pc # "poll"
  BY DEF OpInv, LoopReasons, Writing
<1>2. CASE pc' = pc /\ then' = then /\ Stays
  BY <1>2 DEF InWrite
<1>3. CASE LoopHead
  <2>1. CASE left = 0
    BY <1>3, <2>1 DEF LoopHead, Goto, loopVars, Stays, InWrite
  <2>2. CASE left # 0
    BY <1>3, <2>2 DEF LoopHead, Goto, loopVars, Stays, InWrite, Writing
  <2>3. QED BY <2>1, <2>2
<1>4. CASE ReadData
  BY <1>4 DEF ReadData, Goto, Advanced, loopVars, Stays, InWrite
<1>5. CASE command
  <2>1. PICK a : Handles(a)
    BY <1>5 DEF command
  <2>2. CASE pc = "poll" /\ FlashIsReady
    <3>1. pc' # "done"
      BY <1>1, <2>2, WhenReady
    <3>2. QED BY <2>2, <3>1, ReadyFacts DEF InWrite
  <2>3. CASE ~(pc = "poll" /\ FlashIsReady)
    <3>1. pc' = "poll" => \/ pc \in {"poll", "write"}
                          \/ then' \in {"erased", "erase failed", "unlock", "all erased"}
      BY <2>1, <2>3, AfterAnswer
    <3>2. QED BY <2>1, <2>3, <3>1, AnswerFacts DEF InWrite
  <2>4. QED BY <2>2, <2>3
<1>6. CASE Send
  BY <1>2, <1>6, SendFacts DEF Stays
<1>7. CASE Board
  BY <1>2, <1>7, BoardFacts DEF Stays
<1>8. CASE UNCHANGED vars
  BY <1>2, <1>8 DEF vars, toolVars, loopVars, Stays
<1>9. QED
  BY <1>3, <1>4, <1>5, <1>6, <1>7, <1>8 DEF Next, Tool

(* Moving on by blocks keeps them on page boundaries.                      *)
LEMMA AlignInvStep ==
  ASSUME FlashToolAssumption, ToolType, OpInv, PosInv, AlignInv, [Next]_vars
  PROVE  AlignInv'
<1> SUFFICES ASSUME Writing PROVE AlignInv'
  BY WritingStays DEF AlignInv
<1>1. /\ job' = job /\ \A u : SectorOf(u)' = SectorOf(u)
  BY WritingStays
<1>2. /\ left # 0 => offset % Page = 0
      /\ job.op = "we" /\ left # 0 => erasec = SectorOf(offset) \/ offset = SectorOf(offset)
      /\ job.op = "we" /\ (pc = "data" \/ InWrite) => erasec = SectorOf(offset)
      /\ pc = "done" => left = 0
  BY DEF AlignInv
<1>3. /\ offset \in Nat /\ left \in Nat /\ Page \in Nat \ {0} /\ BlockLen \in Nat /\ BlockLen <= left
      /\ BlockLen = Page \/ BlockLen = left
  BY WritingFacts
<1>4. left' # 0 => offset' % Page = 0
  <2>1. CASE Forward(BlockLen)
    <3> SUFFICES ASSUME left' # 0 PROVE offset' % Page = 0
      OBVIOUS
    <3>1. offset' = offset + Page /\ left # 0
      BY <1>3, <2>1 DEF Forward
    <3>2. (offset + Page) % Page = 0
      BY <1>2, <1>3, <3>1, NextPage
    <3>3. QED BY <3>1, <3>2
  <2>2. QED BY <1>2, <2>1, WritingMoves DEF Stays, SectorErased
<1>5. job.op = "we" /\ left' # 0 => erasec' = SectorOf(offset') \/ offset' = SectorOf(offset')
  <2>1. CASE Forward(BlockLen)
    <3> SUFFICES ASSUME job.op = "we", left' # 0
                 PROVE  erasec' = SectorOf(offset') \/ offset' = SectorOf(offset')
      OBVIOUS
    <3>1. offset' = offset + Page /\ left # 0 /\ erasec' = erasec
      BY <1>3, <2>1 DEF Forward
    <3>2. erasec = SectorOf(offset)
      <4>1. CASE pc = "data" \/ InWrite
        BY <1>2, <4>1
      <4>2. CASE Stays \/ SectorErased
        <5>1. left' = left
          BY <4>2 DEF Stays, SectorErased
        <5>2. offset' = offset
          BY <4>2 DEF Stays, SectorErased
        <5>3. QED BY <1>3, <3>1, <5>2
      <4>3. QED BY <4>1, <4>2, WritingMoves DEF InWrite
    <3>3. SectorOf(offset + Page) = SectorOf(offset) \/ SectorOf(offset + Page) = offset + Page
      BY <1>2, <1>3, <3>1, NextPage
    <3>4. QED BY <3>1, <3>2, <3>3
  <2>2. QED BY <1>2, <2>1, WritingMoves DEF Stays, SectorErased
<1>6. job.op = "we" /\ (pc' = "data" \/ InWrite') => erasec' = SectorOf(offset')
  BY <1>2, ToWrite DEF Stays, SectorErased
<1>7. pc' = "done" => left' = 0
  BY <1>2, ToWrite DEF Stays
<1>8. SectorOf(offset)' = SectorOf(offset')
  BY DEF SectorOf
<1>9. QED BY <1>1, <1>4, <1>5, <1>6, <1>7, <1>8 DEF AlignInv

-----------------------------------------------------------------------------
(* What is on the way to the flash and back, and the current block.        *)

(* The program does not come back from failing.                            *)
LEMMA FailedStays ==
  ASSUME ToolType, [Next]_vars, pc' # "failed"
  PROVE  pc # "failed"
<1>1. CASE command
  <2>1. PICK a : Handles(a)
    BY <1>1 DEF command
  <2>2. QED BY <2>1, AfterAnswer
<1>2. QED
  BY <1>1, LoopMoves, SendFacts, BoardFacts DEF Next, Tool, vars, toolVars

(* Giving a command up does not move the position.                         *)
LEMMA GivenUpStays ==
  ASSUME FlashToolAssumption, ToolType, Handles(None)
  PROVE  Stays
<1>1. pc' \in {"failed", "poll"}
  BY AfterFailure
<1>2. CASE pc = "poll" /\ FlashIsReady
  BY <1>1, <1>2, ReadyFacts
<1>3. CASE ~(pc = "poll" /\ FlashIsReady)
  BY <1>1, <1>3, AnswerFacts
<1>4. QED BY <1>2, <1>3

(* The blocks that are written and compared are those of the file.         *)
LEMMA BlockBytes ==
  ASSUME FlashToolAssumption, ToolType, PosInv, Writing
  PROVE  /\ Block(Page) \in Seq(Bit) /\ Len(Block(Page)) = BlockLen
         /\ \A u \in Int : u >= offset /\ u < offset + BlockLen =>
              /\ u \in Region /\ u - offset + 1 \in 1 .. BlockLen
              /\ Block(Page)[u - offset + 1] = Wanted(u)
<1>1. PICK s \in Nat, d \in Nat, b \in Nat, o \in Nat, l \in Nat, z \in Nat :
        s = job.start /\ d = Len(job.data) /\ b = BlockLen /\ o = offset /\ l = left /\ z = Size
  BY WritingFacts
<1>2. o >= s /\ o + l = s + d /\ b <= l /\ s + d <= z
  BY <1>1, WritingFacts
<1>3. job.data \in Seq(Bit)
  BY JobFacts
<1> DEFINE m == o - s + 1
<1> DEFINE n == o - s + b
<1>5. Block(Page) = SubSeq(job.data, m, n)
  BY <1>1 DEF Block, BlockLen
<1>6. m \in Int /\ n \in Int /\ m >= 1 /\ n <= d /\ n - m + 1 = b /\ m = o - s + 1
  <2>1. m \in Int /\ m >= 1 /\ m = o - s + 1
    BY <1>2
  <2>2. n \in Int /\ n <= d
    BY <1>2
  <2>3. n - m + 1 = b
    OBVIOUS
  <2>4. QED BY <2>1, <2>2, <2>3
<1> HIDE DEF m, n
<1>7. \A i \in m .. n : job.data[i] \in Bit
  <2>1. \A i \in m .. n : i \in 1 .. d
    BY <1>6
  <2>2. QED BY <1>1, <1>3, <2>1, ElementOfSeq
<1>8. /\ SubSeq(job.data, m, n) \in Seq(Bit)
      /\ Len(SubSeq(job.data, m, n)) = IF m <= n THEN n - m + 1 ELSE 0
      /\ \A i \in 1 .. n - m + 1 : SubSeq(job.data, m, n)[i] = job.data[m + i - 1]
  <2>1. m \in Int /\ n \in Int
    BY <1>6
  <2>2. /\ SubSeq(job.data, m, n) \in Seq(Bit)
        /\ Len(SubSeq(job.data, m, n)) = IF m <= n THEN n - m + 1 ELSE 0
    BY <1>7, <2>1, SubSeqProperties
  <2>3. \A i \in 1 .. n - m + 1 : SubSeq(job.data, m, n)[i] = job.data[m + i - 1]
    BY <1>7, <2>1, SubSeqProperties
  <2>4. QED BY <2>2, <2>3
<1>9. Len(Block(Page)) = b
  <2>1. (IF m <= n THEN n - m + 1 ELSE 0) = b
    BY <1>6
  <2>2. QED BY <1>5, <1>8, <2>1
<1>10. ASSUME NEW u \in Int, u >= o, u < o + b
       PROVE  /\ u \in Region /\ u - o + 1 \in 1 .. b
              /\ Block(Page)[u - o + 1] = Wanted(u)
  <2> DEFINE i == u - o + 1
  <2>1. i \in 1 .. b
    BY <1>10
  <2>2. m + i - 1 = u - s + 1 /\ i \in 1 .. n - m + 1
    <3>1. m + i - 1 = u - s + 1
      BY <1>6
    <3>2. QED BY <1>6, <2>1, <3>1
  <2> HIDE DEF i
  <2>3. SubSeq(job.data, m, n)[i] = job.data[m + i - 1]
    BY <1>8, <2>2
  <2>4. Block(Page)[i] = job.data[u - s + 1]
    BY <1>5, <2>2, <2>3
  <2>5. u \in 0 .. z - 1 /\ u - s \in 0 .. d - 1
    BY <1>2, <1>10
  <2>6. u \in Region /\ Wanted(u) = job.data[u - s + 1]
    BY <1>1, <2>5 DEF Region, Wanted, Unit
  <2>7. QED BY <2>1, <2>4, <2>6 DEF i
<1>11. QED BY <1>1, <1>5, <1>8, <1>9, <1>10

(* The pending command changes nothing below the current block.            *)
LEMMA CmdBelow ==
  ASSUME FlashToolAssumption, ToolType, OpInv, PosInv, ErasecInv, AlignInv, Writing,
         pc \in CommandPc, Changes(Cmd), ~Cmd.wrsr, NEW u \in Covered(Cmd)
  PROVE  u >= offset /\ pc \in {"erase", "write"}
<1>1. pc \in {"erase", "write"}
  BY CmdChanges, CmdFacts DEF ChangePcs, OpInv, LoopPcs, UnlockPcs, Writing
<1>2. offset \in Nat
  BY DEF ToolType
<1>3. CASE pc = "erase"
  <2>1. Cmd.func = "erase" /\ Cmd.at = offset
    BY <1>3, CmdFacts DEF Func
  <2>2. SectorOf(u) = SectorOf(offset) /\ u \in Unit
    BY <2>1 DEF Covered
  <2>3. job.op = "we"
    BY <1>3 DEF OpInv, LoopPcs, UnlockPcs, Writing
  <2>4. offset = SectorOf(offset)
    BY <1>3, <2>3 DEF ErasecInv, AlignInv, PosInv
  <2>5. u \in Nat
    BY <2>2, JobNumbers DEF Unit
  <2>6. QED BY <1>1, <1>2, <2>2, <2>4, <2>5, SectorFacts
<1>4. CASE pc = "write"
  <2>1. Cmd.func = "write" /\ Cmd.at = offset /\ Cmd.data = Block(Page)
    BY <1>4, CmdFacts DEF Func
  <2>2. u - offset \in 0 .. Len(Block(Page)) - 1 /\ u \in Unit
    BY <2>1 DEF Covered
  <2>3. u \in Int
    BY <2>2, JobNumbers DEF Unit
  <2>4. QED BY <1>1, <1>2, <2>2, <2>3
<1>5. QED BY <1>1, <1>3, <1>4

(* Only erase and write are sent, and the tool then moves on.              *)
LEMMA BelowInvStep ==
  ASSUME FlashToolAssumption, TypeOK, OpInv, PosInv, ErasecInv, LineInv, AlignInv, BelowInv,
         [Next]_vars
  PROVE  BelowInv'
<1> SUFFICES ASSUME Writing, pc' # "failed" PROVE BelowInv'
  BY WritingStays DEF BelowInv
<1>1. /\ ToolType /\ LineType /\ pc # "failed"
      /\ \A c : Changes(c)' = Changes(c) /\ Covered(c)' = Covered(c)
  BY FailedStays, WritingStays DEF TypeOK
<1> DEFINE Late == pc = "poll" => then \in {"erase failed", "write failed"}
<1> DEFINE Alters(c) == Changes(c) /\ ~c.wrsr
<1>2. \A i \in DOMAIN toBoard : Alters(toBoard[i]) =>
        Late /\ \A u \in Covered(toBoard[i]) : u >= offset
  BY <1>1 DEF BelowInv
<1>3. SUFFICES \A i \in DOMAIN toBoard' : Alters(toBoard'[i]) =>
        Late' /\ \A u \in Covered(toBoard'[i]) : u >= offset'
  BY <1>1 DEF BelowInv, Changes, Erases, Covered, Unit, SectorOf
<1>4. CASE toBoard' = << >>
  <2>1. DOMAIN toBoard' = {}
    BY <1>4, EmptySeq
  <2>2. QED BY <2>1
<1>5. CASE offset' = offset /\ pc' = pc /\ then' = then /\ toBoard' = toBoard
  BY <1>2, <1>5
<1>6. CASE Send
  <2>1. offset' = offset /\ pc' = pc /\ then' = then /\ pc \in CommandPc
    BY <1>6, SendFacts
  <2>2. ASSUME NEW i \in DOMAIN toBoard', Alters(toBoard'[i])
        PROVE  Late' /\ \A u \in Covered(toBoard'[i]) : u >= offset'
    <3>1. CASE toBoard'[i] = Cmd
      <4>1. Alters(Cmd)
        BY <2>2, <3>1
      <4>2. pc # "poll"
        BY <1>1, <2>1, <4>1, CmdChanges DEF ChangePcs
      <4>3. QED BY <1>1, <2>1, <3>1, <4>1, <4>2, CmdBelow
    <3>2. CASE /\ i \in DOMAIN toBoard
               /\ toBoard'[i].func = toBoard[i].func /\ toBoard'[i].at = toBoard[i].at
               /\ toBoard'[i].data = toBoard[i].data /\ toBoard'[i].wrsr = toBoard[i].wrsr
      <4>1. Alters(toBoard[i]) /\ Covered(toBoard'[i]) = Covered(toBoard[i])
        BY <2>2, <3>2, ChangesAlike, CoveredAlike
      <4>2. QED BY <1>2, <2>1, <3>2, <4>1
    <3>3. QED BY <1>6, <3>1, <3>2, SentElements
  <2>3. QED BY <2>2
<1>7. CASE command
  <2>1. PICK a : Returns(a) /\ Handles(a)
    BY <1>7 DEF command
  <2>2. CASE Accepted(a)
    BY <1>4, <2>2 DEF Accepted
  <2>3. CASE GivenUp(a)
    <3>1. toBoard' = toBoard /\ Handles(None)
      BY <2>1, <2>3 DEF GivenUp
    <3>2. offset' = offset
      BY <1>1, <3>1, GivenUpStays DEF Stays
    <3>3. Late'
      BY <3>1, AfterFailure
    <3>4. QED BY <1>2, <3>1, <3>2, <3>3
  <2>4. QED BY <2>1, <2>2, <2>3, ReturnsFacts
<1>8. CASE LoopHead \/ ReadData
  <2>1. ~waiting /\ pc \notin {"poll", "failed"}
    BY <1>1, <1>8, LoopMoves DEF ToolType, CommandPc
  <2>2. DOMAIN toBoard = {} /\ toBoard' = toBoard
    BY <1>8, <2>1, NothingOnTheWay, LoopFacts DEF LineInv
  <2>3. QED BY <2>2
<1>9. CASE Board
  <2>1. offset' = offset /\ pc' = pc /\ then' = then
    BY <1>9, BoardFacts
  <2>2. CASE Served
    <3>1. \A i \in DOMAIN toBoard' : i + 1 \in DOMAIN toBoard /\ toBoard'[i] = toBoard[i + 1]
      BY <1>1, <2>2, ServedElements
    <3>2. QED BY <1>2, <2>1, <3>1
  <2>3. QED BY <1>5, <1>9, <2>1, <2>2, BoardMoves DEF Deliver, BecomesReady, lineVars
<1>10. CASE UNCHANGED vars
  BY <1>5, <1>10 DEF vars, lineVars, toolVars, loopVars
<1>11. QED
  BY <1>6, <1>7, <1>8, <1>9, <1>10 DEF Next, Tool

(* So the flash stays below the current block.                             *)
LEMMA FlashBelow ==
  ASSUME FlashToolAssumption, TypeOK, Writing, pc # "failed", BelowInv, [Next]_vars,
         NEW u \in Unit, u < offset
  PROVE  flash'[u] = flash[u]
<1>1. CASE Served
  <2>1. 1 \in DOMAIN toBoard /\ Head(toBoard) = toBoard[1]
    BY <1>1, ServedElements DEF TypeOK
  <2>2. CASE flash' = flash
    BY <2>2
  <2>3. CASE /\ Changes(Head(toBoard)) /\ ~Head(toBoard).wrsr
             /\ flash' = FlashAfter(Head(toBoard))
    <3>1. \A w \in Covered(Head(toBoard)) : w >= offset
      BY <2>1, <2>3 DEF BelowInv
    <3>2. u \in Int /\ offset \in Nat
      BY JobNumbers DEF Unit, TypeOK, ToolType
    <3>3. u \notin Covered(Head(toBoard))
      BY <3>1, <3>2
    <3>4. QED BY <2>3, <3>3 DEF FlashAfter
  <2>4. QED BY <1>1, <2>2, <2>3, ServedFacts
<1>2. CASE flash' = flash
  BY <1>2
<1>3. CASE command
  BY <1>2, <1>3 DEF command, Returns, chipVars
<1>4. CASE Board
  BY <1>1, <1>2, <1>4, BoardMoves DEF Deliver, BecomesReady, chipVars
<1>5. CASE UNCHANGED vars
  BY <1>2, <1>5 DEF vars, chipVars
<1>6. QED
  BY <1>2, <1>3, <1>4, <1>5, SendFacts, LoopFacts DEF Next, Tool

(* The pending command is about the current block.                         *)
LEMMA PendingInvStep ==
  ASSUME FlashToolAssumption, TypeOK, OpInv, PosInv, LineInv, PendingInv, [Next]_vars
  PROVE  PendingInv'
<1>1. ToolType /\ LineType /\ job' = job
  BY JobStays DEF TypeOK
<1> DEFINE Fine(c, o, b) == c.own => c.at = o /\ (c.func \in {"write", "crc"} => c.data = b)
<1>2. \A i \in DOMAIN toBoard : Fine(toBoard[i], offset, Block(Page))
  BY DEF PendingInv
<1>3. SUFFICES \A i \in DOMAIN toBoard' : Fine(toBoard'[i], offset', Block(Page)')
  BY DEF PendingInv
<1>4. CASE DOMAIN toBoard' = {}
  BY <1>4
<1>5. CASE offset' = offset /\ left' = left /\ toBoard' = toBoard
  <2>1. Block(Page)' = Block(Page)
    BY <1>1, <1>5 DEF Block
  <2>2. QED BY <1>2, <1>5, <2>1
<1>6. CASE Send
  <2>1. offset' = offset /\ Block(Page)' = Block(Page) /\ pc \in CommandPc
    BY <1>6, SendFacts DEF Block
  <2>2. Fine(Cmd, offset, Block(Page))
    BY CmdFacts
  <2>3. \A i \in DOMAIN toBoard' : ~toBoard'[i].own \/ toBoard'[i] = Cmd
    BY <1>6, SentElements
  <2>4. QED BY <2>1, <2>2, <2>3
<1>7. CASE command
  <2>1. PICK a : Returns(a) /\ Handles(a)
    BY <1>7 DEF command
  <2>2. CASE Accepted(a)
    BY <1>4, <2>2, EmptySeq DEF Accepted
  <2>3. CASE GivenUp(a)
    BY <1>1, <1>5, <2>1, <2>3, GivenUpStays DEF GivenUp, Stays
  <2>4. QED BY <2>1, <2>2, <2>3, ReturnsFacts
<1>8. CASE LoopHead \/ ReadData
  <2>1. ~waiting /\ pc \notin {"poll", "failed"}
    BY <1>1, <1>8, LoopMoves DEF ToolType, CommandPc
  <2>2. DOMAIN toBoard = {} /\ toBoard' = toBoard
    BY <1>8, <2>1, NothingOnTheWay, LoopFacts DEF LineInv
  <2>3. QED BY <1>4, <2>2
<1>9. CASE Board
  <2>1. offset' = offset /\ left' = left
    BY <1>9, BoardFacts
  <2>2. Block(Page)' = Block(Page)
    BY <1>1, <2>1 DEF Block
  <2>3. CASE Served
    <3>1. \A i \in DOMAIN toBoard' : i + 1 \in DOMAIN toBoard /\ toBoard'[i] = toBoard[i + 1]
      BY <1>1, <2>3, ServedElements
    <3>2. QED BY <1>2, <2>1, <2>2, <3>1
  <2>4. QED BY <1>5, <1>9, <2>1, <2>3, BoardMoves DEF Deliver, BecomesReady, lineVars
<1>10. CASE UNCHANGED vars
  BY <1>5, <1>10 DEF vars, lineVars, toolVars, loopVars
<1>11. QED
  BY <1>6, <1>7, <1>8, <1>9, <1>10 DEF Next, Tool

(* The answer to crc tells what the flash holds.                           *)
LEMMA ServedCompares ==
  ASSUME FlashToolAssumption, TypeOK, LineInv, PendingInv, CrcInv, Served, offset' = offset
  PROVE  /\ \A i \in DOMAIN inbuf' : ~inbuf'[i].own
         /\ \A i \in DOMAIN toHost' : toHost'[i].own /\ toHost'[i].func = "crc" =>
              Compared(toHost'[i]) /\ flash' = flash
<1>1. LineType /\ toHost \in Seq(Reply) /\ toBoard # << >> /\ inbuf' = inbuf
  BY DEF TypeOK, LineType, Served
<1>2. /\ \A i \in DOMAIN inbuf' : ~inbuf'[i].own
      /\ \A i \in DOMAIN toHost : ~toHost[i].own
  BY <1>1 DEF LineInv, OwnIsLast
<1>3. CASE toHost' = toHost
  BY <1>2, <1>3
<1>4. ASSUME NEW g \in BOOLEAN, toHost' = Append(toHost, Answer(Head(toBoard), g)),
             NEW i \in DOMAIN toHost', toHost'[i].own, toHost'[i].func = "crc"
      PROVE  Compared(toHost'[i]) /\ flash' = flash
  <2>1. Answer(Head(toBoard), g) \in Reply
    BY <1>1, ServedElements, AnswerType DEF CrcInv, TypeOK
  <2>2. toHost'[i] = Answer(Head(toBoard), g)
    BY <1>1, <1>2, <1>4, <2>1, AppendElements
  <2>3. Head(toBoard).own /\ Head(toBoard).func = "crc"
    BY <1>4, <2>2 DEF Answer
  <2>4. Head(toBoard).at = offset /\ ~Head(toBoard).wrsr
    BY <1>1, <2>3, ServedElements DEF PendingInv, LineInv, Expected
  <2>5. flash' = flash
    BY <2>3, <2>4, ServedFacts DEF Changes, Erases
  <2>6. toHost'[i].data = [k \in DOMAIN Head(toBoard).data |-> flash[offset + k - 1]]
    BY <2>2, <2>3, <2>4 DEF Answer
  <2>7. QED BY <2>5, <2>6 DEF Compared
<1>5. QED BY <1>2, <1>3, <1>4 DEF Served

(* So is what the pending crc was told, until the tool moves on.           *)
LEMMA ComparedInvStep ==
  ASSUME FlashToolAssumption, TypeOK, OpInv, PosInv, LineInv, CrcInv, PendingInv, ComparedInv,
         [Next]_vars
  PROVE  ComparedInv'
<1>1. ToolType /\ LineType
  BY DEF TypeOK
<1> DEFINE Told(a) == a.own /\ a.func = "crc" => Compared(a)
<1>2. /\ \A i \in DOMAIN toHost : Told(toHost[i])
      /\ \A i \in DOMAIN inbuf : Told(inbuf[i])
  BY DEF ComparedInv
<1>3. ASSUME offset' = offset, flash' = flash,
             \A i \in DOMAIN toHost' : Told(toHost'[i]), \A i \in DOMAIN inbuf' : Told(inbuf'[i])
      PROVE  ComparedInv'
  BY <1>3 DEF ComparedInv, Compared
<1>4. CASE /\ \A i \in DOMAIN toHost' : ~toHost'[i].own
           /\ \A i \in DOMAIN inbuf' : ~inbuf'[i].own
  BY <1>4 DEF ComparedInv
<1>5. CASE offset' = offset /\ flash' = flash /\ toHost' = toHost /\ inbuf' = inbuf
  BY <1>2, <1>3, <1>5
<1>6. CASE Send
  <2>1. DOMAIN inbuf' = {}
    BY <1>6, SendFacts, EmptySeq
  <2>2. QED BY <1>4, <1>6, <2>1, SentElements
<1>7. CASE command
  <2>1. PICK a : Returns(a) /\ Handles(a)
    BY <1>7 DEF command
  <2>2. CASE Accepted(a)
    BY <1>4, <2>2, EmptySeq DEF Accepted
  <2>3. CASE GivenUp(a)
    <3>1. offset' = offset /\ flash' = flash /\ toHost' = toHost
      BY <1>1, <2>1, <2>3, GivenUpStays, ReturnsFacts DEF GivenUp, Stays
    <3>2. \A i \in DOMAIN inbuf' : \E j \in DOMAIN inbuf : inbuf'[i] = inbuf[j]
      <4>1. CASE inbuf' = inbuf
        BY <4>1
      <4>2. CASE inbuf # << >> /\ inbuf' = Tail(inbuf)
        <5>1. inbuf \in Seq(Reply)
          BY <1>1 DEF LineType
        <5>2. \A i \in DOMAIN inbuf' : i + 1 \in DOMAIN inbuf /\ inbuf'[i] = inbuf[i + 1]
          BY <4>2, <5>1, TailElements
        <5>3. QED BY <5>2
      <4>3. QED BY <2>3, <4>1, <4>2 DEF GivenUp
    <3>3. QED BY <1>2, <1>3, <3>1, <3>2
  <2>4. QED BY <2>1, <2>2, <2>3, ReturnsFacts
<1>8. CASE LoopHead \/ ReadData
  <2>1. ~waiting /\ pc \notin {"poll", "failed"}
    BY <1>1, <1>8, LoopMoves DEF ToolType, CommandPc
  <2>2. DOMAIN toHost = {} /\ DOMAIN inbuf = {} /\ toHost' = toHost /\ inbuf' = inbuf
    BY <1>8, <2>1, NothingOnTheWay, LoopFacts DEF LineInv
  <2>3. QED BY <1>4, <2>2
<1>9. CASE Board
  <2>1. offset' = offset
    BY <1>9, BoardFacts
  <2>2. CASE Served
    <3>1. /\ \A i \in DOMAIN inbuf' : ~inbuf'[i].own
          /\ \A i \in DOMAIN toHost' : toHost'[i].own /\ toHost'[i].func = "crc" =>
               Compared(toHost'[i]) /\ flash' = flash
      BY <2>1, <2>2, ServedCompares
    <3>2. CASE flash' = flash
      BY <1>3, <2>1, <3>1, <3>2
    <3>3. CASE flash' # flash
      BY <3>1, <3>3 DEF ComparedInv
    <3>4. QED BY <3>2, <3>3
  <2>3. CASE Deliver
    <3>1. flash' = flash
      BY <2>3 DEF Deliver, chipVars
    <3>2. /\ \A i \in DOMAIN toHost' : i + 1 \in DOMAIN toHost /\ toHost'[i] = toHost[i + 1]
          /\ \A i \in DOMAIN inbuf' : \/ i \in DOMAIN inbuf /\ inbuf'[i] = inbuf[i]
                                    \/ inbuf'[i] = toHost[1]
          /\ 1 \in DOMAIN toHost
      BY <1>1, <2>3, DeliveredElements
    <3>3. QED BY <1>2, <1>3, <2>1, <3>1, <3>2
  <2>4. CASE BecomesReady
    BY <1>5, <2>4 DEF BecomesReady, lineVars, toolVars, loopVars
  <2>5. QED BY <1>9, <2>2, <2>3, <2>4, BoardMoves
<1>10. CASE UNCHANGED vars
  BY <1>5, <1>10 DEF vars, lineVars, toolVars, loopVars, chipVars
<1>11. QED
  BY <1>6, <1>7, <1>8, <1>9, <1>10 DEF Next, Tool

(* The three ways past a block.                                            *)
LEMMA PastBlock ==
  ASSUME FlashToolAssumption, TypeOK, OpInv, LineInv, Writing, [Next]_vars, offset' # offset
  PROVE  /\ pc' = "head"
         /\ \/ pc = "data" /\ 0 \notin Range(Block(Page)) /\ ReadData
            \/ pc = "crc" /\ \E a : Accepted(a) /\ Matches(a) /\ flash' = flash
            \/ /\ pc = "poll" /\ then \in {"written", "write failed"} /\ FlashIsReady
               /\ ~(then = "written" /\ job.verify)
               /\ \E a : Returns(a) /\ a # None /\ ~a.busy
<1>1. ToolType /\ job.op # "es" /\ pc # "read"
  BY DEF TypeOK, Writing, OpInv, LoopPcs, UnlockPcs
<1>2. CASE command
  <2>1. PICK a : Returns(a) /\ Handles(a)
    BY <1>2 DEF command
  <2>2. CASE pc = "poll" /\ FlashIsReady /\ a # None /\ ~a.busy
    <3>1. Forward(BlockLen) /\ pc' = "head" /\ then \in {"written", "write failed"}
      BY <1>1, <2>2, ReadyFacts DEF Stays, SectorErased
    <3>2. ~(then = "written" /\ job.verify)
      BY <2>2, <3>1 DEF FlashIsReady, Failed, Goto
    <3>3. QED BY <2>1, <2>2, <3>1, <3>2
  <2>3. CASE ~(pc = "poll" /\ FlashIsReady)
    <3>1. pc = "crc" /\ pc' = "head"
      BY <1>1, <2>1, <2>3, AnswerFacts DEF Stays
    <3>2. Verified(a)
      BY <2>1, <3>1 DEF Handles, WriteFlashStatus, ReadFlashStatus, Changed, EraseAll,
                        WaitingFlashReady, ReadBlockFlash
    <3>3. a # None /\ Matches(a)
      BY <3>1, <3>2 DEF Verified, Goto
    <3>4. Accepted(a) /\ flash' = flash
      BY <2>1, <3>3, ReturnsFacts DEF GivenUp
    <3>5. QED BY <3>1, <3>3, <3>4
  <2>4. CASE pc = "poll" /\ ~(a # None /\ ~a.busy)
    <3>1. pc' = "failed" \/ pc' = "poll"
      BY <2>1, <2>4 DEF Handles, WriteFlashStatus, ReadFlashStatus, Changed, EraseAll,
                        WaitingFlashReady, Polled, Verified, ReadBlockFlash, Goto
    <3>2. Stays
      BY <2>4, <3>1, <2>1 DEF Handles, WriteFlashStatus, ReadFlashStatus, Changed, EraseAll,
                        WaitingFlashReady, Polled, Verified, ReadBlockFlash, Goto, loopVars, Stays
    <3>3. QED BY <3>2 DEF Stays
  <2>5. QED BY <2>2, <2>3, <2>4
<1>3. CASE LoopHead
  BY <1>3 DEF LoopHead, Goto, loopVars
<1>4. CASE ReadData
  BY <1>4 DEF ReadData, Goto, Advanced, loopVars
<1>5. CASE Send
  BY <1>5, SendFacts
<1>6. CASE Board
  BY <1>6, BoardFacts
<1>7. CASE UNCHANGED vars
  BY <1>7 DEF vars, toolVars, loopVars
<1>8. QED
  BY <1>2, <1>3, <1>4, <1>5, <1>6, <1>7 DEF Next, Tool

(* The bytes of the file that lie in the current block.                    *)
LEMMA BlockHere ==
  ASSUME FlashToolAssumption, ToolType, PosInv, AlignInv, Writing, left # 0, NEW u \in Region
  PROVE  /\ u \in Int /\ u < offset + left
         /\ BlockOf(u) = offset <=> u >= offset /\ u < offset + BlockLen
<1>1. PICK s \in Nat, d \in Nat, b \in Nat, o \in Nat, l \in Nat :
        s = job.start /\ d = Len(job.data) /\ b = BlockLen /\ o = offset /\ l = left
  BY WritingFacts
<1>2. /\ o + l = s + d /\ b <= l /\ b <= Page /\ (b = Page \/ b = l) /\ Page \in Nat \ {0}
      /\ o % Page = 0 /\ s % Page = 0
  BY <1>1, WritingFacts DEF AlignInv
<1>3. u \in Int /\ u - s \in 0 .. d - 1
  BY <1>1, JobNumbers DEF Region, Unit
<1>4. u < o + l
  BY <1>2, <1>3
<1>5. BlockOf(u) = o <=> u >= o /\ u < o + Page
  BY <1>1, <1>2, <1>3, BlockStart
<1>6. u < o + Page <=> u < o + b
  BY <1>2, <1>3, <1>4
<1>7. QED BY <1>1, <1>3, <1>4, <1>5, <1>6

(* A verified job leaves no block behind that it has not settled.          *)
LEMMA SettledInvStep ==
  ASSUME FlashToolAssumption, TypeOK, OpInv, PosInv, LineInv, AlignInv, BelowInv, ComparedInv,
         SettledInv, [Next]_vars
  PROVE  SettledInv'
<1>1. SUFFICES ASSUME Writing, job.verify, pc' # "failed", NEW u \in Region, u < offset'
               PROVE  Settled(u)'
  BY JobStays, WritingStays DEF SettledInv
<1>2. /\ ToolType /\ pc # "failed" /\ u \in Unit /\ u \in Int /\ offset \in Nat
      /\ skipped \subseteq skipped' /\ Region' = Region
      /\ \A w : BlockOf(w)' = BlockOf(w) /\ Wanted(w)' = Wanted(w)
  <2>1. ToolType /\ pc # "failed" /\ skipped \subseteq skipped'
    BY <1>1, FailedStays, SkippedGrows DEF TypeOK
  <2>2. /\ Region' = Region
        /\ \A w : BlockOf(w)' = BlockOf(w) /\ Wanted(w)' = Wanted(w)
    BY WritingStays
  <2>3. u \in Unit /\ u \in Int /\ offset \in Nat
    BY <2>1, JobNumbers DEF ToolType, Region, Unit
  <2>4. QED BY <2>1, <2>2, <2>3
<1>3. CASE u < offset
  <2>1. Settled(u) /\ flash'[u] = flash[u]
    BY <1>1, <1>2, <1>3, FlashBelow DEF SettledInv
  <2>2. QED BY <1>2, <2>1 DEF Settled
<1>4. CASE u >= offset
  <2>1. offset' # offset
    BY <1>1, <1>2, <1>4
  <2>2. offset' = offset + BlockLen
    BY <1>1, <1>2, <2>1, WritingMoves DEF Stays, SectorErased, Forward
  <2>3. left # 0 /\ BlockLen \in Nat
    BY <1>1, <1>2, <2>1, <2>2, WritingFacts
  <2>4. BlockOf(u) = offset /\ u < offset + BlockLen
    BY <1>1, <1>2, <1>4, <2>2, <2>3, BlockHere
  <2>5. /\ Block(Page) \in Seq(Bit) /\ Len(Block(Page)) = BlockLen
        /\ \A w \in Int : w >= offset /\ w < offset + BlockLen =>
             w - offset + 1 \in 1 .. BlockLen /\ Block(Page)[w - offset + 1] = Wanted(w)
    BY <1>1, <1>2, BlockBytes
  <2>6. DOMAIN Block(Page) = 1 .. BlockLen
    BY <2>5, LenProperties
  <2>7. CASE 0 \notin Range(Block(Page))
    <3>1. ASSUME NEW v \in Region, BlockOf(v) = offset PROVE Wanted(v) = 1
      <4>1. v \in Int /\ v >= offset /\ v < offset + BlockLen
        BY <1>1, <1>2, <2>3, <3>1, BlockHere
      <4>2. PICK k \in 1 .. BlockLen : k = v - offset + 1 /\ Block(Page)[k] = Wanted(v)
        BY <2>5, <4>1
      <4>3. Block(Page)[k] \in Bit
        BY <2>5, <2>6, ElementOfSeq
      <4>4. Block(Page)[k] # 0
        BY <2>6, <2>7 DEF Range
      <4>5. QED BY <4>2, <4>3, <4>4 DEF Bit
    <3>2. QED BY <1>2, <2>4, <3>1 DEF Settled
  <2>8. ASSUME NEW a, Accepted(a), pc = "crc", Matches(a), flash' = flash PROVE Settled(u)'
    <3>1. a.func = "crc" /\ a.own /\ a = inbuf[1] /\ 1 \in DOMAIN inbuf /\ a.data = Block(Page)
      BY <2>8 DEF Accepted, Func, Matches
    <3>2. Compared(a)
      BY <3>1 DEF ComparedInv
    <3>3. PICK k \in 1 .. BlockLen : k = u - offset + 1 /\ Block(Page)[k] = Wanted(u)
      BY <1>2, <1>4, <2>4, <2>5
    <3>4. flash[offset + k - 1] = Wanted(u)
      BY <2>6, <3>1, <3>2, <3>3 DEF Compared
    <3>5. offset + k - 1 = u
      BY <1>2, <3>3
    <3>6. QED BY <1>2, <2>8, <3>4, <3>5 DEF Settled
  <2>9. CASE FlashIsReady /\ then = "write failed"
    BY <1>1, <1>2, <2>4, <2>9, SkippedReady DEF Settled
  <2>10. QED
    BY <1>1, <2>1, <2>7, <2>8, <2>9, PastBlock
<1>5. QED BY <1>2, <1>3, <1>4

-----------------------------------------------------------------------------
(* Jobs in which nothing fails.                                            *)

(* Only serving a command changes the flash, and mostly not even that.     *)
LEMMA FlashMoves ==
  ASSUME [Next]_vars
  PROVE  flash' = flash \/ (Served /\ Board)
<1>1. CASE command
  BY <1>1 DEF command, Returns, chipVars
<1>2. CASE Board
  BY <1>2, BoardMoves DEF Deliver, BecomesReady, chipVars
<1>3. CASE UNCHANGED vars
  BY <1>3 DEF vars, chipVars
<1>4. QED
  BY <1>1, <1>2, <1>3, SendFacts, LoopFacts DEF Next, Tool

(* While the tool is between two changes, or nothing is on the line.       *)
LEMMA QuietFlash ==
  ASSUME FlashToolAssumption, TypeOK, LineInv, Writing, pc # "failed", BelowInv, [Next]_vars,
         \/ pc \in {"head", "data", "crc"}
         \/ pc = "poll" /\ then \notin {"erase failed", "write failed"}
         \/ DOMAIN toBoard = {}
  PROVE  flash' = flash
<1>1. CASE Served
  <2>1. 1 \in DOMAIN toBoard /\ Head(toBoard) = toBoard[1] /\ ToolType
    BY <1>1, ServedElements DEF TypeOK
  <2>2. SUFFICES ASSUME Changes(toBoard[1]), ~toBoard[1].wrsr PROVE FALSE
    BY <1>1, <2>1, ServedFacts
  <2>3. pc \notin {"head", "data"}
    BY <2>1, NothingOnTheWay DEF LineInv, ToolType, CommandPc
  <2>4. pc # "crc"
    BY <2>1, <2>2 DEF LineInv, Expected, Fits, Changes, Erases, Func
  <2>5. pc = "poll" => then \in {"erase failed", "write failed"}
    BY <2>1, <2>2 DEF BelowInv
  <2>6. QED BY <2>1, <2>3, <2>4, <2>5
<1>2. QED BY <1>1, FlashMoves

(* Without a fault the board executes and confirms.                        *)
Confirmed ==
  Served /\ Executed(Head(toBoard)) /\ toHost' = Append(toHost, Answer(Head(toBoard), TRUE))

(* So there are three steps of the board.                                  *)
LEMMA CleanBoard ==
  ASSUME Board, faults = 0, faults' = 0
  PROVE  Confirmed \/ Deliver \/ BecomesReady
<1>1. CASE Execute
  <2>1. PICK c \in Range(toBoard) : NextCommand(c) /\ Executed(c) /\ Answers(Answer(c, TRUE))
    BY <1>1 DEF Execute
  <2>2. c = Head(toBoard) /\ toBoard # << >> /\ toBoard' = Tail(toBoard)
    BY <2>1 DEF NextCommand
  <2>3. toHost' = Append(toHost, Answer(Head(toBoard), TRUE)) /\ Executed(Head(toBoard))
    BY <2>1, <2>2 DEF Answers
  <2>4. inbuf' = inbuf /\ faults' = faults
    BY <1>1 DEF Execute
  <2>5. Served
    BY <2>2, <2>3, <2>4 DEF Served
  <2>6. QED BY <2>3, <2>5 DEF Confirmed
<1>2. ~Fault
  BY DEF Fault
<1>3. QED BY <1>1, <1>2 DEF Board, ExecuteUnconfirmed, NotExecuted, Ignored

(* Such a job was one before.                                              *)
LEMMA CleanStays ==
  ASSUME TypeOK, [Next]_vars, Clean'
  PROVE  Clean /\ faults' = 0 /\ job' = job
<1>1. job' = job /\ pc # "failed" /\ skipped \subseteq skipped'
  BY JobStays, FailedStays, SkippedGrows DEF TypeOK, Clean
<1>2. faults = 0
  <2>1. faults \in Nat /\ faults' = 0
    BY DEF TypeOK, LineType, Clean
  <2>2. CASE Board
    <3>1. faults' = faults \/ Fault
      BY <2>2 DEF Board, Execute, ExecuteUnconfirmed, NotExecuted, Ignored, Deliver, BecomesReady
    <3>2. QED BY <2>1, <3>1 DEF Fault
  <2>3. CASE command
    BY <2>1, <2>3 DEF command, Returns
  <2>4. CASE UNCHANGED vars
    BY <2>1, <2>4 DEF vars
  <2>5. QED
    BY <2>1, <2>2, <2>3, <2>4, SendFacts, LoopFacts DEF Next, Tool
<1>3. QED BY <1>1, <1>2 DEF Clean

(* Erasing and writing is done by one command, on its own on the line.     *)
LEMMA OwnAlone ==
  ASSUME TypeOK, LineInv, pc \in {"erase", "write"}, DOMAIN toBoard # {}
  PROVE  /\ waiting /\ 1 \in DOMAIN toBoard /\ Head(toBoard) = toBoard[1] /\ Len(toBoard) = 1
         /\ toBoard[1].own /\ toBoard[1].func = pc /\ ~toBoard[1].wrsr
         /\ DOMAIN toHost = {} /\ DOMAIN inbuf = {}
<1>1. toBoard \in Seq(Command) /\ toBoard # << >>
  BY EmptySeq DEF TypeOK, LineType
<1>2. 1 \in DOMAIN toBoard /\ Head(toBoard) = toBoard[1]
  BY <1>1, TailElements
<1>3. Func = pc
  BY DEF Func
<1>4. waiting /\ toBoard[1].own /\ toBoard[1].func = pc /\ ~toBoard[1].wrsr
  BY <1>2, <1>3 DEF LineInv, Expected, Fits
<1>5. Len(toBoard) = 1
  BY <1>2, <1>4 DEF LineInv, OwnIsLast
<1>6. /\ \A i \in DOMAIN inbuf : inbuf[i].own
      /\ \A i \in DOMAIN toHost : toHost[i].own
  BY DEF LineInv, Expected, Fits
<1>7. DOMAIN toHost = {} /\ DOMAIN inbuf = {}
  BY <1>1, <1>6 DEF LineInv, OwnIsLast
<1>8. QED BY <1>2, <1>4, <1>5, <1>7

(* When it is executed, the chip is ready and unlocked.                    *)
LEMMA ExecutedOwn ==
  ASSUME TypeOK, LineInv, BusyInv, LockInv, PendingInv, pc \in {"erase", "write"}, Confirmed
  PROVE  /\ flash' = FlashAfter(toBoard[1]) /\ toBoard' = << >> /\ waiting /\ OnBoard
         /\ toBoard[1].func = pc /\ toBoard[1].at = offset
         /\ pc = "write" => toBoard[1].data = Block(Page)
<1>1. 1 \in DOMAIN toBoard /\ (Len(toBoard) = 1 => toBoard' = << >>)
  BY ServedElements DEF TypeOK, Confirmed
<1>2. /\ waiting /\ Head(toBoard) = toBoard[1] /\ Len(toBoard) = 1
      /\ toBoard[1].own /\ toBoard[1].func = pc /\ ~toBoard[1].wrsr
  BY <1>1, OwnAlone
<1>3. Changes(toBoard[1])
  BY <1>2 DEF Changes, Erases
<1>4. ~busy /\ ~locked
  BY <1>1, <1>2, <1>3 DEF BusyInv, LockInv
<1>5. flash' = FlashAfter(toBoard[1])
  BY <1>2, <1>3, <1>4 DEF Confirmed, Executed
<1>6. QED BY <1>1, <1>2, <1>5 DEF PendingInv, OnBoard

(* What was said of Clean, taken apart.                                    *)
Behind == \A u \in Region : u < offset /\ SectorOf(u) >= job.start => flash[u] = Wanted(u)
Stage ==
  SectorOf(offset) >= job.start =>
    /\ Unlocking => erasec # SectorOf(offset)
    /\ SectorDone => Blank(offset)
    /\ BlockDone => Holds /\ Blank(offset + BlockLen)

(* The invariant in those terms.                                           *)
LEMMA CleanParts ==
  CleanInv <=> (Clean => Behind /\ Stage)
BY DEF CleanInv, Behind, Stage

(* The rest of the invariant, for a clean job.                             *)
CleanCtx ==
  /\ TypeOK /\ OpInv /\ PosInv /\ ErasecInv /\ LineInv /\ BusyInv /\ LockInv
  /\ AlignInv /\ BelowInv /\ PendingInv
  /\ Clean /\ Behind /\ Stage

(* What follows for the current block.                                     *)
LEMMA CtxFacts ==
  ASSUME FlashToolAssumption, CleanCtx
  PROVE  /\ Writing /\ job.op = "we" /\ pc # "failed"
         /\ ToolType /\ LineType /\ ChipType
         /\ TypeOK /\ OpInv /\ PosInv /\ ErasecInv /\ LineInv /\ BusyInv /\ LockInv
         /\ AlignInv /\ BelowInv /\ PendingInv
         /\ offset \in Nat /\ left \in Nat /\ BlockLen \in Nat
         /\ left # 0 => offset % Page = 0
         /\ pc = "data" \/ InWrite => erasec = SectorOf(offset) /\ left # 0
         /\ pc = "poll" /\ then \in {"erased", "erase failed"} => left # 0
<1>1. /\ Writing /\ job.op = "we" /\ pc # "failed"
      /\ ToolType /\ LineType /\ ChipType
      /\ TypeOK /\ OpInv /\ PosInv /\ ErasecInv /\ LineInv /\ BusyInv /\ LockInv
      /\ AlignInv /\ BelowInv /\ PendingInv
  BY DEF CleanCtx, Clean, Writing, TypeOK
<1>2. offset \in Nat /\ left \in Nat /\ BlockLen \in Nat
  BY <1>1, WritingFacts
<1>3. /\ left # 0 => offset % Page = 0
      /\ pc = "data" \/ InWrite => erasec = SectorOf(offset)
  BY <1>1 DEF AlignInv
<1>4. /\ pc = "data" \/ InWrite => left # 0
      /\ pc = "poll" /\ then \in {"erased", "erase failed"} => left # 0
  BY <1>1 DEF PosInv, InWrite
<1>5. QED BY <1>1, <1>2, <1>3, <1>4

(* Once a block has been passed it holds the file.                         *)
LEMMA BehindStep ==
  ASSUME FlashToolAssumption, CleanCtx, Clean', [Next]_vars
  PROVE  Behind'
<1>0. /\ ToolType /\ TypeOK /\ PosInv /\ Writing /\ offset \in Nat /\ left \in Nat /\ BlockLen \in Nat
      /\ left # 0 => offset % Page = 0
  BY CtxFacts
<1>1. SUFFICES ASSUME NEW u \in Region, u < offset', SectorOf(u) >= job.start
               PROVE  flash'[u] = Wanted(u)
  BY WritingStays DEF Behind
<1>2. u \in Unit /\ u \in Nat /\ offset \in Nat
  <2>1. Size \in Nat
    BY <1>0, JobNumbers
  <2>2. QED BY <1>0, <2>1 DEF Region, Unit
<1>3. CASE u < offset
  <2>1. flash[u] = Wanted(u)
    BY <1>1, <1>3 DEF CleanCtx, Behind
  <2>2. QED BY <1>2, <1>3, <2>1, CtxFacts, FlashBelow
<1>4. CASE u >= offset
  <2>1. offset' # offset
    BY <1>1, <1>2, <1>4
  <2>2. offset' = offset + BlockLen
    BY <2>1, CtxFacts, WritingMoves DEF Stays, SectorErased, Forward
  <2>3. left # 0 /\ u < offset + BlockLen /\ BlockLen <= Page /\ Page \in Nat /\ BlockLen \in Nat
    BY <1>0, <1>1, <2>1, <2>2, WritingFacts
  <2>4. offset % Page = 0 /\ u < offset + Page
    BY <1>0, <1>2, <2>3
  <2>5. SectorOf(u) = SectorOf(offset)
    BY <1>2, <1>4, <2>4, PageInSector
  <2>6. Stage /\ SectorOf(offset) >= job.start
    BY <1>1, <2>5 DEF CleanCtx
  <2>7. CASE pc = "data" /\ 0 \notin Range(Block(Page)) /\ ReadData
    <3>1. erasec = SectorOf(offset)
      BY <2>7, CtxFacts
    <3>2. Blank(offset)
      BY <2>3, <2>6, <2>7, <3>1 DEF Stage, SectorDone
    <3>3. flash[u] = 1 /\ flash' = flash
      BY <1>2, <1>4, <2>5, <2>7, <3>2, LoopFacts DEF Blank
    <3>4. /\ Block(Page) \in Seq(Bit) /\ Len(Block(Page)) = BlockLen
          /\ u - offset + 1 \in 1 .. BlockLen /\ Block(Page)[u - offset + 1] = Wanted(u)
      BY <1>0, <1>2, <1>4, <2>3, BlockBytes
    <3>5. PICK k \in 1 .. BlockLen : Block(Page)[k] = Wanted(u)
      BY <3>4
    <3>6. Block(Page)[k] \in Bit /\ k \in DOMAIN Block(Page)
      BY <3>4, <3>5, LenProperties, ElementOfSeq
    <3>7. Block(Page)[k] # 0
      BY <2>7, <3>6 DEF Range
    <3>8. QED BY <3>3, <3>5, <3>6, <3>7 DEF Bit
  <2>8. CASE pc = "crc" /\ flash' = flash
    BY <1>4, <2>3, <2>6, <2>8 DEF Stage, BlockDone, Holds
  <2>9. CASE pc = "poll" /\ then = "written" /\ \E a : Returns(a)
    <3>1. flash' = flash
      BY <2>9 DEF Returns, chipVars
    <3>2. QED BY <1>4, <2>3, <2>6, <2>9, <3>1 DEF Stage, BlockDone, Holds
  <2>10. CASE then = "write failed" /\ FlashIsReady /\ pc' = "head"
    <3>1. offset \in skipped'
      BY <2>10, CtxFacts, SkippedReady
    <3>2. QED BY <3>1 DEF Clean
  <2>11. QED
    BY <2>1, <2>7, <2>8, <2>9, <2>10, CtxFacts, PastBlock
<1>5. QED BY <1>2, <1>3, <1>4

(* Where the flash and the position stay, so does what they are.           *)
LEMMA SameBlock ==
  ASSUME Stays, flash' = flash, job' = job
  PROVE  /\ SectorOf(offset)' = SectorOf(offset) /\ BlockLen' = BlockLen
         /\ Blank(offset)' = Blank(offset) /\ Holds' = Holds
         /\ Blank(offset + BlockLen)' = Blank(offset + BlockLen)
BY DEF Stays, SectorOf, BlockLen, Blank, Holds, Region, Wanted, Unit

(* What was reached before is still so.                                    *)
LEMMA StageKept ==
  ASSUME Stage, Stays, flash' = flash, job' = job,
         Unlocking' => Unlocking, SectorDone' => SectorDone, BlockDone' => BlockDone
  PROVE  Stage'
<1>1. /\ SectorOf(offset)' = SectorOf(offset) /\ erasec' = erasec
      /\ Blank(offset)' = Blank(offset) /\ Holds' = Holds
      /\ Blank(offset + BlockLen)' = Blank(offset + BlockLen)
  BY SameBlock DEF Stays
<1>2. QED BY <1>1 DEF Stage

(* There is a block, and a finished command has left nothing on the line.  *)
LEMMA NothingLeft ==
  ASSUME FlashToolAssumption, CleanCtx
  PROVE  /\ pc = "data" \/ InWrite => BlockLen # 0
         /\ ~waiting /\ pc # "poll" => DOMAIN toBoard = {} /\ DOMAIN toHost = {} /\ DOMAIN inbuf = {}
         /\ pc \in {"head", "data"} => ~waiting
<1>1. /\ pc = "data" \/ InWrite => left # 0
      /\ LineInv /\ ToolType /\ PosInv /\ Writing /\ pc # "failed"
  BY CtxFacts
<1>2. pc = "data" \/ InWrite => BlockLen # 0
  BY <1>1, WritingFacts
<1>3. ~waiting /\ pc # "poll" => DOMAIN toBoard = {} /\ DOMAIN toHost = {} /\ DOMAIN inbuf = {}
  BY <1>1, NothingOnTheWay DEF LineInv
<1>4. pc \in {"head", "data"} => ~waiting
  BY <1>1 DEF ToolType, CommandPc
<1>5. QED BY <1>2, <1>3, <1>4

(* So moving on is moving.                                                 *)
LEMMA ForwardMoves ==
  ASSUME FlashToolAssumption, CleanCtx, pc = "data" \/ InWrite, offset' = offset + BlockLen
  PROVE  offset' # offset
<1>1. BlockLen # 0 /\ BlockLen \in Nat /\ offset \in Nat
  BY CtxFacts, NothingLeft
<1>2. QED BY <1>1

(* The next block of a sector is as blank as its rest was.                 *)
LEMMA StageForward ==
  ASSUME FlashToolAssumption, CleanCtx, Forward(BlockLen), pc' = "head", flash' = flash, job' = job,
         pc = "data" \/ InWrite,
         SectorOf(offset) >= job.start => Blank(offset) \/ Blank(offset + BlockLen)
  PROVE  Stage'
<1>1. /\ erasec = SectorOf(offset) /\ offset \in Nat /\ BlockLen \in Nat
      /\ offset' = offset + BlockLen /\ erasec' = erasec
  BY CtxFacts DEF Forward
<1>2. ~Unlocking' /\ ~BlockDone'
  BY DEF Unlocking, BlockDone, UnlockPcs
<1>3. ASSUME SectorOf(offset') >= job.start, erasec' = SectorOf(offset'),
             NEW u \in Unit, SectorOf(u) = SectorOf(offset'), u >= offset'
      PROVE  flash'[u] = 1
  <2>1. SectorOf(offset) = SectorOf(offset') /\ SectorOf(offset) >= job.start
    BY <1>1, <1>3
  <2>2. u \in Int
    <3>1. Size \in Nat
      BY CtxFacts, JobNumbers
    <3>2. QED BY <3>1 DEF Unit
  <2>3. u >= offset /\ u >= offset + BlockLen
    BY <1>1, <1>3, <2>2
  <2>4. QED BY <1>3, <2>1, <2>3 DEF Blank
<1>4. /\ SectorOf(offset)' = SectorOf(offset') /\ \A u : SectorOf(u)' = SectorOf(u)
      /\ SectorDone' => erasec' = SectorOf(offset')
  BY DEF SectorOf, SectorDone
<1>5. QED BY <1>2, <1>3, <1>4 DEF Stage, Blank, Unit

(* What the two commands do to the current sector.                         *)
LEMMA ConfirmedErase ==
  ASSUME FlashToolAssumption, CleanCtx, Confirmed, pc = "erase", offset' = offset
  PROVE  Blank(offset)'
<1>1. /\ flash' = FlashAfter(toBoard[1])
      /\ toBoard[1].func = "erase" /\ toBoard[1].at = offset
  BY CtxFacts, ExecutedOwn
<1>2. ASSUME NEW u \in Unit, SectorOf(u) = SectorOf(offset) PROVE flash'[u] = 1
  <2>1. u \in Covered(toBoard[1]) /\ Erases(toBoard[1])
    BY <1>1, <1>2 DEF Covered, Erases
  <2>2. QED BY <1>1, <2>1 DEF FlashAfter
<1>3. QED BY <1>2 DEF Blank, SectorOf, Unit

(* Writing fills the block and leaves the rest of the sector.              *)
LEMMA ConfirmedWrite ==
  ASSUME FlashToolAssumption, CleanCtx, Confirmed, pc = "write", Stays, job' = job,
         Blank(offset)
  PROVE  Holds' /\ Blank(offset + BlockLen)'
<1>1. /\ flash' = FlashAfter(toBoard[1])
      /\ toBoard[1].func = "write" /\ toBoard[1].at = offset /\ toBoard[1].data = Block(Page)
  BY CtxFacts, ExecutedOwn
<1>2. PICK b \in Nat, o \in Nat : b = BlockLen /\ o = offset
  BY CtxFacts
<1>3. /\ ToolType /\ PosInv /\ Writing /\ AlignInv /\ left # 0 /\ o % Page = 0 /\ b <= Page
      /\ Page \in Nat
  <2>1. /\ ToolType /\ PosInv /\ Writing /\ AlignInv /\ left # 0 /\ o % Page = 0
    BY <1>2, CtxFacts DEF InWrite
  <2>2. QED BY <1>2, <2>1, WritingFacts
<1>4. /\ Block(Page) \in Seq(Bit) /\ Len(Block(Page)) = b
      /\ \A u \in Int : u >= o /\ u < o + b =>
           u - o + 1 \in 1 .. b /\ Block(Page)[u - o + 1] = Wanted(u)
  BY <1>2, <1>3, BlockBytes
<1>5. \A u \in Unit : u \in Nat
  BY <1>3, JobNumbers DEF Unit
<1>6. ASSUME NEW u \in Unit
      PROVE  /\ u \in Covered(toBoard[1]) <=> u >= o /\ u < o + b
             /\ ~Erases(toBoard[1])
             /\ u >= o /\ u < o + b => flash'[u] = Min2(flash[u], Block(Page)[u - o + 1])
             /\ ~(u >= o /\ u < o + b) => flash'[u] = flash[u]
  <2>1. u \in Covered(toBoard[1]) <=> u - o \in 0 .. b - 1
    BY <1>1, <1>2, <1>4 DEF Covered
  <2>2. u - o \in 0 .. b - 1 <=> u >= o /\ u < o + b
    BY <1>5
  <2>3. ~Erases(toBoard[1])
    BY <1>1 DEF Erases
  <2>4. QED BY <1>1, <1>2, <2>1, <2>2, <2>3 DEF FlashAfter
<1>7. ASSUME NEW u \in Region, u >= o, u < o + b PROVE flash'[u] = Wanted(u)
  <2>1. u \in Unit /\ u \in Nat
    BY <1>5 DEF Region
  <2>2. u < o + Page
    BY <1>3, <1>7, <2>1
  <2>3. SectorOf(u) = SectorOf(o)
    BY <1>3, <1>7, <2>1, <2>2, PageInSector
  <2>4. flash[u] = 1
    BY <1>2, <1>7, <2>1, <2>3 DEF Blank
  <2>5. PICK k \in 1 .. b : k = u - o + 1 /\ Block(Page)[k] = Wanted(u)
    BY <1>4, <1>7, <2>1
  <2>6. Block(Page)[k] \in Bit
    BY <1>4, <2>5, ElementOfSeq
  <2>7. flash'[u] = Min2(1, Block(Page)[k])
    BY <1>6, <1>7, <2>1, <2>4, <2>5
  <2>8. QED BY <2>5, <2>6, <2>7 DEF Min2, Bit
<1>8. Holds'
  BY <1>2, <1>7 DEF Holds, Region, Wanted, Unit, BlockLen, Stays
<1>9. ASSUME NEW u \in Unit, SectorOf(u) = SectorOf(offset), u >= o + b PROVE flash'[u] = 1
  <2>1. u >= o /\ ~(u < o + b)
    BY <1>5, <1>9
  <2>2. flash[u] = 1
    BY <1>2, <1>9, <2>1 DEF Blank
  <2>3. QED BY <1>6, <2>1, <2>2
<1>10. Blank(offset + BlockLen)'
  BY <1>2, <1>9 DEF Blank, SectorOf, Unit, BlockLen, Stays
<1>11. QED BY <1>8, <1>10

(* The stages under the steps of the board.                                *)
LEMMA StageBoard ==
  ASSUME FlashToolAssumption, CleanCtx, faults' = 0, Board, [Next]_vars
  PROVE  Stage'
<1>1. /\ pc' = pc /\ then' = then /\ Stays /\ job' = job /\ waiting' = waiting
      /\ Stage /\ Writing /\ faults = 0
  BY BoardFacts, CtxFacts DEF CleanCtx, Clean, Stays
<1>2. Unlocking' => Unlocking
  BY <1>1 DEF Unlocking
<1>3. CASE Deliver
  <2>1. \A f : Answered(f)' => Answered(f)
    BY <1>3, CtxFacts, DeliveredElements DEF Answered
  <2>2. flash' = flash /\ toBoard' = toBoard
    BY <1>3 DEF Deliver, chipVars
  <2>3. (SectorDone' => SectorDone) /\ (BlockDone' => BlockDone)
    BY <1>1, <2>1, <2>2 DEF SectorDone, BlockDone, OnBoard, Stays, SectorOf
  <2>4. QED BY <1>1, <1>2, <2>2, <2>3, StageKept
<1>4. CASE BecomesReady
  <2>1. flash' = flash /\ toBoard' = toBoard /\ toHost' = toHost /\ inbuf' = inbuf
    BY <1>4 DEF BecomesReady, lineVars
  <2>2. (SectorDone' => SectorDone) /\ (BlockDone' => BlockDone)
    BY <1>1, <2>1 DEF SectorDone, BlockDone, OnBoard, Answered, Stays, SectorOf
  <2>3. QED BY <1>1, <1>2, <2>1, <2>2, StageKept
<1>5. CASE Confirmed
  <2>1. SectorOf(offset)' = SectorOf(offset) /\ erasec' = erasec
    BY <1>1 DEF Stays, SectorOf
  <2>2. CASE pc = "erase"
    <3>1. Blank(offset)'
      BY <1>1, <1>5, <2>2, ConfirmedErase DEF Stays
    <3>2. ~Unlocking' /\ ~BlockDone'
      BY <1>1, <2>2 DEF Unlocking, BlockDone, UnlockPcs
    <3>3. QED BY <3>1, <3>2 DEF Stage
  <2>3. CASE pc = "write"
    <3>1. toBoard' = << >> /\ waiting /\ OnBoard
      BY <1>5, <2>3, CtxFacts, ExecutedOwn
    <3>2. DOMAIN toBoard' = {}
      BY <3>1, EmptySeq
    <3>3. SectorDone /\ ~SectorDone' /\ ~Unlocking'
      BY <1>1, <2>3, <3>1, <3>2 DEF SectorDone, Unlocking, UnlockPcs, OnBoard
    <3>4. SectorOf(offset) >= job.start => Holds' /\ Blank(offset + BlockLen)'
      BY <1>1, <1>5, <2>3, <3>3, ConfirmedWrite DEF Stage
    <3>5. QED BY <1>1, <2>1, <3>3, <3>4 DEF Stage
  <2>4. CASE pc \notin {"erase", "write"}
    <3>1. (SectorDone' => SectorDone) /\ (BlockDone' => BlockDone)
      BY <1>1, <2>4 DEF SectorDone, BlockDone, Stays, SectorOf
    <3>2. SectorDone \/ BlockDone => flash' = flash
      <4>1. SectorDone \/ BlockDone =>
              \/ pc \in {"head", "data", "crc"}
              \/ pc = "poll" /\ then \notin {"erase failed", "write failed"}
        BY <2>4 DEF SectorDone, BlockDone
      <4>2. QED BY <4>1, CtxFacts, QuietFlash
    <3>3. CASE flash' = flash
      BY <1>1, <1>2, <3>1, <3>3, StageKept
    <3>4. CASE ~SectorDone /\ ~BlockDone
      BY <1>1, <1>2, <2>1, <3>1, <3>4 DEF Stage
    <3>5. QED BY <3>2, <3>3, <3>4
  <2>5. QED BY <2>2, <2>3, <2>4
<1>6. QED BY <1>1, <1>3, <1>4, <1>5, CleanBoard

(* Under the steps of the loops, and of sending.                           *)
LEMMA StageLoops ==
  ASSUME FlashToolAssumption, CleanCtx, Clean', LoopHead \/ ReadData \/ Send, [Next]_vars
  PROVE  Stage'
<1>1. /\ Stage /\ Writing /\ job.op = "we" /\ job' = job
      /\ pc = "data" \/ InWrite => erasec = SectorOf(offset) /\ left # 0
  BY CtxFacts, JobStays DEF CleanCtx
<1>2. CASE Send
  <2>1. /\ pc' = pc /\ then' = then /\ Stays /\ ~waiting /\ pc \in CommandPc /\ flash' = flash
    BY <1>2, SendFacts DEF Stays
  <2>2. DOMAIN inbuf' = {}
    BY <1>2, SendFacts, EmptySeq
  <2>3. \A f : ~Answered(f)'
    BY <1>2, <2>2, SentElements, CtxFacts DEF Answered
  <2>4. /\ Unlocking' => Unlocking
        /\ SectorDone' => SectorDone
        /\ BlockDone' => BlockDone
    BY <2>1, <2>3 DEF Unlocking, SectorDone, BlockDone, CommandPc
  <2>5. QED BY <1>1, <2>1, <2>4, StageKept
<1>3. CASE (LoopHead \/ ReadData) /\ Stays
  <2>1. flash' = flash /\ toHost' = toHost /\ inbuf' = inbuf
    BY <1>3, LoopFacts
  <2>2. pc \in {"head", "data"}
    BY <1>3 DEF LoopHead, ReadData
  <2>3. DOMAIN toHost' = {} /\ DOMAIN inbuf' = {}
    BY <2>1, <2>2, NothingLeft
  <2>4. \A f : ~Answered(f)'
    BY <2>3 DEF Answered
  <2>5. pc' \in {"done", "erase", "data", "write", "head"}
    BY <1>1, <1>3, LoopMoves
  <2>6. SectorDone' => SectorDone
    <3>1. CASE pc = "data"
      BY <1>1, <3>1 DEF SectorDone
    <3>2. CASE LoopHead /\ pc' = "data"
      <4>1. left # 0 /\ erasec = SectorOf(offset) /\ pc = "head"
        BY <1>1, <3>2 DEF LoopHead, Goto
      <4>2. QED BY <4>1 DEF SectorDone
    <3>3. CASE LoopHead /\ pc' # "data"
      <4>1. pc' \in {"done", "erase"}
        BY <1>1, <3>3, LoopMoves DEF LoopHead
      <4>2. QED BY <2>4, <4>1 DEF SectorDone
    <3>4. QED BY <1>3, <3>1, <3>2, <3>3 DEF ReadData
  <2>7. ~Unlocking' /\ ~BlockDone'
    BY <2>4, <2>5 DEF Unlocking, BlockDone, UnlockPcs
  <2>8. QED BY <1>1, <1>3, <2>1, <2>6, <2>7, StageKept
<1>4. CASE ReadData /\ ~Stays
  <2>1. Forward(BlockLen) /\ pc' = "head" /\ pc = "data" /\ flash' = flash
    BY <1>4, HeadFacts, LoopFacts
  <2>2. SectorOf(offset) >= job.start => Blank(offset)
    BY <1>1, <2>1 DEF Stage, SectorDone
  <2>3. QED BY <1>1, <2>1, <2>2, StageForward
<1>5. QED
  <2>1. LoopHead => Stays
    BY DEF LoopHead, Goto, loopVars, Stays
  <2>2. QED BY <1>2, <1>3, <1>4, <2>1

(* Under the ends of commands.                                             *)
LEMMA StageCommand ==
  ASSUME FlashToolAssumption, CleanCtx, Clean', command, [Next]_vars
  PROVE  Stage'
<1>1. PICK a : Returns(a) /\ Handles(a)
  BY DEF command
<1>2. /\ Stage /\ Writing /\ job.op = "we" /\ job' = job /\ ToolType /\ TypeOK /\ LineInv /\ OpInv
      /\ pc = "data" \/ InWrite => erasec = SectorOf(offset) /\ left # 0
      /\ offset \in Nat /\ pc' # "failed" /\ skipped' = {}
  BY CtxFacts, JobStays DEF CleanCtx, Clean
<1>3. /\ flash' = flash /\ waiting /\ ~waiting' /\ (Accepted(a) \/ GivenUp(a))
  BY <1>1, <1>2, ReturnsFacts
<1>4. CASE offset' # offset
  <2>1. Forward(BlockLen) /\ pc' = "head" /\ (pc = "data" \/ InWrite)
    BY <1>2, <1>4, CtxFacts, WritingMoves DEF Stays, SectorErased, InWrite
  <2>2. CASE pc = "crc" \/ (pc = "poll" /\ then = "written")
    <3>1. SectorOf(offset) >= job.start => Blank(offset + BlockLen)
      BY <1>2, <2>2 DEF Stage, BlockDone
    <3>2. QED BY <1>2, <1>3, <2>1, <3>1, StageForward
  <2>3. CASE pc = "poll" /\ then = "write failed" /\ FlashIsReady
    <3>1. offset \in skipped'
      BY <1>2, <2>3, SkippedReady
    <3>2. QED BY <1>2, <3>1
  <2>4. pc # "data"
    BY <1>2, <1>3 DEF ToolType, CommandPc
  <2>5. QED BY <1>2, <1>4, <2>2, <2>3, <2>4, PastBlock
<1>5. CASE offset' = offset /\ GivenUp(a)
  <2>1. pc' = "poll" /\ then' \in {"erase failed", "write failed"}
    BY <1>1, <1>2, <1>5, AfterFailure DEF GivenUp
  <2>2. ~Unlocking' /\ ~SectorDone' /\ ~BlockDone'
    BY <2>1 DEF Unlocking, SectorDone, BlockDone, UnlockPcs
  <2>3. QED BY <2>2 DEF Stage
<1>6. CASE offset' = offset /\ Accepted(a) /\ pc = "poll" /\ FlashIsReady
  <2>2. ~(Forward(BlockLen) /\ then \in {"written", "write failed"})
    BY <1>6, ForwardMoves DEF Forward, InWrite
  <2>3. CASE Stays /\ pc' \in {"rdsr", "done"}
    <3>1. Unlocking' => Unlocking
      BY <1>2, <1>6, <2>3, WhenReady DEF Unlocking, UnlockPcs
    <3>2. ~SectorDone' /\ ~BlockDone'
      BY <2>3 DEF SectorDone, BlockDone
    <3>3. QED BY <1>2, <1>3, <2>3, <3>1, <3>2, StageKept
  <2>4. CASE Stays /\ pc' = "crc" /\ then = "written"
    <3>1. BlockDone /\ ~SectorDone' /\ ~Unlocking'
      BY <1>6, <2>4 DEF BlockDone, SectorDone, Unlocking, UnlockPcs
    <3>2. QED BY <1>2, <1>3, <2>4, <3>1, StageKept
  <2>5. CASE SectorErased /\ pc' = "data" /\ then \in {"erased", "erase failed"}
    <3>1. then = "erased"
      <4>1. then = "erase failed" => offset \in skipped'
        BY <1>2, <1>6, <2>5, SkippedReady
      <4>2. QED BY <1>2, <2>5, <4>1
    <3>2. SectorDone /\ ~BlockDone' /\ ~Unlocking'
      BY <1>6, <2>5, <3>1 DEF SectorDone, BlockDone, Unlocking, UnlockPcs
    <3>3. SectorOf(offset)' = SectorOf(offset) /\ Blank(offset)' = Blank(offset)
      BY <1>3, <2>5 DEF SectorErased, Blank, SectorOf, Unit
    <3>4. QED BY <1>2, <3>2, <3>3 DEF Stage
  <2>6. QED BY <1>2, <1>6, <2>2, <2>3, <2>4, <2>5, ReadyFacts
<1>7. CASE offset' = offset /\ Accepted(a) /\ ~(pc = "poll" /\ FlashIsReady)
  <2>1. pc # "read" /\ pc # "eraseall"
    BY <1>2 DEF OpInv, LoopPcs, UnlockPcs
  <2>2. ~(pc = "crc" /\ Forward(BlockLen))
    BY <1>7, ForwardMoves DEF Forward, InWrite
  <2>3. Stays
    BY <1>1, <1>2, <1>7, <2>1, <2>2, AnswerFacts
  <2>4. /\ pc = "erase" => Answered("erase")
        /\ pc = "write" => Answered("write")
    BY <1>7 DEF Accepted, Answered, Func
  <2>5. CASE pc = "wren" /\ pc' = "wrsr"
    <3>1. Unlocking /\ ~SectorDone' /\ ~BlockDone'
      BY <2>5 DEF Unlocking, UnlockPcs, SectorDone, BlockDone
    <3>2. QED BY <1>2, <1>3, <2>3, <3>1, StageKept
  <2>6. CASE pc = "wrsr" /\ pc' = "poll" /\ then' = "unlock"
    <3>1. Unlocking /\ ~SectorDone' /\ ~BlockDone'
      BY <2>6 DEF Unlocking, UnlockPcs, SectorDone, BlockDone
    <3>2. QED BY <1>2, <1>3, <2>3, <3>1, StageKept
  <2>7. CASE pc = "erase" /\ pc' = "poll" /\ then' \in {"erased", "erase failed"}
    <3>1. SectorDone /\ ~Unlocking' /\ ~BlockDone'
      BY <2>4, <2>7 DEF Unlocking, UnlockPcs, SectorDone, BlockDone
    <3>2. QED BY <1>2, <1>3, <2>3, <3>1, StageKept
  <2>8. CASE pc = "write" /\ pc' = "poll" /\ then' \in {"written", "write failed"}
    <3>1. BlockDone /\ ~Unlocking' /\ ~SectorDone'
      BY <2>4, <2>8 DEF Unlocking, UnlockPcs, SectorDone, BlockDone
    <3>2. QED BY <1>2, <1>3, <2>3, <3>1, StageKept
  <2>9. CASE pc = "rdsr" /\ pc' = "head"
    <3>1. Unlocking /\ ~Unlocking' /\ ~BlockDone'
      BY <2>9 DEF Unlocking, UnlockPcs, BlockDone
    <3>2. SectorOf(offset)' = SectorOf(offset) /\ erasec' = erasec
      BY <2>3 DEF Stays, SectorOf
    <3>3. SectorDone' => erasec' = SectorOf(offset)'
      BY <2>9 DEF SectorDone
    <3>4. QED BY <1>2, <3>1, <3>2, <3>3 DEF Stage
  <2>10. CASE pc = "crc" /\ pc' = "head"
    <3>1. Verified(a)
      BY <1>1, <2>10 DEF Handles, WriteFlashStatus, ReadFlashStatus, Changed, EraseAll,
                         WaitingFlashReady, ReadBlockFlash
    <3>2. offset' = offset + BlockLen
      BY <2>10, <3>1 DEF Verified, Goto, Advanced
    <3>3. QED BY <1>7, <2>10, <3>2, ForwardMoves DEF InWrite
  <2>11. CASE pc = "poll" /\ pc' = "poll" /\ then' = then
    <3>1. /\ Unlocking' => Unlocking
          /\ SectorDone' => SectorDone
          /\ BlockDone' => BlockDone
      BY <2>11 DEF Unlocking, UnlockPcs, SectorDone, BlockDone
    <3>2. QED BY <1>2, <1>3, <2>3, <3>1, StageKept
  <2>12. QED
    BY <1>1, <1>2, <1>7, <2>1, <2>5, <2>6, <2>7, <2>8, <2>9, <2>10, <2>11, AfterAnswer
<1>8. QED BY <1>3, <1>4, <1>5, <1>6, <1>7

(* No step of such a job leaves the stages.                                *)
LEMMA CleanInvStep ==
  ASSUME FlashToolAssumption, TypeOK, OpInv, PosInv, ErasecInv, LineInv, BusyInv, LockInv,
         AlignInv, BelowInv, PendingInv, CleanInv, [Next]_vars
  PROVE  CleanInv'
<1>1. SUFFICES ASSUME Clean' PROVE Behind' /\ Stage'
  BY DEF CleanInv, Behind, Stage
<1>2. Clean /\ faults' = 0 /\ job' = job
  BY <1>1, CleanStays
<1>3. CleanCtx
  BY <1>2, CleanParts DEF CleanCtx
<1>4. Behind'
  BY <1>1, <1>3, BehindStep
<1>5. CASE UNCHANGED vars
  <2>1. /\ Unlocking' => Unlocking
        /\ SectorDone' => SectorDone
        /\ BlockDone' => BlockDone
    BY <1>5 DEF vars, toolVars, loopVars, lineVars, Unlocking, SectorDone, BlockDone, Answered,
                OnBoard, SectorOf
  <2>2. Stays /\ flash' = flash
    BY <1>5 DEF vars, toolVars, loopVars, chipVars, Stays
  <2>3. QED BY <1>2, <1>3, <1>4, <2>1, <2>2, StageKept DEF CleanCtx
<1>6. Stage'
  BY <1>1, <1>2, <1>3, <1>5, StageBoard, StageLoops, StageCommand DEF Next, Tool
<1>7. QED BY <1>4, <1>6

-----------------------------------------------------------------------------
(***************************************************************************)
(* What jobs that write have done with the file.                           *)
(***************************************************************************)
WInv ==
  /\ IInv
  /\ AlignInv /\ BelowInv /\ PendingInv /\ ComparedInv
  /\ SettledInv /\ CleanInv

(* At the start nothing is done, and the first sector is still to be       *)
(* erased if it begins in the file.                                        *)
LEMMA InitWInv ==
  ASSUME FlashToolAssumption, Init
  PROVE  WInv
<1>1. IInv
  BY InitIInv
<1>2. /\ pc = (IF job.op = "rf" THEN "head" ELSE "wren") /\ then = "unlock"
      /\ toBoard = << >> /\ toHost = << >> /\ inbuf = << >> /\ erasec = FirstErasec
      /\ job.op # "es" => offset = job.start
  BY DEF Init
<1>3. /\ job.start \in Unit /\ job.start \in Nat /\ job.start < Size /\ Size \in Nat
      /\ \A u \in Region : u \in Nat /\ u >= job.start
  <2>1. ToolType
    BY <1>1 DEF IInv, TypeOK
  <2>2. /\ job.start \in Unit /\ job.start \in Nat /\ job.start < Size /\ Size \in Nat
        /\ Len(job.data) \in Nat
    BY <2>1, JobFacts, JobNumbers
  <2>3. ASSUME NEW u \in Region PROVE u \in Nat /\ u >= job.start
    <3>1. u \in 0 .. Size - 1 /\ u - job.start \in 0 .. Len(job.data) - 1
      BY DEF Region, Unit
    <3>2. QED BY <2>2, <3>1
  <2>4. QED BY <2>2, <2>3
<1>4. DOMAIN toBoard = {} /\ DOMAIN toHost = {} /\ DOMAIN inbuf = {}
  BY <1>2, EmptySeq
<1>5. job.op \in {"we", "wf"} => offset = job.start /\ pc = "wren"
  BY <1>2
<1>6. job.op = "we" /\ SectorOf(job.start) >= job.start =>
        erasec = None /\ SectorOf(job.start) = job.start
  <2>1. SectorOf(job.start) \in Nat /\ SectorOf(job.start) <= job.start
    BY <1>3, SectorFacts
  <2>2. SUFFICES ASSUME job.op = "we", SectorOf(job.start) >= job.start
                 PROVE  erasec = None /\ SectorOf(job.start) = job.start
    OBVIOUS
  <2>3. SectorOf(job.start) = job.start
    BY <1>3, <2>1, <2>2
  <2>4. job.start % Sector = 0
    <3>1. PICK s \in Nat : s = job.start
      BY <1>3
    <3>2. s % Sector \in Int /\ s - (s % Sector) = s
      BY <2>3, <3>1, DivMod, SMTT(30) DEF SectorOf, FlashToolAssumption
    <3>3. s % Sector = 0
      BY <3>1, <3>2
    <3>4. QED BY <3>1, <3>3
  <2>5. QED BY <1>2, <2>3, <2>4 DEF FirstErasec
<1>7. AlignInv
  <2>1. SUFFICES ASSUME Writing PROVE AlignInv
    BY DEF AlignInv
  <2>2. offset = job.start /\ pc = "wren" /\ job.start % Page = 0
    BY <1>5, <2>1 DEF Writing
  <2>3. job.op = "we" => erasec = SectorOf(offset) \/ offset = SectorOf(offset)
    <3>1. CASE job.start % Sector = 0
      <4>1. PICK s \in Nat : s = job.start
        BY <1>3
      <4>2. SectorOf(s) = s - 0
        BY <3>1, <4>1 DEF SectorOf
      <4>3. SectorOf(s) = s
        BY <4>1, <4>2
      <4>4. QED BY <2>2, <4>1, <4>3
    <3>2. CASE job.start % Sector # 0
      BY <1>2, <2>2, <3>2 DEF FirstErasec
    <3>3. QED BY <3>1, <3>2
  <2>4. QED BY <2>2, <2>3 DEF AlignInv, InWrite
<1>8. BelowInv /\ PendingInv /\ ComparedInv
  BY <1>4 DEF BelowInv, PendingInv, ComparedInv
<1>9. SettledInv
  BY <1>3, <1>5 DEF SettledInv, Writing
<1>10. CleanInv
  <2>1. SUFFICES ASSUME Clean PROVE CleanInv
    BY DEF CleanInv
  <2>2. job.op = "we" /\ offset = job.start /\ pc = "wren"
    BY <1>5, <2>1 DEF Clean
  <2>3. SectorOf(offset) >= job.start => erasec # SectorOf(offset)
    <3>1. None \notin Unit
      BY DEF FlashToolAssumption
    <3>2. QED BY <1>3, <1>6, <2>2, <3>1
  <2>4. ~SectorDone /\ ~BlockDone
    BY <2>2 DEF SectorDone, BlockDone
  <2>5. \A u \in Region : ~(u < offset)
    BY <1>3, <2>2
  <2>6. QED BY <2>3, <2>4, <2>5 DEF CleanInv
<1>11. QED BY <1>1, <1>7, <1>8, <1>9, <1>10 DEF WInv

(* The invariant is inductive.                                             *)
LEMMA WInvStep ==
  ASSUME FlashToolAssumption, WInv, [Next]_vars
  PROVE  WInv'
<1>1. /\ IInv /\ TypeOK /\ ToolType /\ OpInv /\ LineInv /\ BusyInv /\ LockInv
      /\ PosInv /\ ErasecInv /\ CrcInv
      /\ AlignInv /\ BelowInv /\ PendingInv /\ ComparedInv /\ SettledInv /\ CleanInv
  BY DEF WInv, IInv, TypeOK
<1>2. IInv'
  BY <1>1, IInvStep
<1>3. AlignInv' /\ BelowInv'
  BY <1>1, AlignInvStep, BelowInvStep
<1>4. PendingInv' /\ ComparedInv'
  BY <1>1, PendingInvStep, ComparedInvStep
<1>5. SettledInv'
  BY <1>1, SettledInvStep
<1>6. CleanInv'
  BY <1>1, CleanInvStep
<1>7. QED BY <1>2, <1>3, <1>4, <1>5, <1>6 DEF WInv

(* So it always holds.                                                     *)
LEMMA WInvAlways ==
  ASSUME FlashToolAssumption
  PROVE  Spec => []WInv
<1>1. Init => WInv
  BY InitWInv
<1>2. WInv /\ [Next]_vars => WInv'
  BY WInvStep
<1>3. QED BY <1>1, <1>2, PTL DEF Spec

(* Success comes behind the last block.                                    *)
LEMMA DoneIsAll ==
  ASSUME FlashToolAssumption, WInv, Writes, job.start % Page = 0
  PROVE  \A u \in Region : u < offset
<1>1. ToolType /\ PosInv /\ Writing /\ left = 0
  BY DEF WInv, IInv, TypeOK, Writes, Writing, AlignInv
<1>2. PICK s \in Nat, d \in Nat, o \in Nat : s = job.start /\ d = Len(job.data) /\ o = offset
  BY <1>1, WritingFacts
<1>3. o + 0 = s + d /\ Size \in Nat
  BY <1>1, <1>2, WritingFacts
<1>4. ASSUME NEW u \in Region PROVE u < o
  <2>1. u \in 0 .. Size - 1 /\ u - s \in 0 .. d - 1
    BY <1>2 DEF Region, Unit
  <2>2. QED BY <1>3, <2>1
<1>5. QED BY <1>2, <1>4

(***************************************************************************)
(* With a board that computes checksums, a job that ends with success has  *)
(* written every block that is not of ones only and was not given up,      *)
(* whatever answers were lost, late or wrong and whatever erasing the chip *)
(* ignored (TlsrPgm.py:710-771).                                           *)
(***************************************************************************)
THEOREM VerifiedIsWritten ==
  ASSUME FlashToolAssumption
  PROVE  Spec => []VerifiedBlocksWritten
<1>1. ASSUME WInv, Writes, job.verify, job.start % Page = 0, NEW u \in Region
      PROVE  Settled(u)
  <2>1. u < offset
    BY <1>1, DoneIsAll
  <2>2. SettledInv /\ Writing /\ pc # "failed"
    BY <1>1 DEF WInv, Writes, Writing
  <2>3. QED BY <1>1, <2>1, <2>2 DEF SettledInv
<1>2. WInv => VerifiedBlocksWritten
  BY <1>1 DEF VerifiedBlocksWritten, Settled
<1>3. QED BY <1>2, WInvAlways, PTL

(***************************************************************************)
(* Erasing sector by sector ahead of the blocks, in a run without failures *)
(* every sector that begins in the file holds it at the end, whatever the  *)
(* flash held before (TlsrPgm.py:710-771).                                 *)
(***************************************************************************)
THEOREM CleanRunHasWritten ==
  ASSUME FlashToolAssumption
  PROVE  Spec => []CleanRunWrites
<1>1. ASSUME WInv, Writes, job.op = "we", job.start % Page = 0, skipped = {}, faults = 0,
             NEW u \in Region, SectorOf(u) >= job.start
      PROVE  flash[u] = Wanted(u)
  <2>1. u < offset
    BY <1>1, DoneIsAll
  <2>2. CleanInv /\ Clean
    BY <1>1 DEF WInv, Writes, Clean
  <2>3. QED BY <1>1, <2>1, <2>2 DEF CleanInv
<1>2. WInv => CleanRunWrites
  BY <1>1 DEF CleanRunWrites
<1>3. QED BY <1>2, WInvAlways, PTL
=============================================================================
