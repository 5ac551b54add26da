------------------------------ MODULE MCParts ------------------------------
(***************************************************************************)
(* The parts of the firmwares that hold state of their own, checked side   *)
(* by side: a behaviour is one of MyFifo, AppFifo, TinyFlash, Leds or Crc, *)
(* whichever part names, and the variables of the other four stand still.  *)
(***************************************************************************)
EXTENDS MyFifo, Crc

CONSTANTS
  None,
  SecLen, RecLen, TornLen, NumBauds,
  RingSize, U16, MaxMsg, MaxRead,
  U32, Long, Short, Shortest, MaxBusy

VARIABLES
  part,
  begin, end, data, read,
  log, marked, used, flashPc, index, dirty, uart,
  led, ledPc, tick, stamp, lit, age, busy

Ring  == INSTANCE AppFifo WITH Byte <- Frame, NoByte <- NoFrame, Size <- RingSize, Wrap <- U16
Flash == INSTANCE TinyFlash WITH pc <- flashPc
Lights == INSTANCE Leds WITH Wrap <- U32, pc <- ledPc

ASSUME PartsAssumption ==
  /\ Ring!AppFifoAssumption
  /\ Flash!FlashAssumption
  /\ Lights!LedsAssumption

ringVars == <<begin, end, data, read>>
flashVars == <<log, marked, used, flashPc, index, dirty, uart>>
ledVars == <<led, ledPc, tick, stamp, lit, age, busy>>
allVars == <<part, vars, ringVars, flashVars, ledVars, lineVars>>

PartsInit ==
  /\ part \in {"fifo", "ring", "flash", "lights", "crc"}
  /\ MYFIFO_INIT
  /\ Ring!app_drv_fifo_init
  /\ Flash!Init
  /\ Lights!Init
  /\ LineInit
  /\ part # "lights" => led = "R" /\ tick = 0

PartsNext ==
  \/ /\ part = "fifo"
     /\ Next
     /\ UNCHANGED <<part, ringVars, flashVars, ledVars, lineVars>>
  \/ /\ part = "ring"
     /\ Ring!Next
     /\ UNCHANGED <<part, vars, flashVars, ledVars, lineVars>>
  \/ /\ part = "flash"
     /\ Flash!Next
     /\ UNCHANGED <<part, vars, ringVars, ledVars, lineVars>>
  \/ /\ part = "lights"
     /\ Lights!Next
     /\ UNCHANGED <<part, vars, ringVars, flashVars, lineVars>>
  \/ /\ part = "crc"
     /\ LineNext
     /\ UNCHANGED <<part, vars, ringVars, flashVars, ledVars>>

(* TinyFlash's fairness, for the behaviours that are its. *)
Continues(A) == part = "flash" /\ A /\ UNCHANGED <<part, vars, ringVars, ledVars, lineVars>>

PartsSpec ==
  /\ PartsInit /\ [][PartsNext]_allVars
  /\ WF_allVars(Continues(Flash!Boot))
  /\ WF_allVars(Continues(Flash!tinyFlash_Write))
  /\ WF_allVars(Continues(Flash!Apply))

-----------------------------------------------------------------------------
(* What is checked of the parts; ImplementsQueue is MyFifo's,              *)
(* ChecksumsProtect is Crc's.                                              *)

(* The ring of bytes is a queue of bytes (app_drv_fifo.c). *)
ImplementsByteQueue == Ring!ImplementsByteQueue

(* A write that has returned survives power losses (tinyFlash.c). *)
WriteIsDurable == Flash!WriteIsDurable

(* An exchange of sectors has nothing to copy (tinyFlash.c:186-226). *)
NothingToCopy == Flash!NothingToCopy

(* The two sectors are one cell to the next start (tinyFlash.c). *)
FlashIsCell == Flash!FlashIsCell

(* tinyFlash_Write ends (tinyFlash.c:135-181). *)
WriteEnds == Flash!WriteEnds

(* The LEDs' timers keep time while tick and stamps wrap (scanning.c). *)
TimersKeepTime == Lights!TimersKeepTime
=============================================================================
