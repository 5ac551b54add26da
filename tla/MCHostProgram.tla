--------------------------- MODULE MCHostProgram ---------------------------
(***************************************************************************)
(* The two halves of adv2uart.py, checked side by side: a behaviour is one *)
(* of HostConfig or of HostParser, as part says, and the variables of the  *)
(* other stand still.                                                      *)
(***************************************************************************)
EXTENDS MCHostConfig

CONSTANTS MinLen, MaxLen, Chunk, MaxFrames

VARIABLES part, sent, line, seen, data, handled, ret

Parser == INSTANCE HostParser

ASSUME ListsFitAssumption == ListsFit

ASSUME ParserAssumption == Parser!ParserAssumption

parserVars == <<sent, line, seen, data, handled, ret>>

HostInit ==
  /\ part \in {"config", "parser"}
  /\ Init
  /\ Parser!Init
  /\ part = "parser" => wanted = NoList /\ list = EmptyList /\ ~scanning

HostNext ==
  \/ part = "config" /\ Next /\ UNCHANGED <<part, parserVars>>
  \/ part = "parser" /\ Parser!Next /\ UNCHANGED <<part, vars>>

(* HostConfig's fairness, for the behaviours that are its. *)
Continues(A) == part = "config" /\ A /\ UNCHANGED <<part, parserVars>>

HostSpec ==
  /\ HostInit /\ [][HostNext]_<<part, vars, parserVars>>
  /\ WF_<<part, vars, parserVars>>(Continues(command))
  /\ WF_<<part, vars, parserVars>>(Continues(read_adv))
  /\ WF_<<part, vars, parserVars>>(Continues(GoOn))
  /\ WF_<<part, vars, parserVars>>(Continues(Retry))
  /\ WF_<<part, vars, parserVars>>(Continues(Execute))

-----------------------------------------------------------------------------
(* The retries come to an end (adv2uart.py:150-164, 500-511). *)
RetriesEnd == part = "config" => HostSettles

(* Every undamaged frame is recognised once (adv2uart.py:275-363). *)
OnlyDamagedFramesLost == Parser!OnlyDamagedFramesLost
=============================================================================
