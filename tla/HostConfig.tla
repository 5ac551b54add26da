----------------------------- MODULE HostConfig -----------------------------
(***************************************************************************)
(* How adv2uart.py configures the scanner: it sends all commands in one    *)
(* go, counts per command how many answers are due, and starts over when   *)
(* three seconds later some count is not zero.                             *)
(*                                                                         *)
(* The scanner and the line are reduced to what Scanner establishes about  *)
(* them: a command is executed at most once and in order, answers arrive   *)
(* in order, and both may be lost.  Time is counted in the 50 ms pauses    *)
(* that the host makes after each command.                                 *)
(***************************************************************************)
EXTENDS MacList, FiniteSets

CONSTANTS
  Lists,          (* the [white, black] lists to choose from               *)
  Earlier,        (* addresses an earlier session has left in the scanner  *)
  Timeout,        (* 3 s, in pauses                                        *)
  ReadTime,       (* longest duration of a read: its timeout of 0.3 s      *)
  PerRead,        (* answers in the 64 bytes that are read at a time       *)
  UpMax,          (* answers that fit into the serial driver's buffer      *)
  MaxLoss,        (* bound: commands and answers lost                      *)
  MaxLate,        (* bound: times the answers take longer than three       *)
                  (* seconds, as after an error in start_adv_scanning      *)
  None

Elements(s) == {s[i] : i \in DOMAIN s}
Mac == Elements(Earlier) \cup UNION {Elements(l.white) \cup Elements(l.black) : l \in Lists}

Cmd == ListCmd \cup {"INFO", "CLRM", "SCAN"}
Command == [cmd : ListCmd, arg : Mac] \cup [cmd : {"INFO", "CLRM", "SCAN"}, arg : {None}]

ASSUME HostConfigAssumption ==
  /\ {Timeout, ReadTime, PerRead, UpMax, ListMax} \subseteq Nat \ {0}
  /\ {MaxLoss, MaxLate} \subseteq Nat
  /\ \A l \in Lists : l.white \in Seq(Mac) /\ l.black \in Seq(Mac)
  /\ Earlier \in Seq(Mac)
  /\ None \notin Command

VARIABLES
  wanted,       (* white_list and black_list of this run of the program    *)
  pc,           (* "send", or between the statements of the main loop      *)
  todo,         (* what black_white_list has yet to send                   *)
  config_cmd,   (* answers due; 0: no entry                                *)
  age,          (* time since cmd_time                                     *)
  down,         (* the command the scanner has received                    *)
  up,           (* the answers the host has not read                       *)
  list,         (* the scanner's mac_list ...                              *)
  scanning,     (* ... and whether it scans                                *)
  losses, lates

hostVars == <<wanted, pc, todo, config_cmd, age>>
lineVars == <<down, up>>
deviceVars == <<list, scanning>>
vars == <<hostVars, lineVars, deviceVars, losses, lates>>

Plain(c) == <<[cmd |-> c, arg |-> None]>>

black_white_list ==
  Plain("INFO") \o Plain("CLRM")
    \o [i \in DOMAIN wanted.white |-> [cmd |-> "WMAC", arg |-> wanted.white[i]]]
    \o [i \in DOMAIN wanted.black |-> [cmd |-> "BMAC", arg |-> wanted.black[i]]]
    \o Plain("SCAN")

NothingDue == [c \in Cmd |-> 0]

(* A scanner that has run before the host may be configured already. *)
Init ==
  /\ wanted \in Lists
  /\ pc = "send" /\ todo = black_white_list
  /\ config_cmd = NothingDue /\ age = 0
  /\ down = None /\ up = << >>
  /\ list \in {EmptyList} \cup [mode : ListCmd, mac : {Earlier}]
  /\ scanning \in BOOLEAN
  /\ losses = 0 /\ lates = 0

Later(t) == IF age + t > Timeout THEN Timeout + 1 ELSE age + t

(* command: write the frame, count it, sleep while the scanner takes it.   *)
command ==
  /\ pc = "send" /\ todo # << >> /\ down = None
  /\ down' = Head(todo)
  /\ config_cmd' = [config_cmd EXCEPT ![Head(todo).cmd] = @ + 1]
  /\ age' = Later(1)
  /\ todo' = Tail(todo)
  /\ pc' = IF todo' = << >> THEN "read" ELSE "send"
  /\ UNCHANGED <<wanted, up, deviceVars, losses, lates>>

config_account_FirstAnswer(answers) ==
  [c \in Cmd |-> IF \E i \in DOMAIN answers : answers[i] = c THEN 0 ELSE config_cmd[c]]

Count(answers, c) == Cardinality({i \in DOMAIN answers : answers[i] = c})

(* An answer more than was asked for leaves a negative count. *)
config_account(answers) == [c \in Cmd |-> config_cmd[c] - Count(answers, c)]

(* read_adv takes the 64 bytes that are there, or waits for more until it  *)
(* times out.  The scanner has taken the last command in the pause after   *)
(* it.                                                                     *)
read_adv ==
  /\ pc = "read" /\ down = None
  /\ LET n == IF Len(up) < PerRead THEN Len(up) ELSE PerRead
     IN  /\ config_cmd' = config_account(SubSeq(up, 1, n))
         /\ up' = SubSeq(up, n + 1, Len(up))
         /\ IF n = PerRead THEN UNCHANGED age
                           ELSE \E t \in 1 .. ReadTime : age' = Later(t)
  /\ pc' = "check"
  /\ UNCHANGED <<wanted, todo, down, deviceVars, losses, lates>>

(* The answers of a scanner that is busy for seconds are not there yet. *)
read_adv_Late ==
  /\ pc = "read" /\ lates < MaxLate
  /\ lates' = lates + 1
  /\ age' = Timeout + 1
  /\ pc' = "check"
  /\ UNCHANGED <<wanted, todo, config_cmd, lineVars, deviceVars, losses>>

config_still_running == config_cmd # NothingDue

GoOn ==
  /\ pc = "check" /\ ~(config_still_running /\ age > Timeout)
  /\ pc' = "read"
  /\ UNCHANGED <<wanted, todo, config_cmd, age, lineVars, deviceVars, losses, lates>>

Retry_CountsKept ==
  /\ pc = "check" /\ config_still_running /\ age > Timeout
  /\ age' = 0
  /\ todo' = black_white_list
  /\ pc' = "send"
  /\ UNCHANGED <<wanted, config_cmd, lineVars, deviceVars, losses, lates>>

(* "Commands not answered in time: ... Retrying": config_start and again   *)
(* black_white_list.                                                       *)
Retry ==
  /\ pc = "check" /\ config_still_running /\ age > Timeout
  /\ config_cmd' = NothingDue
  /\ age' = 0
  /\ todo' = black_white_list
  /\ pc' = "send"
  /\ UNCHANGED <<wanted, lineVars, deviceVars, losses, lates>>

-----------------------------------------------------------------------------
(* The scanner executes the command it has received and answers; the       *)
(* answer is lost for lack of a FIFO slot or on the line, or because the   *)
(* serial driver's buffer is full.                                         *)
Execute ==
  /\ down # None
  /\ list' = IF down.cmd = "CLRM" THEN WithoutMacs(list)
             ELSE IF down.cmd \in ListCmd THEN WithMac(list, down.cmd, down.arg)
             ELSE list
  /\ scanning' = (scanning \/ down.cmd = "SCAN")
  /\ down' = None
  /\ \/ /\ up' = IF Len(up) < UpMax THEN Append(up, down.cmd) ELSE up
        /\ UNCHANGED losses
     \/ /\ losses < MaxLoss
        /\ losses' = losses + 1
        /\ UNCHANGED up
  /\ UNCHANGED <<hostVars, lates>>

(* Noise, a command that overwrites its predecessor in the receive buffer, *)
(* or flushOutput discarding what has not left the host.                   *)
CommandLost ==
  /\ down # None /\ losses < MaxLoss
  /\ losses' = losses + 1
  /\ down' = None
  /\ UNCHANGED <<up, hostVars, deviceVars, lates>>

Next ==
  \/ command
  \/ read_adv \/ read_adv_Late
  \/ GoOn \/ Retry
  \/ Execute \/ CommandLost

Spec == Init /\ [][Next]_vars

(* The host's loop runs, and so does the scanner. *)
Fairness ==
  /\ WF_vars(command) /\ WF_vars(read_adv)
  /\ WF_vars(GoOn) /\ WF_vars(Retry)
  /\ WF_vars(Execute)

FairSpec == Spec /\ Fairness

-----------------------------------------------------------------------------
TypeOK ==
  /\ wanted \in Lists
  /\ pc \in {"send", "read", "check"}
  /\ pc = "send" <=> todo # << >>
  /\ config_cmd \in [Cmd -> Int]
  /\ age \in 0 .. Timeout + 1
  /\ todo \in Seq(Command) /\ down \in Command \cup {None}
  /\ up \in Seq(Cmd) /\ Len(up) <= UpMax
  /\ list \in [mode : ListCmd, mac : Seq(Mac)]
  /\ scanning \in BOOLEAN
  /\ losses \in 0 .. MaxLoss /\ lates \in 0 .. MaxLate

(* The lists that the host can announce within its three seconds and the   *)
(* scanner can hold; one of the two is empty.                              *)
ListsFit ==
  \A l \in Lists :
    /\ l.white = << >> \/ l.black = << >>
    /\ Len(l.white) + Len(l.black) <= ListMax
    /\ Len(l.white) + Len(l.black) + 3 <= Timeout

(* The host sends nothing more and does not expect anything either. *)
Settled == pc # "send" /\ ~config_still_running

(***************************************************************************)
(* When no answer is due any more, whatever was lost on the way, the       *)
(* scanner scans and its list is the host's: a white list lets exactly its *)
(* members pass, a black list everybody else, and empty lists let pass     *)
(* even what an earlier session had listed.  (Given that no answer came    *)
(* later than three seconds, and ListsFit.)                                *)
(***************************************************************************)
SettledMeansConfigured ==
  Settled /\ lates = 0 =>
    /\ scanning
    /\ \A m \in Elements(wanted.white \o wanted.black \o Earlier) :
         chk_mac(list, m) = /\ wanted.white # << >> => m \in Elements(wanted.white)
                            /\ m \notin Elements(wanted.black)

(***************************************************************************)
(* The retries come to an end: however losses and late answers have mixed  *)
(* the answers of different attempts up, the host ends with no answer due  *)
(* and stays so (adv2uart.py:150-164, 500-511).                            *)
(***************************************************************************)
HostSettles == <>[]Settled
=============================================================================
