-------------------------------- MODULE Leds --------------------------------
(***************************************************************************)
(* The five LEDs of the TLSR825x firmware.  Each is lit by some event,     *)
(* which also stamps it with the 32-bit system tick, and is darkened by    *)
(* the first scan_task that finds ad_fifo empty when the stamp is old      *)
(* enough.  The tick wraps after 268 s, and a stamp may be older than      *)
(* that.                                                                   *)
(*                                                                         *)
(* The LEDs do not influence one another, so one of them, led, is          *)
(* followed.  What happens in a pass of the main loop is what can happen   *)
(* to an LED: reports, FIFO and commands are the subject of Scanner.  Time *)
(* passes between two passes and while change_baud_rate blocks; a pass     *)
(* itself takes far less than the unit of time.                            *)
(***************************************************************************)
EXTENDS Integers

CONSTANTS
  Wrap,        (* values of reg_system_tick: 2^32                          *)
  Long,        (* TIMER_LED_R: 2 s                                         *)
  Short,       (* TIMER_LED_G, _B and _W: 128 ms                           *)
  Shortest,    (* TIMER_LED_E: 64 ms                                       *)
  MaxBusy      (* bound: longest time in which no pass finds ad_fifo empty *)

(* A LED whose last stamp is Wrap old or older looks freshly stamped.      *)
LedsAssumption ==
  /\ {Wrap, Long, Short, Shortest, MaxBusy} \subseteq Nat
  /\ Shortest <= Short /\ Short <= Long
  /\ Long + MaxBusy < Wrap

Led == {"R", "G", "B", "W", "E"}
Timer == [R |-> Long, G |-> Short, B |-> Short, W |-> Short, E |-> Shortest]

VARIABLES
  led,
  pc,          (* "sdk", or where scan_task stands                         *)
  tick,        (* reg_system_tick                                          *)
  stamp,       (* leds.tr, tg, tb, tw or te                                *)
  lit,         (* what gpio_write has set last                             *)
  age,         (* real time since the event that has lit it last           *)
  busy         (* real time since a pass found ad_fifo empty               *)

vars == <<led, pc, tick, stamp, lit, age, busy>>
timeVars == <<led, tick, busy>>

Init ==
  /\ led \in Led
  /\ pc = "sdk"
  /\ tick \in 0 .. Wrap - 1
  /\ stamp = 0
  /\ lit = FALSE /\ age = 0 /\ busy = 0

TimePasses ==
  /\ pc \in {"sdk", "held"} /\ busy < MaxBusy
  /\ tick' = (tick + 1) % Wrap
  /\ age' = IF lit THEN age + 1 ELSE 0
  /\ busy' = busy + 1
  /\ UNCHANGED <<led, pc, stamp, lit>>

(* gpio_write(GPIO_LED_x, 1) with leds.tx = the tick. *)
Light(which) ==
  IF led \in which
  THEN stamp' = tick /\ lit' = TRUE /\ age' = 0
  ELSE UNCHANGED <<stamp, lit, age>>

(* gpio_write(GPIO_LED_x, 0) *)
Darken(which) ==
  /\ lit' = (lit /\ led \notin which)
  /\ age' = IF lit' THEN age ELSE 0
  /\ UNCHANGED stamp

(* The callbacks light blue or green for an advertisement that they have   *)
(* put into ad_fifo, depending on its PHY, and red for one they could not. *)
Callback(which) ==
  /\ pc = "sdk"
  /\ Light(which)
  /\ UNCHANGED <<pc, timeVars>>

Elapsed_Later == tick > (stamp + Timer[led]) % Wrap
Elapsed == (tick - stamp) % Wrap > Timer[led]

(* scan_task: uart_send has taken a frame, or was busy ...                 *)
FrameWaits ==
  /\ pc = "sdk"
  /\ Light({"E"}) \/ Light({"R"})
  /\ pc' = "command"
  /\ UNCHANGED timeVars

(* ... or there is none. *)
FifoIdle ==
  /\ pc = "sdk"
  /\ IF Elapsed THEN stamp' = tick /\ lit' = FALSE /\ age' = 0
                ELSE UNCHANGED <<stamp, lit, age>>
  /\ busy' = 0
  /\ pc' = "command"
  /\ UNCHANGED <<led, tick>>

(* A command: white goes on; a scan command darkens red, green and blue    *)
(* and, after it has shown an error of the controller, red and white.      *)
Command(which) ==
  /\ pc = "command"
  /\ CASE which = "none"    -> UNCHANGED <<stamp, lit, age>>
       [] which = "scan"    -> IF led = "W" THEN Light({"W"}) ELSE Darken({"R", "G", "B"})
       [] which = "refused" -> Darken({"R", "G", "B", "W"})
       [] which = "other"   -> Light({"W"})
  /\ pc' = "key"
  /\ UNCHANGED timeVars

KeyUp ==
  /\ pc = "key"
  /\ pc' = "sdk"
  /\ UNCHANGED <<timeVars, stamp, lit, age>>

KeyDown ==
  /\ pc = "key"
  /\ pc' = "held"
  /\ UNCHANGED <<timeVars, stamp, lit, age>>

change_baud_rate ==
  /\ pc = "held"
  /\ Darken({"R", "G", "B", "W"})
  /\ pc' = "sdk"
  /\ UNCHANGED timeVars

Next ==
  \/ TimePasses
  \/ \E which \in {{"B"}, {"G"}, {"R"}} : Callback(which)
  \/ FrameWaits \/ FifoIdle
  \/ \E which \in {"none", "scan", "refused", "other"} : Command(which)
  \/ KeyUp \/ KeyDown \/ change_baud_rate

Spec == Init /\ [][Next]_vars

-----------------------------------------------------------------------------
(***************************************************************************)
(* The timers keep real time although tick and stamps wrap: a LED stays    *)
(* lit for its time after the event that lit it last, and the first pass   *)
(* after that which finds nothing to send darkens it (scanning.c:229-283). *)
(***************************************************************************)
TimersKeepTime == [][FifoIdle => (lit' <=> lit /\ age <= Timer[led])]_vars
=============================================================================
