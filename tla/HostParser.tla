----------------------------- MODULE HostParser -----------------------------
(***************************************************************************)
(* Ble2Uart.read_adv of adv2uart.py: bytes come in chunks of up to 64; a   *)
(* frame is MinLen bytes and as many more as its first byte says; where    *)
(* the CRC does not match, one byte is thrown away and the next one is     *)
(* tried as the first byte of a frame.                                     *)
(*                                                                         *)
(* A byte is what the parser can see of it, the length it would stand for, *)
(* and where it comes from.  The CRC matches exactly a whole undamaged     *)
(* frame (the case that a CRC-16 matches by chance is left out).           *)
(***************************************************************************)
EXTENDS Integers, SequencesExt

CONSTANTS
  MinLen,      (* bytes of a frame without payload: 13                     *)
  MaxLen,      (* longest payload                                          *)
  Chunk,       (* bytes per read: 64                                       *)
  MaxFrames    (* bound: frames the scanner sends                          *)

ParserAssumption ==
  /\ {MinLen, Chunk} \subseteq Nat \ {0}
  /\ {MaxLen, MaxFrames} \subseteq Nat

VARIABLES
  sent,        (* payload length of each frame the scanner has sent        *)
  line,        (* bytes the host has not read                              *)
  seen,        (* all bytes it has read                                    *)
  data,        (* self.data                                                *)
  handled,     (* the frames it has recognised, in this order              *)
  ret          (* the frames that mac and payload of the last call are of  *)

vars == <<sent, line, seen, data, handled, ret>>

Byte == [len : 0 .. MaxLen, of : 0 .. MaxFrames, pos : 0 .. MinLen + MaxLen]

(* Advertisements have a payload, responses have none. *)
IsAdv(f) == sent[f] > 0

Init ==
  /\ sent = << >>
  /\ line = << >> /\ seen = << >> /\ data = << >>
  /\ handled = << >>
  /\ ret = [mac |-> 0, payload |-> 0]

-----------------------------------------------------------------------------
(* What the line makes of them: it delivers all, loses bytes at either     *)
(* end, or changes one.                                                    *)
Damaged(b) ==
  {SubSeq(b, i, j) : i, j \in DOMAIN b}
    \cup {[b EXCEPT ![i] = [len |-> n, of |-> 0, pos |-> 0]] : i \in DOMAIN b, n \in 0 .. MaxLen}

ScannerSends ==
  /\ Len(sent) < MaxFrames
  /\ \E n \in 0 .. MaxLen :
       /\ sent' = Append(sent, n)
       /\ \E l \in [2 .. MinLen + n -> 0 .. MaxLen] :
            LET b == [i \in 1 .. MinLen + n |->
                        [len |-> IF i = 1 THEN n ELSE l[i], of |-> Len(sent'), pos |-> i]]
            IN  \E d \in Damaged(b) : line' = line \o d
  /\ UNCHANGED <<seen, data, handled, ret>>

-----------------------------------------------------------------------------
(* crc_16(d, n) = 0 *)
CrcMatches(d, n) ==
  /\ d[1].of # 0 /\ d[1].len + MinLen = n
  /\ \A i \in 1 .. n : d[i].of = d[1].of /\ d[i].pos = i

HasPacket(d) == d # << >> /\ d[1].len + MinLen <= Len(d)

AfterError_WholePacket(d) == SubSeq(d, d[1].len + MinLen + 1, Len(d))
AfterError(d) == Tail(d)

(* One turn of the loop over self.data: what is left of it, and the frames *)
(* found so far.                                                           *)
Turn(s) ==
  LET d == s.rest
      n == d[1].len + MinLen
  IN  IF ~HasPacket(d) THEN s
      ELSE IF CrcMatches(d, n)
           THEN [rest |-> SubSeq(d, n + 1, Len(d)), found |-> Append(s.found, d[1].of)]
           ELSE [rest |-> AfterError(d), found |-> s.found]

(* The loop, after each number of turns; a turn takes at least one byte.   *)
Turns(d) ==
  LET turns[n \in 0 .. Len(d)] ==
        IF n = 0 THEN [rest |-> d, found |-> << >>] ELSE Turn(turns[n - 1])
  IN  turns

Packets(d) == Turns(d)[Len(d)]

Parsed(d) ==
  IF Len(d) >= MinLen THEN Packets(d) ELSE [rest |-> d, found |-> << >>]

(* One call with the next k bytes of the line.  The loop overwrites rssi,  *)
(* evtp, adtp, phys and mac with every frame and payload with every        *)
(* advertisement; what stands there last is returned.                      *)
read_adv(k) ==
  LET p    == Parsed(data \o SubSeq(line, 1, k))
      advs == SelectSeq(p.found, IsAdv)
      LastOf(s) == IF s = << >> THEN 0 ELSE Last(s)
  IN  /\ data' = p.rest
      /\ handled' = handled \o p.found
      /\ ret' = [mac |-> LastOf(p.found), payload |-> LastOf(advs)]
      /\ seen' = seen \o SubSeq(line, 1, k)
      /\ line' = SubSeq(line, k + 1, Len(line))
      /\ UNCHANGED sent

(* The read times out with fewer than Chunk bytes. *)
Reads == \E k \in 1 .. Chunk : k <= Len(line) /\ read_adv(k)

Next == ScannerSends \/ Reads

Spec == Init /\ [][Next]_vars

-----------------------------------------------------------------------------
(* A frame stands whole and undamaged in the bytes d from the i-th on.     *)
Stands(d, i) ==
  /\ i + d[i].len + MinLen - 1 <= Len(d)
  /\ CrcMatches(SubSeq(d, i, Len(d)), d[i].len + MinLen)

(* These frames, in order, as far as they begin in the first n bytes.      *)
Frames(d) ==
  LET frames[n \in 0 .. Len(d)] ==
        IF n = 0 THEN << >>
        ELSE IF Stands(d, n) THEN Append(frames[n - 1], d[n].of)
        ELSE frames[n - 1]
  IN  frames

Intact(d) == Frames(d)[Len(d)]

(***************************************************************************)
(* Noise costs the frames it hits and no others: every undamaged frame     *)
(* that has been read is recognised once, in order, or still whole in      *)
(* self.data, however the damaged bytes in front of it look and wherever   *)
(* the chunks end (adv2uart.py:265-363).                                   *)
(***************************************************************************)
OnlyDamagedFramesLost == Intact(seen) = handled \o Intact(data)

(***************************************************************************)
(* What read_adv returns belongs together: the README lists rssi, evtp,    *)
(* adtp, phys, mac and payload as the fields of one packet, and the code   *)
(* says of payload "valued if advertisement".                              *)
(***************************************************************************)
ReturnsOnePacket == ret.payload # 0 => ret.payload = ret.mac
=============================================================================
