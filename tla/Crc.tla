-------------------------------- MODULE Crc --------------------------------
(***************************************************************************)
(* The CRC-16 of the serial protocol, computed in two ways that must       *)
(* agree: crc.c of the firmwares fills a table by polynomial division, and *)
(* reflects each byte before it and the result after it; crc_16 of the     *)
(* host programs shifts the other way through a table that was typed in.   *)
(*                                                                         *)
(* A word is the set of its one bits, so that exclusive or is symmetric    *)
(* difference and a shift moves the members.                               *)
(*                                                                         *)
(* One frame goes over the line, least significant bit first, and is       *)
(* damaged in one burst of up to MaxBurst bits, anywhere in it; its        *)
(* receiver computes the CRC of all its bytes in both ways.                *)
(***************************************************************************)
EXTENDS Integers, Sequences

CONSTANTS
  Payload,      (* the bytes that are sent, as numbers                     *)
  DataLen,      (* bytes of the frame in front of its CRC                  *)
  MaxBurst      (* bits from the first to the last that noise can change   *)

ASSUME CrcAssumption ==
  /\ Payload \subseteq 0 .. 255
  /\ DataLen \in Nat
  /\ MaxBurst \in 0 .. 16

VARIABLES
  remainder,    (* crcFast's, over the data the sender has put in          *)
  received,     (* crcFast's, over the bytes that have arrived             *)
  crc,          (* crc_16's, over the bytes that have arrived              *)
  pos,          (* bytes of the frame sent                                 *)
  first         (* number of the first bit changed on the line; -1: none   *)

lineVars == <<remainder, received, crc, pos, first>>

Xor(x, y) == (x \ y) \cup (y \ x)
ShiftLeft(x, n) == {b + n : b \in x} \cap (0 .. 15)
ShiftRight(x, n) == {b - n : b \in {c \in x : c >= n}}
Low(x) == x \cap (0 .. 7)

Bits(v) == {b \in 0 .. 15 : (v \div 2 ^ b) % 2 = 1}
ByteValue(x) == CHOOSE v \in 0 .. 255 : Bits(v) = x

reflect(x, nBits) == {nBits - 1 - b : b \in x}

-----------------------------------------------------------------------------
(* crc.c with the parameters CRC_MODBUS of crc.h.                          *)

POLYNOMIAL == Bits(\h8005)
INITIAL_REMAINDER == 0 .. 15

(* "Try to divide the current data bit." *)
Divide(x) == IF 15 \in x THEN Xor(ShiftLeft(x, 1), POLYNOMIAL) ELSE ShiftLeft(x, 1)

(* for (bit = 8; bit > 0; --bit) *)
DivideByte(x) == Divide(Divide(Divide(Divide(Divide(Divide(Divide(Divide(x))))))))

(* crcInit; the table is indexed by the bits of the dividend.              *)
crcTable == [dividend \in SUBSET (0 .. 7) |-> DivideByte(ShiftLeft(dividend, 8))]

(* One turn of crcFast's loop. *)
crcFast(x, byte) ==
  Xor(crcTable[Xor(reflect(byte, 8), ShiftRight(x, 8))], ShiftLeft(x, 8))

(* One turn of the loop of crcSlow, which is left out by #if 0: the same  *)
(* without a table.                                                        *)
crcSlow(x, byte) == DivideByte(Xor(x, ShiftLeft(reflect(byte, 8), 8)))

(* What crcFast returns. *)
Result(x) == reflect(x, 16)

-----------------------------------------------------------------------------
(* adv2uart.py                                                             *)

crc_table == <<
  \h0000, \hC0C1, \hC181, \h0140, \hC301, \h03C0, \h0280, \hC241,
  \hC601, \h06C0, \h0780, \hC741, \h0500, \hC5C1, \hC481, \h0440,
  \hCC01, \h0CC0, \h0D80, \hCD41, \h0F00, \hCFC1, \hCE81, \h0E40,
  \h0A00, \hCAC1, \hCB81, \h0B40, \hC901, \h09C0, \h0880, \hC841,
  \hD801, \h18C0, \h1980, \hD941, \h1B00, \hDBC1, \hDA81, \h1A40,
  \h1E00, \hDEC1, \hDF81, \h1F40, \hDD01, \h1DC0, \h1C80, \hDC41,
  \h1400, \hD4C1, \hD581, \h1540, \hD701, \h17C0, \h1680, \hD641,
  \hD201, \h12C0, \h1380, \hD341, \h1100, \hD1C1, \hD081, \h1040,
  \hF001, \h30C0, \h3180, \hF141, \h3300, \hF3C1, \hF281, \h3240,
  \h3600, \hF6C1, \hF781, \h3740, \hF501, \h35C0, \h3480, \hF441,
  \h3C00, \hFCC1, \hFD81, \h3D40, \hFF01, \h3FC0, \h3E80, \hFE41,
  \hFA01, \h3AC0, \h3B80, \hFB41, \h3900, \hF9C1, \hF881, \h3840,
  \h2800, \hE8C1, \hE981, \h2940, \hEB01, \h2BC0, \h2A80, \hEA41,
  \hEE01, \h2EC0, \h2F80, \hEF41, \h2D00, \hEDC1, \hEC81, \h2C40,
  \hE401, \h24C0, \h2580, \hE541, \h2700, \hE7C1, \hE681, \h2640,
  \h2200, \hE2C1, \hE381, \h2340, \hE101, \h21C0, \h2080, \hE041,
  \hA001, \h60C0, \h6180, \hA141, \h6300, \hA3C1, \hA281, \h6240,
  \h6600, \hA6C1, \hA781, \h6740, \hA501, \h65C0, \h6480, \hA441,
  \h6C00, \hACC1, \hAD81, \h6D40, \hAF01, \h6FC0, \h6E80, \hAE41,
  \hAA01, \h6AC0, \h6B80, \hAB41, \h6900, \hA9C1, \hA881, \h6840,
  \h7800, \hB8C1, \hB981, \h7940, \hBB01, \h7BC0, \h7A80, \hBA41,
  \hBE01, \h7EC0, \h7F80, \hBF41, \h7D00, \hBDC1, \hBC81, \h7C40,
  \hB401, \h74C0, \h7580, \hB541, \h7700, \hB7C1, \hB681, \h7640,
  \h7200, \hB2C1, \hB381, \h7340, \hB101, \h71C0, \h7080, \hB041,
  \h5000, \h90C1, \h9181, \h5140, \h9301, \h53C0, \h5280, \h9241,
  \h9601, \h56C0, \h5780, \h9741, \h5500, \h95C1, \h9481, \h5440,
  \h9C01, \h5CC0, \h5D80, \h9D41, \h5F00, \h9FC1, \h9E81, \h5E40,
  \h5A00, \h9AC1, \h9B81, \h5B40, \h9901, \h59C0, \h5880, \h9841,
  \h8801, \h48C0, \h4980, \h8941, \h4B00, \h8BC1, \h8A81, \h4A40,
  \h4E00, \h8EC1, \h8F81, \h4F40, \h8D01, \h4DC0, \h4C80, \h8C41,
  \h4400, \h84C1, \h8581, \h4540, \h8701, \h47C0, \h4680, \h8641,
  \h8201, \h42C0, \h4380, \h8341, \h4100, \h81C1, \h8081, \h4040 >>

(* The table's words as sets, indexed by sets.                             *)
crc_tableBits == [x \in SUBSET (0 .. 7) |-> Bits(crc_table[1 + ByteValue(x)])]

(* One turn of crc_16's loop. *)
crc_16(c, byte) == Xor(ShiftRight(c, 8), crc_tableBits[Low(Xor(c, byte))])

-----------------------------------------------------------------------------
LineInit ==
  /\ remainder = INITIAL_REMAINDER
  /\ received = INITIAL_REMAINDER
  /\ crc = Bits(\hFFFF)
  /\ pos = 0
  /\ first = -1

(* Noise changes the bits e of the byte that is on the line: they lie      *)
(* within MaxBurst bits of the first bit changed.                          *)
Damage(e) ==
  /\ first' = IF first # -1 \/ e = {} THEN first
              ELSE 8 * pos + CHOOSE b \in e : \A c \in e : b <= c
  /\ \A b \in e : 8 * pos + b < first' + MaxBurst

OnTheLine(byte) ==
  \E e \in SUBSET (0 .. 7) :
    /\ Damage(e)
    /\ received' = crcFast(received, Xor(byte, e))
    /\ crc' = crc_16(crc, Xor(byte, e))
    /\ pos' = pos + 1

SendData ==
  /\ pos < DataLen
  /\ \E v \in Payload :
       /\ OnTheLine(Bits(v))
       /\ remainder' = crcFast(remainder, Bits(v))

SendCrc_HighFirst ==
  /\ pos \in {DataLen, DataLen + 1}
  /\ OnTheLine(IF pos = DataLen THEN ShiftRight(Result(remainder), 8) ELSE Low(Result(remainder)))
  /\ UNCHANGED remainder

(* p[len] = crc; p[len+1] = crc >> 8; *)
SendCrc ==
  /\ pos \in {DataLen, DataLen + 1}
  /\ OnTheLine(IF pos = DataLen THEN Low(Result(remainder)) ELSE ShiftRight(Result(remainder), 8))
  /\ UNCHANGED remainder

(* Every call of crcFast and of crc_16 starts afresh.                      *)
NextFrame ==
  /\ pos = DataLen + 2
  /\ remainder' = INITIAL_REMAINDER /\ received' = INITIAL_REMAINDER
  /\ crc' = Bits(\hFFFF)
  /\ pos' = 0 /\ first' = -1

LineNext == SendData \/ SendCrc \/ NextFrame

LineSpec == LineInit /\ [][LineNext]_lineVars

-----------------------------------------------------------------------------
(***************************************************************************)
(* After any bytes the two ways agree: the typed table and the computed    *)
(* one are reflections of each other, and so are the two loops.  So a      *)
(* receiver that uses either over a whole frame gets 0 if it is as sent,   *)
(* and never if a burst of noise of up to MaxBurst bits hit its data or    *)
(* its CRC (crc.c:142-206, adv2uart.py:27-69, 279, scanning.c:234-238,     *)
(* 285).                                                                   *)
(***************************************************************************)
ChecksumsProtect ==
  /\ crc = Result(received)
  /\ pos = DataLen + 2 => (crc = {} <=> first = -1)
=============================================================================
