---------------------------- MODULE Crc_proofs ----------------------------
(***************************************************************************)
(* Proofs about the CRC-16, for every payload, length of frames and burst  *)
(* of up to 16 bits.                                                       *)
(***************************************************************************)
EXTENDS MCParts, TLAPS

Word == SUBSET (0 .. 15)
Octet == SUBSET (0 .. 7)

-----------------------------------------------------------------------------
(***************************************************************************)
(* Words.                                                                  *)
(***************************************************************************)

(* Exclusive or, bit by bit. *)
LEMMA InXor ==
  ASSUME NEW x, NEW y, NEW b
  PROVE  b \in Xor(x, y) <=> (b \in x <=> b \notin y)
BY DEF Xor

LEMMA XorType ==
  ASSUME NEW x, NEW y
  PROVE  /\ x \in Octet /\ y \in Octet => Xor(x, y) \in Octet
         /\ x \in Word /\ y \in Word => Xor(x, y) \in Word
BY DEF Xor, Octet, Word

LEMMA XorLaws ==
  ASSUME NEW x, NEW y, NEW z
  PROVE  /\ Xor(x, y) = Xor(y, x)
         /\ Xor(x, Xor(y, z)) = Xor(Xor(x, y), z)
         /\ Xor(x, x) = {} /\ Xor(x, {}) = x
         /\ Xor(x, y) = {} => x = y
BY DEF Xor

(* Two sums of two words, added crosswise. *)
LEMMA XorCross ==
  ASSUME NEW x, NEW y, NEW u, NEW v
  PROVE  Xor(Xor(x, y), Xor(u, v)) = Xor(Xor(x, u), Xor(y, v))
BY DEF Xor

LEMMA InShiftLeft ==
  ASSUME NEW x \in Word, NEW n \in 0 .. 8, NEW b
  PROVE  b \in ShiftLeft(x, n) <=> b \in 0 .. 15 /\ b - n \in x
BY DEF ShiftLeft, Word

LEMMA InShiftRight ==
  ASSUME NEW x \in Word, NEW b
  PROVE  b \in ShiftRight(x, 8) <=> b \in 0 .. 7 /\ b + 8 \in x
BY DEF ShiftRight, Word

LEMMA InReflect ==
  ASSUME NEW x, NEW b
  PROVE  /\ x \in Octet => (b \in reflect(x, 8) <=> b \in 0 .. 7 /\ 7 - b \in x)
         /\ x \in Word => (b \in reflect(x, 16) <=> b \in 0 .. 15 /\ 15 - b \in x)
<1>1. x \in Octet => (b \in reflect(x, 8) <=> b \in 0 .. 7 /\ 7 - b \in x)
  BY DEF reflect, Octet
<1>2. x \in Word => (b \in reflect(x, 16) <=> b \in 0 .. 15 /\ 15 - b \in x)
  BY DEF reflect, Word
<1>3. QED BY <1>1, <1>2

LEMMA ShiftTypes ==
  ASSUME NEW x \in Word, NEW n \in 0 .. 8
  PROVE  ShiftLeft(x, n) \in Word /\ ShiftRight(x, 8) \in Octet /\ Low(x) \in Octet
BY DEF ShiftLeft, ShiftRight, Low, Word, Octet

LEMMA ReflectType ==
  ASSUME NEW x
  PROVE  /\ x \in Octet => reflect(x, 8) \in Octet
         /\ x \in Word => reflect(x, 16) \in Word
BY InReflect DEF Octet, Word

LEMMA OctetIsWord == Octet \subseteq Word /\ {} \in Octet
BY DEF Octet, Word

(* Shifts and reflections distribute over exclusive or. *)
LEMMA ShiftLinear ==
  ASSUME NEW x \in Word, NEW y \in Word, NEW n \in 0 .. 8
  PROVE  /\ ShiftLeft(Xor(x, y), n) = Xor(ShiftLeft(x, n), ShiftLeft(y, n))
         /\ ShiftRight(Xor(x, y), 8) = Xor(ShiftRight(x, 8), ShiftRight(y, 8))
         /\ Low(Xor(x, y)) = Xor(Low(x), Low(y))
<1>1. Xor(x, y) \in Word
  BY XorType
<1>2. ASSUME NEW b PROVE b \in ShiftLeft(Xor(x, y), n) <=> b \in Xor(ShiftLeft(x, n), ShiftLeft(y, n))
  BY <1>1, InShiftLeft, InXor
<1>3. ASSUME NEW b PROVE b \in ShiftRight(Xor(x, y), 8) <=> b \in Xor(ShiftRight(x, 8), ShiftRight(y, 8))
  BY <1>1, InShiftRight, InXor
<1>4. Low(Xor(x, y)) = Xor(Low(x), Low(y))
  BY DEF Low, Xor
<1>5. QED BY <1>2, <1>3, <1>4

LEMMA ReflectLinear ==
  ASSUME NEW x, NEW y
  PROVE  /\ x \in Octet /\ y \in Octet => reflect(Xor(x, y), 8) = Xor(reflect(x, 8), reflect(y, 8))
         /\ x \in Word /\ y \in Word => reflect(Xor(x, y), 16) = Xor(reflect(x, 16), reflect(y, 16))
<1>1. ASSUME x \in Octet, y \in Octet
      PROVE  reflect(Xor(x, y), 8) = Xor(reflect(x, 8), reflect(y, 8))
  <2>1. Xor(x, y) \in Octet
    BY <1>1, XorType
  <2>2. ASSUME NEW b PROVE b \in reflect(Xor(x, y), 8) <=> b \in Xor(reflect(x, 8), reflect(y, 8))
    BY <1>1, <2>1, InReflect, InXor
  <2>3. QED BY <2>2
<1>2. ASSUME x \in Word, y \in Word
      PROVE  reflect(Xor(x, y), 16) = Xor(reflect(x, 16), reflect(y, 16))
  <2>1. Xor(x, y) \in Word
    BY <1>2, XorType
  <2>2. ASSUME NEW b PROVE b \in reflect(Xor(x, y), 16) <=> b \in Xor(reflect(x, 16), reflect(y, 16))
    BY <1>2, <2>1, InReflect, InXor
  <2>3. QED BY <2>2
<1>3. QED BY <1>1, <1>2

-----------------------------------------------------------------------------
(***************************************************************************)
(* Polynomial division.                                                    *)
(***************************************************************************)

(* The bits of a number. *)
Digit(v, p) == (v \div p) % 2

LEMMA InBits ==
  ASSUME NEW v \in Nat
  PROVE  /\ Bits(v) \in Word
         /\ 0 \in Bits(v) <=> Digit(v, 1) = 1
         /\ 1 \in Bits(v) <=> Digit(v, 2) = 1
         /\ 2 \in Bits(v) <=> Digit(v, 4) = 1
         /\ 3 \in Bits(v) <=> Digit(v, 8) = 1
         /\ 4 \in Bits(v) <=> Digit(v, 16) = 1
         /\ 5 \in Bits(v) <=> Digit(v, 32) = 1
         /\ 6 \in Bits(v) <=> Digit(v, 64) = 1
         /\ 7 \in Bits(v) <=> Digit(v, 128) = 1
         /\ 8 \in Bits(v) <=> Digit(v, 256) = 1
         /\ 9 \in Bits(v) <=> Digit(v, 512) = 1
         /\ 10 \in Bits(v) <=> Digit(v, 1024) = 1
         /\ 11 \in Bits(v) <=> Digit(v, 2048) = 1
         /\ 12 \in Bits(v) <=> Digit(v, 4096) = 1
         /\ 13 \in Bits(v) <=> Digit(v, 8192) = 1
         /\ 14 \in Bits(v) <=> Digit(v, 16384) = 1
         /\ 15 \in Bits(v) <=> Digit(v, 32768) = 1
<1> DEFINE Power(b) == 2 ^ b
<1>1. /\ Power(0) = 1 /\ Power(1) = 2 /\ Power(2) = 4 /\ Power(3) = 8
      /\ Power(4) = 16 /\ Power(5) = 32 /\ Power(6) = 64 /\ Power(7) = 128
      /\ Power(8) = 256 /\ Power(9) = 512 /\ Power(10) = 1024 /\ Power(11) = 2048
      /\ Power(12) = 4096 /\ Power(13) = 8192 /\ Power(14) = 16384 /\ Power(15) = 32768
  OBVIOUS
<1>2. Bits(v) = {b \in 0 .. 15 : Digit(v, Power(b)) = 1}
  BY DEF Bits, Digit
<1> HIDE DEF Power
<1>3. QED BY <1>1, <1>2 DEF Word

LEMMA Polynomial == POLYNOMIAL = {0, 2, 15} /\ Bits(\hFFFF) = 0 .. 15
<1>1. \A b \in 0 .. 15 : b \in POLYNOMIAL <=> b \in {0, 2, 15}
  BY InBits DEF POLYNOMIAL, Digit
<1>2. \A b \in 0 .. 15 : b \in Bits(\hFFFF)
  BY InBits DEF Digit
<1>3. POLYNOMIAL \in Word /\ Bits(\hFFFF) \in Word
  BY InBits DEF POLYNOMIAL
<1>4. QED
  <2> HIDE DEF POLYNOMIAL
  <2>1. POLYNOMIAL = {0, 2, 15}
    <3>1. ASSUME NEW b PROVE b \in POLYNOMIAL <=> b \in {0, 2, 15}
      <4>1. b \in POLYNOMIAL => b \in 0 .. 15
        BY <1>3 DEF Word
      <4>2. b \in {0, 2, 15} => b \in 0 .. 15
        OBVIOUS
      <4>3. QED BY <1>1, <4>1, <4>2
    <3>2. QED BY <3>1
  <2>2. Bits(\hFFFF) = 0 .. 15
    BY <1>2, <1>3 DEF Word
  <2>3. QED BY <2>1, <2>2

(* What one turn does to each bit. *)
LEMMA InDivide ==
  ASSUME NEW x \in Word, NEW b
  PROVE  b \in Divide(x) <=> /\ b \in 0 .. 15
                             /\ b - 1 \in x <=> ~(15 \in x /\ b \in {0, 2, 15})
<1>1. b \in ShiftLeft(x, 1) <=> b \in 0 .. 15 /\ b - 1 \in x
  BY InShiftLeft
<1>2. CASE 15 \in x
  <2>1. Divide(x) = Xor(ShiftLeft(x, 1), {0, 2, 15})
    BY <1>2, Polynomial DEF Divide
  <2>2. b \in Divide(x) <=> (b \in ShiftLeft(x, 1) <=> b \notin {0, 2, 15})
    BY <2>1, InXor
  <2>3. QED BY <1>1, <1>2, <2>2
<1>3. CASE 15 \notin x
  BY <1>1, <1>3 DEF Divide
<1>4. QED BY <1>2, <1>3

LEMMA DivideType ==
  ASSUME NEW x \in Word
  PROVE  Divide(x) \in Word
BY InDivide DEF Word

LEMMA DivideLinear ==
  ASSUME NEW x \in Word, NEW y \in Word
  PROVE  Divide(Xor(x, y)) = Xor(Divide(x), Divide(y))
<1>1. Xor(x, y) \in Word
  BY XorType
<1>2. ASSUME NEW b PROVE b \in Divide(Xor(x, y)) <=> b \in Xor(Divide(x), Divide(y))
  <2>1. CASE b \notin 0 .. 15
    BY <1>1, <2>1, InDivide, InXor
  <2>2. CASE b \in 0 .. 15
    BY <1>1, <2>2, InDivide, InXor
  <2>3. QED BY <2>1, <2>2
<1>3. QED BY <1>2

(* Dividing a word that is not 0 never gives 0. *)
LEMMA DivideNotZero ==
  ASSUME NEW x \in Word, x # {}
  PROVE  Divide(x) # {}
<1>1. CASE 15 \in x
  <2>1. 0 \in Divide(x)
    BY <1>1, InDivide DEF Word
  <2>2. QED BY <2>1
<1>2. CASE 15 \notin x
  <2>1. PICK k \in x : TRUE
    OBVIOUS
  <2>2. k + 1 \in Divide(x)
    BY <1>2, <2>1, InDivide DEF Word
  <2>3. QED BY <2>2
<1>3. QED BY <1>1, <1>2

(* Follow the leading bit of x as if it were never divided away: while m   *)
(* is less than 16 it is bit m; later some bit of the remainder is at most *)
(* 16 places behind it, since the polynomial has bit 0.                    *)
Leading(x, m) ==
  IF m < 16 THEN m \in x /\ \A b \in x : b <= m
            ELSE \E k \in x : k <= m - 16

LEMMA LeadingMoves ==
  ASSUME NEW x \in Word, NEW m \in 0 .. 30, Leading(x, m)
  PROVE  Leading(Divide(x), m + 1)
<1>1. CASE m < 15
  <2>1. m + 1 \in Divide(x)
    BY <1>1, InDivide DEF Leading
  <2>2. ASSUME NEW b \in Divide(x) PROVE b <= m + 1
    <3>1. b \in 0 .. 15 /\ b - 1 \in x
      BY <1>1, InDivide DEF Leading
    <3>2. QED BY <1>1, <3>1 DEF Leading
  <2>3. QED BY <1>1, <2>1, <2>2 DEF Leading
<1>2. CASE m = 15
  <2>1. 15 \in x /\ -1 \notin x
    BY <1>2 DEF Leading, Word
  <2>2. 0 \in Divide(x)
    BY <2>1, InDivide
  <2>3. QED BY <1>2, <2>2 DEF Leading
<1>3. CASE m > 15
  <2>1. PICK k \in x : k <= m - 16
    BY <1>3 DEF Leading
  <2>2. k \in 0 .. 14
    BY <2>1 DEF Word
  <2>3. CASE 15 \in x
    <3>1. 0 \in Divide(x)
      BY <2>3, InDivide DEF Word
    <3>2. QED BY <1>3, <3>1 DEF Leading
  <2>4. CASE 15 \notin x
    <3>1. k + 1 \in Divide(x)
      BY <2>2, <2>4, InDivide
    <3>2. QED BY <1>3, <2>1, <2>2, <3>1 DEF Leading
  <2>5. QED BY <2>3, <2>4
<1>4. QED BY <1>1, <1>2, <1>3

(* Eight turns. *)
LEMMA DivideByteType ==
  ASSUME NEW x \in Word
  PROVE  DivideByte(x) \in Word
BY DivideType DEF DivideByte

LEMMA DivideByteLinear ==
  ASSUME NEW x \in Word, NEW y \in Word
  PROVE  DivideByte(Xor(x, y)) = Xor(DivideByte(x), DivideByte(y))
BY DivideType, DivideLinear DEF DivideByte

LEMMA DivideByteNotZero ==
  ASSUME NEW x \in Word, x # {}
  PROVE  DivideByte(x) # {}
BY DivideType, DivideNotZero DEF DivideByte

LEMMA LeadingMovesByte ==
  ASSUME NEW x \in Word, NEW m \in 0 .. 23, Leading(x, m)
  PROVE  Leading(DivideByte(x), m + 8)
<1> DEFINE T1 == Divide(x)
           T2 == Divide(T1)
           T3 == Divide(T2)
           T4 == Divide(T3)
           T5 == Divide(T4)
           T6 == Divide(T5)
           T7 == Divide(T6)
<1>1. /\ T1 \in Word /\ T2 \in Word /\ T3 \in Word /\ T4 \in Word
      /\ T5 \in Word /\ T6 \in Word /\ T7 \in Word
  BY DivideType
<1>2. Leading(T1, m + 1)
  BY LeadingMoves
<1> HIDE DEF T1
<1>3. Leading(T2, m + 2)
  BY <1>1, <1>2, LeadingMoves, (m + 1) + 1 = m + 2
<1> HIDE DEF T2
<1>4. Leading(T3, m + 3)
  BY <1>1, <1>3, LeadingMoves, (m + 2) + 1 = m + 3
<1> HIDE DEF T3
<1>5. Leading(T4, m + 4)
  BY <1>1, <1>4, LeadingMoves, (m + 3) + 1 = m + 4
<1> HIDE DEF T4
<1>6. Leading(T5, m + 5)
  BY <1>1, <1>5, LeadingMoves, (m + 4) + 1 = m + 5
<1> HIDE DEF T5
<1>7. Leading(T6, m + 6)
  BY <1>1, <1>6, LeadingMoves, (m + 5) + 1 = m + 6
<1> HIDE DEF T6
<1>8. Leading(T7, m + 7)
  BY <1>1, <1>7, LeadingMoves, (m + 6) + 1 = m + 7
<1>9. Leading(Divide(T7), m + 8)
  <2> HIDE DEF T7
  <2>1. QED BY <1>1, <1>8, LeadingMoves, (m + 7) + 1 = m + 8
<1>10. QED BY <1>9 DEF DivideByte, T1, T2, T3, T4, T5, T6

(* A word with low bits only is shifted. *)
LEMMA LowIsShifted ==
  ASSUME NEW x \in Octet, NEW n \in 0 .. 7, NEW m \in 0 .. 8, m = n + 1
  PROVE  Divide(ShiftLeft(x, n)) = ShiftLeft(x, m)
<1>1. x \in Word /\ ShiftLeft(x, n) \in Word /\ 15 \notin ShiftLeft(x, n)
  BY ShiftTypes, InShiftLeft DEF Octet, Word
<1>2. ASSUME NEW b PROVE b \in Divide(ShiftLeft(x, n)) <=> b \in ShiftLeft(x, m)
  <2>1. CASE b \in 0 .. 15
    <3>1. PICK c \in -1 .. 14 : c = b - 1
      BY <2>1
    <3>2. b \in Divide(ShiftLeft(x, n)) <=> c \in ShiftLeft(x, n)
      BY <1>1, <2>1, <3>1, InDivide
    <3>3. c \in ShiftLeft(x, n) <=> c \in 0 .. 15 /\ c - n \in x
      BY <1>1, InShiftLeft
    <3>4. b \in ShiftLeft(x, m) <=> b - m \in x
      BY <1>1, <2>1, InShiftLeft
    <3>5. c - n = b - m /\ (b - m \in x => c \in 0 .. 15)
      BY <2>1, <3>1 DEF Octet
    <3>6. QED BY <3>2, <3>3, <3>4, <3>5
  <2>2. CASE b \notin 0 .. 15
    BY <1>1, <2>2, InDivide, InShiftLeft
  <2>3. QED BY <2>1, <2>2
<1>3. QED BY <1>2

LEMMA DivideByteLow ==
  ASSUME NEW x \in Octet
  PROVE  DivideByte(x) = ShiftLeft(x, 8)
<1>1. ShiftLeft(x, 0) = x
  <2>1. x \in Word /\ x \subseteq 0 .. 15
    BY DEF Octet, Word
  <2>2. ASSUME NEW b PROVE b \in ShiftLeft(x, 0) <=> b \in x
    <3>1. b \in ShiftLeft(x, 0) <=> b \in 0 .. 15 /\ b - 0 \in x
      BY <2>1, InShiftLeft
    <3>2. b \in 0 .. 15 => b - 0 = b
      OBVIOUS
    <3>3. QED BY <2>1, <3>1, <3>2
  <2>3. QED BY <2>2
<1>2. /\ Divide(ShiftLeft(x, 0)) = ShiftLeft(x, 1)
      /\ Divide(ShiftLeft(x, 1)) = ShiftLeft(x, 2)
      /\ Divide(ShiftLeft(x, 2)) = ShiftLeft(x, 3)
      /\ Divide(ShiftLeft(x, 3)) = ShiftLeft(x, 4)
      /\ Divide(ShiftLeft(x, 4)) = ShiftLeft(x, 5)
      /\ Divide(ShiftLeft(x, 5)) = ShiftLeft(x, 6)
      /\ Divide(ShiftLeft(x, 6)) = ShiftLeft(x, 7)
      /\ Divide(ShiftLeft(x, 7)) = ShiftLeft(x, 8)
  BY LowIsShifted
<1>3. QED BY <1>1, <1>2 DEF DivideByte

-----------------------------------------------------------------------------
(***************************************************************************)
(* Bytes.                                                                  *)
(***************************************************************************)

(* A word is its high byte and its low one. *)
LEMMA WordSplits ==
  ASSUME NEW x \in Word
  PROVE  /\ x = Xor(ShiftLeft(ShiftRight(x, 8), 8), Low(x))
         /\ ShiftLeft(Low(x), 8) = ShiftLeft(x, 8)
<1>1. ShiftRight(x, 8) \in Octet /\ ShiftRight(x, 8) \in Word /\ Low(x) \in Word
  BY ShiftTypes, OctetIsWord
<1>2. ASSUME NEW b PROVE b \in ShiftLeft(ShiftRight(x, 8), 8) <=> b \in x /\ b \in 8 .. 15
  <2>1. CASE b \in 0 .. 15
    <3>1. PICK c \in -8 .. 7 : c = b - 8
      BY <2>1
    <3>2. b \in ShiftLeft(ShiftRight(x, 8), 8) <=> c \in ShiftRight(x, 8)
      BY <1>1, <2>1, <3>1, InShiftLeft
    <3>3. c \in ShiftRight(x, 8) <=> c \in 0 .. 7 /\ c + 8 \in x
      BY InShiftRight
    <3>4. c + 8 = b /\ (c \in 0 .. 7 <=> b \in 8 .. 15)
      BY <2>1, <3>1
    <3>5. QED BY <3>2, <3>3, <3>4
  <2>2. CASE b \notin 0 .. 15
    BY <1>1, <2>2, InShiftLeft DEF Word
  <2>3. QED BY <2>1, <2>2
<1>3. ASSUME NEW b PROVE b \in x <=> b \in Xor(ShiftLeft(ShiftRight(x, 8), 8), Low(x))
  <2>1. b \in x => b \in 0 .. 15
    BY DEF Word
  <2>2. b \in 0 .. 15 => (b \in 8 .. 15 <=> b \notin 0 .. 7)
    OBVIOUS
  <2>3. b \in Low(x) <=> b \in x /\ b \in 0 .. 7
    BY DEF Low
  <2>4. QED BY <1>2, <2>1, <2>2, <2>3, InXor
<1>4. ASSUME NEW b PROVE b \in ShiftLeft(Low(x), 8) <=> b \in ShiftLeft(x, 8)
  <2>1. b \in 0 .. 15 => (b - 8 \in Low(x) <=> b - 8 \in x)
    BY DEF Low, Word
  <2>2. QED BY <1>1, <2>1, InShiftLeft
<1>5. QED BY <1>3, <1>4

(***************************************************************************)
(* A turn of crcFast with the table that crcInit fills gives what the      *)
(* division bit by bit of crcSlow gives (crc.c:90-124, 142-208).           *)
(***************************************************************************)
THEOREM FastIsSlow ==
  ASSUME NEW x \in Word, NEW byte \in Octet
  PROVE  crcFast(x, byte) = crcSlow(x, byte)
<1> DEFINE a == reflect(byte, 8)
           h == ShiftRight(x, 8)
           l == Low(x)
<1>1. a \in Octet /\ h \in Octet /\ l \in Octet /\ Xor(a, h) \in Octet
  BY ReflectType, ShiftTypes, XorType
<1>2. /\ ShiftLeft(a, 8) \in Word /\ ShiftLeft(h, 8) \in Word /\ l \in Word
      /\ ShiftLeft(Xor(a, h), 8) \in Word
  BY <1>1, OctetIsWord, ShiftTypes
<1>3. x = Xor(ShiftLeft(h, 8), l) /\ ShiftLeft(l, 8) = ShiftLeft(x, 8)
  BY WordSplits
<1>4. ShiftLeft(Xor(a, h), 8) = Xor(ShiftLeft(a, 8), ShiftLeft(h, 8))
  BY <1>1, OctetIsWord, ShiftLinear
<1>5. crcFast(x, byte) = Xor(DivideByte(ShiftLeft(Xor(a, h), 8)), ShiftLeft(l, 8))
  BY <1>1, <1>3 DEF crcFast, crcTable, Octet
<1>6. ShiftLeft(l, 8) = DivideByte(l)
  BY <1>1, DivideByteLow
<1> HIDE DEF a, h, l
<1>7. Xor(x, ShiftLeft(a, 8)) = Xor(ShiftLeft(Xor(a, h), 8), l)
  BY <1>3, <1>4, XorLaws
<1>8. crcFast(x, byte) = DivideByte(Xor(ShiftLeft(Xor(a, h), 8), l))
  BY <1>2, <1>5, <1>6, DivideByteLinear
<1>9. QED BY <1>7, <1>8 DEF crcSlow, a

LEMMA FastType ==
  ASSUME NEW x \in Word, NEW byte \in Octet
  PROVE  crcFast(x, byte) \in Word /\ Result(x) \in Word
<1>1. ShiftLeft(reflect(byte, 8), 8) \in Word
  BY ReflectType, ShiftTypes, OctetIsWord
<1>2. Xor(x, ShiftLeft(reflect(byte, 8), 8)) \in Word
  BY <1>1, XorType
<1>3. QED BY <1>2, DivideByteType, FastIsSlow, ReflectType DEF crcSlow, Result

(* What noise adds to the bytes adds to the remainder independently. *)
LEMMA FastLinear ==
  ASSUME NEW x \in Word, NEW y \in Word, NEW byte \in Octet, NEW e \in Octet
  PROVE  crcFast(Xor(x, y), Xor(byte, e)) = Xor(crcFast(x, byte), crcFast(y, e))
<1> DEFINE u == ShiftLeft(reflect(byte, 8), 8)
           v == ShiftLeft(reflect(e, 8), 8)
<1>1. /\ reflect(byte, 8) \in Word /\ reflect(e, 8) \in Word /\ u \in Word /\ v \in Word
      /\ Xor(byte, e) \in Octet /\ Xor(x, y) \in Word /\ Xor(x, u) \in Word /\ Xor(y, v) \in Word
  BY ReflectType, ShiftTypes, OctetIsWord, XorType
<1>2. ShiftLeft(reflect(Xor(byte, e), 8), 8) = Xor(u, v)
  BY <1>1, ReflectLinear, ShiftLinear
<1> HIDE DEF u, v
<1>3. crcFast(Xor(x, y), Xor(byte, e)) = DivideByte(Xor(Xor(x, y), Xor(u, v)))
  BY <1>1, <1>2, FastIsSlow DEF crcSlow
<1>4. crcFast(x, byte) = DivideByte(Xor(x, u)) /\ crcFast(y, e) = DivideByte(Xor(y, v))
  BY FastIsSlow DEF crcSlow, u, v
<1>5. QED BY <1>1, <1>3, <1>4, XorCross, DivideByteLinear

(* The CRC of a frame with its CRC behind it is 0. *)
LEMMA OwnCrcCancels ==
  ASSUME NEW r \in Word
  PROVE  /\ crcFast(r, Low(Result(r))) = ShiftLeft(r, 8)
         /\ crcFast(ShiftLeft(r, 8), ShiftRight(Result(r), 8)) = {}
<1>1. Result(r) \in Word /\ ShiftRight(r, 8) \in Octet /\ ShiftLeft(r, 8) \in Word
  BY ReflectType, ShiftTypes DEF Result
<1>2. Low(Result(r)) \in Octet /\ ShiftRight(Result(r), 8) \in Octet
  BY <1>1, ShiftTypes
<1>3. reflect(Low(Result(r)), 8) = ShiftRight(r, 8)
  <2>1. ASSUME NEW b PROVE b \in reflect(Low(Result(r)), 8) <=> b \in ShiftRight(r, 8)
    <3>1. CASE b \in 0 .. 7
      <4>1. PICK c \in 0 .. 7 : c = 7 - b
        BY <3>1
      <4>2. b \in reflect(Low(Result(r)), 8) <=> c \in Result(r)
        BY <1>2, <3>1, <4>1, InReflect DEF Low
      <4>3. c \in Result(r) <=> 15 - c \in r
        BY InReflect DEF Result
      <4>4. QED BY <3>1, <4>1, <4>2, <4>3, InShiftRight, 15 - c = b + 8
    <3>2. CASE b \notin 0 .. 7
      BY <1>2, <3>2, InReflect, InShiftRight
    <3>3. QED BY <3>1, <3>2
  <2>2. QED BY <2>1
<1>4. reflect(ShiftRight(Result(r), 8), 8) = ShiftRight(ShiftLeft(r, 8), 8)
  <2>1. ASSUME NEW b
        PROVE  b \in reflect(ShiftRight(Result(r), 8), 8) <=> b \in ShiftRight(ShiftLeft(r, 8), 8)
    <3>1. CASE b \in 0 .. 7
      <4>1. PICK c \in 0 .. 7 : c = 7 - b
        BY <3>1
      <4>2. PICK d \in 8 .. 15 : d = c + 8
        BY <4>1
      <4>3. b \in reflect(ShiftRight(Result(r), 8), 8) <=> d \in Result(r)
        BY <1>1, <1>2, <3>1, <4>1, <4>2, InReflect, InShiftRight
      <4>4. d \in Result(r) <=> b \in r
        BY <3>1, <4>1, <4>2, InReflect, 15 - d = b DEF Result
      <4>5. PICK f \in 8 .. 15 : f = b + 8
        BY <3>1
      <4>6. b \in ShiftRight(ShiftLeft(r, 8), 8) <=> f \in ShiftLeft(r, 8)
        BY <1>1, <3>1, <4>5, InShiftRight
      <4>7. f \in ShiftLeft(r, 8) <=> b \in r
        BY <3>1, <4>5, InShiftLeft, f - 8 = b
      <4>8. QED BY <4>3, <4>4, <4>6, <4>7
    <3>2. CASE b \notin 0 .. 7
      BY <1>1, <1>2, <3>2, InReflect, InShiftRight
    <3>3. QED BY <3>1, <3>2
  <2>2. QED BY <2>1
<1>5. crcTable[{}] = {}
  <2>1. DivideByte({}) = {}
    <3>1. {} \in Word /\ Xor({}, {}) = {}
      BY XorLaws DEF Word
    <3>2. DivideByte({}) = Xor(DivideByte({}), DivideByte({}))
      BY <3>1, DivideByteLinear
    <3>3. QED BY <3>2, XorLaws
  <2>2. ShiftLeft({}, 8) = {} /\ {} \in SUBSET (0 .. 7)
    BY DEF ShiftLeft
  <2>3. QED BY <2>1, <2>2 DEF crcTable
<1>6. ShiftLeft(ShiftLeft(r, 8), 8) = {}
  <2>1. ASSUME NEW b \in ShiftLeft(ShiftLeft(r, 8), 8) PROVE FALSE
    <3>1. b \in 0 .. 15 /\ b - 8 \in ShiftLeft(r, 8)
      BY <1>1, InShiftLeft
    <3>2. PICK c \in -8 .. 7 : c = b - 8
      BY <3>1
    <3>3. c - 8 \in r
      BY <3>1, <3>2, InShiftLeft
    <3>4. QED BY <3>2, <3>3 DEF Word
  <2>2. QED BY <2>1
<1>7. crcFast(r, Low(Result(r))) = ShiftLeft(r, 8)
  <2>1. Xor(reflect(Low(Result(r)), 8), ShiftRight(r, 8)) = {}
    BY <1>3, XorLaws
  <2>2. Xor({}, ShiftLeft(r, 8)) = ShiftLeft(r, 8)
    BY XorLaws
  <2>3. QED BY <1>5, <2>1, <2>2 DEF crcFast
<1>8. crcFast(ShiftLeft(r, 8), ShiftRight(Result(r), 8)) = {}
  <2>1. Xor(reflect(ShiftRight(Result(r), 8), 8), ShiftRight(ShiftLeft(r, 8), 8)) = {}
    BY <1>4, XorLaws
  <2>2. QED BY <1>5, <1>6, <2>1, XorLaws DEF crcFast
<1>9. QED BY <1>7, <1>8

-----------------------------------------------------------------------------
(***************************************************************************)
(* The two tables.  Both give, for a byte of which the bits are reflected, *)
(* a word whose bits are sums of at most two bits of the byte or the sum   *)
(* of all: IsRow says it in numbers and IsEntry in bits.                   *)
(***************************************************************************)
Odd(v) ==
  (Digit(v, 1) + Digit(v, 2) + Digit(v, 4) + Digit(v, 8)
     + Digit(v, 16) + Digit(v, 32) + Digit(v, 64) + Digit(v, 128)) % 2

IsRow(v, w) ==
  /\ w \in Nat
  /\ Digit(w, 1) = Odd(v)
  /\ Digit(w, 2) = 0
  /\ Digit(w, 4) = 0
  /\ Digit(w, 8) = 0
  /\ Digit(w, 16) = 0
  /\ Digit(w, 32) = 0
  /\ Digit(w, 64) = Digit(v, 1)
  /\ Digit(w, 128) = (Digit(v, 1) + Digit(v, 2)) % 2
  /\ Digit(w, 256) = (Digit(v, 2) + Digit(v, 4)) % 2
  /\ Digit(w, 512) = (Digit(v, 4) + Digit(v, 8)) % 2
  /\ Digit(w, 1024) = (Digit(v, 8) + Digit(v, 16)) % 2
  /\ Digit(w, 2048) = (Digit(v, 16) + Digit(v, 32)) % 2
  /\ Digit(w, 4096) = (Digit(v, 32) + Digit(v, 64)) % 2
  /\ Digit(w, 8192) = (Digit(v, 64) + Digit(v, 128)) % 2
  /\ Digit(w, 16384) = (Digit(v, 128) + Odd(v)) % 2
  /\ Digit(w, 32768) = Odd(v)

OddOnes(x) ==
  (((0 \in x <=> 1 \notin x) <=> ~(2 \in x <=> 3 \notin x))
     <=> ~((4 \in x <=> 5 \notin x) <=> ~(6 \in x <=> 7 \notin x)))

IsEntry(x, t) ==
  /\ t \in Word
  /\ 0 \in t <=> OddOnes(x)
  /\ 1 \notin t
  /\ 2 \notin t
  /\ 3 \notin t
  /\ 4 \notin t
  /\ 5 \notin t
  /\ 6 \in t <=> 0 \in x
  /\ 7 \in t <=> (1 \in x <=> 0 \notin x)
  /\ 8 \in t <=> (2 \in x <=> 1 \notin x)
  /\ 9 \in t <=> (3 \in x <=> 2 \notin x)
  /\ 10 \in t <=> (4 \in x <=> 3 \notin x)
  /\ 11 \in t <=> (5 \in x <=> 4 \notin x)
  /\ 12 \in t <=> (6 \in x <=> 5 \notin x)
  /\ 13 \in t <=> (7 \in x <=> 6 \notin x)
  /\ 14 \in t <=> (OddOnes(x) <=> 7 \notin x)
  /\ 15 \in t <=> OddOnes(x)

LEMMA EntryUnique ==
  ASSUME NEW x, NEW t, NEW u, IsEntry(x, t), IsEntry(x, u)
  PROVE  t = u
<1>1. \A b \in 0 .. 15 : b \in t <=> b \in u
  BY SMTT(30) DEF IsEntry
<1>2. QED BY <1>1 DEF IsEntry, Word

(* The typed table, row by row (adv2uart.py:27-60). *)
LEMMA TypedRows == \A v \in 0 .. 255 : IsRow(v, crc_table[1 + v])
<1>1. \A v \in 0 .. 15 : IsRow(v, crc_table[1 + v])
  BY SMTT(30) DEF IsRow, Odd, Digit, crc_table
<1>2. \A v \in 16 .. 31 : IsRow(v, crc_table[1 + v])
  BY SMTT(30) DEF IsRow, Odd, Digit, crc_table
<1>3. \A v \in 32 .. 47 : IsRow(v, crc_table[1 + v])
  BY SMTT(30) DEF IsRow, Odd, Digit, crc_table
<1>4. \A v \in 48 .. 63 : IsRow(v, crc_table[1 + v])
  BY SMTT(30) DEF IsRow, Odd, Digit, crc_table
<1>5. \A v \in 64 .. 79 : IsRow(v, crc_table[1 + v])
  BY SMTT(30) DEF IsRow, Odd, Digit, crc_table
<1>6. \A v \in 80 .. 95 : IsRow(v, crc_table[1 + v])
  BY SMTT(30) DEF IsRow, Odd, Digit, crc_table
<1>7. \A v \in 96 .. 111 : IsRow(v, crc_table[1 + v])
  BY SMTT(30) DEF IsRow, Odd, Digit, crc_table
<1>8. \A v \in 112 .. 127 : IsRow(v, crc_table[1 + v])
  BY SMTT(30) DEF IsRow, Odd, Digit, crc_table
<1>9. \A v \in 128 .. 143 : IsRow(v, crc_table[1 + v])
  BY SMTT(30) DEF IsRow, Odd, Digit, crc_table
<1>10. \A v \in 144 .. 159 : IsRow(v, crc_table[1 + v])
  BY SMTT(30) DEF IsRow, Odd, Digit, crc_table
<1>11. \A v \in 160 .. 175 : IsRow(v, crc_table[1 + v])
  BY SMTT(30) DEF IsRow, Odd, Digit, crc_table
<1>12. \A v \in 176 .. 191 : IsRow(v, crc_table[1 + v])
  BY SMTT(30) DEF IsRow, Odd, Digit, crc_table
<1>13. \A v \in 192 .. 207 : IsRow(v, crc_table[1 + v])
  BY SMTT(30) DEF IsRow, Odd, Digit, crc_table
<1>14. \A v \in 208 .. 223 : IsRow(v, crc_table[1 + v])
  BY SMTT(30) DEF IsRow, Odd, Digit, crc_table
<1>15. \A v \in 224 .. 239 : IsRow(v, crc_table[1 + v])
  BY SMTT(30) DEF IsRow, Odd, Digit, crc_table
<1>16. \A v \in 240 .. 255 : IsRow(v, crc_table[1 + v])
  BY SMTT(30) DEF IsRow, Odd, Digit, crc_table
<1>17. QED BY <1>1, <1>2, <1>3, <1>4, <1>5, <1>6, <1>7, <1>8,
              <1>9, <1>10, <1>11, <1>12, <1>13, <1>14, <1>15, <1>16

LEMMA OddByBits ==
  ASSUME NEW v \in 0 .. 255
  PROVE  Odd(v) \in {0, 1} /\ (Odd(v) = 1 <=> OddOnes(Bits(v)))
<1>1. PICK x : x = Bits(v)
  OBVIOUS
<1>2. /\ Digit(v, 1) \in {0, 1} /\ (0 \in x <=> Digit(v, 1) = 1)
      /\ Digit(v, 2) \in {0, 1} /\ (1 \in x <=> Digit(v, 2) = 1)
      /\ Digit(v, 4) \in {0, 1} /\ (2 \in x <=> Digit(v, 4) = 1)
      /\ Digit(v, 8) \in {0, 1} /\ (3 \in x <=> Digit(v, 8) = 1)
      /\ Digit(v, 16) \in {0, 1} /\ (4 \in x <=> Digit(v, 16) = 1)
      /\ Digit(v, 32) \in {0, 1} /\ (5 \in x <=> Digit(v, 32) = 1)
      /\ Digit(v, 64) \in {0, 1} /\ (6 \in x <=> Digit(v, 64) = 1)
      /\ Digit(v, 128) \in {0, 1} /\ (7 \in x <=> Digit(v, 128) = 1)
  BY <1>1, InBits DEF Digit
<1>3. Odd(v) \in {0, 1} /\ (Odd(v) = 1 <=> OddOnes(x))
  BY <1>2 DEF Odd, OddOnes
<1>4. QED BY <1>1, <1>3

LEMMA RowIsEntry ==
  ASSUME NEW v \in 0 .. 255, NEW w, IsRow(v, w)
  PROVE  IsEntry(Bits(v), Bits(w))
<1>1. PICK x : x = Bits(v)
  OBVIOUS
<1>2. PICK t : t = Bits(w)
  OBVIOUS
<1>3. /\ Digit(v, 1) \in {0, 1} /\ (0 \in x <=> Digit(v, 1) = 1)
      /\ Digit(v, 2) \in {0, 1} /\ (1 \in x <=> Digit(v, 2) = 1)
      /\ Digit(v, 4) \in {0, 1} /\ (2 \in x <=> Digit(v, 4) = 1)
      /\ Digit(v, 8) \in {0, 1} /\ (3 \in x <=> Digit(v, 8) = 1)
      /\ Digit(v, 16) \in {0, 1} /\ (4 \in x <=> Digit(v, 16) = 1)
      /\ Digit(v, 32) \in {0, 1} /\ (5 \in x <=> Digit(v, 32) = 1)
      /\ Digit(v, 64) \in {0, 1} /\ (6 \in x <=> Digit(v, 64) = 1)
      /\ Digit(v, 128) \in {0, 1} /\ (7 \in x <=> Digit(v, 128) = 1)
  BY <1>1, InBits DEF Digit
<1>4. Odd(v) \in {0, 1} /\ (Odd(v) = 1 <=> OddOnes(x))
  BY <1>1, OddByBits
<1>5. /\ w \in Nat /\ t \in Word
      /\ 0 \in t <=> Digit(w, 1) = 1
      /\ 1 \in t <=> Digit(w, 2) = 1
      /\ 2 \in t <=> Digit(w, 4) = 1
      /\ 3 \in t <=> Digit(w, 8) = 1
      /\ 4 \in t <=> Digit(w, 16) = 1
      /\ 5 \in t <=> Digit(w, 32) = 1
      /\ 6 \in t <=> Digit(w, 64) = 1
      /\ 7 \in t <=> Digit(w, 128) = 1
      /\ 8 \in t <=> Digit(w, 256) = 1
      /\ 9 \in t <=> Digit(w, 512) = 1
      /\ 10 \in t <=> Digit(w, 1024) = 1
      /\ 11 \in t <=> Digit(w, 2048) = 1
      /\ 12 \in t <=> Digit(w, 4096) = 1
      /\ 13 \in t <=> Digit(w, 8192) = 1
      /\ 14 \in t <=> Digit(w, 16384) = 1
      /\ 15 \in t <=> Digit(w, 32768) = 1
  <2>1. w \in Nat
    BY DEF IsRow
  <2>2. QED BY <1>2, <2>1, InBits
<1>6. IsEntry(x, t)
  BY <1>3, <1>4, <1>5, SMTT(30) DEF IsRow, IsEntry
<1>7. QED BY <1>1, <1>2, <1>6

(* Each byte is the bits of a number, and of one only. *)
LEMMA ByteValues ==
  ASSUME NEW x \in Octet
  PROVE  ByteValue(x) \in 0 .. 255 /\ Bits(ByteValue(x)) = x
<1> DEFINE d(b) == IF b \in x THEN 1 ELSE 0
           v == d(0) + 2 * d(1) + 4 * d(2) + 8 * d(3)
                  + 16 * d(4) + 32 * d(5) + 64 * d(6) + 128 * d(7)
<1>1. v \in 0 .. 255
  OBVIOUS
<1>2. \A b \in 0 .. 15 : b \in Bits(v) <=> b \in x
  <2>1. /\ v % 2 = d(0) /\ (v \div 1) % 2 = d(0) /\ (v \div 2) % 2 = d(1) /\ (v \div 4) % 2 = d(2)
        /\ (v \div 8) % 2 = d(3) /\ (v \div 16) % 2 = d(4) /\ (v \div 32) % 2 = d(5)
        /\ (v \div 64) % 2 = d(6) /\ (v \div 128) % 2 = d(7)
    OBVIOUS
  <2>2. /\ (v \div 256) % 2 = 0 /\ (v \div 512) % 2 = 0 /\ (v \div 1024) % 2 = 0
        /\ (v \div 2048) % 2 = 0 /\ (v \div 4096) % 2 = 0 /\ (v \div 8192) % 2 = 0
        /\ (v \div 16384) % 2 = 0 /\ (v \div 32768) % 2 = 0
    BY <1>1
  <2>3. \A b : (d(b) = 1 <=> b \in x) /\ d(b) \in {0, 1}
    OBVIOUS
  <2> HIDE DEF v, d
  <2>4. \A b \in 0 .. 7 : b \in Bits(v) <=> b \in x
    BY <1>1, <2>1, <2>3, InBits DEF Digit
  <2>5. \A b \in 8 .. 15 : b \notin Bits(v) /\ b \notin x
    BY <1>1, <2>2, InBits DEF Digit, Octet
  <2>6. QED BY <2>4, <2>5
<1> HIDE DEF v
<1>3. Bits(v) = x
  <2>1. Bits(v) \in Word
    BY <1>1, InBits
  <2>2. ASSUME NEW b PROVE b \in Bits(v) <=> b \in x
    <3>1. b \in Bits(v) => b \in 0 .. 15
      BY <2>1 DEF Word
    <3>2. b \in x => b \in 0 .. 15
      BY OctetIsWord DEF Word
    <3>3. QED BY <1>2, <3>1, <3>2
  <2>3. QED BY <2>2
<1>4. QED BY <1>1, <1>3 DEF ByteValue

LEMMA ByteBits ==
  ASSUME NEW v \in 0 .. 255
  PROVE  Bits(v) \in Octet
<1>1. Bits(v) \in Word
  BY InBits
<1>2. \A b \in 8 .. 15 : b \notin Bits(v)
  BY InBits, SMTT(30) DEF Digit
<1>3. QED BY <1>1, <1>2 DEF Word, Octet

LEMMA TypedEntries ==
  ASSUME NEW x \in Octet
  PROVE  IsEntry(x, crc_tableBits[x])
<1>1. crc_tableBits[x] = Bits(crc_table[1 + ByteValue(x)])
  BY DEF crc_tableBits, Octet
<1>2. QED BY <1>1, ByteValues, TypedRows, RowIsEntry

(* What Divide leaves in t of x, each bit by its number. *)
IsDivided(x, t) ==
  /\ 0 \in t <=> 15 \in x
  /\ 1 \in t <=> 0 \in x
  /\ 2 \in t <=> (1 \in x <=> 15 \notin x)
  /\ 3 \in t <=> 2 \in x
  /\ 4 \in t <=> 3 \in x
  /\ 5 \in t <=> 4 \in x
  /\ 6 \in t <=> 5 \in x
  /\ 7 \in t <=> 6 \in x
  /\ 8 \in t <=> 7 \in x
  /\ 9 \in t <=> 8 \in x
  /\ 10 \in t <=> 9 \in x
  /\ 11 \in t <=> 10 \in x
  /\ 12 \in t <=> 11 \in x
  /\ 13 \in t <=> 12 \in x
  /\ 14 \in t <=> 13 \in x
  /\ 15 \in t <=> (14 \in x <=> 15 \notin x)

LEMMA DivideBits ==
  ASSUME NEW x \in Word
  PROVE  IsDivided(x, Divide(x))
<1>1. ASSUME NEW b \in 1 .. 15, NEW c \in 0 .. 14, c = b - 1
      PROVE  b \in Divide(x) <=> (c \in x <=> ~(15 \in x /\ b \in {2, 15}))
  BY <1>1, InDivide
<1>2. 0 \in Divide(x) <=> 15 \in x
  BY InDivide DEF Word
<1>3. QED BY <1>1, <1>2 DEF IsDivided

(* The computed table (crc.c:142-176). *)
LEMMA ComputedEntries ==
  ASSUME NEW x \in Octet
  PROVE  IsEntry(reflect(x, 8), reflect(crcTable[x], 16))
<1> DEFINE T0 == ShiftLeft(x, 8)
           T1 == Divide(T0)
           T2 == Divide(T1)
           T3 == Divide(T2)
           T4 == Divide(T3)
           T5 == Divide(T4)
           T6 == Divide(T5)
           T7 == Divide(T6)
           T8 == Divide(T7)
<1>1. crcTable[x] = T8
  BY DEF crcTable, DivideByte, Octet
<1>2. T0 \in Word
  BY OctetIsWord, ShiftTypes
<1>3. T1 \in Word /\ T2 \in Word /\ T3 \in Word /\ T4 \in Word
      /\ T5 \in Word /\ T6 \in Word /\ T7 \in Word /\ T8 \in Word
  BY <1>2, DivideType
<1>4. /\ 8 \in T0 <=> 0 \in x
      /\ 9 \in T0 <=> 1 \in x
      /\ 10 \in T0 <=> 2 \in x
      /\ 11 \in T0 <=> 3 \in x
      /\ 12 \in T0 <=> 4 \in x
      /\ 13 \in T0 <=> 5 \in x
      /\ 14 \in T0 <=> 6 \in x
      /\ 15 \in T0 <=> 7 \in x
      /\ 0 \notin T0 /\ 1 \notin T0 /\ 2 \notin T0 /\ 3 \notin T0
      /\ 4 \notin T0 /\ 5 \notin T0 /\ 6 \notin T0 /\ 7 \notin T0
  <2>1. x \in Word
    BY OctetIsWord
  <2>2. ASSUME NEW b \in 0 .. 15, NEW c \in -8 .. 7, c = b - 8 PROVE b \in T0 <=> c \in x
    BY <2>1, <2>2, InShiftLeft
  <2>3. \A c \in -8 .. -1 : c \notin x
    BY DEF Octet
  <2> HIDE DEF T0
  <2>4. QED BY <2>2, <2>3
<1>5. /\ IsDivided(T0, T1) /\ IsDivided(T1, T2) /\ IsDivided(T2, T3) /\ IsDivided(T3, T4)
      /\ IsDivided(T4, T5) /\ IsDivided(T5, T6) /\ IsDivided(T6, T7) /\ IsDivided(T7, T8)
  BY <1>2, <1>3, DivideBits
<1>6. PICK y, t : y = reflect(x, 8) /\ t = reflect(T8, 16)
  OBVIOUS
<1>7. /\ (0 \in y <=> 7 \in x) /\ (1 \in y <=> 6 \in x) /\ (2 \in y <=> 5 \in x) /\ (3 \in y <=> 4 \in x)
      /\ (4 \in y <=> 3 \in x) /\ (5 \in y <=> 2 \in x) /\ (6 \in y <=> 1 \in x) /\ (7 \in y <=> 0 \in x)
  BY <1>6, InReflect
<1>8. /\ t \in Word
      /\ (0 \in t <=> 15 \in T8) /\ (1 \in t <=> 14 \in T8) /\ (2 \in t <=> 13 \in T8) /\ (3 \in t <=> 12 \in T8)
      /\ (4 \in t <=> 11 \in T8) /\ (5 \in t <=> 10 \in T8) /\ (6 \in t <=> 9 \in T8) /\ (7 \in t <=> 8 \in T8)
      /\ (8 \in t <=> 7 \in T8) /\ (9 \in t <=> 6 \in T8) /\ (10 \in t <=> 5 \in T8) /\ (11 \in t <=> 4 \in T8)
      /\ (12 \in t <=> 3 \in T8) /\ (13 \in t <=> 2 \in T8) /\ (14 \in t <=> 1 \in T8) /\ (15 \in t <=> 0 \in T8)
  BY <1>3, <1>6, InReflect, ReflectType
<1> HIDE DEF T0, T1, T2, T3, T4, T5, T6, T7, T8
<1>9. IsEntry(y, t)
  BY <1>4, <1>5, <1>7, <1>8 DEF IsDivided, IsEntry, OddOnes
<1>10. QED BY <1>1, <1>6, <1>9

(* The two tables are reflections of each other. *)
LEMMA TablesAgree ==
  ASSUME NEW x \in Octet
  PROVE  crc_tableBits[reflect(x, 8)] = reflect(crcTable[x], 16)
<1>1. reflect(x, 8) \in Octet
  BY ReflectType
<1>2. QED BY <1>1, TypedEntries, ComputedEntries, EntryUnique

(***************************************************************************)
(* A turn of crc_16 does to the reflected remainder what a turn of crcFast *)
(* does to the remainder, so that the two ways agree (crc.c:190-208,       *)
(* adv2uart.py:62-69).                                                     *)
(***************************************************************************)
THEOREM WaysAgree ==
  ASSUME NEW x \in Word, NEW byte \in Octet
  PROVE  crc_16(Result(x), byte) = Result(crcFast(x, byte))
<1> DEFINE i == Xor(reflect(byte, 8), ShiftRight(x, 8))
<1>1. /\ reflect(byte, 8) \in Octet /\ ShiftRight(x, 8) \in Octet /\ i \in Octet
      /\ Result(x) \in Word /\ byte \in Word /\ Low(Xor(Result(x), byte)) \in Octet
      /\ ShiftLeft(x, 8) \in Word
  BY ReflectType, ShiftTypes, XorType, OctetIsWord DEF Result
<1>2. Low(Xor(Result(x), byte)) = reflect(i, 8)
  <2>1. ASSUME NEW b PROVE b \in Low(Xor(Result(x), byte)) <=> b \in reflect(i, 8)
    <3>1. CASE b \in 0 .. 7
      <4>1. PICK c \in 0 .. 7 : c = 7 - b
        BY <3>1
      <4>2. b \in Low(Xor(Result(x), byte)) <=> (b \in Result(x) <=> b \notin byte)
        BY <3>1, InXor DEF Low
      <4>3. b \in Result(x) <=> 15 - b \in x
        BY <3>1, InReflect DEF Result
      <4>4. b \in reflect(i, 8) <=> c \in i
        BY <1>1, <3>1, <4>1, InReflect
      <4>5. c \in i <=> (c \in reflect(byte, 8) <=> c \notin ShiftRight(x, 8))
        BY InXor
      <4>6. c \in reflect(byte, 8) <=> b \in byte
        BY <4>1, <3>1, InReflect, 7 - c = b
      <4>7. c \in ShiftRight(x, 8) <=> 15 - b \in x
        BY <4>1, <3>1, InShiftRight, c + 8 = 15 - b
      <4>8. QED BY <4>2, <4>3, <4>4, <4>5, <4>6, <4>7
    <3>2. CASE b \notin 0 .. 7
      BY <1>1, <3>2, InReflect DEF Low
    <3>3. QED BY <3>1, <3>2
  <2>2. QED BY <2>1
<1>3. ShiftRight(Result(x), 8) = reflect(ShiftLeft(x, 8), 16)
  <2>1. ASSUME NEW b PROVE b \in ShiftRight(Result(x), 8) <=> b \in reflect(ShiftLeft(x, 8), 16)
    <3>1. CASE b \in 0 .. 15
      <4>1. PICK c \in 8 .. 23 : c = b + 8
        BY <3>1
      <4>2. PICK d \in 0 .. 15 : d = 15 - b
        BY <3>1
      <4>3. b \in ShiftRight(Result(x), 8) <=> b \in 0 .. 7 /\ c \in Result(x)
        BY <1>1, <4>1, InShiftRight
      <4>4. c \in Result(x) <=> c \in 0 .. 15 /\ 15 - c \in x
        BY InReflect DEF Result
      <4>5. b \in reflect(ShiftLeft(x, 8), 16) <=> d \in ShiftLeft(x, 8)
        BY <1>1, <3>1, <4>2, InReflect
      <4>6. d \in ShiftLeft(x, 8) <=> d - 8 \in x
        BY InShiftLeft
      <4>7. d - 8 = 15 - c /\ (d - 8 \in x => d - 8 \in 0 .. 15)
        BY <3>1, <4>1, <4>2 DEF Word
      <4>8. c \in 0 .. 15 <=> b \in 0 .. 7
        BY <3>1, <4>1
      <4>9. d - 8 \in 0 .. 15 => b \in 0 .. 7
        BY <3>1, <4>2
      <4>10. QED BY <4>3, <4>4, <4>5, <4>6, <4>7, <4>8, <4>9
    <3>2. CASE b \notin 0 .. 15
      BY <1>1, <3>2, InReflect, InShiftRight
    <3>3. QED BY <3>1, <3>2
  <2>2. QED BY <2>1
<1>4. crcTable[i] \in Word
  BY <1>1, OctetIsWord, ShiftTypes, DivideByteType DEF crcTable, Octet
<1>5. crc_16(Result(x), byte) = Xor(reflect(ShiftLeft(x, 8), 16), reflect(crcTable[i], 16))
  <2>1. crc_tableBits[Low(Xor(Result(x), byte))] = reflect(crcTable[i], 16)
    BY <1>1, <1>2, TablesAgree
  <2>2. QED BY <1>3, <2>1 DEF crc_16
<1>6. Result(crcFast(x, byte)) = Xor(reflect(crcTable[i], 16), reflect(ShiftLeft(x, 8), 16))
  BY <1>1, <1>4, ReflectLinear DEF Result, crcFast
<1>7. QED BY <1>5, <1>6, XorLaws

-----------------------------------------------------------------------------
(***************************************************************************)
(* The line.  Error is what noise has added to the receiver's remainder;   *)
(* it is divided on as if it were a remainder of its own.  The first bit   *)
(* changed leads it (Leading) until 16 bits have come behind it, and it is *)
(* not 0 after that either since a division never makes it 0; and no bit   *)
(* is changed any more that could.                                         *)
(***************************************************************************)

(* The remainder of the bytes as they were sent. *)
Clean ==
  IF pos <= DataLen THEN remainder
  ELSE IF pos = DataLen + 1 THEN ShiftLeft(remainder, 8) ELSE {}

Error == Xor(received, Clean)

CrcType ==
  /\ remainder \in Word /\ received \in Word
  /\ pos \in 0 .. DataLen + 2
  /\ first \in Int

ErrorInv ==
  /\ first = -1 => Error = {}
  /\ first # -1 => /\ first \in 0 .. 8 * pos - 1
                   /\ Error # {}
                   /\ 8 * pos - first <= 16 => Leading(Error, 8 * pos - first + 15)

CrcInv == CrcType /\ crc = Result(received) /\ ErrorInv

(* Bit b of the byte is bit 15 - b of what it adds to the remainder. *)
LEMMA InAdded ==
  ASSUME NEW e \in Octet, NEW c
  PROVE  /\ ShiftLeft(reflect(e, 8), 8) \in Word
         /\ c \in ShiftLeft(reflect(e, 8), 8) <=> c \in 8 .. 15 /\ 15 - c \in e
<1>1. reflect(e, 8) \in Octet /\ reflect(e, 8) \in Word
  BY ReflectType, OctetIsWord
<1>2. c \in ShiftLeft(reflect(e, 8), 8) <=> c \in 0 .. 15 /\ c - 8 \in reflect(e, 8)
  BY <1>1, InShiftLeft
<1>3. CASE c \in 0 .. 15
  <2>1. PICK d \in -8 .. 7 : d = c - 8
    BY <1>3
  <2>2. d \in reflect(e, 8) <=> d \in 0 .. 7 /\ 7 - d \in e
    BY InReflect
  <2>3. 7 - d = 15 - c /\ (d \in 0 .. 7 <=> c \in 8 .. 15)
    BY <1>3, <2>1
  <2>4. QED BY <1>1, <1>2, <1>3, <2>1, <2>2, <2>3, ShiftTypes
<1>4. CASE c \notin 0 .. 15
  BY <1>1, <1>2, <1>4, ShiftTypes
<1>5. QED BY <1>3, <1>4

LEMMA LeastBit ==
  ASSUME NEW e \in Octet, e # {}
  PROVE  \E i \in e : \A c \in e : i <= c
<1> DEFINE Least(i) == i \in e /\ \A c \in e : i <= c
<1>1. ASSUME NEW i \in 0 .. 7, i \in e, \A c \in 0 .. 7 : c < i => c \notin e
      PROVE  Least(i)
  BY <1>1 DEF Octet
<1>2. PICK k \in 0 .. 7 : k \in e
  BY DEF Octet
<1> HIDE DEF Least
<1>3. \E i \in 0 .. 7 : i \in e /\ \A c \in 0 .. 7 : c < i => c \notin e
  BY <1>2
<1>4. PICK i : Least(i)
  BY <1>1, <1>3
<1>5. QED BY <1>4 DEF Least

(* The first byte that is changed, in bit i and not before. *)
LEMMA NoiseStarts ==
  ASSUME NEW e \in Octet, NEW i \in e, \A c \in e : i <= c
  PROVE  crcFast({}, e) # {} /\ Leading(crcFast({}, e), (8 - i) + 15)
<1> DEFINE t == ShiftLeft(reflect(e, 8), 8)
<1>1. t \in Word /\ i \in 0 .. 7
  BY InAdded DEF Octet
<1>2. crcFast({}, e) = DivideByte(t)
  BY FastIsSlow, OctetIsWord, XorLaws DEF crcSlow
<1>3. PICK m \in 8 .. 15 : m = 15 - i
  BY <1>1
<1>4. m \in t
  BY <1>1, <1>3, InAdded, 15 - m = i
<1>5. ASSUME NEW b \in t PROVE b <= m
  <2>1. b \in 8 .. 15 /\ 15 - b \in e
    BY InAdded
  <2>2. QED BY <1>1, <1>3, <2>1
<1> HIDE DEF t
<1>6. Leading(t, m)
  BY <1>4, <1>5 DEF Leading
<1>7. Leading(DivideByte(t), m + 8) /\ DivideByte(t) # {}
  BY <1>1, <1>4, <1>6, LeadingMovesByte, DivideByteNotZero
<1>8. m + 8 = (8 - i) + 15
  BY <1>1, <1>3
<1>9. QED BY <1>2, <1>7, <1>8

(* A byte after n bits behind the first one changed: what it adds cannot   *)
(* cancel the bit by which E is not 0.                                     *)
LEMMA NoiseGoesOn ==
  ASSUME NEW E \in Word, E # {}, NEW n \in Nat, n >= 1,
         n <= 16 => Leading(E, n + 15),
         NEW e \in Octet, \A b \in e : b < 16 - n
  PROVE  crcFast(E, e) # {} /\ (n + 8 <= 16 => Leading(crcFast(E, e), (n + 8) + 15))
<1> DEFINE a == ShiftLeft(reflect(e, 8), 8)
           t == Xor(E, a)
<1>1. a \in Word /\ t \in Word
  BY InAdded, XorType
<1>2. crcFast(E, e) = DivideByte(t)
  BY FastIsSlow DEF crcSlow
<1>3. ASSUME NEW c \in a PROVE c \in 8 .. 15 /\ c >= n
  <2>1. c \in 8 .. 15 /\ 15 - c \in e
    BY InAdded
  <2>2. 15 - c < 16 - n
    BY <2>1
  <2>3. QED BY <2>1, <2>2
<1> HIDE DEF a
<1>4. CASE n <= 16
  <2>1. PICK k \in E : k <= n - 1
    BY <1>4 DEF Leading
  <2>2. k \in t
    <3>1. k \notin a
      BY <1>3, <2>1 DEF Word
    <3>2. QED BY <2>1, <3>1, InXor
  <2> HIDE DEF t
  <2>3. PICK m \in Nat : m = n + 15
    OBVIOUS
  <2>4. Leading(t, m)
    BY <2>1, <2>2, <2>3 DEF Leading, Word
  <2>5. n + 8 <= 16 => Leading(DivideByte(t), m + 8)
    BY <1>1, <2>3, <2>4, LeadingMovesByte
  <2>6. m + 8 = (n + 8) + 15
    BY <2>3
  <2>7. QED BY <1>1, <1>2, <2>2, <2>5, <2>6, DivideByteNotZero
<1>5. CASE n > 16
  <2>1. a = {}
    BY <1>3, <1>5
  <2>2. t = E
    BY <2>1, XorLaws
  <2>3. QED BY <1>1, <1>2, <1>5, <2>2, DivideByteNotZero
<1>6. QED BY <1>4, <1>5

(* A byte on the line: what the sender has in mind moves on by the byte,   *)
(* what the receiver has by the byte and the noise.                        *)
LEMMA LineKeepsInv ==
  ASSUME CrcInv, NEW byte \in Octet, OnTheLine(byte),
         pos < DataLen + 2, remainder' \in Word,
         Clean \in Word, Clean' = crcFast(Clean, byte)
  PROVE  CrcInv'
<1>1. PICK e \in SUBSET (0 .. 7) :
        /\ Damage(e)
        /\ received' = crcFast(received, Xor(byte, e))
        /\ crc' = crc_16(crc, Xor(byte, e))
        /\ pos' = pos + 1
  BY DEF OnTheLine
<1>2. /\ e \in Octet /\ Xor(byte, e) \in Octet /\ received \in Word /\ Error \in Word
      /\ pos \in 0 .. DataLen + 2 /\ first \in Int /\ DataLen \in Nat /\ MaxBurst \in 0 .. 16
  BY XorType, CrcAssumption DEF CrcInv, CrcType, Octet, Error
<1>3. received' \in Word /\ crc' = Result(received')
  BY <1>1, <1>2, FastType, WaysAgree DEF CrcInv
<1>4. Error' = crcFast(Error, e)
  <2>1. received = Xor(Clean, Error)
    BY <1>2, XorLaws DEF Error
  <2>2. received' = Xor(crcFast(Clean, byte), crcFast(Error, e))
    BY <1>1, <1>2, <2>1, FastLinear
  <2>3. QED BY <2>2, XorLaws DEF Error
<1>5. CASE first = -1 /\ e = {}
  <2>1. first' = -1
    BY <1>1, <1>5 DEF Damage
  <2>2. Error = {} /\ {} \in Word
    BY <1>5, OctetIsWord DEF CrcInv, ErrorInv
  <2>3. Error' = {}
    <3>1. crcFast(Xor({}, {}), Xor({}, {})) = Xor(crcFast({}, {}), crcFast({}, {}))
      BY <2>2, OctetIsWord, FastLinear
    <3>2. QED BY <1>4, <1>5, <2>2, <3>1, XorLaws
  <2>4. QED BY <1>1, <1>2, <1>3, <2>1, <2>3 DEF CrcInv, CrcType, ErrorInv
<1>6. CASE first = -1 /\ e # {}
  <2>1. PICK i \in e : (\A c \in e : i <= c) /\ first' = 8 * pos + i
    <3>1. \E i \in e : \A c \in e : i <= c
      BY <1>2, <1>6, LeastBit
    <3>2. QED BY <1>1, <1>6, <3>1 DEF Damage
  <2>2. Error = {} /\ i \in 0 .. 7
    BY <1>2, <1>6, <2>1 DEF CrcInv, ErrorInv, Octet
  <2>3. Error' # {} /\ Leading(Error', (8 - i) + 15)
    BY <1>2, <1>4, <2>1, <2>2, NoiseStarts
  <2>4. 8 * pos' - first' = 8 - i /\ first' \in 0 .. 8 * pos' - 1 /\ first' # -1
    BY <1>1, <1>2, <2>1, <2>2
  <2>5. CrcType'
    BY <1>1, <1>2, <1>3, <2>4 DEF CrcType
  <2>6. ErrorInv'
    BY <2>3, <2>4 DEF ErrorInv
  <2>7. QED BY <1>3, <2>5, <2>6 DEF CrcInv
<1>7. CASE first # -1
  <2>1. first' = first /\ \A b \in e : 8 * pos + b < first + MaxBurst
    BY <1>1, <1>7 DEF Damage
  <2>2. PICK n \in Nat : n = 8 * pos - first /\ n >= 1
    <3>1. first \in 0 .. 8 * pos - 1
      BY <1>7 DEF CrcInv, ErrorInv
    <3>2. 8 * pos - first \in Nat /\ 8 * pos - first >= 1
      BY <1>2, <3>1
    <3>3. QED BY <3>2
  <2>3. \A b \in e : b < 16 - n
    BY <1>2, <2>1, <2>2
  <2>4. Error # {} /\ (n <= 16 => Leading(Error, n + 15))
    BY <1>7, <2>2 DEF CrcInv, ErrorInv
  <2>5. Error' # {} /\ (n + 8 <= 16 => Leading(Error', (n + 8) + 15))
    BY <1>2, <1>4, <2>2, <2>3, <2>4, NoiseGoesOn
  <2>6. 8 * pos' - first' = n + 8 /\ first' \in 0 .. 8 * pos' - 1
    <3>1. first \in 0 .. 8 * pos - 1
      BY <1>7 DEF CrcInv, ErrorInv
    <3>2. QED BY <1>1, <1>2, <2>1, <2>2, <3>1
  <2>7. QED BY <1>1, <1>2, <1>3, <2>1, <2>5, <2>6 DEF CrcInv, CrcType, ErrorInv
<1>8. QED BY <1>5, <1>6, <1>7

(* The sender's remainder after each byte. *)
LEMMA SendDataKeepsInv ==
  ASSUME CrcInv, SendData
  PROVE  CrcInv'
<1>1. PICK v \in Payload : OnTheLine(Bits(v)) /\ remainder' = crcFast(remainder, Bits(v))
  BY DEF SendData
<1>2. v \in 0 .. 255 /\ DataLen \in Nat /\ pos \in 0 .. DataLen + 2 /\ pos < DataLen
      /\ remainder \in Word
  BY CrcAssumption DEF CrcInv, CrcType, SendData
<1>3. Bits(v) \in Octet
  BY <1>2, ByteBits
<1>4. pos' = pos + 1
  BY <1>1 DEF OnTheLine
<1>5. Clean = remainder /\ Clean' = remainder'
  BY <1>2, <1>4 DEF Clean
<1>6. remainder' \in Word
  BY <1>1, <1>2, <1>3, FastType
<1>7. QED BY <1>1, <1>2, <1>3, <1>5, <1>6, LineKeepsInv

LEMMA SendCrcKeepsInv ==
  ASSUME CrcInv, SendCrc
  PROVE  CrcInv'
<1> DEFINE byte == IF pos = DataLen THEN Low(Result(remainder)) ELSE ShiftRight(Result(remainder), 8)
<1>1. /\ remainder \in Word /\ remainder' = remainder /\ OnTheLine(byte)
      /\ pos \in {DataLen, DataLen + 1} /\ DataLen \in Nat
  BY CrcAssumption DEF CrcInv, CrcType, SendCrc
<1>2. Result(remainder) \in Word /\ ShiftLeft(remainder, 8) \in Word
  BY <1>1, ReflectType, ShiftTypes DEF Result
<1>3. byte \in Octet
  BY <1>2, ShiftTypes
<1>4. pos' = pos + 1
  BY <1>1 DEF OnTheLine
<1>5. Clean \in Word /\ Clean' = crcFast(Clean, byte)
  <2>1. CASE pos = DataLen
    <3>1. Clean = remainder /\ Clean' = ShiftLeft(remainder, 8)
      BY <1>1, <1>4, <2>1 DEF Clean
    <3>2. QED BY <1>1, <2>1, <3>1, OwnCrcCancels
  <2>2. CASE pos = DataLen + 1
    <3>1. Clean = ShiftLeft(remainder, 8) /\ Clean' = {}
      BY <1>1, <1>4, <2>2 DEF Clean
    <3>2. byte = ShiftRight(Result(remainder), 8)
      BY <1>1, <2>2
    <3>3. QED BY <1>1, <1>2, <3>1, <3>2, OwnCrcCancels
  <2>3. QED BY <1>1, <2>1, <2>2
<1> HIDE DEF byte
<1>6. QED BY <1>1, <1>3, <1>5, LineKeepsInv

(* The start of a frame. *)
LEMMA AllOnes == 0 .. 15 \in Word /\ Result(0 .. 15) = 0 .. 15 /\ Xor(0 .. 15, 0 .. 15) = {}
<1>1. 0 .. 15 \in Word
  BY DEF Word
<1>2. ASSUME NEW b PROVE b \in Result(0 .. 15) <=> b \in 0 .. 15
  BY <1>1, InReflect DEF Result
<1>3. QED BY <1>1, <1>2, XorLaws

LEMMA CrcInvariant == LineSpec => []CrcInv
<1>1. DataLen \in Nat
  BY CrcAssumption
<1>2. LineInit => CrcInv
  BY <1>1, AllOnes, Polynomial
     DEF LineInit, INITIAL_REMAINDER, CrcInv, CrcType, ErrorInv, Error, Clean
<1>3. CrcInv /\ [LineNext]_lineVars => CrcInv'
  <2> SUFFICES ASSUME CrcInv, [LineNext]_lineVars PROVE CrcInv'
    OBVIOUS
  <2>1. CASE SendData
    BY <2>1, SendDataKeepsInv
  <2>2. CASE SendCrc
    BY <2>2, SendCrcKeepsInv
  <2>3. CASE NextFrame
    BY <1>1, <2>3, AllOnes, Polynomial
       DEF NextFrame, INITIAL_REMAINDER, CrcInv, CrcType, ErrorInv, Error, Clean
  <2>4. CASE UNCHANGED lineVars
    BY <2>4 DEF lineVars, CrcInv, CrcType, ErrorInv, Error, Clean
  <2>5. QED BY <2>1, <2>2, <2>3, <2>4 DEF LineNext
<1>4. QED BY <1>2, <1>3, PTL DEF LineSpec

(* A step of another part is no step of the line. *)
LEMMA PartsLine == PartsSpec => LineSpec
<1>1. PartsInit => LineInit
  BY DEF PartsInit
<1>2. [PartsNext]_allVars => [LineNext]_lineVars
  BY DEF PartsNext, allVars
<1>3. QED BY <1>1, <1>2, PTL DEF PartsSpec, LineSpec

(***************************************************************************)
(* The two ways agree on every sequence of bytes; a frame that arrives as  *)
(* it was sent gives 0, and a frame with a burst of noise of up to 16 bits *)
(* in it never does (crc.c:142-208, adv2uart.py:27-69, 279,                *)
(* scanning.c:234-238, 285).                                               *)
(***************************************************************************)
THEOREM FramesAreProtected == PartsSpec => []ChecksumsProtect
<1>1. CrcInv => ChecksumsProtect
  <2> SUFFICES ASSUME CrcInv PROVE ChecksumsProtect
    OBVIOUS
  <2>1. crc = Result(received) /\ received \in Word
    BY DEF CrcInv, CrcType
  <2>2. CASE pos = DataLen + 2
    <3>1. Clean = {}
      BY <2>2, CrcAssumption DEF Clean
    <3>2. Error = received
      BY <3>1, XorLaws DEF Error
    <3>3. crc = {} <=> received = {}
      BY <2>1 DEF Result, reflect
    <3>4. QED BY <2>1, <3>2, <3>3 DEF ChecksumsProtect, CrcInv, ErrorInv
  <2>3. CASE pos # DataLen + 2
    BY <2>1, <2>3 DEF ChecksumsProtect
  <2>4. QED BY <2>2, <2>3
<1>2. QED BY <1>1, CrcInvariant, PartsLine, PTL
=============================================================================
