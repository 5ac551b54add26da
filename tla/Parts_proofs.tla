---------------------------- MODULE Parts_proofs ----------------------------
(***************************************************************************)
(* Proofs about the parts that hold state of their own, one section each,  *)
(* for every value of their constants; the last section carries the        *)
(* results over to PartsSpec, where the parts run side by side.            *)
(***************************************************************************)
EXTENDS MCParts, SequenceTheorems, TLAPS

-----------------------------------------------------------------------------
(***************************************************************************)
(* The frame FIFO, for every power of two Num up to 128 and every set of   *)
(* frames. The arithmetic is isolated in lemmas about the two counters;    *)
(* each is proved by going through the values of Num, because the solver   *)
(* decides % only for literal divisors.                                    *)
(***************************************************************************)

(* A counter addresses an existing slot. *)
LEMMA SlotInRange ==
  ASSUME NEW p \in Nat
  PROVE  SlotOf(p) \in Slots
<1>1. CASE Num = 1   BY <1>1 DEF SlotOf, Slots
<1>2. CASE Num = 2   BY <1>2 DEF SlotOf, Slots
<1>3. CASE Num = 4   BY <1>3 DEF SlotOf, Slots
<1>4. CASE Num = 8   BY <1>4 DEF SlotOf, Slots
<1>5. CASE Num = 16  BY <1>5 DEF SlotOf, Slots
<1>6. CASE Num = 32  BY <1>6 DEF SlotOf, Slots
<1>7. CASE Num = 64  BY <1>7 DEF SlotOf, Slots
<1>8. CASE Num = 128 BY <1>8 DEF SlotOf, Slots
<1>9. QED BY <1>1, <1>2, <1>3, <1>4, <1>5, <1>6, <1>7, <1>8, NumAssumption

(* Positions less than Num apart never share a slot. *)
LEMMA SlotInjective ==
  ASSUME NEW p \in Nat, NEW q \in Nat, p < q, q < p + Num
  PROVE  SlotOf(p) # SlotOf(q)
<1>1. CASE Num = 1   BY <1>1 DEF SlotOf
<1>2. CASE Num = 2   BY <1>2 DEF SlotOf
<1>3. CASE Num = 4   BY <1>3 DEF SlotOf
<1>4. CASE Num = 8   BY <1>4 DEF SlotOf
<1>5. CASE Num = 16  BY <1>5 DEF SlotOf
<1>6. CASE Num = 32  BY <1>6 DEF SlotOf
<1>7. CASE Num = 64  BY <1>7 DEF SlotOf
<1>8. CASE Num = 128 BY <1>8 DEF SlotOf
<1>9. QED BY <1>1, <1>2, <1>3, <1>4, <1>5, <1>6, <1>7, <1>8, NumAssumption

(* Reducing a counter modulo 256 does not change the slot: Num divides 256. *)
LEMMA SlotOfWrapped ==
  ASSUME NEW p \in Nat
  PROVE  SlotOf(p % U8) = SlotOf(p)
<1>1. CASE Num = 1   BY <1>1 DEF SlotOf, U8
<1>2. CASE Num = 2   BY <1>2 DEF SlotOf, U8
<1>3. CASE Num = 4   BY <1>3 DEF SlotOf, U8
<1>4. CASE Num = 8   BY <1>4 DEF SlotOf, U8
<1>5. CASE Num = 16  BY <1>5 DEF SlotOf, U8
<1>6. CASE Num = 32  BY <1>6 DEF SlotOf, U8
<1>7. CASE Num = 64  BY <1>7 DEF SlotOf, U8
<1>8. CASE Num = 128 BY <1>8 DEF SlotOf, U8
<1>9. QED BY <1>1, <1>2, <1>3, <1>4, <1>5, <1>6, <1>7, <1>8, NumAssumption

(* The write counter stands Occupancy frames after the read counter. *)
LEMMA OccupancyFacts ==
  ASSUME wptr \in 0 .. (U8 - 1), rptr \in 0 .. (U8 - 1)
  PROVE  /\ Occupancy \in 0 .. (U8 - 1)
         /\ wptr = (rptr + Occupancy) % U8
         /\ rptr = wptr <=> Occupancy = 0
BY DEF Occupancy, U8

(* Publishing a frame adds one to the occupancy while there is room. *)
LEMMA OccupancyAfterNext ==
  ASSUME wptr \in 0 .. (U8 - 1), rptr \in 0 .. (U8 - 1), Occupancy < Num
  PROVE  /\ Next_u8(wptr) \in 0 .. (U8 - 1)
         /\ (Next_u8(wptr) - rptr) % U8 = Occupancy + 1
<1>1. Num \in 1 .. 128
  BY NumAssumption
<1>2. wptr \in 0 .. 255 /\ rptr \in 0 .. 255
  BY DEF U8
<1>3. Next_u8(wptr) = IF wptr = 255 THEN 0 ELSE wptr + 1
  BY <1>2 DEF Next_u8, U8
<1>4. Occupancy = IF wptr >= rptr THEN wptr - rptr ELSE wptr - rptr + 256
  BY <1>2 DEF Occupancy, U8
<1>5. (wptr >= rptr => wptr - rptr < 128) /\ (wptr < rptr => wptr - rptr + 256 < 128)
  BY <1>1, <1>2, <1>4
<1>6. CASE wptr = 255
  BY <1>2, <1>3, <1>4, <1>5, <1>6 DEF U8
<1>7. CASE wptr # 255 /\ wptr >= rptr
  BY <1>2, <1>3, <1>4, <1>5, <1>7 DEF U8
<1>8. CASE wptr # 255 /\ wptr < rptr
  BY <1>2, <1>3, <1>4, <1>5, <1>8 DEF U8
<1>9. QED
  BY <1>2, <1>6, <1>7, <1>8

(* Popping a frame takes one off it unless the FIFO is empty. *)
LEMMA OccupancyAfterPop ==
  ASSUME wptr \in 0 .. (U8 - 1), rptr \in 0 .. (U8 - 1), rptr # wptr
  PROVE  /\ Next_u8(rptr) \in 0 .. (U8 - 1)
         /\ (wptr - Next_u8(rptr)) % U8 = Occupancy - 1
         /\ Occupancy >= 1
BY DEF Occupancy, U8, Next_u8

-----------------------------------------------------------------------------
(* The inductive invariant: the counters, the array and what is queued.    *)
FifoInv == TypeOK /\ QueuedSlotsIntact

LEMMA InitFifoInv == MYFIFO_INIT => FifoInv
<1> SUFFICES ASSUME MYFIFO_INIT PROVE FifoInv
  OBVIOUS
<1>1. Num \in 1 .. 128
  BY NumAssumption
<1>2. Occupancy = 0
  BY DEF MYFIFO_INIT, Occupancy, U8
<1>3. TypeOK
  BY DEF MYFIFO_INIT, TypeOK, U8
<1>4. QED
  BY <1>1, <1>2, <1>3 DEF FifoInv, QueuedSlotsIntact

(* The steps of the FIFO on the frames queued behind the read counter.     *)
LEMMA NextKeepsQueued ==
  ASSUME FifoInv, NEW f \in Frame, my_fifo_next(f)
  PROVE  /\ Occupancy' = Occupancy + 1
         /\ \A i \in 1 .. (Occupancy + 1) :
               Queued(i)' = IF i = Occupancy + 1 THEN f ELSE Queued(i)
         /\ TypeOK'
<1>1. /\ Num \in 1 .. 128
      /\ wptr \in 0 .. (U8 - 1) /\ rptr \in 0 .. (U8 - 1)
      /\ slot \in [Slots -> Frame \cup {NoFrame}]
      /\ wptr \in Nat /\ rptr \in Nat
  BY NumAssumption DEF FifoInv, TypeOK, U8
<1>2. /\ Occupancy \in 0 .. (U8 - 1) /\ Occupancy \in Nat
      /\ wptr = (rptr + Occupancy) % U8
  BY <1>1, OccupancyFacts DEF U8
<1>3. Next_u8(wptr) \in 0 .. (U8 - 1) /\ Occupancy' = Occupancy + 1
  <2>1. wptr' = Next_u8(wptr) /\ rptr' = rptr /\ Occupancy < Num
    BY DEF my_fifo_next, HasRoom
  <2>2. Occupancy' = (wptr' - rptr') % U8
    BY DEF Occupancy
  <2>3. QED
    BY <1>1, <2>1, <2>2, OccupancyAfterNext
<1>4. SlotOf(wptr) \in Slots
  BY <1>1, SlotInRange
<1>5. SlotOf(wptr) = SlotOf(rptr + Occupancy)
  BY <1>1, <1>2, SlotOfWrapped
<1>6. slot'[SlotOf(wptr)] = f /\ \A s \in Slots : s # SlotOf(wptr) => slot'[s] = slot[s]
  BY <1>1, <1>4 DEF my_fifo_next
<1>7. ASSUME NEW i \in 1 .. (Occupancy + 1)
      PROVE  Queued(i)' = IF i = Occupancy + 1 THEN f ELSE Queued(i)
  <2>1. Queued(i)' = slot'[SlotOf(rptr + i - 1)]
    BY DEF Queued, SlotOf, my_fifo_next
  <2>2. CASE i = Occupancy + 1
    <3>1. rptr + i - 1 = rptr + Occupancy
      BY <2>2, <1>1, <1>2
    <3>2. QED
      BY <2>1, <2>2, <3>1, <1>5, <1>6
  <2>3. CASE i # Occupancy + 1
    <3>1. /\ rptr + i - 1 \in Nat /\ rptr + Occupancy \in Nat
          /\ rptr + i - 1 < rptr + Occupancy
          /\ rptr + Occupancy < rptr + i - 1 + Num
      BY <2>3, <1>1, <1>2 DEF my_fifo_next, HasRoom
    <3>2. SlotOf(rptr + i - 1) # SlotOf(wptr)
      BY <3>1, <1>5, SlotInjective
    <3>3. SlotOf(rptr + i - 1) \in Slots
      BY <3>1, SlotInRange
    <3>4. QED
      BY <2>1, <2>3, <3>2, <3>3, <1>6 DEF Queued
  <2>4. QED
    BY <2>2, <2>3
<1>9. TypeOK'
  BY <1>1, <1>3, <1>4 DEF my_fifo_next, TypeOK, FifoInv
<1>10. QED
  BY <1>3, <1>7, <1>9

LEMMA PopKeepsQueued ==
  ASSUME FifoInv, my_fifo_pop
  PROVE  /\ Occupancy >= 1
         /\ Occupancy' = Occupancy - 1
         /\ taken' = Queued(1)
         /\ \A i \in 1 .. (Occupancy - 1) : Queued(i)' = Queued(i + 1)
         /\ TypeOK'
<1>1. /\ wptr \in 0 .. (U8 - 1) /\ rptr \in 0 .. (U8 - 1)
      /\ wptr \in Nat /\ rptr \in Nat
      /\ Occupancy \in Nat
  BY OccupancyFacts DEF FifoInv, TypeOK, U8
<1>2. /\ Occupancy >= 1 /\ Occupancy' = Occupancy - 1
      /\ Next_u8(rptr) \in 0 .. (U8 - 1)
  <2>1. rptr' = Next_u8(rptr) /\ wptr' = wptr /\ rptr # wptr
    BY DEF my_fifo_pop
  <2>2. Occupancy' = (wptr' - rptr') % U8
    BY DEF Occupancy
  <2>3. QED
    BY <1>1, <2>1, <2>2, OccupancyAfterPop
<1>3. taken' = Queued(1)
  <2>1. rptr + 1 - 1 = rptr
    BY <1>1
  <2>2. QED
    BY <2>1 DEF my_fifo_pop, my_fifo_get, Queued
<1>4. \A i \in 1 .. (Occupancy - 1) : Queued(i)' = Queued(i + 1)
  <2> SUFFICES ASSUME NEW i \in 1 .. (Occupancy - 1)
               PROVE  slot[SlotOf(Next_u8(rptr) + i - 1)] = slot[SlotOf(rptr + (i + 1) - 1)]
    BY DEF Queued, SlotOf, my_fifo_pop
  <2>1. /\ rptr + 1 \in Nat /\ rptr + i \in Nat
        /\ Next_u8(rptr) + i - 1 \in Nat
        /\ (Next_u8(rptr) + i - 1) % U8 = (rptr + i) % U8
        /\ rptr + (i + 1) - 1 = rptr + i
    BY <1>1 DEF Next_u8, U8
  <2>2. SlotOf(Next_u8(rptr) + i - 1) = SlotOf(rptr + i)
    BY <2>1, SlotOfWrapped
  <2>3. QED
    BY <2>1, <2>2
<1>5. taken' \in Frame
  BY <1>1, <1>2, <1>3 DEF FifoInv, QueuedSlotsIntact
<1>6. TypeOK'
  BY <1>2, <1>5 DEF my_fifo_pop, TypeOK, FifoInv
<1>7. QED
  BY <1>2, <1>3, <1>4, <1>6

-----------------------------------------------------------------------------
(* Every step preserves the inductive invariant.                           *)
LEMMA FifoInvStep == FifoInv /\ [Next]_vars => FifoInv'
<1> SUFFICES ASSUME FifoInv, [Next]_vars PROVE FifoInv'
  OBVIOUS
<1>1. Occupancy \in Nat /\ Num \in 1 .. 128
  BY OccupancyFacts, NumAssumption DEF FifoInv, TypeOK, U8
<1>2. ASSUME NEW f \in Frame, my_fifo_next(f) PROVE FifoInv'
  <2>1. Occupancy' <= Num
    <3>1. Occupancy' = Occupancy + 1
      BY <1>2, NextKeepsQueued
    <3>2. Occupancy < Num
      BY <1>2 DEF my_fifo_next, HasRoom
    <3>3. QED
      BY <1>1, <3>1, <3>2
  <2>2. ASSUME NEW i \in 1 .. Occupancy' PROVE Queued(i)' \in Frame
    <3>1. i \in 1 .. (Occupancy + 1)
      BY <1>2, NextKeepsQueued
    <3>2. Queued(i)' = IF i = Occupancy + 1 THEN f ELSE Queued(i)
      BY <1>2, <3>1, NextKeepsQueued
    <3>3. QED
      BY <1>1, <1>2, <3>1, <3>2 DEF FifoInv, QueuedSlotsIntact
  <2>3. QED
    BY <1>2, <2>1, <2>2, NextKeepsQueued DEF FifoInv, QueuedSlotsIntact
<1>3. CASE my_fifo_pop
  <2>1. Occupancy' <= Num
    BY <1>1, <1>3, PopKeepsQueued DEF FifoInv, QueuedSlotsIntact
  <2>2. ASSUME NEW i \in 1 .. Occupancy' PROVE Queued(i)' \in Frame
    <3>1. i \in 1 .. (Occupancy - 1) /\ i + 1 \in 1 .. Occupancy
      BY <1>1, <1>3, PopKeepsQueued
    <3>2. QED
      BY <1>3, <3>1, PopKeepsQueued DEF FifoInv, QueuedSlotsIntact
  <2>3. QED
    BY <1>3, <2>1, <2>2, PopKeepsQueued DEF FifoInv, QueuedSlotsIntact
<1>4. CASE UNCHANGED vars
  BY <1>4 DEF vars, FifoInv, TypeOK, QueuedSlotsIntact, Occupancy, Queued, SlotOf
<1>5. QED
  BY <1>2, <1>3, <1>4 DEF Next

(***************************************************************************)
(* The counters stay bytes and the slots stay slots, for every Num.        *)
(***************************************************************************)
THEOREM FifoTypeCorrect == Spec => []TypeOK
<1>1. FifoInv => TypeOK
  BY DEF FifoInv
<1>2. QED
  BY <1>1, InitFifoInv, FifoInvStep, PTL DEF Spec

(***************************************************************************)
(* No queued frame is ever in danger: occupancy is at most Num however the *)
(* byte counters wrap, and every queued slot holds a published frame.      *)
(***************************************************************************)
THEOREM FifoKeepsQueuedFrames == Spec => []QueuedSlotsIntact
<1>1. FifoInv => QueuedSlotsIntact
  BY DEF FifoInv
<1>2. QED
  BY <1>1, InitFifoInv, FifoInvStep, PTL DEF Spec

-----------------------------------------------------------------------------
(* Refinement: publishing appends to the abstract queue, popping takes its *)
(* head.                                                                   *)
LEMMA InitRefines == MYFIFO_INIT => Abstract!Init
<1> SUFFICES ASSUME MYFIFO_INIT PROVE Abstract!Init
  OBVIOUS
<1>1. Occupancy = 0
  BY DEF MYFIFO_INIT, Occupancy, U8
<1>2. QueueOf = << >>
  BY <1>1 DEF QueueOf
<1>3. QED
  BY <1>2 DEF MYFIFO_INIT, Abstract!Init

LEMMA NextRefines ==
  ASSUME FifoInv, NEW f \in Frame, my_fifo_next(f)
  PROVE  Abstract!Put(f)
<1>1. Occupancy \in Nat /\ Num \in Nat /\ Occupancy < Num
  BY OccupancyFacts, NumAssumption DEF FifoInv, TypeOK, U8, my_fifo_next, HasRoom
<1>2. QueueOf \in Seq(Frame) /\ Len(QueueOf) = Occupancy
  BY <1>1 DEF QueueOf, FifoInv, QueuedSlotsIntact
<1>3. QueueOf' = [i \in 1 .. (Occupancy + 1) |-> IF i = Occupancy + 1 THEN f ELSE Queued(i)]
  BY NextKeepsQueued DEF QueueOf
<1>4. Append(QueueOf, f) = [i \in 1 .. (Occupancy + 1) |-> IF i = Occupancy + 1 THEN f ELSE Queued(i)]
  BY <1>1, <1>2 DEF QueueOf
<1>5. QED
  BY <1>1, <1>2, <1>3, <1>4 DEF Abstract!Put, my_fifo_next

LEMMA PopRefines ==
  ASSUME FifoInv, my_fifo_pop
  PROVE  Abstract!Take
<1>1. Occupancy \in Nat /\ Occupancy >= 1
  BY OccupancyFacts, PopKeepsQueued DEF FifoInv, TypeOK, U8
<1>2. QueueOf \in Seq(Frame) /\ Len(QueueOf) = Occupancy
  BY <1>1 DEF QueueOf, FifoInv, QueuedSlotsIntact
<1>3. QueueOf' = [i \in 1 .. (Occupancy - 1) |-> Queued(i + 1)]
  BY PopKeepsQueued DEF QueueOf
<1>4. Tail(QueueOf) = [i \in 1 .. (Occupancy - 1) |-> Queued(i + 1)]
  BY <1>1, <1>2 DEF QueueOf
<1>5. QueueOf # << >> /\ Head(QueueOf) = Queued(1)
  BY <1>1, <1>2 DEF QueueOf
<1>6. QED
  BY <1>3, <1>4, <1>5, PopKeepsQueued DEF Abstract!Take

(***************************************************************************)
(* my_fifo_t implements the bounded FIFO queue, for every power of two up  *)
(* to 128 slots and every set of frames.                                   *)
(***************************************************************************)
THEOREM FifoImplementsQueue == Spec => ImplementsQueue
<1>1. FifoInv /\ [Next]_vars => [Abstract!Next]_<<QueueOf, taken>>
  <2> SUFFICES ASSUME FifoInv, [Next]_vars
               PROVE  [Abstract!Next]_<<QueueOf, taken>>
    OBVIOUS
  <2>1. ASSUME NEW f \in Frame, my_fifo_next(f) PROVE Abstract!Next
    BY <2>1, NextRefines DEF Abstract!Next
  <2>2. CASE my_fifo_pop
    BY <2>2, PopRefines DEF Abstract!Next
  <2>3. CASE UNCHANGED vars
    BY <2>3 DEF vars, QueueOf, Occupancy, Queued, SlotOf
  <2>4. QED
    BY <2>1, <2>2, <2>3 DEF Next
<1>2. QED
  BY <1>1, InitRefines, InitFifoInv, FifoInvStep, PTL
     DEF Spec, ImplementsQueue, Abstract!Spec

-----------------------------------------------------------------------------
(***************************************************************************)
(* The ring of bytes implements ByteQueue, for every size of the ring and  *)
(* every width of its counters that the size divides, every set of bytes   *)
(* and every length of message and of read. The arithmetic comes first:    *)
(* the counters only enter through their remainders. The invariant says    *)
(* that the counters, although they wrap, are never more than RingSize     *)
(* apart.                                                                  *)
(***************************************************************************)

(* Quotient and remainder. *)
LEMMA DivMod ==
  ASSUME NEW x \in Int, NEW S \in Nat \ {0}
  PROVE  /\ x \div S \in Int /\ x % S \in Int
         /\ x = S * (x \div S) + (x % S)
         /\ 0 <= x % S /\ x % S < S
  BY SMT

(* There is only one remainder. *)
LEMMA ModUnique ==
  ASSUME NEW x \in Int, NEW S \in Nat \ {0}, NEW q \in Int, NEW r \in Int,
         x = S * q + r, 0 <= r, r < S
  PROVE  x % S = r
<1> DEFINE p == x \div S
<1> DEFINE t == x % S
<1>1. p \in Int /\ t \in Int /\ x = S * p + t /\ 0 <= t /\ t < S
  BY DivMod
<1> HIDE DEF p, t
<1>2. S * (p - q) = r - t
  BY <1>1, SMT
<1>3. CASE p - q >= 1
  <2>1. S * (p - q) >= S
    BY <1>1, <1>3, SMT
  <2> QED BY <1>1, <1>2, <2>1, SMT
<1>4. CASE p - q <= -1
  <2>1. S * (p - q) <= -S
    BY <1>1, <1>4, SMT
  <2> QED BY <1>1, <1>2, <2>1, SMT
<1>5. CASE p = q
  <2>1. t = r
   BY <1>1, <1>5, SMT
  <2> QED BY <2>1 DEF t
<1> QED BY <1>1, <1>3, <1>4, <1>5, SMT

(* Multiples of the divisor do not count. *)
LEMMA ModShift ==
  ASSUME NEW x \in Int, NEW S \in Nat \ {0}, NEW k \in Int
  PROVE  (x + S * k) % S = x % S
<1> DEFINE q == x \div S
<1> DEFINE r == x % S
<1>1. q \in Int /\ r \in Int /\ x = S * q + r /\ 0 <= r /\ r < S
  BY DivMod
<1> HIDE DEF q, r
<1>2. x + S * k = S * (q + k) + r
  BY <1>1, SMT
<1>3. (x + S * k) % S = r
  <2>1. x + S * k \in Int /\ q + k \in Int
    BY <1>1, SMT
  <2> QED BY <1>1, <1>2, <2>1, ModUnique
<1> QED BY <1>3 DEF r

(* A reduced number stays as it is. *)
LEMMA ModSmall ==
  ASSUME NEW S \in Nat \ {0}, NEW x \in 0 .. S - 1
  PROVE  x % S = x
  BY SMT

(* Adding to a reduced number reduces to the same as adding to the number. *)
LEMMA ModAdd ==
  ASSUME NEW x \in Int, NEW y \in Int, NEW S \in Nat \ {0}
  PROVE  ((x % S) + y) % S = (x + y) % S
<1> DEFINE q == x \div S
<1> DEFINE r == x % S
<1>1. q \in Int /\ r \in Int /\ x = S * q + r
  BY DivMod
<1> HIDE DEF q, r
<1>2. x + y = (r + y) + S * q
  BY <1>1, SMT
<1>3. r + y \in Int
  BY <1>1, SMT
<1>4. ((r + y) + S * q) % S = (r + y) % S
  BY <1>1, <1>3, ModShift
<1> QED BY <1>2, <1>4 DEF r

(* Reducing by a multiple first changes nothing. *)
LEMMA ModMod ==
  ASSUME NEW x \in Int, NEW S \in Nat \ {0}, NEW W \in Nat \ {0}, W % S = 0
  PROVE  (x % W) % S = x % S
<1> DEFINE q == x \div W
<1> DEFINE r == x % W
<1> DEFINE k == W \div S
<1>1. q \in Int /\ r \in Int /\ x = W * q + r
  BY DivMod
<1>2. k \in Int /\ W = S * k
  <2>1. k \in Int /\ W \in Int /\ W = S * k + (W % S)
    BY DivMod
  <2> HIDE DEF k
  <2> QED BY <2>1, SMT
<1> HIDE DEF q, r, k
<1>3. x = r + S * (k * q)
  BY <1>1, <1>2, SMT
<1>4. k * q \in Int
  BY <1>1, <1>2, SMT
<1>5. (r + S * (k * q)) % S = r % S
  BY <1>1, <1>4, ModShift
<1> QED BY <1>3, <1>5 DEF r

(* Numbers less than S apart are told apart by their remainders. *)
LEMMA ModEqual ==
  ASSUME NEW x \in Int, NEW y \in Int, NEW S \in Nat \ {0},
         x % S = y % S, x - y < S, y - x < S
  PROVE  x = y
<1> DEFINE p == x \div S
<1> DEFINE q == y \div S
<1> DEFINE r == x % S
<1>1. p \in Int /\ q \in Int /\ r \in Int /\ x = S * p + r /\ y = S * q + r
  BY DivMod
<1> HIDE DEF p, q, r
<1>2. x - y = S * (p - q)
  BY <1>1, SMT
<1>3. CASE p - q >= 1
  <2>1. S * (p - q) >= S
    BY <1>1, <1>3, SMT
  <2> QED BY <1>2, <2>1, SMT
<1>4. CASE p - q <= -1
  <2>1. S * (p - q) <= -S
    BY <1>1, <1>4, SMT
  <2> QED BY <1>2, <2>1, SMT
<1>5. CASE p = q
  BY <1>1, <1>5, SMT
<1> QED BY <1>1, <1>3, <1>4, <1>5, SMT

-----------------------------------------------------------------------------
Cell == Frame \cup {NoFrame}

(* The inductive invariant: the counters are at most Size apart. *)
RingInv ==
  /\ begin \in 0 .. U16 - 1 /\ end \in 0 .. U16 - 1
  /\ data \in [0 .. RingSize - 1 -> Cell]
  /\ Ring!fifo_length <= RingSize

(* The length is a number of bytes that the ring can hold. *)
LEMMA LengthType ==
  ASSUME Ring!AppFifoAssumption, RingInv
  PROVE  Ring!fifo_length \in 0 .. RingSize
<1>1. end - begin \in Int /\ U16 \in Nat \ {0}
  BY SMT DEF Ring!AppFifoAssumption, RingInv
<1>2. (end - begin) % U16 \in Int /\ 0 <= (end - begin) % U16
  BY <1>1, DivMod
<1>3. RingSize \in Nat
  BY DEF Ring!AppFifoAssumption
<1>4. QED BY <1>2, <1>3, SMT DEF Ring!fifo_length, RingInv

(* The free space that app_drv_fifo_write computes does not wrap. *)
LEMMA FreeSpace ==
  ASSUME Ring!AppFifoAssumption, RingInv
  PROVE  (RingSize - Ring!fifo_length) % U16 = RingSize - Ring!fifo_length
<1>1. Ring!fifo_length \in 0 .. RingSize
  BY LengthType
<1> HIDE DEF Ring!fifo_length
<1>2. RingSize - Ring!fifo_length \in 0 .. U16 - 1 /\ U16 \in Nat \ {0}
  BY <1>1, SMT DEF Ring!AppFifoAssumption
<1>3. QED BY <1>2, ModSmall

(* The slot of the byte at a distance behind the bytes in the ring. *)
LEMMA EndSlot ==
  ASSUME Ring!AppFifoAssumption, RingInv, NEW i \in Int
  PROVE  Ring!SlotOf(end + i) = Ring!SlotOf(begin + Ring!fifo_length + i)
<1> DEFINE L == Ring!fifo_length
<1> DEFINE d == end - begin
<1>1. d \in Int /\ L \in Int /\ begin \in Int /\ end \in Int
  BY LengthType, SMT DEF RingInv
<1>2. U16 \in Nat \ {0} /\ RingSize \in Nat \ {0} /\ U16 % RingSize = 0
  BY DEF Ring!AppFifoAssumption
<1>3. (d % U16) % RingSize = d % RingSize
  BY <1>1, <1>2, ModMod
<1>4. L % RingSize = d % RingSize
  BY <1>3 DEF Ring!fifo_length
<1> HIDE DEF L, d
<1>0. begin + i \in Int
  BY <1>1, SMT
<1>5. ((L % RingSize) + (begin + i)) % RingSize = (L + (begin + i)) % RingSize
  BY <1>0, <1>1, <1>2, ModAdd
<1>6. ((d % RingSize) + (begin + i)) % RingSize = (d + (begin + i)) % RingSize
  BY <1>0, <1>1, <1>2, ModAdd
<1>7. (L + (begin + i)) % RingSize = (d + (begin + i)) % RingSize
  BY <1>4, <1>5, <1>6
<1>8. d + (begin + i) = end + i
  BY <1>1, SMT DEF d
<1>9. L + (begin + i) = begin + L + i
  BY <1>1, SMT
<1>10. QED BY <1>7, <1>8, <1>9 DEF Ring!SlotOf, L

(* Every position has a slot. *)
LEMMA RingSlotType ==
  ASSUME Ring!AppFifoAssumption, NEW x \in Int
  PROVE  Ring!SlotOf(x) \in 0 .. RingSize - 1
<1>1. RingSize \in Nat \ {0}
  BY DEF Ring!AppFifoAssumption
<1>2. x % RingSize \in Int /\ 0 <= x % RingSize /\ x % RingSize < RingSize
  BY <1>1, DivMod
<1>3. QED BY <1>1, <1>2, SMT DEF Ring!SlotOf

(* Positions less than Size apart have slots of their own. *)
LEMMA RingSlotInjective ==
  ASSUME Ring!AppFifoAssumption, NEW x \in Int, NEW y \in Int,
         Ring!SlotOf(x) = Ring!SlotOf(y), x - y < RingSize, y - x < RingSize
  PROVE  x = y
<1>1. RingSize \in Nat \ {0}
  BY DEF Ring!AppFifoAssumption
<1>2. QED BY <1>1, ModEqual DEF Ring!SlotOf

(* Writing moves end by as much as the length grows. *)
LEMMA LengthAfterWrite ==
  ASSUME Ring!AppFifoAssumption, RingInv, NEW n \in Nat, Ring!fifo_length + n <= RingSize
  PROVE  (((end + n) % U16) - begin) % U16 = Ring!fifo_length + n
<1> DEFINE L == Ring!fifo_length
<1>1. L \in 0 .. RingSize /\ begin \in Int /\ end \in Int
  BY LengthType, SMT DEF RingInv
<1>2. U16 \in Nat \ {0} /\ RingSize \in Nat \ {0} /\ RingSize < U16
  BY DEF Ring!AppFifoAssumption
<1>3. (((end + n) % U16) + (-begin)) % U16 = (end + n + (-begin)) % U16
  <2>1. end + n \in Int /\ -begin \in Int
    BY <1>1, SMT
  <2>2. QED BY <1>2, <2>1, ModAdd
<1>4. (((end - begin) % U16) + n) % U16 = (end - begin + n) % U16
  <2>1. end - begin \in Int /\ n \in Int
    BY <1>1, SMT
  <2>2. QED BY <1>2, <2>1, ModAdd
<1>5. end - begin + n = end + n + (-begin)
  BY <1>1, SMT
<1>6. (L + n) % U16 = L + n
  <2>1. L + n \in 0 .. U16 - 1
    BY <1>1, <1>2, SMT DEF L
  <2>2. QED BY <1>2, <2>1, ModSmall
<1>7. (end + n) % U16 \in Int
  <2>1. end + n \in Int
    BY <1>1, SMT
  <2>2. QED BY <1>2, <2>1, DivMod
<1>8. ((end + n) % U16) + (-begin) = ((end + n) % U16) - begin
  BY <1>1, <1>7, SMT
<1>9. QED BY <1>3, <1>4, <1>5, <1>6, <1>8 DEF L, Ring!fifo_length

(* Reading moves begin by as much as the length shrinks. *)
LEMMA LengthAfterRead ==
  ASSUME Ring!AppFifoAssumption, RingInv, NEW n \in Nat, n <= Ring!fifo_length
  PROVE  (end - ((begin + n) % U16)) % U16 = Ring!fifo_length - n
<1> DEFINE L == Ring!fifo_length
<1> DEFINE r == (begin + n) % U16
<1> DEFINE q == (begin + n) \div U16
<1>1. L \in 0 .. RingSize /\ begin \in Int /\ end \in Int
  BY LengthType, SMT DEF RingInv
<1>2. U16 \in Nat \ {0} /\ RingSize \in Nat \ {0} /\ RingSize < U16
  BY DEF Ring!AppFifoAssumption
<1>3. r \in Int /\ q \in Int /\ begin + n = U16 * q + r
  <2>1. begin + n \in Int
    BY <1>1, SMT
  <2>2. QED BY <1>2, <2>1, DivMod
<1> HIDE DEF r, q
<1>4. end - r = (end - begin - n) + U16 * q
  BY <1>1, <1>2, <1>3, SMT
<1>5. ((end - begin - n) + U16 * q) % U16 = (end - begin - n) % U16
  <2>1. end - begin - n \in Int
    BY <1>1, SMT
  <2>2. QED BY <1>2, <1>3, <2>1, ModShift
<1>6. (((end - begin) % U16) + (-n)) % U16 = (end - begin + (-n)) % U16
  <2>1. end - begin \in Int /\ -n \in Int
    BY <1>1, SMT
  <2>2. QED BY <1>2, <2>1, ModAdd
<1>7. end - begin + (-n) = end - begin - n
  BY <1>1, SMT
<1>8. L = (end - begin) % U16
  BY DEF L, Ring!fifo_length
<1>9. n <= L
  BY DEF L
<1> HIDE DEF L
<1>10. L + (-n) = L - n /\ L - n \in 0 .. U16 - 1
  BY <1>1, <1>2, <1>9, SMT
<1>11. (L - n) % U16 = L - n
  BY <1>2, <1>10, ModSmall
<1>12. (end - r) % U16 = (L - n) % U16
  BY <1>4, <1>5, <1>6, <1>7, <1>8, <1>10
<1>13. QED BY <1>11, <1>12 DEF r, L

-----------------------------------------------------------------------------
(* A message that fits overwrites no byte that still has to be read ...    *)
LEMMA OldSlots ==
  ASSUME Ring!AppFifoAssumption, RingInv,
         NEW n \in Nat, Ring!fifo_length + n <= RingSize,
         NEW i \in 1 .. Ring!fifo_length, NEW j \in 1 .. n
  PROVE  Ring!SlotOf(end + j - 1) # Ring!SlotOf(begin + i - 1)
<1> DEFINE L == Ring!fifo_length
<1>1. L \in 0 .. RingSize /\ begin \in Int /\ end \in Int /\ RingSize \in Int
  BY LengthType, SMT DEF RingInv, Ring!AppFifoAssumption
<1>2. Ring!SlotOf(end + (j - 1)) = Ring!SlotOf(begin + L + (j - 1))
  BY EndSlot
<1> SUFFICES ASSUME Ring!SlotOf(end + j - 1) = Ring!SlotOf(begin + i - 1)
             PROVE  FALSE
  OBVIOUS
<1> HIDE DEF L
<1>3. i \in 1 .. L /\ L + n <= RingSize
  BY DEF L
<1>4. end + (j - 1) = end + j - 1
  BY <1>1, SMT
<1>5. /\ begin + L + (j - 1) \in Int
      /\ begin + i - 1 \in Int
      /\ (begin + L + (j - 1)) - (begin + i - 1) < RingSize
      /\ (begin + i - 1) - (begin + L + (j - 1)) < RingSize
      /\ begin + L + (j - 1) # begin + i - 1
  BY <1>1, <1>3, SMT
<1>6. Ring!SlotOf(begin + L + (j - 1)) = Ring!SlotOf(begin + i - 1)
  BY <1>2, <1>4
<1>7. QED BY <1>5, <1>6, RingSlotInjective

(* ... and its own bytes go to slots of their own.                         *)
LEMMA NewSlots ==
  ASSUME Ring!AppFifoAssumption, RingInv,
         NEW n \in Nat, n <= RingSize,
         NEW i \in 1 .. n, NEW j \in 1 .. n,
         Ring!SlotOf(end + j - 1) = Ring!SlotOf(end + i - 1)
  PROVE  i = j
<1>1. end \in Int /\ RingSize \in Int
  BY SMT DEF RingInv, Ring!AppFifoAssumption
<1>2. /\ end + j - 1 \in Int /\ end + i - 1 \in Int
      /\ (end + j - 1) - (end + i - 1) < RingSize
      /\ (end + i - 1) - (end + j - 1) < RingSize
  BY <1>1, SMT
<1>3. end + j - 1 = end + i - 1
  BY <1>2, RingSlotInjective
<1>4. QED BY <1>1, <1>3, SMT

(* An initialised ring is empty. *)
LEMMA RingInitInv ==
  ASSUME Ring!AppFifoAssumption, Ring!app_drv_fifo_init
  PROVE  RingInv /\ Ring!fifo_length = 0
<1>1. U16 \in Nat \ {0} /\ 0 \in 0 .. U16 - 1
  BY SMT DEF Ring!AppFifoAssumption
<1>2. 0 % U16 = 0
  BY <1>1, ModSmall
<1>3. begin = 0 /\ end = 0 /\ end - begin = 0
  BY SMT DEF Ring!app_drv_fifo_init
<1>4. Ring!fifo_length = 0
  BY <1>2, <1>3 DEF Ring!fifo_length
<1>5. data \in [0 .. RingSize - 1 -> Cell]
  BY DEF Ring!app_drv_fifo_init, Cell
<1>6. Ring!fifo_length <= RingSize
  BY <1>4, SMT DEF Ring!AppFifoAssumption
<1>7. QED BY <1>1, <1>3, <1>4, <1>5, <1>6 DEF RingInv

(* Facts about a message that is written. *)
LEMMA MsgType ==
  ASSUME Ring!AppFifoAssumption, NEW msg \in Ring!Msgs
  PROVE  msg \in Seq(Frame) /\ Len(msg) \in Nat \ {0}
<1>1. PICK m \in 0 .. MaxMsg : msg \in [1 .. m -> Frame]
  BY DEF Ring!Msgs, Ring!BoundedSeq, Ring!SeqOf
<1>2. m \in Nat
  BY <1>1, SMT DEF Ring!AppFifoAssumption
<1>3. msg \in Seq(Frame)
  BY <1>1, <1>2, SeqDef, Zenon
<1>4. msg # << >>
  BY DEF Ring!Msgs
<1>5. QED BY <1>3, <1>4, EmptySeq

(* A message that is written was no longer than the free space. *)
LEMMA WriteInv ==
  ASSUME Ring!AppFifoAssumption, RingInv, NEW msg \in Ring!Msgs, Ring!app_drv_fifo_write(msg)
  PROVE  /\ RingInv'
         /\ Ring!fifo_length + Len(msg) <= RingSize
         /\ Ring!fifo_length' = Ring!fifo_length + Len(msg)
<1> DEFINE n == Len(msg)
<1>1. n \in Nat /\ msg \in Seq(Frame)
  BY MsgType
<1>2. Ring!fifo_length \in 0 .. RingSize /\ (RingSize - Ring!fifo_length) % U16 = RingSize - Ring!fifo_length
  BY LengthType, FreeSpace
<1>3. (RingSize - Ring!fifo_length) % U16 >= n
  BY DEF Ring!app_drv_fifo_write, Ring!WriteFits
<1>4. Ring!fifo_length + n <= RingSize
  <2> HIDE DEF Ring!fifo_length, n
  <2>1. RingSize \in Nat
    BY DEF Ring!AppFifoAssumption
  <2>2. QED BY <1>1, <1>2, <1>3, <2>1, SMT
<1>5. end' = (end + n) % U16 /\ begin' = begin
  BY DEF Ring!app_drv_fifo_write
<1>6. Ring!fifo_length' = Ring!fifo_length + n
  <2>1. (((end + n) % U16) - begin) % U16 = Ring!fifo_length + n
    BY <1>1, <1>4, LengthAfterWrite
  <2>2. Ring!fifo_length' = (end' - begin') % U16
    BY DEF Ring!fifo_length
  <2>3. QED BY <1>5, <2>1, <2>2
<1>7. end' \in 0 .. U16 - 1
  <2>1. end + n \in Int /\ U16 \in Nat \ {0}
    BY <1>1, SMT DEF RingInv, Ring!AppFifoAssumption
  <2>2. (end + n) % U16 \in Int /\ 0 <= (end + n) % U16 /\ (end + n) % U16 < U16
    BY <2>1, DivMod
  <2>3. QED BY <1>5, <2>1, <2>2, SMT
<1>8. data' \in [0 .. RingSize - 1 -> Cell]
  <2>1. data' = [s \in DOMAIN data |-> IF Ring!Goes(s, msg) = {} THEN data[s]
                                        ELSE msg[CHOOSE i \in Ring!Goes(s, msg) : TRUE]]
    BY DEF Ring!app_drv_fifo_write
  <2>2. DOMAIN data = 0 .. RingSize - 1
    BY DEF RingInv
  <2>3. \A s \in 0 .. RingSize - 1 : data[s] \in Cell
    BY DEF RingInv
  <2>4. ASSUME NEW s \in 0 .. RingSize - 1, Ring!Goes(s, msg) # {}
        PROVE  msg[CHOOSE i \in Ring!Goes(s, msg) : TRUE] \in Cell
    <3>1. (CHOOSE i \in Ring!Goes(s, msg) : TRUE) \in DOMAIN msg
      BY <2>4 DEF Ring!Goes
    <3>2. msg \in [DOMAIN msg -> Frame]
      BY <1>1, LenProperties
    <3>3. QED BY <3>1, <3>2 DEF Cell
  <2>5. QED BY <2>1, <2>2, <2>3, <2>4
<1>9. begin' \in 0 .. U16 - 1
  BY <1>5 DEF RingInv
<1>10. Ring!fifo_length' <= RingSize
  BY <1>4, <1>6
<1>11. QED BY <1>4, <1>6, <1>7, <1>8, <1>9, <1>10 DEF RingInv

(* What the ring holds after a write: what it held, and the message.       *)
LEMMA WriteData ==
  ASSUME Ring!AppFifoAssumption, RingInv, NEW msg \in Ring!Msgs, Ring!app_drv_fifo_write(msg)
  PROVE  /\ \A i \in 1 .. Ring!fifo_length : data'[Ring!SlotOf(begin + i - 1)] = data[Ring!SlotOf(begin + i - 1)]
         /\ \A i \in 1 .. Len(msg) : data'[Ring!SlotOf(end + i - 1)] = msg[i]
<1> DEFINE n == Len(msg)
<1>1. n \in Nat /\ msg \in Seq(Frame) /\ DOMAIN msg = 1 .. n
  BY MsgType, LenProperties
<1>2. Ring!fifo_length + n <= RingSize /\ n <= RingSize
  <2>1. Ring!fifo_length + n <= RingSize
    BY WriteInv
  <2>2. Ring!fifo_length \in 0 .. RingSize
    BY LengthType
  <2> HIDE DEF n, Ring!fifo_length
  <2>3. RingSize \in Nat
    BY DEF Ring!AppFifoAssumption
  <2>4. QED BY <1>1, <2>1, <2>2, <2>3, SMT
<1>3. \A s \in 0 .. RingSize - 1 :
        data'[s] = IF Ring!Goes(s, msg) = {} THEN data[s] ELSE msg[CHOOSE i \in Ring!Goes(s, msg) : TRUE]
  BY DEF Ring!app_drv_fifo_write, RingInv
<1>4. ASSUME NEW i \in 1 .. Ring!fifo_length
      PROVE  data'[Ring!SlotOf(begin + i - 1)] = data[Ring!SlotOf(begin + i - 1)]
  <2>1. Ring!Goes(Ring!SlotOf(begin + i - 1), msg) = {}
    BY <1>1, <1>2, OldSlots DEF Ring!Goes
  <2>2. begin + i - 1 \in Int
    <3>1. begin \in Int /\ Ring!fifo_length \in Int
      BY LengthType, SMT DEF RingInv
    <3> HIDE DEF Ring!fifo_length
    <3>2. QED BY <3>1, SMT
  <2>3. QED BY <1>3, <2>1, <2>2, RingSlotType
<1>5. ASSUME NEW i \in 1 .. n
      PROVE  data'[Ring!SlotOf(end + i - 1)] = msg[i]
  <2>1. end + i - 1 \in Int
    BY <1>1, SMT DEF RingInv
  <2>2. i \in Ring!Goes(Ring!SlotOf(end + i - 1), msg)
    BY <1>1 DEF Ring!Goes
  <2>3. (CHOOSE j \in Ring!Goes(Ring!SlotOf(end + i - 1), msg) : TRUE) = i
    <3>1. \A j \in Ring!Goes(Ring!SlotOf(end + i - 1), msg) : j \in 1 .. n /\ Ring!SlotOf(end + j - 1) = Ring!SlotOf(end + i - 1)
      BY <1>1 DEF Ring!Goes
    <3>2. \A j \in Ring!Goes(Ring!SlotOf(end + i - 1), msg) : j = i
      BY <1>1, <1>2, <3>1, NewSlots
    <3>3. QED BY <2>2, <3>2
  <2>4. QED BY <1>3, <2>1, <2>2, <2>3, RingSlotType
<1>6. QED BY <1>4, <1>5

(* A read takes at least one byte, and no more than there are. *)
LEMMA ReadInv ==
  ASSUME Ring!AppFifoAssumption, RingInv, NEW k \in 1 .. MaxRead, Ring!app_drv_fifo_read(k)
  PROVE  /\ RingInv'
         /\ Ring!ReadSize(k) \in 1 .. Ring!fifo_length
         /\ Ring!fifo_length' = Ring!fifo_length - Ring!ReadSize(k)
<1> DEFINE n == Ring!ReadSize(k)
<1>1. Ring!fifo_length \in 0 .. RingSize /\ Ring!fifo_length # 0
  BY LengthType DEF Ring!app_drv_fifo_read
<1>2. n \in 1 .. Ring!fifo_length
  <2>1. k \in Nat /\ k >= 1
    BY SMT DEF Ring!AppFifoAssumption
  <2> HIDE DEF Ring!fifo_length
  <2>2. RingSize \in Nat
    BY DEF Ring!AppFifoAssumption
  <2>3. QED BY <1>1, <2>1, <2>2, SMT DEF Ring!ReadSize
<1>3. n \in Nat /\ n <= Ring!fifo_length
  BY <1>2
<1>4. begin' = (begin + n) % U16 /\ end' = end /\ data' = data
  BY DEF Ring!app_drv_fifo_read
<1>5. Ring!fifo_length' = Ring!fifo_length - n
  <2>1. (end - ((begin + n) % U16)) % U16 = Ring!fifo_length - n
    BY <1>3, LengthAfterRead
  <2>2. Ring!fifo_length' = (end' - begin') % U16
    BY DEF Ring!fifo_length
  <2>3. QED BY <1>4, <2>1, <2>2
<1>6. begin' \in 0 .. U16 - 1
  <2>1. begin + n \in Int /\ U16 \in Nat \ {0}
    BY <1>3, SMT DEF RingInv, Ring!AppFifoAssumption
  <2>2. (begin + n) % U16 \in Int /\ 0 <= (begin + n) % U16 /\ (begin + n) % U16 < U16
    BY <2>1, DivMod
  <2>3. QED BY <1>4, <2>1, <2>2, SMT
<1>7. Ring!fifo_length' <= RingSize
  <2> HIDE DEF Ring!fifo_length, n
  <2>1. RingSize \in Nat
    BY DEF Ring!AppFifoAssumption
  <2>2. QED BY <1>1, <1>3, <1>5, <2>1, SMT
<1>8. end' \in 0 .. U16 - 1 /\ data' \in [0 .. RingSize - 1 -> Cell]
  BY <1>4 DEF RingInv
<1>9. QED BY <1>2, <1>5, <1>6, <1>7, <1>8 DEF RingInv

(* After a read of n bytes, the slots of the bytes that are left.          *)
LEMMA BeginSlot ==
  ASSUME Ring!AppFifoAssumption, RingInv, NEW n \in Nat, NEW i \in Int
  PROVE  Ring!SlotOf(((begin + n) % U16) + i) = Ring!SlotOf(begin + n + i)
<1> DEFINE r == (begin + n) % U16
<1>1. U16 \in Nat \ {0} /\ RingSize \in Nat \ {0} /\ U16 % RingSize = 0
  BY DEF Ring!AppFifoAssumption
<1>2. begin + n \in Int
  BY SMT DEF RingInv
<1>3. r \in Int /\ r % RingSize = (begin + n) % RingSize
  BY <1>1, <1>2, DivMod, ModMod
<1> HIDE DEF r
<1>4. ((r % RingSize) + i) % RingSize = (r + i) % RingSize
  BY <1>1, <1>3, ModAdd
<1>5. (((begin + n) % RingSize) + i) % RingSize = (begin + n + i) % RingSize
  BY <1>1, <1>2, ModAdd
<1>6. QED BY <1>3, <1>4, <1>5 DEF Ring!SlotOf, r

(* Flushing empties the ring. *)
LEMMA FlushInv ==
  ASSUME Ring!AppFifoAssumption, RingInv, Ring!app_drv_fifo_flush
  PROVE  RingInv' /\ Ring!fifo_length' = 0
<1>1. U16 \in Nat \ {0} /\ 0 \in 0 .. U16 - 1 /\ RingSize \in Nat
  BY SMT DEF Ring!AppFifoAssumption
<1>2. 0 % U16 = 0
  BY <1>1, ModSmall
<1>3. begin' = 0 /\ end' = 0 /\ data' = data
  BY DEF Ring!app_drv_fifo_flush
<1>4. Ring!fifo_length' = 0
  <2>1. Ring!fifo_length' = (end' - begin') % U16
    BY DEF Ring!fifo_length
  <2>2. QED BY <1>2, <1>3, <2>1, SMT
<1>5. Ring!fifo_length' <= RingSize
  BY <1>1, <1>4, SMT
<1>6. QED BY <1>1, <1>3, <1>4, <1>5 DEF RingInv

-----------------------------------------------------------------------------
(* The bytes that are to be read, in their order. *)
RingBytes == [i \in 1 .. Ring!fifo_length |-> data[Ring!SlotOf(begin + i - 1)]]

(* Pending is a sequence of cells. *)
LEMMA PendingType ==
  ASSUME Ring!AppFifoAssumption, RingInv
  PROVE  /\ RingBytes \in Seq(Cell) /\ Len(RingBytes) = Ring!fifo_length
         /\ \A i \in 1 .. Ring!fifo_length : RingBytes[i] = data[Ring!SlotOf(begin + i - 1)]
<1>1. Ring!fifo_length \in Nat
  BY LengthType
<1>2. begin \in Int
  BY SMT DEF RingInv
<1>3. ASSUME NEW i \in 1 .. Ring!fifo_length
      PROVE  data[Ring!SlotOf(begin + i - 1)] \in Cell
  <2> HIDE DEF Ring!fifo_length
  <2>1. begin + i - 1 \in Int
    BY <1>1, <1>2, SMT
  <2>2. Ring!SlotOf(begin + i - 1) \in 0 .. RingSize - 1
    BY <2>1, RingSlotType
  <2>3. QED BY <2>2 DEF RingInv
<1>4. RingBytes \in [1 .. Ring!fifo_length -> Cell]
  BY <1>3 DEF RingBytes
<1>5. RingBytes \in Seq(Cell)
  BY <1>1, <1>4, SeqDef, Zenon
<1>6. Len(RingBytes) = Ring!fifo_length
  BY <1>1, <1>4, <1>5, LenProperties, SMT
<1>7. QED BY <1>5, <1>6 DEF RingBytes

(* Writing a message appends it to the queue. *)
LEMMA WritePuts ==
  ASSUME Ring!AppFifoAssumption, RingInv, NEW msg \in Ring!Msgs, Ring!app_drv_fifo_write(msg)
  PROVE  Ring!Queue!Put(msg)
<1>1. msg \in Seq(Cell) /\ Len(msg) \in Nat
  BY MsgType, SeqMonotonic DEF Cell
<1>2. RingInv' /\ Ring!fifo_length + Len(msg) <= RingSize /\ Ring!fifo_length' = Ring!fifo_length + Len(msg)
  BY WriteInv
<1>3. /\ RingBytes \in Seq(Cell) /\ Len(RingBytes) = Ring!fifo_length
      /\ \A i \in 1 .. Ring!fifo_length : RingBytes[i] = data[Ring!SlotOf(begin + i - 1)]
  BY PendingType
<1>4. /\ RingBytes' \in Seq(Cell) /\ Len(RingBytes') = Ring!fifo_length'
      /\ \A i \in 1 .. Ring!fifo_length' : RingBytes'[i] = data'[Ring!SlotOf(begin' + i - 1)]
  <2>1. (RingInv => /\ RingBytes \in Seq(Cell) /\ Len(RingBytes) = Ring!fifo_length
                /\ \A i \in 1 .. Ring!fifo_length : RingBytes[i] = data[Ring!SlotOf(begin + i - 1)])'
    BY PendingType, PTL
  <2>2. QED BY <1>2, <2>1
<1>5. /\ \A i \in 1 .. Ring!fifo_length : data'[Ring!SlotOf(begin + i - 1)] = data[Ring!SlotOf(begin + i - 1)]
      /\ \A i \in 1 .. Len(msg) : data'[Ring!SlotOf(end + i - 1)] = msg[i]
  BY WriteData
<1>6. \A i \in Int : Ring!SlotOf(end + i) = Ring!SlotOf(begin + Ring!fifo_length + i)
  BY EndSlot
<1>7. begin' = begin /\ read' = read
  BY DEF Ring!app_drv_fifo_write
<1>8. begin \in Int /\ end \in Int /\ Ring!fifo_length \in Nat /\ RingSize \in Nat
  BY LengthType, SMT DEF RingInv, Ring!AppFifoAssumption
<1>9. /\ RingBytes \o msg \in Seq(Cell)
      /\ Len(RingBytes \o msg) = Ring!fifo_length + Len(msg)
      /\ \A i \in 1 .. Ring!fifo_length + Len(msg) :
            (RingBytes \o msg)[i] = IF i <= Ring!fifo_length THEN RingBytes[i] ELSE msg[i - Ring!fifo_length]
  BY <1>1, <1>3, ConcatProperties
<1>10. ASSUME NEW i \in 1 .. Ring!fifo_length + Len(msg)
       PROVE  RingBytes'[i] = (RingBytes \o msg)[i]
  <2>1. RingBytes'[i] = data'[Ring!SlotOf(begin + i - 1)]
    BY <1>2, <1>4, <1>7
  <2>2. CASE i <= Ring!fifo_length
    <3>1. i \in 1 .. Ring!fifo_length
      BY <1>8, <2>2, SMT
    <3>2. QED BY <1>3, <1>5, <1>9, <2>1, <2>2, <3>1
  <2>3. CASE ~(i <= Ring!fifo_length)
    <3> DEFINE j == i - Ring!fifo_length
    <3> HIDE DEF Ring!fifo_length
    <3>1. /\ j \in 1 .. Len(msg) /\ j - 1 \in Int
          /\ end + (j - 1) = end + j - 1
          /\ begin + Ring!fifo_length + (j - 1) = begin + i - 1
      BY <1>1, <1>8, <2>3, SMT
    <3>2. Ring!SlotOf(end + (j - 1)) = Ring!SlotOf(begin + Ring!fifo_length + (j - 1))
      BY <1>6, <3>1
    <3>3. data'[Ring!SlotOf(end + j - 1)] = msg[j]
      BY <1>5, <3>1
    <3>4. Ring!SlotOf(begin + i - 1) = Ring!SlotOf(end + j - 1)
      BY <3>1, <3>2
    <3>5. (RingBytes \o msg)[i] = msg[j]
      BY <1>9, <2>3
    <3>6. QED BY <2>1, <3>3, <3>4, <3>5
  <2>4. QED BY <2>2, <2>3
<1>11. RingBytes' = RingBytes \o msg
  BY <1>2, <1>4, <1>9, <1>10, SeqEqual
<1>12. Len(RingBytes) + Len(msg) <= RingSize
  BY <1>2, <1>3
<1>13. QED BY <1>7, <1>11, <1>12 DEF Ring!Queue!Put, RingBytes

(* Reading takes the oldest bytes off the queue. *)
LEMMA ReadTakes ==
  ASSUME Ring!AppFifoAssumption, RingInv, NEW k \in 1 .. MaxRead, Ring!app_drv_fifo_read(k)
  PROVE  \E n \in 1 .. Len(RingBytes) : Ring!Queue!Take(n)
<1> DEFINE n == Ring!ReadSize(k)
<1> DEFINE L == Ring!fifo_length
<1>1. RingInv' /\ n \in 1 .. L /\ Ring!fifo_length' = L - n
  BY ReadInv
<1>2. /\ RingBytes \in Seq(Cell) /\ Len(RingBytes) = L
      /\ \A i \in 1 .. L : RingBytes[i] = data[Ring!SlotOf(begin + i - 1)]
  BY PendingType
<1>3. /\ RingBytes' \in Seq(Cell) /\ Len(RingBytes') = Ring!fifo_length'
      /\ \A i \in 1 .. Ring!fifo_length' : RingBytes'[i] = data'[Ring!SlotOf(begin' + i - 1)]
  <2>1. (RingInv => /\ RingBytes \in Seq(Cell) /\ Len(RingBytes) = Ring!fifo_length
                /\ \A i \in 1 .. Ring!fifo_length : RingBytes[i] = data[Ring!SlotOf(begin + i - 1)])'
    BY PendingType, PTL
  <2>2. QED BY <1>1, <2>1
<1>4. begin' = (begin + n) % U16 /\ data' = data
      /\ read' = [i \in 1 .. n |-> data[Ring!SlotOf(begin + i - 1)]]
  BY DEF Ring!app_drv_fifo_read
<1>5. begin \in Int /\ L \in Nat
  BY LengthType, SMT DEF RingInv
<1>6. \A i \in Int : Ring!SlotOf(begin' + i) = Ring!SlotOf(begin + n + i)
  BY <1>1, <1>4, BeginSlot
<1> HIDE DEF n, L
<1>7. n \in Nat /\ n >= 1 /\ n <= L
  BY <1>1, <1>5, SMT
<1>8. read' = SubSeq(RingBytes, 1, n)
  <2>1. \A i \in 1 .. n : RingBytes[i] \in Cell
    <3>1. \A i \in 1 .. n : i \in 1 .. Len(RingBytes)
      BY <1>2, <1>5, <1>7, SMT
    <3>2. QED BY <1>2, <3>1, ElementOfSeq
  <2>2. /\ SubSeq(RingBytes, 1, n) \in Seq(Cell)
        /\ Len(SubSeq(RingBytes, 1, n)) = n
        /\ \A i \in 1 .. n : SubSeq(RingBytes, 1, n)[i] = RingBytes[i]
    <3>1. /\ SubSeq(RingBytes, 1, n) \in Seq(Cell)
          /\ Len(SubSeq(RingBytes, 1, n)) = IF 1 <= n THEN n - 1 + 1 ELSE 0
          /\ \A i \in 1 .. n - 1 + 1 : SubSeq(RingBytes, 1, n)[i] = RingBytes[1 + i - 1]
      BY <1>7, <2>1, SubSeqProperties
    <3>2. n - 1 + 1 = n /\ \A i \in 1 .. n : 1 + i - 1 = i
      BY <1>7, SMT
    <3>3. QED BY <1>7, <3>1, <3>2
  <2>3. \A i \in 1 .. n : RingBytes[i] = data[Ring!SlotOf(begin + i - 1)]
    <3>1. \A i \in 1 .. n : i \in 1 .. L
      BY <1>5, <1>7, SMT
    <3>2. QED BY <1>2, <3>1
  <2>4. read' \in [1 .. n -> Cell]
    BY <1>4, <2>1, <2>3
  <2>5. read' \in Seq(Cell)
    <3>1. \A m \in Nat : [1 .. m -> Cell] \subseteq Seq(Cell)
      BY SeqDef, Zenon
    <3>2. QED BY <1>7, <2>4, <3>1
  <2>6. Len(read') = n
    BY <1>7, <2>4, <2>5, LenProperties, SMT
  <2>7. \A i \in 1 .. n : read'[i] = SubSeq(RingBytes, 1, n)[i]
    BY <1>4, <2>2, <2>3
  <2>8. QED BY <2>2, <2>5, <2>6, <2>7, SeqEqual
<1>9. RingBytes' = SubSeq(RingBytes, n + 1, Len(RingBytes))
  <2>1. \A i \in n + 1 .. L : RingBytes[i] \in Cell
    <3>1. \A i \in n + 1 .. L : i \in 1 .. Len(RingBytes)
      BY <1>2, <1>5, <1>7, SMT
    <3>2. QED BY <1>2, <3>1, ElementOfSeq
  <2>2. /\ SubSeq(RingBytes, n + 1, L) \in Seq(Cell)
        /\ Len(SubSeq(RingBytes, n + 1, L)) = L - n
        /\ \A i \in 1 .. L - n : SubSeq(RingBytes, n + 1, L)[i] = RingBytes[n + i]
    <3>1. /\ SubSeq(RingBytes, n + 1, L) \in Seq(Cell)
          /\ Len(SubSeq(RingBytes, n + 1, L)) = IF n + 1 <= L THEN L - (n + 1) + 1 ELSE 0
          /\ \A i \in 1 .. L - (n + 1) + 1 : SubSeq(RingBytes, n + 1, L)[i] = RingBytes[n + 1 + i - 1]
      <4>1. n + 1 \in Int /\ L \in Int
        BY <1>5, <1>7, SMT
      <4>2. QED BY <2>1, <4>1, SubSeqProperties
    <3>2. /\ L - (n + 1) + 1 = L - n
          /\ \A i \in Int : n + 1 + i - 1 = n + i
          /\ n + 1 > L => L - n = 0
      BY <1>5, <1>7, SMT
    <3>3. Len(SubSeq(RingBytes, n + 1, L)) = L - n
      BY <1>5, <1>7, <3>1, SMT
    <3>4. QED BY <3>1, <3>2, <3>3
  <2>3. ASSUME NEW i \in 1 .. L - n
        PROVE  RingBytes'[i] = SubSeq(RingBytes, n + 1, L)[i]
    <3>1. /\ i - 1 \in Int /\ n + i \in 1 .. L
          /\ begin + n + (i - 1) = begin + (n + i) - 1
      BY <1>5, <1>7, SMT
    <3>2. RingBytes'[i] = data[Ring!SlotOf(begin' + i - 1)]
      BY <1>1, <1>3, <1>4
    <3>3. begin' + (i - 1) = begin' + i - 1
      <4>1. begin' \in Int
        BY <1>1, SMT DEF RingInv
      <4>2. QED BY <4>1, SMT
    <3>4. Ring!SlotOf(begin' + i - 1) = Ring!SlotOf(begin + (n + i) - 1)
      BY <1>6, <3>1, <3>3
    <3>5. RingBytes[n + i] = data[Ring!SlotOf(begin + (n + i) - 1)]
      BY <1>2, <3>1
    <3>6. QED BY <2>2, <3>2, <3>4, <3>5
  <2>4. Len(RingBytes') = L - n
    BY <1>1, <1>3
  <2>5. QED BY <1>2, <1>3, <2>2, <2>3, <2>4, SeqEqual
<1>10. n \in 1 .. Len(RingBytes)
  BY <1>1, <1>2
<1>11. Ring!Queue!Take(n)
  BY <1>8, <1>9 DEF Ring!Queue!Take, RingBytes
<1>12. QED BY <1>10, <1>11

(* An empty ring is an empty queue. *)
LEMMA EmptyPending ==
  ASSUME Ring!fifo_length = 0
  PROVE  RingBytes = << >>
<1>1. 1 .. Ring!fifo_length = {}
  BY SMT
<1>2. RingBytes = [i \in {} |-> data[Ring!SlotOf(begin + i - 1)]]
  BY <1>1 DEF RingBytes
<1>3. QED BY <1>2, SMT

(* Every step keeps the invariant and is a step of the queue. *)
LEMMA RingNextInv ==
  ASSUME Ring!AppFifoAssumption, RingInv, [Ring!Next]_Ring!vars
  PROVE  RingInv' /\ [Ring!Queue!Next]_<<RingBytes, read>>
<1>1. CASE UNCHANGED Ring!vars
  BY <1>1 DEF Ring!vars, RingInv, Ring!fifo_length, RingBytes
<1>2. ASSUME NEW msg \in Ring!Msgs, Ring!app_drv_fifo_write(msg)
      PROVE  RingInv' /\ Ring!Queue!Next
  BY <1>2, WriteInv, WritePuts DEF Ring!Queue!Next
<1>3. ASSUME NEW msg \in Ring!Msgs, Ring!app_drv_fifo_write_Refused(msg)
      PROVE  UNCHANGED Ring!vars
  BY <1>3 DEF Ring!app_drv_fifo_write_Refused
<1>4. ASSUME NEW k \in 1 .. MaxRead, Ring!app_drv_fifo_read(k)
      PROVE  RingInv' /\ Ring!Queue!Next
  BY <1>4, ReadInv, ReadTakes DEF Ring!Queue!Next, RingBytes
<1>5. CASE Ring!app_drv_fifo_flush
  <2>1. RingInv' /\ Ring!fifo_length' = 0
    BY <1>5, FlushInv
  <2>2. RingBytes' = << >>
    <3>1. (Ring!fifo_length = 0 => RingBytes = << >>)'
      BY EmptyPending, PTL
    <3>2. QED BY <2>1, <3>1
  <2>3. Ring!Queue!Clear
    BY <1>5, <2>2 DEF Ring!Queue!Clear, RingBytes, Ring!app_drv_fifo_flush
  <2>4. QED BY <2>1, <2>3 DEF Ring!Queue!Next
<1>6. QED BY <1>1, <1>2, <1>3, <1>4, <1>5 DEF Ring!Next

(* However often the 16-bit counters have wrapped, ring and counters are   *)
(* a queue of bytes: a message enters it whole or not at all, and every    *)
(* byte leaves it once and in order (app_drv_fifo.c:16-19, 80-120,         *)
(* 153-186).                                                               *)
THEOREM RingIsByteQueue ==
  ASSUME Ring!AppFifoAssumption
  PROVE  Ring!Spec => Ring!ImplementsByteQueue
<1>1. Ring!app_drv_fifo_init => RingInv /\ Ring!Queue!Init
  <2>1. SUFFICES ASSUME Ring!app_drv_fifo_init PROVE RingInv /\ Ring!Queue!Init
    OBVIOUS
  <2>2. RingInv /\ Ring!fifo_length = 0
    BY <2>1, RingInitInv
  <2>3. RingBytes = << >>
    BY <2>2, EmptyPending
  <2>4. Ring!Queue!Init
    BY <2>1, <2>3 DEF Ring!Queue!Init, RingBytes, Ring!app_drv_fifo_init
  <2>5. QED BY <2>2, <2>4
<1>2. RingInv /\ [Ring!Next]_Ring!vars => RingInv' /\ [Ring!Queue!Next]_<<RingBytes, read>>
  BY RingNextInv
<1>3. QED BY <1>1, <1>2, PTL DEF Ring!Spec, Ring!ImplementsByteQueue, Ring!Queue!Spec, RingBytes

-----------------------------------------------------------------------------
(***************************************************************************)
(* The stored bit rate, for every length of sector and record and every    *)
(* number of bit rates: the log of tinyFlash survives power losses, what   *)
(* has been written is what a restart finds, and the two sectors are one   *)
(* cell.                                                                   *)
(*                                                                         *)
(* The invariant behind it: never more than one record is live, it is in   *)
(* the sector in use, and once tinyFlash_Write has deleted it there is     *)
(* none until the new one is programmed. So an exchange of sectors has     *)
(* nothing to move, and it does not matter which sector a restart chooses  *)
(* while it goes on.                                                       *)
(***************************************************************************)

(* Which sector tinyFlash_Init would choose now. *)
BootInv == IF flashPc = "erase" THEN marked[Flash!Other(used)] ELSE used = Flash!UsedAtBoot

LiveInv ==
  /\ \A i, j \in Flash!FoundAt(log[used]) : i = j
  /\ Flash!FoundAt(log[Flash!Other(used)]) = {}
  /\ flashPc \in {"search", "program", "copy", "mark", "erase"} => Flash!FoundAt(log[used]) = {}

(* A record is programmed only where there is room for it. *)
RoomInv == flashPc = "program" => Flash!Fits(log[used])

FlashInv == Flash!TypeOK /\ BootInv /\ LiveInv /\ RoomInv /\ Flash!WriteIsDurable

-----------------------------------------------------------------------------
LEMMA Sizes ==
  ASSUME Flash!FlashAssumption
  PROVE  /\ SecLen \in Nat /\ RecLen \in Nat /\ TornLen \in Nat
         /\ 0 < RecLen /\ RecLen <= SecLen /\ RecLen < TornLen
         /\ NumBauds \in Nat /\ NumBauds >= 1
         /\ None \notin Flash!Record /\ None \notin Flash!Index /\ 0 \in Flash!Index
  BY DEF Flash!FlashAssumption, Flash!Index

LEMMA Sectors ==
  ASSUME NEW s \in Flash!Sector
  PROVE  Flash!Other(s) \in Flash!Sector /\ Flash!Other(s) # s /\ Flash!Other(Flash!Other(s)) = s
         /\ \A t \in Flash!Sector : t = s \/ t = Flash!Other(s)
  BY DEF Flash!Sector, Flash!Other

(* The elements of a log. *)
LEMMA LogElements ==
  ASSUME NEW l \in Seq(Flash!Record)
  PROVE  /\ Len(l) \in Nat /\ DOMAIN l = 1 .. Len(l)
         /\ \A i \in 1 .. Len(l) : l[i] \in Flash!Record
         /\ Flash!FoundAt(l) \subseteq 1 .. Len(l)
         /\ l = << >> <=> Len(l) = 0
<1>1. Len(l) \in Nat /\ DOMAIN l = 1 .. Len(l) /\ \A i \in 1 .. Len(l) : l[i] \in Flash!Record
  BY LenProperties, ElementOfSeq
<1>2. l = << >> <=> Len(l) = 0
  BY <1>1, EmptySeq
<1>3. QED BY <1>1, <1>2 DEF Flash!FoundAt

LEMMA RecordFields ==
  ASSUME Flash!FlashAssumption, NEW r \in Flash!Record
  PROVE  /\ r.at \in Nat /\ r.span \in Nat /\ r.span > 0 /\ r.live \in BOOLEAN
         /\ r # None
  BY Sizes DEF Flash!Record

(* A record that is found has the only index. *)
LEMMA OnlyOneFound ==
  ASSUME Flash!FlashAssumption, NEW l \in Seq(Flash!Record), NEW k \in Flash!FoundAt(l),
         \A i, j \in Flash!FoundAt(l) : i = j
  PROVE  Flash!First(l) = k /\ Flash!Read(l) = l[k] /\ Flash!Read(l) \in Flash!Record
<1>1. Flash!FoundAt(l) = {k} /\ k \in 1 .. Len(l) /\ k \in Nat
  BY LogElements
<1>2. Flash!First(l) = k
  <2>1. \A i \in Flash!FoundAt(l) : (\A j \in Flash!FoundAt(l) : i <= j) <=> i = k
    BY <1>1
  <2>2. QED BY <1>1, <2>1 DEF Flash!First
<1>3. QED BY <1>1, <1>2, LogElements DEF Flash!Read

(* ... and when it is deleted, none is found. *)
LEMMA Deleted ==
  ASSUME Flash!FlashAssumption, NEW l \in Seq(Flash!Record), Flash!Chained(l), Flash!FoundAt(l) # {},
         \A i, j \in Flash!FoundAt(l) : i = j
  PROVE  /\ [l EXCEPT ![Flash!First(l)].live = FALSE] \in Seq(Flash!Record)
         /\ Flash!Chained([l EXCEPT ![Flash!First(l)].live = FALSE])
         /\ Flash!FoundAt([l EXCEPT ![Flash!First(l)].live = FALSE]) = {}
<1>1. PICK k \in Flash!FoundAt(l) : Flash!First(l) = k
  BY OnlyOneFound
<1> DEFINE r == [l[k] EXCEPT !.live = FALSE]
           m == [l EXCEPT ![k] = r]
<1>2. /\ Len(l) \in Nat /\ DOMAIN l = 1 .. Len(l) /\ k \in 1 .. Len(l)
      /\ \A i \in 1 .. Len(l) : l[i] \in Flash!Record
  BY LogElements
<1>3. r \in Flash!Record /\ r.at = l[k].at /\ r.span = l[k].span /\ r.live = FALSE
  BY <1>2 DEF Flash!Record
<1> HIDE DEF r
<1>4. /\ m \in Seq(Flash!Record) /\ Len(m) = Len(l)
      /\ \A i \in 1 .. Len(l) : m[i] = IF i = k THEN r ELSE l[i]
  BY <1>2, <1>3, ExceptSeq
<1>5. DOMAIN m = 1 .. Len(l)
  BY <1>2
<1> HIDE DEF m
<1>6. Flash!FoundAt(m) = {}
  <2>1. ASSUME NEW i \in 1 .. Len(l), m[i].live PROVE FALSE
    <3>1. i # k
      BY <1>3, <1>4, <2>1
    <3>2. m[i] = l[i]
      BY <1>4, <3>1
    <3>3. i \in Flash!FoundAt(l)
      BY <1>2, <2>1, <3>2 DEF Flash!FoundAt
    <3>4. QED BY <3>1, <3>3
  <2>2. QED BY <1>5, <2>1 DEF Flash!FoundAt
<1>7. Flash!Chained(m)
  <2>1. \A i \in 1 .. Len(l) : m[i].at = l[i].at /\ m[i].span = l[i].span
    BY <1>3, <1>4
  <2>2. ASSUME NEW i \in 1 .. Len(l)
        PROVE  /\ m[i].at = (IF i = 1 THEN 0 ELSE m[i - 1].at + m[i - 1].span)
               /\ m[i].at <= SecLen - RecLen
    <3>1. /\ l[i].at = (IF i = 1 THEN 0 ELSE l[i - 1].at + l[i - 1].span)
          /\ l[i].at <= SecLen - RecLen
      BY <1>2 DEF Flash!Chained
    <3>2. i # 1 => i - 1 \in 1 .. Len(l)
      BY <1>2
    <3>3. QED BY <2>1, <3>1, <3>2
  <2>3. QED BY <1>5, <2>2 DEF Flash!Chained
<1>8. [l EXCEPT ![Flash!First(l)].live = FALSE] = m
  BY <1>1 DEF m, r
<1>9. QED BY <1>4, <1>6, <1>7, <1>8

(* Behind dead records a new one is the only one found, if it is live. *)
LEMMA Appended ==
  ASSUME Flash!FlashAssumption, NEW l \in Seq(Flash!Record), Flash!Chained(l), Flash!FoundAt(l) = {}, Flash!Fits(l),
         NEW r \in [at : {Flash!End(l)}, span : {RecLen, TornLen}, live : BOOLEAN, val : Flash!Index \cup {Flash!Blank}]
  PROVE  /\ Append(l, r) \in Seq(Flash!Record) /\ Flash!Chained(Append(l, r))
         /\ \A i, j \in Flash!FoundAt(Append(l, r)) : i = j
         /\ Flash!Read(Append(l, r)) = IF r.live THEN r ELSE None
         /\ r \in Flash!Record
<1>1. /\ Len(l) \in Nat /\ DOMAIN l = 1 .. Len(l)
      /\ \A i \in 1 .. Len(l) : l[i] \in Flash!Record
      /\ l = << >> <=> Len(l) = 0
  BY LogElements
<1>2. Flash!End(l) \in Nat /\ Flash!End(l) <= SecLen - RecLen
  <2>1. CASE l = << >>
    BY <2>1, Sizes DEF Flash!End
  <2>2. CASE l # << >>
    <3>1. Len(l) \in 1 .. Len(l)
      BY <1>1, <2>2
    <3>2. l[Len(l)].at \in Nat /\ l[Len(l)].span \in Nat
      BY <1>1, <3>1, RecordFields
    <3>3. QED BY <2>2, <3>2 DEF Flash!End, Flash!Fits
  <2>3. QED BY <2>1, <2>2
<1>3. r \in Flash!Record /\ r.at = Flash!End(l)
  <2>1. Flash!End(l) \in 0 .. SecLen
    BY <1>2, Sizes
  <2>2. QED BY <2>1 DEF Flash!Record
<1> DEFINE m == Append(l, r)
<1>4. /\ m \in Seq(Flash!Record) /\ Len(m) = Len(l) + 1 /\ DOMAIN m = 1 .. Len(l) + 1
      /\ \A i \in 1 .. Len(l) : m[i] = l[i]
      /\ m[Len(l) + 1] = r
  <2>1. m \in Seq(Flash!Record) /\ Len(m) = Len(l) + 1
        /\ \A i \in 1 .. Len(l) : m[i] = l[i]
        /\ m[Len(l) + 1] = r
    BY <1>3, AppendProperties
  <2>2. QED BY <2>1, LogElements
<1> HIDE DEF m
<1>5. \A i \in 1 .. Len(l) + 1 : i \in 1 .. Len(l) \/ i = Len(l) + 1
  BY <1>1
<1>6. \A i \in 1 .. Len(l) : ~l[i].live
  BY <1>1 DEF Flash!FoundAt
<1>7. Flash!FoundAt(m) = IF r.live THEN {Len(l) + 1} ELSE {}
  <2>1. \A i \in DOMAIN m : m[i].live <=> i = Len(l) + 1 /\ r.live
    BY <1>1, <1>4, <1>5, <1>6
  <2>2. Len(l) + 1 \in DOMAIN m
    BY <1>1, <1>4
  <2>3. QED BY <2>1, <2>2 DEF Flash!FoundAt
<1>8. Flash!Chained(m)
  <2>1. ASSUME NEW i \in 1 .. Len(l)
        PROVE  /\ m[i].at = (IF i = 1 THEN 0 ELSE m[i - 1].at + m[i - 1].span)
               /\ m[i].at <= SecLen - RecLen
    <3>1. i # 1 => i - 1 \in 1 .. Len(l)
      BY <1>1
    <3>2. QED BY <1>1, <1>4, <3>1 DEF Flash!Chained
  <2>2. /\ m[Len(l) + 1].at = (IF Len(l) + 1 = 1 THEN 0 ELSE m[Len(l)].at + m[Len(l)].span)
        /\ m[Len(l) + 1].at <= SecLen - RecLen
    <3>1. m[Len(l) + 1].at = Flash!End(l)
      BY <1>4
    <3>2. CASE Len(l) = 0
      BY <1>1, <1>2, <3>1, <3>2 DEF Flash!End
    <3>3. CASE Len(l) # 0
      <4>1. Len(l) \in 1 .. Len(l) /\ Len(l) + 1 # 1
        BY <1>1, <3>3
      <4>2. m[Len(l)] = l[Len(l)]
        BY <1>4, <4>1
      <4>3. QED BY <1>1, <1>2, <3>1, <3>3, <4>1, <4>2 DEF Flash!End
    <3>4. QED BY <3>2, <3>3
  <2>3. Len(l) + 1 - 1 = Len(l)
    BY <1>1
  <2>4. QED BY <1>4, <1>5, <2>1, <2>2, <2>3 DEF Flash!Chained
<1>9. Flash!Read(m) = IF r.live THEN r ELSE None
  <2>1. CASE r.live
    <3>1. Flash!FoundAt(m) = {Len(l) + 1}
      BY <1>7, <2>1
    <3>2. QED BY <1>4, <2>1, <3>1, OnlyOneFound
  <2>2. CASE ~r.live
    BY <1>7, <2>2 DEF Flash!Read
  <2>3. QED BY <2>1, <2>2
<1>10. \A i, j \in Flash!FoundAt(m) : i = j
  BY <1>7
<1>11. QED BY <1>3, <1>4, <1>8, <1>9, <1>10 DEF m

-----------------------------------------------------------------------------
(* On a new device. *)
LEMMA FlashInitInv ==
  ASSUME Flash!FlashAssumption, Flash!Init
  PROVE  FlashInv /\ Flash!Cell!Init
<1>1. /\ \A s \in Flash!Sector : log[s] = << >> /\ marked[s] = FALSE
      /\ "first" \in Flash!Sector /\ "second" \in Flash!Sector
  BY DEF Flash!Init, Flash!Sector
<1>2. << >> \in Seq(Flash!Record) /\ Flash!FoundAt(<< >>) = {} /\ Flash!Chained(<< >>)
  BY EmptySeq DEF Flash!FoundAt, Flash!Chained
<1>3. log \in [Flash!Sector -> Seq(Flash!Record)] /\ marked \in [Flash!Sector -> BOOLEAN]
  BY <1>2 DEF Flash!Init
<1>4. Flash!TypeOK
  <2>1. /\ used \in Flash!Sector /\ flashPc = "boot" /\ index = 0 /\ dirty = FALSE /\ uart = None
    BY <1>1 DEF Flash!Init
  <2>2. \A s \in Flash!Sector : Flash!Chained(log[s])
    BY <1>1, <1>2
  <2>3. QED BY <1>3, <2>1, <2>2, Sizes DEF Flash!TypeOK
<1>5. used = Flash!UsedAtBoot /\ flashPc = "boot"
  BY <1>1 DEF Flash!Init, Flash!UsedAtBoot
<1>6. Flash!FoundAt(log[used]) = {} /\ Flash!FoundAt(log[Flash!Other(used)]) = {}
  BY <1>1, <1>2, <1>4, Sectors DEF Flash!TypeOK
<1>7. BootInv /\ LiveInv /\ RoomInv /\ Flash!WriteIsDurable
  BY <1>5, <1>6 DEF BootInv, LiveInv, RoomInv, Flash!WriteIsDurable
<1>8. Flash!Stored = None
  BY <1>5, <1>6 DEF Flash!Stored, Flash!Content, Flash!Read
<1>9. ~Flash!Running /\ Flash!BeingWritten = None
  BY <1>5 DEF Flash!Running, Flash!BeingWritten
<1>10. Flash!Cell!Init
  BY <1>8, <1>9, Zenon DEF Flash!Cell!Init
<1>11. QED BY <1>4, <1>7, <1>10 DEF FlashInv

(* The state of the flash that the other lemmas start from. *)
LEMMA FlashFacts ==
  ASSUME Flash!FlashAssumption, FlashInv
  PROVE  /\ used \in Flash!Sector /\ Flash!Other(used) \in Flash!Sector /\ Flash!Other(used) # used
         /\ log \in [Flash!Sector -> Seq(Flash!Record)] /\ marked \in [Flash!Sector -> BOOLEAN]
         /\ log[used] \in Seq(Flash!Record) /\ Flash!Chained(log[used])
         /\ log[Flash!Other(used)] \in Seq(Flash!Record) /\ Flash!Chained(log[Flash!Other(used)])
         /\ Flash!FoundAt(log[Flash!Other(used)]) = {}
         /\ Flash!UsedAtBoot \in Flash!Sector
         /\ (flashPc # "erase" => used = Flash!UsedAtBoot)
  BY Sectors DEF FlashInv, Flash!TypeOK, BootInv, LiveInv, Flash!UsedAtBoot, Flash!Sector

(* What stays true of the logs as long as nobody touches them. *)
LEMMA SameLogs ==
  ASSUME UNCHANGED <<log, used>>
  PROVE  Flash!FoundAt(log[used])' = Flash!FoundAt(log[used]) /\ Flash!FoundAt(log[Flash!Other(used)])' = Flash!FoundAt(log[Flash!Other(used)])
BY Zenon DEF Flash!FoundAt

(* Steps that leave the flash alone and do not restart. *)
LEMMA BootStep ==
  ASSUME Flash!FlashAssumption, FlashInv, Flash!Boot
  PROVE  FlashInv' /\ UNCHANGED Flash!flash
<1>1. UNCHANGED <<log, marked, used, index, dirty>> /\ flashPc = "boot" /\ used = Flash!UsedAtBoot
  BY FlashFacts DEF Flash!Boot, Flash!flash
<1>2. Flash!UsedAtBoot' = Flash!UsedAtBoot
  BY <1>1 DEF Flash!UsedAtBoot
<1>3. CASE flashPc' = "lost" /\ UNCHANGED uart
  <2>1. Flash!TypeOK'
    BY <1>1, <1>3 DEF FlashInv, Flash!TypeOK, Flash!Chained, Flash!End
  <2>2. BootInv' /\ LiveInv' /\ RoomInv' /\ Flash!WriteIsDurable'
    BY <1>1, <1>2, <1>3, SameLogs DEF FlashInv, BootInv, LiveInv, RoomInv, Flash!WriteIsDurable
  <2>3. QED BY <1>1, <2>1, <2>2 DEF FlashInv, Flash!flash
<1>4. CASE flashPc' = "idle" /\ uart' = Flash!read_baud_rate(Flash!Read(log[used]))
  <2>1. uart' \in Flash!Index
    BY <1>4, Sizes DEF Flash!read_baud_rate
  <2>2. Flash!TypeOK'
    BY <1>1, <1>4, <2>1 DEF FlashInv, Flash!TypeOK, Flash!Chained, Flash!End
  <2>3. BootInv' /\ LiveInv' /\ RoomInv'
    BY <1>1, <1>2, <1>4, SameLogs DEF FlashInv, BootInv, LiveInv, RoomInv
  <2>4. Flash!read_baud_rate(Flash!Read(log[used]))' = Flash!read_baud_rate(Flash!Read(log[used]))
    BY <1>1, Zenon
  <2>5. Flash!WriteIsDurable'
    BY <1>1, <1>2, <1>4, <2>4 DEF Flash!WriteIsDurable
  <2>6. QED BY <1>1, <2>2, <2>3, <2>5 DEF FlashInv, Flash!flash
<1>5. QED BY <1>3, <1>4 DEF Flash!Boot

LEMMA KeyStep ==
  ASSUME Flash!FlashAssumption, FlashInv, Flash!KeyPressed \/ Flash!Apply
  PROVE  FlashInv' /\ UNCHANGED Flash!flash
<1>1. UNCHANGED <<log, marked, used, dirty>> /\ flashPc \in {"idle", "apply"} /\ used = Flash!UsedAtBoot
      /\ flashPc' \in {"idle", "delete"} /\ (flashPc' = "idle" => flashPc = "apply" /\ uart' = index)
  BY FlashFacts DEF Flash!KeyPressed, Flash!Apply, Flash!flash
<1>2. Flash!UsedAtBoot' = Flash!UsedAtBoot
  BY <1>1 DEF Flash!UsedAtBoot
<1>3. index' \in Flash!Index /\ uart' \in Flash!Index \cup {None}
  <2>1. CASE Flash!KeyPressed
    <3>1. Flash!read_baud_rate(Flash!Read(log[used])) \in Flash!Index
      BY Sizes DEF Flash!read_baud_rate
    <3>2. index' \in Flash!Index
      BY <2>1, <3>1, Sizes, SMT DEF Flash!KeyPressed, Flash!Index
    <3>3. QED BY <2>1, <3>2 DEF Flash!KeyPressed, FlashInv, Flash!TypeOK
  <2>2. CASE Flash!Apply
    BY <2>2 DEF Flash!Apply, FlashInv, Flash!TypeOK
  <2>3. QED BY <2>1, <2>2
<1>4. Flash!TypeOK'
  BY <1>1, <1>3 DEF FlashInv, Flash!TypeOK, Flash!Chained, Flash!End
<1>5. BootInv' /\ LiveInv' /\ RoomInv'
  BY <1>1, <1>2, SameLogs DEF FlashInv, BootInv, LiveInv, RoomInv
<1>6. Flash!read_baud_rate(Flash!Read(log[used]))' = Flash!read_baud_rate(Flash!Read(log[used]))
  BY <1>1, Zenon
<1>7. Flash!WriteIsDurable'
  BY <1>1, <1>2, <1>6 DEF FlashInv, Flash!WriteIsDurable
<1>8. QED BY <1>1, <1>4, <1>5, <1>7 DEF FlashInv, Flash!flash

(* The old record is deleted. *)
LEMMA DeleteStep ==
  ASSUME Flash!FlashAssumption, FlashInv, Flash!DeleteOld
  PROVE  FlashInv' /\ Flash!UsedAtBoot' = Flash!UsedAtBoot /\ Flash!UsedAtBoot = used /\ Flash!FoundAt(log'[used]) = {}
<1>1. UNCHANGED <<marked, used, index, uart>> /\ dirty' = FALSE
      /\ flashPc = "delete" /\ flashPc' = "search" /\ used = Flash!UsedAtBoot
  BY FlashFacts DEF Flash!DeleteOld
<1>2. Flash!UsedAtBoot' = Flash!UsedAtBoot
  BY <1>1 DEF Flash!UsedAtBoot
<1>3. \A i, j \in Flash!FoundAt(log[used]) : i = j
  BY DEF FlashInv, LiveInv
<1>4. /\ log' \in [Flash!Sector -> Seq(Flash!Record)]
      /\ log'[used] \in Seq(Flash!Record) /\ Flash!Chained(log'[used]) /\ Flash!FoundAt(log'[used]) = {}
      /\ log'[Flash!Other(used)] = log[Flash!Other(used)]
  <2>1. CASE Flash!FoundAt(log[used]) = {}
    BY <2>1, FlashFacts DEF Flash!DeleteOld
  <2>2. CASE Flash!FoundAt(log[used]) # {}
    <3> DEFINE m == [log[used] EXCEPT ![Flash!First(log[used])].live = FALSE]
    <3>1. log' = [log EXCEPT ![used] = m]
      BY <2>2 DEF Flash!DeleteOld
    <3>2. m \in Seq(Flash!Record) /\ Flash!Chained(m) /\ Flash!FoundAt(m) = {}
      BY <1>3, <2>2, FlashFacts, Deleted
    <3> HIDE DEF m
    <3>3. QED BY <3>1, <3>2, FlashFacts
  <2>3. QED BY <2>1, <2>2
<1>5. \A s \in Flash!Sector : Flash!Chained(log'[s])
  BY <1>4, Sectors, FlashFacts
<1>6. Flash!TypeOK'
  <2>1. (\A s \in Flash!Sector : Flash!Chained(log[s]))'
    BY <1>5
  <2>2. QED BY <1>1, <1>4, <2>1, Zenon DEF FlashInv, Flash!TypeOK
<1>7. Flash!FoundAt(log[used])' = {} /\ Flash!FoundAt(log[Flash!Other(used)])' = {}
  BY <1>1, <1>4, FlashFacts
<1>8. BootInv' /\ LiveInv' /\ RoomInv' /\ Flash!WriteIsDurable'
  BY <1>1, <1>2, <1>7 DEF BootInv, LiveInv, RoomInv, Flash!WriteIsDurable
<1>9. QED BY <1>1, <1>2, <1>4, <1>6, <1>8 DEF FlashInv

(* A sector without room has a dead record, so that the write is not given *)
(* up.                                                                     *)
LEMMA SearchStep ==
  ASSUME Flash!FlashAssumption, FlashInv, Flash!Search
  PROVE  FlashInv' /\ UNCHANGED Flash!flash /\ flashPc' \in {"program", "copy"}
<1>1. UNCHANGED <<log, marked, used, index, uart>> /\ flashPc = "search" /\ used = Flash!UsedAtBoot
  BY FlashFacts DEF Flash!Search, Flash!flash
<1>2. Flash!UsedAtBoot' = Flash!UsedAtBoot
  BY <1>1 DEF Flash!UsedAtBoot
<1>3. dirty' \in BOOLEAN
  BY DEF Flash!Search, FlashInv, Flash!TypeOK
<1>4. Flash!FoundAt(log[used]) = {}
  BY <1>1 DEF FlashInv, LiveInv
<1>5. ASSUME ~Flash!Fits(log[used]) PROVE dirty'
  <2>1. log[used] # << >>
    BY <1>5, Sizes DEF Flash!Fits, Flash!End
  <2>2. 1 \in DOMAIN log[used]
    BY <2>1, FlashFacts, LogElements
  <2>3. ~log[used][1].live
    BY <1>4, <2>2 DEF Flash!FoundAt
  <2>4. QED BY <2>2, <2>3 DEF Flash!Search
<1>6. flashPc' \in {"program", "copy"} /\ (flashPc' = "program" => Flash!Fits(log[used]))
  BY <1>5 DEF Flash!Search
<1>7. Flash!TypeOK'
  BY <1>1, <1>3, <1>6 DEF FlashInv, Flash!TypeOK, Flash!Chained
<1>8. BootInv' /\ LiveInv' /\ Flash!WriteIsDurable'
  BY <1>1, <1>2, <1>6, Zenon DEF FlashInv, BootInv, LiveInv, Flash!WriteIsDurable, Flash!FoundAt
<1>9. RoomInv'
  BY <1>1, <1>6, Zenon DEF RoomInv, Flash!Fits, Flash!End
<1>10. QED BY <1>1, <1>6, <1>7, <1>8, <1>9 DEF FlashInv, Flash!flash

(* Any record programmed behind the dead ones. *)
LEMMA WrittenFacts ==
  ASSUME Flash!FlashAssumption, FlashInv, flashPc = "program",
         NEW live \in BOOLEAN, NEW span \in {RecLen, TornLen}, NEW val \in Flash!Index \cup {Flash!Blank},
         Flash!Written(live, span, val), UNCHANGED marked
  PROVE  /\ log' \in [Flash!Sector -> Seq(Flash!Record)] /\ \A s \in Flash!Sector : Flash!Chained(log'[s])
         /\ \A i, j \in Flash!FoundAt(log'[used]) : i = j
         /\ Flash!FoundAt(log'[Flash!Other(used)]) = {}
         /\ Flash!UsedAtBoot = used /\ Flash!UsedAtBoot' = used
         /\ \E r \in Flash!Record : /\ r.span = span /\ r.val = val
                              /\ Flash!Read(log'[used]) = IF live THEN r ELSE None
<1> DEFINE r == [at |-> Flash!End(log[used]), span |-> span, live |-> live, val |-> val]
           m == Append(log[used], r)
<1>1. log' = [log EXCEPT ![used] = m]
  BY DEF Flash!Written
<1>2. used = Flash!UsedAtBoot /\ Flash!UsedAtBoot' = Flash!UsedAtBoot
  BY FlashFacts DEF Flash!UsedAtBoot
<1>3. Flash!FoundAt(log[used]) = {} /\ Flash!Fits(log[used])
  BY DEF FlashInv, LiveInv, RoomInv
<1>4. r \in [at : {Flash!End(log[used])}, span : {RecLen, TornLen}, live : BOOLEAN, val : Flash!Index \cup {Flash!Blank}]
  OBVIOUS
<1>5. r.span = span /\ r.val = val /\ r.live = live
  OBVIOUS
<1> HIDE DEF r
<1>6. /\ m \in Seq(Flash!Record) /\ Flash!Chained(m) /\ \A i, j \in Flash!FoundAt(m) : i = j
      /\ Flash!Read(m) = (IF r.live THEN r ELSE None) /\ r \in Flash!Record
  <2>1. log[used] \in Seq(Flash!Record) /\ Flash!Chained(log[used])
    BY FlashFacts
  <2>2. QED BY <1>3, <1>4, <2>1, Appended
<1> HIDE DEF m
<1>7. log' \in [Flash!Sector -> Seq(Flash!Record)] /\ log'[used] = m /\ log'[Flash!Other(used)] = log[Flash!Other(used)]
  BY <1>1, <1>6, FlashFacts
<1>8. \A s \in Flash!Sector : Flash!Chained(log'[s])
  BY <1>6, <1>7, FlashFacts, Sectors
<1>9. QED BY <1>2, <1>5, <1>6, <1>7, <1>8, FlashFacts

LEMMA ProgramStep ==
  ASSUME Flash!FlashAssumption, FlashInv, Flash!Program
  PROVE  FlashInv' /\ Flash!Cell!Store
<1>1. UNCHANGED <<marked, used, index, dirty, uart>> /\ flashPc = "program" /\ flashPc' = "apply"
      /\ Flash!Written(TRUE, RecLen, index) /\ index \in Flash!Index
  BY DEF Flash!Program, FlashInv, Flash!TypeOK
<1>2. /\ log' \in [Flash!Sector -> Seq(Flash!Record)] /\ \A s \in Flash!Sector : Flash!Chained(log'[s])
      /\ \A i, j \in Flash!FoundAt(log'[used]) : i = j
      /\ Flash!FoundAt(log'[Flash!Other(used)]) = {}
      /\ Flash!UsedAtBoot = used /\ Flash!UsedAtBoot' = used
      /\ \E r \in Flash!Record : /\ r.span = RecLen /\ r.val = index
                           /\ Flash!Read(log'[used]) = IF TRUE THEN r ELSE None
  BY <1>1, WrittenFacts
<1>3. PICK r \in Flash!Record : r.span = RecLen /\ r.val = index /\ Flash!Read(log'[used]) = r
  BY <1>2
<1>4. r # None /\ RecLen # TornLen
  BY Sizes
<1>5. Flash!TypeOK'
  <2>1. (\A s \in Flash!Sector : Flash!Chained(log[s]))'
    BY <1>2
  <2>2. QED BY <1>1, <1>2, <2>1, Zenon DEF FlashInv, Flash!TypeOK
<1>6. BootInv' /\ RoomInv'
  BY <1>1, <1>2 DEF BootInv, RoomInv
<1>7. LiveInv'
  <2>1. (\A i, j \in Flash!FoundAt(log[used]) : i = j)' /\ Flash!FoundAt(log[Flash!Other(used)])' = {}
    BY <1>1, <1>2
  <2>2. QED BY <1>1, <2>1 DEF LiveInv
<1>8. Flash!WriteIsDurable'
  <2>1. Flash!Read(log[used])' = r
    BY <1>1, <1>3
  <2>2. ~Flash!Overrun(r) /\ Flash!read_baud_rate(r) = index
    BY <1>1, <1>3, <1>4 DEF Flash!Overrun, Flash!read_baud_rate
  <2>3. (~Flash!Overrun(Flash!Read(log[used])))' /\ Flash!read_baud_rate(Flash!Read(log[used]))' = index'
    BY <1>1, <2>1, <2>2
  <2>4. QED BY <1>1, <1>2, <2>3 DEF Flash!WriteIsDurable
<1>9. Flash!Cell!Store
  <2>1. Flash!Stored = None
    BY <1>1, <1>2 DEF FlashInv, LiveInv, Flash!Stored, Flash!Content, Flash!Read
  <2>2. Flash!Stored' = index
    <3>1. Flash!Read(log[Flash!UsedAtBoot])' = r
      BY <1>2, <1>3
    <3>2. Flash!Content(r) = index
      BY <1>3, <1>4 DEF Flash!Content
    <3>3. QED BY <3>1, <3>2 DEF Flash!Stored
  <2>3. /\ Flash!BeingWritten = index /\ index # None /\ Flash!BeingWritten' = None
        /\ Flash!Running /\ Flash!Running'
    BY <1>1, Sizes DEF Flash!BeingWritten, Flash!Running
  <2>4. QED BY <2>1, <2>2, <2>3, Zenon DEF Flash!Cell!Store
<1>10. QED BY <1>5, <1>6, <1>7, <1>8, <1>9 DEF FlashInv

(* An exchange of sectors, of which the old one holds nothing. *)
LEMMA SwapStep ==
  ASSUME Flash!FlashAssumption, FlashInv, Flash!tinyFlash_Swap
  PROVE  FlashInv' /\ Flash!Stored = None /\ Flash!Stored' = None
<1>1. /\ flashPc \in {"copy", "mark", "erase"} /\ UNCHANGED <<index, dirty, uart>>
      /\ Flash!FoundAt(log[used]) = {} /\ Flash!FoundAt(log[Flash!Other(used)]) = {}
  BY DEF Flash!tinyFlash_Swap, Flash!SwapCopies, Flash!SwapMarks, Flash!SwapErases, FlashInv, LiveInv
<1>2. /\ log' \in [Flash!Sector -> Seq(Flash!Record)] /\ used' \in Flash!Sector /\ marked' \in [Flash!Sector -> BOOLEAN]
      /\ \A s \in Flash!Sector : Flash!Chained(log'[s]) /\ Flash!FoundAt(log'[s]) = {}
      /\ flashPc' \in {"mark", "erase", "search"}
      /\ (IF flashPc' = "erase" THEN marked'[Flash!Other(used')] ELSE used' = Flash!UsedAtBoot')
  <2>1. \A s \in Flash!Sector : Flash!Chained(log[s]) /\ Flash!FoundAt(log[s]) = {}
    BY <1>1, FlashFacts, Sectors
  <2>2. CASE Flash!SwapCopies
    <3>1. UNCHANGED <<log, marked, used>> /\ flashPc = "copy" /\ flashPc' = "mark"
      BY <1>1, <2>2 DEF Flash!SwapCopies
    <3>2. Flash!UsedAtBoot' = Flash!UsedAtBoot
      BY <3>1 DEF Flash!UsedAtBoot
    <3>3. QED BY <2>1, <3>1, <3>2, FlashFacts
  <2>3. CASE Flash!SwapMarks
    <3>1. UNCHANGED <<log, used>> /\ flashPc' = "erase" /\ marked' = [marked EXCEPT ![Flash!Other(used)] = TRUE]
      BY <2>3 DEF Flash!SwapMarks
    <3>2. QED BY <2>1, <3>1, FlashFacts
  <2>4. CASE Flash!SwapErases
    <3>1. /\ log' = [log EXCEPT ![used] = << >>] /\ marked' = [marked EXCEPT ![used] = FALSE]
          /\ used' = Flash!Other(used) /\ flashPc' = "search" /\ flashPc = "erase"
      BY <2>4 DEF Flash!SwapErases
    <3>2. << >> \in Seq(Flash!Record) /\ Flash!Chained(<< >>) /\ Flash!FoundAt(<< >>) = {}
      BY EmptySeq DEF Flash!FoundAt, Flash!Chained
    <3>3. \A s \in Flash!Sector : log'[s] = IF s = used THEN << >> ELSE log[s]
      BY <3>1, FlashFacts
    <3>4. marked'[used] = FALSE /\ marked'[Flash!Other(used)] = TRUE
      BY <3>1, FlashFacts DEF FlashInv, BootInv, Flash!TypeOK
    <3>5. Flash!UsedAtBoot' = Flash!Other(used)
      BY <3>4, FlashFacts DEF Flash!UsedAtBoot, Flash!Other, Flash!Sector
    <3>6. log' \in [Flash!Sector -> Seq(Flash!Record)] /\ marked' \in [Flash!Sector -> BOOLEAN]
      BY <3>1, <3>2, FlashFacts
    <3>7. \A s \in Flash!Sector : Flash!Chained(log'[s]) /\ Flash!FoundAt(log'[s]) = {}
      BY <2>1, <3>2, <3>3
    <3>8. QED BY <3>1, <3>5, <3>6, <3>7, FlashFacts
  <2>5. QED BY <2>2, <2>3, <2>4 DEF Flash!tinyFlash_Swap
<1>3. Flash!TypeOK'
  <2>1. (\A s \in Flash!Sector : Flash!Chained(log[s]))'
    BY <1>2
  <2>2. QED BY <1>1, <1>2, <2>1, Zenon DEF FlashInv, Flash!TypeOK
<1>4. Flash!FoundAt(log[used])' = {} /\ Flash!FoundAt(log[Flash!Other(used)])' = {}
  BY <1>2, Sectors
<1>5. BootInv' /\ LiveInv' /\ RoomInv' /\ Flash!WriteIsDurable'
  BY <1>2, <1>4 DEF BootInv, LiveInv, RoomInv, Flash!WriteIsDurable
<1>6. Flash!FoundAt(log[Flash!UsedAtBoot]) = {} /\ Flash!FoundAt(log[Flash!UsedAtBoot])' = {}
  <2>1. Flash!UsedAtBoot \in Flash!Sector /\ Flash!UsedAtBoot' \in Flash!Sector
    BY DEF Flash!UsedAtBoot, Flash!Sector
  <2>2. QED BY <1>1, <1>2, <2>1, FlashFacts, Sectors
<1>7. QED BY <1>3, <1>5, <1>6 DEF FlashInv, Flash!Stored, Flash!Content, Flash!Read

-----------------------------------------------------------------------------
(* A restart finds the one live record, whichever sector it chooses. *)
LEMMA PowerLossStep ==
  ASSUME Flash!FlashAssumption, FlashInv, Flash!PowerLoss
  PROVE  FlashInv' /\ UNCHANGED Flash!flash
<1>1. UNCHANGED <<log, marked>> /\ used' = Flash!UsedAtBoot' /\ flashPc' = "boot" /\ Flash!UsedAtBoot' = Flash!UsedAtBoot
      /\ index' = 0 /\ dirty' = FALSE /\ uart' = None
  BY DEF Flash!PowerLoss, Flash!Restarts, Flash!flash, Flash!UsedAtBoot
<1>2. used' \in Flash!Sector /\ Flash!UsedAtBoot \in Flash!Sector
  BY <1>1, FlashFacts
<1>3. Flash!TypeOK'
  BY <1>1, <1>2, Sizes DEF FlashInv, Flash!TypeOK, Flash!Chained
<1>4. /\ \A i, j \in Flash!FoundAt(log[Flash!UsedAtBoot]) : i = j
      /\ Flash!FoundAt(log[Flash!Other(Flash!UsedAtBoot)]) = {}
  <2>1. CASE Flash!UsedAtBoot = used
    BY <2>1 DEF FlashInv, LiveInv
  <2>2. CASE Flash!UsedAtBoot # used
    <3>1. flashPc = "erase" /\ Flash!FoundAt(log[used]) = {}
      BY <2>2, FlashFacts DEF FlashInv, LiveInv
    <3>2. Flash!UsedAtBoot = Flash!Other(used) /\ Flash!Other(Flash!UsedAtBoot) = used
      BY <2>2, FlashFacts, Sectors
    <3>3. QED BY <3>1, <3>2, FlashFacts
  <2>3. QED BY <2>1, <2>2
<1>5. LiveInv'
  BY <1>1, <1>4, Zenon DEF LiveInv, Flash!FoundAt
<1>6. BootInv' /\ RoomInv' /\ Flash!WriteIsDurable'
  BY <1>1 DEF BootInv, RoomInv, Flash!WriteIsDurable
<1>7. QED BY <1>1, <1>3, <1>5, <1>6 DEF FlashInv, Flash!flash

LEMMA PowerLossInRecordStep ==
  ASSUME Flash!FlashAssumption, FlashInv, NEW n \in 1 .. 3, Flash!PowerLossInRecord(n)
  PROVE  FlashInv' /\ Flash!Cell!CutShort
<1> DEFINE live == n # 1
           span == IF n < 3 THEN TornLen ELSE RecLen
<1>1. /\ UNCHANGED marked /\ flashPc = "program" /\ Flash!Written(live, span, Flash!Blank)
      /\ used' = Flash!UsedAtBoot /\ flashPc' = "boot" /\ index' = 0 /\ dirty' = FALSE /\ uart' = None
  BY DEF Flash!PowerLossInRecord, Flash!Restarts
<1>2. live \in BOOLEAN /\ span \in {RecLen, TornLen} /\ Flash!Blank \in Flash!Index \cup {Flash!Blank}
  OBVIOUS
<1> HIDE DEF live, span
<1>3. /\ log' \in [Flash!Sector -> Seq(Flash!Record)] /\ \A s \in Flash!Sector : Flash!Chained(log'[s])
      /\ \A i, j \in Flash!FoundAt(log'[used]) : i = j
      /\ Flash!FoundAt(log'[Flash!Other(used)]) = {}
      /\ Flash!UsedAtBoot = used /\ Flash!UsedAtBoot' = used
      /\ \E r \in Flash!Record : /\ r.span = span /\ r.val = Flash!Blank
                           /\ Flash!Read(log'[used]) = IF live THEN r ELSE None
  BY <1>1, <1>2, WrittenFacts
<1>4. used' = used /\ used \in Flash!Sector
  BY <1>1, <1>3, FlashFacts
<1>5. Flash!TypeOK'
  <2>1. (\A s \in Flash!Sector : Flash!Chained(log[s]))'
    BY <1>3
  <2>2. marked' \in [Flash!Sector -> BOOLEAN] /\ index' \in Flash!Index
    BY <1>1, FlashFacts, Sizes
  <2>3. QED BY <1>1, <1>3, <1>4, <2>1, <2>2 DEF Flash!TypeOK
<1>6. LiveInv'
  <2>1. (\A i, j \in Flash!FoundAt(log[used]) : i = j)' /\ Flash!FoundAt(log[Flash!Other(used)])' = {}
    BY <1>3, <1>4
  <2>2. QED BY <1>1, <2>1 DEF LiveInv
<1>7. BootInv' /\ RoomInv' /\ Flash!WriteIsDurable'
  BY <1>1, <1>3, <1>4 DEF BootInv, RoomInv, Flash!WriteIsDurable
<1>8. Flash!Cell!CutShort
  <2>1. Flash!Stored = None
    BY <1>1, <1>3 DEF FlashInv, LiveInv, Flash!Stored, Flash!Content, Flash!Read
  <2>2. PICK r \in Flash!Record : /\ r.span = span /\ r.val = Flash!Blank
                            /\ Flash!Read(log'[used]) = IF live THEN r ELSE None
    BY <1>3
  <2>3. Flash!Read(log[Flash!UsedAtBoot])' = Flash!Read(log'[used])
    BY <1>3
  <2>4. Flash!Content(Flash!Read(log'[used])) \in {None, Flash!Endless, Flash!Blank}
    BY <2>2 DEF Flash!Content
  <2>5. Flash!Stored' \in {None, Flash!Endless, Flash!Blank}
    BY <2>3, <2>4 DEF Flash!Stored
  <2>6. Flash!BeingWritten = index /\ index # None
    BY <1>1, Sizes DEF Flash!BeingWritten, FlashInv, Flash!TypeOK
  <2>7. Flash!BeingWritten' = None /\ ~Flash!Running'
    BY <1>1 DEF Flash!BeingWritten, Flash!Running
  <2>8. Flash!Cell!Stop
    BY <2>7, Zenon DEF Flash!Cell!Stop
  <2>9. QED BY <2>1, <2>5, <2>6, <2>8, Zenon DEF Flash!Cell!CutShort
<1>9. QED BY <1>5, <1>6, <1>7, <1>8 DEF FlashInv

-----------------------------------------------------------------------------
(* Every step keeps the invariant ... *)
LEMMA FlashNextInv ==
  ASSUME Flash!FlashAssumption, FlashInv, [Flash!Next]_Flash!vars
  PROVE  FlashInv'
<1>1. CASE UNCHANGED Flash!vars
  <2>1. UNCHANGED <<log, marked, used, flashPc, index, dirty, uart>>
    BY <1>1 DEF Flash!vars, Flash!flash
  <2>2. Flash!TypeOK'
    BY <2>1, Zenon DEF FlashInv, Flash!TypeOK, Flash!Chained
  <2>3. BootInv' /\ RoomInv'
    BY <2>1, Zenon DEF FlashInv, BootInv, Flash!UsedAtBoot, RoomInv, Flash!Fits, Flash!End
  <2>4. LiveInv'
    BY <2>1, Zenon DEF FlashInv, LiveInv, Flash!FoundAt
  <2>5. Flash!WriteIsDurable'
    <3>1. (Flash!UsedAtBoot' = Flash!UsedAtBoot) /\ Flash!Read(log[used])' = Flash!Read(log[used])
      BY <2>1 DEF Flash!UsedAtBoot, Flash!Read, Flash!First, Flash!FoundAt
    <3>2. Flash!WriteIsDurable
      BY DEF FlashInv
    <3>3. QED BY <2>1, <3>1, <3>2 DEF Flash!WriteIsDurable
  <2>6. QED BY <2>2, <2>3, <2>4, <2>5 DEF FlashInv
<1>2. QED
  BY <1>1, BootStep, KeyStep, DeleteStep, SearchStep, ProgramStep, SwapStep, PowerLossStep, PowerLossInRecordStep
     DEF Flash!Next, Flash!change_baud_rate, Flash!tinyFlash_Write

LEMMA SameCell ==
  ASSUME UNCHANGED Flash!flash
  PROVE  Flash!Stored' = Flash!Stored
BY DEF Flash!flash, Flash!UsedAtBoot, Flash!Stored

(* A program that starts has not found a record without length. *)
LEMMA StartOfCell ==
  ASSUME Flash!FlashAssumption, FlashInv, Flash!Boot
  PROVE  [Flash!Cell!Start]_Flash!Cell!vars
<1>1. Flash!Stored' = Flash!Stored
  BY BootStep, SameCell
<1>2. /\ ~Flash!Running /\ Flash!BeingWritten = None /\ Flash!BeingWritten' = None
      /\ Flash!Running' => ~Flash!Overrun(Flash!Read(log[used])) /\ used = Flash!UsedAtBoot
  BY FlashFacts DEF Flash!Boot, Flash!Running, Flash!BeingWritten
<1>3. CASE ~Flash!Running'
  <2>1. Flash!Running' = Flash!Running
    BY <1>2, <1>3 DEF Flash!Running
  <2>2. QED BY <1>1, <1>2, <2>1, Zenon DEF Flash!Cell!vars
<1>4. CASE Flash!Running'
  <2>1. Flash!Read(log[used]) = None \/ Flash!Read(log[used]) \in Flash!Record
    <3>1. log[used] \in Seq(Flash!Record) /\ \A i, j \in Flash!FoundAt(log[used]) : i = j
      BY FlashFacts DEF FlashInv, LiveInv
    <3>2. CASE Flash!FoundAt(log[used]) = {}
      BY <3>2 DEF Flash!Read
    <3>3. CASE Flash!FoundAt(log[used]) # {}
      <4>1. PICK k \in Flash!FoundAt(log[used]) : TRUE
        BY <3>3
      <4>2. Flash!Read(log[used]) = log[used][k] /\ k \in DOMAIN log[used]
        BY <3>1, <4>1, OnlyOneFound DEF Flash!FoundAt
      <4>3. QED BY <3>1, <4>2, LogElements
    <3>4. QED BY <3>2, <3>3
  <2>2. Flash!Stored = Flash!Content(Flash!Read(log[used]))
    BY <1>2, <1>4 DEF Flash!Stored
  <2>3. Flash!Stored # Flash!Endless
    <3>1. CASE Flash!Read(log[used]) = None
      BY <2>2, <3>1 DEF Flash!Content, Flash!Endless, Flash!FlashAssumption
    <3>2. CASE Flash!Read(log[used]) # None
      <4>1. Flash!Stored = Flash!Read(log[used]).val
        BY <1>2, <1>4, <2>2, <3>2 DEF Flash!Content, Flash!Overrun
      <4>2. Flash!Read(log[used]).val \in Nat
        BY <2>1, <3>2, Sizes DEF Flash!Record, Flash!Index, Flash!Blank
      <4>3. QED BY <4>1, <4>2 DEF Flash!Endless
    <3>3. QED BY <3>1, <3>2
  <2>4. QED BY <1>1, <1>2, <1>4, <2>3, Zenon DEF Flash!Cell!Start
<1>5. QED BY <1>3, <1>4

(* ... and is one of the cell, or none. *)
LEMMA CellStep ==
  ASSUME Flash!FlashAssumption, FlashInv, [Flash!Next]_Flash!vars
  PROVE  [Flash!Cell!Next]_Flash!Cell!vars
<1>1. flashPc \in {"delete", "search", "program", "copy", "mark", "erase"}
      => Flash!BeingWritten = index /\ index # None /\ Flash!Running
  BY Sizes DEF FlashInv, Flash!TypeOK, Flash!BeingWritten, Flash!Running
<1>2. CASE Flash!Boot
  BY <1>2, StartOfCell DEF Flash!Cell!Next
<1>3. CASE Flash!KeyPressed
  <2>1. Flash!Stored' = Flash!Stored /\ index' \in Flash!Index
    BY <1>3, KeyStep, SameCell DEF FlashInv, Flash!TypeOK
  <2>2. /\ Flash!BeingWritten = None /\ Flash!BeingWritten' = index'
        /\ Flash!Running /\ Flash!Running'
    BY <1>3 DEF Flash!KeyPressed, Flash!BeingWritten, Flash!Running
  <2>3. Flash!Cell!Begin(index')
    BY <2>1, <2>2, Zenon DEF Flash!Cell!Begin
  <2>4. QED BY <2>1, <2>3 DEF Flash!Cell!Next
<1>4. CASE Flash!Apply
  <2>1. Flash!Stored' = Flash!Stored
    BY <1>4, KeyStep, SameCell
  <2>2. /\ Flash!BeingWritten = None /\ Flash!BeingWritten' = None
        /\ Flash!Running /\ Flash!Running'
    BY <1>4 DEF Flash!Apply, Flash!BeingWritten, Flash!Running
  <2>3. QED BY <2>1, <2>2, Zenon DEF Flash!Cell!vars
<1>5. CASE Flash!DeleteOld
  <2>1. Flash!UsedAtBoot' = used /\ Flash!FoundAt(log'[used]) = {}
    BY <1>5, DeleteStep
  <2>2. Flash!Stored' = None
    BY <2>1 DEF Flash!Stored, Flash!Content, Flash!Read
  <2>3. Flash!BeingWritten' = Flash!BeingWritten /\ Flash!Running'
    BY <1>5 DEF Flash!DeleteOld, Flash!BeingWritten, Flash!Running
  <2>4. flashPc = "delete"
    BY <1>5 DEF Flash!DeleteOld
  <2>5. Flash!Cell!Clear
    BY <1>1, <2>2, <2>3, <2>4, Zenon DEF Flash!Cell!Clear
  <2>6. QED BY <2>5 DEF Flash!Cell!Next
<1>6. CASE Flash!Search
  <2>1. Flash!Stored' = Flash!Stored /\ flashPc' \in {"program", "copy"} /\ index' = index /\ flashPc = "search"
    BY <1>6, SearchStep, SameCell DEF Flash!Search
  <2>2. Flash!BeingWritten' = Flash!BeingWritten /\ Flash!Running'
    BY <1>1, <2>1 DEF Flash!BeingWritten, Flash!Running
  <2>3. QED BY <1>1, <2>1, <2>2, Zenon DEF Flash!Cell!vars
<1>7. CASE Flash!Program
  BY <1>7, ProgramStep DEF Flash!Cell!Next
<1>8. CASE Flash!tinyFlash_Swap
  <2>1. Flash!Stored' = Flash!Stored
    BY <1>8, SwapStep
  <2>2. flashPc \in {"copy", "mark", "erase"} /\ flashPc' \in {"mark", "erase", "search"} /\ index' = index
    BY <1>8 DEF Flash!tinyFlash_Swap, Flash!SwapCopies, Flash!SwapMarks, Flash!SwapErases
  <2>3. Flash!BeingWritten' = Flash!BeingWritten /\ Flash!Running'
    BY <1>1, <2>2 DEF Flash!BeingWritten, Flash!Running
  <2>4. QED BY <1>1, <2>1, <2>2, <2>3, Zenon DEF Flash!Cell!vars
<1>9. CASE Flash!PowerLoss
  <2>1. Flash!Stored' = Flash!Stored
    BY <1>9, PowerLossStep, SameCell
  <2>2. Flash!BeingWritten' = None /\ ~Flash!Running'
    BY <1>9 DEF Flash!PowerLoss, Flash!Restarts, Flash!BeingWritten, Flash!Running
  <2>3. Flash!Cell!PowerLoss
    BY <2>1, <2>2, Zenon DEF Flash!Cell!PowerLoss, Flash!Cell!Stop
  <2>4. QED BY <2>3 DEF Flash!Cell!Next
<1>10. ASSUME NEW n \in 1 .. 3, Flash!PowerLossInRecord(n)
       PROVE  Flash!Cell!Next
  BY <1>10, PowerLossInRecordStep DEF Flash!Cell!Next
<1>11. CASE UNCHANGED Flash!vars
  BY <1>11, SameCell, Zenon DEF Flash!vars, Flash!Cell!vars, Flash!BeingWritten, Flash!Running
<1>12. QED
  BY <1>2, <1>3, <1>4, <1>5, <1>6, <1>7, <1>8, <1>9, <1>10, <1>11
     DEF Flash!Next, Flash!change_baud_rate, Flash!tinyFlash_Write

LEMMA FlashInvariant ==
  ASSUME Flash!FlashAssumption
  PROVE  Flash!Spec => []FlashInv
<1>1. Flash!Init => FlashInv
  BY FlashInitInv
<1>2. FlashInv /\ [Flash!Next]_Flash!vars => FlashInv'
  BY FlashNextInv
<1>3. QED BY <1>1, <1>2, PTL DEF Flash!Spec

(***************************************************************************)
(* Records follow one another without gaps and never run beyond the end of *)
(* the sector, also after any number of exchanges cut short                *)
(* (tinyFlash.c:133-147).                                                  *)
(***************************************************************************)
THEOREM FlashTypeCorrect ==
  ASSUME Flash!FlashAssumption
  PROVE  Flash!Spec => []Flash!TypeOK
<1>1. FlashInv => Flash!TypeOK
  BY DEF FlashInv
<1>2. QED BY <1>1, FlashInvariant, PTL

(***************************************************************************)
(* A write that has returned is what a restart reads, for every length of  *)
(* the sector (tinyFlash.c:45-67, 126-184).                                *)
(***************************************************************************)
THEOREM FlashWriteIsDurable ==
  ASSUME Flash!FlashAssumption
  PROVE  Flash!Spec => []Flash!WriteIsDurable
<1>1. FlashInv => Flash!WriteIsDurable
  BY DEF FlashInv
<1>2. QED BY <1>1, FlashInvariant, PTL

(***************************************************************************)
(* tinyFlash_Swap never finds a live record, so that it cannot program one *)
(* over another (tinyFlash.c:186-226).                                     *)
(***************************************************************************)
THEOREM FlashNothingToCopy ==
  ASSUME Flash!FlashAssumption
  PROVE  Flash!Spec => []Flash!NothingToCopy
<1>1. FlashInv => Flash!NothingToCopy
  BY DEF FlashInv, LiveInv, Flash!NothingToCopy
<1>2. QED BY <1>1, FlashInvariant, PTL

(***************************************************************************)
(* The two sectors implement one cell.  Every flash operation and every    *)
(* power loss is a step of BaudCell or none; in particular an exchange of  *)
(* sectors is none, wherever it is cut short, and a write that returns has *)
(* stored its value (tinyFlash.c:45-236).                                  *)
(***************************************************************************)
THEOREM FlashImplementsCell ==
  ASSUME Flash!FlashAssumption
  PROVE  Flash!Spec => Flash!FlashIsCell
<1>1. Flash!Init => FlashInv /\ Flash!Cell!Init
  BY FlashInitInv
<1>2. FlashInv /\ [Flash!Next]_Flash!vars => FlashInv' /\ [Flash!Cell!Next]_Flash!Cell!vars
  BY FlashNextInv, CellStep
<1>3. QED BY <1>1, <1>2, PTL DEF Flash!Spec, Flash!FlashIsCell, Flash!Cell!Spec

-----------------------------------------------------------------------------
(***************************************************************************)
(* The LEDs.  While one is lit, tick and stamp are as far apart as the     *)
(* real time since, and that is less than a whole wrap because the last    *)
(* pass that found nothing to send would have darkened it.                 *)
(***************************************************************************)
LedsType ==
  /\ led \in Lights!Led
  /\ tick \in 0 .. U32 - 1 /\ stamp \in 0 .. U32 - 1
  /\ lit \in BOOLEAN
  /\ age \in Nat /\ busy \in 0 .. MaxBusy

LedsInv ==
  /\ LedsType
  /\ lit => age <= Lights!Timer[led] + busy
  /\ lit => tick - stamp = age \/ tick - stamp = age - U32

LEMMA LedTimes ==
  ASSUME Lights!LedsAssumption, NEW l \in Lights!Led
  PROVE  /\ U32 \in Nat \ {0} /\ MaxBusy \in Nat /\ Lights!Timer[l] \in Nat
         /\ Lights!Timer[l] + MaxBusy < U32
BY DEF Lights!LedsAssumption, Lights!Led, Lights!Timer

LEMMA LedsInit ==
  ASSUME Lights!LedsAssumption, Lights!Init
  PROVE  LedsInv
<1>1. U32 \in Nat \ {0} /\ MaxBusy \in Nat
  BY LedTimes DEF Lights!Init
<1>2. ~lit /\ lit \in BOOLEAN
  BY Zenon DEF Lights!Init
<1>3. LedsType
  BY <1>1, <1>2 DEF Lights!Init, LedsType
<1>4. QED BY <1>2, <1>3 DEF LedsInv

(* Under the invariant the stamp is looked at in time. *)
LEMMA ElapsedIsAge ==
  ASSUME Lights!LedsAssumption, LedsInv, lit
  PROVE  Lights!Elapsed <=> age > Lights!Timer[led]
<1>1. /\ U32 \in Nat \ {0} /\ MaxBusy \in Nat /\ Lights!Timer[led] \in Nat
      /\ Lights!Timer[led] + MaxBusy < U32
  BY LedTimes DEF LedsInv, LedsType
<1>2. age \in 0 .. U32 - 1
  BY <1>1 DEF LedsInv, LedsType
<1>3. (tick - stamp) % U32 = age
  <2>1. CASE tick - stamp = age
    BY <1>1, <1>2, <2>1, ModSmall
  <2>2. CASE tick - stamp = age - U32
    <3>1. PICK q \in Int : q = 0 - 1
      OBVIOUS
    <3>2. tick - stamp = U32 * q + age /\ tick - stamp \in Int
      BY <1>1, <1>2, <2>2, <3>1
    <3>3. age \in Int /\ 0 <= age /\ age < U32
      BY <1>1, <1>2
    <3>4. QED BY <1>1, <3>2, <3>3, ModUnique
  <2>3. QED BY <2>1, <2>2 DEF LedsInv
<1>4. QED BY <1>3 DEF Lights!Elapsed

(* What lights or darkens the LED, and the passing of time, keep the       *)
(* invariant.                                                              *)
LEMMA LedsPass ==
  ASSUME Lights!LedsAssumption, LedsInv, Lights!TimePasses
  PROVE  LedsInv'
<1>1. /\ U32 \in Nat \ {0} /\ MaxBusy \in Nat /\ Lights!Timer[led] \in Nat
      /\ Lights!Timer[led] + MaxBusy < U32
  BY LedTimes DEF LedsInv, LedsType
<1>2. /\ tick' = (tick + 1) % U32 /\ stamp' = stamp /\ led' = led /\ lit' = lit
      /\ busy' = busy + 1 /\ busy < MaxBusy
      /\ age' = IF lit THEN age + 1 ELSE 0
  BY DEF Lights!TimePasses
<1>3. tick' = IF tick + 1 < U32 THEN tick + 1 ELSE 0
  <2>1. CASE tick + 1 < U32
    <3>1. tick + 1 \in 0 .. U32 - 1
      BY <1>1, <2>1 DEF LedsInv, LedsType
    <3>2. QED BY <1>1, <1>2, <2>1, <3>1, ModSmall
  <2>2. CASE ~(tick + 1 < U32)
    <3>1. tick + 1 = U32 * 1 + 0 /\ tick + 1 \in Int
      BY <1>1, <2>2 DEF LedsInv, LedsType
    <3>2. (tick + 1) % U32 = 0
      BY <1>1, <3>1, ModUnique
    <3>3. QED BY <1>2, <2>2, <3>2
  <2>3. QED BY <2>1, <2>2
<1>4. LedsType'
  BY <1>1, <1>2, <1>3 DEF LedsInv, LedsType
<1>5. ASSUME lit'
      PROVE  /\ age' <= Lights!Timer[led] + busy'
             /\ tick' - stamp' = age' \/ tick' - stamp' = age' - U32
  <2>1. lit /\ age \in Nat /\ busy \in Nat /\ age <= Lights!Timer[led] + busy
        /\ (tick - stamp = age \/ tick - stamp = age - U32)
        /\ tick \in 0 .. U32 - 1 /\ stamp \in 0 .. U32 - 1
    BY <1>2, <1>5 DEF LedsInv, LedsType
  <2>2. age + 1 < U32
    BY <1>1, <1>2, <2>1
  <2>3. CASE tick + 1 < U32
    BY <1>1, <1>2, <1>3, <2>1, <2>3
  <2>4. CASE ~(tick + 1 < U32)
    <3>1. tick = U32 - 1 /\ tick - stamp >= 0
      BY <1>1, <2>1, <2>4
    <3>2. tick - stamp = age
      BY <1>1, <2>1, <2>2, <3>1
    <3>3. QED BY <1>1, <1>2, <1>3, <2>1, <2>4, <3>1, <3>2
  <2>5. QED BY <2>3, <2>4
<1>6. Lights!Timer[led]' = Lights!Timer[led]
  BY <1>2 DEF Lights!Timer
<1>7. QED BY <1>4, <1>5, <1>6 DEF LedsInv

LEMMA LedsLight ==
  ASSUME Lights!LedsAssumption, LedsInv, UNCHANGED <<led, tick, busy>>,
         \/ UNCHANGED <<stamp, lit, age>>
         \/ stamp' = tick /\ lit' = TRUE /\ age' = 0
         \/ lit' \in {FALSE, lit} /\ age' = (IF lit' THEN age ELSE 0) /\ UNCHANGED stamp
  PROVE  LedsInv'
<1>1. /\ U32 \in Nat \ {0} /\ MaxBusy \in Nat /\ Lights!Timer[led] \in Nat
      /\ Lights!Timer[led]' = Lights!Timer[led]
  BY LedTimes DEF LedsInv, LedsType, Lights!Timer
<1>2. CASE UNCHANGED <<stamp, lit, age>>
  BY <1>1, <1>2 DEF LedsInv, LedsType
<1>3. CASE stamp' = tick /\ lit' = TRUE /\ age' = 0
  BY <1>1, <1>3 DEF LedsInv, LedsType
<1>4. CASE lit' \in {FALSE, lit} /\ age' = (IF lit' THEN age ELSE 0) /\ UNCHANGED stamp
  <2>1. lit' \in BOOLEAN /\ (lit' => lit)
    <3>1. lit \in BOOLEAN
      BY DEF LedsInv, LedsType
    <3>2. lit' = FALSE \/ lit' = lit
      BY <1>4
    <3>3. CASE lit' = FALSE
      <4>1. ~lit'
        BY <3>3
      <4>2. lit' \in BOOLEAN
        BY <3>3
      <4>3. QED BY <4>1, <4>2
    <3>4. CASE lit' = lit
      <4>1. lit' \in BOOLEAN
        BY <3>1, <3>4
      <4>2. lit' => lit
        BY <3>4
      <4>3. QED BY <4>1, <4>2
    <3>5. QED BY <3>2, <3>3, <3>4
  <2>2. CASE lit'
    <3>1. lit /\ age' = age
      BY <1>4, <2>1, <2>2
    <3>2. LedsType'
      BY <1>1, <1>4, <2>1, <3>1 DEF LedsInv, LedsType
    <3>3. QED BY <1>1, <1>4, <3>1, <3>2 DEF LedsInv
  <2>3. CASE ~lit'
    <3>1. age' = 0
      BY <1>4, <2>3
    <3>2. LedsType'
      BY <1>1, <1>4, <2>1, <3>1 DEF LedsInv, LedsType
    <3>3. QED BY <2>3, <3>2 DEF LedsInv
  <2>4. QED BY <2>2, <2>3
<1>5. QED BY <1>2, <1>3, <1>4

LEMMA LedsIdle ==
  ASSUME Lights!LedsAssumption, LedsInv, Lights!FifoIdle
  PROVE  /\ LedsInv'
         /\ lit' <=> lit /\ age <= Lights!Timer[led]
<1>1. led' = led /\ tick' = tick /\ busy' = 0
  BY DEF Lights!FifoIdle
<1>2. U32 \in Nat \ {0} /\ MaxBusy \in Nat /\ Lights!Timer[led] \in Nat
  BY LedTimes DEF LedsInv, LedsType
<1>3. Lights!Timer[led]' = Lights!Timer[led]
  BY <1>1 DEF Lights!Timer
<1>4. LedsType
  BY DEF LedsInv
<1>5. CASE Lights!Elapsed
  <2>1. stamp' = tick /\ lit' = FALSE /\ age' = 0
    BY <1>5 DEF Lights!FifoIdle
  <2>2. lit => age > Lights!Timer[led]
    BY <1>5, ElapsedIsAge
  <2>3. ~(lit /\ age <= Lights!Timer[led])
    BY <1>2, <1>4, <2>2 DEF LedsType
  <2>4. ~lit' /\ lit' \in BOOLEAN
    BY <2>1, Zenon
  <2>5. /\ led' \in Lights!Led /\ tick' \in 0 .. U32 - 1 /\ stamp' \in 0 .. U32 - 1
        /\ age' \in Nat /\ busy' \in 0 .. MaxBusy
    BY <1>1, <1>2, <1>4, <2>1 DEF LedsType
  <2>6. Lights!Led' = Lights!Led
    BY DEF Lights!Led
  <2>7. LedsType'
    BY <2>4, <2>5, <2>6 DEF LedsType
  <2>8. QED BY <2>3, <2>4, <2>7 DEF LedsInv
<1>6. CASE ~Lights!Elapsed
  <2>1. UNCHANGED <<stamp, lit, age>>
    BY <1>6 DEF Lights!FifoIdle
  <2>2. lit => ~(age > Lights!Timer[led])
    BY <1>6, ElapsedIsAge
  <2>3. lit => age <= Lights!Timer[led]
    BY <1>2, <1>4, <2>2 DEF LedsType
  <2>4. LedsType'
    BY <1>1, <1>2, <1>4, <2>1 DEF LedsType
  <2>5. lit => age <= Lights!Timer[led] + 0
    BY <1>2, <1>4, <2>3 DEF LedsType
  <2>6. lit => tick - stamp = age \/ tick - stamp = age - U32
    BY DEF LedsInv
  <2>7. LedsInv'
    BY <1>1, <1>3, <2>1, <2>4, <2>5, <2>6 DEF LedsInv
  <2>8. lit \in BOOLEAN
    BY <1>4 DEF LedsType
  <2>9. QED BY <2>1, <2>3, <2>7, <2>8
<1>7. QED BY <1>5, <1>6

LEMMA LedsNext ==
  ASSUME Lights!LedsAssumption, LedsInv, [Lights!Next]_Lights!vars
  PROVE  LedsInv'
<1>1. CASE Lights!TimePasses
  BY <1>1, LedsPass
<1>2. ASSUME NEW which \in {{"B"}, {"G"}, {"R"}}, Lights!Callback(which) PROVE LedsInv'
  <2>1. \/ UNCHANGED <<stamp, lit, age>>
        \/ stamp' = tick /\ lit' = TRUE /\ age' = 0
    BY <1>2 DEF Lights!Callback, Lights!Light
  <2>2. UNCHANGED <<led, tick, busy>>
    BY <1>2 DEF Lights!Callback, Lights!timeVars
  <2>3. QED BY <2>1, <2>2, LedsLight
<1>3. CASE Lights!FrameWaits
  <2>1. \/ UNCHANGED <<stamp, lit, age>>
        \/ stamp' = tick /\ lit' = TRUE /\ age' = 0
    BY <1>3 DEF Lights!FrameWaits, Lights!Light
  <2>2. UNCHANGED <<led, tick, busy>>
    BY <1>3 DEF Lights!FrameWaits, Lights!timeVars
  <2>3. QED BY <2>1, <2>2, LedsLight
<1>4. CASE Lights!FifoIdle
  BY <1>4, LedsIdle
<1>5. lit \in BOOLEAN
  BY DEF LedsInv, LedsType
<1>6. ASSUME NEW which \in {"none", "scan", "refused", "other"}, Lights!Command(which) PROVE LedsInv'
  <2>1. \/ UNCHANGED <<stamp, lit, age>>
        \/ stamp' = tick /\ lit' = TRUE /\ age' = 0
        \/ lit' \in {FALSE, lit} /\ age' = (IF lit' THEN age ELSE 0) /\ UNCHANGED stamp
    <3>1. CASE which = "none"
      BY <1>6, <3>1 DEF Lights!Command
    <3>2. CASE which = "scan"
      BY <1>5, <1>6, <3>2 DEF Lights!Command, Lights!Light, Lights!Darken
    <3>3. CASE which = "refused"
      BY <1>5, <1>6, <3>3 DEF Lights!Command, Lights!Darken
    <3>4. CASE which = "other"
      BY <1>6, <3>4 DEF Lights!Command, Lights!Light
    <3>5. QED BY <3>1, <3>2, <3>3, <3>4
  <2>2. UNCHANGED <<led, tick, busy>>
    BY <1>6 DEF Lights!Command, Lights!timeVars
  <2>3. QED BY <2>1, <2>2, LedsLight
<1>7. CASE Lights!KeyUp \/ Lights!KeyDown
  BY <1>7, LedsLight DEF Lights!KeyUp, Lights!KeyDown, Lights!timeVars
<1>8. CASE Lights!change_baud_rate
  <2>1. lit' \in {FALSE, lit} /\ age' = (IF lit' THEN age ELSE 0) /\ UNCHANGED stamp
    BY <1>5, <1>8 DEF Lights!change_baud_rate, Lights!Darken
  <2>2. UNCHANGED <<led, tick, busy>>
    BY <1>8 DEF Lights!change_baud_rate, Lights!timeVars
  <2>3. QED BY <2>1, <2>2, LedsLight
<1>9. CASE UNCHANGED Lights!vars
  BY <1>9, LedsLight DEF Lights!vars
<1>10. QED BY <1>1, <1>2, <1>3, <1>4, <1>6, <1>7, <1>8, <1>9 DEF Lights!Next

(* A LED stays lit for its time after the event that lit it last, and the  *)
(* first pass after that which finds nothing to send darkens it, for every *)
(* width of the tick (scanning.c:229-283).                                 *)
LEMMA LedsKeepTime ==
  ASSUME Lights!LedsAssumption
  PROVE  Lights!Spec => Lights!TimersKeepTime
<1>1. Lights!Init => LedsInv
  BY LedsInit
<1>2. LedsInv /\ [Lights!Next]_Lights!vars => LedsInv'
  BY LedsNext
<1>3. LedsInv => [Lights!FifoIdle => (lit' <=> lit /\ age <= Lights!Timer[led])]_Lights!vars
  BY LedsIdle
<1>4. QED BY <1>1, <1>2, <1>3, PTL DEF Lights!Spec, Lights!TimersKeepTime

-----------------------------------------------------------------------------
(***************************************************************************)
(* All parts together: a step of one is no step of the others.             *)
(***************************************************************************)
LEMMA PartsSpecs == PartsSpec => Spec /\ Ring!Spec /\ Flash!Spec /\ Lights!Spec
<1>1. PartsInit => MYFIFO_INIT /\ Ring!app_drv_fifo_init /\ Flash!Init /\ Lights!Init
  BY DEF PartsInit
<1>2. [PartsNext]_allVars => /\ [Next]_vars /\ [Ring!Next]_Ring!vars
                             /\ [Flash!Next]_Flash!vars /\ [Lights!Next]_Lights!vars
  BY DEF PartsNext, allVars, vars, ringVars, flashVars, ledVars, Ring!vars, Flash!vars, Flash!flash, Lights!vars
<1>3. QED BY <1>1, <1>2, PTL DEF PartsSpec, Spec, Ring!Spec, Flash!Spec, Lights!Spec

(***************************************************************************)
(* However often the 16-bit counters wrap, ring and counters are a queue   *)
(* of bytes: a message enters it whole or not at all, and every byte       *)
(* leaves it once and in order (app_drv_fifo.c:16-19, 80-120, 153-186).    *)
(***************************************************************************)
THEOREM RingImplementsByteQueue == PartsSpec => ImplementsByteQueue
BY PartsSpecs, PartsAssumption, RingIsByteQueue DEF ImplementsByteQueue

(***************************************************************************)
(* A write of the bit rate that has returned is what any later start       *)
(* reads, wherever the power fails (tinyFlash.c:45-67, 126-184).           *)
(***************************************************************************)
THEOREM PartsWriteIsDurable == PartsSpec => []WriteIsDurable
BY PartsSpecs, PartsAssumption, FlashWriteIsDurable, PTL DEF WriteIsDurable

(***************************************************************************)
(* tinyFlash_Swap never finds a live record, so that it cannot program one *)
(* over another (tinyFlash.c:186-226).                                     *)
(***************************************************************************)
THEOREM PartsNothingToCopy == PartsSpec => []NothingToCopy
BY PartsSpecs, PartsAssumption, FlashNothingToCopy, PTL DEF NothingToCopy

(***************************************************************************)
(* To the next start the two sectors are one cell: only deleting and       *)
(* programming change it, and an exchange of sectors does not, finished or *)
(* cut short (tinyFlash.c:45-236).                                         *)
(***************************************************************************)
THEOREM PartsFlashIsCell == PartsSpec => FlashIsCell
BY PartsSpecs, PartsAssumption, FlashImplementsCell, PTL DEF FlashIsCell

(***************************************************************************)
(* The first pass that finds nothing to send darkens a LED exactly when    *)
(* its time has passed since the event that lit it last, however tick and  *)
(* stamp have wrapped, if such passes come less than a wrap apart          *)
(* (scanning.c:229-283).                                                   *)
(***************************************************************************)
THEOREM PartsTimersKeepTime == PartsSpec => TimersKeepTime
BY PartsSpecs, PartsAssumption, LedsKeepTime, PTL DEF TimersKeepTime
=============================================================================
