--------------------------- MODULE SpscRingProofs ---------------------------
EXTENDS SpscRing, NumberFacts, TLAPS

(* The cursor of a count selects the slot that the count itself selects:    *)
(* wrapping around is harmless because Capacity divides the word size.      *)
LEMMA SlotOfCount ==
    ASSUME NEW k \in Nat
    PROVE  Slot(k) = k % Capacity /\ Slot(k) \in 0 .. (Capacity - 1)
<1>0. /\ Capacity \in Nat /\ Capacity > 0
      /\ Word \in Nat /\ Word > 0
      /\ k \in Int
  BY RingAssumption
<1>1. (k % Word) % Capacity = k % Capacity
  <2>1. Word % Capacity = 0
    BY RingAssumption
  <2> QED BY ONLY <1>0, <2>1, RemainderOfMultiple, Zenon
<1>2. k % Capacity \in 0 .. (Capacity - 1)
  BY RingAssumption, Division
<1> QED BY <1>1, <1>2 DEF Slot, Cursor

(* Counts that are less than Capacity apart have slots of their own. *)
LEMMA SlotsDiffer ==
    ASSUME NEW a \in Nat, NEW b \in Nat, a < b, b - a < Capacity
    PROVE  Slot(a) # Slot(b)
<1>1. a % Capacity # b % Capacity
  BY RingAssumption, SameRemainder
<1> QED BY <1>1, SlotOfCount

(* Unsigned subtraction of two cursors gives the distance of the counts. *)
LEMMA CursorDistance ==
    ASSUME NEW a \in Nat, NEW b \in Nat, a <= b, b - a <= Capacity
    PROVE  (Cursor(b) - Cursor(a)) % Word = b - a
<1>1. b - a < Word
  BY RingAssumption
<1>2. ((b % Word) - (a % Word)) % Word = b - a
  BY <1>1, RingAssumption, RemainderDistance
<1> QED BY <1>2 DEF Cursor
-----------------------------------------------------------------------------
LEMMA InitInv == Init => RingInv
<1> SUFFICES ASSUME Init PROVE RingInv
  OBVIOUS
<1>1. TypeOK
  BY RingAssumption DEF Init, TypeOK, Empty
<1>2. CursorsOrdered
  BY RingAssumption DEF Init, CursorsOrdered
<1>3. SlotsHoldValues
  BY DEF Init, SlotsHoldValues
<1>4. PopsInPushOrder
  BY DEF Init, PopsInPushOrder
<1> QED BY <1>1, <1>2, <1>3, <1>4 DEF RingInv

(* The producer's load: the ring is not full as far as the load can tell. *)
LEMMA PushLoadInv == RingInv /\ PushLoad => RingInv'
<1> SUFFICES ASSUME RingInv, PushLoad PROVE RingInv'
  OBVIOUS
<1> USE DEF RingInv
<1>1. PICK read \in seenPopped .. popped :
         /\ seenPopped' = read
         /\ producer' = IF Full(read) THEN "idle" ELSE "write"
  BY DEF PushLoad
<1>2. read \in Nat /\ read <= pushed /\ pushed - read <= Capacity
  BY <1>1, RingAssumption DEF TypeOK, CursorsOrdered
<1>3. ~Full(read) => pushed - read < Capacity
  <2>1. (Cursor(pushed) - Cursor(read)) % Word = pushed - read
    BY <1>2, CursorDistance DEF TypeOK
  <2>2. Full(read) <=> pushed - read = Capacity
    BY ONLY <2>1 DEF Full
  <2>3. Capacity \in Nat /\ pushed \in Nat
    BY RingAssumption DEF TypeOK
  <2> QED BY ONLY <1>2, <2>2, <2>3
<1>4. TypeOK'
  BY <1>1, <1>2 DEF PushLoad, TypeOK
<1>5. CursorsOrdered'
  BY <1>1, <1>2, <1>3 DEF PushLoad, CursorsOrdered, TypeOK
<1>6. SlotsHoldValues'
  BY <1>1 DEF PushLoad, SlotsHoldValues, Slot, Cursor
<1>7. PopsInPushOrder'
  BY DEF PushLoad, PopsInPushOrder
<1> QED BY <1>4, <1>5, <1>6, <1>7

(* The write goes to a slot that holds no live value. *)
LEMMA PushWriteInv == RingInv /\ PushWrite => RingInv'
<1> SUFFICES ASSUME RingInv, PushWrite PROVE RingInv'
  OBVIOUS
<1> USE DEF RingInv
<1>1. pushed \in Nat /\ popped \in Nat /\ popped <= pushed /\ pushed - popped < Capacity
  BY RingAssumption DEF PushWrite, TypeOK, CursorsOrdered
<1>2. Slot(pushed) \in 0 .. (Capacity - 1)
  BY <1>1, SlotOfCount
<1>3. TypeOK'
  BY <1>1, <1>2 DEF PushWrite, TypeOK
<1>4. CursorsOrdered'
  BY DEF PushWrite, CursorsOrdered
<1>5. SlotsHoldValues'
  <2>1. slots'[Slot(pushed)] = pushed
    BY <1>2 DEF PushWrite, TypeOK
  <2>2. \A k \in popped .. (pushed - 1) : slots'[Slot(k)] = k
    <3> SUFFICES ASSUME NEW k \in popped .. (pushed - 1)
                 PROVE  slots'[Slot(k)] = k
      OBVIOUS
    <3>1. k \in Nat /\ k < pushed /\ pushed - k < Capacity
      BY <1>1, RingAssumption
    <3>2. Slot(k) # Slot(pushed) /\ Slot(k) \in 0 .. (Capacity - 1)
      BY <1>1, <3>1, SlotsDiffer, SlotOfCount
    <3>3. slots[Slot(k)] = k
      BY DEF SlotsHoldValues
    <3> QED BY <3>2, <3>3 DEF PushWrite, TypeOK
  <2> QED BY <2>1, <2>2 DEF PushWrite, SlotsHoldValues, Slot, Cursor
<1>6. PopsInPushOrder'
  BY DEF PushWrite, PopsInPushOrder
<1> QED BY <1>3, <1>4, <1>5, <1>6

(* The store of producer_ makes the value just written part of the ring. *)
LEMMA PushPublishInv == RingInv /\ PushPublish => RingInv'
<1> SUFFICES ASSUME RingInv, PushPublish PROVE RingInv'
  OBVIOUS
<1> USE DEF RingInv
<1>1. TypeOK'
  BY DEF PushPublish, TypeOK
<1>2. CursorsOrdered'
  BY RingAssumption DEF PushPublish, CursorsOrdered, TypeOK
<1>3. SlotsHoldValues'
  <2>1. \A k \in popped .. pushed : slots[Slot(k)] = k
    BY DEF PushPublish, SlotsHoldValues, TypeOK
  <2>2. pushed' - 1 = pushed
    BY DEF PushPublish, TypeOK
  <2> QED BY <2>1, <2>2 DEF PushPublish, SlotsHoldValues, Slot, Cursor
<1>4. PopsInPushOrder'
  BY DEF PushPublish, PopsInPushOrder
<1> QED BY <1>1, <1>2, <1>3, <1>4

(* The consumer's load: unequal cursors mean that a value is there. *)
LEMMA PopLoadInv == RingInv /\ PopLoad => RingInv'
<1> SUFFICES ASSUME RingInv, PopLoad PROVE RingInv'
  OBVIOUS
<1> USE DEF RingInv
<1>1. PICK write \in seenPushed .. pushed :
         /\ seenPushed' = write
         /\ consumer' = IF Cursor(popped) = Cursor(write) THEN "idle" ELSE "read"
  BY DEF PopLoad
<1>2. write \in Nat /\ popped <= write /\ write <= pushed
  BY <1>1 DEF TypeOK, CursorsOrdered
<1>3. Cursor(popped) # Cursor(write) => popped < write
  BY <1>2 DEF TypeOK
<1>4. TypeOK'
  BY <1>1, <1>2 DEF PopLoad, TypeOK
<1>5. CursorsOrdered'
  BY <1>1, <1>2, <1>3 DEF PopLoad, CursorsOrdered, TypeOK
<1>6. SlotsHoldValues'
  BY <1>1 DEF PopLoad, SlotsHoldValues, Slot, Cursor
<1>7. PopsInPushOrder'
  BY DEF PopLoad, PopsInPushOrder
<1> QED BY <1>4, <1>5, <1>6, <1>7

(* The read returns the oldest value pushed and not yet popped. *)
LEMMA PopReadInv == RingInv /\ PopRead => RingInv'
<1> SUFFICES ASSUME RingInv, PopRead PROVE RingInv'
  OBVIOUS
<1> USE DEF RingInv
<1>1. popped \in popped .. (pushed - 1)
  BY DEF PopRead, CursorsOrdered, TypeOK
<1>2. value' = popped
  BY <1>1 DEF PopRead, SlotsHoldValues
<1>3. TypeOK'
  BY <1>2 DEF PopRead, TypeOK
<1>4. CursorsOrdered'
  BY DEF PopRead, CursorsOrdered
<1>5. SlotsHoldValues'
  BY <1>2 DEF PopRead, SlotsHoldValues, Slot, Cursor
<1>6. PopsInPushOrder'
  BY DEF PopRead, PopsInPushOrder
<1> QED BY <1>3, <1>4, <1>5, <1>6

(* The store of consumer_ gives the slot back to the producer. *)
LEMMA PopReleaseInv == RingInv /\ PopRelease => RingInv'
<1> SUFFICES ASSUME RingInv, PopRelease PROVE RingInv'
  OBVIOUS
<1> USE DEF RingInv
<1>1. value = popped /\ popped \in Nat /\ Len(taken) = popped
  BY DEF PopRelease, SlotsHoldValues, TypeOK, PopsInPushOrder
<1>2. TypeOK'
  BY DEF PopRelease, TypeOK, CursorsOrdered
<1>3. CursorsOrdered'
  BY DEF PopRelease, CursorsOrdered, TypeOK
<1>4. SlotsHoldValues'
  BY <1>1 DEF PopRelease, SlotsHoldValues, Slot, Cursor, TypeOK
<1>5. PopsInPushOrder'
  <2>1. taken' = Append(taken, popped) /\ popped' = popped + 1
    BY <1>1 DEF PopRelease
  <2>2. taken \in Seq(Int)
    BY DEF TypeOK
  <2>3. Len(taken') = popped'
    BY <1>1, <2>1, <2>2
  <2>4. \A i \in 1 .. Len(taken') : taken'[i] = i - 1
    BY <1>1, <2>1, <2>2 DEF PopsInPushOrder
  <2> QED BY <2>3, <2>4 DEF PopsInPushOrder
<1> QED BY <1>2, <1>3, <1>4, <1>5

LEMMA StutterInv == RingInv /\ UNCHANGED vars => RingInv'
BY DEF RingInv, vars, TypeOK, CursorsOrdered, SlotsHoldValues, PopsInPushOrder,
       Slot, Cursor

LEMMA NextInv == RingInv /\ [Next]_vars => RingInv'
BY PushLoadInv, PushWriteInv, PushPublishInv, PopLoadInv, PopReadInv,
   PopReleaseInv, StutterInv DEF Next, Producer, Consumer

(* The invariant holds for every capacity and every word size that the     *)
(* capacity divides: try_push and try_pop keep the cursors and the slots   *)
(* consistent, however stale their loads are.                              *)
THEOREM RingCorrect == Spec => []RingInv
<1>1. Init => RingInv
  BY InitInv
<1>2. RingInv /\ [Next]_vars => RingInv'
  BY NextInv
<1> QED BY <1>1, <1>2, PTL DEF Spec

(* TypeOK is an invariant of the ring. *)
THEOREM TypeCorrect == Spec => []TypeOK
<1>1. RingInv => TypeOK
  BY DEF RingInv
<1> QED BY <1>1, RingCorrect, PTL

(* However stale the cursors are that the threads loaded, they lie between
   the true ones, and the ring never holds more than its capacity. *)
THEOREM CursorsStayOrdered == Spec => []CursorsOrdered
<1>1. RingInv => CursorsOrdered
  BY DEF RingInv
<1> QED BY <1>1, RingCorrect, PTL

(* No slot is overwritten between try_push and the try_pop of its value. *)
THEOREM NoSlotOverwritten == Spec => []SlotsHoldValues
<1>1. RingInv => SlotsHoldValues
  BY DEF RingInv
<1> QED BY <1>1, RingCorrect, PTL

(* try_push never writes the slot that try_pop is reading. *)
THEOREM RaceFree == Spec => []NoSlotRace
<1>1. RingInv => NoSlotRace
  <2> SUFFICES ASSUME RingInv, producer = "write", consumer = "read"
               PROVE  Slot(pushed) # Slot(popped)
    BY DEF NoSlotRace
  <2>1. /\ pushed \in Nat /\ popped \in Nat
        /\ popped < pushed /\ pushed - popped < Capacity
    BY RingAssumption DEF RingInv, TypeOK, CursorsOrdered
  <2> QED BY <2>1, SlotsDiffer
<1> QED BY <1>1, RingCorrect, PTL

(* try_pop returns what try_push took, in that order. *)
THEOREM OrderPreserved == Spec => []PopsInPushOrder
<1>1. RingInv => PopsInPushOrder
  BY DEF RingInv
<1> QED BY <1>1, RingCorrect, PTL
-----------------------------------------------------------------------------
(* The queue's contents are the numbers pushed and not yet popped. *)
LEMMA ContentsOf ==
    RingInv => /\ Contents = [i \in 1 .. (pushed - popped) |-> popped + i - 1]
               /\ pushed - popped \in Nat
               /\ pushed \in Nat /\ popped \in Nat
<1> SUFFICES ASSUME RingInv
             PROVE  /\ Contents = [i \in 1 .. (pushed - popped) |-> popped + i - 1]
                    /\ pushed - popped \in Nat
                    /\ pushed \in Nat /\ popped \in Nat
  OBVIOUS
<1>1. pushed \in Nat /\ popped \in Nat /\ popped <= pushed
  BY DEF RingInv, TypeOK, CursorsOrdered
<1>2. \A i \in 1 .. (pushed - popped) : slots[Slot(popped + i - 1)] = popped + i - 1
  <2> SUFFICES ASSUME NEW i \in 1 .. (pushed - popped)
               PROVE  slots[Slot(popped + i - 1)] = popped + i - 1
    OBVIOUS
  <2>1. popped + i - 1 \in popped .. (pushed - 1)
    BY <1>1
  <2> QED BY <2>1 DEF RingInv, SlotsHoldValues
<1>3. Contents = [i \in 1 .. (pushed - popped) |-> popped + i - 1]
  BY <1>2 DEF Contents
<1>4. pushed - popped \in Nat
  BY <1>1
<1> QED BY <1>1, <1>3, <1>4

(* A release store of producer_ is a Put of the abstract queue. *)
LEMMA PublishIsPut ==
    ASSUME RingInv, RingInv', PushPublish
    PROVE  Fifo!Put
<1>1. /\ Contents = [i \in 1 .. (pushed - popped) |-> popped + i - 1]
      /\ pushed - popped \in Nat /\ pushed \in Nat /\ popped \in Nat
  BY ContentsOf
<1>2. Contents' = [i \in 1 .. (pushed' - popped') |-> popped' + i - 1]
  <2>1. (RingInv => Contents = [i \in 1 .. (pushed - popped) |-> popped + i - 1])'
    BY ContentsOf, PTL
  <2> QED BY <2>1
<1>3. pushed' = pushed + 1 /\ popped' = popped /\ taken' = taken
  BY DEF PushPublish
<1>4. Len(Contents) = pushed - popped /\ Contents \in Seq(Int)
  BY <1>1
<1>5. pushed - popped < Capacity
  BY <1>1, RingAssumption DEF PushPublish, RingInv, CursorsOrdered, TypeOK
<1>6. Contents' = Append(Contents, pushed)
  BY <1>1, <1>2, <1>3
<1> QED BY <1>3, <1>4, <1>5, <1>6 DEF Fifo!Put

(* A release store of consumer_ is a Take of the abstract queue. *)
LEMMA ReleaseIsTake ==
    ASSUME RingInv, RingInv', PopRelease
    PROVE  Fifo!Take
<1>1. /\ Contents = [i \in 1 .. (pushed - popped) |-> popped + i - 1]
      /\ pushed - popped \in Nat /\ pushed \in Nat /\ popped \in Nat
  BY ContentsOf
<1>2. Contents' = [i \in 1 .. (pushed' - popped') |-> popped' + i - 1]
  <2>1. (RingInv => Contents = [i \in 1 .. (pushed - popped) |-> popped + i - 1])'
    BY ContentsOf, PTL
  <2> QED BY <2>1
<1>3. pushed' = pushed /\ popped' = popped + 1 /\ taken' = Append(taken, value)
  BY DEF PopRelease
<1>4. value = popped /\ popped < pushed
  BY DEF PopRelease, RingInv, SlotsHoldValues, CursorsOrdered, TypeOK
<1>5. Contents # <<>> /\ Head(Contents) = popped
  BY <1>1, <1>4
<1>6. Contents' = Tail(Contents)
  BY <1>1, <1>2, <1>3, <1>4
<1> QED BY <1>3, <1>4, <1>5, <1>6 DEF Fifo!Take

(* Every other step leaves the abstract queue as it is. *)
LEMMA OtherSteps ==
    ASSUME RingInv, RingInv', UNCHANGED <<pushed, popped, taken>>
    PROVE  UNCHANGED Fifo!fifoVars
<1>1. Contents = [i \in 1 .. (pushed - popped) |-> popped + i - 1]
  BY ContentsOf
<1>2. Contents' = [i \in 1 .. (pushed' - popped') |-> popped' + i - 1]
  <2>1. (RingInv => Contents = [i \in 1 .. (pushed - popped) |-> popped + i - 1])'
    BY ContentsOf, PTL
  <2> QED BY <2>1
<1>3. Contents' = Contents
  BY <1>1, <1>2
<1> QED BY <1>3 DEF Fifo!fifoVars

(* The ring implements the bounded first-in first-out queue. *)
THEOREM RingImplementsFifo == Spec => ImplementsFifo
<1>1. Init => Fifo!Init
  BY DEF Init, Fifo!Init, Contents
<1>2. RingInv /\ RingInv' /\ [Next]_vars => [Fifo!Next]_(Fifo!fifoVars)
  <2> SUFFICES ASSUME RingInv, RingInv', [Next]_vars
               PROVE  Fifo!Next \/ UNCHANGED Fifo!fifoVars
    OBVIOUS
  <2>1. CASE PushPublish
    BY <2>1, PublishIsPut DEF Fifo!Next
  <2>2. CASE PopRelease
    BY <2>2, ReleaseIsTake DEF Fifo!Next
  <2>3. CASE PushLoad \/ PushWrite \/ PopLoad \/ PopRead \/ UNCHANGED vars
    <3>1. UNCHANGED <<pushed, popped, taken>>
      BY <2>3 DEF PushLoad, PushWrite, PopLoad, PopRead, vars
    <3> QED BY <3>1, OtherSteps
  <2> QED BY <2>1, <2>2, <2>3 DEF Next, Producer, Consumer
<1> QED BY <1>1, <1>2, RingCorrect, PTL DEF Spec, ImplementsFifo, Fifo!Spec
=============================================================================
