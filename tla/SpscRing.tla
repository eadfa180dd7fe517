------------------------------ MODULE SpscRing ------------------------------
(***************************************************************************)
(* The single-producer single-consumer ring                                *)
(* (include/vectornet/alloc/spsc_ring.hpp), one step per memory access.    *)
(*                                                                         *)
(* pushed and popped count the completed operations; the code's cursors    *)
(* are these counts in a size_t, Cursor(count).  A thread always knows its *)
(* own cursor (the relaxed load).  Its acquire load of the other cursor    *)
(* may return any value that cursor has had since the value the thread saw *)
(* last: coherence forbids going back, nothing forces the newest value.    *)
(* The slots are plain memory: a thread's accesses to them are ordered     *)
(* with the other's only through the cursors, so a write and a read of one *)
(* slot must never be under way at the same time.                          *)
(***************************************************************************)
EXTENDS Integers, Sequences

CONSTANTS Capacity,    \* number of slots, a power of two
          Word,        \* number of values of size_t, 2^64
          PushBound    \* bound on the number of pushes

ASSUME RingAssumption ==
    /\ Capacity \in Nat /\ Capacity >= 2
    /\ Word \in Nat /\ Word > Capacity /\ Word % Capacity = 0
    /\ PushBound \in Nat

VARIABLES pushed, popped,        \* counts behind producer_ and consumer_
          slots,                 \* slots_
          producer, consumer,    \* what each thread is about to do
          seenPopped, seenPushed,\* the other's count, as last loaded
          value,                 \* the consumer's local value
          taken                  \* values returned by try_pop so far

vars == <<pushed, popped, slots, producer, consumer, seenPopped, seenPushed,
          value, taken>>

Cursor(count) == count % Word

\* write & (Capacity - 1)
Slot(count) == Cursor(count) % Capacity

Empty == -1

Init == /\ pushed = 0 /\ popped = 0
        /\ slots = [i \in 0 .. (Capacity - 1) |-> Empty]
        /\ producer = "idle" /\ consumer = "idle"
        /\ seenPopped = 0 /\ seenPushed = 0
        /\ value = Empty
        /\ taken = <<>>

\* Mutant: the ring is taken to be full one value too late.
FullLate(read) == (Cursor(pushed) - Cursor(read)) % Word = Capacity + 1

\* try_push: load the consumer's cursor; on a full ring return false.
Full(read) == (Cursor(pushed) - Cursor(read)) % Word = Capacity

\* Mutant: the consumer's cursor is cached and never loaded again.
PushCached ==
    /\ producer = "idle" /\ pushed < PushBound
    /\ producer' = IF Full(seenPopped) THEN "idle" ELSE "write"
    /\ UNCHANGED <<pushed, popped, slots, consumer, seenPopped, seenPushed, value, taken>>

PushLoad ==
    /\ producer = "idle" /\ pushed < PushBound
    /\ \E read \in seenPopped .. popped :
          /\ seenPopped' = read
          /\ producer' = IF Full(read) THEN "idle" ELSE "write"
    /\ UNCHANGED <<pushed, popped, slots, consumer, seenPushed, value, taken>>

\* Mutant: writes the slot of the next push.
PushWriteNext ==
    /\ producer = "write"
    /\ slots' = [slots EXCEPT ![Slot(pushed + 1)] = pushed]
    /\ producer' = "publish"
    /\ UNCHANGED <<pushed, popped, consumer, seenPopped, seenPushed, value, taken>>

\* The values pushed are numbered in the order of the pushes.
PushWrite ==
    /\ producer = "write"
    /\ slots' = [slots EXCEPT ![Slot(pushed)] = pushed]
    /\ producer' = "publish"
    /\ UNCHANGED <<pushed, popped, consumer, seenPopped, seenPushed, value, taken>>

PushPublish ==
    /\ producer = "publish"
    /\ pushed' = pushed + 1
    /\ producer' = "idle"
    /\ UNCHANGED <<popped, slots, consumer, seenPopped, seenPushed, value, taken>>

PopKeepsOne ==
    /\ consumer = "idle"
    /\ \E write \in seenPushed .. pushed :
          /\ seenPushed' = write
          /\ consumer' = IF write - popped <= 1 THEN "idle" ELSE "read"
    /\ UNCHANGED <<pushed, popped, slots, producer, seenPopped, value, taken>>

\* try_pop: load the producer's cursor; on an empty ring return false.
PopLoad ==
    /\ consumer = "idle"
    /\ \E write \in seenPushed .. pushed :
          /\ seenPushed' = write
          /\ consumer' = IF Cursor(popped) = Cursor(write) THEN "idle" ELSE "read"
    /\ UNCHANGED <<pushed, popped, slots, producer, seenPopped, value, taken>>

PopRead ==
    /\ consumer = "read"
    /\ value' = slots[Slot(popped)]
    /\ consumer' = "release"
    /\ UNCHANGED <<pushed, popped, slots, producer, seenPopped, seenPushed, taken>>

PopRelease ==
    /\ consumer = "release"
    /\ popped' = popped + 1
    /\ taken' = Append(taken, value)
    /\ consumer' = "idle"
    /\ UNCHANGED <<pushed, slots, producer, seenPopped, seenPushed, value>>

Producer == PushLoad \/ PushWrite \/ PushPublish
Consumer == PopLoad \/ PopRead \/ PopRelease
Next == Producer \/ Consumer

Spec == Init /\ [][Next]_vars

\* Both threads keep running, and a store becomes visible to the other
\* thread in the end: a load that keeps being made returns the newest value.
FreshPush == PushLoad /\ seenPopped' = popped
FreshPop  == PopLoad /\ seenPushed' = pushed
FairSpec == /\ Spec
            /\ WF_vars(FreshPop) /\ WF_vars(PopRead) /\ WF_vars(PopRelease)
            /\ WF_vars(FreshPush) /\ WF_vars(PushWrite) /\ WF_vars(PushPublish)
-----------------------------------------------------------------------------
TypeOK == /\ pushed \in Nat /\ popped \in 0 .. pushed
          /\ slots \in [0 .. (Capacity - 1) -> Int]
          /\ producer \in {"idle", "write", "publish"}
          /\ consumer \in {"idle", "read", "release"}
          /\ seenPopped \in Nat /\ seenPushed \in Nat
          /\ value \in Int /\ taken \in Seq(Int)

\* The producer writes a slot only while the consumer cannot be reading it,
\* with cursors that wrap around and loads that lag behind: the plain slots_
\* array is free of data races.
NoSlotRace ==
    producer = "write" /\ consumer = "read" => Slot(pushed) # Slot(popped)

\* try_pop returns the values in the order in which try_push took them:
\* none lost, none repeated, none read before it was written.
PopsInPushOrder ==
    /\ Len(taken) = popped
    /\ \A i \in 1 .. Len(taken) : taken[i] = i - 1

\* What the two threads know of each other.  A thread's last load lags behind
\* the other's count and never runs ahead of it, the ring never holds more
\* than Capacity values even against the stale count, and a thread that got
\* past its check still has a free slot, or a value, to work on.
CursorsOrdered ==
    /\ seenPopped <= popped /\ popped <= seenPushed /\ seenPushed <= pushed
    /\ pushed - seenPopped <= Capacity
    /\ producer # "idle" => pushed - seenPopped < Capacity
    /\ consumer # "idle" => popped < seenPushed

\* Every value pushed and not yet popped is still in its slot, and so are the
\* values the threads are in the middle of handing over.
SlotsHoldValues ==
    /\ \A k \in popped .. (pushed - 1) : slots[Slot(k)] = k
    /\ producer = "publish" => slots[Slot(pushed)] = pushed
    /\ consumer = "release" => value = popped

\* The inductive invariant of the ring.
RingInv == TypeOK /\ CursorsOrdered /\ SlotsHoldValues /\ PopsInPushOrder

\* The ring implements the bounded queue; a push takes effect with the store
\* to producer_, a pop with the store to consumer_.
Contents == [i \in 1 .. (pushed - popped) |-> slots[Slot(popped + i - 1)]]
Fifo == INSTANCE BoundedFifo WITH contents <- Contents, put <- pushed
ImplementsFifo == Fifo!Spec

\* What is pushed is popped, and a full ring does not stop the producer.
AllPopped == \A n \in 1 .. PushBound : pushed >= n ~> popped >= n
AllPushed == <>(pushed = PushBound)
=============================================================================
