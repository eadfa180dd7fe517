------------------------------ MODULE Reassembly ----------------------------
(***************************************************************************)
(* The table of incomplete datagrams (src/net/reassembly.cpp).             *)
(*                                                                         *)
(* A slot keeps the bytes received, the ranges still missing and what is   *)
(* known of the length.  data is not cleared when a slot is taken again:   *)
(* the bytes of earlier datagrams stay in it until they are overwritten.   *)
(* holes is a set where the code has a sorted array, [begin, end) each.    *)
(* age is the time since the slot was taken, as far as sweep looks.        *)
(*                                                                         *)
(* Any fragment may arrive, at any offset and of any content: repeated,    *)
(* overlapping, contradicting another one.                                 *)
(***************************************************************************)
EXTENDS Integers, FiniteSets

CONSTANTS Key,           \* source, destination, identification, protocol
          Version,       \* contents a datagram of one key may have
          Capacity,      \* number of slots
          MaximumPayload,\* kIpv4MaximumPayloadBytes
          Unit,          \* bytes per unit of the fragment offset, 8
          MaximumHoles,  \* kMaximumReassemblyHoles
          Timeout        \* steps of the clock until sweep frees a slot

ASSUME ReassemblyAssumption ==
    /\ Key # {} /\ Capacity \in Nat /\ MaximumPayload \in Nat
    /\ Unit \in Nat \ {0}
    /\ MaximumHoles \in Nat
    /\ Timeout \in Nat

VARIABLES slots,
          arrived,   \* per slot, the first byte received at each position
          delivered  \* the slot and length of the datagram the last step
                     \* completed, length 0 if it completed none

vars == <<slots, arrived, delivered>>

SlotIndex == 1 .. Capacity
Position == 0 .. (MaximumPayload - 1)
Byte == Key \X Version
NoByte == <<>>

Nothing == [slot |-> 0, length |-> 0]

\* Positions of [begin, end).
Span(begin, end) == {n \in Position : begin <= n /\ n < end}

Hole(begin, end) == [begin |-> begin, end |-> end]

\* Mutant: a fragment that is not the last one may have any size.
FragmentAnySize ==
    {f \in [key : Key, version : Version, offset : 0 .. MaximumPayload,
            size : 1 .. MaximumPayload, more : BOOLEAN] :
        /\ f.offset % Unit = 0
        /\ f.offset + f.size <= MaximumPayload
        /\ f.offset # 0 \/ f.more}

\* The fragments that reach insert with both checks of the length passed.
\* Unfragmented datagrams are delivered at once and take no slot.
Fragment ==
    {f \in [key : Key, version : Version, offset : 0 .. MaximumPayload,
            size : 0 .. MaximumPayload, more : BOOLEAN] :
        /\ f.offset % Unit = 0
        /\ f.more => f.size > 0 /\ f.size % Unit = 0
        /\ f.offset # 0 => f.size > 0
        /\ f.offset + f.size <= MaximumPayload
        /\ f.offset # 0 \/ f.more}

\* release
Released(s) == [s EXCEPT !.active = FALSE, !.holes = {}, !.highest = 0,
                         !.total = 0, !.known = FALSE, !.age = 0]

\* Mutant: the hole that covers everything is not put back.
NewSlotNoHole(s, key) ==
    [s EXCEPT !.active = TRUE, !.key = key, !.highest = 0, !.total = 0,
              !.known = FALSE, !.age = 0]

\* A slot as find_or_create prepares it: everything is missing.
NewSlot(s, key) ==
    [s EXCEPT !.active = TRUE, !.key = key, !.highest = 0, !.total = 0,
              !.holes = {Hole(0, MaximumPayload)}, !.known = FALSE, !.age = 0]

Init == /\ slots = [i \in SlotIndex |->
                       [active |-> FALSE, key |-> CHOOSE k \in Key : TRUE,
                        data |-> [n \in Position |-> NoByte], holes |-> {},
                        highest |-> 0, total |-> 0, known |-> FALSE, age |-> 0]]
        /\ arrived = [i \in SlotIndex |-> [n \in Position |-> NoByte]]
        /\ delivered = Nothing

Holders(key) == {i \in SlotIndex : slots[i].active /\ slots[i].key = key}

Inactive == {i \in SlotIndex : ~slots[i].active}

Lowest(S) == CHOOSE i \in S : \A j \in S : i <= j

\* find_or_create: the slot of the key, else the first free one.
FindOrCreate(key) ==
    IF Holders(key) # {} THEN Holders(key)
    ELSE IF Inactive # {} THEN {Lowest(Inactive)}
    ELSE {}

\* Mutant: every fragment restarts the timeout.
TakenAgain(i, key) == IF slots[i].active THEN [slots[i] EXCEPT !.age = 0]
                                         ELSE NewSlot(slots[i], key)

\* The slot as find_or_create returns it.
Taken(i, key) == IF slots[i].active THEN slots[i] ELSE NewSlot(slots[i], key)

\* The fragment ends beyond the known end, or is the last one and the end it
\* gives differs from the known one or is below bytes received.
Contradicts(s, f) ==
    \/ s.known /\ f.offset + f.size > s.total
    \/ ~f.more /\ s.known /\ s.total # f.offset + f.size
    \/ ~f.more /\ s.highest > f.offset + f.size

Clipped(h, end) == Hole(h.begin, IF h.end < end THEN h.end ELSE end)

\* establish_total_length: nothing is missing beyond the end.
EstablishTotalLength(s, f) ==
    IF f.more THEN s
    ELSE [s EXCEPT !.total = f.offset + f.size, !.known = TRUE,
                   !.holes = {Clipped(h, f.offset + f.size) :
                                h \in {g \in s.holes :
                                          g.begin < f.offset + f.size}}]

Missing(s) == UNION {Span(h.begin, h.end) : h \in s.holes}

\* Mutant: the last arrival wins.
CopyAll(s, f) ==
    [s EXCEPT !.data = [n \in Position |->
        IF n \in Span(f.offset, f.offset + f.size)
        THEN <<f.key, f.version>> ELSE s.data[n]]]

\* copy_unreceived_bytes: only into the holes.
CopyUnreceivedBytes(s, f) ==
    [s EXCEPT !.data = [n \in Position |->
        IF n \in Span(f.offset, f.offset + f.size) \cap Missing(s)
        THEN <<f.key, f.version>> ELSE s.data[n]]]

RaiseHighest(s, f) ==
    [s EXCEPT !.highest = IF s.highest < f.offset + f.size
                          THEN f.offset + f.size ELSE s.highest]

Overlaps(h, begin, end) == begin < h.end /\ h.begin < end

\* What is left of a hole, at either side of the fragment.
Remainders(h, begin, end) ==
    {r \in {Hole(h.begin, begin), Hole(end, h.end)} : r.begin < r.end}

\* Mutant: a fragment inside a hole keeps only the part before it.
SubtractKeepsLeft(s, begin, end) ==
    [s EXCEPT !.holes = {h \in s.holes : ~Overlaps(h, begin, end)} \cup
        {r \in UNION {Remainders(h, begin, end) :
                         h \in {g \in s.holes : Overlaps(g, begin, end)}} :
            r.end <= begin}]

\* subtract_received_range
SubtractReceivedRange(s, begin, end) ==
    IF begin = end THEN s
    ELSE [s EXCEPT !.holes = {h \in s.holes : ~Overlaps(h, begin, end)} \cup
             UNION {Remainders(h, begin, end) :
                       h \in {g \in s.holes : Overlaps(g, begin, end)}}]

\* subtract_received_range fails: a hole must be split and there is no room.
HoleCapacityExhausted(s, begin, end) ==
    /\ begin # end
    /\ \E h \in s.holes : h.begin < begin /\ end < h.end
    /\ Cardinality(s.holes) >= MaximumHoles

Copied(s, f) == RaiseHighest(CopyUnreceivedBytes(EstablishTotalLength(s, f), f), f)

IsComplete(s) == s.known /\ s.holes = {}

\* The first byte to arrive at each position since slot i was taken.
Arrive(i, f) ==
    [n \in Position |->
        IF n \in Span(f.offset, f.offset + f.size)
           /\ (~slots[i].active \/ arrived[i][n] = NoByte)
        THEN <<f.key, f.version>>
        ELSE IF slots[i].active THEN arrived[i][n] ELSE NoByte]

Drop(i, s) == /\ slots' = [slots EXCEPT ![i] = Released(s)]
              /\ delivered' = Nothing
              /\ UNCHANGED arrived

\* The end of insert: deliver the datagram or wait for more.
Keep(i, s, f) ==
    /\ arrived' = [arrived EXCEPT ![i] = Arrive(i, f)]
    /\ \/ /\ ~IsComplete(s)
          /\ slots' = [slots EXCEPT ![i] = s]
          /\ delivered' = Nothing
       \/ /\ IsComplete(s)
          /\ slots' = [slots EXCEPT ![i] = Released(s)]
          /\ delivered' = [slot |-> i, length |-> s.total]

Subtract(i, s, f) ==
    IF HoleCapacityExhausted(s, f.offset, f.offset + f.size)
    THEN Drop(i, s)
    ELSE Keep(i, SubtractReceivedRange(s, f.offset, f.offset + f.size), f)

Accept(i, s, f) == \/ Contradicts(s, f) /\ Drop(i, s)
                   \/ ~Contradicts(s, f) /\ Subtract(i, Copied(s, f), f)

\* insert.  A full table drops the fragment and changes nothing.
Insert(f) == \E i \in FindOrCreate(f.key) : Accept(i, Taken(i, f.key), f)

TimedOut(s) == s.active /\ s.age >= Timeout

\* The body of sweep, for the slots it finds overdue.
SweepSlots(overdue) ==
    /\ slots' = [i \in SlotIndex |-> IF i \in overdue THEN Released(slots[i])
                                                      ELSE slots[i]]
    /\ delivered' = Nothing
    /\ UNCHANGED arrived

\* sweep
Sweep == SweepSlots({i \in SlotIndex : TimedOut(slots[i])})

Elapse == /\ slots' = [i \in SlotIndex |->
                 IF slots[i].active /\ slots[i].age < Timeout
                 THEN [slots[i] EXCEPT !.age = @ + 1] ELSE slots[i]]
          /\ delivered' = Nothing
          /\ UNCHANGED arrived

Next == (\E f \in Fragment : Insert(f)) \/ Sweep \/ Elapse

Spec == Init /\ [][Next]_vars

\* The owner thread's loop sweeps again and again, and time goes on.
FairSpec == Spec /\ WF_vars(Sweep) /\ WF_vars(Elapse)
-----------------------------------------------------------------------------
(* Properties *)

\* Every slot is well formed.
TypeOK ==
    /\ slots \in [SlotIndex ->
           [active : BOOLEAN, key : Key, data : [Position -> Byte \cup {NoByte}],
            holes : SUBSET [begin : Position, end : 1 .. MaximumPayload],
            highest : 0 .. MaximumPayload, total : 0 .. MaximumPayload,
            known : BOOLEAN, age : 0 .. Timeout]]
    /\ arrived \in [SlotIndex -> [Position -> Byte \cup {NoByte}]]
    /\ delivered \in [slot : 0 .. Capacity, length : 0 .. MaximumPayload]

Limit(s) == IF s.known THEN s.total ELSE MaximumPayload

\* The holes are disjoint and cover exactly the bytes that have not arrived,
\* up to the end if the last fragment is here; nothing has arrived beyond it.
HolesAreMissingBytes ==
    \A i \in SlotIndex : slots[i].active =>
        /\ Missing(slots[i]) =
              {n \in Span(0, Limit(slots[i])) : arrived[i][n] = NoByte}
        /\ \A n \in Position : n >= Limit(slots[i]) => arrived[i][n] = NoByte
        /\ \A g, h \in slots[i].holes : Overlaps(g, h.begin, h.end) => g = h

\* LLD.md 2.3, first arrival wins: a later fragment never overwrites a byte.
FirstArrivalWins ==
    \A i \in SlotIndex : slots[i].active =>
        \A n \in Position :
            arrived[i][n] # NoByte => slots[i].data[n] = arrived[i][n]

\* A delivered datagram has only bytes of its own key that arrived since its
\* slot was taken, none that an earlier datagram left in the buffer.
DeliveredIsReceived ==
    \A n \in Span(0, delivered.length) :
        LET s == slots[delivered.slot]
        IN /\ arrived[delivered.slot][n] # NoByte
           /\ s.data[n] = arrived[delivered.slot][n]
           /\ s.data[n][1] = s.key

\* Two holes are a unit apart and all but the last are a unit long, so with
\* the code's sizes there are at most 4,095 of the 8,192 the array has.
HolesBounded ==
    \A i \in SlotIndex :
        slots[i].holes # {} =>
            2 * (Cardinality(slots[i].holes) - 1) * Unit < MaximumPayload

\* The table is well formed and its holes never run out: the branch of
\* subtract_received_range for a full array is not reached.
TableOK == TypeOK /\ HolesBounded

\* LLD.md 2.3: an incomplete datagram gives its slot back, also when its
\* fragments keep arriving.
EverySlotIsFreed == \A i \in SlotIndex : slots[i].active ~> ~slots[i].active
=============================================================================
