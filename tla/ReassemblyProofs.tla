--------------------------- MODULE ReassemblyProofs -------------------------
(***************************************************************************)
(* Proofs about Reassembly, for any number of slots, any payload size and  *)
(* any unit of the fragment offset.                                        *)
(***************************************************************************)
EXTENDS Reassembly, NumberFacts, FiniteSetTheorems, TLAPS

SlotType ==
    [active : BOOLEAN, key : Key, data : [Position -> Byte \cup {NoByte}],
     holes : SUBSET [begin : Position, end : 1 .. MaximumPayload],
     highest : 0 .. MaximumPayload, total : 0 .. MaximumPayload,
     known : BOOLEAN, age : 0 .. Timeout]

BufferType == [Position -> Byte \cup {NoByte}]

\* Byte n lies in a hole.
InHole(s, n) == \E h \in s.holes : h.begin <= n /\ n < h.end

\* What holds of the holes of a slot: they are not empty, begin at a unit
\* and end at one or at the end of the datagram, and are apart.
HolesOK(s) ==
    /\ \A h \in s.holes : /\ h.begin < h.end /\ h.end <= Limit(s)
                          /\ h.begin % Unit = 0
                          /\ h.end % Unit = 0 \/ h.end = Limit(s)
    /\ \A g, h \in s.holes : g # h => g.end < h.begin \/ h.end < g.begin

\* What holds of an active slot and a, the first bytes that arrived for it.
SlotOK(s, a) ==
    /\ HolesOK(s)
    /\ s.highest <= Limit(s)
    /\ \A n \in Position : InHole(s, n) <=> n < Limit(s) /\ a[n] = NoByte
    /\ \A n \in Position : a[n] # NoByte => /\ n < s.highest
                                            /\ s.data[n] = a[n]
                                            /\ a[n][1] = s.key

\* The inductive invariant.
TableInv ==
    /\ TypeOK
    /\ \A i \in SlotIndex : slots[i].active => SlotOK(slots[i], arrived[i])
    /\ \A i \in SlotIndex : ~slots[i].active => slots[i].holes = {}
    /\ DeliveredIsReceived

\* The first bytes after f has arrived, from those before it.
Merged(a, f) ==
    [n \in Position |-> IF n \in Span(f.offset, f.offset + f.size) /\ a[n] = NoByte
                        THEN <<f.key, f.version>> ELSE a[n]]

\* Every fragment that reaches insert has bytes.
LEMMA FragmentFacts ==
    ASSUME NEW f \in Fragment
    PROVE  /\ f.key \in Key /\ f.version \in Version
           /\ f.offset \in Nat /\ f.size \in Nat /\ f.more \in BOOLEAN
           /\ f.size > 0 /\ f.offset % Unit = 0
           /\ f.more => f.size % Unit = 0
           /\ f.offset + f.size <= MaximumPayload
BY ReassemblyAssumption DEF Fragment

\* A byte is a pair, NoByte is not.
LEMMA ByteIsNotNoByte ==
    ASSUME NEW k \in Key, NEW v \in Version
    PROVE  /\ <<k, v>> # NoByte /\ <<k, v>>[1] = k
           /\ <<k, v>> \in Byte \cup {NoByte}
BY DEF NoByte, Byte

\* find_or_create prepares a slot in which everything is missing.
LEMMA NewSlotOK ==
    ASSUME NEW s \in SlotType, NEW key \in Key, MaximumPayload > 0
    PROVE  /\ NewSlot(s, key) \in SlotType
           /\ NewSlot(s, key).active /\ NewSlot(s, key).key = key
           /\ SlotOK(NewSlot(s, key), [n \in Position |-> NoByte])
<1>1. Hole(0, MaximumPayload) \in [begin : Position, end : 1 .. MaximumPayload]
  BY ReassemblyAssumption DEF Hole, Position
<1>2. NewSlot(s, key) \in SlotType /\ NewSlot(s, key).active /\ NewSlot(s, key).key = key
  <2>1. 0 \in 0 .. MaximumPayload /\ 0 \in 0 .. Timeout
    BY ReassemblyAssumption
  <2> QED BY <1>1, <2>1, Zenon DEF NewSlot, SlotType
<1>3. /\ NewSlot(s, key).holes = {[begin |-> 0, end |-> MaximumPayload]}
      /\ Limit(NewSlot(s, key)) = MaximumPayload /\ NewSlot(s, key).highest = 0
  BY DEF NewSlot, Hole, SlotType, Limit
<1> DEFINE t == NewSlot(s, key)
<1> HIDE DEF t
<1>4. 0 % Unit = 0
  BY ReassemblyAssumption
<1>5. HolesOK(t)
  BY <1>3, <1>4, ReassemblyAssumption DEF HolesOK, t
<1>6. \A n \in Position : InHole(t, n)
  BY <1>3, ReassemblyAssumption DEF InHole, t, Position
<1>7. SlotOK(t, [n \in Position |-> NoByte])
  BY <1>3, <1>5, <1>6, ReassemblyAssumption DEF SlotOK, t, Position
<1> QED BY <1>2, <1>7 DEF t

\* What establish_total_length makes of a hole, if it keeps it.
LEMMA ClippedHole ==
    ASSUME NEW h \in [begin : Position, end : 1 .. MaximumPayload],
           NEW end \in 1 .. MaximumPayload
    PROVE  /\ Clipped(h, end) \in [begin : Position, end : 1 .. MaximumPayload]
           /\ Clipped(h, end).begin = h.begin
           /\ Clipped(h, end).end = IF h.end < end THEN h.end ELSE end
BY ReassemblyAssumption DEF Clipped, Hole, Position

\* establish_total_length keeps a slot well formed: it clips the holes at the
\* end, and no byte is beyond it because the fragment does not contradict.
LEMMA EstablishKeeps ==
    ASSUME NEW s \in SlotType, NEW a \in BufferType, SlotOK(s, a),
           NEW f \in Fragment, ~Contradicts(s, f)
    PROVE  LET t == EstablishTotalLength(s, f)
           IN /\ t \in SlotType /\ SlotOK(t, a)
              /\ t.active = s.active /\ t.key = s.key
              /\ f.offset + f.size <= Limit(t)
              /\ f.more \/ f.offset + f.size = Limit(t)
<1> DEFINE end == f.offset + f.size
           t == EstablishTotalLength(s, f)
           clipped == {Clipped(h, end) : h \in {g \in s.holes : g.begin < end}}
<1>1. end \in 1 .. MaximumPayload /\ f.more \in BOOLEAN
  BY FragmentFacts
<1>2. CASE f.more
  <2>1. t = s
    BY <1>2 DEF EstablishTotalLength
  <2>2. end <= Limit(s)
    BY <1>1 DEF Contradicts, Limit, SlotType
  <2> QED BY <1>2, <2>1, <2>2
<1>3. CASE ~f.more
  <2>1. s.holes \subseteq [begin : Position, end : 1 .. MaximumPayload]
    BY DEF SlotType
  <2>2. clipped \subseteq [begin : Position, end : 1 .. MaximumPayload]
    BY <1>1, <2>1, ClippedHole
  <2>3. t = [s EXCEPT !.total = end, !.known = TRUE, !.holes = clipped]
    BY <1>3 DEF EstablishTotalLength
  <2>4. t \in SlotType
    <3>1. end \in 0 .. MaximumPayload
      BY <1>1
    <3> HIDE DEF t, clipped, end
    <3> QED BY <2>2, <2>3, <3>1, Zenon DEF SlotType
  <2>5. /\ t.active = s.active /\ t.key = s.key /\ t.data = s.data
        /\ t.highest = s.highest /\ t.holes = clipped /\ Limit(t) = end
    <3> HIDE DEF t, clipped, end
    <3> QED BY <2>3, Zenon DEF SlotType, Limit
  <2>6. s.highest <= end /\ (s.known => s.total = end) /\ end <= Limit(s)
    BY <1>1, <1>3 DEF Contradicts, SlotType, Limit
  <2>7. s.known \in BOOLEAN /\ (Limit(s) = end \/ Limit(s) = MaximumPayload)
    BY <2>6 DEF SlotType, Limit
  <2>8. ASSUME NEW c \in clipped
        PROVE  \E h \in s.holes : /\ h.begin < end /\ c.begin = h.begin
                                  /\ c.end = IF h.end < end THEN h.end ELSE end
                                  /\ c = Clipped(h, end)
    BY <1>1, <2>1, ClippedHole
  <2>9. ASSUME NEW h \in s.holes, h.begin < end
        PROVE  \E c \in clipped : /\ c.begin = h.begin
                                  /\ c.end = IF h.end < end THEN h.end ELSE end
    <3>1. Clipped(h, end) \in clipped
      BY <2>9
    <3>2. /\ Clipped(h, end).begin = h.begin
          /\ Clipped(h, end).end = IF h.end < end THEN h.end ELSE end
      BY <1>1, <2>1, ClippedHole
    <3> QED BY <3>1, <3>2
  <2> HIDE DEF clipped, t, end
  <2>10. \A h \in s.holes : h.begin \in Nat /\ h.end \in Nat
    BY <2>1, ReassemblyAssumption DEF Position
  <2>11. HolesOK(t)
    <3>1. HolesOK(s)
      BY DEF SlotOK
    <3>2. ASSUME NEW c \in clipped
          PROVE  /\ c.begin < c.end /\ c.end <= end
                 /\ c.begin % Unit = 0
                 /\ c.end % Unit = 0 \/ c.end = end
      <4>1. PICK h \in s.holes : /\ h.begin < end /\ c.begin = h.begin
                                 /\ c.end = IF h.end < end THEN h.end ELSE end
        BY <2>8
      <4>2. /\ h.begin < h.end /\ h.end <= Limit(s) /\ h.begin % Unit = 0
            /\ h.end % Unit = 0 \/ h.end = Limit(s)
        BY <3>1 DEF HolesOK
      <4> QED BY <4>1, <4>2, <2>6, <2>7, <2>10, <1>1
    <3>3. ASSUME NEW c \in clipped, NEW d \in clipped, c # d
          PROVE  c.end < d.begin \/ d.end < c.begin
      <4>1. PICK g \in s.holes : /\ g.begin < end /\ c.begin = g.begin
                                 /\ c.end = IF g.end < end THEN g.end ELSE end
                                 /\ c = Clipped(g, end)
        BY <2>8
      <4>2. PICK h \in s.holes : /\ h.begin < end /\ d.begin = h.begin
                                 /\ d.end = IF h.end < end THEN h.end ELSE end
                                 /\ d = Clipped(h, end)
        BY <2>8
      <4>3. g.end < h.begin \/ h.end < g.begin
        BY <3>1, <3>3, <4>1, <4>2 DEF HolesOK
      <4> QED BY <4>1, <4>2, <4>3, <2>10, <1>1
    <3> QED BY <2>5, <3>2, <3>3 DEF HolesOK
  <2>12. ASSUME NEW n \in Position
         PROVE  InHole(t, n) <=> n < Limit(t) /\ a[n] = NoByte
    <3>1. InHole(s, n) <=> n < Limit(s) /\ a[n] = NoByte
      BY DEF SlotOK
    <3>2. InHole(t, n) <=> InHole(s, n) /\ n < end
      <4>1. n \in Nat
        BY ReassemblyAssumption DEF Position
      <4>2. ASSUME InHole(t, n) PROVE InHole(s, n) /\ n < end
        <5>1. PICK c \in clipped : c.begin <= n /\ n < c.end
          BY <4>2, <2>5 DEF InHole
        <5>2. PICK h \in s.holes : /\ h.begin < end /\ c.begin = h.begin
                                   /\ c.end = IF h.end < end THEN h.end ELSE end
          BY <2>8
        <5>3. h.begin <= n /\ n < h.end /\ n < end
          BY <4>1, <5>1, <5>2, <2>10, <1>1
        <5> QED BY <5>3 DEF InHole
      <4>3. ASSUME InHole(s, n), n < end PROVE InHole(t, n)
        <5>1. PICK h \in s.holes : h.begin <= n /\ n < h.end
          BY <4>3 DEF InHole
        <5>2. h.begin < end
          BY <4>1, <4>3, <5>1, <2>10, <1>1
        <5>3. PICK c \in clipped : /\ c.begin = h.begin
                                   /\ c.end = IF h.end < end THEN h.end ELSE end
          BY <2>9, <5>2
        <5>4. c.begin <= n /\ n < c.end
          BY <4>1, <4>3, <5>1, <5>3, <2>10, <1>1
        <5> QED BY <5>4, <2>5 DEF InHole
      <4> QED BY <4>2, <4>3
    <3>3. n \in Nat /\ Limit(s) \in Nat
      BY <2>7, <1>1, ReassemblyAssumption DEF Position
    <3> QED BY <3>1, <3>2, <3>3, <2>5, <2>6, <1>1
  <2>13. SlotOK(t, a)
    <3>1. t.highest <= Limit(t)
      BY <2>5, <2>6
    <3>2. \A n \in Position : a[n] # NoByte => /\ n < t.highest
                                             /\ t.data[n] = a[n] /\ a[n][1] = t.key
      BY <2>5 DEF SlotOK
    <3> QED BY <2>11, <2>12, <3>1, <3>2 DEF SlotOK
  <2>14. end <= Limit(t) /\ end = Limit(t)
    BY <2>5, <1>1
  <2> QED BY <2>4, <2>5, <2>13, <2>14 DEF t, end
<1> QED BY <1>1, <1>2, <1>3

\* What is left of a hole when the bytes from begin to end have arrived.
LEMMA RemainderFacts ==
    ASSUME NEW h \in [begin : Position, end : 1 .. MaximumPayload],
           NEW begin \in Nat, NEW end \in Nat, begin < end, end <= MaximumPayload,
           Overlaps(h, begin, end)
    PROVE  /\ \A r \in Remainders(h, begin, end) :
                  /\ r \in [begin : Position, end : 1 .. MaximumPayload]
                  /\ r.begin < r.end
                  /\ \/ r = Hole(h.begin, begin) /\ r.begin = h.begin /\ r.end = begin
                     \/ r = Hole(end, h.end) /\ r.begin = end /\ r.end = h.end
           /\ h.begin < begin => \E r \in Remainders(h, begin, end) :
                                     r.begin = h.begin /\ r.end = begin
           /\ end < h.end => \E r \in Remainders(h, begin, end) :
                                 r.begin = end /\ r.end = h.end
<1>1. h.begin \in Nat /\ h.end \in Nat /\ h.begin < MaximumPayload /\ h.end <= MaximumPayload
  BY ReassemblyAssumption DEF Position
<1>2. /\ Hole(h.begin, begin).begin = h.begin /\ Hole(h.begin, begin).end = begin
      /\ Hole(end, h.end).begin = end /\ Hole(end, h.end).end = h.end
  BY DEF Hole
<1>3. ASSUME h.begin < begin
      PROVE  Hole(h.begin, begin) \in [begin : Position, end : 1 .. MaximumPayload]
  BY <1>1, <1>3, ReassemblyAssumption DEF Hole, Position
<1>4. ASSUME end < h.end
      PROVE  Hole(end, h.end) \in [begin : Position, end : 1 .. MaximumPayload]
  BY <1>1, <1>4, ReassemblyAssumption DEF Hole, Position
<1> QED BY <1>2, <1>3, <1>4 DEF Remainders

\* subtract_received_range takes the bytes of the fragment out of the holes.
\* The fragment begins at a unit, and ends at one or at the end of the
\* datagram, so the holes stay aligned.
LEMMA SubtractKeeps ==
    ASSUME NEW s \in SlotType, HolesOK(s),
           NEW begin \in Nat, NEW end \in Nat, begin < end, end <= Limit(s),
           begin % Unit = 0, end % Unit = 0 \/ end = Limit(s)
    PROVE  LET t == SubtractReceivedRange(s, begin, end)
           IN /\ t = [s EXCEPT !.holes = t.holes]
              /\ t \in SlotType
              /\ HolesOK(t)
              /\ \A n \in Position :
                    InHole(t, n) <=> InHole(s, n) /\ ~(begin <= n /\ n < end)
<1> DEFINE t == SubtractReceivedRange(s, begin, end)
           cut == {g \in s.holes : Overlaps(g, begin, end)}
           holes == {h \in s.holes : ~Overlaps(h, begin, end)} \cup
                      UNION {Remainders(h, begin, end) : h \in cut}
<1>1. t = [s EXCEPT !.holes = holes]
  BY DEF SubtractReceivedRange
<1>2. Limit(s) \in Nat /\ Limit(s) <= MaximumPayload
  BY ReassemblyAssumption DEF Limit, SlotType
<1>3. s.holes \subseteq [begin : Position, end : 1 .. MaximumPayload]
  BY DEF SlotType
<1>4. \A h \in s.holes : h.begin \in Nat /\ h.end \in Nat
  BY <1>3, ReassemblyAssumption DEF Position
<1>5. ASSUME NEW r \in holes
      PROVE  \E h \in s.holes :
                /\ r \in [begin : Position, end : 1 .. MaximumPayload]
                /\ r.begin < r.end
                /\ \/ r = h /\ (h.end <= begin \/ end <= h.begin)
                   \/ /\ Overlaps(h, begin, end) /\ r = Hole(h.begin, begin)
                      /\ r.begin = h.begin /\ r.end = begin
                   \/ /\ Overlaps(h, begin, end) /\ r = Hole(end, h.end)
                      /\ r.begin = end /\ r.end = h.end
  <2>1. CASE r \in s.holes /\ ~Overlaps(r, begin, end)
    <3>1. r.begin < r.end /\ r \in [begin : Position, end : 1 .. MaximumPayload]
      BY <2>1, <1>3 DEF HolesOK
    <3>2. r.end <= begin \/ end <= r.begin
      BY <2>1, <1>4 DEF Overlaps
    <3> QED BY <2>1, <3>1, <3>2
  <2>2. CASE \E h \in cut : r \in Remainders(h, begin, end)
    <3>1. PICK h \in s.holes : Overlaps(h, begin, end) /\ r \in Remainders(h, begin, end)
      BY <2>2
    <3>2. end <= MaximumPayload
      BY <1>2, ReassemblyAssumption
    <3> QED BY <3>1, <3>2, <1>3, RemainderFacts
  <2> QED BY <2>1, <2>2
<1>6. holes \subseteq [begin : Position, end : 1 .. MaximumPayload]
  BY <1>5
<1>7. ASSUME NEW h \in s.holes
      PROVE  /\ h.end <= begin \/ end <= h.begin => h \in holes
             /\ Overlaps(h, begin, end) /\ h.begin < begin =>
                   \E r \in holes : r.begin = h.begin /\ r.end = begin
             /\ Overlaps(h, begin, end) /\ end < h.end =>
                   \E r \in holes : r.begin = end /\ r.end = h.end
  <2>1. h.end <= begin \/ end <= h.begin => h \in holes
    BY <1>4 DEF Overlaps
  <2>2. ASSUME Overlaps(h, begin, end)
        PROVE  /\ Remainders(h, begin, end) \subseteq holes
               /\ h \in [begin : Position, end : 1 .. MaximumPayload]
               /\ end <= MaximumPayload
    BY <2>2, <1>2, <1>3, ReassemblyAssumption
  <2> HIDE DEF holes
  <2> QED BY <2>1, <2>2, RemainderFacts
<1> HIDE DEF holes, t
<1>8. /\ t.holes = holes /\ Limit(t) = Limit(s)
      /\ t = [s EXCEPT !.holes = t.holes]
  BY <1>1 DEF SlotType, Limit
<1>9. t \in SlotType
  BY <1>1, <1>6, Zenon DEF SlotType
<1>10. HolesOK(t)
  <2>1. ASSUME NEW r \in holes
        PROVE  /\ r.begin < r.end /\ r.end <= Limit(s)
               /\ r.begin % Unit = 0
               /\ r.end % Unit = 0 \/ r.end = Limit(s)
    <3>1. PICK h \in s.holes :
             /\ r.begin < r.end
             /\ \/ r = h
                \/ /\ r.begin = h.begin /\ r.end = begin
                \/ /\ r.begin = end /\ r.end = h.end
      BY <1>5
    <3>2. /\ h.begin < h.end /\ h.end <= Limit(s) /\ h.begin % Unit = 0
          /\ h.end % Unit = 0 \/ h.end = Limit(s)
      BY DEF HolesOK
    <3> QED BY <3>1, <3>2, <1>2, <1>4
  <2>2. ASSUME NEW q \in holes, NEW r \in holes, q # r
        PROVE  q.end < r.begin \/ r.end < q.begin
    <3>1. PICK g \in s.holes :
                /\ q.begin < q.end
                /\ \/ q = g /\ (g.end <= begin \/ end <= g.begin)
                   \/ /\ Overlaps(g, begin, end) /\ q = Hole(g.begin, begin)
                      /\ q.begin = g.begin /\ q.end = begin
                   \/ /\ Overlaps(g, begin, end) /\ q = Hole(end, g.end)
                      /\ q.begin = end /\ q.end = g.end
      BY <1>5
    <3>2. PICK h \in s.holes :
                /\ r.begin < r.end
                /\ \/ r = h /\ (h.end <= begin \/ end <= h.begin)
                   \/ /\ Overlaps(h, begin, end) /\ r = Hole(h.begin, begin)
                      /\ r.begin = h.begin /\ r.end = begin
                   \/ /\ Overlaps(h, begin, end) /\ r = Hole(end, h.end)
                      /\ r.begin = end /\ r.end = h.end
      BY <1>5
    <3>3. /\ g.begin < g.end /\ h.begin < h.end
          /\ g # h => g.end < h.begin \/ h.end < g.begin
      BY DEF HolesOK
    <3>4. CASE g = h
      BY <2>2, <3>1, <3>2, <3>3, <3>4, <1>4 DEF Overlaps
    <3>5. CASE g # h
      BY <3>1, <3>2, <3>3, <3>5, <1>4 DEF Overlaps
    <3> QED BY <3>4, <3>5
  <2> QED BY <1>8, <2>1, <2>2 DEF HolesOK
<1>11. ASSUME NEW n \in Position
       PROVE  InHole(t, n) <=> InHole(s, n) /\ ~(begin <= n /\ n < end)
  <2>1. n \in Nat
    BY ReassemblyAssumption DEF Position
  <2>2. ASSUME InHole(t, n) PROVE InHole(s, n) /\ ~(begin <= n /\ n < end)
    <3>1. PICK r \in holes : r.begin <= n /\ n < r.end
      BY <2>2, <1>8 DEF InHole
    <3>2. PICK h \in s.holes :
                /\ \/ r = h /\ (h.end <= begin \/ end <= h.begin)
                   \/ /\ Overlaps(h, begin, end)
                      /\ r.begin = h.begin /\ r.end = begin
                   \/ /\ Overlaps(h, begin, end)
                      /\ r.begin = end /\ r.end = h.end
      BY <1>5
    <3>3. h.begin <= n /\ n < h.end /\ ~(begin <= n /\ n < end)
      BY <2>1, <3>1, <3>2, <1>4 DEF Overlaps
    <3> QED BY <3>3 DEF InHole
  <2>3. ASSUME InHole(s, n), ~(begin <= n /\ n < end) PROVE InHole(t, n)
    <3>1. PICK h \in s.holes : h.begin <= n /\ n < h.end
      BY <2>3 DEF InHole
    <3>2. \E r \in holes : r.begin <= n /\ n < r.end
      BY <2>1, <2>3, <3>1, <1>4, <1>7 DEF Overlaps
    <3> QED BY <3>2, <1>8 DEF InHole
  <2> QED BY <2>2, <2>3
<1> QED BY <1>8, <1>9, <1>10, <1>11 DEF t

\* copy_unreceived_bytes writes into the holes only; highest follows.
LEMMA CopiedFacts ==
    ASSUME NEW u \in SlotType, NEW f \in Fragment
    PROVE  LET v == RaiseHighest(CopyUnreceivedBytes(u, f), f)
           IN /\ v \in SlotType
              /\ v.active = u.active /\ v.key = u.key /\ v.holes = u.holes
              /\ v.total = u.total /\ v.known = u.known
              /\ v.highest = IF u.highest < f.offset + f.size
                             THEN f.offset + f.size ELSE u.highest
              /\ v.data = [n \in Position |->
                     IF n \in Span(f.offset, f.offset + f.size) \cap Missing(u)
                     THEN <<f.key, f.version>> ELSE u.data[n]]
<1> DEFINE data == [n \in Position |->
                     IF n \in Span(f.offset, f.offset + f.size) \cap Missing(u)
                     THEN <<f.key, f.version>> ELSE u.data[n]]
           w == CopyUnreceivedBytes(u, f)
           highest == IF u.highest < f.offset + f.size
                      THEN f.offset + f.size ELSE u.highest
           v == RaiseHighest(w, f)
<1>1. data \in BufferType
  <2>1. <<f.key, f.version>> \in Byte \cup {NoByte}
    BY FragmentFacts, ByteIsNotNoByte
  <2>2. u.data \in BufferType
    BY DEF SlotType, BufferType
  <2> QED BY <2>1, <2>2 DEF BufferType
<1>2. highest \in 0 .. MaximumPayload
  BY FragmentFacts, ReassemblyAssumption DEF SlotType
<1>3. w = [u EXCEPT !.data = data]
  BY DEF CopyUnreceivedBytes
<1> HIDE DEF data
<1>4. w.highest = u.highest
  BY <1>3 DEF SlotType
<1>5. v = [w EXCEPT !.highest = highest]
  BY <1>4 DEF RaiseHighest
<1> HIDE DEF w, v, highest
<1>6. w \in SlotType
  BY <1>1, <1>3, Zenon DEF SlotType, BufferType
<1>7. v \in SlotType
  BY <1>2, <1>5, <1>6, Zenon DEF SlotType
<1>8. /\ v.active = u.active /\ v.key = u.key /\ v.holes = u.holes
      /\ v.total = u.total /\ v.known = u.known
      /\ v.highest = highest /\ v.data = data
  BY <1>3, <1>5, <1>6, Zenon DEF SlotType
<1> QED BY <1>7, <1>8 DEF v, w, data, highest

\* Bytes of a hole, as a set and one by one.
LEMMA MissingIsInHole ==
    ASSUME NEW s, NEW n \in Position
    PROVE  n \in Missing(s) <=> InHole(s, n)
BY DEF Missing, InHole, Span

\* insert, from the slot it found to the slot it keeps: the slot is still well
\* formed and its first bytes are those before and the new ones of f.
LEMMA FragmentKeeps ==
    ASSUME NEW s \in SlotType, NEW a \in BufferType, SlotOK(s, a),
           NEW f \in Fragment, ~Contradicts(s, f), s.key = f.key
    PROVE  LET t == SubtractReceivedRange(Copied(s, f), f.offset, f.offset + f.size)
           IN /\ t \in SlotType /\ SlotOK(t, Merged(a, f))
              /\ t.active = s.active /\ t.key = s.key
<1> DEFINE begin == f.offset
           end == f.offset + f.size
           u == EstablishTotalLength(s, f)
           v == Copied(s, f)
           t == SubtractReceivedRange(v, begin, end)
           byte == <<f.key, f.version>>
<1>1. /\ u \in SlotType /\ SlotOK(u, a) /\ u.active = s.active /\ u.key = s.key
      /\ end <= Limit(u) /\ (f.more \/ end = Limit(u))
  BY EstablishKeeps
<1>2. /\ v \in SlotType
      /\ v.active = u.active /\ v.key = u.key /\ v.holes = u.holes
      /\ v.total = u.total /\ v.known = u.known
      /\ v.highest = IF u.highest < end THEN end ELSE u.highest
      /\ v.data = [n \in Position |->
             IF n \in Span(begin, end) \cap Missing(u) THEN byte ELSE u.data[n]]
  BY <1>1, CopiedFacts DEF Copied
<1> HIDE DEF u, v
<1>3. Limit(v) = Limit(u) /\ HolesOK(v) /\ (\A n : InHole(v, n) <=> InHole(u, n))
  BY <1>1, <1>2 DEF Limit, HolesOK, SlotOK, InHole
<1>4. /\ begin \in Nat /\ end \in Nat /\ begin < end
      /\ begin % Unit = 0 /\ end <= Limit(v) /\ (end % Unit = 0 \/ end = Limit(v))
  <2>1. ASSUME f.more PROVE end % Unit = 0
    <3>1. /\ Unit \in Nat /\ Unit > 0 /\ f.offset \in Int /\ f.size \in Int
          /\ f.offset % Unit = 0 /\ f.size % Unit = 0
      BY <2>1, FragmentFacts, ReassemblyAssumption
    <3> QED BY <3>1, MultiplesAdd
  <2> QED BY <1>1, <1>3, <2>1, FragmentFacts
<1>5. /\ t = [v EXCEPT !.holes = t.holes] /\ t \in SlotType /\ HolesOK(t)
      /\ \A n \in Position : InHole(t, n) <=> InHole(v, n) /\ ~(begin <= n /\ n < end)
  BY <1>2, <1>3, <1>4, SubtractKeeps
<1> HIDE DEF t
<1>6. /\ t.active = v.active /\ t.key = v.key /\ t.data = v.data
      /\ t.highest = v.highest /\ t.total = v.total /\ t.known = v.known
  BY <1>2, <1>5, Zenon DEF SlotType
<1>7. Limit(t) = Limit(v)
  BY <1>6 DEF Limit
<1>8. byte # NoByte /\ byte[1] = f.key
  BY FragmentFacts, ByteIsNotNoByte
<1> HIDE DEF begin, end, byte
<1>9. ASSUME NEW n \in Position
      PROVE  /\ n \in Nat
             /\ n \in Span(begin, end) <=> begin <= n /\ n < end
             /\ Merged(a, f)[n] = IF begin <= n /\ n < end /\ a[n] = NoByte
                                  THEN byte ELSE a[n]
             /\ t.data[n] = IF begin <= n /\ n < end /\ InHole(u, n)
                            THEN byte ELSE u.data[n]
  <2>1. n \in Nat
    BY ReassemblyAssumption DEF Position
  <2>2. n \in Span(begin, end) <=> begin <= n /\ n < end
    BY DEF Span
  <2> QED BY <2>1, <2>2, <1>2, <1>6, MissingIsInHole DEF Merged, begin, end, byte
<1>10. Limit(u) \in Nat /\ u.highest \in Nat
  BY <1>1, ReassemblyAssumption DEF Limit, SlotType
<1>11. t.highest <= Limit(t)
  BY <1>1, <1>2, <1>3, <1>4, <1>6, <1>7, <1>10 DEF SlotOK
<1>12. ASSUME NEW n \in Position
       PROVE  InHole(t, n) <=> n < Limit(t) /\ Merged(a, f)[n] = NoByte
  BY <1>1, <1>3, <1>5, <1>7, <1>8, <1>9 DEF SlotOK
<1>13. ASSUME NEW n \in Position, Merged(a, f)[n] # NoByte
       PROVE  /\ n < t.highest /\ t.data[n] = Merged(a, f)[n]
              /\ Merged(a, f)[n][1] = t.key
  <2>1. CASE begin <= n /\ n < end /\ a[n] = NoByte
    <3>1. n < t.highest
      BY <1>2, <1>4, <1>6, <1>9, <1>10, <2>1
    <3>2. InHole(u, n)
      BY <1>1, <1>3, <1>4, <1>9, <1>10, <2>1 DEF SlotOK
    <3> QED BY <1>1, <1>2, <1>6, <1>8, <1>9, <2>1, <3>1, <3>2
  <2>2. CASE ~(begin <= n /\ n < end /\ a[n] = NoByte)
    <3>1. a[n] # NoByte /\ Merged(a, f)[n] = a[n]
      BY <1>9, <1>13, <2>2
    <3>2. n < u.highest /\ u.data[n] = a[n] /\ a[n][1] = u.key /\ ~InHole(u, n)
      BY <1>1, <3>1 DEF SlotOK
    <3> QED BY <1>2, <1>4, <1>6, <1>9, <1>10, <3>1, <3>2
  <2> QED BY <2>1, <2>2
<1>14. SlotOK(t, Merged(a, f))
  BY <1>5, <1>11, <1>12, <1>13 DEF SlotOK
<1> QED BY <1>1, <1>2, <1>5, <1>6, <1>14 DEF t, v, begin, end
-----------------------------------------------------------------------------
\* release keeps everything but what it clears.
LEMMA ReleasedFacts ==
    ASSUME NEW s \in SlotType
    PROVE  /\ Released(s) \in SlotType
           /\ ~Released(s).active /\ Released(s).holes = {}
           /\ Released(s).data = s.data /\ Released(s).key = s.key
<1>1. 0 \in 0 .. MaximumPayload /\ 0 \in 0 .. Timeout
  BY ReassemblyAssumption
<1> QED BY <1>1, Zenon DEF Released, SlotType

\* The type invariant, written with the type of a slot.
LEMMA TypeOKIs ==
    TypeOK <=> /\ slots \in [SlotIndex -> SlotType]
               /\ arrived \in [SlotIndex -> BufferType]
               /\ delivered \in [slot : 0 .. Capacity, length : 0 .. MaximumPayload]
BY DEF TypeOK, SlotType, BufferType

\* The slot find_or_create returns, and its first bytes.
LEMMA TakenFacts ==
    ASSUME TableInv, NEW f \in Fragment, NEW i \in FindOrCreate(f.key)
    PROVE  /\ i \in SlotIndex
           /\ Taken(i, f.key) \in SlotType
           /\ Taken(i, f.key).key = f.key /\ Taken(i, f.key).active
           /\ \E a \in BufferType : /\ SlotOK(Taken(i, f.key), a)
                                    /\ Arrive(i, f) = Merged(a, f)
<1>1. slots \in [SlotIndex -> SlotType] /\ arrived \in [SlotIndex -> BufferType]
  BY TypeOKIs DEF TableInv
<1>2. MaximumPayload > 0
  BY FragmentFacts, ReassemblyAssumption
<1>3. CASE Holders(f.key) # {}
  <2>1. i \in SlotIndex /\ slots[i].active /\ slots[i].key = f.key
    BY <1>3 DEF FindOrCreate, Holders
  <2>2. Arrive(i, f) = Merged(arrived[i], f)
    BY <2>1 DEF Arrive, Merged
  <2> QED BY <1>1, <2>1, <2>2 DEF Taken, TableInv
<1>4. CASE Holders(f.key) = {}
  <2>1. i = Lowest(Inactive) /\ Inactive # {}
    BY <1>4 DEF FindOrCreate
  <2>2. i \in Inactive
    <3>1. Inactive \subseteq Nat
      BY ReassemblyAssumption DEF Inactive, SlotIndex
    <3>2. \E j \in Inactive : \A k \in Inactive : j <= k
      BY <2>1, <3>1, LeastElement
    <3> QED BY <2>1, <3>2 DEF Lowest
  <2>3. i \in SlotIndex /\ ~slots[i].active
    BY <2>2 DEF Inactive
  <2>4. Arrive(i, f) = Merged([n \in Position |-> NoByte], f)
    BY <2>3 DEF Arrive, Merged
  <2>5. [n \in Position |-> NoByte] \in BufferType
    BY DEF BufferType
  <2>6. f.key \in Key
    BY FragmentFacts
  <2> QED BY <1>1, <1>2, <2>3, <2>4, <2>5, <2>6, NewSlotOK DEF Taken
<1> QED BY <1>3, <1>4

\* Freeing slots keeps the invariant.
LEMMA FreeKeeps ==
    ASSUME TableInv, NEW S \in SUBSET SlotIndex, NEW t \in [S -> SlotType],
           slots' = [i \in SlotIndex |-> IF i \in S THEN Released(t[i]) ELSE slots[i]],
           delivered' = Nothing, arrived' = arrived
    PROVE  TableInv'
<1>1. /\ slots \in [SlotIndex -> SlotType] /\ arrived \in [SlotIndex -> BufferType]
      /\ \A i \in SlotIndex : slots[i].active => SlotOK(slots[i], arrived[i])
      /\ \A i \in SlotIndex : ~slots[i].active => slots[i].holes = {}
  BY TypeOKIs DEF TableInv
<1>2. ASSUME NEW i \in S
      PROVE  /\ Released(t[i]) \in SlotType
             /\ ~Released(t[i]).active /\ Released(t[i]).holes = {}
  BY ReleasedFacts
<1>3. delivered' \in [slot : 0 .. Capacity, length : 0 .. MaximumPayload]
  BY ReassemblyAssumption DEF Nothing
<1>4. TypeOK'
  BY <1>1, <1>2, <1>3 DEF TypeOK, SlotType, BufferType
<1>5. DeliveredIsReceived'
  BY ReassemblyAssumption DEF DeliveredIsReceived, Nothing, Span, Position
<1>6. \A i \in SlotIndex : /\ slots'[i].active => SlotOK(slots'[i], arrived'[i])
                           /\ ~slots'[i].active => slots'[i].holes = {}
  BY <1>1, <1>2
<1> QED BY <1>4, <1>5, <1>6 DEF TableInv

\* insert keeps the invariant.
LEMMA InsertKeeps ==
    ASSUME TableInv, NEW f \in Fragment, Insert(f)
    PROVE  TableInv'
<1>1. PICK i \in FindOrCreate(f.key) : Accept(i, Taken(i, f.key), f)
  BY DEF Insert
<1> DEFINE s == Taken(i, f.key)
           u == Copied(s, f)
           t == SubtractReceivedRange(u, f.offset, f.offset + f.size)
<1>2. /\ i \in SlotIndex /\ s \in SlotType /\ s.key = f.key /\ s.active
      /\ \E a \in BufferType : SlotOK(s, a) /\ Arrive(i, f) = Merged(a, f)
  BY TakenFacts
<1>3. PICK a \in BufferType : SlotOK(s, a) /\ Arrive(i, f) = Merged(a, f)
  BY <1>2
<1>4. /\ slots \in [SlotIndex -> SlotType] /\ arrived \in [SlotIndex -> BufferType]
      /\ \A j \in SlotIndex : slots[j].active => SlotOK(slots[j], arrived[j])
      /\ \A j \in SlotIndex : ~slots[j].active => slots[j].holes = {}
  BY TypeOKIs DEF TableInv
<1>5. ASSUME NEW x \in SlotType, Drop(i, x) PROVE TableInv'
  <2>1. /\ slots' = [j \in SlotIndex |-> IF j \in {i} THEN Released([k \in {i} |-> x][j])
                                         ELSE slots[j]]
        /\ delivered' = Nothing /\ arrived' = arrived
    BY <1>2, <1>4, <1>5 DEF Drop
  <2>2. {i} \in SUBSET SlotIndex /\ [k \in {i} |-> x] \in [{i} -> SlotType]
    BY <1>2, <1>5
  <2> QED BY <2>1, <2>2, FreeKeeps
<1>6. CASE Contradicts(s, f) /\ Drop(i, s)
  BY <1>2, <1>5, <1>6
<1>7. CASE ~Contradicts(s, f) /\ Subtract(i, u, f)
  <2>1. /\ t \in SlotType /\ SlotOK(t, Merged(a, f))
        /\ t.active = s.active /\ t.key = s.key
    BY <1>2, <1>3, <1>7, FragmentKeeps
  <2>2. u \in SlotType
    BY <1>2, <1>3, <1>7, EstablishKeeps, CopiedFacts DEF Copied
  <2>3. Merged(a, f) \in BufferType
    <3>1. <<f.key, f.version>> \in Byte \cup {NoByte}
      BY FragmentFacts, ByteIsNotNoByte
    <3> QED BY <3>1 DEF Merged, BufferType
  <2>4. CASE Drop(i, u)
    BY <2>2, <2>4, <1>5
  <2>5. CASE Keep(i, t, f)
    <3> HIDE DEF s, u, t
    <3>1. arrived' = [arrived EXCEPT ![i] = Merged(a, f)]
      BY <1>3, <2>5 DEF Keep
    <3>2. arrived' \in [SlotIndex -> BufferType]
      BY <1>2, <1>4, <2>3, <3>1
    <3>3. CASE ~IsComplete(t) /\ slots' = [slots EXCEPT ![i] = t] /\ delivered' = Nothing
      <4>1. slots' \in [SlotIndex -> SlotType]
        BY <1>2, <1>4, <2>1, <3>3
      <4>2. delivered' \in [slot : 0 .. Capacity, length : 0 .. MaximumPayload]
        BY <3>3, ReassemblyAssumption DEF Nothing
      <4>3. DeliveredIsReceived'
        BY <3>3, ReassemblyAssumption DEF DeliveredIsReceived, Nothing, Span, Position
      <4>4. \A j \in SlotIndex : /\ slots'[j].active => SlotOK(slots'[j], arrived'[j])
                                 /\ ~slots'[j].active => slots'[j].holes = {}
        BY <1>2, <1>4, <2>1, <3>1, <3>3
      <4> QED BY <3>2, <4>1, <4>2, <4>3, <4>4 DEF TableInv, TypeOK, SlotType, BufferType
    <3>4. CASE /\ IsComplete(t) /\ slots' = [slots EXCEPT ![i] = Released(t)]
               /\ delivered' = [slot |-> i, length |-> t.total]
      <4>1. /\ Released(t) \in SlotType /\ ~Released(t).active /\ Released(t).holes = {}
            /\ Released(t).data = t.data /\ Released(t).key = t.key
        BY <2>1, ReleasedFacts
      <4>2. slots' \in [SlotIndex -> SlotType]
        BY <1>2, <1>4, <3>4, <4>1
      <4>3. delivered' \in [slot : 0 .. Capacity, length : 0 .. MaximumPayload]
        BY <1>2, <2>1, <3>4, ReassemblyAssumption DEF SlotType, SlotIndex
      <4>4. DeliveredIsReceived'
        <5> SUFFICES ASSUME NEW n \in Span(0, t.total)
                     PROVE  /\ Merged(a, f)[n] # NoByte
                            /\ t.data[n] = Merged(a, f)[n] /\ t.data[n][1] = t.key
          BY <1>2, <1>4, <3>1, <3>4, <4>1 DEF DeliveredIsReceived
        <5>1. n \in Position /\ n < t.total
          BY DEF Span
        <5>2. ~InHole(t, n) /\ Limit(t) = t.total
          BY <3>4 DEF IsComplete, InHole, Limit
        <5> QED BY <2>1, <5>1, <5>2 DEF SlotOK
      <4>5. \A j \in SlotIndex : /\ slots'[j].active => SlotOK(slots'[j], arrived'[j])
                                 /\ ~slots'[j].active => slots'[j].holes = {}
        BY <1>2, <1>4, <3>1, <3>4, <4>1
      <4> QED BY <3>2, <4>2, <4>3, <4>4, <4>5 DEF TableInv, TypeOK, SlotType, BufferType
    <3> QED BY <2>5, <3>3, <3>4 DEF Keep
  <2> QED BY <1>7, <2>4, <2>5 DEF Subtract
<1> QED BY <1>1, <1>6, <1>7 DEF Accept

\* sweep keeps the invariant, whichever slots are overdue.
LEMMA SweepSlotsKeeps ==
    ASSUME TableInv, NEW S \in SUBSET SlotIndex, SweepSlots(S)
    PROVE  TableInv'
<1> DEFINE t == [i \in S |-> slots[i]]
<1>1. /\ slots' = [i \in SlotIndex |-> IF i \in S THEN Released(t[i]) ELSE slots[i]]
      /\ delivered' = Nothing /\ arrived' = arrived
  BY DEF SweepSlots
<1>2. S \in SUBSET SlotIndex /\ t \in [S -> SlotType]
  BY TypeOKIs DEF TableInv
<1> HIDE DEF t
<1> QED BY <1>1, <1>2, FreeKeeps

\* So does a step that leaves the table alone.
LEMMA StutterKeeps == ASSUME TableInv, UNCHANGED vars PROVE TableInv'
BY DEF vars, TableInv, TypeOK, DeliveredIsReceived

\* The clock only changes the age of a slot.
LEMMA ElapseKeeps == ASSUME TableInv, Elapse PROVE TableInv'
<1>1. /\ slots \in [SlotIndex -> SlotType] /\ arrived \in [SlotIndex -> BufferType]
      /\ \A i \in SlotIndex : slots[i].active => SlotOK(slots[i], arrived[i])
      /\ \A i \in SlotIndex : ~slots[i].active => slots[i].holes = {}
  BY TypeOKIs DEF TableInv
<1>2. /\ slots' = [i \in SlotIndex |->
                      IF slots[i].active /\ slots[i].age < Timeout
                      THEN [slots[i] EXCEPT !.age = slots[i].age + 1] ELSE slots[i]]
      /\ delivered' = Nothing /\ arrived' = arrived
  BY DEF Elapse
<1>3. ASSUME NEW s \in SlotType, s.age < Timeout
      PROVE  LET t == [s EXCEPT !.age = s.age + 1]
             IN /\ t \in SlotType /\ t.active = s.active /\ t.holes = s.holes
                /\ \A a : SlotOK(s, a) => SlotOK(t, a)
  <2> DEFINE t == [s EXCEPT !.age = s.age + 1]
  <2>1. s.age + 1 \in 0 .. Timeout
    BY <1>3, ReassemblyAssumption DEF SlotType
  <2>2. t \in SlotType
    BY <2>1, Zenon DEF SlotType
  <2>3. /\ t.active = s.active /\ t.holes = s.holes /\ t.key = s.key /\ t.data = s.data
        /\ t.highest = s.highest /\ t.total = s.total /\ t.known = s.known
    BY Zenon DEF SlotType
  <2> HIDE DEF t
  <2>4. \A a : SlotOK(s, a) => SlotOK(t, a)
    BY <2>3 DEF SlotOK, HolesOK, InHole, Limit
  <2> QED BY <2>2, <2>3, <2>4 DEF t
<1>4. \A i \in SlotIndex : /\ slots'[i] \in SlotType
                           /\ slots'[i].active => SlotOK(slots'[i], arrived'[i])
                           /\ ~slots'[i].active => slots'[i].holes = {}
  BY <1>1, <1>2, <1>3
<1>5. delivered' \in [slot : 0 .. Capacity, length : 0 .. MaximumPayload]
  BY <1>2, ReassemblyAssumption DEF Nothing
<1>6. slots' \in [SlotIndex -> SlotType]
  BY <1>2, <1>4
<1>7. TypeOK'
  BY <1>1, <1>2, <1>5, <1>6 DEF TypeOK, SlotType, BufferType
<1>8. DeliveredIsReceived'
  BY <1>2, ReassemblyAssumption DEF DeliveredIsReceived, Nothing, Span, Position
<1> QED BY <1>4, <1>7, <1>8 DEF TableInv

LEMMA TableInit == Init => TableInv
<1> SUFFICES ASSUME Init PROVE TableInv
  OBVIOUS
<1>1. (CHOOSE k \in Key : TRUE) \in Key
  BY ReassemblyAssumption
<1>2. /\ 0 \in 0 .. MaximumPayload /\ 0 \in 0 .. Timeout
      /\ [n \in Position |-> NoByte] \in BufferType
  BY ReassemblyAssumption DEF BufferType
<1>3. slots \in [SlotIndex -> SlotType]
  BY <1>1, <1>2 DEF Init, SlotType, BufferType
<1>4. delivered \in [slot : 0 .. Capacity, length : 0 .. MaximumPayload]
  BY ReassemblyAssumption DEF Init, Nothing
<1>5. TypeOK
  BY <1>2, <1>3, <1>4 DEF Init, TypeOK, SlotType, BufferType
<1>6. DeliveredIsReceived
  BY ReassemblyAssumption DEF Init, DeliveredIsReceived, Nothing, Span, Position
<1>7. \A i \in SlotIndex : ~slots[i].active /\ slots[i].holes = {}
  BY DEF Init
<1> QED BY <1>5, <1>6, <1>7 DEF TableInv

\* The invariant holds in every state of the table.
THEOREM TableCorrect == Spec => []TableInv
<1>1. TableInv /\ [Next]_vars => TableInv'
  <2> SUFFICES ASSUME TableInv, [Next]_vars PROVE TableInv'
    OBVIOUS
  <2>1. CASE \E f \in Fragment : Insert(f)
    BY <2>1, InsertKeeps
  <2>2. CASE Sweep
    BY <2>2, SweepSlotsKeeps DEF Sweep
  <2>3. CASE Elapse
    BY <2>3, ElapseKeeps
  <2>4. CASE UNCHANGED vars
    BY <2>4, StutterKeeps
  <2> QED BY <2>1, <2>2, <2>3, <2>4 DEF Next
<1> QED BY <1>1, TableInit, PTL DEF Spec

\* The holes of a slot are exactly the bytes that have not arrived.
THEOREM HolesCorrect == Spec => []HolesAreMissingBytes
<1>1. TableInv => HolesAreMissingBytes
  <2> SUFFICES ASSUME TableInv, NEW i \in SlotIndex, slots[i].active
               PROVE  /\ Missing(slots[i]) =
                            {n \in Span(0, Limit(slots[i])) : arrived[i][n] = NoByte}
                      /\ \A n \in Position : n >= Limit(slots[i]) => arrived[i][n] = NoByte
                      /\ \A g, h \in slots[i].holes : Overlaps(g, h.begin, h.end) => g = h
    BY DEF HolesAreMissingBytes
  <2>1. SlotOK(slots[i], arrived[i]) /\ slots[i] \in SlotType
    BY TypeOKIs DEF TableInv
  <2>2. Missing(slots[i]) \subseteq Position
    BY DEF Missing, Span
  <2>3. \A n \in Position : n \in Nat
    BY ReassemblyAssumption DEF Position
  <2>4. Missing(slots[i]) = {n \in Span(0, Limit(slots[i])) : arrived[i][n] = NoByte}
    BY <2>1, <2>2, <2>3, MissingIsInHole DEF SlotOK, Span
  <2>5. Limit(slots[i]) \in Nat /\ slots[i].highest \in Nat
    BY <2>1, ReassemblyAssumption DEF SlotType, Limit
  <2>6. \A n \in Position : n >= Limit(slots[i]) => arrived[i][n] = NoByte
    BY <2>1, <2>3, <2>5 DEF SlotOK
  <2>7. \A h \in slots[i].holes : h.begin \in Nat /\ h.end \in Nat
    BY <2>1, ReassemblyAssumption DEF SlotType, Position
  <2>8. \A g, h \in slots[i].holes : Overlaps(g, h.begin, h.end) => g = h
    BY <2>1, <2>7 DEF SlotOK, HolesOK, Overlaps
  <2> QED BY <2>4, <2>6, <2>8
<1> QED BY <1>1, TableCorrect, PTL

\* No byte that has arrived is overwritten.
THEOREM FirstArrivalStays == Spec => []FirstArrivalWins
<1>1. TableInv => FirstArrivalWins
  BY DEF TableInv, FirstArrivalWins, SlotOK
<1> QED BY <1>1, TableCorrect, PTL

\* No byte of an earlier datagram, nor one that never arrived, is delivered.
THEOREM DeliveryIsOwn == Spec => []DeliveredIsReceived
<1>1. TableInv => DeliveredIsReceived
  BY DEF TableInv
<1> QED BY <1>1, TableCorrect, PTL
-----------------------------------------------------------------------------
\* Holes that are apart begin two units apart: the first one is at least a
\* unit long and what has arrived between them too.
LEMMA HolesApart ==
    ASSUME NEW s \in SlotType, HolesOK(s), NEW g \in s.holes, NEW h \in s.holes,
           g.end < h.begin
    PROVE  g.begin + 2 * Unit <= h.begin
<1>1. /\ Unit \in Nat /\ Unit > 0 /\ g.begin \in Int /\ g.end \in Int /\ h.begin \in Int
      /\ h.end \in Int /\ Limit(s) \in Int
  BY ReassemblyAssumption DEF SlotType, Position, Limit
<1>2. /\ g.begin % Unit = 0 /\ h.begin % Unit = 0 /\ g.begin < g.end
      /\ h.begin < h.end /\ h.end <= Limit(s) /\ (g.end % Unit = 0 \/ g.end = Limit(s))
  BY DEF HolesOK
<1>3. g.end % Unit = 0
  BY <1>1, <1>2
<1>4. g.begin + Unit <= g.end
  BY <1>1, <1>2, <1>3, MultiplesApart
<1>5. g.end + Unit <= h.begin
  BY <1>1, <1>2, <1>3, MultiplesApart
<1> QED BY <1>1, <1>4, <1>5

\* So there are at most as many as pairs of units in the largest datagram.
LEMMA FewHoles ==
    ASSUME NEW s \in SlotType, HolesOK(s), s.holes # {}
    PROVE  /\ Cardinality(s.holes) \in Nat
           /\ 2 * (Cardinality(s.holes) - 1) * Unit < MaximumPayload
<1> DEFINE w == 2 * Unit
           last == (MaximumPayload - 1) \div w
           number == [h \in s.holes |-> h.begin \div w]
<1>1. w \in Nat /\ w > 0
  BY ReassemblyAssumption
<1>2. \A h \in s.holes : h.begin \in Nat /\ h.begin <= MaximumPayload - 1
  BY ReassemblyAssumption DEF SlotType, Position
<1>3. MaximumPayload - 1 \in Nat
  BY <1>2, ReassemblyAssumption
<1> HIDE DEF w
<1>4. last \in Nat /\ w * last <= MaximumPayload - 1
  BY <1>1, <1>3, QuotientGrows
<1>5. \A h \in s.holes : h.begin \div w \in 0 .. last
  BY <1>1, <1>2, <1>3, <1>4, QuotientGrows
<1>6. ASSUME NEW g \in s.holes, NEW h \in s.holes, g # h
      PROVE  g.begin \div w # h.begin \div w
  <2>1. g.end < h.begin \/ h.end < g.begin
    BY <1>6 DEF HolesOK
  <2>2. g.begin + w <= h.begin \/ h.begin + w <= g.begin
    BY <2>1, HolesApart DEF w
  <2>3. g.begin \in Nat /\ h.begin \in Nat
    BY <1>2
  <2>4. CASE g.begin + w <= h.begin
    <3>1. g.begin \div w < h.begin \div w /\ g.begin \div w \in Nat
      BY <1>1, <2>3, <2>4, QuotientGrows
    <3>2. h.begin \div w \in Nat
      BY <1>1, <2>3, QuotientGrows
    <3> QED BY <3>1, <3>2
  <2>5. CASE h.begin + w <= g.begin
    <3>1. h.begin \div w < g.begin \div w /\ h.begin \div w \in Nat
      BY <1>1, <2>3, <2>5, QuotientGrows
    <3>2. g.begin \div w \in Nat
      BY <1>1, <2>3, QuotientGrows
    <3> QED BY <3>1, <3>2
  <2> QED BY <2>2, <2>4, <2>5
<1> HIDE DEF last
<1>7. number \in Injection(s.holes, 0 .. last)
  <2>1. \A h \in s.holes : number[h] = h.begin \div w
    OBVIOUS
  <2>2. number \in [s.holes -> 0 .. last]
    BY <1>5
  <2> HIDE DEF number
  <2>3. \A g, h \in s.holes : number[g] = number[h] => g = h
    BY <1>6, <2>1
  <2> QED BY <2>2, <2>3 DEF Injection, IsInjective
<1>8. IsFiniteSet(0 .. last) /\ Cardinality(0 .. last) = last + 1
  BY <1>4, FS_Interval
<1>9. IsFiniteSet(s.holes) /\ Cardinality(s.holes) <= last + 1
  BY <1>7, <1>8, FS_Injection
<1>10. Cardinality(s.holes) \in Nat
  BY <1>9, FS_CardinalityType
<1> DEFINE c == Cardinality(s.holes) - 1
<1>11. c \in Int /\ c <= last
  BY <1>4, <1>9, <1>10
<1> HIDE DEF c
<1>12. w * c <= w * last
  BY <1>1, <1>4, <1>11
<1>13. 2 * c * Unit = w * c
  BY <1>11, ReassemblyAssumption DEF w
<1>14. w * c < MaximumPayload
  <2>1. w * c \in Int /\ w * last \in Int
    BY <1>1, <1>4, <1>11
  <2> QED BY <1>4, <1>12, <2>1, ReassemblyAssumption
<1> QED BY <1>10, <1>13, <1>14 DEF c

\* The table is well formed and no slot ever has more holes than fit twice
\* into the units of the largest datagram.
THEOREM TableStaysOK == Spec => []TableOK
<1>1. TableInv => TableOK
  <2> SUFFICES ASSUME TableInv PROVE TableOK
    OBVIOUS
  <2>1. TypeOK
    BY DEF TableInv
  <2>2. ASSUME NEW i \in SlotIndex, slots[i].holes # {}
        PROVE  2 * (Cardinality(slots[i].holes) - 1) * Unit < MaximumPayload
    <3>1. slots[i].active /\ slots[i] \in SlotType
      BY <2>2, TypeOKIs DEF TableInv
    <3>2. HolesOK(slots[i])
      BY <3>1 DEF TableInv, SlotOK
    <3> QED BY <2>2, <3>1, <3>2, FewHoles
  <2> QED BY <2>1, <2>2 DEF TableOK, HolesBounded
<1> QED BY <1>1, TableCorrect, PTL

\* subtract_received_range never fails for want of room: there is always room
\* for the one hole a split adds, if the array has one hole more than there are
\* pairs of units in the largest datagram (8,192 for 65,515 bytes in units of 8).
THEOREM RoomForEveryHole ==
    ASSUME MaximumHoles > 0, MaximumPayload <= 2 * (MaximumHoles - 1) * Unit
    PROVE  Spec => [](\A i \in SlotIndex :
                         Cardinality(slots[i].holes) < MaximumHoles)
<1>1. TableInv => \A i \in SlotIndex : Cardinality(slots[i].holes) < MaximumHoles
  <2> SUFFICES ASSUME TableInv, NEW i \in SlotIndex
               PROVE  Cardinality(slots[i].holes) < MaximumHoles
    OBVIOUS
  <2>1. CASE slots[i].holes = {}
    BY <2>1, FS_EmptySet, ReassemblyAssumption
  <2>2. CASE slots[i].holes # {}
    <3>1. slots[i].active /\ slots[i] \in SlotType
      BY <2>2, TypeOKIs DEF TableInv
    <3>2. HolesOK(slots[i])
      BY <3>1 DEF TableInv, SlotOK
    <3> DEFINE c == Cardinality(slots[i].holes)
    <3>3. c \in Nat /\ 2 * (c - 1) * Unit < MaximumPayload
      BY <2>2, <3>1, <3>2, FewHoles
    <3> HIDE DEF c
    <3>4. 2 * (c - 1) * Unit < 2 * (MaximumHoles - 1) * Unit
      BY <3>3, ReassemblyAssumption
    <3>5. ~(c - 1 >= MaximumHoles - 1)
      BY <3>3, <3>4, ReassemblyAssumption
    <3>6. c < MaximumHoles
      BY <3>3, <3>5, ReassemblyAssumption
    <3> QED BY <3>6 DEF c
  <2> QED BY <2>1, <2>2
<1> QED BY <1>1, TableCorrect, PTL
-----------------------------------------------------------------------------
(* What insert does, for the modules that use the table. *)

\* end is the length of slot s, known before or told by f.
LengthGiven(s, f, end) ==
    IF s.known THEN end = s.total ELSE ~f.more /\ end = f.offset + f.size

\* The bytes that have arrived in slot i are of f or were there before.
ArrivedFrom(i, f) ==
    \A n \in Position : arrived'[i][n] # NoByte =>
        \/ n \in Span(f.offset, f.offset + f.size) /\ arrived'[i][n] = <<f.key, f.version>>
        \/ slots[i].active /\ arrived'[i][n] = arrived[i][n]

\* The effect of insert on the slot it chose and on the others.
Inserted(i, f) ==
    /\ \A j \in SlotIndex : j # i => slots'[j] = slots[j] /\ arrived'[j] = arrived[j]
    /\ slots[i].active => slots[i].key = f.key
    /\ slots'[i].known => slots'[i].active
    /\ slots'[i].active => slots'[i].key = f.key /\ ArrivedFrom(i, f)
    /\ slots'[i].known => LengthGiven(Taken(i, f.key), f, slots'[i].total)
    /\ delivered' # Nothing =>
           /\ delivered'.slot = i /\ slots'[i].key = f.key /\ ArrivedFrom(i, f)
           /\ LengthGiven(Taken(i, f.key), f, delivered'.length)

\* The slot find_or_create returns has no length, or the one it had.
LEMMA TakenLength ==
    ASSUME TableInv, NEW f \in Fragment, NEW i \in SlotIndex
    PROVE  /\ Taken(i, f.key).known => slots[i].active
           /\ slots[i].active => Taken(i, f.key) = slots[i]
<1>1. slots[i] \in SlotType
  BY TypeOKIs DEF TableInv
<1> QED BY <1>1 DEF Taken, NewSlot, SlotType

\* The steps of insert before it looks whether the datagram is complete.
LEMMA FragmentLength ==
    ASSUME NEW s \in SlotType, NEW a \in BufferType, SlotOK(s, a),
           NEW f \in Fragment, ~Contradicts(s, f),
           NEW t, t = SubtractReceivedRange(Copied(s, f), f.offset, f.offset + f.size),
           t.known
    PROVE  LengthGiven(s, f, t.total)
<1> DEFINE u == EstablishTotalLength(s, f)
           v == Copied(s, f)
<1>1. u \in SlotType
  BY EstablishKeeps
<1>2. v \in SlotType /\ v.total = u.total /\ v.known = u.known
  BY <1>1, CopiedFacts DEF Copied
<1>3. f.offset + f.size \in Nat /\ f.more \in BOOLEAN
  BY FragmentFacts
<1>4. f.more => u = s
  BY DEF EstablishTotalLength
<1>5. ~f.more => u.total = f.offset + f.size
  BY DEF EstablishTotalLength, SlotType
<1>6. ~f.more /\ s.known => s.total = f.offset + f.size
  BY DEF Contradicts
<1> HIDE DEF u, v
<1>7. t.total = v.total /\ t.known = v.known
  BY <1>2 DEF SubtractReceivedRange, SlotType, v
<1>8. t.total = u.total /\ u.known
  BY <1>2, <1>7
<1> QED BY <1>3, <1>4, <1>5, <1>6, <1>8 DEF LengthGiven

\* insert works on one slot; what it has of it afterwards came before or with f.
LEMMA InsertEffect ==
    ASSUME TableInv, NEW f \in Fragment, Insert(f),
           \A j \in SlotIndex : slots[j].known => slots[j].active
    PROVE  \E i \in SlotIndex : Inserted(i, f)
<1>1. PICK i \in FindOrCreate(f.key) : Accept(i, Taken(i, f.key), f)
  BY DEF Insert
<1> DEFINE s == Taken(i, f.key)
           u == Copied(s, f)
           t == SubtractReceivedRange(u, f.offset, f.offset + f.size)
<1>2. /\ i \in SlotIndex /\ s \in SlotType /\ s.key = f.key /\ s.active
      /\ \E a \in BufferType : SlotOK(s, a) /\ Arrive(i, f) = Merged(a, f)
  BY TakenFacts
<1>3. PICK a \in BufferType : SlotOK(s, a) /\ Arrive(i, f) = Merged(a, f)
  BY <1>2
<1>4. slots \in [SlotIndex -> SlotType] /\ arrived \in [SlotIndex -> BufferType]
  BY TypeOKIs DEF TableInv
<1>5. slots[i].active => slots[i].key = f.key
  BY <1>2, TakenLength
<1>6. ASSUME NEW x \in SlotType, Drop(i, x) PROVE Inserted(i, f)
  <2>1. /\ slots' = [slots EXCEPT ![i] = Released(x)]
        /\ delivered' = Nothing /\ arrived' = arrived
    BY <1>6 DEF Drop
  <2>2. ~Released(x).active /\ ~Released(x).known
    BY DEF Released, SlotType
  <2>3. ~slots'[i].active /\ ~slots'[i].known
    BY <1>2, <1>4, <2>1, <2>2
  <2>4. \A j \in SlotIndex : j # i => slots'[j] = slots[j] /\ arrived'[j] = arrived[j]
    BY <1>4, <2>1
  <2> QED BY <1>5, <2>1, <2>3, <2>4 DEF Inserted
<1>7. CASE Contradicts(s, f) /\ Drop(i, s)
  BY <1>2, <1>6, <1>7
<1>8. CASE ~Contradicts(s, f) /\ Subtract(i, u, f)
  <2>1. t \in SlotType /\ t.active = s.active /\ t.key = s.key
    BY <1>2, <1>3, <1>8, FragmentKeeps
  <2>2. u \in SlotType
    BY <1>2, <1>3, <1>8, EstablishKeeps, CopiedFacts DEF Copied
  <2>3. t.known => LengthGiven(s, f, t.total)
    BY <1>2, <1>3, <1>8, FragmentLength
  <2>4. CASE Drop(i, u)
    BY <1>2, <2>2, <2>4, <1>6
  <2>5. CASE Keep(i, t, f)
    <3> HIDE DEF u, t
    <3>1. arrived'[i] = Arrive(i, f)
          /\ \A j \in SlotIndex : j # i => arrived'[j] = arrived[j]
      BY <1>2, <1>4, <2>5 DEF Keep
    <3>2. ArrivedFrom(i, f)
      BY <3>1 DEF ArrivedFrom, Arrive
    <3>3. CASE ~IsComplete(t) /\ slots' = [slots EXCEPT ![i] = t] /\ delivered' = Nothing
      <4>1. slots'[i] = t /\ \A j \in SlotIndex : j # i => slots'[j] = slots[j]
        BY <1>2, <1>4, <3>3
      <4> QED BY <1>2, <1>5, <2>1, <2>3, <3>1, <3>2, <3>3, <4>1 DEF Inserted
    <3>4. CASE /\ IsComplete(t) /\ slots' = [slots EXCEPT ![i] = Released(t)]
               /\ delivered' = [slot |-> i, length |-> t.total]
      <4>1. ~Released(t).active /\ ~Released(t).known /\ Released(t).key = t.key
        BY <2>1 DEF Released, SlotType
      <4>2. slots'[i] = Released(t) /\ \A j \in SlotIndex : j # i => slots'[j] = slots[j]
        BY <1>2, <1>4, <3>4
      <4>3. delivered'.slot = i /\ delivered'.length = t.total /\ t.known
        BY <3>4 DEF IsComplete
      <4> QED BY <1>2, <1>5, <2>1, <2>3, <3>1, <3>2, <4>1, <4>2, <4>3 DEF Inserted
    <3> QED BY <2>5, <3>3, <3>4 DEF Keep
  <2>6. Drop(i, u) \/ Keep(i, t, f)
    BY <1>8 DEF Subtract
  <2> QED BY <2>4, <2>5, <2>6
<1> QED BY <1>1, <1>7, <1>8 DEF Accept
=============================================================================
