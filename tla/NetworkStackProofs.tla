------------------------- MODULE NetworkStackProofs -------------------------
(***************************************************************************)
(* Proofs about NetworkStack, for any number and any sizes of datagrams,   *)
(* any MTU and unit of the fragment offset, any number of identifications  *)
(* and any table.  What the receiver's table does is taken from            *)
(* ReassemblyProofs.                                                       *)
(***************************************************************************)
EXTENDS NetworkStack, NumberFacts, TLAPS

P == INSTANCE ReassemblyProofs WITH Key <- 0 .. (Identifications - 1),
                                    Version <- Datagram, Timeout <- 0

Identification == 0 .. (Identifications - 1)

PacketType ==
    [datagram : Datagram, destination : {"peer", "other"}, id : Identification,
     offset : Nat, length : Nat, more : BOOLEAN, checked : {TRUE}]

CallType ==
    [active : {TRUE}, datagram : Datagram, id : Identification,
     destination : {"peer", "other"}, size : Nat, offset : Nat, queued : BOOLEAN]

\* The bytes of its datagram that a packet carries, [Begin, End).
Begin(p) == p.offset * Unit
End(p) == Begin(p) + p.length

\* What holds of every packet.
PacketOK(p) ==
    /\ p.length <= MtuPayload
    /\ p.more => p.length > 0
    /\ p.id = (p.datagram - 1) % Identifications

\* Packet q, given to the resolver after p, is of another datagram or follows
\* p in the same one.
InSequence(p, q) ==
    q.datagram = p.datagram =>
        p.more /\ End(p) <= Begin(q) /\ q.destination = p.destination

\* Packet q continues its datagram where p, given just before it, has ended.
Continues(p, q) == p.datagram = q.datagram /\ End(p) = Begin(q)

\* The packets that were given to the resolver.
PacketsInv ==
    /\ packets \in Seq(PacketType) /\ Len(packets) <= FrameBound
    /\ \A n \in 1 .. Len(packets) : PacketOK(packets[n])
    /\ \A n, o \in 1 .. Len(packets) : n < o => InSequence(packets[n], packets[o])
    /\ \A n \in 1 .. Len(packets) :
           packets[n].offset # 0 => n > 1 /\ Continues(packets[n - 1], packets[n])

StatusInv ==
    /\ status \in [1 .. FrameBound -> {"none", "waiting", "sent", "failed"}]
    /\ \A n \in 1 .. FrameBound : status[n] = "none" <=> n > Len(packets)

\* A packet of the datagram that call c sends, after it was offered.
Offered(c, p, s) ==
    p.datagram = c.datagram =>
        /\ p.more /\ End(p) <= c.offset /\ p.destination = c.destination
        /\ s = "sent" \/ (s = "waiting" /\ c.queued)

\* The call of send_datagram that is under way.
CallInv ==
    sending.active =>
        /\ sending \in CallType
        /\ sending.datagram = Len(result) + 1
        /\ sending.id = Len(result) % Identifications
        /\ sending.offset % Unit = 0
        /\ sending.offset # 0 =>
               /\ sending.offset < sending.size /\ sending.size > MtuPayload
               /\ Len(packets) > 0
               /\ packets[Len(packets)].datagram = sending.datagram
               /\ End(packets[Len(packets)]) = sending.offset
        /\ \A n \in 1 .. Len(packets) : Offered(sending, packets[n], status[n])

\* The number of calls of identification.next.
Calls == IF sending.active THEN Len(result) + 1 ELSE Len(result)

Returned == {"accepted", "queued_for_arp", "payload_too_large", "send_failed",
             "would_block"}

SenderInv ==
    /\ result \in Seq(Returned) /\ Len(result) <= DatagramBound
    /\ sending.active \in BOOLEAN
    /\ next = Calls % Identifications
    /\ \A n \in 1 .. Len(packets) : packets[n].datagram <= Calls

\* What a returned call means for the packets of its datagram.
Transmitted(d) ==
    /\ \A n \in 1 .. Len(packets) : packets[n].datagram = d => status[n] = "sent"
    /\ \E n \in 1 .. Len(packets) : packets[n].datagram = d /\ ~packets[n].more

Refused(d) ==
    \/ \A n \in 1 .. Len(packets) : packets[n].datagram # d
    \/ \E n \in 1 .. Len(packets) : packets[n].datagram = d /\ status[n] = "failed"

ResultInv ==
    \A d \in 1 .. Len(result) :
        /\ result[d] = "accepted" => Transmitted(d)
        /\ result[d] \notin {"accepted", "queued_for_arp"} => Refused(d)

\* Packet n went to the receiver, is of datagram d and has this identification.
SentTo(n, d, key) ==
    /\ status[n] = "sent" /\ packets[n].destination = "peer"
    /\ packets[n].datagram = d /\ packets[n].id = key

\* A packet of d that was sent carries byte k, or ends the datagram at end.
CarriesByte(d, key, k) ==
    \E n \in 1 .. Len(packets) :
        SentTo(n, d, key) /\ Begin(packets[n]) <= k /\ k < End(packets[n])

TellsEnd(d, key, end) ==
    \E n \in 1 .. Len(packets) :
        SentTo(n, d, key) /\ ~packets[n].more /\ End(packets[n]) = end

\* What the receiver's table knows was sent.
SlotSent(s, a, e) ==
    /\ s.active => \A k \in P!Position :
           a[k] # P!NoByte => CarriesByte(a[k][2], s.key, k)
    /\ s.known => s.active /\ TellsEnd(e, s.key, s.total)

TableSent == \A i \in P!SlotIndex : SlotSent(slots[i], arrived[i], ends[i])

\* What the callback got was sent.
PayloadSent ==
    /\ received.length \in Nat /\ received.from \subseteq Datagram
    /\ \E key \in Identification : \A d \in received.from :
           \E n \in 1 .. Len(packets) : SentTo(n, d, key)
    /\ \A d \in received.from : received.from = {d} =>
           \E key \in Identification :
               /\ TellsEnd(d, key, received.length)
               /\ \A k \in 0 .. (received.length - 1) : CarriesByte(d, key, k)

StackInv == /\ PacketsInv /\ StatusInv /\ CallInv /\ SenderInv /\ ResultInv
            /\ P!TableInv /\ TableSent /\ PayloadSent

-----------------------------------------------------------------------------
(* Fragments. *)

\* A multiple of the unit survives the conversion to units and back.
LEMMA UnitsAndBack ==
    ASSUME NEW a \in Nat, a % Unit = 0
    PROVE  a \div Unit \in Nat /\ (a \div Unit) * Unit = a
<1>1. Unit \in Nat /\ Unit > 0
  BY StackAssumption
<1> QED BY <1>1

\* Products of naturals, as the provers need them.
LEMMA PacketEnds ==
    ASSUME NEW p \in PacketType
    PROVE  /\ Begin(p) \in Nat /\ End(p) \in Nat /\ End(p) = Begin(p) + p.length
           /\ p.offset = 0 => Begin(p) = 0
           /\ p.length \in Nat
<1>1. Unit \in Nat /\ p.offset \in Nat /\ p.length \in Nat
  BY StackAssumption DEF PacketType
<1>2. p.offset * Unit \in Nat
  BY <1>1
<1>3. p.offset = 0 => p.offset * Unit = 0
  BY <1>1
<1> QED BY <1>1, <1>2, <1>3 DEF Begin, End

\* A packet that begins at byte 0 has offset 0.
LEMMA BeginZero ==
    ASSUME NEW p \in PacketType, p.offset # 0
    PROVE  Begin(p) > 0
<1>1. Unit \in Nat /\ Unit > 0 /\ p.offset \in Nat /\ p.offset > 0
  BY StackAssumption DEF PacketType
<1> QED BY <1>1 DEF Begin

\* The sizes of fragments: a whole number of units that the MTU allows.
LEMMA FragmentSizes ==
    /\ MtuPayload \in Nat /\ FragmentPayload \in Nat
    /\ FragmentPayload > 0 /\ FragmentPayload <= MtuPayload
    /\ FragmentPayload % Unit = 0
<1>1. Unit \in Nat /\ Unit > 0 /\ MtuPayload \in Nat /\ Unit <= MtuPayload
  BY StackAssumption DEF MtuPayload
<1> DEFINE q == MtuPayload \div Unit
           r == MtuPayload % Unit
<1>2. q \in Int /\ r \in Int /\ 0 <= r /\ r < Unit /\ MtuPayload = Unit * q + r
  BY <1>1
<1>3. q > 0
  BY <1>1, <1>2
<1> HIDE DEF q, r
<1>4. Unit * q \in Nat /\ Unit * q > 0 /\ q * Unit = Unit * q
  BY <1>1, <1>2, <1>3
<1>5. (Unit * q) % Unit = 0
  <2>1. 0 \in 0 .. (Unit - 1) /\ Unit * q \in Int /\ Unit * q = Unit * q + 0
    BY <1>1, <1>4
  <2> QED BY <1>1, <1>2, <2>1, Remainder
<1>6. FragmentPayload = Unit * q
  BY <1>4 DEF FragmentPayload, q
<1> QED BY <1>1, <1>2, <1>4, <1>5, <1>6

\* The size of the next fragment.
LEMMA ChunkFacts ==
    ASSUME NEW size \in Nat, NEW offset \in Nat,
           offset # 0 => offset < size /\ size > MtuPayload
    PROVE  /\ ChunkSize(size, offset) \in Nat
           /\ ChunkSize(size, offset) <= MtuPayload
           /\ offset + ChunkSize(size, offset) <= size
           /\ offset + ChunkSize(size, offset) < size =>
                 ChunkSize(size, offset) = FragmentPayload /\ size > MtuPayload
BY FragmentSizes DEF ChunkSize

\* What build_ipv4_packet makes of the next chunk.
LEMMA BuiltFacts ==
    ASSUME NEW c \in CallType, c.offset % Unit = 0,
           c.offset # 0 => c.offset < c.size /\ c.size > MtuPayload,
           NEW p, p = BuildPacket(c)
    PROVE  /\ p \in PacketType
           /\ p.datagram = c.datagram /\ p.destination = c.destination /\ p.id = c.id
           /\ Begin(p) = c.offset /\ End(p) = c.offset + p.length
           /\ End(p) \in Nat /\ p.length \in Nat
           /\ p.length <= MtuPayload
           /\ p.more => /\ p.length > 0 /\ End(p) % Unit = 0
                        /\ c.size > MtuPayload
           /\ p.more <=> End(p) < c.size
           /\ p.offset # 0 => c.offset # 0
<1> DEFINE b == ChunkSize(c.size, c.offset)
           k == c.offset \div Unit
           m == c.offset + b < c.size
<1>1. c.size \in Nat /\ c.offset \in Nat
  BY DEF CallType
<1>2. /\ b \in Nat /\ b <= MtuPayload /\ c.offset + b <= c.size
      /\ c.offset + b < c.size => b = FragmentPayload /\ c.size > MtuPayload
  BY <1>1, ChunkFacts
<1>3. k \in Nat /\ k * Unit = c.offset
  BY <1>1, UnitsAndBack
<1>4. p = [datagram |-> c.datagram, destination |-> c.destination, id |-> c.id,
           offset |-> k, length |-> b, more |-> m, checked |-> TRUE]
  BY Zenon DEF BuildPacket
<1>5. m \in BOOLEAN /\ (m <=> c.offset + b < c.size)
  BY <1>1, <1>2
<1>6. c.offset # 0 \/ k = 0
  <2>1. Unit \in Nat /\ Unit > 0
    BY StackAssumption
  <2> QED BY <1>1, <2>1
<1> HIDE DEF b, k, m
<1>7. p \in PacketType
  BY <1>2, <1>3, <1>4, <1>5 DEF PacketType, CallType
<1>8. /\ p.datagram = c.datagram /\ p.destination = c.destination /\ p.id = c.id
      /\ p.offset = k /\ p.length = b /\ p.more = m
  BY <1>4
<1>9. Begin(p) = c.offset /\ End(p) = c.offset + b
  BY <1>3, <1>8 DEF Begin, End
<1>10. p.more => (c.offset + b) % Unit = 0 /\ b > 0
  <2>1. Unit \in Nat /\ Unit > 0 /\ c.offset \in Int /\ FragmentPayload \in Int
    BY <1>1, StackAssumption, FragmentSizes
  <2>2. (c.offset + FragmentPayload) % Unit = 0
    BY <2>1, FragmentSizes, MultiplesAdd
  <2> QED BY <1>2, <1>5, <1>8, <2>2, FragmentSizes
<1> QED BY <1>1, <1>2, <1>5, <1>6, <1>7, <1>8, <1>9, <1>10
-----------------------------------------------------------------------------
(* What was sent stays sent. *)

\* Packets are only added, and none that was transmitted is taken back.
Grown == /\ Len(packets) \in Nat /\ Len(packets') \in Nat
         /\ Len(packets) <= Len(packets')
         /\ \A n \in 1 .. Len(packets) :
                packets'[n] = packets[n] /\ (status[n] = "sent" => status'[n] = "sent")

\* A packet that was sent stays sent.
LEMMA SentStays ==
    ASSUME Grown, NEW n \in 1 .. Len(packets), NEW d, NEW key, SentTo(n, d, key)
    PROVE  n \in 1 .. Len(packets') /\ SentTo(n, d, key)' /\ packets'[n] = packets[n]
<1>1. n \in 1 .. Len(packets')
  BY DEF Grown
<1> QED BY <1>1 DEF Grown, SentTo

\* A byte that was sent stays sent.
LEMMA ByteStays ==
    ASSUME Grown, NEW d, NEW key, NEW k, CarriesByte(d, key, k)
    PROVE  CarriesByte(d, key, k)'
<1>1. PICK n \in 1 .. Len(packets) :
          SentTo(n, d, key) /\ Begin(packets[n]) <= k /\ k < End(packets[n])
  BY DEF CarriesByte
<1>2. n \in 1 .. Len(packets') /\ SentTo(n, d, key)' /\ packets'[n] = packets[n]
  BY <1>1, SentStays
<1>3. Begin(packets'[n]) <= k /\ k < End(packets'[n])
  BY <1>1, <1>2
<1> QED BY <1>2, <1>3 DEF CarriesByte, Begin, End

\* An end that was told stays told.
LEMMA EndStays ==
    ASSUME Grown, NEW d, NEW key, NEW end, TellsEnd(d, key, end)
    PROVE  TellsEnd(d, key, end)'
<1>1. PICK n \in 1 .. Len(packets) :
          SentTo(n, d, key) /\ ~packets[n].more /\ End(packets[n]) = end
  BY DEF TellsEnd
<1>2. n \in 1 .. Len(packets') /\ SentTo(n, d, key)' /\ packets'[n] = packets[n]
  BY <1>1, SentStays
<1>3. ~packets'[n].more /\ End(packets'[n]) = end
  BY <1>1, <1>2
<1> QED BY <1>2, <1>3 DEF TellsEnd, Begin, End

\* The table and the callback do not mind what the sender does next.
LEMMA TableSentStays ==
    ASSUME TableSent, Grown, UNCHANGED <<slots, arrived, ends>>
    PROVE  TableSent'
<1> SUFFICES ASSUME NEW i \in P!SlotIndex
             PROVE  SlotSent(slots[i], arrived[i], ends[i])'
  BY DEF TableSent, P!SlotIndex
<1>1. slots'[i] = slots[i] /\ arrived'[i] = arrived[i] /\ ends'[i] = ends[i]
  OBVIOUS
<1>2. SlotSent(slots[i], arrived[i], ends[i])
  BY DEF TableSent
<1>3. ASSUME slots'[i].active, NEW k \in P!Position, arrived'[i][k] # P!NoByte
      PROVE  CarriesByte(arrived[i][k][2], slots[i].key, k)'
  <2>1. PICK d, key : d = arrived[i][k][2] /\ key = slots[i].key
    OBVIOUS
  <2>2. CarriesByte(d, key, k)
    BY <1>1, <1>2, <1>3, <2>1 DEF SlotSent
  <2>3. CarriesByte(d, key, k)'
    BY <2>2, ByteStays
  <2> QED BY <1>1, <2>1, <2>3
<1>4. ASSUME slots'[i].known
      PROVE  slots'[i].active /\ TellsEnd(ends[i], slots[i].key, slots[i].total)'
  <2>1. PICK d, key, end : d = ends[i] /\ key = slots[i].key /\ end = slots[i].total
    OBVIOUS
  <2>2. TellsEnd(d, key, end) /\ slots[i].active
    BY <1>1, <1>2, <1>4, <2>1 DEF SlotSent
  <2>3. TellsEnd(d, key, end)'
    BY <2>2, EndStays
  <2> QED BY <1>1, <2>1, <2>2, <2>3
<1> QED BY <1>3, <1>4 DEF SlotSent, P!Position, P!NoByte

\* The payload the callback got was sent, and stays so.
LEMMA PayloadSentStays ==
    ASSUME PayloadSent, Grown, UNCHANGED received
    PROVE  PayloadSent'
<1>1. PICK key \in Identification : \A d \in received.from :
          \E n \in 1 .. Len(packets) : SentTo(n, d, key)
  BY DEF PayloadSent
<1>2. ASSUME NEW d \in received.from
      PROVE  \E n \in 1 .. Len(packets') : SentTo(n, d, key)'
  BY <1>1, SentStays
<1>3. ASSUME NEW d \in received.from, received.from = {d}
      PROVE  \E j \in Identification :
                /\ TellsEnd(d, j, received.length)'
                /\ \A k \in 0 .. (received.length - 1) : CarriesByte(d, j, k)'
  <2>1. PICK j \in Identification :
            /\ TellsEnd(d, j, received.length)
            /\ \A k \in 0 .. (received.length - 1) : CarriesByte(d, j, k)
    BY <1>3 DEF PayloadSent
  <2>2. PICK end : end = received.length
    OBVIOUS
  <2>3. TellsEnd(d, j, end)'
    BY <2>1, <2>2, EndStays
  <2>4. \A k \in 0 .. (received.length - 1) : CarriesByte(d, j, k)'
    BY <2>1, ByteStays
  <2>5. TellsEnd(d, j, received.length)'
    BY <2>2, <2>3
  <2> QED BY <2>4, <2>5
<1> QED BY <1>1, <1>2, <1>3 DEF PayloadSent, Identification, Datagram
-----------------------------------------------------------------------------
(* The sender. *)

SendingInv == PacketsInv /\ StatusInv /\ CallInv /\ SenderInv /\ ResultInv

\* identification.next counts the calls, modulo their number.
LEMMA NextRemainder ==
    ASSUME NEW n \in Nat, n > 0, NEW a \in Nat
    PROVE  ((a % n) + 1) % n = (a + 1) % n
<1> DEFINE b == (a % n) + 1
<1>1. a % n \in Int
  BY Division
<1>2. PICK q \in Int : a = n * q + (a % n)
  BY Division
<1>3. b \in Int /\ a + 1 = n * q + b
  BY <1>1, <1>2
<1> HIDE DEF b
<1>4. b % n \in 0 .. (n - 1)
  BY <1>3, Division
<1>5. PICK r \in Int : b = n * r + (b % n)
  BY <1>3, Division
<1>6. n * q + n * r = n * (q + r)
  OBVIOUS
<1>7. b % n \in Int /\ n * (q + r) \in Int /\ n * q \in Int /\ n * r \in Int
  BY <1>4
<1>8. a + 1 = n * (q + r) + (b % n)
  BY <1>3, <1>5, <1>6, <1>7
<1>9. (a + 1) % n = b % n
  <2>1. a + 1 \in Int /\ q + r \in Int
    OBVIOUS
  <2> QED BY <1>4, <1>8, <2>1, Remainder
<1> QED BY <1>9 DEF b

\* The packets' counters are numbers.
LEMMA SenderTypes ==
    ASSUME SendingInv
    PROVE  /\ Len(packets) \in Nat /\ Len(result) \in Nat
           /\ FrameBound \in Nat /\ DatagramBound \in Nat
           /\ \A n \in 1 .. Len(packets) : packets[n] \in PacketType
           /\ \A n \in 1 .. Len(packets) : packets[n].datagram \in Nat
           /\ \A n \in 1 .. Len(packets) : n \in 1 .. FrameBound
<1>1. packets \in Seq(PacketType) /\ result \in Seq(Returned)
  BY DEF SendingInv, PacketsInv, SenderInv
<1>2. Len(packets) \in Nat /\ Len(result) \in Nat /\ Len(packets) <= FrameBound
  BY <1>1 DEF SendingInv, PacketsInv
<1>3. \A n \in 1 .. Len(packets) : packets[n] \in PacketType
  BY <1>1
<1>4. FrameBound \in Nat /\ DatagramBound \in Nat
  BY StackAssumption
<1>5. ASSUME NEW n \in 1 .. Len(packets) PROVE packets[n].datagram \in Nat
  <2>1. packets[n].datagram \in Datagram
    BY <1>3 DEF PacketType
  <2> QED BY <1>4, <2>1 DEF Datagram
<1>6. \A n \in 1 .. Len(packets) : n \in 1 .. FrameBound
  BY <1>2, <1>4
<1> QED BY <1>2, <1>3, <1>4, <1>5, <1>6

\* Nothing that is sent or refused changes if the packets stay as they are.
LEMMA PacketsStay ==
    ASSUME SendingInv, UNCHANGED <<packets, status>>
    PROVE  /\ PacketsInv' /\ StatusInv' /\ Grown
           /\ \A d : Transmitted(d) => Transmitted(d)'
           /\ \A d : Refused(d) => Refused(d)'
<1>1. PacketsInv' /\ StatusInv'
  BY DEF SendingInv, PacketsInv, StatusInv
<1>2. Grown
  BY SenderTypes DEF Grown
<1>3. ASSUME NEW d, Transmitted(d) PROVE Transmitted(d)'
  BY <1>3 DEF Transmitted
<1>4. ASSUME NEW d, Refused(d) PROVE Refused(d)'
  BY <1>4 DEF Refused
<1> QED BY <1>1, <1>2, <1>3, <1>4

\* What Append does, as the provers need it.
LEMMA AppendFacts ==
    ASSUME NEW S, NEW s \in Seq(S), NEW e \in S, NEW t, t = Append(s, e)
    PROVE  /\ t \in Seq(S) /\ Len(s) \in Nat /\ Len(t) = Len(s) + 1
           /\ \A d \in 1 .. Len(s) : t[d] = s[d]
           /\ t[Len(s) + 1] = e
           /\ \A d \in 1 .. Len(t) : d \in 1 .. Len(s) \/ d = Len(s) + 1
<1>1. t \in Seq(S)
  OBVIOUS
<1>2. Len(s) \in Nat /\ Len(t) = Len(s) + 1
  OBVIOUS
<1>3. \A d \in 1 .. Len(s) : t[d] = s[d]
  OBVIOUS
<1>4. t[Len(s) + 1] = e
  OBVIOUS
<1>5. \A d \in 1 .. Len(t) : d \in 1 .. Len(s) \/ d = Len(s) + 1
  BY <1>2
<1> QED BY <1>1, <1>2, <1>3, <1>4, <1>5

\* A result is added.
LEMMA ResultAdded ==
    ASSUME SendingInv, NEW value \in Returned, result' = Append(result, value)
    PROVE  /\ result' \in Seq(Returned) /\ Len(result') = Len(result) + 1
           /\ \A d \in 1 .. Len(result) : result'[d] = result[d]
           /\ result'[Len(result) + 1] = value
           /\ \A d \in 1 .. Len(result') : d \in 1 .. Len(result) \/ d = Len(result) + 1
<1>1. result \in Seq(Returned)
  BY DEF SendingInv, SenderInv
<1> QED BY <1>1, AppendFacts

\* send_datagram begins: it takes an identification and refuses at once or
\* finds no packet of its datagram.
LEMMA SendDatagramKeeps ==
    ASSUME SendingInv, NEW size \in Nat, NEW destination \in {"peer", "other"},
           SendDatagram(size, destination)
    PROVE  SendingInv' /\ Grown
<1>1. /\ ~sending.active /\ Len(result) < DatagramBound /\ next' = NextIdentification
      /\ UNCHANGED <<packets, status>>
  BY DEF SendDatagram
<1>2. /\ PacketsInv' /\ StatusInv' /\ Grown
      /\ \A d : Transmitted(d) => Transmitted(d)'
      /\ \A d : Refused(d) => Refused(d)'
  BY <1>1, PacketsStay
<1>3. /\ Calls = Len(result) /\ next = Len(result) % Identifications
      /\ \A n \in 1 .. Len(packets) : packets[n].datagram <= Len(result)
  BY <1>1 DEF SendingInv, SenderInv, Calls
<1>4. next' = (Len(result) + 1) % Identifications
  <2>1. Identifications \in Nat /\ Identifications > 0
    BY StackAssumption
  <2> QED BY <1>1, <1>3, <2>1, SenderTypes, NextRemainder DEF NextIdentification
<1>5. Len(result) \in Nat /\ Len(packets) \in Nat
      /\ \A n \in 1 .. Len(packets) : packets[n].datagram \in Nat
  BY SenderTypes
<1>6. CASE size > MaximumPayload
  <2>1. result' = Append(result, "payload_too_large") /\ sending' = sending
    BY <1>6 DEF SendDatagram
  <2>2. /\ result' \in Seq(Returned) /\ Len(result') = Len(result) + 1
        /\ \A d \in 1 .. Len(result) : result'[d] = result[d]
        /\ result'[Len(result) + 1] = "payload_too_large"
        /\ \A d \in 1 .. Len(result') : d \in 1 .. Len(result) \/ d = Len(result) + 1
    <3>1. "payload_too_large" \in Returned
      BY DEF Returned
    <3> QED BY <2>1, <3>1, ResultAdded
  <2>3. CallInv'
    BY <1>1, <2>1 DEF CallInv
  <2>4. SenderInv'
    <3>1. Calls' = Len(result) + 1 /\ sending'.active \in BOOLEAN
      BY <1>1, <2>1, <2>2 DEF Calls, SendingInv, SenderInv
    <3>2. Len(result') <= DatagramBound
      BY <1>1, <1>5, <2>2, StackAssumption
    <3>3. \A n \in 1 .. Len(packets') : packets'[n].datagram <= Len(result) + 1
      BY <1>1, <1>3, <1>5
    <3> QED BY <1>4, <2>2, <3>1, <3>2, <3>3 DEF SenderInv
  <2>5. Refused(Len(result) + 1)
    BY <1>3, <1>5 DEF Refused
  <2>6. ResultInv'
    <3> SUFFICES ASSUME NEW d \in 1 .. Len(result')
                 PROVE  /\ result'[d] = "accepted" => Transmitted(d)'
                        /\ result'[d] \notin {"accepted", "queued_for_arp"} => Refused(d)'
      BY DEF ResultInv
    <3>1. CASE d \in 1 .. Len(result)
      BY <1>2, <2>2, <3>1 DEF SendingInv, ResultInv
    <3>2. CASE d = Len(result) + 1
      BY <1>2, <2>2, <2>5, <3>2
    <3> QED BY <2>2, <3>1, <3>2
  <2> QED BY <1>2, <2>3, <2>4, <2>6 DEF SendingInv
<1>7. CASE ~(size > MaximumPayload)
  <2>1. /\ sending' = [active |-> TRUE, datagram |-> Len(result) + 1, id |-> next,
                       destination |-> destination, size |-> size, offset |-> 0,
                       queued |-> FALSE]
        /\ result' = result
    BY <1>7 DEF SendDatagram
  <2>2. Len(result) + 1 \in Datagram /\ next \in Identification
    <3>1. Identifications \in Nat /\ Identifications > 0 /\ Len(result) \in Int
      BY <1>5, StackAssumption
    <3>2. next \in 0 .. (Identifications - 1)
      BY <3>1, <1>3, Division
    <3> QED BY <1>1, <1>5, <3>2, StackAssumption DEF Datagram, Identification
  <2>3. sending' \in CallType
    BY <2>1, <2>2 DEF CallType
  <2>4. /\ sending'.active /\ sending'.datagram = Len(result) + 1
        /\ sending'.id = next /\ sending'.offset = 0
    BY <2>1
  <2>5. 0 % Unit = 0
    BY StackAssumption
  <2>6. \A n \in 1 .. Len(packets) : Offered(sending', packets[n], status[n])
    BY <1>3, <1>5, <2>4 DEF Offered
  <2>7. CallInv'
    BY <1>1, <1>3, <2>1, <2>3, <2>4, <2>5, <2>6 DEF CallInv
  <2>8. SenderInv'
    BY <1>1, <1>3, <1>4, <1>5, <2>1, <2>4 DEF SendingInv, SenderInv, Calls
  <2>9. ResultInv'
    BY <1>2, <2>1 DEF SendingInv, ResultInv
  <2> QED BY <1>2, <2>7, <2>8, <2>9 DEF SendingInv
<1> QED BY <1>6, <1>7
\* Packet p is the next one for the resolver, with this outcome.
Appended(p, outcome) ==
    /\ Len(packets) < FrameBound /\ packets' = Append(packets, p)
    /\ status' = [status EXCEPT ![Len(packets) + 1] = outcome]

\* The packets and their statuses after queue_frame.
LEMMA AppendedFacts ==
    ASSUME SendingInv, NEW p \in PacketType,
           NEW outcome \in {"sent", "waiting", "failed"}, Appended(p, outcome)
    PROVE  /\ packets' \in Seq(PacketType) /\ Len(packets') = Len(packets) + 1
           /\ \A n \in 1 .. Len(packets) : packets'[n] = packets[n] /\ status'[n] = status[n]
           /\ packets'[Len(packets) + 1] = p /\ status'[Len(packets) + 1] = outcome
           /\ \A n \in 1 .. Len(packets') : n \in 1 .. Len(packets) \/ n = Len(packets) + 1
           /\ StatusInv' /\ Grown
<1>1. /\ packets \in Seq(PacketType) /\ Len(packets) \in Nat /\ FrameBound \in Nat
      /\ Len(packets) <= FrameBound
  BY SenderTypes DEF SendingInv, PacketsInv
<1>2. /\ packets' \in Seq(PacketType) /\ Len(packets') = Len(packets) + 1
      /\ \A n \in 1 .. Len(packets) : packets'[n] = packets[n]
      /\ packets'[Len(packets) + 1] = p
      /\ \A n \in 1 .. Len(packets') : n \in 1 .. Len(packets) \/ n = Len(packets) + 1
  BY <1>1, AppendFacts DEF Appended
<1>3. /\ status \in [1 .. FrameBound -> {"none", "waiting", "sent", "failed"}]
      /\ \A n \in 1 .. FrameBound : status[n] = "none" <=> n > Len(packets)
  BY DEF SendingInv, StatusInv
<1>4. /\ status' \in [1 .. FrameBound -> {"none", "waiting", "sent", "failed"}]
      /\ Len(packets) + 1 \in 1 .. FrameBound
      /\ status'[Len(packets) + 1] = outcome
      /\ \A n \in 1 .. FrameBound : n # Len(packets) + 1 => status'[n] = status[n]
  BY <1>1, <1>3 DEF Appended
<1>5. \A n \in 1 .. Len(packets) : status'[n] = status[n]
  BY <1>1, <1>4
<1>6. \A n \in 1 .. FrameBound : status'[n] = "none" <=> n > Len(packets')
  BY <1>1, <1>2, <1>3, <1>4
<1>7. Grown
  BY <1>1, <1>2, <1>5 DEF Grown
<1> QED BY <1>2, <1>4, <1>5, <1>6, <1>7 DEF StatusInv

\* The next fragment begins where the one before it has ended.
LEMMA FragmentAdded ==
    ASSUME SendingInv, sending.active, NEW p, p = BuildPacket(sending),
           NEW outcome \in {"sent", "waiting", "failed"}, Appended(p, outcome)
    PROVE  PacketsInv'
<1>1. /\ sending \in CallType /\ sending.datagram = Len(result) + 1
      /\ sending.id = Len(result) % Identifications /\ sending.offset % Unit = 0
      /\ sending.offset # 0 =>
             /\ sending.offset < sending.size /\ sending.size > MtuPayload
             /\ Len(packets) > 0
             /\ packets[Len(packets)].datagram = sending.datagram
             /\ End(packets[Len(packets)]) = sending.offset
      /\ \A n \in 1 .. Len(packets) : Offered(sending, packets[n], status[n])
  BY DEF SendingInv, CallInv
<1>2. /\ p \in PacketType /\ p.datagram = sending.datagram
      /\ p.destination = sending.destination /\ p.id = sending.id
      /\ Begin(p) = sending.offset /\ p.length <= MtuPayload
      /\ p.more => p.length > 0
      /\ p.offset # 0 => sending.offset # 0
  BY <1>1, BuiltFacts
<1>3. /\ packets' \in Seq(PacketType) /\ Len(packets') = Len(packets) + 1
      /\ \A n \in 1 .. Len(packets) : packets'[n] = packets[n]
      /\ packets'[Len(packets) + 1] = p
      /\ \A n \in 1 .. Len(packets') : n \in 1 .. Len(packets) \/ n = Len(packets) + 1
  BY <1>2, AppendedFacts
<1>4. Len(packets) \in Nat /\ FrameBound \in Nat /\ Len(result) \in Nat
  BY SenderTypes
<1>5. PacketOK(p)
  <2>1. p.datagram - 1 = Len(result)
    BY <1>1, <1>2, <1>4
  <2> QED BY <1>1, <1>2, <2>1 DEF PacketOK
<1>6. \A n \in 1 .. Len(packets') : PacketOK(packets'[n])
  BY <1>3, <1>5 DEF SendingInv, PacketsInv
<1>7. ASSUME NEW n \in 1 .. Len(packets'), NEW o \in 1 .. Len(packets'), n < o
      PROVE  InSequence(packets'[n], packets'[o])
  <2>1. n \in 1 .. Len(packets)
    BY <1>3, <1>4, <1>7
  <2>2. CASE o \in 1 .. Len(packets)
    BY <1>3, <1>7, <2>1, <2>2 DEF SendingInv, PacketsInv
  <2>3. CASE o = Len(packets) + 1
    <3>1. Offered(sending, packets[n], status[n])
      BY <1>1, <2>1
    <3>2. InSequence(packets[n], p)
      BY <1>2, <3>1 DEF InSequence, Offered
    <3> QED BY <1>3, <2>1, <2>3, <3>2
  <2> QED BY <1>3, <2>2, <2>3
<1>8. ASSUME NEW n \in 1 .. Len(packets'), packets'[n].offset # 0
      PROVE  n > 1 /\ Continues(packets'[n - 1], packets'[n])
  <2>1. CASE n \in 1 .. Len(packets)
    <3>1. n > 1 /\ Continues(packets[n - 1], packets[n])
      BY <1>3, <1>8, <2>1 DEF SendingInv, PacketsInv
    <3>2. n - 1 \in 1 .. Len(packets)
      BY <1>4, <2>1, <3>1
    <3> QED BY <1>3, <2>1, <3>1, <3>2
  <2>2. CASE n = Len(packets) + 1
    <3>1. packets'[n] = p /\ p.offset # 0
      BY <1>3, <1>8, <2>2
    <3>2. /\ Len(packets) > 0 /\ packets[Len(packets)].datagram = sending.datagram
          /\ End(packets[Len(packets)]) = sending.offset
      BY <1>1, <1>2, <3>1
    <3>3. n - 1 = Len(packets) /\ n - 1 \in 1 .. Len(packets) /\ n > 1
      BY <1>4, <2>2, <3>2
    <3>4. packets'[n - 1] = packets[Len(packets)]
      BY <1>3, <3>3
    <3>5. Continues(packets[Len(packets)], p)
      BY <1>2, <3>2 DEF Continues
    <3> QED BY <3>1, <3>3, <3>4, <3>5
  <2> QED BY <1>3, <2>1, <2>2
<1>9. Len(packets') <= FrameBound
  BY <1>3, <1>4 DEF Appended
<1> QED BY <1>3, <1>6, <1>7, <1>8, <1>9 DEF PacketsInv
\* What has been said about the datagrams before this one stays true.
LEMMA OldResultsStay ==
    ASSUME SendingInv, NEW p \in PacketType, p.datagram = Len(result) + 1,
           NEW outcome \in {"sent", "waiting", "failed"}, Appended(p, outcome),
           NEW d \in 1 .. Len(result)
    PROVE  /\ Transmitted(d) => Transmitted(d)'
           /\ Refused(d) => Refused(d)'
<1>1. /\ Len(packets') = Len(packets) + 1
      /\ \A n \in 1 .. Len(packets) : packets'[n] = packets[n] /\ status'[n] = status[n]
      /\ packets'[Len(packets) + 1] = p
      /\ \A n \in 1 .. Len(packets') : n \in 1 .. Len(packets) \/ n = Len(packets) + 1
  BY AppendedFacts
<1>2. Len(packets) \in Nat /\ Len(result) \in Nat
  BY SenderTypes
<1>3. p.datagram # d
  BY <1>2
<1>4. \A n \in 1 .. Len(packets) : n \in 1 .. Len(packets')
  BY <1>1, <1>2
<1>5. ASSUME Transmitted(d) PROVE Transmitted(d)'
  <2>1. \A n \in 1 .. Len(packets') : packets'[n].datagram = d => status'[n] = "sent"
    BY <1>1, <1>3, <1>5 DEF Transmitted
  <2>2. \E n \in 1 .. Len(packets') : packets'[n].datagram = d /\ ~packets'[n].more
    BY <1>1, <1>4, <1>5 DEF Transmitted
  <2> QED BY <2>1, <2>2 DEF Transmitted
<1>6. ASSUME Refused(d) PROVE Refused(d)'
  <2>1. CASE \A n \in 1 .. Len(packets) : packets[n].datagram # d
    BY <1>1, <1>3, <2>1 DEF Refused
  <2>2. CASE \E n \in 1 .. Len(packets) : packets[n].datagram = d /\ status[n] = "failed"
    BY <1>1, <1>4, <2>2 DEF Refused
  <2> QED BY <1>6, <2>1, <2>2 DEF Refused
<1> QED BY <1>5, <1>6

\* send_datagram returns: what it says of its datagram is so.
LEMMA ReturnKeeps ==
    ASSUME SendingInv, sending.active, NEW p, p = BuildPacket(sending),
           NEW outcome \in {"sent", "waiting", "failed"}, Appended(p, outcome),
           NEW value \in Returned, Return(value), next' = next,
           NEW e, e = Len(result) + 1, value = "accepted" => Transmitted(e)',
           value \notin {"accepted", "queued_for_arp"} => Refused(e)'
    PROVE  SendingInv'
<1>1. /\ sending \in CallType /\ sending.datagram = Len(result) + 1
      /\ sending.offset % Unit = 0
      /\ sending.offset # 0 => sending.offset < sending.size /\ sending.size > MtuPayload
  BY DEF SendingInv, CallInv
<1>2. p \in PacketType /\ p.datagram = Len(result) + 1
  BY <1>1, BuiltFacts
<1>3. result' = Append(result, value) /\ ~sending'.active /\ sending'.active \in BOOLEAN
  BY DEF Return, Idle
<1>4. /\ result' \in Seq(Returned) /\ Len(result') = Len(result) + 1
      /\ \A d \in 1 .. Len(result) : result'[d] = result[d]
      /\ result'[Len(result) + 1] = value
      /\ \A d \in 1 .. Len(result') : d \in 1 .. Len(result) \/ d = Len(result) + 1
  BY <1>3, ResultAdded
<1>5. /\ Len(packets') = Len(packets) + 1 /\ StatusInv'
      /\ \A n \in 1 .. Len(packets) : packets'[n] = packets[n]
      /\ packets'[Len(packets) + 1] = p
      /\ \A n \in 1 .. Len(packets') : n \in 1 .. Len(packets) \/ n = Len(packets) + 1
  BY <1>2, AppendedFacts
<1>6. PacketsInv'
  BY FragmentAdded
<1>7. CallInv'
  BY <1>3 DEF CallInv
<1>8. SenderInv'
  <2>1. Len(result) \in Nat /\ DatagramBound \in Nat
    BY SenderTypes
  <2>2. Calls = Len(result) + 1 /\ Calls' = Len(result) + 1
    BY <1>3, <1>4 DEF Calls
  <2>3. Len(result) + 1 \in Datagram
    BY <1>1 DEF CallType
  <2>4. Len(result') <= DatagramBound
    BY <1>4, <2>1, <2>3 DEF Datagram
  <2>5. \A n \in 1 .. Len(packets) : packets[n].datagram <= Len(result) + 1
    BY <2>2 DEF SendingInv, SenderInv
  <2>6. \A n \in 1 .. Len(packets') : packets'[n].datagram <= Len(result) + 1
    BY <1>2, <1>5, <2>1, <2>5
  <2>7. next' = Calls' % Identifications
    BY <2>2 DEF SendingInv, SenderInv
  <2> QED BY <1>3, <1>4, <2>2, <2>4, <2>6, <2>7 DEF SenderInv
<1>9. ResultInv'
  <2> SUFFICES ASSUME NEW d \in 1 .. Len(result')
               PROVE  /\ result'[d] = "accepted" => Transmitted(d)'
                      /\ result'[d] \notin {"accepted", "queued_for_arp"} => Refused(d)'
    BY DEF ResultInv
  <2>1. CASE d \in 1 .. Len(result)
    <3>1. /\ Transmitted(d) => Transmitted(d)'
          /\ Refused(d) => Refused(d)'
      BY <1>2, <2>1, OldResultsStay
    <3> QED BY <1>4, <2>1, <3>1 DEF SendingInv, ResultInv
  <2>2. CASE d = Len(result) + 1
    BY <1>4, <2>2
  <2> QED BY <1>4, <2>1, <2>2
<1> QED BY <1>5, <1>6, <1>7, <1>8, <1>9 DEF SendingInv

\* The call goes on with the next fragment.
LEMMA ContinueKeeps ==
    ASSUME SendingInv, sending.active, NEW p, p = BuildPacket(sending),
           NEW outcome \in {"sent", "waiting"}, Appended(p, outcome),
           NEW end, end = sending.offset + p.length, end < sending.size,
           NEW queued, queued = SendQueued(sending, outcome),
           sending' = [sending EXCEPT !.offset = end, !.queued = queued],
           result' = result, next' = next
    PROVE  SendingInv'
<1>1. /\ sending \in CallType /\ sending.datagram = Len(result) + 1
      /\ sending.id = Len(result) % Identifications
      /\ sending.offset % Unit = 0
      /\ sending.offset # 0 => sending.offset < sending.size /\ sending.size > MtuPayload
      /\ \A n \in 1 .. Len(packets) : Offered(sending, packets[n], status[n])
  BY DEF SendingInv, CallInv
<1>2. /\ p \in PacketType /\ p.datagram = Len(result) + 1
      /\ p.destination = sending.destination
      /\ End(p) = end /\ end \in Nat /\ p.length \in Nat
      /\ p.more => end % Unit = 0 /\ sending.size > MtuPayload
      /\ p.more
  BY <1>1, BuiltFacts
<1>3. /\ Len(packets') = Len(packets) + 1 /\ StatusInv'
      /\ \A n \in 1 .. Len(packets) : packets'[n] = packets[n] /\ status'[n] = status[n]
      /\ packets'[Len(packets) + 1] = p /\ status'[Len(packets) + 1] = outcome
      /\ \A n \in 1 .. Len(packets') : n \in 1 .. Len(packets) \/ n = Len(packets) + 1
  BY <1>2, AppendedFacts
<1>4. PacketsInv'
  BY FragmentAdded
<1>5. queued \in BOOLEAN /\ (queued <=> sending.queued \/ outcome = "waiting")
  BY <1>1, Zenon DEF SendQueued, CallType
<1>6. sending' \in CallType
  BY <1>1, <1>2, <1>5, Zenon DEF CallType
<1>7. /\ sending'.active /\ sending'.offset = end /\ sending'.queued = queued
      /\ sending'.datagram = sending.datagram /\ sending'.id = sending.id
      /\ sending'.size = sending.size /\ sending'.destination = sending.destination
  BY <1>1, Zenon DEF CallType
<1>8. Len(packets) \in Nat /\ Len(result) \in Nat /\ sending.offset \in Nat
  BY <1>1, SenderTypes DEF CallType
<1>9. ASSUME NEW n \in 1 .. Len(packets')
      PROVE  Offered(sending', packets'[n], status'[n])
  <2>1. CASE n \in 1 .. Len(packets)
    <3>1. Offered(sending, packets[n], status[n])
      BY <1>1, <2>1
    <3>2. packets[n] \in PacketType
      BY <2>1, SenderTypes
    <3>3. End(packets[n]) <= sending.offset => End(packets[n]) <= end
      BY <1>2, <1>8, <3>2, PacketEnds
    <3>4. packets'[n] = packets[n] /\ status'[n] = status[n]
      BY <1>3, <2>1
    <3>5. sending.queued => sending'.queued
      BY <1>5, <1>7
    <3>6. Offered(sending', packets[n], status[n])
      BY <1>7, <3>1, <3>3, <3>5 DEF Offered
    <3> QED BY <3>4, <3>6
  <2>2. CASE n = Len(packets) + 1
    <3>1. packets'[n] = p /\ status'[n] = outcome
      BY <1>3, <2>2
    <3>2. End(p) <= sending'.offset
      BY <1>2, <1>7
    <3>3. outcome = "waiting" => sending'.queued
      BY <1>5, <1>7
    <3>4. Offered(sending', p, outcome)
      BY <1>2, <1>7, <3>2, <3>3 DEF Offered
    <3> QED BY <3>1, <3>4
  <2> QED BY <1>3, <2>1, <2>2
<1>10. packets'[Len(packets')] = p /\ Len(packets') > 0
  BY <1>3, <1>8
<1>11. \A n \in 1 .. Len(packets') : Offered(sending, packets[n], status[n])'
  BY <1>9 DEF Offered, End, Begin
<1>12. End(packets'[Len(packets')]) = end
  BY <1>2, <1>10
<1>13. CallInv'
  BY <1>1, <1>2, <1>6, <1>7, <1>10, <1>11, <1>12 DEF CallInv, End, Begin
<1>14. SenderInv'
  <2>1. Calls' = Calls /\ Calls = Len(result) + 1
    BY <1>7 DEF Calls
  <2>2. \A n \in 1 .. Len(packets) : packets[n].datagram <= Len(result) + 1
    BY <2>1 DEF SendingInv, SenderInv
  <2>3. \A n \in 1 .. Len(packets') : packets'[n].datagram <= Len(result) + 1
    BY <1>2, <1>3, <1>8, <2>2
  <2>4. sending'.active \in BOOLEAN
    BY <1>6 DEF CallType
  <2> QED BY <2>1, <2>3, <2>4 DEF SendingInv, SenderInv
<1>15. ResultInv'
  <2>1. ASSUME NEW d \in 1 .. Len(result)
        PROVE  /\ Transmitted(d) => Transmitted(d)'
               /\ Refused(d) => Refused(d)'
    BY <1>2, <2>1, OldResultsStay
  <2> QED BY <2>1 DEF SendingInv, ResultInv
<1> QED BY <1>3, <1>4, <1>13, <1>14, <1>15 DEF SendingInv
\* One fragment, whatever the resolver makes of it.
LEMMA SendFragmentKeeps ==
    ASSUME SendingInv, NEW outcome \in {"sent", "waiting", "failed"},
           SendFragment(outcome)
    PROVE  SendingInv' /\ Grown
<1>1. PICK p : p = BuildPacket(sending)
  OBVIOUS
<1>2. /\ sending.active /\ Appended(p, outcome) /\ Emit(p, outcome)
      /\ next' = next
  BY <1>1 DEF SendFragment, Queue!Offer, Appended
<1>3. /\ sending \in CallType /\ sending.datagram = Len(result) + 1
      /\ sending.offset % Unit = 0
      /\ sending.offset # 0 => sending.offset < sending.size /\ sending.size > MtuPayload
      /\ \A n \in 1 .. Len(packets) : Offered(sending, packets[n], status[n])
  BY <1>2 DEF SendingInv, CallInv
<1>4. /\ p \in PacketType /\ p.datagram = Len(result) + 1
      /\ End(p) = sending.offset + p.length /\ End(p) \in Nat
      /\ p.more => End(p) < sending.size
  BY <1>1, <1>3, BuiltFacts
<1>5. /\ Len(packets') = Len(packets) + 1 /\ Grown
      /\ \A n \in 1 .. Len(packets) : packets'[n] = packets[n] /\ status'[n] = status[n]
      /\ packets'[Len(packets) + 1] = p /\ status'[Len(packets) + 1] = outcome
      /\ \A n \in 1 .. Len(packets') : n \in 1 .. Len(packets) \/ n = Len(packets) + 1
  BY <1>2, <1>4, AppendedFacts
<1>6. PICK e : e = Len(result) + 1
  OBVIOUS
<1>7. Len(packets) + 1 \in 1 .. Len(packets')
  BY <1>5, SenderTypes
<1>8. CASE outcome = "failed"
  <2>1. PICK reason \in Refusals(p) : Return(ArpStatusToNetwork(reason))
    BY <1>2, <1>8 DEF Emit
  <2>2. ArpStatusToNetwork(reason) \in {"payload_too_large", "send_failed", "would_block"}
    BY DEF Refusals, ArpStatusToNetwork
  <2>3. Refused(e)'
    BY <1>4, <1>5, <1>6, <1>7, <1>8 DEF Refused
  <2>4. PICK value : value = ArpStatusToNetwork(reason)
    OBVIOUS
  <2>5. value \in Returned /\ value # "accepted" /\ Return(value)
    BY <2>1, <2>2, <2>4 DEF Returned
  <2> QED BY <1>1, <1>2, <1>5, <1>6, <2>3, <2>5, ReturnKeeps
<1>9. CASE outcome # "failed" /\ sending.offset + p.length < sending.size
  <2>1. PICK end, queued : /\ end = sending.offset + p.length
                           /\ queued = SendQueued(sending, outcome)
    OBVIOUS
  <2>2. sending.size \in Nat /\ end \in Nat
    BY <1>3, <1>4, <2>1 DEF CallType
  <2>3. /\ sending' = [sending EXCEPT !.offset = end, !.queued = queued]
        /\ result' = result
    BY <1>2, <1>9, <2>1, <2>2 DEF Emit
  <2>4. outcome \in {"sent", "waiting"}
    BY <1>9
  <2> QED BY <1>1, <1>2, <1>5, <1>9, <2>1, <2>3, <2>4, ContinueKeeps
<1>10. CASE outcome # "failed" /\ sending.offset + p.length >= sending.size
  <2>1. PICK value : value = IF SendQueued(sending, outcome)
                             THEN "queued_for_arp" ELSE "accepted"
    OBVIOUS
  <2>2. sending.size \in Nat /\ sending.offset + p.length \in Nat
    BY <1>3, <1>4 DEF CallType
  <2>3. Return(value)
    BY <1>2, <1>10, <2>1, <2>2 DEF Emit
  <2>4. value \in {"accepted", "queued_for_arp"} /\ value \in Returned
    BY <2>1 DEF Returned
  <2>5. ASSUME value = "accepted" PROVE Transmitted(e)'
    <3>1. ~sending.queued /\ outcome = "sent"
      BY <1>10, <2>1, <2>5 DEF SendQueued
    <3>2. ~p.more
      BY <1>4, <1>10, <2>2
    <3>3. \A n \in 1 .. Len(packets) : packets[n].datagram = e => status[n] = "sent"
      BY <1>3, <1>6, <3>1 DEF Offered
    <3>4. \A n \in 1 .. Len(packets') : packets'[n].datagram = e => status'[n] = "sent"
      BY <1>5, <3>1, <3>3
    <3>5. \E n \in 1 .. Len(packets') : packets'[n].datagram = e /\ ~packets'[n].more
      BY <1>4, <1>5, <1>6, <1>7, <3>2
    <3> QED BY <3>4, <3>5 DEF Transmitted
  <2> QED BY <1>1, <1>2, <1>5, <1>6, <2>3, <2>4, <2>5, ReturnKeeps
<1>11. sending.size \in Nat /\ sending.offset + p.length \in Nat
  BY <1>3, <1>4 DEF CallType
<1> QED BY <1>8, <1>9, <1>10, <1>11

\* Frames that waited are transmitted or given up: what was accepted was on
\* the wire before, and what was refused is not taken up again.
LEMMA SettleKeeps ==
    ASSUME SendingInv, NEW sent \in SUBSET Queue!Waits, NEW failed \in SUBSET Queue!Waits,
           Settle(sent, failed)
    PROVE  SendingInv' /\ Grown
<1>1. /\ ~sending.active /\ UNCHANGED <<next, packets, sending, result>>
      /\ status' = [f \in 1 .. FrameBound |->
                        IF f \in sent THEN "sent"
                        ELSE IF f \in failed THEN "failed" ELSE status[f]]
  BY DEF Settle, sender, Queue!Settle, Queue!Frame
<1>2. /\ status \in [1 .. FrameBound -> {"none", "waiting", "sent", "failed"}]
      /\ \A n \in 1 .. FrameBound : status[n] = "none" <=> n > Len(packets)
  BY DEF SendingInv, StatusInv
<1>3. \A n \in sent \cup failed : n \in 1 .. FrameBound /\ status[n] = "waiting"
  BY DEF Queue!Waits, Queue!Frame
<1>4. ASSUME NEW n \in 1 .. FrameBound
      PROVE  /\ status'[n] \in {"none", "waiting", "sent", "failed"}
             /\ status'[n] = "none" <=> status[n] = "none"
             /\ status[n] = "sent" => status'[n] = "sent"
             /\ status[n] = "failed" => status'[n] = "failed"
  BY <1>1, <1>2, <1>3
<1>5. StatusInv'
  <2>1. status' \in [1 .. FrameBound -> {"none", "waiting", "sent", "failed"}]
    BY <1>1, <1>4
  <2> QED BY <1>1, <1>2, <1>4, <2>1 DEF StatusInv
<1>6. \A n \in 1 .. Len(packets) : n \in 1 .. FrameBound
  BY SenderTypes
<1>7. Grown
  BY <1>1, <1>4, <1>6, SenderTypes DEF Grown
<1>8. ASSUME NEW d, Transmitted(d) PROVE Transmitted(d)'
  BY <1>1, <1>4, <1>6, <1>8 DEF Transmitted
<1>9. ASSUME NEW d, Refused(d) PROVE Refused(d)'
  BY <1>1, <1>4, <1>6, <1>9 DEF Refused
<1>10. PacketsInv'
  BY <1>1 DEF SendingInv, PacketsInv
<1>11. CallInv'
  BY <1>1 DEF CallInv
<1>12. SenderInv'
  BY <1>1 DEF SendingInv, SenderInv, Calls
<1>13. ResultInv'
  BY <1>1, <1>8, <1>9 DEF SendingInv, ResultInv
<1> QED BY <1>5, <1>7, <1>10, <1>11, <1>12, <1>13 DEF SendingInv
-----------------------------------------------------------------------------
(* The receiver. *)

\* The assumption under which ReassemblyProofs holds of this table.
LEMMA TableAssumption ==
    /\ 0 .. (Identifications - 1) # {} /\ Capacity \in Nat /\ MaximumPayload \in Nat
    /\ Unit \in Nat \ {0}
    /\ MaximumHoles \in Nat
    /\ 0 \in Nat
<1>1. 0 \in 0 .. (Identifications - 1)
  BY StackAssumption
<1> QED BY <1>1, StackAssumption

\* insert of Table is insert of the instance that the lemmas are about.
LEMMA SameInsert ==
    ASSUME NEW f, Table!Insert(f) PROVE P!Insert(f)
<1>1. \A s, g : Table!Contradicts(s, g) <=> P!Contradicts(s, g)
  BY DEF Table!Contradicts, P!Contradicts
<1>2. \A a, b : Table!Span(a, b) = P!Span(a, b)
  BY DEF Table!Span, P!Span, Table!Position, P!Position
<1>3. \A s, g : Table!EstablishTotalLength(s, g) = P!EstablishTotalLength(s, g)
  BY DEF Table!EstablishTotalLength, P!EstablishTotalLength, Table!Clipped, P!Clipped,
         Table!Hole, P!Hole
<1>4. \A s : Table!Missing(s) = P!Missing(s)
  BY <1>2 DEF Table!Missing, P!Missing
<1>5. \A s, g : Table!CopyUnreceivedBytes(s, g) = P!CopyUnreceivedBytes(s, g)
  BY <1>2, <1>4 DEF Table!CopyUnreceivedBytes, P!CopyUnreceivedBytes, Table!Position,
                    P!Position
<1>6. \A s, g : Table!Copied(s, g) = P!Copied(s, g)
  BY <1>3, <1>5 DEF Table!Copied, P!Copied, Table!RaiseHighest, P!RaiseHighest
<1>7. \A s, b, e : Table!SubtractReceivedRange(s, b, e) = P!SubtractReceivedRange(s, b, e)
  BY DEF Table!SubtractReceivedRange, P!SubtractReceivedRange, Table!Overlaps, P!Overlaps,
         Table!Remainders, P!Remainders, Table!Hole, P!Hole
<1>8. \A s, b, e : Table!HoleCapacityExhausted(s, b, e) <=> P!HoleCapacityExhausted(s, b, e)
  BY DEF Table!HoleCapacityExhausted, P!HoleCapacityExhausted, Table!Cardinality,
         P!Cardinality
<1>9. \A i, g : Table!Arrive(i, g) = P!Arrive(i, g)
  BY <1>2 DEF Table!Arrive, P!Arrive, Table!Position, P!Position, Table!NoByte, P!NoByte
<1>10. /\ \A s : Table!Released(s) = P!Released(s)
       /\ \A s : Table!IsComplete(s) <=> P!IsComplete(s)
       /\ Table!Nothing = P!Nothing
  BY DEF Table!Released, P!Released, Table!IsComplete, P!IsComplete, Table!Nothing, P!Nothing
<1>11. \A k : Table!FindOrCreate(k) = P!FindOrCreate(k)
  BY DEF Table!FindOrCreate, P!FindOrCreate, Table!Holders, P!Holders, Table!SlotIndex,
         P!SlotIndex, Table!Inactive, P!Inactive, Table!Lowest, P!Lowest
<1>12. \A i, k : Table!Taken(i, k) = P!Taken(i, k)
  BY DEF Table!Taken, P!Taken, Table!NewSlot, P!NewSlot, Table!Hole, P!Hole
<1>13. \A i, s : Table!Drop(i, s) => P!Drop(i, s)
  BY <1>10 DEF Table!Drop, P!Drop
<1>14. \A i, s : Table!Keep(i, s, f) => P!Keep(i, s, f)
  BY <1>9, <1>10 DEF Table!Keep, P!Keep
<1>15. \A i, s : Table!Subtract(i, s, f) => P!Subtract(i, s, f)
  BY <1>7, <1>8, <1>13, <1>14 DEF Table!Subtract, P!Subtract
<1>16. \A i, s : Table!Accept(i, s, f) => P!Accept(i, s, f)
  BY <1>1, <1>6, <1>13, <1>15 DEF Table!Accept, P!Accept
<1> QED BY <1>11, <1>12, <1>16 DEF Table!Insert, P!Insert

\* The other operators of the two instances.
LEMMA SameTable ==
    /\ Table!Fragment = P!Fragment /\ Table!SlotIndex = P!SlotIndex
    /\ Table!Nothing = P!Nothing
    /\ \A a, b : Table!Span(a, b) = P!Span(a, b)
    /\ \A S : Table!SweepSlots(S) => P!SweepSlots(S)
    /\ Table!Init => P!Init
<1>1. Table!Fragment = P!Fragment
  BY DEF Table!Fragment, P!Fragment
<1>2. Table!SlotIndex = P!SlotIndex /\ Table!Nothing = P!Nothing
  BY DEF Table!SlotIndex, P!SlotIndex, Table!Nothing, P!Nothing
<1>3. \A a, b : Table!Span(a, b) = P!Span(a, b)
  BY DEF Table!Span, P!Span, Table!Position, P!Position
<1>4. \A S : Table!SweepSlots(S) => P!SweepSlots(S)
  BY DEF Table!SweepSlots, P!SweepSlots, Table!SlotIndex, P!SlotIndex,
         Table!Released, P!Released, Table!Nothing, P!Nothing
<1>5. Table!Init => P!Init
  BY DEF Table!Init, P!Init, Table!SlotIndex, P!SlotIndex, Table!Position, P!Position,
         Table!NoByte, P!NoByte, Table!Nothing, P!Nothing
<1> QED BY <1>1, <1>2, <1>3, <1>4, <1>5
\* f is what insert sees of packet n, which was sent to this host.
FragmentOf(f, n) ==
    /\ status[n] = "sent" /\ packets[n].destination = "peer"
    /\ f.key = packets[n].id /\ f.version = packets[n].datagram
    /\ f.offset = Begin(packets[n]) /\ f.offset + f.size = End(packets[n])
    /\ f.more = packets[n].more

\* The packet whose frame passes the checks of receive_frame.
LEMMA AcceptedFrame ==
    ASSUME SendingInv, NEW n \in Queue!Frame, status[n] = "sent", NEW form,
           NEW frame, frame = OnWire(packets[n], form), Accepts(frame)
    PROVE  /\ n \in 1 .. Len(packets) /\ frame.packet = packets[n]
           /\ packets[n] \in PacketType /\ packets[n].destination = "peer"
<1>1. n \in 1 .. Len(packets)
  <2>1. n \in 1 .. FrameBound /\ ~(n > Len(packets))
    BY DEF Queue!Frame, SendingInv, StatusInv
  <2> QED BY <2>1, SenderTypes
<1>2. packets[n] \in PacketType
  BY <1>1, SenderTypes
<1>3. frame.packet = IF form = "damaged"
                     THEN [packets[n] EXCEPT !.checked = FALSE, !.offset = 0, !.more = FALSE]
                     ELSE packets[n]
  BY DEF OnWire
<1>4. frame.packet.checked /\ frame.packet.destination = "peer"
  BY DEF Accepts, Parses
<1>5. form # "damaged"
  <2> SUFFICES ASSUME form = "damaged" PROVE FALSE
    OBVIOUS
  <2>1. frame.packet = [packets[n] EXCEPT !.checked = FALSE, !.offset = 0, !.more = FALSE]
    BY <1>3
  <2>2. ~frame.packet.checked
    BY <1>2, <2>1, Zenon DEF PacketType
  <2> QED BY <1>4, <2>2
<1> QED BY <1>1, <1>2, <1>3, <1>4, <1>5

\* The fragment that receive_frame makes of it.
LEMMA FragmentOfPacket ==
    ASSUME NEW n, packets[n] \in PacketType, status[n] = "sent",
           packets[n].destination = "peer",
           NEW frame, frame.packet = packets[n], NEW f, f = AsFragment(frame)
    PROVE  FragmentOf(f, n)
<1>1. /\ f.key = packets[n].id /\ f.version = packets[n].datagram
      /\ f.offset = packets[n].offset * Unit /\ f.size = packets[n].length
      /\ f.more = packets[n].more
  BY DEF AsFragment, PayloadBytes
<1> QED BY <1>1 DEF FragmentOf, Begin, End

\* A byte of a slot that insert has changed was sent.
LEMMA ByteWasSent ==
    ASSUME SendingInv, TableSent, NEW n \in 1 .. Len(packets), NEW f, FragmentOf(f, n),
           NEW i \in P!SlotIndex, P!Inserted(i, f), P!ArrivedFrom(i, f),
           NEW k \in P!Position, arrived'[i][k] # P!NoByte,
           NEW d, d = arrived'[i][k][2]
    PROVE  CarriesByte(d, f.key, k)
<1>1. CASE /\ k \in P!Span(f.offset, f.offset + f.size)
           /\ arrived'[i][k] = <<f.key, f.version>>
  <2>1. f.offset <= k /\ k < f.offset + f.size
    BY <1>1 DEF P!Span
  <2>2. d = packets[n].datagram
    BY <1>1 DEF FragmentOf
  <2>3. SentTo(n, d, f.key)
    BY <2>2 DEF FragmentOf, SentTo
  <2>4. Begin(packets[n]) <= k /\ k < End(packets[n])
    BY <2>1 DEF FragmentOf
  <2> QED BY <2>3, <2>4 DEF CarriesByte
<1>2. CASE slots[i].active /\ arrived'[i][k] = arrived[i][k]
  <2>1. SlotSent(slots[i], arrived[i], ends[i])
    BY DEF TableSent
  <2>2. slots[i].key = f.key
    BY <1>2 DEF P!Inserted
  <2>3. CarriesByte(arrived[i][k][2], slots[i].key, k)
    BY <1>2, <2>1 DEF SlotSent
  <2> QED BY <1>2, <2>2, <2>3
<1> QED BY <1>1, <1>2 DEF P!ArrivedFrom

\* So was the length it has found.
LEMMA EndWasSent ==
    ASSUME SendingInv, P!TableInv, TableSent,
           NEW n \in 1 .. Len(packets), NEW f \in P!Fragment, FragmentOf(f, n),
           NEW i \in P!SlotIndex, P!Inserted(i, f),
           NEW end, P!LengthGiven(P!Taken(i, f.key), f, end),
           NEW d, d = LengthFrom(i, f)
    PROVE  TellsEnd(d, f.key, end)
<1>1. SlotSent(slots[i], arrived[i], ends[i])
  BY DEF TableSent
<1>2. /\ P!Taken(i, f.key).known => slots[i].active
      /\ slots[i].active => P!Taken(i, f.key) = slots[i]
  BY TableAssumption, P!TakenLength
<1>3. CASE slots[i].known
  <2>1. slots[i].active /\ TellsEnd(ends[i], slots[i].key, slots[i].total)
    BY <1>1, <1>3 DEF SlotSent
  <2>2. P!Taken(i, f.key) = slots[i] /\ slots[i].key = f.key
    BY <1>2, <2>1 DEF P!Inserted
  <2>3. end = slots[i].total
    BY <1>3, <2>2 DEF P!LengthGiven
  <2>4. d = ends[i]
    BY <1>3 DEF LengthFrom
  <2> QED BY <2>1, <2>2, <2>3, <2>4
<1>4. CASE ~slots[i].known
  <2>1. ~P!Taken(i, f.key).known
    BY <1>2, <1>4
  <2>2. ~f.more /\ end = f.offset + f.size
    BY <2>1 DEF P!LengthGiven
  <2>3. d = f.version
    BY <1>4 DEF LengthFrom
  <2>4. SentTo(n, d, f.key) /\ ~packets[n].more /\ End(packets[n]) = end
    BY <2>2, <2>3 DEF FragmentOf, SentTo
  <2> QED BY <2>4 DEF TellsEnd
<1> QED BY <1>3, <1>4
\* A slot whose contents and length were sent, after a step.
LEMMA SlotSentNext ==
    ASSUME NEW i, NEW key, key = slots'[i].key,
           slots'[i].active => \A k \in P!Position : arrived'[i][k] # P!NoByte =>
               \E d : d = arrived'[i][k][2] /\ CarriesByte(d, key, k)',
           slots'[i].known => slots'[i].active /\
               \E d, end : d = ends'[i] /\ end = slots'[i].total /\ TellsEnd(d, key, end)'
    PROVE  SlotSent(slots[i], arrived[i], ends[i])'
<1>1. ASSUME slots'[i].active, NEW k \in P!Position, arrived'[i][k] # P!NoByte
      PROVE  CarriesByte(arrived[i][k][2], slots[i].key, k)'
  <2>1. PICK d : d = arrived'[i][k][2] /\ CarriesByte(d, key, k)'
    BY <1>1
  <2> QED BY <2>1
<1>2. ASSUME slots'[i].known
      PROVE  slots'[i].active /\ TellsEnd(ends[i], slots[i].key, slots[i].total)'
  <2>1. PICK d, end : d = ends'[i] /\ end = slots'[i].total /\ TellsEnd(d, key, end)'
    BY <1>2
  <2> QED BY <1>2, <2>1
<1> QED BY <1>1, <1>2 DEF SlotSent, P!Position, P!NoByte

\* insert keeps what the table knows true of what was sent.
LEMMA InsertKeepsSent ==
    ASSUME SendingInv, P!TableInv, TableSent, Grown,
           NEW n \in 1 .. Len(packets), NEW f \in P!Fragment, FragmentOf(f, n),
           NEW i \in P!SlotIndex, P!Inserted(i, f), ends' = EndsAfter(f.version)
    PROVE  TableSent'
<1> SUFFICES ASSUME NEW j \in P!SlotIndex
             PROVE  SlotSent(slots[j], arrived[j], ends[j])'
  BY DEF TableSent, P!SlotIndex
<1>1. SlotSent(slots[j], arrived[j], ends[j])
  BY DEF TableSent
<1>2. /\ ~slots'[j].known => ends'[j] = 0
      /\ slots'[j].known => ends'[j] = LengthFrom(j, f)
  <2>1. ends'[j] = IF ~slots'[j].known THEN 0
                   ELSE IF slots[j].known THEN ends[j] ELSE f.version
    BY SameTable DEF EndsAfter
  <2> QED BY <2>1 DEF LengthFrom
<1>3. PICK key : key = slots'[j].key
  OBVIOUS
<1>4. CASE j = i
  <2>1. ASSUME slots'[j].active, NEW k \in P!Position, arrived'[j][k] # P!NoByte
        PROVE  \E d : d = arrived'[j][k][2] /\ CarriesByte(d, key, k)'
    <3>1. P!ArrivedFrom(i, f) /\ slots'[i].key = f.key
      BY <1>4, <2>1 DEF P!Inserted
    <3>2. PICK d : d = arrived'[i][k][2]
      OBVIOUS
    <3>3. CarriesByte(d, f.key, k)
      BY <1>4, <2>1, <3>1, <3>2, ByteWasSent
    <3>4. CarriesByte(d, f.key, k)'
      BY <3>3, ByteStays
    <3>5. key = f.key
      BY <1>3, <1>4, <3>1
    <3> QED BY <1>4, <3>2, <3>4, <3>5
  <2>2. ASSUME slots'[j].known
        PROVE  slots'[j].active /\ \E d, end :
                   d = ends'[j] /\ end = slots'[j].total /\ TellsEnd(d, key, end)'
    <3>1. /\ slots'[i].active /\ slots'[i].key = f.key
          /\ P!LengthGiven(P!Taken(i, f.key), f, slots'[i].total)
      BY <1>4, <2>2 DEF P!Inserted
    <3>2. PICK d, end : d = LengthFrom(i, f) /\ end = slots'[i].total
      OBVIOUS
    <3>3. P!LengthGiven(P!Taken(i, f.key), f, end)
      BY <3>1, <3>2
    <3>4. TellsEnd(d, f.key, end)
      BY <3>2, <3>3, EndWasSent
    <3>5. TellsEnd(d, f.key, end)'
      BY <3>4, EndStays
    <3>6. key = f.key
      BY <1>3, <1>4, <3>1
    <3>7. d = ends'[j] /\ end = slots'[j].total /\ slots'[j].active
      BY <1>2, <1>4, <2>2, <3>1, <3>2
    <3> QED BY <3>5, <3>6, <3>7
  <2> QED BY <1>3, <2>1, <2>2, SlotSentNext
<1>5. CASE j # i
  <2>1. slots'[j] = slots[j] /\ arrived'[j] = arrived[j]
    BY <1>5 DEF P!Inserted
  <2>2. ASSUME slots'[j].active, NEW k \in P!Position, arrived'[j][k] # P!NoByte
        PROVE  \E d : d = arrived'[j][k][2] /\ CarriesByte(d, key, k)'
    <3>1. PICK d : d = arrived[j][k][2]
      OBVIOUS
    <3>2. CarriesByte(d, key, k)
      BY <1>1, <1>3, <2>1, <2>2, <3>1 DEF SlotSent
    <3> QED BY <2>1, <3>1, <3>2, ByteStays
  <2>3. ASSUME slots'[j].known
        PROVE  slots'[j].active /\ \E d, end :
                   d = ends'[j] /\ end = slots'[j].total /\ TellsEnd(d, key, end)'
    <3>1. PICK d, end : d = ends[j] /\ end = slots[j].total
      OBVIOUS
    <3>2. TellsEnd(d, key, end) /\ slots[j].active
      BY <1>1, <1>3, <2>1, <2>3, <3>1 DEF SlotSent
    <3>3. TellsEnd(d, key, end)'
      BY <3>2, EndStays
    <3>4. ends'[j] = ends[j]
      BY <1>2, <2>1, <2>3 DEF LengthFrom
    <3> QED BY <2>1, <3>1, <3>2, <3>3, <3>4
  <2> QED BY <1>3, <2>2, <2>3, SlotSentNext
<1> QED BY <1>4, <1>5

\* sweep only forgets.
LEMMA SweepKeepsSent ==
    ASSUME P!TableInv, TableSent, Grown, NEW S, P!SweepSlots(S), ends' = EndsAfter(0)
    PROVE  TableSent'
<1> SUFFICES ASSUME NEW j \in P!SlotIndex
             PROVE  SlotSent(slots[j], arrived[j], ends[j])'
  BY DEF TableSent, P!SlotIndex
<1>1. SlotSent(slots[j], arrived[j], ends[j])
  BY DEF TableSent
<1>2. PICK key : key = slots'[j].key
  OBVIOUS
<1>3. arrived' = arrived
      /\ slots'[j] = IF j \in S THEN P!Released(slots[j]) ELSE slots[j]
  BY DEF P!SweepSlots
<1>4. ends'[j] = IF ~slots'[j].known THEN 0 ELSE IF slots[j].known THEN ends[j] ELSE 0
  BY SameTable DEF EndsAfter
<1>5. slots[j] \in P!SlotType
  BY TableAssumption, P!TypeOKIs DEF P!TableInv
<1>6. CASE j \in S
  <2>1. slots'[j] = P!Released(slots[j])
    BY <1>3, <1>6
  <2>2. ~slots'[j].active /\ ~slots'[j].known
    BY <1>5, <2>1 DEF P!Released, P!SlotType
  <2> QED BY <1>2, <2>2, SlotSentNext
<1>7. CASE j \notin S
  <2>1. slots'[j] = slots[j] /\ arrived'[j] = arrived[j]
    BY <1>3, <1>7
  <2>2. ASSUME slots'[j].active, NEW k \in P!Position, arrived'[j][k] # P!NoByte
        PROVE  \E d : d = arrived'[j][k][2] /\ CarriesByte(d, key, k)'
    <3>1. PICK d : d = arrived[j][k][2]
      OBVIOUS
    <3>2. CarriesByte(d, key, k)
      BY <1>1, <1>2, <2>1, <2>2, <3>1 DEF SlotSent
    <3> QED BY <2>1, <3>1, <3>2, ByteStays
  <2>3. ASSUME slots'[j].known
        PROVE  slots'[j].active /\ \E d, end :
                   d = ends'[j] /\ end = slots'[j].total /\ TellsEnd(d, key, end)'
    <3>1. PICK d, end : d = ends[j] /\ end = slots[j].total
      OBVIOUS
    <3>2. TellsEnd(d, key, end) /\ slots[j].active
      BY <1>1, <1>2, <2>1, <2>3, <3>1 DEF SlotSent
    <3>3. TellsEnd(d, key, end)'
      BY <3>2, EndStays
    <3>4. ends'[j] = ends[j]
      BY <1>4, <2>1, <2>3
    <3> QED BY <2>1, <3>1, <3>2, <3>3, <3>4
  <2> QED BY <1>2, <2>2, <2>3, SlotSentNext
<1> QED BY <1>6, <1>7
\* A payload that the table has completed was sent.
LEMMA CompletedWasSent ==
    ASSUME SendingInv, P!TableInv, TableSent, Grown, P!TableInv',
           NEW n \in 1 .. Len(packets), NEW f \in P!Fragment, FragmentOf(f, n),
           NEW i \in P!SlotIndex, P!Inserted(i, f), delivered' # P!Nothing,
           Deliver(delivered'.length,
                   {LengthFrom(delivered'.slot, f)} \cup
                   {slots'[delivered'.slot].data[k][2] :
                        k \in P!Span(0, delivered'.length)})
    PROVE  PayloadSent'
<1>1. /\ delivered'.slot = i /\ slots'[i].key = f.key /\ P!ArrivedFrom(i, f)
      /\ P!LengthGiven(P!Taken(i, f.key), f, delivered'.length)
  BY DEF P!Inserted
<1>2. PICK end, e : end = delivered'.length /\ e = LengthFrom(i, f)
  OBVIOUS
<1>3. /\ received'.length = end
      /\ received'.from = {e} \cup {slots'[i].data[k][2] : k \in P!Span(0, end)}
  BY <1>1, <1>2 DEF Deliver
<1>4. TellsEnd(e, f.key, end)
  BY <1>1, <1>2, EndWasSent
<1>5. end \in Nat /\ end <= MaximumPayload
  <2>1. delivered' \in [slot : 0 .. Capacity, length : 0 .. MaximumPayload]
    BY DEF P!TableInv, P!TypeOK
  <2>2. delivered'.length \in 0 .. MaximumPayload
    BY <2>1
  <2> QED BY <1>2, <2>2, StackAssumption
<1>6. ASSUME NEW k \in P!Span(0, end), NEW d, d = slots'[i].data[k][2]
      PROVE  CarriesByte(d, f.key, k)
  <2>1. P!DeliveredIsReceived'
    BY DEF P!TableInv
  <2>2. arrived'[i][k] # P!NoByte /\ slots'[i].data[k] = arrived'[i][k]
    BY <1>1, <1>2, <2>1 DEF P!DeliveredIsReceived, P!Span, P!Position, P!NoByte
  <2>3. k \in P!Position
    BY DEF P!Span
  <2>4. d = arrived'[i][k][2]
    BY <1>6, <2>2
  <2> QED BY <1>1, <2>2, <2>3, <2>4, ByteWasSent
<1>7. f.key \in Identification
  BY DEF P!Fragment, Identification
<1>8. ASSUME NEW d \in received'.from
      PROVE  \E m \in 1 .. Len(packets) : SentTo(m, d, f.key)
  <2>1. CASE d = e
    BY <1>4, <2>1 DEF TellsEnd
  <2>2. CASE \E k \in P!Span(0, end) : d = slots'[i].data[k][2]
    <3>1. PICK k \in P!Span(0, end) : d = slots'[i].data[k][2]
      BY <2>2
    <3>2. CarriesByte(d, f.key, k)
      BY <1>6, <3>1
    <3> QED BY <3>2 DEF CarriesByte
  <2> QED BY <1>3, <2>1, <2>2
<1>9. received'.from \subseteq Datagram
  <2> SUFFICES ASSUME NEW d \in received'.from PROVE d \in Datagram
    OBVIOUS
  <2>1. PICK m \in 1 .. Len(packets) : SentTo(m, d, f.key)
    BY <1>8
  <2>2. packets[m] \in PacketType /\ packets[m].datagram = d
    BY <2>1, SenderTypes DEF SentTo
  <2> QED BY <2>2 DEF PacketType
<1>10. \A d \in received'.from : \E m \in 1 .. Len(packets') : SentTo(m, d, f.key)'
  BY <1>8, SentStays
<1>11. ASSUME NEW d \in received'.from, received'.from = {d}
       PROVE  /\ TellsEnd(d, f.key, end)'
              /\ \A k \in 0 .. (end - 1) : CarriesByte(d, f.key, k)'
  <2>1. e = d
    BY <1>3, <1>11
  <2>2. TellsEnd(d, f.key, end)'
    BY <1>4, <2>1, EndStays
  <2>3. ASSUME NEW k \in 0 .. (end - 1) PROVE CarriesByte(d, f.key, k)'
    <3>1. k \in P!Span(0, end)
      BY <1>5, StackAssumption DEF P!Span, P!Position
    <3>2. d = slots'[i].data[k][2]
      BY <1>3, <1>11, <3>1
    <3>3. CarriesByte(d, f.key, k)
      BY <1>6, <3>1, <3>2
    <3> QED BY <3>3, ByteStays
  <2> QED BY <2>2, <2>3
<1>12. ASSUME NEW d \in received'.from, received'.from = {d}
       PROVE  /\ TellsEnd(d, f.key, received.length)'
              /\ \A k \in 0 .. (received'.length - 1) : CarriesByte(d, f.key, k)'
  BY <1>3, <1>11, <1>12
<1> QED BY <1>3, <1>5, <1>7, <1>9, <1>10, <1>12 DEF PayloadSent, Identification, Datagram

\* So was an unfragmented one.
LEMMA WholeWasSent ==
    ASSUME SendingInv, Grown, NEW n \in 1 .. Len(packets), status[n] = "sent",
           packets[n].destination = "peer", ~Fragmented(packets[n]),
           Deliver(packets[n].length, {packets[n].datagram})
    PROVE  PayloadSent'
<1>1. PICK p : p = packets[n]
  OBVIOUS
<1>2. p \in PacketType
  BY <1>1, SenderTypes
<1>3. p.length \in Nat /\ p.datagram \in Datagram /\ p.id \in Identification
  BY <1>2 DEF PacketType
<1>4. received'.length = p.length /\ received'.from = {p.datagram}
  BY <1>1 DEF Deliver
<1>5. ~p.more /\ Begin(p) = 0 /\ End(p) = p.length
  BY <1>1, <1>2, <1>3, PacketEnds DEF Fragmented
<1>6. SentTo(n, p.datagram, p.id)
  BY <1>1 DEF SentTo
<1>7. TellsEnd(p.datagram, p.id, p.length)
  BY <1>1, <1>5, <1>6 DEF TellsEnd
<1>8. ASSUME NEW k \in 0 .. (p.length - 1) PROVE CarriesByte(p.datagram, p.id, k)
  BY <1>1, <1>3, <1>5, <1>6 DEF CarriesByte
<1>9. n \in 1 .. Len(packets') /\ SentTo(n, p.datagram, p.id)'
  BY <1>6, SentStays
<1>10. TellsEnd(p.datagram, p.id, p.length)'
  BY <1>7, EndStays
<1>11. \A k \in 0 .. (p.length - 1) : CarriesByte(p.datagram, p.id, k)'
  BY <1>8, ByteStays
<1>12. \A d \in received'.from : \E m \in 1 .. Len(packets') : SentTo(m, d, p.id)'
  BY <1>4, <1>9
<1>13. ASSUME NEW d \in received'.from
       PROVE  /\ TellsEnd(d, p.id, received.length)'
              /\ \A k \in 0 .. (received'.length - 1) : CarriesByte(d, p.id, k)'
  BY <1>4, <1>10, <1>11
<1> QED BY <1>3, <1>4, <1>12, <1>13 DEF PayloadSent, Identification, Datagram
\* The sender is idle while the receiver works.
LEMMA SenderStays ==
    ASSUME SendingInv, UNCHANGED <<sender, status>> PROVE SendingInv' /\ Grown
<1>1. UNCHANGED <<next, packets, sending, result, status>>
  BY DEF sender
<1>2. /\ PacketsInv' /\ StatusInv' /\ Grown
      /\ \A d : Transmitted(d) => Transmitted(d)'
      /\ \A d : Refused(d) => Refused(d)'
  BY <1>1, PacketsStay
<1>3. CallInv'
  BY <1>1 DEF SendingInv, CallInv
<1>4. SenderInv'
  BY <1>1 DEF SendingInv, SenderInv, Calls
<1>5. ResultInv'
  BY <1>1, <1>2 DEF SendingInv, ResultInv
<1> QED BY <1>2, <1>3, <1>4, <1>5 DEF SendingInv

\* Everything that holds of the receiver.
ReceivingInv == P!TableInv /\ TableSent /\ PayloadSent

\* The receiver does not mind what the sender does.
LEMMA ReceiverStays ==
    ASSUME ReceivingInv, Grown, UNCHANGED <<table, received>>
    PROVE  ReceivingInv'
<1>1. UNCHANGED <<slots, arrived, delivered, ends, received>>
  BY DEF table
<1>2. P!TableInv'
  BY <1>1, TableAssumption, P!StutterKeeps DEF ReceivingInv, P!vars
<1> QED BY <1>1, <1>2, TableSentStays, PayloadSentStays DEF ReceivingInv

\* The fragment goes into the table or is dropped.
LEMMA ReassembleKeeps ==
    ASSUME SendingInv, ReceivingInv, Grown, NEW n \in 1 .. Len(packets), NEW f,
           FragmentOf(f, n), Reassemble(f)
    PROVE  ReceivingInv'
<1>1. CASE f \notin Table!Fragment \/ Table!FindOrCreate(f.key) = {}
  <2>1. ~Table!Insert(f) \/ f \notin Table!Fragment
    BY <1>1 DEF Table!Insert
  <2> QED BY <2>1, ReceiverStays DEF Reassemble
<1>2. CASE /\ f \in Table!Fragment /\ Table!Insert(f) /\ ends' = EndsAfter(f.version)
           /\ IF delivered' = Table!Nothing THEN UNCHANGED received
              ELSE Deliver(delivered'.length,
                           {LengthFrom(delivered'.slot, f)} \cup
                           {slots'[delivered'.slot].data[k][2] :
                                k \in Table!Span(0, delivered'.length)})
  <2>1. f \in P!Fragment /\ P!Insert(f)
    BY <1>2, SameTable, SameInsert
  <2>2. P!TableInv'
    BY <2>1, TableAssumption, P!InsertKeeps DEF ReceivingInv
  <2>3. \A j \in P!SlotIndex : slots[j].known => slots[j].active
    BY DEF ReceivingInv, TableSent, SlotSent
  <2>4. PICK i \in P!SlotIndex : P!Inserted(i, f)
    BY <2>1, <2>3, TableAssumption, P!InsertEffect DEF ReceivingInv
  <2>5. TableSent'
    BY <1>2, <2>1, <2>4, InsertKeepsSent DEF ReceivingInv
  <2>6. CASE delivered' = P!Nothing
    <3>1. UNCHANGED received
      BY <1>2, <2>6, SameTable
    <3> QED BY <2>2, <2>5, <3>1, PayloadSentStays DEF ReceivingInv
  <2>7. CASE delivered' # P!Nothing
    <3>1. Deliver(delivered'.length,
                  {LengthFrom(delivered'.slot, f)} \cup
                  {slots'[delivered'.slot].data[k][2] : k \in P!Span(0, delivered'.length)})
      BY <1>2, <2>7, SameTable
    <3>2. PayloadSent'
      BY <2>1, <2>2, <2>4, <2>7, <3>1, CompletedWasSent DEF ReceivingInv
    <3> QED BY <2>2, <2>5, <3>2 DEF ReceivingInv
  <2> QED BY <2>6, <2>7
<1> QED BY <1>1, <1>2 DEF Reassemble

\* receive_frame, for every frame the wire may bring.
LEMMA ReceiveFrameKeeps ==
    ASSUME SendingInv, ReceivingInv, NEW n \in Queue!Frame, NEW form \in Form,
           ReceiveFrame(n, form)
    PROVE  SendingInv' /\ ReceivingInv'
<1>1. SendingInv' /\ Grown
  BY SenderStays DEF ReceiveFrame
<1>2. PICK frame : frame = OnWire(packets[n], form)
  OBVIOUS
<1>3. /\ status[n] = "sent"
      /\ \/ ~Accepts(frame) /\ UNCHANGED <<table, received>>
         \/ /\ Accepts(frame) /\ ~Fragmented(frame.packet)
            /\ Deliver(PayloadBytes(frame), {frame.packet.datagram})
            /\ UNCHANGED table
         \/ /\ Accepts(frame) /\ Fragmented(frame.packet)
            /\ Reassemble(AsFragment(frame))
  BY <1>2 DEF ReceiveFrame
<1>4. CASE ~Accepts(frame)
  BY <1>1, <1>3, <1>4, ReceiverStays
<1>5. CASE Accepts(frame)
  <2>1. /\ n \in 1 .. Len(packets) /\ frame.packet = packets[n]
        /\ packets[n] \in PacketType /\ packets[n].destination = "peer"
    BY <1>2, <1>3, <1>5, AcceptedFrame
  <2>2. CASE ~Fragmented(frame.packet)
    <3>1. Deliver(packets[n].length, {packets[n].datagram}) /\ UNCHANGED table
      BY <1>3, <1>5, <2>1, <2>2 DEF PayloadBytes
    <3>2. PayloadSent'
      BY <1>1, <1>3, <2>1, <2>2, <3>1, WholeWasSent
    <3>3. UNCHANGED <<slots, arrived, delivered, ends>>
      BY <3>1 DEF table
    <3>4. P!TableInv'
      BY <3>3, TableAssumption, P!StutterKeeps DEF ReceivingInv, P!vars
    <3>5. TableSent'
      BY <1>1, <3>3, TableSentStays DEF ReceivingInv
    <3> QED BY <1>1, <3>2, <3>4, <3>5 DEF ReceivingInv
  <2>3. CASE Fragmented(frame.packet)
    <3>1. PICK f : f = AsFragment(frame)
      OBVIOUS
    <3>2. FragmentOf(f, n) /\ Reassemble(f)
      BY <1>3, <1>5, <2>1, <2>3, <3>1, FragmentOfPacket
    <3> QED BY <1>1, <2>1, <3>2, ReassembleKeeps
  <2> QED BY <2>2, <2>3
<1> QED BY <1>4, <1>5

\* tick: the table forgets what has waited too long.
LEMMA TickKeeps ==
    ASSUME SendingInv, ReceivingInv, Tick
    PROVE  SendingInv' /\ ReceivingInv'
<1>1. SendingInv' /\ Grown
  BY SenderStays DEF Tick
<1>2. /\ \E S \in SUBSET P!SlotIndex : P!SweepSlots(S)
      /\ ends' = EndsAfter(0) /\ UNCHANGED received
  BY SameTable DEF Tick
<1>3. P!TableInv'
  BY <1>2, TableAssumption, P!SweepSlotsKeeps DEF ReceivingInv
<1>4. TableSent'
  BY <1>1, <1>2, SweepKeepsSent DEF ReceivingInv
<1>5. PayloadSent'
  BY <1>1, <1>2, PayloadSentStays DEF ReceivingInv
<1> QED BY <1>1, <1>3, <1>4, <1>5 DEF ReceivingInv
-----------------------------------------------------------------------------
(* The theorems. *)

\* The invariant holds at the start.
LEMMA StackInit == Init => SendingInv /\ ReceivingInv
<1> SUFFICES ASSUME Init PROVE SendingInv /\ ReceivingInv
  OBVIOUS
<1>1. /\ next = 0 /\ packets = <<>> /\ sending = Idle /\ result = <<>>
      /\ status = [f \in 1 .. FrameBound |-> "none"]
      /\ P!Init /\ received = [length |-> 0, from |-> {}]
  BY SameTable DEF Init, Queue!Init, Queue!Frame
<1>2. /\ packets \in Seq(PacketType) /\ Len(packets) = 0
      /\ result \in Seq(Returned) /\ Len(result) = 0
  BY <1>1
<1>3. ~sending.active /\ sending.active \in BOOLEAN
  BY <1>1 DEF Idle
<1>4. FrameBound \in Nat /\ DatagramBound \in Nat /\ 0 % Identifications = 0
  BY StackAssumption
<1>5. PacketsInv
  BY <1>2, <1>4 DEF PacketsInv
<1>6. StatusInv
  BY <1>1, <1>2, <1>4 DEF StatusInv
<1>7. CallInv
  BY <1>3 DEF CallInv
<1>8. SenderInv
  BY <1>1, <1>2, <1>3, <1>4 DEF SenderInv, Calls
<1>9. ResultInv
  BY <1>2 DEF ResultInv
<1>10. P!TableInv
  BY <1>1, TableAssumption, P!TableInit
<1>11. TableSent
  <2>1. \A i \in P!SlotIndex : ~slots[i].active /\ ~slots[i].known
    BY <1>1 DEF P!Init
  <2> QED BY <2>1 DEF TableSent, SlotSent
<1>12. PayloadSent
  <2>1. 0 \in Identification
    BY StackAssumption DEF Identification
  <2> QED BY <1>1, <2>1 DEF PayloadSent
<1> QED BY <1>5, <1>6, <1>7, <1>8, <1>9, <1>10, <1>11, <1>12 DEF SendingInv, ReceivingInv

\* Every step keeps the invariant.
LEMMA StackNext ==
    ASSUME SendingInv, ReceivingInv, [Next]_vars
    PROVE  SendingInv' /\ ReceivingInv'
<1>1. ASSUME NEW size \in Nat, NEW destination \in {"peer", "other"},
             SendDatagram(size, destination)
      PROVE  SendingInv' /\ ReceivingInv'
  <2>1. SendingInv' /\ Grown
    BY <1>1, SendDatagramKeeps
  <2>2. UNCHANGED <<table, received>>
    BY <1>1 DEF SendDatagram
  <2> QED BY <2>1, <2>2, ReceiverStays
<1>2. CASE \E size \in PeerPayloads : SendDatagram(size, "peer")
  BY <1>1, <1>2, StackAssumption
<1>3. CASE \E size \in OtherPayloads : SendDatagram(size, "other")
  BY <1>1, <1>3, StackAssumption
<1>4. CASE \E outcome \in {"sent", "waiting", "failed"} : SendFragment(outcome)
  <2>1. PICK outcome \in {"sent", "waiting", "failed"} : SendFragment(outcome)
    BY <1>4
  <2>2. SendingInv' /\ Grown
    BY <2>1, SendFragmentKeeps
  <2>3. UNCHANGED <<table, received>>
    BY <2>1 DEF SendFragment
  <2> QED BY <2>2, <2>3, ReceiverStays
<1>5. CASE \E sent, failed \in SUBSET Queue!Waits : Settle(sent, failed)
  <2>1. PICK sent \in SUBSET Queue!Waits, failed \in SUBSET Queue!Waits :
            Settle(sent, failed)
    BY <1>5
  <2>2. SendingInv' /\ Grown
    BY <2>1, SettleKeeps
  <2>3. UNCHANGED <<table, received>>
    BY <2>1 DEF Settle
  <2> QED BY <2>2, <2>3, ReceiverStays
<1>6. CASE \E n \in Queue!Frame, form \in Form : ReceiveFrame(n, form)
  BY <1>6, ReceiveFrameKeeps
<1>7. CASE Tick
  BY <1>7, TickKeeps
<1>8. CASE UNCHANGED vars
  <2>1. UNCHANGED <<sender, status>> /\ UNCHANGED <<table, received>>
    BY <1>8 DEF vars
  <2> QED BY <2>1, SenderStays, ReceiverStays
<1> QED BY <1>2, <1>3, <1>4, <1>5, <1>6, <1>7, <1>8 DEF Next

\* The invariant holds in every state, whatever the resolver and the wire do.
THEOREM StackCorrect == Spec => []StackInv
<1>1. SendingInv /\ ReceivingInv /\ [Next]_vars => SendingInv' /\ ReceivingInv'
  BY StackNext
<1>2. SendingInv /\ ReceivingInv => StackInv
  BY DEF SendingInv, ReceivingInv, StackInv
<1>3. Spec => [](SendingInv /\ ReceivingInv)
  BY <1>1, StackInit, PTL DEF Spec
<1> QED BY <1>2, <1>3, PTL

\* The bytes a packet carries, as the properties write them.
LEMMA CoveredIs ==
    ASSUME NEW n, packets[n] \in PacketType, NEW k \in Int
    PROVE  k \in Covered(n) <=> Begin(packets[n]) <= k /\ k < End(packets[n])
<1> DEFINE b == packets[n].offset * Unit
           l == packets[n].length
<1>1. b \in Nat /\ l \in Nat /\ Begin(packets[n]) = b /\ End(packets[n]) = b + l
  BY PacketEnds DEF Begin, End
<1>2. Covered(n) = {b + j : j \in 0 .. (l - 1)}
  BY DEF Covered
<1> HIDE DEF b, l
<1>3. ASSUME b <= k, k < b + l PROVE k \in Covered(n)
  <2>1. k - b \in 0 .. (l - 1) /\ k = b + (k - b)
    BY <1>1, <1>3
  <2> QED BY <1>2, <2>1
<1>4. ASSUME k \in Covered(n) PROVE b <= k /\ k < b + l
  BY <1>1, <1>2, <1>4
<1> QED BY <1>1, <1>3, <1>4

\* Two packets of a datagram: the earlier one is not the last and ends before
\* the other begins.
LEMMA PacketOrder ==
    ASSUME StackInv, NEW n \in 1 .. Len(packets), NEW o \in 1 .. Len(packets),
           packets[n].datagram = packets[o].datagram, n # o
    PROVE  \/ packets[n].more /\ End(packets[n]) <= Begin(packets[o])
           \/ packets[o].more /\ End(packets[o]) <= Begin(packets[n])
<1>1. n < o \/ o < n
  OBVIOUS
<1>2. n < o => InSequence(packets[n], packets[o])
  BY DEF StackInv, PacketsInv
<1>3. o < n => InSequence(packets[o], packets[n])
  BY DEF StackInv, PacketsInv
<1> QED BY <1>1, <1>2, <1>3 DEF InSequence
\* Numbers with the same remainder are a multiple apart.
LEMMA EqualRemainders ==
    ASSUME NEW n \in Nat, n > 0, NEW a \in Int, NEW b \in Int, a % n = b % n
    PROVE  (a - b) % n = 0
<1>1. PICK q \in Int : a = n * q + (a % n)
  BY Division
<1>2. PICK r \in Int : b = n * r + (b % n)
  BY Division
<1>3. a % n \in Int
  BY Division
<1> DEFINE x == a % n
<1> HIDE DEF x
<1>4. a = n * q + x /\ b = n * r + x /\ x \in Int
  BY <1>1, <1>2, <1>3 DEF x
<1>5. n * q - n * r = n * (q - r) /\ n * q \in Int /\ n * r \in Int
  OBVIOUS
<1>6. a - b = n * (q - r) + 0 /\ 0 \in 0 .. (n - 1) /\ q - r \in Int
  BY <1>4, <1>5
<1> QED BY <1>6, Remainder

\* What the sequences of packets and results hold.
LEMMA StackTypes ==
    ASSUME StackInv
    PROVE  /\ DOMAIN packets = 1 .. Len(packets) /\ DOMAIN result = 1 .. Len(result)
           /\ \A n \in 1 .. Len(packets) : packets[n] \in PacketType /\ PacketOK(packets[n])
<1>1. packets \in Seq(PacketType) /\ result \in Seq(Returned)
  BY DEF StackInv, PacketsInv, SenderInv
<1>2. DOMAIN packets = 1 .. Len(packets) /\ DOMAIN result = 1 .. Len(result)
  BY <1>1
<1>3. \A n \in 1 .. Len(packets) : packets[n] \in PacketType
  BY <1>1
<1> QED BY <1>2, <1>3 DEF StackInv, PacketsInv

\* The invariant says of an accepted datagram what send_datagram promises.
LEMMA AcceptedFollows == ASSUME StackInv PROVE AcceptedIsTransmitted
<1>1. /\ DOMAIN packets = 1 .. Len(packets) /\ DOMAIN result = 1 .. Len(result)
      /\ \A n \in 1 .. Len(packets) : packets[n] \in PacketType /\ PacketOK(packets[n])
  BY StackTypes
<1>2. ASSUME NEW n \in DOMAIN packets PROVE Header + packets[n].length <= Mtu
  <2>1. packets[n].length \in Nat /\ packets[n].length <= Mtu - Header
    BY <1>1 DEF PacketType, PacketOK, MtuPayload
  <2> QED BY <2>1, StackAssumption
<1>3. ASSUME NEW d \in DOMAIN result, result[d] = "accepted"
      PROVE  /\ \A n \in PacketsOf(d) : status[n] = "sent"
             /\ \E n \in PacketsOf(d) : ~packets[n].more
  <2>1. Transmitted(d)
    BY <1>1, <1>3 DEF StackInv, ResultInv
  <2> QED BY <1>1, <2>1 DEF Transmitted, PacketsOf
<1>4. ASSUME NEW d, NEW n \in PacketsOf(d), NEW o \in PacketsOf(d), n # o
      PROVE  Covered(n) \cap Covered(o) = {}
  <2>1. /\ n \in 1 .. Len(packets) /\ o \in 1 .. Len(packets)
        /\ packets[n].datagram = packets[o].datagram
    BY <1>1 DEF PacketsOf
  <2>2. packets[n] \in PacketType /\ packets[o] \in PacketType
    BY <1>1, <2>1
  <2>3. End(packets[n]) <= Begin(packets[o]) \/ End(packets[o]) <= Begin(packets[n])
    BY <1>4, <2>1, PacketOrder
  <2>4. /\ Begin(packets[n]) \in Nat /\ End(packets[n]) \in Nat
        /\ Begin(packets[o]) \in Nat /\ End(packets[o]) \in Nat
    BY <2>2, PacketEnds
  <2>5. ASSUME NEW k \in Covered(n), k \in Covered(o) PROVE FALSE
    <3>1. k \in Int
      <4>1. packets[n].offset * Unit \in Int
        BY <2>4 DEF Begin
      <4>2. packets[n].length \in Nat
        BY <2>2, PacketEnds
      <4> HIDE DEF PacketType
      <4> QED BY <2>5, <4>1, <4>2 DEF Covered
    <3>2. Begin(packets[n]) <= k /\ k < End(packets[n])
      BY <2>2, <3>1, CoveredIs
    <3>3. Begin(packets[o]) <= k /\ k < End(packets[o])
      BY <2>2, <2>5, <3>1, CoveredIs
    <3> QED BY <2>3, <2>4, <3>1, <3>2, <3>3
  <2> QED BY <2>5
<1>5. ASSUME NEW d, NEW n \in PacketsOf(d), packets[n].offset # 0
      PROVE  \E o \in PacketsOf(d) : packets[n].offset * Unit - 1 \in Covered(o)
  <2>1. n \in 1 .. Len(packets) /\ packets[n].datagram = d
    BY <1>1 DEF PacketsOf
  <2>2. n > 1 /\ Continues(packets[n - 1], packets[n])
    BY <1>5, <2>1 DEF StackInv, PacketsInv
  <2>3. n - 1 \in 1 .. Len(packets) /\ n - 1 < n
    BY <2>1, <2>2
  <2>4. packets[n - 1].datagram = d /\ End(packets[n - 1]) = Begin(packets[n])
    BY <2>1, <2>2 DEF Continues
  <2>5. packets[n - 1].more
    <3>1. InSequence(packets[n - 1], packets[n])
      BY <2>1, <2>3 DEF StackInv, PacketsInv
    <3> QED BY <2>1, <2>4, <3>1 DEF InSequence
  <2>6. packets[n - 1] \in PacketType /\ packets[n - 1].length > 0
    BY <1>1, <2>3, <2>5 DEF PacketOK
  <2>7. /\ Begin(packets[n - 1]) \in Nat /\ packets[n - 1].length \in Nat
        /\ End(packets[n - 1]) = Begin(packets[n - 1]) + packets[n - 1].length
    BY <2>6, PacketEnds
  <2>8. Begin(packets[n]) - 1 \in Covered(n - 1)
    <3>1. /\ Begin(packets[n]) - 1 \in Int
          /\ Begin(packets[n - 1]) <= Begin(packets[n]) - 1
          /\ Begin(packets[n]) - 1 < End(packets[n - 1])
      BY <2>4, <2>6, <2>7
    <3> QED BY <2>6, <3>1, CoveredIs
  <2>9. n - 1 \in PacketsOf(d)
    BY <1>1, <2>3, <2>4 DEF PacketsOf
  <2> QED BY <2>8, <2>9 DEF Begin
<1> QED BY <1>2, <1>3, <1>4, <1>5 DEF AcceptedIsTransmitted

\* send_datagram's answer "accepted" is true for every payload, MTU and unit:
\* every fragment is on the wire, and they divide the payload between them.
THEOREM AcceptedAreTransmitted == Spec => []AcceptedIsTransmitted
<1>1. StackInv => AcceptedIsTransmitted
  BY AcceptedFollows
<1> QED BY <1>1, StackCorrect, PTL

\* Packets of the datagram of a byte or an end that was sent.
LEMMA SentIsPacket ==
    ASSUME StackInv, NEW n \in 1 .. Len(packets), NEW d, NEW key, SentTo(n, d, key)
    PROVE  /\ n \in PacketsOf(d) /\ packets[n] \in PacketType
           /\ key = (d - 1) % Identifications
           /\ \A o \in PacketsOf(d) : packets[o].destination = "peer"
<1>1. /\ DOMAIN packets = 1 .. Len(packets)
      /\ \A o \in 1 .. Len(packets) : packets[o] \in PacketType /\ PacketOK(packets[o])
  BY StackTypes
<1>2. /\ packets[n].destination = "peer" /\ packets[n].datagram = d
      /\ packets[n].id = key
  BY DEF SentTo
<1>3. key = (d - 1) % Identifications
  BY <1>1, <1>2 DEF PacketOK
<1>4. ASSUME NEW o \in PacketsOf(d) PROVE packets[o].destination = "peer"
  <2>1. o \in 1 .. Len(packets) /\ packets[o].datagram = d
    BY <1>1 DEF PacketsOf
  <2>2. o < n \/ n < o \/ o = n
    BY <2>1
  <2>3. n < o => InSequence(packets[n], packets[o])
    BY <2>1 DEF StackInv, PacketsInv
  <2>4. o < n => InSequence(packets[o], packets[n])
    BY <2>1 DEF StackInv, PacketsInv
  <2> QED BY <1>2, <2>1, <2>2, <2>3, <2>4 DEF InSequence
<1> QED BY <1>1, <1>2, <1>3, <1>4 DEF PacketsOf

\* The last packet of a datagram ends after all the others.
LEMMA LastEndsLast ==
    ASSUME StackInv, NEW l \in 1 .. Len(packets), ~packets[l].more,
           NEW n \in PacketsOf(packets[l].datagram)
    PROVE  n = l \/ End(packets[n]) <= Begin(packets[l])
<1>1. n \in 1 .. Len(packets) /\ packets[n].datagram = packets[l].datagram
  BY StackTypes DEF PacketsOf
<1> QED BY <1>1, PacketOrder

\* The invariant says of the payload the callback got that it was sent.
LEMMA WholeFollows == ASSUME StackInv PROVE WholeUnlessReused
<1>1. PICK key \in Identification : \A d \in received.from :
          \E n \in 1 .. Len(packets) : SentTo(n, d, key)
  BY DEF StackInv, PayloadSent
<1>2. DOMAIN packets = 1 .. Len(packets) /\ received.from \subseteq Datagram
      /\ received.length \in Nat
  BY StackTypes DEF StackInv, PayloadSent
<1>3. ASSUME NEW d \in received.from, NEW n \in DOMAIN packets, packets[n].datagram = d
      PROVE  packets[n].destination = "peer"
  <2>1. PICK m \in 1 .. Len(packets) : SentTo(m, d, key)
    BY <1>1
  <2>2. n \in PacketsOf(d)
    BY <1>3 DEF PacketsOf
  <2> QED BY <2>1, <2>2, SentIsPacket
<1>4. ASSUME NEW d \in received.from, NEW e \in received.from
      PROVE  (d - e) % Identifications = 0
  <2>1. PICK m \in 1 .. Len(packets) : SentTo(m, d, key)
    BY <1>1
  <2>2. PICK o \in 1 .. Len(packets) : SentTo(o, e, key)
    BY <1>1
  <2>3. (d - 1) % Identifications = (e - 1) % Identifications
    <3>1. key = (d - 1) % Identifications
      BY <2>1, SentIsPacket
    <3>2. key = (e - 1) % Identifications
      BY <2>2, SentIsPacket
    <3> QED BY <3>1, <3>2
  <2>4. d \in Int /\ e \in Int /\ d - 1 \in Int /\ e - 1 \in Int
        /\ (d - 1) - (e - 1) = d - e
    BY <1>2, StackAssumption DEF Datagram
  <2>5. Identifications \in Nat /\ Identifications > 0
    BY StackAssumption
  <2>6. ((d - 1) - (e - 1)) % Identifications = 0
    BY <2>3, <2>4, <2>5, EqualRemainders
  <2> QED BY <2>4, <2>6
<1>5. ASSUME NEW d \in received.from, received.from = {d}
      PROVE  /\ UNION {Covered(n) : n \in PacketsOf(d)} = 0 .. (received.length - 1)
             /\ \E n \in PacketsOf(d) : ~packets[n].more
  <2>1. PICK j \in Identification :
            /\ TellsEnd(d, j, received.length)
            /\ \A k \in 0 .. (received.length - 1) : CarriesByte(d, j, k)
    BY <1>5 DEF StackInv, PayloadSent
  <2>2. PICK l \in 1 .. Len(packets) :
            SentTo(l, d, j) /\ ~packets[l].more /\ End(packets[l]) = received.length
    BY <2>1 DEF TellsEnd
  <2>3. l \in PacketsOf(d) /\ packets[l].datagram = d /\ packets[l] \in PacketType
    BY <2>2, SentIsPacket DEF SentTo
  <2>4. ASSUME NEW k \in 0 .. (received.length - 1)
        PROVE  \E n \in PacketsOf(d) : k \in Covered(n)
    <3>1. PICK n \in 1 .. Len(packets) :
              SentTo(n, d, j) /\ Begin(packets[n]) <= k /\ k < End(packets[n])
      BY <2>1 DEF CarriesByte
    <3>2. n \in PacketsOf(d) /\ packets[n] \in PacketType
      BY <3>1, SentIsPacket
    <3>3. k \in Int
      BY <1>2
    <3>4. k \in Covered(n)
      BY <3>1, <3>2, <3>3, CoveredIs
    <3> QED BY <3>2, <3>4
  <2>5. ASSUME NEW n \in PacketsOf(d), NEW k \in Covered(n)
        PROVE  k \in 0 .. (received.length - 1)
    <3>1. packets[n] \in PacketType
      BY StackTypes DEF PacketsOf
    <3>2. /\ Begin(packets[n]) \in Nat /\ End(packets[n]) \in Nat
          /\ packets[n].length \in Nat /\ packets[n].offset * Unit \in Nat
      BY <3>1, PacketEnds DEF Begin
    <3>3. k \in Int
      BY <2>5, <3>2 DEF Covered
    <3>4. Begin(packets[n]) <= k /\ k < End(packets[n])
      BY <2>5, <3>1, <3>3, CoveredIs
    <3>5. n = l \/ End(packets[n]) <= Begin(packets[l])
      BY <2>2, <2>3, LastEndsLast
    <3>6. /\ Begin(packets[l]) \in Nat /\ packets[l].length \in Nat
          /\ End(packets[l]) = Begin(packets[l]) + packets[l].length
      BY <2>3, PacketEnds
    <3> QED BY <1>2, <2>2, <3>2, <3>3, <3>4, <3>5, <3>6
  <2> QED BY <2>2, <2>3, <2>4, <2>5
<1> QED BY <1>3, <1>4, <1>5 DEF WholeUnlessReused

\* Whatever the wire loses, repeats, reorders or damages, a payload that
\* reaches the callback is one whole datagram sent to this host, or the 16-bit
\* identification came round between the datagrams its bytes are of.
THEOREM DeliveredAreWhole == Spec => []WholeUnlessReused
<1>1. StackInv => WholeUnlessReused
  BY WholeFollows
<1> QED BY <1>1, StackCorrect, PTL

\* The refused fragment is missing in what was sent.
LEMMA RefusedFollows == ASSUME StackInv PROVE RefusedNeverDelivered
<1> SUFFICES ASSUME NEW d \in DOMAIN result,
                    result[d] \notin {"accepted", "queued_for_arp"}, received.from = {d}
             PROVE  FALSE
  BY DEF RefusedNeverDelivered
<1>1. /\ DOMAIN packets = 1 .. Len(packets) /\ DOMAIN result = 1 .. Len(result)
      /\ \A n \in 1 .. Len(packets) : packets[n] \in PacketType /\ PacketOK(packets[n])
  BY StackTypes
<1>2. PICK j \in Identification :
          /\ TellsEnd(d, j, received.length)
          /\ \A k \in 0 .. (received.length - 1) : CarriesByte(d, j, k)
  BY DEF StackInv, PayloadSent
<1>3. PICK l \in 1 .. Len(packets) :
          SentTo(l, d, j) /\ ~packets[l].more /\ End(packets[l]) = received.length
  BY <1>2 DEF TellsEnd
<1>4. packets[l].datagram = d /\ status[l] = "sent" /\ packets[l] \in PacketType
  BY <1>1, <1>3 DEF SentTo
<1>5. Refused(d)
  BY <1>1 DEF StackInv, ResultInv
<1>6. PICK n \in 1 .. Len(packets) : packets[n].datagram = d /\ status[n] = "failed"
  BY <1>4, <1>5 DEF Refused
<1>7. n # l /\ n \in PacketsOf(d)
  BY <1>1, <1>4, <1>6 DEF PacketsOf
<1>8. packets[n].more /\ End(packets[n]) <= Begin(packets[l])
  BY <1>3, <1>4, <1>6, <1>7, PacketOrder
<1>9. packets[n] \in PacketType /\ packets[n].length > 0
  BY <1>1, <1>8 DEF PacketOK
<1>10. /\ Begin(packets[n]) \in Nat /\ Begin(packets[l]) \in Nat
       /\ packets[l].length \in Nat /\ packets[n].length \in Nat
       /\ End(packets[n]) = Begin(packets[n]) + packets[n].length
       /\ End(packets[l]) = Begin(packets[l]) + packets[l].length
  BY <1>4, <1>9, PacketEnds
<1>11. PICK k : k = Begin(packets[n])
  OBVIOUS
<1>12. k \in 0 .. (received.length - 1) /\ k < End(packets[n])
  BY <1>3, <1>8, <1>9, <1>10, <1>11
<1>13. PICK m \in 1 .. Len(packets) :
           SentTo(m, d, j) /\ Begin(packets[m]) <= k /\ k < End(packets[m])
  BY <1>2, <1>12 DEF CarriesByte
<1>14. m # n /\ packets[m].datagram = d /\ packets[m] \in PacketType
  BY <1>1, <1>6, <1>13 DEF SentTo
<1>15. End(packets[m]) <= Begin(packets[n]) \/ End(packets[n]) <= Begin(packets[m])
  BY <1>6, <1>14, PacketOrder
<1>16. Begin(packets[m]) \in Nat /\ End(packets[m]) \in Nat
  BY <1>14, PacketEnds
<1> QED BY <1>10, <1>11, <1>12, <1>13, <1>15, <1>16

\* A datagram that send_datagram refused is never delivered, although some of
\* its fragments were transmitted: the byte or the end that was refused is
\* missing in every frame that was sent.
THEOREM RefusedAreNotDelivered == Spec => []RefusedNeverDelivered
<1>1. StackInv => RefusedNeverDelivered
  BY RefusedFollows
<1> QED BY <1>1, StackCorrect, PTL
=============================================================================
