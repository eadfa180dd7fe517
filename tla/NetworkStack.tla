----------------------------- MODULE NetworkStack ---------------------------
(***************************************************************************)
(* Datagrams from one NetworkStack to another (src/net/network_stack.cpp,  *)
(* fragmentation.cpp, ipv4.cpp and link/ethernet.cpp): send_datagram       *)
(* splits the payload and gives each fragment to the resolver, the         *)
(* receiver checks, reassembles and delivers.                              *)
(*                                                                         *)
(* The sender's resolver is FrameQueue, which ArpResolver implements; the  *)
(* receiver's table is Reassembly.  The wire may lose a frame, repeat it   *)
(* at any time, reorder frames, damage a header, and bring frames meant    *)
(* for another host.  Byte n of a datagram is the pair of its              *)
(* identification and its number, at position n.                           *)
(***************************************************************************)
EXTENDS Integers, Sequences, FiniteSets

CONSTANTS PeerPayloads,    \* sizes of the datagrams sent to the receiver
          OtherPayloads,   \* sizes of the datagrams sent to another host
          DatagramBound,   \* bound on the send_datagram calls
          FrameBound,      \* bound on the fragments of all of them
          Identifications, \* number of identifications, 2^16
          Mtu, Header,     \* kIpv4HeaderBytes
          PendingPayload,  \* kArpMaximumPendingPayloadBytes
          MinimumPacket,   \* kEthernetMinimumFrameBytes - kEthernetHeaderBytes
          Unit, MaximumPayload, Capacity, MaximumHoles

ASSUME StackAssumption ==
    /\ Mtu \in Nat /\ Header \in Nat /\ Unit \in Nat \ {0}
    /\ Header + Unit <= Mtu
    /\ Identifications \in Nat \ {0}
    /\ PeerPayloads \subseteq Nat /\ OtherPayloads \subseteq Nat
    /\ DatagramBound \in Nat /\ FrameBound \in Nat
    /\ MaximumPayload \in Nat /\ Capacity \in Nat /\ MaximumHoles \in Nat

VARIABLES next,      \* identification.next_
          packets,   \* the packets given to queue_frame, in order
          status,    \* FrameQueue: what became of each of them
          sending,   \* the send_datagram call that is under way
          result,    \* what send_datagram returned, per datagram
          slots, arrived, delivered,   \* Reassembly
          ends,      \* the datagram whose last fragment told a slot its length
          received   \* the payload the receiver's callback got last: its length
                     \* and the datagrams its bytes and its length are of

Datagram == 1 .. DatagramBound

Queue == INSTANCE FrameQueue
\* The table keeps no ages here: Tick chooses the slots that are overdue.
Table == INSTANCE Reassembly WITH Key <- 0 .. (Identifications - 1),
                                  Version <- Datagram, Timeout <- 0

sender == <<next, packets, sending, result>>
table == <<slots, arrived, delivered, ends>>
vars == <<sender, status, table, received>>

Idle == [active |-> FALSE]

Init == /\ next = 0
        /\ packets = <<>>
        /\ Queue!Init
        /\ sending = Idle
        /\ result = <<>>
        /\ Table!Init
        /\ ends = [i \in Table!SlotIndex |-> 0]
        /\ received = [length |-> 0, from |-> {}]
-----------------------------------------------------------------------------
(* send_datagram *)

MtuPayload == Mtu - Header

FragmentPayload == (MtuPayload \div Unit) * Unit

\* Size of the fragment that begins at this offset.
ChunkSize(size, offset) ==
    IF size <= MtuPayload THEN size
    ELSE IF size - offset < FragmentPayload THEN size - offset ELSE FragmentPayload

\* build_ipv4_packet on one chunk of the payload.  offset is the header field,
\* in units; length is the total length without the header.
BuildPacket(call) ==
    LET bytes == ChunkSize(call.size, call.offset)
    IN [datagram |-> call.datagram, destination |-> call.destination,
        id |-> call.id, offset |-> call.offset \div Unit, length |-> bytes,
        more |-> call.offset + bytes < call.size, checked |-> TRUE]

\* identification.next wraps around.
NextIdentification == (next + 1) % Identifications

\* send_datagram begins; a payload that no datagram can hold is refused.
SendDatagram(size, destination) ==
    /\ ~sending.active /\ Len(result) < DatagramBound
    /\ next' = NextIdentification
    /\ IF size > MaximumPayload
       THEN result' = Append(result, "payload_too_large") /\ UNCHANGED sending
       ELSE /\ sending' = [active |-> TRUE, datagram |-> Len(result) + 1, id |-> next,
                           destination |-> destination, size |-> size, offset |-> 0,
                           queued |-> FALSE]
            /\ UNCHANGED result
    /\ UNCHANGED <<packets, status, table, received>>

\* The statuses with which queue_frame refuses a packet.
Refusals(packet) == IF Header + packet.length > PendingPayload
                    THEN {"payload_too_large"} ELSE {"send_failed", "queue_full"}

\* arp_status_to_network on them.
ArpStatusToNetwork(reason) == IF reason = "queue_full" THEN "would_block" ELSE reason

Return(value) == result' = Append(result, value) /\ sending' = Idle

\* Mutant: a fragment that waits is reported as one that was transmitted.
SendQueuedForgets(call, outcome) == call.queued

SendQueued(call, outcome) == call.queued \/ outcome = "waiting"

\* Mutant: emit_fragment takes a fragment that waits for a refused one.
EmitRefusesQueued(packet, outcome) ==
    LET offset == sending.offset + packet.length
    IN \/ outcome # "sent" /\ Return("would_block")
       \/ /\ outcome = "sent" /\ offset < sending.size
          /\ sending' = [sending EXCEPT !.offset = offset]
          /\ UNCHANGED result
       \/ outcome = "sent" /\ offset >= sending.size /\ Return("accepted")

\* emit_fragment and what the loop of fragment_ipv4_payload does after it.
Emit(packet, outcome) ==
    LET offset == sending.offset + packet.length
        queued == SendQueued(sending, outcome)
    IN \/ /\ outcome = "failed"
          /\ \E reason \in Refusals(packet) : Return(ArpStatusToNetwork(reason))
       \/ /\ outcome # "failed" /\ offset < sending.size
          /\ sending' = [sending EXCEPT !.offset = offset, !.queued = queued]
          /\ UNCHANGED result
       \/ /\ outcome # "failed" /\ offset >= sending.size
          /\ Return(IF queued THEN "queued_for_arp" ELSE "accepted")

\* One fragment goes to queue_frame, which transmits it, keeps it or refuses it
\* (OfferAnswered does not occur: EthernetEndpoint::send_frame calls nobody back).
SendFragment(outcome) ==
    /\ sending.active
    /\ LET packet == BuildPacket(sending)
       IN /\ Header + packet.length > PendingPayload => outcome = "failed"
          /\ Len(packets) < FrameBound
          /\ packets' = Append(packets, packet)
          /\ Queue!Offer(Len(packets) + 1, outcome)
          /\ Emit(packet, outcome)
    /\ UNCHANGED <<next, table, received>>

\* The resolver learns the address or gives it up, between two calls.
Settle(sent, failed) ==
    /\ ~sending.active
    /\ sent \cup failed # {}
    /\ Queue!Settle(sent, failed)
    /\ UNCHANGED <<sender, table, received>>
-----------------------------------------------------------------------------
(* The receiver *)

\* Bytes behind the Ethernet header: build_ethernet_frame pads short frames.
FrameBytes(packet) == IF Header + packet.length < MinimumPacket
                      THEN MinimumPacket ELSE Header + packet.length

\* What may become of a packet on the wire: nothing, cut inside the Ethernet
\* header or inside the payload, a VLAN tag, a header in which bits are
\* flipped.  Other programs send packets of another type or protocol.
Form == {"intact", "short", "cut", "tagged", "damaged", "other_type", "other_protocol"}

OnWire(packet, form) ==
    [bytes |-> CASE form = "short" -> -1
                 [] form = "cut" -> Header + packet.length - 1
                 [] OTHER -> FrameBytes(packet),
     type |-> CASE form = "tagged" -> "vlan"
                [] form = "other_type" -> "ipv6"
                [] OTHER -> "ipv4",
     protocol |-> IF form = "other_protocol" THEN 17 ELSE 253,
     packet |-> IF form = "damaged"
                THEN [packet EXCEPT !.checked = FALSE, !.offset = 0, !.more = FALSE]
                ELSE packet]

\* parse_ipv4_packet
Parses(frame) == /\ Header <= frame.bytes
                 /\ Header + frame.packet.length <= frame.bytes
                 /\ frame.packet.checked

\* dispatch_frame
Dispatches(frame) == frame.bytes >= 0 /\ frame.type # "vlan"

\* The checks of receive_frame.
Accepts(frame) == /\ Dispatches(frame)
                  /\ frame.type = "ipv4"
                  /\ Parses(frame)
                  /\ frame.packet.destination = "peer"
                  /\ frame.protocol = 253

\* Mutant: the payload is all that follows the header, padding included.
PayloadBytesPadded(frame) == frame.bytes - Header

\* The payload of the parsed packet ends with the total length.
PayloadBytes(frame) == frame.packet.length

Fragmented(packet) == packet.more \/ packet.offset # 0

\* The fragment as insert sees it.
AsFragment(frame) ==
    [key |-> frame.packet.id, version |-> frame.packet.datagram,
     offset |-> frame.packet.offset * Unit, size |-> PayloadBytes(frame),
     more |-> frame.packet.more]

\* deliver calls the receiver's callback.
Deliver(length, datagrams) == received' = [length |-> length, from |-> datagrams]

\* The datagrams that told the slots their lengths, after a fragment of this
\* one; 0 for a slot that waits for its last fragment.
EndsAfter(datagram) ==
    [i \in Table!SlotIndex |-> IF ~slots'[i].known THEN 0
                               ELSE IF slots[i].known THEN ends[i] ELSE datagram]

\* The datagram that told slot i the length with which f completes it.
LengthFrom(i, f) == IF slots[i].known THEN ends[i] ELSE f.version

\* The table takes a fragment, drops it as malformed or for want of a slot.
Reassemble(f) ==
    \/ /\ f \in Table!Fragment
       /\ Table!Insert(f)
       /\ ends' = EndsAfter(f.version)
       /\ IF delivered' = Table!Nothing THEN UNCHANGED received
          ELSE Deliver(delivered'.length,
                       {LengthFrom(delivered'.slot, f)} \cup
                       {slots'[delivered'.slot].data[n][2] :
                            n \in Table!Span(0, delivered'.length)})
    \/ /\ f \notin Table!Fragment \/ Table!FindOrCreate(f.key) = {}
       /\ UNCHANGED <<table, received>>

\* receive_frame, for a frame that was transmitted at some time.
ReceiveFrame(n, form) ==
    /\ status[n] = "sent"
    /\ LET frame == OnWire(packets[n], form)
       IN \/ ~Accepts(frame) /\ UNCHANGED <<table, received>>
          \/ /\ Accepts(frame) /\ ~Fragmented(frame.packet)
             /\ Deliver(PayloadBytes(frame), {frame.packet.datagram})
             /\ UNCHANGED table
          \/ /\ Accepts(frame) /\ Fragmented(frame.packet)
             /\ Reassemble(AsFragment(frame))
    /\ UNCHANGED <<sender, status>>

\* tick: reassembly.sweep, which may find any of the incomplete datagrams
\* overdue.  The sender's half of tick is Settle.
Tick == /\ \E overdue \in SUBSET {i \in Table!SlotIndex : slots[i].active} :
               Table!SweepSlots(overdue)
        /\ ends' = EndsAfter(0)
        /\ UNCHANGED <<sender, status, received>>

Next ==
    \/ \E size \in PeerPayloads : SendDatagram(size, "peer")
    \/ \E size \in OtherPayloads : SendDatagram(size, "other")
    \/ \E outcome \in {"sent", "waiting", "failed"} : SendFragment(outcome)
    \/ \E sent, failed \in SUBSET Queue!Waits : Settle(sent, failed)
    \/ \E n \in Queue!Frame, form \in Form : ReceiveFrame(n, form)
    \/ Tick

Spec == Init /\ [][Next]_vars
-----------------------------------------------------------------------------
(* Properties *)

\* The packets of datagram d.
PacketsOf(d) == {n \in DOMAIN packets : packets[n].datagram = d}

\* The bytes a packet claims to carry.
Covered(n) == {packets[n].offset * Unit + k : k \in 0 .. (packets[n].length - 1)}

\* Whatever the wire does, a payload that reaches the callback is one whole
\* datagram sent to this host, from its first to its last byte and without
\* padding; datagrams are mixed up only if the 16-bit identification came
\* round between them (no checksum covers the payload).
WholeUnlessReused ==
    /\ \A d \in received.from, n \in DOMAIN packets :
           packets[n].datagram = d => packets[n].destination = "peer"
    /\ \A d, e \in received.from : (d - e) % Identifications = 0
    /\ \A d \in received.from : received.from = {d} =>
           /\ UNION {Covered(n) : n \in PacketsOf(d)} = 0 .. (received.length - 1)
           /\ \E n \in PacketsOf(d) : ~packets[n].more

\* A datagram that send_datagram refused is never delivered, although the
\* fragments before the refused one were transmitted: the transport may send
\* the segment again.
RefusedNeverDelivered ==
    \A d \in DOMAIN result :
        result[d] \notin {"accepted", "queued_for_arp"} => received.from # {d}

\* Every packet fits the MTU; accepted means that every fragment is on the
\* wire, and together they carry each byte once, at the position the receiver
\* computes from the header.
AcceptedIsTransmitted ==
    /\ \A n \in DOMAIN packets : Header + packets[n].length <= Mtu
    /\ \A d \in DOMAIN result :
           result[d] = "accepted" =>
               /\ \A n \in PacketsOf(d) : status[n] = "sent"
               /\ \E n \in PacketsOf(d) : ~packets[n].more
               /\ \A n, o \in PacketsOf(d) : n # o => Covered(n) \cap Covered(o) = {}
               /\ \A n \in PacketsOf(d) : packets[n].offset = 0 \/
                      \E o \in PacketsOf(d) : packets[n].offset * Unit - 1 \in Covered(o)
=============================================================================
