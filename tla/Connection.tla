----------------------------- MODULE Connection -----------------------------
(***************************************************************************)
(* One endpoint of the transport (src/transport/connection.cpp): what each *)
(* public operation of Connection does to its state.  An operation is an   *)
(* operator from the endpoint record (and its arguments) to the new        *)
(* record; the field out collects the segments it transmits.               *)
(* The transmit callback may fail; the code then only counts and reports   *)
(* the failure and goes on as if the segment had been sent, so a failed    *)
(* transmission is a lost segment, and loss is the network's business.     *)
(* Time is an input of the code (now_ns); the three deadlines Tick         *)
(* compares it with are represented by three Boolean inputs.  This covers  *)
(* every value the round-trip estimator (src/transport/rto.cpp) can yield. *)
(***************************************************************************)
EXTENDS StateMachine, FastRetransmit, ReceiveRanges, Congestion

CONSTANTS PoolBuffers,     \* config.packet_pool_buffers
          MaxWindow        \* largest advertised window, 65535 in the code

ASSUME ConnectionAssumption ==
    /\ {Mss, MaxCwnd, MaxWindow, PoolBuffers, ReceiveCapacity,
        RetransmissionCapacity, MaxSackBlocks, DuplicateAckThreshold} \subseteq Nat \ {0}
    /\ Mss <= MaxCwnd

\* Nothing to retransmit: remembered_control_bytes = 0.
NoControl == [flags |-> {}]

NewConnection(initial_send, initial_receive) ==
    [state |-> "closed", reset_sent |-> FALSE, control |-> NoControl,
     queue |-> <<>>, next_send |-> initial_send, oldest |-> initial_send,
     fast |-> NewFastRetransmit(initial_send), congestion |-> NewCongestion,
     peer_window |-> MaxWindow, tx_free |-> PoolBuffers,
     ranges |-> {}, ack |-> initial_receive,
     slots |-> {}, delivery |-> initial_receive, rx_free |-> ReceiveCapacity,
     receive_drop |-> FALSE, delivered |-> <<>>, out |-> {}]

\* Mutant: advertises the largest window whatever the pool holds.
AdvertisedMaximum(c) == MaxWindow

AdvertisedWindow(c) == Min({c.rx_free * Mss, MaxWindow})

\* make_header and the payload behind it.  The payload is identified by the
\* number its sender gave it; length 0 is a segment without payload.
MakeSegment(c, flags, length, data) ==
    [sequence |-> c.next_send, ack |-> c.ack, flags |-> flags,
     window |-> AdvertisedWindow(c), sacks |-> GenerateSacks(c.ranges, c.ack),
     length |-> length, data |-> data]

\* transmit_bytes
Transmit(c, s) == [c EXCEPT !.out = @ \cup {s}]

\* send_control; a remembered segment is kept for tick to repeat.
TransmitControl(c, s, remember) ==
    Transmit([c EXCEPT !.control = IF remember THEN s ELSE @], s)

SendControl(c, flags, remember) ==
    TransmitControl(c, MakeSegment(c, flags, 0, 0), remember)

-----------------------------------------------------------------------------
\* perform_actions on the result of Handle.
ActionFlags(actions) ==
    UNION {CASE a = "send_syn" -> {"SYN"}
             [] a = "send_ack" -> {"ACK"}
             [] a = "send_fin" -> {"FIN", "ACK"}
             [] a = "send_rst" -> {"RST"}
             [] OTHER -> {} : a \in actions}

\* Mutant: the FIN is not remembered.
SendFinOnce(c, flags) ==
    IF flags = {} THEN c ELSE SendControl(c, flags, "SYN" \in flags)

SendFlags(c, flags) ==
    IF flags = {} THEN c
    ELSE SendControl(c, flags, flags \cap {"SYN", "FIN"} # {})

PerformActions(t) ==
    [SendFlags(t.c, ActionFlags(t.actions)) EXCEPT
        !.control = IF t.actions \cap {"notify_connected", "notify_closed"} # {}
                    THEN NoControl ELSE @]

Connect(c) == PerformActions(Handle(c, "app_connect"))
Close(c)   == PerformActions(Handle(c, "app_close"))

-----------------------------------------------------------------------------
\* send: CanSend holds exactly when it returns SendStatus::accepted.
FlightBytes(c) == SeqSub(c.next_send, c.oldest)

CanSend(c, length) ==
    /\ c.state = "established"
    /\ length \in 1 .. Mss
    /\ SendAllowance(c.congestion, FlightBytes(c), c.peer_window) >= length
    /\ c.tx_free > 0
    /\ CanEnqueue(c.queue, c.next_send)

Retain(c, s) ==
    [c EXCEPT !.tx_free = @ - 1,
              !.next_send = SeqAdd(@, s.length),
              !.queue = Append(@, [start |-> s.sequence,
                                   end |-> SeqAdd(s.sequence, s.length),
                                   segment |-> s,
                                   retransmitted |-> FALSE, sacked |-> FALSE])]

SendSegment(c, s) == Transmit(Retain(c, s), s)
Send(c, length, data) == SendSegment(c, MakeSegment(c, {"ACK"}, length, data))

-----------------------------------------------------------------------------
\* process_ack, first part: a cumulative ACK that makes progress releases
\* the prefix it covers.
AcknowledgeProgress(c, ack) ==
    IF ~SequenceGreater(ack, c.oldest) THEN c
    ELSE [c EXCEPT !.queue = Acknowledge(@, ack),
                   !.tx_free = @ + AckedPrefix(c.queue, ack),
                   !.oldest = ack,
                   !.congestion = CongestionOnRecoveryAck(
                       CongestionOnAck(@, SeqSub(ack, c.oldest)), ack)]

\* process_ack, last part: act on the fast-retransmit decision d.
ApplyDecision(c, d) ==
    IF d.resend = 0 THEN [c EXCEPT !.fast = d.f, !.queue = d.q]
    ELSE [c EXCEPT !.fast = d.f, !.queue = d.q,
                   !.congestion = CongestionOnLoss(@, "sack_fast_recovery",
                                      FlightBytes(c), d.q[Len(d.q)].end),
                   !.out = @ \cup {d.q[d.resend].segment}]

Scoreboard(c, s) ==
    ApplyDecision(c, FastOnAck(c.fast, s.ack, ApplySacks(c.queue, s.sacks)))

ProcessAck(c, s) ==
    IF SequenceGreater(s.ack, c.next_send)
    THEN [c EXCEPT !.peer_window = s.window]
    ELSE Scoreboard(AcknowledgeProgress([c EXCEPT !.peer_window = s.window], s.ack), s)

-----------------------------------------------------------------------------
\* process_payload and its helpers.  A receive slot is [start, end, data].
OverlapsReceived(c, start, end) ==
    \E slot \in c.slots : /\ SequenceLess(start, slot.end)
                          /\ SequenceLess(slot.start, end)

\* deliver_contiguous: hand over the slots that follow one another from
\* delivery on.  The loop stops at the first point where no slot starts.
DeliveryStop(c) ==
    Earliest(c.delivery,
        {p \in {c.delivery} \cup {slot.end : slot \in c.slots} :
            /\ SequenceLessEqual(c.delivery, p)
            /\ \A slot \in c.slots : slot.start # p})

Ready(c, stop) == {slot \in c.slots : /\ SequenceLessEqual(c.delivery, slot.start)
                                      /\ SequenceLess(slot.start, stop)}

\* The i-th slot in order of start is the one with i - 1 before it.
Before(slots, slot) == {s \in slots : SequenceLess(s.start, slot.start)}
InOrder(slots) ==
    [i \in 1 .. Cardinality(slots) |->
        CHOOSE slot \in slots : Cardinality(Before(slots, slot)) = i - 1]

HandOver(c, ready, stop) ==
    [c EXCEPT !.slots = @ \ ready,
              !.rx_free = @ + Cardinality(ready),
              !.delivery = stop,
              !.delivered = @ \o [i \in 1 .. Cardinality(ready) |->
                                     InOrder(ready)[i].data]]

\* Mutants: slots beyond a hole are delivered too; buffers are not released.
DeliverHeld(c) ==
    HandOver(c, c.slots, Latest(c.delivery, {slot.end : slot \in c.slots}))

DeliverLeaks(c) ==
    [HandOver(c, Ready(c, DeliveryStop(c)), DeliveryStop(c)) EXCEPT
        !.rx_free = c.rx_free]

DeliverContiguous(c) == HandOver(c, Ready(c, DeliveryStop(c)), DeliveryStop(c))

\* The rest of process_payload once receive_ranges.insert has answered.
StoreRange(c, s, inserted) ==
    IF inserted.status # "accepted"
    THEN [c EXCEPT !.receive_drop = @ \/ inserted.status # "duplicate"]
    ELSE DeliverContiguous(
             [c EXCEPT !.ranges = inserted.ranges, !.ack = inserted.ack,
                       !.rx_free = @ - 1,
                       !.slots = @ \cup {[start |-> s.sequence,
                                          end |-> SeqAdd(s.sequence, s.length),
                                          data |-> s.data]}])

ReceivePayload(c, s, end) ==
    IF SequenceLessEqual(end, c.delivery) \/ OverlapsReceived(c, s.sequence, end)
    THEN c
    ELSE IF Cardinality(c.slots) = ReceiveCapacity \/ c.rx_free = 0
    THEN [c EXCEPT !.receive_drop = TRUE]
    ELSE StoreRange(c, s, InsertRange(c.ranges, c.ack, s.sequence, end))

\* Every path ends with an ACK.
ProcessPayload(c, s) ==
    SendControl(ReceivePayload(c, s, SeqAdd(s.sequence, s.length)), {"ACK"}, FALSE)

-----------------------------------------------------------------------------
\* process_control: the event a segment's flags raise in the current state.
ControlEvent(c, flags) ==
    IF "RST" \in flags THEN "receive_rst"
    ELSE IF {"SYN", "ACK"} \subseteq flags /\ c.state = "syn_sent"
         THEN "receive_syn_ack"
    ELSE IF "SYN" \in flags THEN "receive_syn"
    ELSE IF "FIN" \in flags THEN "receive_fin"
    ELSE IF /\ "ACK" \in flags
            /\ c.state \in {"syn_received", "fin_wait_1", "last_ack"}
         THEN "receive_ack"
    ELSE "none"

OnControlEvent(c, event) ==
    IF event = "none" THEN c
    ELSE IF event = "receive_syn" /\ c.state = "syn_received"
    THEN SendControl(c, {"SYN", "ACK"}, TRUE)
    ELSE PerformActions(Handle(c, event))

ProcessControl(c, flags) == OnControlEvent(c, ControlEvent(c, flags))

\* on_segment: ACK, then control, then payload.  Only segments that some
\* endpoint sent arrive, so the header always parses.
PayloadPart(c, s) == IF s.length > 0 /\ c.state = "established"
                     THEN ProcessPayload(c, s) ELSE c
AckPart(c, s) == IF "ACK" \in s.flags THEN ProcessAck(c, s) ELSE c

\* Mutant: a SYN restarts reception at its own sequence number.
OnSegmentAdoptsSyn(c, s) ==
    PayloadPart(ProcessControl(AckPart(
        IF "SYN" \in s.flags
        THEN [c EXCEPT !.ack = s.sequence, !.delivery = s.sequence]
        ELSE c, s), s.flags), s)

OnSegment(c, s) == PayloadPart(ProcessControl(AckPart(c, s), s.flags), s)

-----------------------------------------------------------------------------
\* tick: TIME_WAIT expiry, control retry, retransmission timeout, in order.
ExpireTimeWait(c, due) ==
    IF c.state = "time_wait" /\ due
    THEN PerformActions(Handle(c, "time_wait_expired")) ELSE c

RepeatControl(c, due) ==
    IF c.control # NoControl /\ due THEN Transmit(c, c.control) ELSE c

RetransmitTimeout(c, due) ==
    LET lowest == LowestUnsacked(c.queue)
    IN  IF lowest = 0 \/ ~due THEN c
        ELSE [c EXCEPT !.congestion =
                          CongestionOnLoss(@, "rto_timeout", FlightBytes(c),
                                           c.queue[Len(c.queue)].end),
                       !.queue = MarkRetransmitted(@, lowest),
                       !.out = @ \cup {c.queue[lowest].segment}]

Tick(c, time_wait_due, control_due, rto_due) ==
    RetransmitTimeout(RepeatControl(ExpireTimeWait(c, time_wait_due), control_due),
                      rto_due)
=============================================================================
