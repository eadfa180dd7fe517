------------------------------ MODULE Transport -----------------------------
(***************************************************************************)
(* Two connections joined by an unreliable datagram network: the system    *)
(* that tools/bench_runner.cpp runs on two hosts, where the event loop of  *)
(* each host calls on_segment for every datagram, tick between datagrams,  *)
(* and connect, send and close for the application.  Each call runs to     *)
(* completion on the host's single thread, so a call is one step; steps of *)
(* the two hosts interleave freely.                                        *)
(*                                                                         *)
(* The network (IPv4 over Ethernet) may lose, duplicate and reorder; it is *)
(* a set of segments per destination.                                      *)
(***************************************************************************)
EXTENDS Connection

CONSTANTS Client, Server,     \* the two endpoints
          InitialSequence,    \* initial_send_sequence of each endpoint
          Connectors,         \* endpoints whose application calls connect
          Closers,            \* endpoints whose application calls close
          Lengths,            \* payload lengths the applications send
          SendBound,          \* number of payloads each endpoint sends
          NetCapacity         \* bound on the segments under way to a host

Peers == {Client, Server}
Other(p) == IF p = Client THEN Server ELSE Client

ASSUME TransportAssumption ==
    /\ Client # Server
    /\ InitialSequence \in [Peers -> SeqNum]
    /\ Connectors \subseteq Peers /\ Closers \subseteq Peers
    /\ Lengths \subseteq 1 .. Mss
    /\ SendBound \in [Peers -> Nat]
    /\ NetCapacity \in Nat \ {0}

VARIABLES conn,       \* the two endpoint records
          net,        \* net[p]: segments under way to p
          accepted,   \* accepted[p]: payloads that p's send has accepted
          resets      \* resets[p]: RSTs p sent in this connection attempt

vars == <<conn, net, accepted, resets>>

NewEndpoint(p) == NewConnection(InitialSequence[p], InitialSequence[Other(p)])

Init == /\ conn = [p \in Peers |-> NewEndpoint(p)]
        /\ net = [p \in Peers |-> {}]
        /\ accepted = [p \in Peers |-> 0]
        /\ resets = [p \in Peers |-> 0]

\* An endpoint after a handshake in which nothing is lost.  The one ACK it got
\* repeats its initial number, which the duplicate-ACK counter counts.
Established(p) ==
    [NewEndpoint(p) EXCEPT !.state = "established",
                           !.fast.duplicates = 1,
                           !.peer_window = AdvertisedWindow(NewEndpoint(Other(p)))]

InitEstablished ==
    /\ conn = [p \in Peers |-> Established(p)]
    /\ net = [p \in Peers |-> {}]
    /\ accepted = [p \in Peers |-> 0]
    /\ resets = [p \in Peers |-> 0]

\* The state in which both applications have called connect.
InitBothOpening ==
    /\ conn = [p \in Peers |-> [Connect(NewEndpoint(p)) EXCEPT !.out = {}]]
    /\ net = [p \in Peers |-> Connect(NewEndpoint(Other(p))).out]
    /\ accepted = [p \in Peers |-> 0]
    /\ resets = [p \in Peers |-> 0]

\* Segments enter the network; when it overflows, what it carried is lost.
Carry(before, out) == IF Cardinality(before \cup out) <= NetCapacity
                      THEN before \cup out ELSE out

\* A new attempt starts when a closed machine leaves CLOSED.
CountResets(p, c) ==
    IF conn[p].state = "closed" /\ c.state # "closed" THEN 0
    ELSE Min({2, resets[p] + Cardinality({s \in c.out : "RST" \in s.flags})})

\* Endpoint p performed an operation that turned it into c, after the network
\* took the segments in gone off the way to p.
Perform(p, c, gone) ==
    /\ conn' = [conn EXCEPT ![p] = [c EXCEPT !.out = {}]]
    /\ resets' = [resets EXCEPT ![p] = CountResets(p, c)]
    /\ net' = [net EXCEPT ![p] = @ \ gone, ![Other(p)] = Carry(@, c.out)]

AppConnect(p) ==
    /\ p \in Connectors
    /\ Perform(p, Connect(conn[p]), {})
    /\ UNCHANGED accepted

AppClose(p) ==
    /\ p \in Closers
    /\ Perform(p, Close(conn[p]), {})
    /\ UNCHANGED accepted

AppSend(p) ==
    /\ accepted[p] < SendBound[p]
    /\ \E length \in Lengths :
          /\ CanSend(conn[p], length)
          /\ Perform(p, Send(conn[p], length, accepted[p] + 1), {})
    /\ accepted' = [accepted EXCEPT ![p] = @ + 1]

\* The network hands s to p and may keep a copy.
Receive(p, s, copy) ==
    /\ s \in net[p]
    /\ Perform(p, OnSegment(conn[p], s), IF copy THEN {} ELSE {s})
    /\ UNCHANGED accepted

\* Any Receive(p, s, copy); the operation is evaluated once for both.
ReceiveSegment(p) ==
    /\ \E s \in net[p] : \E c \in {OnSegment(conn[p], s)}, gone \in {{}, {s}} :
           Perform(p, c, gone)
    /\ UNCHANGED accepted

Lose(p) ==
    /\ \E s \in net[p] : net' = [net EXCEPT ![p] = @ \ {s}]
    /\ UNCHANGED <<conn, accepted, resets>>

TimerTick(p, time_wait_due, control_due, rto_due) ==
    /\ Perform(p, Tick(conn[p], time_wait_due, control_due, rto_due), {})
    /\ UNCHANGED accepted

\* A deadline that nothing waits for makes no difference to tick.
AnyTick(p) == \E t \in {FALSE, conn[p].state = "time_wait"},
                 c \in {FALSE, conn[p].control # NoControl},
                 r \in {FALSE, conn[p].queue # <<>>} : TimerTick(p, t, c, r)

Next == \E p \in Peers : \/ AppConnect(p) \/ AppClose(p) \/ AppSend(p)
                         \/ ReceiveSegment(p) \/ Lose(p) \/ AnyTick(p)

Spec == Init /\ [][Next]_vars
TransferSpec == InitEstablished /\ [][Next]_vars
-----------------------------------------------------------------------------
Segment == [sequence : SeqNum, ack : SeqNum,
            flags : SUBSET {"SYN", "ACK", "FIN", "RST"},
            window : 0 .. MaxWindow, sacks : SUBSET Block,
            length : 0 .. Mss, data : Nat]

\* The parts of an endpoint have the ranges their C++ types and capacities
\* allow: no table or pool is ever over-full or over-released.
TypeOK ==
    /\ \A p \in Peers : LET c == conn[p] IN
         /\ c.state \in ConnectionState /\ c.reset_sent \in BOOLEAN
         /\ c.control = NoControl \/ c.control \in Segment
         /\ Len(c.queue) <= RetransmissionCapacity
         /\ \A i \in DOMAIN c.queue : c.queue[i].segment \in Segment
         /\ {c.next_send, c.oldest, c.ack, c.delivery} \subseteq SeqNum
         /\ c.tx_free \in 0 .. PoolBuffers /\ c.rx_free \in 0 .. ReceiveCapacity
         /\ c.ranges \subseteq Block /\ Cardinality(c.ranges) <= ReceiveCapacity
         /\ c.peer_window \in 0 .. MaxWindow
         /\ c.congestion.cwnd \in Mss .. MaxCwnd
    /\ \A p \in Peers : net[p] \subseteq Segment
    /\ accepted \in [Peers -> Nat] /\ resets \in [Peers -> 0 .. 2]

-----------------------------------------------------------------------------
Held(p)      == {slot.data : slot \in conn[p].slots}
Delivered(p) == {conn[p].delivered[i] : i \in DOMAIN conn[p].delivered}

\* The receive callback gets the payloads the peer's send accepted, each once
\* and in order, whatever the network loses, repeats or reorders.
InOrderExactlyOnce ==
    \A p \in Peers : LET d == conn[p].delivered IN
        Len(d) <= accepted[Other(p)] /\ \A i \in DOMAIN d : d[i] = i

\* The two records of reception, the ranges that produce ACKs and the slots
\* that feed the application, agree: what is acknowledged has been delivered,
\* and the slots hold exactly the bytes of the stored ranges.
RangesMatchSlots ==
    \A p \in Peers : LET c == conn[p] IN
        /\ c.ack = c.delivery
        /\ \A n \in SeqNum :
              (\E r \in c.ranges : SequenceLessEqual(r.start, n) /\ SequenceLess(n, r.end))
              <=> (\E s \in c.slots : SequenceLessEqual(s.start, n) /\ SequenceLess(n, s.end))

\* A payload that send accepted and the peer neither delivered nor holds is
\* still retained, and still a candidate for retransmission: no ACK or SACK,
\* however old, releases or excludes a segment the peer lacks.
MissingIsRecoverable ==
    \A p \in Peers : \A d \in 1 .. accepted[p] :
        d \in Delivered(Other(p)) \cup Held(Other(p))
        \/ \E i \in DOMAIN conn[p].queue :
              conn[p].queue[i].segment.data = d /\ ~conn[p].queue[i].sacked

\* The oldest retained segment is never marked as SACKed, so a timeout always
\* finds something to send, and sends the hole the peer waits for.
HeadIsUnsacked ==
    \A p \in Peers : conn[p].queue # <<>> => ~conn[p].queue[1].sacked

\* With nothing outstanding neither loss-recovery controller is still inside
\* a recovery epoch, in which it would ignore the next loss.
RecoveryEndsWithFlight ==
    \A p \in Peers : conn[p].queue = <<>> =>
        ~conn[p].fast.in_recovery /\ ~conn[p].congestion.in_recovery

\* No path of the sender or the receiver leaks or double-counts a pool buffer.
BuffersAccounted ==
    \A p \in Peers : LET c == conn[p] IN
        /\ c.tx_free + Len(c.queue) = PoolBuffers
        /\ c.rx_free + Cardinality(c.slots) = ReceiveCapacity

\* A reset, a close or an undefined event ends an attempt but not the data:
\* when the same objects connect again, no payload was lost, repeated or made
\* unrecoverable and no buffer leaked in between.
DataSurvivesAttempts == InOrderExactlyOnce /\ MissingIsRecoverable /\ BuffersAccounted

\* A receiver never has to drop a segment its advertised window invited.
WindowIsHonoured == \A p \in Peers : ~conn[p].receive_drop

\* There is no window probe: an endpoint with nothing outstanding must be
\* able to send one full segment, or the connection is stuck for ever.
NeverWindowBlocked ==
    \A p \in Peers :
        conn[p].state = "established" /\ conn[p].queue = <<>>
            => CanSend(conn[p], Mss)

\* cwnd is cut again only after an ACK has crossed the recovery point of the
\* cut before it (ssthresh is MaxCwnd until the first one).
OneDecreasePerEpoch ==
    [][\A p \in Peers : LET g == conn[p].congestion IN
          conn'[p].congestion.cwnd < g.cwnd =>
              \/ g.ssthresh = MaxCwnd
              \/ SequenceLessEqual(g.recovery_point, conn[p].oldest)]_vars
-----------------------------------------------------------------------------
\* An endpoint sends at most one RST in a connection attempt, however many
\* undefined events, its own retries included, the attempt runs into.
AtMostOneReset == \A p \in Peers : resets[p] <= 1

\* The control segment tick repeats belongs to the phase the endpoint is in:
\* a SYN is not repeated once the handshake is over, nor a FIN before close.
\* (After an undefined event a CLOSED endpoint still repeats its last one.)
RetryMatchesState ==
    \A p \in Peers : LET c == conn[p] IN
        /\ "SYN" \in c.control.flags =>
              c.state \in {"syn_sent", "syn_received", "closed"}
        /\ "FIN" \in c.control.flags =>
              c.state \in {"fin_wait_1", "fin_wait_2", "time_wait",
                          "last_ack", "closed"}
        /\ c.state \in {"syn_sent", "syn_received", "fin_wait_1", "last_ack"} =>
              c.control # NoControl
-----------------------------------------------------------------------------
\* Fair scheduling and a fair-lossy network: the event loop of a sender keeps
\* calling tick, so a due timeout is acted on, and a segment that is under way
\* again and again (the oldest outstanding one; the newest ACK) gets there.
Senders == {p \in Peers : SendBound[p] > 0}

Wanted(p) == {s \in net[p] : s.length > 0 /\ s.sequence = conn[Other(p)].oldest}
Newest(p) == {s \in net[p] : s.ack = conn[Other(p)].ack}

\* Strong fairness of taking such a segment off the network, its enabling
\* condition written out: a segment that is under way can be received.
WantedArrives(p) == []<>(Wanted(p) # {})
                      => []<><<\E s \in Wanted(p) : Receive(p, s, FALSE)>>_vars
NewestArrives(p) == []<>(Newest(p) # {})
                      => []<><<\E s \in Newest(p) : Receive(p, s, FALSE)>>_vars

Fairness == \A p \in Senders : /\ WF_vars(TimerTick(p, FALSE, FALSE, TRUE))
                               /\ WantedArrives(Other(p))
                               /\ NewestArrives(p)

FairTransferSpec == TransferSpec /\ Fairness

\* Every payload that send accepts is delivered and acknowledged.
AllDelivered ==
    \A p \in Senders : \A d \in 1 .. SendBound[p] :
        accepted[p] >= d ~> (d \in Delivered(Other(p))
                             /\ \A i \in DOMAIN conn[p].queue :
                                   conn[p].queue[i].segment.data # d)
-----------------------------------------------------------------------------
\* Statements of the documents that the code does not keep.

\* src/transport/README.md: undefined pairs "close the connection, request one
\* RST at most for that connection attempt".  A closed endpoint has nothing
\* left to repeat.
ClosedRepeatsNothing ==
    \A p \in Peers : conn[p].state = "closed" => conn[p].control = NoControl

\* src/transport/README.md: "SYN_SENT | receive SYN | SYN_RECEIVED | send
\* SYN+ACK" and "SYN_RECEIVED | receive ACK | ESTABLISHED".  With ticks that
\* keep coming and SYN+ACKs that keep arriving, SYN_RECEIVED is left.
SynAcks(p) == {s \in net[p] : {"SYN", "ACK"} \subseteq s.flags}
OpenFairness ==
    \A p \in Peers :
        /\ WF_vars(TimerTick(p, FALSE, TRUE, FALSE))
        /\ []<>(SynAcks(p) # {})
             => []<><<\E s \in SynAcks(p) : Receive(p, s, FALSE)>>_vars
FairOpenSpec == InitBothOpening /\ [][Next]_vars /\ OpenFairness

SynReceivedIsLeft ==
    \A p \in Peers : conn[p].state = "syn_received" ~> conn[p].state # "syn_received"
=============================================================================
