---------------------------- MODULE TransportProofs -------------------------
(***************************************************************************)
(* Proofs about Transport for every value of its constants: what each      *)
(* operation of an endpoint leaves alone, the control segments it repeats, *)
(* the resets it sends, the buffers it owns and when its recovery epochs   *)
(* end; then that it delivers what was sent, that its types hold and that  *)
(* the windows it advertises are kept and stay open.                       *)
(***************************************************************************)
EXTENDS Transport, NumberFacts, FiniteSetTheorems, TLAPS

\* The fields of an endpoint, and that a value is a record with these fields.
Fields == {"state", "reset_sent", "control", "queue", "next_send", "oldest",
           "fast", "congestion", "peer_window", "tx_free", "ranges", "ack",
           "slots", "delivery", "rx_free", "receive_drop", "delivered", "out"}

IsEndpoint(c) == c = [f \in Fields |-> c[f]]

\* d has the same state machine, sender or receiver as c.
SameMachine(c, d) ==
    /\ d.state = c.state /\ d.reset_sent = c.reset_sent /\ d.control = c.control

SameSender(c, d) ==
    /\ d.queue = c.queue /\ d.next_send = c.next_send /\ d.oldest = c.oldest
    /\ d.fast = c.fast /\ d.congestion = c.congestion
    /\ d.peer_window = c.peer_window /\ d.tx_free = c.tx_free

SameReceiver(c, d) ==
    /\ d.ranges = c.ranges /\ d.ack = c.ack /\ d.slots = c.slots
    /\ d.delivery = c.delivery /\ d.rx_free = c.rx_free
    /\ d.receive_drop = c.receive_drop /\ d.delivered = c.delivered

-----------------------------------------------------------------------------
(* What each operation changes. *)

LEMMA NewConnectionIs ==
    ASSUME NEW a, NEW b
    PROVE  LET c == NewConnection(a, b) IN
           /\ IsEndpoint(c)
           /\ c.state = "closed" /\ c.reset_sent \in BOOLEAN /\ ~c.reset_sent
           /\ c.control = NoControl
           /\ c.queue = <<>> /\ c.next_send = a /\ c.oldest = a
           /\ c.fast = NewFastRetransmit(a) /\ c.congestion = NewCongestion
           /\ c.peer_window = MaxWindow /\ c.tx_free = PoolBuffers
           /\ c.ranges = {} /\ c.ack = b /\ c.slots = {} /\ c.delivery = b
           /\ c.rx_free = ReceiveCapacity
           /\ c.receive_drop \in BOOLEAN /\ ~c.receive_drop
           /\ c.delivered = <<>> /\ c.out = {}
  BY DEF NewConnection, IsEndpoint, Fields

LEMMA MakeSegmentIs ==
    ASSUME NEW c, NEW flags, NEW length, NEW data
    PROVE  LET s == MakeSegment(c, flags, length, data) IN
           /\ s.sequence = c.next_send /\ s.ack = c.ack /\ s.flags = flags
           /\ s.window = AdvertisedWindow(c)
           /\ s.sacks = GenerateSacks(c.ranges, c.ack)
           /\ s.length = length /\ s.data = data
  BY DEF MakeSegment

LEMMA TransmitControlIs ==
    ASSUME NEW c, IsEndpoint(c), NEW s, NEW remember
    PROVE  LET d == TransmitControl(c, s, remember) IN
           /\ IsEndpoint(d) /\ SameSender(c, d) /\ SameReceiver(c, d)
           /\ d.state = c.state /\ d.reset_sent = c.reset_sent
           /\ d.control = (IF remember THEN s ELSE c.control)
           /\ d.out = c.out \cup {s}
<1>1. IsEndpoint(TransmitControl(c, s, remember))
  BY DEF TransmitControl, Transmit, IsEndpoint, Fields
<1>2. SameSender(c, TransmitControl(c, s, remember))
  BY DEF TransmitControl, Transmit, IsEndpoint, Fields, SameSender
<1>3. SameReceiver(c, TransmitControl(c, s, remember))
  BY DEF TransmitControl, Transmit, IsEndpoint, Fields, SameReceiver
<1>4. LET d == TransmitControl(c, s, remember) IN
      /\ d.state = c.state /\ d.reset_sent = c.reset_sent
      /\ d.control = (IF remember THEN s ELSE c.control)
      /\ d.out = c.out \cup {s}
  BY DEF TransmitControl, Transmit, IsEndpoint, Fields
<1> QED BY <1>1, <1>2, <1>3, <1>4

\* What handle answers: an undefined pair, or a line of the table.
Outcome(c, event, t) ==
    \/ /\ t.c.state = "closed" /\ t.c.reset_sent = TRUE
       /\ t.actions = {"notify_error"} \cup
                      (IF c.reset_sent THEN {} ELSE {"send_rst"})
    \/ \E x \in kTransitions :
          /\ x[1] = c.state /\ x[2] = event
          /\ t.c.state = x[3] /\ t.actions = x[4]
          /\ t.c.reset_sent = (c.reset_sent /\
                ~(c.state = "closed" /\ event \in {"app_connect", "receive_syn"}))

LEMMA HandleIs ==
    ASSUME NEW c, IsEndpoint(c), NEW event
    PROVE  LET t == Handle(c, event) IN
           /\ IsEndpoint(t.c) /\ SameSender(c, t.c) /\ SameReceiver(c, t.c)
           /\ t.c.control = c.control /\ t.c.out = c.out
           /\ Outcome(c, event, t)
<1>1. CASE Defined(c.state, event)
  <2> DEFINE x == CHOOSE x \in kTransitions : x[1] = c.state /\ x[2] = event
             r == c.reset_sent /\
                  ~(c.state = "closed" /\ event \in {"app_connect", "receive_syn"})
             d == [c EXCEPT !.state = x[3], !.reset_sent = r]
  <2>1. Handle(c, event) = [c |-> d, actions |-> x[4], accepted |-> TRUE]
    BY <1>1 DEF Handle
  <2>2. x \in kTransitions /\ x[1] = c.state /\ x[2] = event
    BY <1>1 DEF Defined
  <2> HIDE DEF x, r
  <2>3. IsEndpoint(d) /\ SameSender(c, d)
    BY DEF IsEndpoint, Fields, SameSender
  <2>4. SameReceiver(c, d)
    BY DEF IsEndpoint, Fields, SameReceiver
  <2>5. d.control = c.control /\ d.out = c.out /\ d.state = x[3] /\ d.reset_sent = r
    BY DEF IsEndpoint, Fields
  <2> HIDE DEF d
  <2>6. Handle(c, event).c = d /\ Handle(c, event).actions = x[4]
    BY <2>1
  <2> QED BY <2>2, <2>3, <2>4, <2>5, <2>6 DEF r, Outcome
<1>2. CASE ~Defined(c.state, event)
  <2> DEFINE d == [c EXCEPT !.state = "closed", !.reset_sent = TRUE]
             a == {"notify_error"} \cup (IF c.reset_sent THEN {} ELSE {"send_rst"})
  <2>1. Handle(c, event) = [c |-> d, actions |-> a, accepted |-> FALSE]
    BY <1>2 DEF Handle
  <2>2. IsEndpoint(d) /\ SameSender(c, d)
    BY DEF IsEndpoint, Fields, SameSender
  <2>3. SameReceiver(c, d)
    BY DEF IsEndpoint, Fields, SameReceiver
  <2>4. /\ d.control = c.control /\ d.out = c.out
        /\ d.state = "closed" /\ d.reset_sent = TRUE
    BY DEF IsEndpoint, Fields
  <2> HIDE DEF d, a
  <2>5. Handle(c, event).c = d /\ Handle(c, event).actions = a
    BY <2>1
  <2> QED BY <1>2, <2>2, <2>3, <2>4, <2>5 DEF a, Outcome
<1> QED BY <1>1, <1>2

LEMMA PerformActionsIs ==
    ASSUME NEW t, IsEndpoint(t.c)
    PROVE  LET d     == PerformActions(t)
               flags == ActionFlags(t.actions)
               s     == MakeSegment(t.c, flags, 0, 0)
           IN
           /\ IsEndpoint(d) /\ SameSender(t.c, d) /\ SameReceiver(t.c, d)
           /\ d.state = t.c.state /\ d.reset_sent = t.c.reset_sent
           /\ d.out = IF flags = {} THEN t.c.out ELSE t.c.out \cup {s}
           /\ d.control =
                 IF t.actions \cap {"notify_connected", "notify_closed"} # {}
                 THEN NoControl
                 ELSE IF flags \cap {"SYN", "FIN"} # {} THEN s ELSE t.c.control
<1> DEFINE flags == ActionFlags(t.actions)
           s == MakeSegment(t.c, flags, 0, 0)
           e == SendFlags(t.c, flags)
           control == IF t.actions \cap {"notify_connected", "notify_closed"} # {}
                      THEN NoControl ELSE e.control
           d == [e EXCEPT !.control = control]
<1>1. /\ IsEndpoint(e) /\ SameSender(t.c, e) /\ SameReceiver(t.c, e)
      /\ e.state = t.c.state /\ e.reset_sent = t.c.reset_sent
      /\ e.out = (IF flags = {} THEN t.c.out ELSE t.c.out \cup {s})
      /\ e.control = IF flags \cap {"SYN", "FIN"} # {} THEN s ELSE t.c.control
  <2> HIDE DEF flags, s
  <2>1. CASE flags = {}
    BY <2>1 DEF SendFlags, SameSender, SameReceiver
  <2>2. CASE flags # {}
    <3> DEFINE remember == flags \cap {"SYN", "FIN"} # {}
    <3> HIDE DEF remember
    <3>1. e = TransmitControl(t.c, s, remember)
      BY <2>2 DEF SendFlags, SendControl, remember, s
    <3> HIDE DEF e
    <3>2. /\ IsEndpoint(e) /\ SameSender(t.c, e) /\ SameReceiver(t.c, e)
          /\ e.state = t.c.state /\ e.reset_sent = t.c.reset_sent
          /\ e.control = (IF remember THEN s ELSE t.c.control)
          /\ e.out = t.c.out \cup {s}
      BY <3>1, TransmitControlIs
    <3> QED BY <2>2, <3>2 DEF remember
  <2> QED BY <2>1, <2>2
<1>2. PerformActions(t) = d
  BY DEF PerformActions
<1> HIDE DEF e, flags, s
<1>3. /\ d.state = e.state /\ d.reset_sent = e.reset_sent /\ d.out = e.out
      /\ d.control = control
  BY <1>1 DEF IsEndpoint, Fields
<1>4. IsEndpoint(d) /\ SameSender(e, d)
  BY <1>1 DEF IsEndpoint, Fields, SameSender
<1>5. SameReceiver(e, d)
  BY <1>1 DEF IsEndpoint, Fields, SameReceiver
<1>6. SameSender(t.c, d) /\ SameReceiver(t.c, d)
  BY <1>1, <1>4, <1>5 DEF SameSender, SameReceiver
<1> HIDE DEF d
<1>7. d.out = IF flags = {} THEN t.c.out ELSE t.c.out \cup {s}
  BY <1>1, <1>3
<1>8. d.control = IF t.actions \cap {"notify_connected", "notify_closed"} # {}
                  THEN NoControl
                  ELSE IF flags \cap {"SYN", "FIN"} # {} THEN s ELSE t.c.control
  BY <1>1, <1>3
<1> QED BY <1>1, <1>2, <1>3, <1>4, <1>6, <1>7, <1>8 DEF flags, s
-----------------------------------------------------------------------------
(* The state machine and the control segment an endpoint repeats. *)

LEMMA ActionFlagsAre ==
    ASSUME NEW A
    PROVE  /\ ActionFlags(A) \subseteq {"SYN", "ACK", "FIN", "RST"}
           /\ "SYN" \in ActionFlags(A) <=> "send_syn" \in A
           /\ "FIN" \in ActionFlags(A) <=> "send_fin" \in A
           /\ "RST" \in ActionFlags(A) <=> "send_rst" \in A
           /\ "ACK" \in ActionFlags(A) <=> "send_ack" \in A \/ "send_fin" \in A
<1> DEFINE F(a) == CASE a = "send_syn" -> {"SYN"}
                     [] a = "send_ack" -> {"ACK"}
                     [] a = "send_fin" -> {"FIN", "ACK"}
                     [] a = "send_rst" -> {"RST"}
                     [] OTHER -> {}
<1>1. ActionFlags(A) = UNION {F(a) : a \in A}
  BY DEF ActionFlags
<1>2. F("send_syn") = {"SYN"} /\ F("send_ack") = {"ACK"}
      /\ F("send_fin") = {"FIN", "ACK"} /\ F("send_rst") = {"RST"}
  OBVIOUS
<1>3. ASSUME NEW a, a \notin {"send_syn", "send_ack", "send_fin", "send_rst"}
      PROVE  F(a) = {}
  BY <1>3
<1> HIDE DEF F
<1>4. \A f : f \in ActionFlags(A) <=> \E a \in A : f \in F(a)
  BY <1>1
<1> QED BY <1>2, <1>3, <1>4

\* What the table says of the transitions into each state.
LEMMA TransitionsAre ==
    ASSUME NEW x \in kTransitions
    PROVE  /\ x[3] \in ConnectionState /\ "send_rst" \notin x[4]
           /\ x[3] = "syn_sent" => x[4] = {"send_syn"}
           /\ x[3] = "syn_received" => x[4] = {"send_syn", "send_ack"}
           /\ x[3] \in {"fin_wait_1", "last_ack"} => x[4] = {"send_fin"}
           /\ x[3] = "established" =>
                 x[4] \cap {"notify_connected", "notify_closed"} # {}
           /\ x[3] = "close_wait" => x[1] = "established" /\ x[4] = {"send_ack"}
           /\ x[3] = "fin_wait_2" => x[1] = "fin_wait_1" /\ x[4] = {}
           /\ x[3] = "time_wait" => /\ x[1] \in {"fin_wait_1", "fin_wait_2"}
                                    /\ x[4] = {"send_ack"}
           /\ x[3] = "closed" => "send_fin" \notin x[4] /\ "send_syn" \notin x[4]
           /\ x[1] = "closed" => x[2] \in {"app_connect", "receive_syn"} <=> x[3] # "closed"
<1>1. CASE x \in {<<s, "receive_rst", "closed", kCloseError>> :
                      s \in ConnectionState \ {"closed"}}
  <2>1. PICK s \in ConnectionState \ {"closed"} :
                x = <<s, "receive_rst", "closed", kCloseError>>
    BY <1>1
  <2>2. x[1] = s /\ x[2] = "receive_rst" /\ x[3] = "closed" /\ x[4] = kCloseError
    BY <2>1
  <2>3. s # "closed"
    OBVIOUS
  <2> QED BY <2>2, <2>3 DEF ConnectionState, kCloseError
<1>2. CASE x \notin {<<s, "receive_rst", "closed", kCloseError>> :
                      s \in ConnectionState \ {"closed"}}
  BY <1>2 DEF kTransitions, ConnectionState, kSynAck
<1> QED BY <1>1, <1>2

\* The machine invariant: the control segment kept for tick is the one of the
\* phase the endpoint is in.
Machine(c) ==
    /\ c.state \in ConnectionState /\ c.reset_sent \in BOOLEAN
    /\ c.control.flags \in {{}, {"SYN"}, {"SYN", "ACK"}, {"FIN", "ACK"}}
    /\ c.state \in {"syn_sent", "syn_received"} => "SYN" \in c.control.flags
    /\ c.state \in {"fin_wait_1", "fin_wait_2", "time_wait", "last_ack"} =>
          "FIN" \in c.control.flags
    /\ c.state \in {"established", "close_wait"} => c.control.flags = {}

\* The RSTs among the segments an operation transmits.
RstOut(c) == {s \in c.out : "RST" \in s.flags}

\* From c to d no RST is sent, or the first one of the attempt.
OneReset(c, d) ==
    \/ /\ RstOut(d) = RstOut(c)
       /\ c.reset_sent => d.reset_sent \/ (c.state = "closed" /\ d.state # "closed")
    \/ /\ ~c.reset_sent /\ d.reset_sent
       /\ \E s : RstOut(d) = RstOut(c) \cup {s}

LEMMA EventKeepsMachine ==
    ASSUME NEW c, IsEndpoint(c), Machine(c), NEW event
    PROVE  LET d == PerformActions(Handle(c, event)) IN Machine(d) /\ OneReset(c, d)
<1> DEFINE t == Handle(c, event)
           flags == ActionFlags(t.actions)
           s == MakeSegment(t.c, flags, 0, 0)
           d == PerformActions(t)
<1> SUFFICES Machine(d) /\ OneReset(c, d)
  OBVIOUS
<1>1. /\ IsEndpoint(t.c) /\ t.c.control = c.control /\ t.c.out = c.out
  BY HandleIs
<1>2. Outcome(c, event, t)
  BY HandleIs
<1> HIDE DEF t
<1>3. /\ d.state = t.c.state /\ d.reset_sent = t.c.reset_sent
      /\ d.out = IF flags = {} THEN c.out ELSE c.out \cup {s}
      /\ d.control = IF t.actions \cap {"notify_connected", "notify_closed"} # {}
                     THEN NoControl
                     ELSE IF flags \cap {"SYN", "FIN"} # {} THEN s ELSE c.control
  BY <1>1, PerformActionsIs
<1>4. s.flags = flags
  BY MakeSegmentIs
<1>5. /\ flags \subseteq {"SYN", "ACK", "FIN", "RST"}
      /\ "SYN" \in flags <=> "send_syn" \in t.actions
      /\ "FIN" \in flags <=> "send_fin" \in t.actions
      /\ "RST" \in flags <=> "send_rst" \in t.actions
      /\ "ACK" \in flags <=> "send_ack" \in t.actions \/ "send_fin" \in t.actions
  BY ActionFlagsAre
<1> HIDE DEF flags, s, d
<1>6. RstOut(d) = IF "RST" \in flags THEN RstOut(c) \cup {s} ELSE RstOut(c)
  BY <1>3, <1>4 DEF RstOut
<1>7. NoControl.flags = {}
  BY DEF NoControl
<1>8. CASE /\ t.c.state = "closed" /\ t.c.reset_sent = TRUE
           /\ t.actions = {"notify_error"} \cup
                          (IF c.reset_sent THEN {} ELSE {"send_rst"})
  <2>1. "send_syn" \notin t.actions /\ "send_fin" \notin t.actions
        /\ "notify_connected" \notin t.actions /\ "notify_closed" \notin t.actions
    BY <1>8
  <2>2. d.control = c.control
    BY <1>3, <1>5, <2>1
  <2>3. Machine(d)
    BY <1>3, <1>8, <2>2 DEF Machine, ConnectionState
  <2>4. c.reset_sent => "send_rst" \notin t.actions
    BY <1>8
  <2>5. ~c.reset_sent => "send_rst" \in t.actions
    BY <1>8
  <2>6. OneReset(c, d)
    BY <1>3, <1>5, <1>6, <1>8, <2>4, <2>5 DEF OneReset, Machine
  <2> QED BY <2>3, <2>6
<1>9. CASE \E x \in kTransitions :
            /\ x[1] = c.state /\ x[2] = event
            /\ t.c.state = x[3] /\ t.actions = x[4]
            /\ t.c.reset_sent = (c.reset_sent /\
                  ~(c.state = "closed" /\ event \in {"app_connect", "receive_syn"}))
  <2>1. PICK x \in kTransitions :
            /\ x[1] = c.state /\ x[2] = event
            /\ t.c.state = x[3] /\ t.actions = x[4]
            /\ t.c.reset_sent = (c.reset_sent /\
                  ~(c.state = "closed" /\ event \in {"app_connect", "receive_syn"}))
    BY <1>9
  <2>2. "RST" \notin flags /\ d.state \in ConnectionState
    BY <1>3, <1>5, <2>1, TransitionsAre
  <2>3. OneReset(c, d)
    <3>1. RstOut(d) = RstOut(c)
      BY <1>6, <2>2
    <3>2. c.state = "closed" => (event \in {"app_connect", "receive_syn"} <=> d.state # "closed")
      BY <1>3, <2>1, TransitionsAre
    <3>3. c.reset_sent => d.reset_sent \/ (c.state = "closed" /\ d.state # "closed")
      BY <1>3, <2>1, <3>2 DEF Machine
    <3> QED BY <3>1, <3>3 DEF OneReset
  <2>4. d.reset_sent \in BOOLEAN
    BY <1>3, <2>1 DEF Machine
  <2> SUFFICES Machine(d)
    BY <2>3
  <2>5. CASE d.state = "syn_sent"
    <3>1. t.actions = {"send_syn"}
      BY <1>3, <2>1, <2>5, TransitionsAre
    <3>2. flags = {"SYN"}
      BY <1>5, <3>1
    <3>3. d.control = s
      BY <1>3, <3>1, <3>2
    <3> QED BY <1>4, <2>2, <2>4, <2>5, <3>2, <3>3 DEF Machine
  <2>6. CASE d.state = "syn_received"
    <3>1. t.actions = {"send_syn", "send_ack"}
      BY <1>3, <2>1, <2>6, TransitionsAre
    <3>2. flags = {"SYN", "ACK"}
      BY <1>5, <3>1
    <3>3. d.control = s
      BY <1>3, <3>1, <3>2
    <3> QED BY <1>4, <2>2, <2>4, <2>6, <3>2, <3>3 DEF Machine
  <2>7. CASE d.state \in {"fin_wait_1", "last_ack"}
    <3>1. t.actions = {"send_fin"}
      BY <1>3, <2>1, <2>7, TransitionsAre
    <3>2. flags = {"FIN", "ACK"}
      BY <1>5, <3>1
    <3>3. d.control = s
      BY <1>3, <3>1, <3>2
    <3> QED BY <1>4, <2>2, <2>4, <2>7, <3>2, <3>3 DEF Machine
  <2>8. CASE d.state = "established"
    <3>1. d.control = NoControl
      BY <1>3, <2>1, <2>8, TransitionsAre
    <3> QED BY <1>7, <2>2, <2>4, <2>8, <3>1 DEF Machine
  <2>9. CASE d.state \in {"close_wait", "fin_wait_2", "time_wait"}
    <3>1. t.actions \subseteq {"send_ack"}
      BY <1>3, <2>1, <2>9, TransitionsAre
    <3>2. d.control = c.control
      BY <1>3, <1>5, <3>1
    <3>3. /\ d.state = "close_wait" => c.state = "established"
          /\ d.state = "fin_wait_2" => c.state = "fin_wait_1"
          /\ d.state = "time_wait" => c.state \in {"fin_wait_1", "fin_wait_2"}
      BY <1>3, <2>1, TransitionsAre
    <3> QED BY <2>2, <2>4, <2>9, <3>2, <3>3 DEF Machine
  <2>10. CASE d.state = "closed"
    <3>1. "send_fin" \notin t.actions /\ "send_syn" \notin t.actions
      BY <1>3, <2>1, <2>10, TransitionsAre
    <3>2. d.control \in {c.control, NoControl}
      BY <1>3, <1>5, <3>1
    <3> QED BY <1>7, <2>2, <2>4, <2>10, <3>2 DEF Machine
  <2> QED BY <2>2, <2>5, <2>6, <2>7, <2>8, <2>9, <2>10 DEF ConnectionState
<1> QED BY <1>2, <1>8, <1>9 DEF Outcome
-----------------------------------------------------------------------------
(* The retransmission queue. *)

IsSequence(q) == q \in Seq(Range(q))

EntryFields == {"start", "end", "segment", "retransmitted", "sacked"}
IsEntry(e) == e = [f \in EntryFields |-> e[f]]

QueueOK(q) == IsSequence(q) /\ \A i \in 1 .. Len(q) : IsEntry(q[i])

\* The same segment, with other marks.
SameEntry(e, f) ==
    IsEntry(f) /\ f.start = e.start /\ f.end = e.end /\ f.segment = e.segment

LEMMA SequenceOfAny ==
    ASSUME NEW S, NEW q \in Seq(S)
    PROVE  IsSequence(q)
<1>1. Len(q) \in Nat /\ DOMAIN q = 1 .. Len(q) /\ q \in [1 .. Len(q) -> S]
  OBVIOUS
<1>2. q \in [1 .. Len(q) -> Range(q)]
  BY <1>1 DEF Range
<1> QED BY <1>1, <1>2 DEF IsSequence

LEMMA SequenceIs ==
    ASSUME NEW n \in Nat, NEW q, q = [i \in 1 .. n |-> q[i]]
    PROVE  IsSequence(q) /\ Len(q) = n
<1>1. q \in [1 .. n -> Range(q)]
  BY DEF Range
<1>2. q \in Seq(Range(q))
  BY <1>1
<1> QED BY <1>2 DEF IsSequence

LEMMA LeastIs ==
    ASSUME NEW S, S \subseteq Nat, S # {}
    PROVE  Min(S) \in S /\ \A y \in S : Min(S) <= y
<1>1. \E x \in S : \A y \in S : x <= y
  BY LeastElement
<1> QED BY <1>1 DEF Min

LEMMA AckedPrefixIs ==
    ASSUME NEW q, IsSequence(q), NEW ack
    PROVE  LET k == AckedPrefix(q, ack) IN
           /\ k \in 0 .. Len(q)
           /\ k < Len(q) => ~SequenceLessEqual(q[k + 1].end, ack)
           /\ \A i \in 1 .. k : SequenceLessEqual(q[i].end, ack)
<1> DEFINE S == {k \in 0 .. Len(q) : k < Len(q) => ~SequenceLessEqual(q[k + 1].end, ack)}
           m == Min(S)
<1>1. Len(q) \in Nat
  BY DEF IsSequence
<1>2. S \subseteq Nat /\ Len(q) \in S
  BY <1>1
<1>3. m \in S /\ \A y \in S : m <= y
  <2> HIDE DEF S
  <2> QED BY <1>2, LeastIs
<1>4. AckedPrefix(q, ack) = m
  BY DEF AckedPrefix
<1> HIDE DEF m
<1>5. ASSUME NEW i \in 1 .. m PROVE SequenceLessEqual(q[i].end, ack)
  <2>1. i - 1 \in 0 .. Len(q) /\ i - 1 < m /\ i - 1 < Len(q) /\ (i - 1) + 1 = i
    BY <1>1, <1>3
  <2>2. i - 1 \notin S
    BY <1>1, <1>3, <2>1
  <2> QED BY <2>1, <2>2
<1> QED BY <1>3, <1>4, <1>5

LEMMA AcknowledgeIs ==
    ASSUME NEW q, QueueOK(q), NEW ack
    PROVE  LET r == Acknowledge(q, ack)
               k == AckedPrefix(q, ack) IN
           /\ QueueOK(r) /\ Len(r) = Len(q) - k
           /\ \A i \in 1 .. Len(r) : k + i \in 1 .. Len(q) /\ r[i] = q[k + i]
<1> DEFINE k == AckedPrefix(q, ack)
           r == SubSeq(q, k + 1, Len(q))
<1>1. k \in 0 .. Len(q) /\ Len(q) \in Nat /\ q \in Seq(Range(q))
  BY AckedPrefixIs DEF QueueOK, IsSequence
<1> HIDE DEF k
<1>2. r \in Seq(Range(q)) /\ Len(r) = Len(q) - k
  BY <1>1
<1>3. \A i \in 1 .. Len(r) : k + i \in 1 .. Len(q) /\ r[i] = q[k + i]
  BY <1>1, <1>2
<1> HIDE DEF r
<1>4. QueueOK(r)
  BY <1>2, <1>3, SequenceOfAny DEF QueueOK
<1> QED BY <1>2, <1>3, <1>4 DEF Acknowledge, k, r

LEMMA ApplySacksIs ==
    ASSUME NEW q, QueueOK(q), NEW sacks
    PROVE  LET r == ApplySacks(q, sacks) IN
           /\ QueueOK(r) /\ Len(r) = Len(q)
           /\ \A i \in 1 .. Len(q) :
                 /\ SameEntry(q[i], r[i])
                 /\ r[i].sacked = (q[i].sacked \/ \E b \in sacks : Covers(b, q[i]))
<1> DEFINE r == ApplySacks(q, sacks)
           covered(i) == \E b \in sacks : Covers(b, q[i])
<1>1. Len(q) \in Nat
  BY DEF QueueOK, IsSequence
<1>2. r = [i \in 1 .. Len(q) |-> [q[i] EXCEPT !.sacked = @ \/ covered(i)]]
  BY DEF ApplySacks
<1>3. IsSequence(r) /\ Len(r) = Len(q)
  <2>1. r = [i \in 1 .. Len(q) |-> r[i]]
    BY <1>2
  <2> HIDE DEF r
  <2> QED BY <1>1, <2>1, SequenceIs
<1>4. ASSUME NEW i \in 1 .. Len(q)
      PROVE  /\ SameEntry(q[i], r[i])
             /\ r[i].sacked = (q[i].sacked \/ covered(i))
  <2>1. r[i] = [q[i] EXCEPT !.sacked = @ \/ covered(i)]
    BY <1>2
  <2>2. q[i] = [f \in EntryFields |-> q[i][f]]
    BY DEF QueueOK, IsEntry
  <2> HIDE DEF r, covered
  <2> QED BY <2>1, <2>2 DEF SameEntry, IsEntry, EntryFields
<1> HIDE DEF r
<1> QED BY <1>3, <1>4 DEF QueueOK, SameEntry, r

LEMMA MarkRetransmittedIs ==
    ASSUME NEW q, QueueOK(q), NEW n \in 1 .. Len(q)
    PROVE  LET r == MarkRetransmitted(q, n) IN
           /\ QueueOK(r) /\ Len(r) = Len(q)
           /\ \A i \in 1 .. Len(q) :
                 SameEntry(q[i], r[i]) /\ r[i].sacked = q[i].sacked
<1> DEFINE r == MarkRetransmitted(q, n)
<1>1. Len(q) \in Nat /\ DOMAIN q = 1 .. Len(q) /\ q = [i \in 1 .. Len(q) |-> q[i]]
  BY DEF QueueOK, IsSequence
<1>2. r = [q EXCEPT ![n] = [q[n] EXCEPT !.retransmitted = TRUE]]
  BY DEF MarkRetransmitted
<1>3. r = [i \in 1 .. Len(q) |-> r[i]]
  BY <1>1, <1>2
<1>4. r[n] = [q[n] EXCEPT !.retransmitted = TRUE]
      /\ \A i \in 1 .. Len(q) : i # n => r[i] = q[i]
  BY <1>1, <1>2
<1> HIDE DEF r
<1>5. IsSequence(r) /\ Len(r) = Len(q)
  BY <1>1, <1>3, SequenceIs
<1>6. ASSUME NEW i \in 1 .. Len(q)
      PROVE  SameEntry(q[i], r[i]) /\ r[i].sacked = q[i].sacked
  <2>1. q[i] = [f \in EntryFields |-> q[i][f]]
    BY DEF QueueOK, IsEntry
  <2>2. CASE i # n
    BY <1>4, <2>1, <2>2 DEF SameEntry, IsEntry
  <2>3. CASE i = n
    <3>1. r[i] = [q[i] EXCEPT !.retransmitted = TRUE]
      BY <1>4, <2>3
    <3> QED BY <2>1, <3>1 DEF SameEntry, IsEntry, EntryFields
  <2> QED BY <2>2, <2>3
<1> QED BY <1>5, <1>6 DEF QueueOK, SameEntry, r

LEMMA LowestUnsackedIs ==
    ASSUME NEW q, QueueOK(q)
    PROVE  LET n == LowestUnsacked(q) IN
           /\ n \in 0 .. Len(q)
           /\ n = 0 => \A i \in 1 .. Len(q) : q[i].sacked
           /\ n # 0 => ~q[n].sacked /\ \A i \in 1 .. (n - 1) : q[i].sacked
<1>1. Len(q) \in Nat
  BY DEF QueueOK, IsSequence
<1>2. CASE Unsacked(q) = {}
  BY <1>1, <1>2 DEF LowestUnsacked, Unsacked
<1>3. CASE Unsacked(q) # {}
  <2> DEFINE n == Min(Unsacked(q))
  <2>1. Unsacked(q) \subseteq Nat
    BY <1>1 DEF Unsacked
  <2>2. n \in Unsacked(q) /\ \A y \in Unsacked(q) : n <= y
    BY <1>3, <2>1, LeastIs
  <2>3. LowestUnsacked(q) = n
    BY <1>3 DEF LowestUnsacked
  <2> HIDE DEF n
  <2> QED BY <1>1, <2>2, <2>3 DEF Unsacked
<1> QED BY <1>2, <1>3
-----------------------------------------------------------------------------
(* process_ack *)

\* The two outcomes of the duplicate-ACK counter.
LEMMA FastOnAckIs ==
    ASSUME NEW f, NEW ack, NEW q, QueueOK(q)
    PROVE  LET d == FastOnAck(f, ack, q) IN
           \/ d.resend = 0 /\ d.q = q
           \/ /\ d.resend \in 1 .. Len(q) /\ d.resend = LowestUnsacked(q)
              /\ d.q = MarkRetransmitted(q, d.resend)
              /\ ack = f.last_ack /\ ~SequenceGreater(ack, f.last_ack)
<1> DEFINE n == LowestUnsacked(q)
           m == MarkRetransmitted(q, n)
<1>1. n \in 0 .. Len(q) /\ Len(q) \in Nat
  BY LowestUnsackedIs DEF QueueOK, IsSequence
<1> HIDE DEF n, m
<1>2. \/ FastOnAck(f, ack, q).resend = 0 /\ FastOnAck(f, ack, q).q = q
      \/ /\ FastOnAck(f, ack, q).resend = n /\ FastOnAck(f, ack, q).q = m
         /\ n # 0 /\ ack = f.last_ack /\ ~SequenceGreater(ack, f.last_ack)
  BY DEF FastOnAck, n, m
<1> QED BY <1>1, <1>2 DEF n, m

\* c after an ACK that takes k segments off its queue, if it makes progress.
LEMMA AcknowledgeProgressIs ==
    ASSUME NEW c, IsEndpoint(c), QueueOK(c.queue), c.tx_free \in Int, NEW ack
    PROVE  LET d == AcknowledgeProgress(c, ack)
               k == IF SequenceGreater(ack, c.oldest)
                    THEN AckedPrefix(c.queue, ack) ELSE 0
           IN
           /\ IsEndpoint(d) /\ SameMachine(c, d) /\ SameReceiver(c, d)
           /\ d.next_send = c.next_send /\ d.peer_window = c.peer_window
           /\ d.fast = c.fast /\ d.out = c.out
           /\ d.oldest = IF SequenceGreater(ack, c.oldest) THEN ack ELSE c.oldest
           /\ d.congestion = IF SequenceGreater(ack, c.oldest)
                             THEN CongestionOnRecoveryAck(
                                     CongestionOnAck(c.congestion, SeqSub(ack, c.oldest)), ack)
                             ELSE c.congestion
           /\ k \in 0 .. Len(c.queue)
           /\ d.tx_free = c.tx_free + k
           /\ QueueOK(d.queue) /\ Len(d.queue) = Len(c.queue) - k
           /\ \A i \in 1 .. Len(d.queue) :
                 k + i \in 1 .. Len(c.queue) /\ d.queue[i] = c.queue[k + i]
<1>1. CASE SequenceGreater(ack, c.oldest)
  <2> DEFINE q == Acknowledge(c.queue, ack)
             k == AckedPrefix(c.queue, ack)
             g == CongestionOnRecoveryAck(
                     CongestionOnAck(c.congestion, SeqSub(ack, c.oldest)), ack)
             d == [c EXCEPT !.queue = q, !.tx_free = @ + k, !.oldest = ack,
                            !.congestion = g]
  <2>1. AcknowledgeProgress(c, ack) = d
    BY <1>1 DEF AcknowledgeProgress
  <2>2. /\ k \in 0 .. Len(c.queue)
        /\ QueueOK(q) /\ Len(q) = Len(c.queue) - k
        /\ \A i \in 1 .. Len(q) : k + i \in 1 .. Len(c.queue) /\ q[i] = c.queue[k + i]
    BY AckedPrefixIs, AcknowledgeIs DEF QueueOK
  <2> HIDE DEF q, k, g
  <2>3. IsEndpoint(d) /\ SameMachine(c, d)
    BY DEF IsEndpoint, Fields, SameMachine
  <2>4. SameReceiver(c, d)
    BY DEF IsEndpoint, Fields, SameReceiver
  <2>5. /\ d.next_send = c.next_send /\ d.peer_window = c.peer_window
        /\ d.fast = c.fast /\ d.out = c.out
        /\ d.queue = q /\ d.tx_free = c.tx_free + k /\ d.oldest = ack
        /\ d.congestion = g
    BY DEF IsEndpoint, Fields
  <2> HIDE DEF d
  <2> QED BY <1>1, <2>1, <2>2, <2>3, <2>4, <2>5 DEF g, k
<1>2. CASE ~SequenceGreater(ack, c.oldest)
  <2>1. AcknowledgeProgress(c, ack) = c
    BY <1>2 DEF AcknowledgeProgress
  <2>2. Len(c.queue) \in Nat
    BY DEF QueueOK, IsSequence
  <2> QED BY <1>2, <2>1, <2>2 DEF SameMachine, SameReceiver
<1> QED BY <1>1, <1>2

\* A retained segment is sent again and the window cut.
Resends(c, d, signal) ==
    \E i \in 1 .. Len(c.queue) :
        /\ d.out = c.out \cup {c.queue[i].segment}
        /\ d.congestion = CongestionOnLoss(c.congestion, signal, FlightBytes(c),
                                           c.queue[Len(c.queue)].end)

\* c after the marks of the SACK blocks and the duplicate-ACK counter.
LEMMA ScoreboardIs ==
    ASSUME NEW c, IsEndpoint(c), QueueOK(c.queue), NEW s
    PROVE  LET d == Scoreboard(c, s) IN
           /\ IsEndpoint(d) /\ SameMachine(c, d) /\ SameReceiver(c, d)
           /\ d.next_send = c.next_send /\ d.peer_window = c.peer_window
           /\ d.oldest = c.oldest /\ d.tx_free = c.tx_free
           /\ d.fast = FastOnAck(c.fast, s.ack, ApplySacks(c.queue, s.sacks)).f
           /\ QueueOK(d.queue) /\ Len(d.queue) = Len(c.queue)
           /\ \A i \in 1 .. Len(c.queue) :
                 /\ SameEntry(c.queue[i], d.queue[i])
                 /\ d.queue[i].sacked =
                       (c.queue[i].sacked \/ \E b \in s.sacks : Covers(b, c.queue[i]))
           /\ \/ d.out = c.out /\ d.congestion = c.congestion
              \/ /\ Resends(c, d, "sack_fast_recovery")
                 /\ s.ack = c.fast.last_ack
                 /\ ~SequenceGreater(s.ack, c.fast.last_ack)
<1> DEFINE q == ApplySacks(c.queue, s.sacks)
           a == FastOnAck(c.fast, s.ack, q)
           covered(i) == \E b \in s.sacks : Covers(b, c.queue[i])
<1>0. Len(c.queue) \in Nat
  BY DEF QueueOK, IsSequence
<1>1. /\ QueueOK(q) /\ Len(q) = Len(c.queue)
      /\ \A i \in 1 .. Len(c.queue) :
            /\ SameEntry(c.queue[i], q[i])
            /\ q[i].sacked = (c.queue[i].sacked \/ covered(i))
  BY ApplySacksIs
<1>2. Scoreboard(c, s) = ApplyDecision(c, a)
  BY DEF Scoreboard
<1> HIDE DEF q, covered
<1>3. \/ a.resend = 0 /\ a.q = q
      \/ /\ a.resend \in 1 .. Len(q) /\ a.q = MarkRetransmitted(q, a.resend)
         /\ s.ack = c.fast.last_ack /\ ~SequenceGreater(s.ack, c.fast.last_ack)
  BY <1>1, FastOnAckIs
<1> DEFINE d == ApplyDecision(c, a)
<1> SUFFICES
           /\ IsEndpoint(d) /\ SameMachine(c, d) /\ SameReceiver(c, d)
           /\ d.next_send = c.next_send /\ d.peer_window = c.peer_window
           /\ d.oldest = c.oldest /\ d.tx_free = c.tx_free
           /\ d.fast = a.f
           /\ QueueOK(d.queue) /\ Len(d.queue) = Len(c.queue)
           /\ \A i \in 1 .. Len(c.queue) :
                 /\ SameEntry(c.queue[i], d.queue[i])
                 /\ d.queue[i].sacked = (c.queue[i].sacked \/ covered(i))
           /\ \/ d.out = c.out /\ d.congestion = c.congestion
              \/ /\ Resends(c, d, "sack_fast_recovery")
                 /\ s.ack = c.fast.last_ack
                 /\ ~SequenceGreater(s.ack, c.fast.last_ack)
  BY <1>2 DEF q, covered
<1> HIDE DEF a
<1>4. CASE a.resend = 0 /\ a.q = q
  <2>1. d = [c EXCEPT !.fast = a.f, !.queue = q]
    BY <1>4 DEF ApplyDecision
  <2> HIDE DEF d
  <2>2. IsEndpoint(d) /\ SameMachine(c, d)
    BY <2>1 DEF IsEndpoint, Fields, SameMachine
  <2>3. SameReceiver(c, d)
    BY <2>1 DEF IsEndpoint, Fields, SameReceiver
  <2>4. /\ d.next_send = c.next_send /\ d.peer_window = c.peer_window
        /\ d.oldest = c.oldest /\ d.tx_free = c.tx_free
        /\ d.fast = a.f /\ d.queue = q /\ d.out = c.out /\ d.congestion = c.congestion
    BY <2>1 DEF IsEndpoint, Fields
  <2> QED BY <1>1, <2>2, <2>3, <2>4
<1>5. CASE /\ a.resend \in 1 .. Len(q) /\ a.q = MarkRetransmitted(q, a.resend)
           /\ s.ack = c.fast.last_ack /\ ~SequenceGreater(s.ack, c.fast.last_ack)
  <2> DEFINE n == a.resend
             r == MarkRetransmitted(q, n)
             g == CongestionOnLoss(c.congestion, "sack_fast_recovery",
                                   FlightBytes(c), r[Len(r)].end)
             x == r[n].segment
  <2>1. n \in 1 .. Len(c.queue) /\ n # 0
    BY <1>0, <1>1, <1>5
  <2>2. d = [c EXCEPT !.fast = a.f, !.queue = r, !.congestion = g, !.out = @ \cup {x}]
    BY <1>5, <2>1 DEF ApplyDecision
  <2>3. /\ QueueOK(r) /\ Len(r) = Len(c.queue)
        /\ \A i \in 1 .. Len(c.queue) : SameEntry(q[i], r[i]) /\ r[i].sacked = q[i].sacked
    BY <1>1, <2>1, MarkRetransmittedIs
  <2> HIDE DEF d, r
  <2>4. \A i \in 1 .. Len(c.queue) :
           /\ SameEntry(c.queue[i], r[i])
           /\ r[i].sacked = (c.queue[i].sacked \/ covered(i))
    BY <1>1, <2>3 DEF SameEntry
  <2>5. x = c.queue[n].segment /\ r[Len(r)].end = c.queue[Len(c.queue)].end
    BY <1>0, <2>1, <2>3, <2>4 DEF SameEntry
  <2> HIDE DEF x, g
  <2>6. IsEndpoint(d) /\ SameMachine(c, d)
    BY <2>2 DEF IsEndpoint, Fields, SameMachine
  <2>7. SameReceiver(c, d)
    BY <2>2 DEF IsEndpoint, Fields, SameReceiver
  <2>8. /\ d.next_send = c.next_send /\ d.peer_window = c.peer_window
        /\ d.oldest = c.oldest /\ d.tx_free = c.tx_free
        /\ d.fast = a.f /\ d.queue = r /\ d.out = c.out \cup {x} /\ d.congestion = g
    BY <2>2 DEF IsEndpoint, Fields
  <2>9. g = CongestionOnLoss(c.congestion, "sack_fast_recovery",
                             FlightBytes(c), c.queue[Len(c.queue)].end)
    BY <2>5 DEF g
  <2>10. Resends(c, d, "sack_fast_recovery")
    BY <2>1, <2>5, <2>8, <2>9 DEF Resends
  <2> HIDE DEF n
  <2>11. /\ QueueOK(d.queue) /\ Len(d.queue) = Len(c.queue)
         /\ \A i \in 1 .. Len(c.queue) :
               /\ SameEntry(c.queue[i], d.queue[i])
               /\ d.queue[i].sacked = (c.queue[i].sacked \/ covered(i))
    BY <2>3, <2>4, <2>8
  <2> QED BY <1>5, <2>6, <2>7, <2>8, <2>10, <2>11
<1> QED BY <1>3, <1>4, <1>5

\* c after a retransmission timeout.
LEMMA RetransmitTimeoutIs ==
    ASSUME NEW c, IsEndpoint(c), QueueOK(c.queue), NEW due
    PROVE  LET d == RetransmitTimeout(c, due) IN
           /\ IsEndpoint(d) /\ SameMachine(c, d) /\ SameReceiver(c, d)
           /\ d.next_send = c.next_send /\ d.peer_window = c.peer_window
           /\ d.oldest = c.oldest /\ d.tx_free = c.tx_free /\ d.fast = c.fast
           /\ QueueOK(d.queue) /\ Len(d.queue) = Len(c.queue)
           /\ \A i \in 1 .. Len(c.queue) :
                 SameEntry(c.queue[i], d.queue[i]) /\ d.queue[i].sacked = c.queue[i].sacked
           /\ \/ d.out = c.out /\ d.congestion = c.congestion
              \/ Resends(c, d, "rto_timeout")
<1> DEFINE n == LowestUnsacked(c.queue)
           d == RetransmitTimeout(c, due)
<1>1. n \in 0 .. Len(c.queue) /\ Len(c.queue) \in Nat
  BY LowestUnsackedIs DEF QueueOK, IsSequence
<1>2. CASE n = 0 \/ ~due
  <2>1. d = c
    BY <1>2 DEF RetransmitTimeout
  <2>2. \A i \in 1 .. Len(c.queue) : SameEntry(c.queue[i], c.queue[i])
    BY DEF SameEntry, QueueOK
  <2> QED BY <2>1, <2>2 DEF SameMachine, SameReceiver
<1>3. CASE ~(n = 0 \/ ~due)
  <2> DEFINE r == MarkRetransmitted(c.queue, n)
             g == CongestionOnLoss(c.congestion, "rto_timeout", FlightBytes(c),
                                   c.queue[Len(c.queue)].end)
             x == c.queue[n].segment
  <2>1. d = [c EXCEPT !.congestion = g, !.queue = r, !.out = @ \cup {x}]
    BY <1>3 DEF RetransmitTimeout
  <2>2. n \in 1 .. Len(c.queue)
    BY <1>1, <1>3
  <2>3. /\ QueueOK(r) /\ Len(r) = Len(c.queue)
        /\ \A i \in 1 .. Len(c.queue) :
              SameEntry(c.queue[i], r[i]) /\ r[i].sacked = c.queue[i].sacked
    BY <2>2, MarkRetransmittedIs
  <2> HIDE DEF d, r, g, x, n
  <2>4. IsEndpoint(d) /\ SameMachine(c, d)
    BY <2>1 DEF IsEndpoint, Fields, SameMachine
  <2>5. SameReceiver(c, d)
    BY <2>1 DEF IsEndpoint, Fields, SameReceiver
  <2>6. /\ d.next_send = c.next_send /\ d.peer_window = c.peer_window
        /\ d.oldest = c.oldest /\ d.tx_free = c.tx_free /\ d.fast = c.fast
        /\ d.queue = r /\ d.out = c.out \cup {x} /\ d.congestion = g
    BY <2>1 DEF IsEndpoint, Fields
  <2>7. Resends(c, d, "rto_timeout")
    BY <2>2, <2>6 DEF x, g, Resends
  <2> QED BY <2>3, <2>4, <2>5, <2>6, <2>7 DEF d
<1> QED BY <1>2, <1>3
-----------------------------------------------------------------------------
(* process_payload *)

\* c with the payload of s stored, before anything is handed over.
Stored(c, s, inserted) ==
    [c EXCEPT !.ranges = inserted.ranges, !.ack = inserted.ack,
              !.rx_free = @ - 1,
              !.slots = @ \cup {[start |-> s.sequence,
                                 end |-> SeqAdd(s.sequence, s.length),
                                 data |-> s.data]}]

LEMMA StoredIs ==
    ASSUME NEW c, IsEndpoint(c), NEW s, NEW inserted
    PROVE  LET d == Stored(c, s, inserted) IN
           /\ IsEndpoint(d) /\ SameMachine(c, d) /\ SameSender(c, d)
           /\ d.ranges = inserted.ranges /\ d.ack = inserted.ack
           /\ d.rx_free = c.rx_free - 1
           /\ d.slots = c.slots \cup {[start |-> s.sequence,
                                       end |-> SeqAdd(s.sequence, s.length),
                                       data |-> s.data]}
           /\ d.delivery = c.delivery /\ d.delivered = c.delivered
           /\ d.receive_drop = c.receive_drop /\ d.out = c.out
<1> DEFINE x == [start |-> s.sequence, end |-> SeqAdd(s.sequence, s.length),
                 data |-> s.data]
           d == [c EXCEPT !.ranges = inserted.ranges, !.ack = inserted.ack,
                          !.rx_free = @ - 1, !.slots = @ \cup {x}]
<1>0. Stored(c, s, inserted) = d
  BY DEF Stored
<1> HIDE DEF x
<1>1. IsEndpoint(d) /\ SameMachine(c, d)
  BY DEF IsEndpoint, Fields, SameMachine
<1>2. SameSender(c, d)
  BY DEF IsEndpoint, Fields, SameSender
<1>3. /\ d.ranges = inserted.ranges /\ d.ack = inserted.ack
      /\ d.rx_free = c.rx_free - 1 /\ d.slots = c.slots \cup {x}
      /\ d.delivery = c.delivery /\ d.delivered = c.delivered
      /\ d.receive_drop = c.receive_drop /\ d.out = c.out
  BY DEF IsEndpoint, Fields
<1> HIDE DEF d
<1> QED BY <1>0, <1>1, <1>2, <1>3 DEF x

\* The payloads handed over, in order.
Payloads(ready) == [i \in 1 .. Cardinality(ready) |-> InOrder(ready)[i].data]

LEMMA HandOverIs ==
    ASSUME NEW c, IsEndpoint(c), NEW ready, NEW stop
    PROVE  LET d == HandOver(c, ready, stop) IN
           /\ IsEndpoint(d) /\ SameMachine(c, d) /\ SameSender(c, d)
           /\ d.ranges = c.ranges /\ d.ack = c.ack
           /\ d.receive_drop = c.receive_drop /\ d.out = c.out
           /\ d.slots = c.slots \ ready
           /\ d.rx_free = c.rx_free + Cardinality(ready)
           /\ d.delivery = stop
           /\ d.delivered = c.delivered \o Payloads(ready)
<1> DEFINE n == Cardinality(ready)
           x == Payloads(ready)
           d == [c EXCEPT !.slots = @ \ ready, !.rx_free = @ + n,
                          !.delivery = stop, !.delivered = @ \o x]
<1>0. HandOver(c, ready, stop) = d
  BY DEF HandOver, Payloads
<1> HIDE DEF n, x
<1>1. IsEndpoint(d) /\ SameMachine(c, d)
  BY DEF IsEndpoint, Fields, SameMachine
<1>2. SameSender(c, d)
  BY DEF IsEndpoint, Fields, SameSender
<1>3. /\ d.ranges = c.ranges /\ d.ack = c.ack
      /\ d.receive_drop = c.receive_drop /\ d.out = c.out
      /\ d.slots = c.slots \ ready /\ d.rx_free = c.rx_free + n
      /\ d.delivery = stop /\ d.delivered = c.delivered \o x
  BY DEF IsEndpoint, Fields
<1> HIDE DEF d
<1> QED BY <1>0, <1>1, <1>2, <1>3 DEF n, x

\* The payload of s, up to end, is new and there is room for it.
Storable(c, s, end) ==
    /\ ~SequenceLessEqual(end, c.delivery) /\ ~OverlapsReceived(c, s.sequence, end)
    /\ Cardinality(c.slots) # ReceiveCapacity /\ c.rx_free # 0
    /\ InsertRange(c.ranges, c.ack, s.sequence, end).status = "accepted"

LEMMA ReceivePayloadIs ==
    ASSUME NEW c, IsEndpoint(c), NEW s, NEW end
    PROVE  LET d == ReceivePayload(c, s, end)
               e == Stored(c, s, InsertRange(c.ranges, c.ack, s.sequence, end))
           IN
           /\ IsEndpoint(d) /\ SameMachine(c, d) /\ SameSender(c, d)
           /\ d.out = c.out
           /\ \/ /\ d.ranges = c.ranges /\ d.ack = c.ack /\ d.slots = c.slots
                 /\ d.delivery = c.delivery /\ d.rx_free = c.rx_free
                 /\ d.delivered = c.delivered
              \/ Storable(c, s, end) /\ d = DeliverContiguous(e)
<1> DEFINE ins == InsertRange(c.ranges, c.ack, s.sequence, end)
           e == Stored(c, s, ins)
           d == ReceivePayload(c, s, end)
           drop(x) == [c EXCEPT !.receive_drop = x]
<1> HIDE DEF ins
<1>1. ASSUME NEW x
      PROVE  /\ IsEndpoint(drop(x)) /\ SameMachine(c, drop(x)) /\ SameSender(c, drop(x))
             /\ drop(x).out = c.out
             /\ drop(x).ranges = c.ranges /\ drop(x).ack = c.ack
             /\ drop(x).slots = c.slots /\ drop(x).delivery = c.delivery
             /\ drop(x).rx_free = c.rx_free /\ drop(x).delivered = c.delivered
  <2>1. IsEndpoint(drop(x)) /\ SameMachine(c, drop(x))
    BY DEF IsEndpoint, Fields, SameMachine
  <2>2. SameSender(c, drop(x))
    BY DEF IsEndpoint, Fields, SameSender
  <2>3. /\ drop(x).out = c.out
        /\ drop(x).ranges = c.ranges /\ drop(x).ack = c.ack
        /\ drop(x).slots = c.slots /\ drop(x).delivery = c.delivery
        /\ drop(x).rx_free = c.rx_free /\ drop(x).delivered = c.delivered
    BY DEF IsEndpoint, Fields
  <2> QED BY <2>1, <2>2, <2>3
<1>2. \/ d = c
      \/ \E x : d = drop(x)
      \/ Storable(c, s, end) /\ d = DeliverContiguous(e)
  <2>1. CASE SequenceLessEqual(end, c.delivery) \/ OverlapsReceived(c, s.sequence, end)
    BY <2>1 DEF ReceivePayload
  <2>2. CASE /\ ~(SequenceLessEqual(end, c.delivery) \/ OverlapsReceived(c, s.sequence, end))
             /\ Cardinality(c.slots) = ReceiveCapacity \/ c.rx_free = 0
    BY <2>2 DEF ReceivePayload
  <2>3. CASE /\ ~(SequenceLessEqual(end, c.delivery) \/ OverlapsReceived(c, s.sequence, end))
             /\ ~(Cardinality(c.slots) = ReceiveCapacity \/ c.rx_free = 0)
    <3>1. d = StoreRange(c, s, ins)
      BY <2>3 DEF ReceivePayload, ins
    <3>2. CASE ins.status # "accepted"
      BY <3>1, <3>2 DEF StoreRange
    <3>3. CASE ins.status = "accepted"
      BY <2>3, <3>1, <3>3 DEF StoreRange, Stored, Storable, ins
    <3> QED BY <3>2, <3>3
  <2> QED BY <2>1, <2>2, <2>3
<1>3. CASE d = c
  BY <1>3 DEF SameMachine, SameSender
<1>4. CASE \E x : d = drop(x)
  <2>1. PICK x : d = drop(x)
    BY <1>4
  <2> HIDE DEF d, drop
  <2> QED BY <1>1, <2>1 DEF d
<1>5. CASE Storable(c, s, end) /\ d = DeliverContiguous(e)
  <2> HIDE DEF d
  <2>1. IsEndpoint(e) /\ SameMachine(c, e) /\ SameSender(c, e) /\ e.out = c.out
    BY StoredIs
  <2> HIDE DEF e
  <2> DEFINE stop == DeliveryStop(e)
             ready == Ready(e, stop)
  <2>2. d = HandOver(e, ready, stop)
    BY <1>5 DEF DeliverContiguous
  <2> HIDE DEF ready, stop
  <2>3. IsEndpoint(d) /\ SameMachine(e, d) /\ SameSender(e, d) /\ d.out = e.out
    BY <2>1, <2>2, HandOverIs
  <2>4. SameMachine(c, d) /\ SameSender(c, d) /\ d.out = c.out
    BY <2>1, <2>3 DEF SameMachine, SameSender
  <2> QED BY <1>5, <2>3, <2>4 DEF d, e, ins
<1> QED BY <1>2, <1>3, <1>4, <1>5
-----------------------------------------------------------------------------
(* What holds of an endpoint by itself, whatever arrives. *)

WireOK(s) == s.sequence \in SeqNum /\ s.length \in Nat

Local(c) ==
    /\ IsEndpoint(c) /\ Machine(c) /\ QueueOK(c.queue)
    /\ \A i \in 1 .. Len(c.queue) :
          c.queue[i].segment.flags = {"ACK"} /\ WireOK(c.queue[i].segment)
    /\ c.next_send \in SeqNum
    /\ c.control = NoControl \/ WireOK(c.control)
    /\ c.tx_free \in Nat /\ c.tx_free + Len(c.queue) = PoolBuffers
    /\ IsFiniteSet(c.slots) /\ Cardinality(c.slots) \in Nat
    /\ c.rx_free \in Nat /\ c.rx_free + Cardinality(c.slots) = ReceiveCapacity

\* No RST is sent and the state machine does not move.
Quiet(c, d) == RstOut(d) = RstOut(c) /\ SameMachine(c, d)

OutOK(c, d) == \A s \in d.out : s \in c.out \/ WireOK(s)

LEMMA SubIs ==
    ASSUME NEW a \in SeqNum, NEW b \in SeqNum
    PROVE  /\ SeqSub(a, b) \in SeqNum
           /\ a >= b => SeqSub(a, b) = a - b
           /\ a < b => SeqSub(a, b) = Modulus + a - b
<1>1. Modulus \in Nat /\ Modulus > 0 /\ a \in Int /\ b \in Int
  BY ModulusAssumption DEF SeqNum
<1>2. a - b \in Int /\ (a - b) % Modulus \in 0 .. (Modulus - 1)
  BY <1>1
<1>3. ASSUME a >= b PROVE (a - b) % Modulus = a - b
  <2>1. a - b = Modulus * 0 + (a - b) /\ a - b \in 0 .. (Modulus - 1) /\ 0 \in Int
    BY <1>1, <1>3 DEF SeqNum
  <2> QED BY <1>1, <1>2, <2>1, Remainder
<1>4. ASSUME a < b PROVE (a - b) % Modulus = Modulus + a - b
  <2>1. /\ a - b = Modulus * (-1) + (Modulus + a - b)
        /\ Modulus + a - b \in 0 .. (Modulus - 1) /\ -1 \in Int
    BY <1>1, <1>4 DEF SeqNum
  <2> QED BY <1>1, <1>2, <2>1, Remainder
<1> QED BY <1>2, <1>3, <1>4 DEF SeqSub, SeqNum

LEMMA NumbersAre == \A a \in SeqNum : a \in Nat /\ a < Modulus
  BY ModulusAssumption DEF SeqNum

LEMMA HalfIs ==
    /\ Modulus \div 2 \in Nat /\ Modulus = 2 * (Modulus \div 2) /\ Modulus \div 2 > 0
<1>1. /\ Modulus \in Nat /\ Modulus > 0 /\ Modulus % 2 = 0
  BY ModulusAssumption
<1> QED BY <1>1

LEMMA Shorter ==
    ASSUME NEW a \in SeqNum, NEW b \in SeqNum, a # b, SeqSub(b, a) < Modulus \div 2
    PROVE  SequenceLess(a, b)
<1>1. a \in Int /\ b \in Int
  BY ModulusAssumption DEF SeqNum
<1>2. CASE a < b
  BY <1>1, <1>2, SubIs, HalfIs DEF SequenceLess
<1>3. CASE b < a
  BY <1>1, <1>3, SubIs, HalfIs DEF SequenceLess
<1> QED BY <1>1, <1>2, <1>3

LEMMA AddIs ==
    ASSUME NEW a \in SeqNum, NEW n \in Nat
    PROVE  SeqAdd(a, n) \in SeqNum
<1>1. Modulus \in Nat /\ Modulus > 0 /\ a + n \in Int
  BY ModulusAssumption DEF SeqNum
<1> QED BY <1>1 DEF SeqAdd, SeqNum

LEMMA AcceptedIs ==
    ASSUME NEW ranges, NEW ack, NEW begin, NEW end,
           InsertRange(ranges, ack, begin, end).status = "accepted"
    PROVE  begin # end /\ ~(SeqSub(end, begin) >= Modulus \div 2)
  BY DEF InsertRange

\* A slot that is stored is not one of those already held.
LEMMA StoredIsNew ==
    ASSUME NEW c, NEW s, WireOK(s), Storable(c, s, SeqAdd(s.sequence, s.length))
    PROVE  [start |-> s.sequence, end |-> SeqAdd(s.sequence, s.length),
            data |-> s.data] \notin c.slots
<1> DEFINE end == SeqAdd(s.sequence, s.length)
           x == [start |-> s.sequence, end |-> end, data |-> s.data]
<1>1. s.sequence \in SeqNum /\ end \in SeqNum
  BY AddIs DEF WireOK
<1>2. s.sequence # end /\ ~(SeqSub(end, s.sequence) >= Modulus \div 2)
  BY AcceptedIs DEF Storable
<1>3. SeqSub(end, s.sequence) \in SeqNum
  BY <1>1, SubIs
<1>4. SequenceLess(s.sequence, end)
  <2>1. SeqSub(end, s.sequence) \in Int /\ Modulus \div 2 \in Int
    BY <1>3, HalfIs, NumbersAre
  <2>2. SeqSub(end, s.sequence) < Modulus \div 2
    BY <1>2, <2>1
  <2> QED BY <1>1, <1>2, <2>2, Shorter
<1>5. ~(\E slot \in c.slots : /\ SequenceLess(s.sequence, slot.end)
                              /\ SequenceLess(slot.start, end))
  BY DEF Storable, OverlapsReceived
<1>6. x.start = s.sequence /\ x.end = end
  OBVIOUS
<1> HIDE DEF x, end
<1>7. x \notin c.slots
  BY <1>4, <1>5, <1>6
<1> QED BY <1>7 DEF x, end

LEMMA LocalAck ==
    ASSUME NEW c, Local(c), NEW s
    PROVE  LET d == AckPart(c, s) IN Local(d) /\ Quiet(c, d) /\ OutOK(c, d)
<1> DEFINE w == [c EXCEPT !.peer_window = s.window]
           a == AcknowledgeProgress(w, s.ack)
           d == Scoreboard(a, s)
<1>1. /\ IsEndpoint(w) /\ SameMachine(c, w) /\ SameReceiver(c, w)
      /\ w.queue = c.queue /\ w.tx_free = c.tx_free /\ w.out = c.out
      /\ w.next_send = c.next_send
  <2>1. IsEndpoint(c)
    BY DEF Local
  <2>2. IsEndpoint(w) /\ SameMachine(c, w)
    BY <2>1 DEF IsEndpoint, Fields, SameMachine
  <2>3. SameReceiver(c, w)
    BY <2>1 DEF IsEndpoint, Fields, SameReceiver
  <2>4. w.queue = c.queue /\ w.tx_free = c.tx_free /\ w.out = c.out
        /\ w.next_send = c.next_send
    BY <2>1 DEF IsEndpoint, Fields
  <2> QED BY <2>2, <2>3, <2>4
<1> HIDE DEF w
<1>2. Local(w) /\ Quiet(c, w) /\ OutOK(c, w)
  BY <1>1 DEF Local, Machine, SameMachine, SameReceiver, Quiet, OutOK, RstOut
<1>3. Local(d) /\ Quiet(c, d) /\ OutOK(c, d)
  <2> DEFINE k == IF SequenceGreater(s.ack, w.oldest)
                  THEN AckedPrefix(w.queue, s.ack) ELSE 0
  <2>1. /\ k \in 0 .. Len(w.queue)
        /\ IsEndpoint(a) /\ SameMachine(w, a) /\ SameReceiver(w, a)
        /\ a.next_send = w.next_send /\ a.out = w.out
        /\ a.tx_free = w.tx_free + k
        /\ QueueOK(a.queue) /\ Len(a.queue) = Len(w.queue) - k
        /\ \A i \in 1 .. Len(a.queue) :
              k + i \in 1 .. Len(w.queue) /\ a.queue[i] = w.queue[k + i]
    <3>1. IsEndpoint(w) /\ QueueOK(w.queue) /\ w.tx_free \in Int
      BY <1>2 DEF Local
    <3> QED BY <3>1, AcknowledgeProgressIs
  <2> HIDE DEF a, k
  <2>2. /\ IsEndpoint(d) /\ SameMachine(a, d) /\ SameReceiver(a, d)
        /\ d.next_send = a.next_send /\ d.tx_free = a.tx_free
        /\ QueueOK(d.queue) /\ Len(d.queue) = Len(a.queue)
        /\ \A i \in 1 .. Len(a.queue) : SameEntry(a.queue[i], d.queue[i])
    BY <2>1, ScoreboardIs
  <2>2a. \/ d.out = a.out
         \/ \E i \in 1 .. Len(a.queue) : d.out = a.out \cup {a.queue[i].segment}
    <3>1. d.out = a.out \/ Resends(a, d, "sack_fast_recovery")
      BY <2>1, ScoreboardIs
    <3> QED BY <3>1 DEF Resends
  <2> HIDE DEF d
  <2>3. Len(w.queue) \in Nat /\ w.tx_free \in Nat
    BY <1>2 DEF Local, QueueOK, IsSequence
  <2>4. d.tx_free \in Nat /\ d.tx_free + Len(d.queue) = w.tx_free + Len(w.queue)
    BY <2>1, <2>2, <2>3
  <2>5. \A i \in 1 .. Len(a.queue) :
           a.queue[i].segment.flags = {"ACK"} /\ WireOK(a.queue[i].segment)
    BY <1>2, <2>1 DEF Local
  <2>6. \A i \in 1 .. Len(d.queue) :
           d.queue[i].segment.flags = {"ACK"} /\ WireOK(d.queue[i].segment)
    BY <2>2, <2>5 DEF SameEntry
  <2>7. SameMachine(w, d) /\ SameReceiver(w, d)
    BY <2>1, <2>2 DEF SameMachine, SameReceiver
  <2>8. Local(d)
    BY <1>2, <2>1, <2>2, <2>4, <2>6, <2>7 DEF Local, Machine, SameMachine, SameReceiver
  <2>9. RstOut(d) = RstOut(w)
    BY <2>1, <2>2a, <2>5 DEF RstOut
  <2>10. OutOK(c, d)
    BY <1>2, <2>1, <2>2a, <2>5 DEF OutOK
  <2> QED BY <1>2, <2>7, <2>8, <2>9, <2>10 DEF Quiet, SameMachine
<1>4. AckPart(c, s) \in {c, w, d}
  BY DEF AckPart, ProcessAck, w
<1>5. Quiet(c, c) /\ OutOK(c, c)
  BY DEF Quiet, OutOK, SameMachine
<1> QED BY <1>2, <1>3, <1>4, <1>5

LEMMA LocalControl ==
    ASSUME NEW c, Local(c), NEW d, IsEndpoint(d), SameSender(c, d),
           SameReceiver(c, d), Machine(d), d.control \in {c.control, NoControl} \/ WireOK(d.control)
    PROVE  Local(d)
  BY DEF Local, SameSender, SameReceiver

LEMMA ControlIsWire ==
    ASSUME NEW c, Local(c), NEW flags
    PROVE  WireOK(MakeSegment(c, flags, 0, 0))
  BY MakeSegmentIs DEF WireOK, Local

LEMMA LocalEvent ==
    ASSUME NEW c, Local(c), NEW event
    PROVE  LET d == PerformActions(Handle(c, event)) IN
           Local(d) /\ OneReset(c, d) /\ OutOK(c, d)
<1> DEFINE t == Handle(c, event)
           s == MakeSegment(t.c, ActionFlags(t.actions), 0, 0)
           d == PerformActions(t)
<1>1. IsEndpoint(c) /\ Machine(c)
  BY DEF Local
<1>2. Machine(d) /\ OneReset(c, d)
  BY <1>1, EventKeepsMachine
<1>3. /\ IsEndpoint(t.c) /\ SameSender(c, t.c) /\ SameReceiver(c, t.c)
      /\ t.c.control = c.control /\ t.c.out = c.out
  BY <1>1, HandleIs
<1> HIDE DEF t
<1>4. /\ IsEndpoint(d) /\ SameSender(t.c, d) /\ SameReceiver(t.c, d)
      /\ \A x \in d.out : x \in t.c.out \/ x = s
      /\ d.control \in {NoControl, s, t.c.control}
  BY <1>3, PerformActionsIs
<1>5. WireOK(s)
  <2>1. t.c.next_send \in SeqNum
    BY <1>3 DEF Local, SameSender
  <2> QED BY <2>1, MakeSegmentIs DEF WireOK
<1> HIDE DEF d, s
<1>6. SameSender(c, d) /\ SameReceiver(c, d)
  BY <1>3, <1>4 DEF SameSender, SameReceiver
<1>7. d.control \in {c.control, NoControl} \/ WireOK(d.control)
  BY <1>3, <1>4, <1>5
<1>8. Local(d)
  BY <1>2, <1>4, <1>6, <1>7, LocalControl
<1>9. OutOK(c, d)
  BY <1>3, <1>4, <1>5 DEF OutOK
<1> QED BY <1>2, <1>8, <1>9 DEF d, t

LEMMA LocalProcessControl ==
    ASSUME NEW c, Local(c), NEW flags
    PROVE  LET d == ProcessControl(c, flags) IN
           Local(d) /\ OneReset(c, d) /\ OutOK(c, d)
<1> DEFINE event == ControlEvent(c, flags)
           d == OnControlEvent(c, event)
           s == MakeSegment(c, {"SYN", "ACK"}, 0, 0)
<1> HIDE DEF event
<1> SUFFICES Local(d) /\ OneReset(c, d) /\ OutOK(c, d)
  BY DEF ProcessControl, event
<1>1. CASE event = "none"
  BY <1>1 DEF OnControlEvent, OneReset, OutOK
<1>2. CASE event # "none" /\ event = "receive_syn" /\ c.state = "syn_received"
  <2> DEFINE yes == TRUE
  <2>1. d = TransmitControl(c, s, yes)
    BY <1>2 DEF OnControlEvent, SendControl
  <2>2. IsEndpoint(c) /\ Machine(c)
    BY DEF Local
  <2>3. WireOK(s) /\ s.flags = {"SYN", "ACK"}
    BY ControlIsWire, MakeSegmentIs
  <2> HIDE DEF d, s, yes
  <2>4a. /\ IsEndpoint(d) /\ SameSender(c, d) /\ SameReceiver(c, d)
         /\ d.state = c.state /\ d.reset_sent = c.reset_sent
         /\ d.control = (IF yes THEN s ELSE c.control) /\ d.out = c.out \cup {s}
    BY <2>1, <2>2, TransmitControlIs
  <2>4. /\ IsEndpoint(d) /\ SameSender(c, d) /\ SameReceiver(c, d)
        /\ d.state = c.state /\ d.reset_sent = c.reset_sent
        /\ d.control = s /\ d.out = c.out \cup {s}
    BY <2>4a DEF yes
  <2>5. Machine(d)
    BY <1>2, <2>2, <2>3, <2>4 DEF Machine
  <2>6. Local(d)
    BY <2>3, <2>4, <2>5, LocalControl
  <2>7. RstOut(d) = RstOut(c)
    BY <2>3, <2>4 DEF RstOut
  <2>8. OneReset(c, d) /\ OutOK(c, d)
    BY <2>3, <2>4, <2>7 DEF OneReset, OutOK
  <2> QED BY <2>6, <2>8
<1>3. CASE event # "none" /\ ~(event = "receive_syn" /\ c.state = "syn_received")
  <2>1. d = PerformActions(Handle(c, event))
    BY <1>3 DEF OnControlEvent
  <2> HIDE DEF d
  <2> QED BY <2>1, LocalEvent
<1> QED BY <1>1, <1>2, <1>3

LEMMA LocalReceive ==
    ASSUME NEW c, Local(c), NEW s, WireOK(s)
    PROVE  LET d == ReceivePayload(c, s, SeqAdd(s.sequence, s.length)) IN
           Local(d) /\ Quiet(c, d) /\ d.out = c.out
<1> DEFINE end == SeqAdd(s.sequence, s.length)
           e == Stored(c, s, InsertRange(c.ranges, c.ack, s.sequence, end))
           d == ReceivePayload(c, s, end)
<1>0. IsEndpoint(c)
  BY DEF Local
<1>1. /\ IsEndpoint(d) /\ SameMachine(c, d) /\ SameSender(c, d) /\ d.out = c.out
      /\ \/ d.slots = c.slots /\ d.rx_free = c.rx_free
         \/ Storable(c, s, end) /\ d = DeliverContiguous(e)
  BY <1>0, ReceivePayloadIs
<1>2. Quiet(c, d)
  BY <1>1 DEF Quiet, RstOut
<1>3. /\ IsFiniteSet(d.slots) /\ Cardinality(d.slots) \in Nat
      /\ d.rx_free \in Nat /\ d.rx_free + Cardinality(d.slots) = ReceiveCapacity
  <2>1. CASE d.slots = c.slots /\ d.rx_free = c.rx_free
    BY <2>1 DEF Local
  <2>2. CASE Storable(c, s, end) /\ d = DeliverContiguous(e)
    <3> DEFINE x == [start |-> s.sequence, end |-> SeqAdd(s.sequence, s.length),
                     data |-> s.data]
    <3>1. x \notin c.slots
      BY <2>2, StoredIsNew
    <3>2. e.slots = c.slots \cup {x} /\ e.rx_free = c.rx_free - 1 /\ IsEndpoint(e)
      BY <1>0, StoredIs
    <3> HIDE DEF x, e
    <3>3. IsFiniteSet(e.slots) /\ Cardinality(e.slots) = Cardinality(c.slots) + 1
      <4>1. IsFiniteSet(c.slots)
        BY DEF Local
      <4>2. /\ IsFiniteSet(c.slots \cup {x})
            /\ Cardinality(c.slots \cup {x}) = Cardinality(c.slots) + 1
        BY <3>1, <4>1, FS_AddElement
      <4> QED BY <3>2, <4>2
    <3> DEFINE stop == DeliveryStop(e)
               ready == Ready(e, stop)
    <3>4. d = HandOver(e, ready, stop)
      BY <2>2 DEF DeliverContiguous
    <3>5. ready \subseteq e.slots
      BY DEF Ready
    <3> HIDE DEF d, stop, ready
    <3>6. d.slots = e.slots \ ready /\ d.rx_free = e.rx_free + Cardinality(ready)
      BY <3>2, <3>4, HandOverIs
    <3>7. IsFiniteSet(ready) /\ e.slots \cap ready = ready
      BY <3>3, <3>5, FS_Subset
    <3>8. /\ IsFiniteSet(e.slots \ ready)
          /\ Cardinality(e.slots \ ready) = Cardinality(e.slots) - Cardinality(ready)
      BY <3>3, <3>7, FS_Difference
    <3>9. /\ Cardinality(ready) \in Nat /\ Cardinality(e.slots \ ready) \in Nat
      BY <3>7, <3>8, FS_CardinalityType
    <3>10. /\ c.rx_free \in Nat /\ c.rx_free # 0 /\ Cardinality(c.slots) \in Nat
           /\ c.rx_free + Cardinality(c.slots) = ReceiveCapacity
      BY <2>2 DEF Local, Storable
    <3> QED BY <3>2, <3>3, <3>6, <3>8, <3>9, <3>10
  <2> QED BY <1>1, <2>1, <2>2
<1> HIDE DEF d
<1>4. Local(d)
  BY <1>1, <1>3 DEF Local, Machine, SameMachine, SameSender
<1> QED BY <1>1, <1>2, <1>4 DEF d

\* An acknowledgement sent after the payload.
LEMMA LocalReply ==
    ASSUME NEW c, Local(c)
    PROVE  LET d == SendControl(c, {"ACK"}, FALSE) IN
           Local(d) /\ Quiet(c, d) /\ OutOK(c, d)
<1> DEFINE no == FALSE
           s == MakeSegment(c, {"ACK"}, 0, 0)
           d == TransmitControl(c, s, no)
<1>1. SendControl(c, {"ACK"}, FALSE) = d
  BY DEF SendControl
<1>2. IsEndpoint(c) /\ Machine(c)
  BY DEF Local
<1>3. WireOK(s) /\ s.flags = {"ACK"}
  BY ControlIsWire, MakeSegmentIs
<1> HIDE DEF no, s
<1>4. /\ IsEndpoint(d) /\ SameSender(c, d) /\ SameReceiver(c, d)
      /\ d.state = c.state /\ d.reset_sent = c.reset_sent
      /\ d.control = (IF no THEN s ELSE c.control)
      /\ d.out = c.out \cup {s}
  BY <1>2, TransmitControlIs
<1> HIDE DEF d
<1>5. d.control = c.control
  BY <1>4 DEF no
<1>6. Machine(d)
  BY <1>2, <1>4, <1>5 DEF Machine
<1>7. Local(d)
  BY <1>4, <1>5, <1>6, LocalControl
<1>8. Quiet(c, d) /\ OutOK(c, d)
  BY <1>3, <1>4, <1>5 DEF Quiet, OutOK, RstOut, SameMachine
<1> QED BY <1>1, <1>7, <1>8

LEMMA LocalPayload ==
    ASSUME NEW c, Local(c), NEW s, WireOK(s)
    PROVE  LET d == PayloadPart(c, s) IN Local(d) /\ Quiet(c, d) /\ OutOK(c, d)
<1>1. CASE s.length > 0 /\ c.state = "established"
  <2> DEFINE r == ReceivePayload(c, s, SeqAdd(s.sequence, s.length))
             d == SendControl(r, {"ACK"}, FALSE)
  <2>1. PayloadPart(c, s) = d
    BY <1>1 DEF PayloadPart, ProcessPayload
  <2>2. Local(r) /\ Quiet(c, r) /\ r.out = c.out
    BY LocalReceive
  <2> HIDE DEF r
  <2>3. Local(d) /\ Quiet(r, d) /\ OutOK(r, d)
    BY <2>2, LocalReply
  <2> HIDE DEF d
  <2> QED BY <2>1, <2>2, <2>3 DEF Quiet, OutOK, SameMachine
<1>2. CASE ~(s.length > 0 /\ c.state = "established")
  BY <1>2 DEF PayloadPart, Quiet, OutOK, SameMachine
<1> QED BY <1>1, <1>2

\* What an operation does to resets and to the network.
Step(c, d) == Local(d) /\ OneReset(c, d) /\ OutOK(c, d)

LEMMA QuietBefore ==
    ASSUME NEW c, NEW d, NEW e, Quiet(c, d), OutOK(c, d), Step(d, e)
    PROVE  Step(c, e)
  BY DEF Quiet, OutOK, Step, OneReset, SameMachine

LEMMA QuietAfter ==
    ASSUME NEW c, NEW d, NEW e, Step(c, d), Local(e), Quiet(d, e), OutOK(d, e)
    PROVE  Step(c, e)
  BY DEF Quiet, OutOK, Step, OneReset, SameMachine

LEMMA LocalSegment ==
    ASSUME NEW c, Local(c), NEW s, WireOK(s)
    PROVE  Step(c, OnSegment(c, s))
<1> DEFINE a == AckPart(c, s)
           d == ProcessControl(a, s.flags)
           e == PayloadPart(d, s)
<1>1. Local(a) /\ Quiet(c, a) /\ OutOK(c, a)
  BY LocalAck
<1> HIDE DEF a
<1>2. Step(a, d)
  BY <1>1, LocalProcessControl DEF Step
<1> HIDE DEF d
<1>3. Local(e) /\ Quiet(d, e) /\ OutOK(d, e)
  BY <1>2, LocalPayload DEF Step
<1> HIDE DEF e
<1>4. Step(c, d)
  BY <1>1, <1>2, QuietBefore
<1>5. Step(c, e)
  BY <1>3, <1>4, QuietAfter
<1> QED BY <1>5 DEF OnSegment, a, d, e

LEMMA LocalTick ==
    ASSUME NEW c, Local(c), NEW t, NEW r, NEW o
    PROVE  Step(c, Tick(c, t, r, o))
<1> DEFINE a == ExpireTimeWait(c, t)
           b == RepeatControl(a, r)
           d == RetransmitTimeout(b, o)
<1>1. Step(c, a)
  <2>1. CASE c.state = "time_wait" /\ t
    BY <2>1, LocalEvent DEF ExpireTimeWait, Step
  <2>2. CASE ~(c.state = "time_wait" /\ t)
    BY <2>2 DEF ExpireTimeWait, Step, OneReset, OutOK
  <2> QED BY <2>1, <2>2
<1> HIDE DEF a
<1>2. Local(b) /\ Quiet(a, b) /\ OutOK(a, b)
  <2>1. CASE a.control # NoControl /\ r
    <3>1. b = Transmit(a, a.control)
      BY <2>1 DEF RepeatControl
    <3>2. IsEndpoint(a) /\ Machine(a) /\ WireOK(a.control)
      BY <1>1, <2>1 DEF Step, Local
    <3> HIDE DEF b
    <3>3. b.state = a.state /\ b.reset_sent = a.reset_sent /\ b.control = a.control
          /\ b.out = a.out \cup {a.control} /\ IsEndpoint(b)
      BY <3>1, <3>2 DEF Transmit, IsEndpoint, Fields
    <3>4. SameSender(a, b)
      BY <3>1, <3>2 DEF Transmit, IsEndpoint, Fields, SameSender
    <3>5. SameReceiver(a, b)
      BY <3>1, <3>2 DEF Transmit, IsEndpoint, Fields, SameReceiver
    <3>6. Machine(b)
      BY <3>2, <3>3 DEF Machine
    <3>7. Local(b)
      BY <1>1, <3>3, <3>4, <3>5, <3>6, LocalControl DEF Step
    <3>8. "RST" \notin a.control.flags
      BY <3>2 DEF Machine
    <3>9. RstOut(b) = RstOut(a)
      BY <3>3, <3>8 DEF RstOut
    <3>10. Quiet(a, b) /\ OutOK(a, b)
      BY <3>2, <3>3, <3>9 DEF Quiet, OutOK, SameMachine
    <3> QED BY <3>7, <3>10
  <2>2. CASE ~(a.control # NoControl /\ r)
    BY <1>1, <2>2 DEF RepeatControl, Step, Quiet, OutOK, SameMachine
  <2> QED BY <2>1, <2>2
<1> HIDE DEF b
<1>3. Local(d) /\ Quiet(b, d) /\ OutOK(b, d)
  <2>1. IsEndpoint(b) /\ QueueOK(b.queue)
    BY <1>2 DEF Local
  <2>2. /\ IsEndpoint(d) /\ SameMachine(b, d) /\ SameReceiver(b, d)
        /\ d.next_send = b.next_send /\ d.tx_free = b.tx_free
        /\ QueueOK(d.queue) /\ Len(d.queue) = Len(b.queue)
        /\ \A i \in 1 .. Len(b.queue) : SameEntry(b.queue[i], d.queue[i])
    BY <2>1, RetransmitTimeoutIs
  <2>3. d.out = b.out \/ Resends(b, d, "rto_timeout")
    BY <2>1, RetransmitTimeoutIs
  <2> HIDE DEF d
  <2>4. d.out = b.out \/ \E i \in 1 .. Len(b.queue) : d.out = b.out \cup {b.queue[i].segment}
    BY <2>3 DEF Resends
  <2>5. \A i \in 1 .. Len(b.queue) :
           b.queue[i].segment.flags = {"ACK"} /\ WireOK(b.queue[i].segment)
    BY <1>2 DEF Local
  <2>6. \A i \in 1 .. Len(d.queue) :
           d.queue[i].segment.flags = {"ACK"} /\ WireOK(d.queue[i].segment)
    BY <2>2, <2>5 DEF SameEntry
  <2>7. Local(d)
    BY <1>2, <2>2, <2>6 DEF Local, Machine, SameMachine, SameReceiver
  <2>8. RstOut(d) = RstOut(b) /\ OutOK(b, d)
    BY <2>4, <2>5 DEF RstOut, OutOK
  <2> QED BY <2>2, <2>7, <2>8 DEF Quiet
<1> HIDE DEF d
<1>4. Step(c, b)
  BY <1>1, <1>2, QuietAfter
<1>5. Step(c, d)
  BY <1>3, <1>4, QuietAfter
<1> QED BY <1>5 DEF Tick, a, b, d

LEMMA LocalSend ==
    ASSUME NEW c, Local(c), NEW length \in Nat, NEW data, CanSend(c, length)
    PROVE  Step(c, Send(c, length, data))
<1> DEFINE s == MakeSegment(c, {"ACK"}, length, data)
           e == [start |-> s.sequence, end |-> SeqAdd(s.sequence, s.length),
                 segment |-> s, retransmitted |-> FALSE, sacked |-> FALSE]
           q == Append(c.queue, e)
           n == SeqAdd(c.next_send, s.length)
           r == [c EXCEPT !.tx_free = @ - 1, !.next_send = n, !.queue = q]
           d == Transmit(r, s)
<1>1. Send(c, length, data) = d
  BY DEF Send, SendSegment, Retain
<1>2. /\ s.sequence = c.next_send /\ s.flags = {"ACK"} /\ s.length = length
  BY MakeSegmentIs
<1>3. IsEndpoint(c) /\ QueueOK(c.queue) /\ c.next_send \in SeqNum
  BY DEF Local
<1>4. WireOK(s) /\ n \in SeqNum
  BY <1>2, <1>3, AddIs DEF WireOK
<1>5. IsEntry(e) /\ e.segment = s
  BY DEF IsEntry, EntryFields
<1> HIDE DEF e, s
<1>6. /\ QueueOK(q) /\ Len(q) = Len(c.queue) + 1 /\ Len(c.queue) \in Nat
      /\ \A i \in 1 .. Len(q) :
            q[i].segment.flags = {"ACK"} /\ WireOK(q[i].segment)
  <2>1. c.queue \in Seq(Range(c.queue) \cup {e}) /\ Len(c.queue) \in Nat
    BY <1>3 DEF QueueOK, IsSequence
  <2>2. q \in Seq(Range(c.queue) \cup {e}) /\ Len(q) = Len(c.queue) + 1
        /\ \A i \in 1 .. Len(q) : q[i] = IF i <= Len(c.queue) THEN c.queue[i] ELSE e
    BY <2>1
  <2> HIDE DEF q
  <2>3. IsSequence(q)
    BY <2>2, SequenceOfAny
  <2>4. \A i \in 1 .. Len(q) : (i \in 1 .. Len(c.queue) /\ q[i] = c.queue[i]) \/ q[i] = e
    BY <2>1, <2>2
  <2>5. \A i \in 1 .. Len(q) : IsEntry(q[i])
    BY <1>3, <1>5, <2>4 DEF QueueOK
  <2>6. \A i \in 1 .. Len(q) : q[i].segment.flags = {"ACK"} /\ WireOK(q[i].segment)
    BY <1>2, <1>4, <1>5, <2>4 DEF Local
  <2> QED BY <2>1, <2>2, <2>3, <2>5, <2>6 DEF QueueOK
<1> HIDE DEF q, n
<1>7. IsEndpoint(d) /\ SameMachine(c, d)
  BY <1>3 DEF Transmit, IsEndpoint, Fields, SameMachine
<1>8. SameReceiver(c, d)
  BY <1>3 DEF Transmit, IsEndpoint, Fields, SameReceiver
<1>9. /\ d.tx_free = c.tx_free - 1 /\ d.next_send = n /\ d.queue = q
      /\ d.out = c.out \cup {s}
  BY <1>3 DEF Transmit, IsEndpoint, Fields
<1> HIDE DEF d, r
<1>10. c.tx_free \in Nat /\ c.tx_free > 0
  BY DEF CanSend, Local
<1>11. d.tx_free \in Nat /\ d.tx_free + Len(d.queue) = c.tx_free + Len(c.queue)
  <2>1. Len(d.queue) = Len(c.queue) + 1 /\ Len(c.queue) \in Nat
    BY <1>6, <1>9
  <2> QED BY <1>9, <1>10, <2>1
<1>12. Local(d)
  BY <1>4, <1>6, <1>7, <1>8, <1>9, <1>11
     DEF Local, Machine, SameMachine, SameReceiver
<1>13. RstOut(d) = RstOut(c) /\ OutOK(c, d)
  BY <1>2, <1>4, <1>9 DEF RstOut, OutOK
<1>14. Step(c, d)
  BY <1>7, <1>12, <1>13 DEF Step, OneReset, SameMachine
<1> QED BY <1>1, <1>14

-----------------------------------------------------------------------------
(* The invariant of the two endpoints. *)

ResetsOK(p) == /\ resets[p] \in 0 .. 1
               /\ ~conn[p].reset_sent => resets[p] = 0

LocalInv ==
    /\ conn = [p \in Peers |-> conn[p]] /\ resets = [p \in Peers |-> resets[p]]
    /\ net = [p \in Peers |-> net[p]]
    /\ \A p \in Peers : /\ Local(conn[p]) /\ conn[p].out = {}
                        /\ ResetsOK(p)
                        /\ \A s \in net[p] : WireOK(s)

LEMMA SmallSets ==
    /\ \A n \in Nat : Min({2, n}) = IF n < 2 THEN n ELSE 2
    /\ Cardinality({}) = 0 /\ \A s : Cardinality({s}) = 1
<1>1. ASSUME NEW n \in Nat PROVE Min({2, n}) = IF n < 2 THEN n ELSE 2
  <2>1. {2, n} \subseteq Nat /\ {2, n} # {}
    OBVIOUS
  <2>2. Min({2, n}) \in {2, n} /\ \A y \in {2, n} : Min({2, n}) <= y
    BY <2>1, LeastIs
  <2> QED BY <2>2
<1> QED BY <1>1, FS_EmptySet, FS_Singleton

\* A step of one endpoint keeps the invariant.
LEMMA PerformKeeps ==
    ASSUME LocalInv, NEW p \in Peers, NEW c, Step(conn[p], c), NEW gone,
           Perform(p, c, gone)
    PROVE  LocalInv'
<1> DEFINE e == [c EXCEPT !.out = {}]
<1>1. Local(c) /\ OneReset(conn[p], c) /\ OutOK(conn[p], c) /\ conn[p].out = {}
  BY DEF Step, LocalInv
<1>2. IsEndpoint(c)
  BY <1>1 DEF Local
<1>3. IsEndpoint(e) /\ SameMachine(c, e) /\ e.out = {}
  BY <1>2 DEF IsEndpoint, Fields, SameMachine
<1>4. SameSender(c, e)
  BY <1>2 DEF IsEndpoint, Fields, SameSender
<1>5. SameReceiver(c, e)
  BY <1>2 DEF IsEndpoint, Fields, SameReceiver
<1>6. Local(e)
  BY <1>1, <1>3, <1>4, <1>5 DEF Local, Machine, SameMachine, SameSender, SameReceiver
<1>7. /\ conn' = [conn EXCEPT ![p] = e]
      /\ resets' = [resets EXCEPT ![p] = CountResets(p, c)]
      /\ net' = [net EXCEPT ![p] = @ \ gone, ![Other(p)] = Carry(@, c.out)]
  BY DEF Perform
<1> HIDE DEF e
<1>8. /\ conn' = [q \in Peers |-> conn'[q]] /\ resets' = [q \in Peers |-> resets'[q]]
      /\ conn'[p] = e /\ resets'[p] = CountResets(p, c)
      /\ \A q \in Peers : q # p => conn'[q] = conn[q] /\ resets'[q] = resets[q]
  BY <1>7 DEF LocalInv
<1>9. Other(p) \in Peers /\ Other(p) # p /\ \A q \in Peers : q = p \/ q = Other(p)
  BY TransportAssumption DEF Peers, Other
<1>10. /\ net' = [q \in Peers |-> net'[q]] /\ net'[p] = net[p] \ gone
       /\ net'[Other(p)] = Carry(net[Other(p)], c.out)
  BY <1>7, <1>9 DEF LocalInv
<1>11. \A q \in Peers : \A s \in net'[q] : WireOK(s)
  <2>1. \A s \in c.out : WireOK(s)
    BY <1>1 DEF OutOK
  <2>2. \A s \in net'[Other(p)] : s \in net[Other(p)] \/ s \in c.out
    BY <1>10 DEF Carry
  <2> QED BY <1>9, <1>10, <2>1, <2>2 DEF LocalInv
<1>12. resets[p] \in 0 .. 1 /\ (~conn[p].reset_sent => resets[p] = 0)
  BY DEF LocalInv, ResetsOK
<1>13. CountResets(p, c) \in 0 .. 1 /\ (~c.reset_sent => CountResets(p, c) = 0)
  <2>1. CASE conn[p].state = "closed" /\ c.state # "closed"
    BY <2>1 DEF CountResets
  <2>2. CASE ~(conn[p].state = "closed" /\ c.state # "closed")
    <3>1. CountResets(p, c) = Min({2, resets[p] + Cardinality(RstOut(c))})
      BY <2>2 DEF CountResets, RstOut
    <3>2. RstOut(conn[p]) = {}
      BY <1>1 DEF RstOut
    <3>3. CASE RstOut(c) = {} /\ (conn[p].reset_sent => c.reset_sent)
      <4>1. Cardinality(RstOut(c)) = 0
        BY <3>3, SmallSets
      <4>2. Min({2, resets[p] + 0}) = resets[p]
        BY <1>12, SmallSets
      <4> QED BY <1>12, <3>1, <3>3, <4>1, <4>2
    <3>4. CASE ~conn[p].reset_sent /\ c.reset_sent /\ \E s : RstOut(c) = {s}
      <4>1. Cardinality(RstOut(c)) = 1
        BY <3>4, SmallSets
      <4>2. Min({2, 0 + 1}) = 1
        BY SmallSets
      <4> QED BY <1>12, <3>1, <3>4, <4>1, <4>2
    <3> QED BY <1>1, <2>2, <3>2, <3>3, <3>4 DEF OneReset
  <2> QED BY <2>1, <2>2
<1>14. ASSUME NEW q \in Peers
       PROVE  Local(conn'[q]) /\ conn'[q].out = {} /\ ResetsOK(q)'
  <2>1. CASE q = p
    BY <1>3, <1>6, <1>8, <1>13, <2>1 DEF ResetsOK, SameMachine
  <2>2. CASE q # p
    BY <1>8, <2>2 DEF LocalInv, ResetsOK
  <2> QED BY <2>1, <2>2
<1> QED BY <1>8, <1>10, <1>11, <1>14 DEF LocalInv

LEMMA LocalNext == LocalInv /\ [Next]_vars => LocalInv'
<1> SUFFICES ASSUME LocalInv, [Next]_vars PROVE LocalInv'
  OBVIOUS
<1>1. CASE UNCHANGED vars
  BY <1>1 DEF vars, LocalInv, ResetsOK
<1>2. ASSUME NEW p \in Peers, AppConnect(p) PROVE LocalInv'
  <2>1. Step(conn[p], Connect(conn[p]))
    BY LocalEvent DEF LocalInv, Step, Connect
  <2> QED BY <1>2, <2>1, PerformKeeps DEF AppConnect
<1>3. ASSUME NEW p \in Peers, AppClose(p) PROVE LocalInv'
  <2>1. Step(conn[p], Close(conn[p]))
    BY LocalEvent DEF LocalInv, Step, Close
  <2> QED BY <1>3, <2>1, PerformKeeps DEF AppClose
<1>4. ASSUME NEW p \in Peers, AppSend(p) PROVE LocalInv'
  <2>1. PICK length \in Lengths : /\ CanSend(conn[p], length)
                                  /\ Perform(p, Send(conn[p], length, accepted[p] + 1), {})
    BY <1>4 DEF AppSend
  <2>2. length \in Nat
    BY TransportAssumption, ConnectionAssumption
  <2>3. Step(conn[p], Send(conn[p], length, accepted[p] + 1))
    BY <2>1, <2>2, LocalSend DEF LocalInv
  <2> QED BY <2>1, <2>3, PerformKeeps
<1>5. ASSUME NEW p \in Peers, ReceiveSegment(p) PROVE LocalInv'
  <2>1. PICK s \in net[p] : \E c \in {OnSegment(conn[p], s)}, gone \in {{}, {s}} :
                                Perform(p, c, gone)
    BY <1>5 DEF ReceiveSegment
  <2>2. PICK gone \in {{}, {s}} : Perform(p, OnSegment(conn[p], s), gone)
    BY <2>1
  <2>3. Step(conn[p], OnSegment(conn[p], s))
    BY LocalSegment DEF LocalInv
  <2> QED BY <2>2, <2>3, PerformKeeps
<1>6. ASSUME NEW p \in Peers, Lose(p) PROVE LocalInv'
  BY <1>6 DEF Lose, LocalInv, ResetsOK
<1>7. ASSUME NEW p \in Peers, AnyTick(p) PROVE LocalInv'
  <2>1. PICK t, r, o : Perform(p, Tick(conn[p], t, r, o), {})
    BY <1>7 DEF AnyTick, TimerTick
  <2>2. Step(conn[p], Tick(conn[p], t, r, o))
    BY LocalTick DEF LocalInv
  <2> QED BY <2>1, <2>2, PerformKeeps
<1> QED BY <1>1, <1>2, <1>3, <1>4, <1>5, <1>6, <1>7 DEF Next

LEMMA NewEndpointLocal ==
    ASSUME NEW p \in Peers
    PROVE  Local(NewEndpoint(p)) /\ NewEndpoint(p).out = {}
<1> DEFINE a == InitialSequence[p]
           b == InitialSequence[Other(p)]
           c == NewConnection(a, b)
<1>1. a \in SeqNum
  BY TransportAssumption
<1> HIDE DEF a, b
<1>2. /\ IsEndpoint(c)
      /\ c.state = "closed" /\ c.reset_sent \in BOOLEAN /\ c.control = NoControl
      /\ c.queue = <<>> /\ c.next_send = a /\ c.tx_free = PoolBuffers
      /\ c.slots = {} /\ c.rx_free = ReceiveCapacity /\ c.out = {}
  BY NewConnectionIs
<1> HIDE DEF c
<1>3. Machine(c)
  BY <1>2 DEF Machine, NoControl, ConnectionState
<1>4. QueueOK(c.queue) /\ Len(c.queue) = 0
  <2>1. <<>> \in Seq({}) /\ Len(<<>>) = 0
    OBVIOUS
  <2>2. IsSequence(<<>>)
    BY <2>1, SequenceOfAny
  <2> QED BY <1>2, <2>1, <2>2 DEF QueueOK
<1>5. PoolBuffers \in Nat /\ ReceiveCapacity \in Nat
  BY ConnectionAssumption
<1>6. IsFiniteSet(c.slots) /\ Cardinality(c.slots) = 0
  BY <1>2, FS_EmptySet
<1>7. Local(c)
  BY <1>1, <1>2, <1>3, <1>4, <1>5, <1>6 DEF Local
<1> QED BY <1>2, <1>7 DEF c, a, b, NewEndpoint

\* An endpoint whose fields that Local does not look at are changed.
LEMMA LocalOther ==
    ASSUME NEW c, Local(c), NEW d, IsEndpoint(d), SameReceiver(c, d), Machine(d),
           d.control = c.control, d.queue = c.queue, d.next_send = c.next_send,
           d.tx_free = c.tx_free
    PROVE  Local(d)
  BY DEF Local, SameReceiver

LEMMA EstablishedLocal ==
    ASSUME NEW p \in Peers
    PROVE  Local(Established(p)) /\ Established(p).out = {}
<1> DEFINE c == NewEndpoint(p)
           w == AdvertisedWindow(NewEndpoint(Other(p)))
           f == [c.fast EXCEPT !.duplicates = 1]
           d == [c EXCEPT !.state = "established", !.fast = f, !.peer_window = w]
<1>1. Established(p) = d
  BY DEF Established
<1>2. Local(c) /\ c.out = {} /\ IsEndpoint(c)
  BY NewEndpointLocal DEF Local
<1>3. c.control = NoControl /\ c.reset_sent \in BOOLEAN
  BY NewConnectionIs DEF NewEndpoint
<1> HIDE DEF c, w, f
<1>4. SameReceiver(c, d)
  BY <1>2 DEF IsEndpoint, Fields, SameReceiver
<1>5. /\ IsEndpoint(d) /\ d.state = "established" /\ d.reset_sent = c.reset_sent
      /\ d.control = c.control /\ d.queue = c.queue /\ d.next_send = c.next_send
      /\ d.tx_free = c.tx_free /\ d.out = c.out
  BY <1>2 DEF IsEndpoint, Fields
<1> HIDE DEF d
<1>6. Machine(d)
  BY <1>3, <1>5 DEF Machine, NoControl, ConnectionState
<1>7. Local(d)
  BY <1>2, <1>4, <1>5, <1>6, LocalOther
<1> QED BY <1>1, <1>2, <1>5, <1>7

LEMMA LocalInit == Init \/ InitEstablished \/ InitBothOpening => LocalInv
<1>1. ASSUME Init PROVE LocalInv
  BY <1>1, NewEndpointLocal DEF Init, LocalInv, ResetsOK
<1>2. ASSUME InitEstablished PROVE LocalInv
  BY <1>2, EstablishedLocal DEF InitEstablished, LocalInv, ResetsOK
<1>3. ASSUME InitBothOpening PROVE LocalInv
  <2>1. ASSUME NEW p \in Peers
        PROVE  LET c == Connect(NewEndpoint(p))
                   d == [c EXCEPT !.out = {}]
               IN  Local(d) /\ d.out = {} /\ \A s \in c.out : WireOK(s)
    <3> DEFINE c == Connect(NewEndpoint(p))
               d == [c EXCEPT !.out = {}]
    <3>1. Local(c) /\ OutOK(NewEndpoint(p), c) /\ NewEndpoint(p).out = {}
      BY NewEndpointLocal, LocalEvent DEF Connect
    <3>2. IsEndpoint(c)
      BY <3>1 DEF Local
    <3> HIDE DEF c
    <3>3. SameReceiver(c, d)
      BY <3>2 DEF IsEndpoint, Fields, SameReceiver
    <3>4. /\ IsEndpoint(d) /\ d.state = c.state /\ d.reset_sent = c.reset_sent
          /\ d.control = c.control /\ d.queue = c.queue /\ d.next_send = c.next_send
          /\ d.tx_free = c.tx_free /\ d.out = {}
      BY <3>2 DEF IsEndpoint, Fields
    <3> HIDE DEF d
    <3>5. Machine(d)
      BY <3>1, <3>4 DEF Machine, Local
    <3>6. Local(d)
      BY <3>1, <3>3, <3>4, <3>5, LocalOther
    <3> QED BY <3>1, <3>4, <3>6 DEF OutOK, c, d
  <2>2. \A p \in Peers : Other(p) \in Peers
    BY DEF Peers, Other
  <2>3. \A p \in Peers : Local(conn[p]) /\ conn[p].out = {}
    BY <1>3, <2>1 DEF InitBothOpening
  <2>4. \A p \in Peers : \A s \in net[p] : WireOK(s)
    BY <1>3, <2>1, <2>2 DEF InitBothOpening
  <2> QED BY <1>3, <2>3, <2>4 DEF InitBothOpening, LocalInv, ResetsOK
<1> QED BY <1>1, <1>2, <1>3

\* The invariant holds of every specification of the module.
THEOREM LocalCorrect ==
    (Init \/ InitEstablished \/ InitBothOpening) /\ [][Next]_vars => []LocalInv
  BY LocalInit, LocalNext, PTL

\* Whatever undefined events an attempt meets, its own retries included, an
\* endpoint sends at most one RST in it.
THEOREM OneResetPerAttempt == Spec => []AtMostOneReset
<1>1. LocalInv => AtMostOneReset
  BY DEF LocalInv, ResetsOK, AtMostOneReset
<1> QED BY <1>1, LocalCorrect, PTL DEF Spec

\* tick repeats only the control segment of the phase the endpoint is in.
THEOREM RetriesMatch == Spec => []RetryMatchesState
<1>1. LocalInv => RetryMatchesState
  <2> SUFFICES ASSUME LocalInv, NEW p \in Peers
               PROVE  LET c == conn[p] IN
                      /\ "SYN" \in c.control.flags =>
                            c.state \in {"syn_sent", "syn_received", "closed"}
                      /\ "FIN" \in c.control.flags =>
                            c.state \in {"fin_wait_1", "fin_wait_2", "time_wait",
                                        "last_ack", "closed"}
                      /\ c.state \in {"syn_sent", "syn_received", "fin_wait_1", "last_ack"} =>
                            c.control # NoControl
    BY DEF RetryMatchesState
  <2>1. Machine(conn[p])
    BY DEF LocalInv, Local
  <2>2. NoControl.flags = {}
    BY DEF NoControl
  <2> QED BY <2>1, <2>2 DEF Machine, ConnectionState
<1> QED BY <1>1, LocalCorrect, PTL DEF Spec

\* No buffer of either pool is lost or counted twice, in a connection that is
\* opened and closed again and again and in a long transfer.
THEOREM NoBufferLost ==
    /\ Spec => []BuffersAccounted
    /\ TransferSpec => []BuffersAccounted
<1>1. LocalInv => BuffersAccounted
  BY DEF LocalInv, Local, BuffersAccounted
<1> QED BY <1>1, LocalCorrect, PTL DEF Spec, TransferSpec

-----------------------------------------------------------------------------
(* Loss recovery.  An epoch ends when an ACK reaches its recovery point, the *)
(* end of a segment that was retained when it began; as long as the epoch    *)
(* lasts that segment is still retained.                                     *)

FastFields == {"last_ack", "recovery_point", "duplicates", "in_recovery"}
IsFast(f) == f = [x \in FastFields |-> f[x]]

CongestionFields == {"cwnd", "ssthresh", "acked", "recovery_point", "in_recovery", "phase"}
IsCongestion(g) == g = [x \in CongestionFields |-> g[x]]

LEMMA NewFastIs ==
    ASSUME NEW ack
    PROVE  LET f == NewFastRetransmit(ack) IN
           IsFast(f) /\ f.last_ack = ack /\ ~f.in_recovery
  BY DEF NewFastRetransmit, IsFast, FastFields

LEMMA NewCongestionIs ==
    LET g == NewCongestion IN
    /\ IsCongestion(g) /\ ~g.in_recovery /\ g.ssthresh = MaxCwnd
    /\ g.cwnd = AddToCwnd(0, Mss * 10) /\ g.acked = 0
<1> DEFINE w == AddToCwnd(0, Mss * kInitialCongestionWindowSegments)
           phase == IF w >= MaxCwnd THEN "congestion_avoidance" ELSE "slow_start"
           no == FALSE
           g == [cwnd |-> w, ssthresh |-> MaxCwnd, acked |-> 0, recovery_point |-> 0,
                 in_recovery |-> no, phase |-> phase]
<1>1. NewCongestion = g
  BY DEF NewCongestion
<1> HIDE DEF w, phase, no
<1>2. IsCongestion(g)
  BY DEF IsCongestion, CongestionFields
<1>3. g.cwnd = w /\ g.ssthresh = MaxCwnd /\ g.acked = 0 /\ g.in_recovery = no
  OBVIOUS
<1> HIDE DEF g
<1> QED BY <1>1, <1>2, <1>3 DEF w, no, kInitialCongestionWindowSegments

LEMMA OnAckIs ==
    ASSUME NEW g, IsCongestion(g), NEW bytes
    PROVE  LET h == CongestionOnAck(g, bytes) IN
           /\ IsCongestion(h) /\ h.ssthresh = g.ssthresh
           /\ h.recovery_point = g.recovery_point /\ h.in_recovery = g.in_recovery
<1> DEFINE grown == AddToCwnd(g.cwnd, bytes)
           acked == g.acked + bytes
           used == RoundsUse(g.cwnd)
           rounds == Min({k \in 0 .. acked : acked - used[k] < AddToCwnd(g.cwnd, k * Mss)})
           w == AddToCwnd(g.cwnd, rounds * Mss)
           r == acked - used[rounds]
           a == [g EXCEPT !.cwnd = grown, !.acked = 0, !.phase = "congestion_avoidance"]
           b == [g EXCEPT !.cwnd = grown]
           d == [g EXCEPT !.cwnd = w, !.acked = r]
           h == CongestionOnAck(g, bytes)
<1>1. h \in {g, a, b, d}
  BY DEF CongestionOnAck
<1> HIDE DEF grown, w, r, h
<1>2. /\ IsCongestion(a) /\ a.ssthresh = g.ssthresh
      /\ a.recovery_point = g.recovery_point /\ a.in_recovery = g.in_recovery
  BY DEF IsCongestion, CongestionFields
<1>3. /\ IsCongestion(b) /\ b.ssthresh = g.ssthresh
      /\ b.recovery_point = g.recovery_point /\ b.in_recovery = g.in_recovery
  BY DEF IsCongestion, CongestionFields
<1>4. /\ IsCongestion(d) /\ d.ssthresh = g.ssthresh
      /\ d.recovery_point = g.recovery_point /\ d.in_recovery = g.in_recovery
  BY DEF IsCongestion, CongestionFields
<1> HIDE DEF a, b, d
<1>5. /\ IsCongestion(h) /\ h.ssthresh = g.ssthresh
      /\ h.recovery_point = g.recovery_point /\ h.in_recovery = g.in_recovery
  BY <1>1, <1>2, <1>3, <1>4
<1> QED BY <1>5 DEF h

LEMMA OnRecoveryAckIs ==
    ASSUME NEW g, IsCongestion(g), NEW ack
    PROVE  LET h == CongestionOnRecoveryAck(g, ack) IN
           /\ IsCongestion(h) /\ h.ssthresh = g.ssthresh /\ h.cwnd = g.cwnd
           /\ h.acked = g.acked /\ h.recovery_point = g.recovery_point
           /\ h.in_recovery <=> g.in_recovery /\ ~SequenceLessEqual(g.recovery_point, ack)
<1> DEFINE v == g.in_recovery /\ ~SequenceLessEqual(g.recovery_point, ack)
           h == [g EXCEPT !.in_recovery = v]
<1>1. CongestionOnRecoveryAck(g, ack) = h
  BY DEF CongestionOnRecoveryAck
<1> HIDE DEF v
<1>2. /\ IsCongestion(h) /\ h.ssthresh = g.ssthresh /\ h.cwnd = g.cwnd
      /\ h.acked = g.acked /\ h.recovery_point = g.recovery_point /\ h.in_recovery = v
  BY DEF IsCongestion, CongestionFields
<1> HIDE DEF h
<1>3. h.in_recovery <=> v
  BY <1>2
<1> QED BY <1>1, <1>2, <1>3 DEF v

\* What a loss leaves of the window, and the epoch it begins.
CutTo(flight) == Min({Max({2 * Mss, flight \div 2}), MaxCwnd})

NewEpoch(h, signal, flight, point) ==
    /\ h.in_recovery /\ h.recovery_point = point
    /\ h.ssthresh = CutTo(flight) /\ h.acked = 0
    /\ h.cwnd = IF signal = "rto_timeout" THEN Mss ELSE CutTo(flight)

LEMMA OnLossIs ==
    ASSUME NEW g, IsCongestion(g), NEW signal, NEW flight, NEW point
    PROVE  LET h == CongestionOnLoss(g, signal, flight, point) IN
           /\ IsCongestion(h)
           /\ g.in_recovery => h = g
           /\ ~g.in_recovery => NewEpoch(h, signal, flight, point)
<1> DEFINE threshold == CutTo(flight)
           w == IF signal = "rto_timeout" THEN Mss ELSE threshold
           phase == IF signal = "rto_timeout" THEN "slow_start" ELSE "congestion_avoidance"
           yes == TRUE
           d == [cwnd |-> w, ssthresh |-> threshold, acked |-> 0, recovery_point |-> point,
                 in_recovery |-> yes, phase |-> phase]
           h == CongestionOnLoss(g, signal, flight, point)
<1>1. CASE g.in_recovery
  BY <1>1 DEF CongestionOnLoss
<1>2. CASE ~g.in_recovery
  <2>1. h = d
    BY <1>2 DEF CongestionOnLoss, CutTo
  <2> HIDE DEF threshold, w, phase, yes, h
  <2>2. IsCongestion(d)
    BY DEF IsCongestion, CongestionFields
  <2>3. /\ d.cwnd = w /\ d.ssthresh = threshold /\ d.acked = 0
        /\ d.recovery_point = point /\ d.in_recovery = yes
    OBVIOUS
  <2> HIDE DEF d
  <2>4. d.in_recovery
    BY <2>3 DEF yes
  <2>5. NewEpoch(d, signal, flight, point)
    BY <2>3, <2>4 DEF NewEpoch, threshold, w
  <2> QED BY <1>2, <2>1, <2>2, <2>5 DEF h
<1> QED BY <1>1, <1>2

LEMMA FastIs ==
    ASSUME NEW f, IsFast(f), NEW ack, NEW q
    PROVE  LET d == FastOnAck(f, ack, q).f IN
           /\ IsFast(d)
           /\ d.last_ack = IF SequenceGreater(ack, f.last_ack) THEN ack ELSE f.last_ack
           /\ d.in_recovery =>
                 \/ /\ f.in_recovery /\ d.recovery_point = f.recovery_point
                    /\ SequenceGreater(ack, f.last_ack)
                          => ~SequenceLessEqual(f.recovery_point, ack)
                 \/ /\ ~SequenceGreater(ack, f.last_ack)
                    /\ LowestUnsacked(q) # 0 /\ d.recovery_point = q[Len(q)].end
<1> DEFINE count == Min({f.duplicates + 1, DuplicateCap})
           yes == TRUE
           v == f.in_recovery /\ ~SequenceLessEqual(f.recovery_point, ack)
           point == q[Len(q)].end
           a == [f EXCEPT !.last_ack = ack, !.duplicates = 0, !.in_recovery = v]
           b == [f EXCEPT !.duplicates = count]
           e == [b EXCEPT !.recovery_point = point, !.in_recovery = yes]
           d == FastOnAck(f, ack, q).f
<1>1. \/ SequenceGreater(ack, f.last_ack) /\ d = a
      \/ ~SequenceGreater(ack, f.last_ack) /\ d = f
      \/ ~SequenceGreater(ack, f.last_ack) /\ d = b
      \/ ~SequenceGreater(ack, f.last_ack) /\ d = e /\ LowestUnsacked(q) # 0
  BY DEF FastOnAck
<1> HIDE DEF count, yes, v, point
<1>2. IsFast(a) /\ a.last_ack = ack /\ a.recovery_point = f.recovery_point
      /\ a.in_recovery = v
  BY DEF IsFast, FastFields
<1>3. IsFast(b) /\ b.last_ack = f.last_ack /\ b.recovery_point = f.recovery_point
      /\ b.in_recovery = f.in_recovery
  BY DEF IsFast, FastFields
<1> HIDE DEF a, b
<1>4. IsFast(e) /\ e.last_ack = f.last_ack /\ e.recovery_point = point
  BY <1>3 DEF IsFast, FastFields
<1> HIDE DEF d, e
<1>5. CASE SequenceGreater(ack, f.last_ack) /\ d = a
  <2>1. a.in_recovery <=> v
    BY <1>2
  <2> QED BY <1>2, <1>5, <2>1 DEF v, d
<1>6. CASE ~SequenceGreater(ack, f.last_ack) /\ d = f
  BY <1>6 DEF d
<1>7. CASE ~SequenceGreater(ack, f.last_ack) /\ d = b
  BY <1>3, <1>7 DEF d
<1>8. CASE ~SequenceGreater(ack, f.last_ack) /\ d = e /\ LowestUnsacked(q) # 0
  BY <1>4, <1>8 DEF d, point
<1> QED BY <1>1, <1>5, <1>6, <1>7, <1>8

\* n is the end of a retained segment.
EndIn(q, n) == \E i \in 1 .. Len(q) : n = q[i].end

Recovery(c) ==
    /\ IsFast(c.fast) /\ IsCongestion(c.congestion)
    /\ c.fast.last_ack = c.oldest
    /\ c.fast.in_recovery => EndIn(c.queue, c.fast.recovery_point)
    /\ c.congestion.in_recovery => EndIn(c.queue, c.congestion.recovery_point)

LEMMA RecoverySame ==
    ASSUME NEW c, Recovery(c), NEW d, SameSender(c, d)
    PROVE  Recovery(d)
  BY DEF Recovery, SameSender

\* An ACK that does not reach the end of a segment does not release it.
LEMMA EndStays ==
    ASSUME NEW q, QueueOK(q), NEW ack, NEW n, EndIn(q, n), ~SequenceLessEqual(n, ack)
    PROVE  EndIn(Acknowledge(q, ack), n)
<1> DEFINE k == AckedPrefix(q, ack)
           r == Acknowledge(q, ack)
<1>1. PICK i \in 1 .. Len(q) : n = q[i].end
  BY DEF EndIn
<1>2. k \in 0 .. Len(q) /\ \A j \in 1 .. k : SequenceLessEqual(q[j].end, ack)
  BY AckedPrefixIs DEF QueueOK
<1>3. /\ Len(r) = Len(q) - k
      /\ \A j \in 1 .. Len(r) : k + j \in 1 .. Len(q) /\ r[j] = q[k + j]
  BY AcknowledgeIs
<1>4. Len(q) \in Nat
  BY DEF QueueOK, IsSequence
<1> HIDE DEF k, r
<1>5. i \notin 1 .. k
  BY <1>1, <1>2
<1>6. i - k \in 1 .. Len(r) /\ k + (i - k) = i
  BY <1>2, <1>3, <1>4, <1>5
<1>7. n = r[i - k].end
  BY <1>1, <1>3, <1>6
<1>8. EndIn(r, n)
  BY <1>6, <1>7 DEF EndIn
<1> QED BY <1>8 DEF r

SameEntries(q, r) == Len(r) = Len(q) /\ \A i \in 1 .. Len(q) : SameEntry(q[i], r[i])

LEMMA EndSame ==
    ASSUME NEW q, NEW r, SameEntries(q, r), NEW n, EndIn(q, n)
    PROVE  EndIn(r, n)
  BY DEF EndIn, SameEntries, SameEntry

\* The window is cut: the point of a new epoch is the end of the last segment.
LEMMA RecoveryCut ==
    ASSUME NEW c, IsCongestion(c.congestion), QueueOK(c.queue),
           c.congestion.in_recovery => EndIn(c.queue, c.congestion.recovery_point),
           NEW d, NEW signal, Resends(c, d, signal), SameEntries(c.queue, d.queue)
    PROVE  /\ IsCongestion(d.congestion)
           /\ d.congestion.in_recovery => EndIn(d.queue, d.congestion.recovery_point)
<1> DEFINE g == c.congestion
           h == d.congestion
           point == c.queue[Len(c.queue)].end
           flight == FlightBytes(c)
<1>1. PICK i \in 1 .. Len(c.queue) : h = CongestionOnLoss(g, signal, flight, point)
  BY DEF Resends
<1>2. IsCongestion(h) /\ (h = g \/ h.recovery_point = point)
  <2>1. IsCongestion(g)
    OBVIOUS
  <2> DEFINE x == CongestionOnLoss(g, signal, flight, point)
  <2> HIDE DEF g, h, point, flight
  <2>2. IsCongestion(x)
    BY <2>1, OnLossIs
  <2>3. x = g \/ x.recovery_point = point
    <3>1. g.in_recovery => x = g
      BY <2>1, OnLossIs
    <3>2. ~g.in_recovery => NewEpoch(x, signal, flight, point)
      BY <2>1, OnLossIs
    <3> QED BY <3>1, <3>2 DEF NewEpoch
  <2> QED BY <1>1, <2>2, <2>3
<1>3. EndIn(c.queue, point)
  <2>1. Len(c.queue) \in Nat
    BY DEF QueueOK, IsSequence
  <2>2. Len(c.queue) \in 1 .. Len(c.queue)
    BY <1>1, <2>1
  <2> QED BY <2>2 DEF EndIn
<1>4. h.in_recovery => EndIn(c.queue, h.recovery_point)
  <2> HIDE DEF point
  <2> QED BY <1>2, <1>3
<1>5. h.in_recovery => EndIn(d.queue, h.recovery_point)
  BY <1>4, EndSame
<1> QED BY <1>2, <1>5

LEMMA RecoveryAck ==
    ASSUME NEW c, Local(c), Recovery(c), NEW s
    PROVE  Recovery(AckPart(c, s))
<1> DEFINE w == [c EXCEPT !.peer_window = s.window]
           a == AcknowledgeProgress(w, s.ack)
           d == Scoreboard(a, s)
           up == SequenceGreater(s.ack, c.oldest)
<1>0. IsEndpoint(c) /\ QueueOK(c.queue) /\ c.tx_free \in Int
  BY DEF Local
<1>1. /\ IsEndpoint(w) /\ w.queue = c.queue /\ w.tx_free = c.tx_free /\ w.oldest = c.oldest
      /\ w.fast = c.fast /\ w.congestion = c.congestion
  BY <1>0 DEF IsEndpoint, Fields
<1>2. AckPart(c, s) \in {c, w, d}
  BY DEF AckPart, ProcessAck
<1> HIDE DEF w
<1>3. Recovery(w)
  BY <1>1 DEF Recovery
<1>4. /\ IsEndpoint(a) /\ a.fast = c.fast /\ QueueOK(a.queue)
      /\ a.oldest = (IF up THEN s.ack ELSE c.oldest)
      /\ a.congestion = IF up
                        THEN CongestionOnRecoveryAck(
                                CongestionOnAck(c.congestion, SeqSub(s.ack, c.oldest)), s.ack)
                        ELSE c.congestion
  BY <1>0, <1>1, AcknowledgeProgressIs
<1>5. a.queue = IF up THEN Acknowledge(c.queue, s.ack) ELSE c.queue
  BY <1>1 DEF AcknowledgeProgress, IsEndpoint, Fields
<1> HIDE DEF a
<1>6. /\ IsCongestion(a.congestion)
      /\ a.congestion.in_recovery => EndIn(a.queue, a.congestion.recovery_point)
  <2>1. CASE up
    <3> DEFINE bytes == SeqSub(s.ack, c.oldest)
               g == c.congestion
               h == CongestionOnAck(g, bytes)
               k == CongestionOnRecoveryAck(h, s.ack)
    <3>1. IsCongestion(h) /\ h.recovery_point = g.recovery_point
          /\ h.in_recovery = g.in_recovery
      BY OnAckIs DEF Recovery
    <3> HIDE DEF h
    <3>2. /\ IsCongestion(k) /\ k.recovery_point = h.recovery_point
          /\ k.in_recovery <=> h.in_recovery /\ ~SequenceLessEqual(h.recovery_point, s.ack)
      BY <3>1, OnRecoveryAckIs
    <3>3. a.congestion = k /\ a.queue = Acknowledge(c.queue, s.ack)
      BY <1>4, <1>5, <2>1 DEF h
    <3> HIDE DEF k
    <3>4. k.in_recovery => EndIn(c.queue, k.recovery_point)
                           /\ ~SequenceLessEqual(k.recovery_point, s.ack)
      BY <3>1, <3>2 DEF Recovery
    <3> QED BY <1>0, <3>2, <3>3, <3>4, EndStays
  <2>2. CASE ~up
    BY <1>4, <1>5, <2>2 DEF Recovery
  <2> QED BY <2>1, <2>2
<1>7. /\ d.oldest = a.oldest
      /\ d.fast = FastOnAck(a.fast, s.ack, ApplySacks(a.queue, s.sacks)).f
      /\ QueueOK(d.queue) /\ SameEntries(a.queue, d.queue)
      /\ d.congestion = a.congestion \/ Resends(a, d, "sack_fast_recovery")
  BY <1>4, ScoreboardIs DEF SameEntries
<1> HIDE DEF d
<1>8. /\ IsCongestion(d.congestion)
      /\ d.congestion.in_recovery => EndIn(d.queue, d.congestion.recovery_point)
  <2>1. CASE d.congestion = a.congestion
    BY <1>6, <1>7, <2>1, EndSame
  <2>2. CASE Resends(a, d, "sack_fast_recovery")
    BY <1>4, <1>6, <1>7, <2>2, RecoveryCut
  <2> QED BY <1>7, <2>1, <2>2
<1> DEFINE q == ApplySacks(a.queue, s.sacks)
           f == c.fast
           e == d.fast
<1>9. /\ IsFast(e) /\ e.last_ack = (IF up THEN s.ack ELSE c.oldest)
      /\ e.in_recovery =>
            \/ f.in_recovery /\ e.recovery_point = f.recovery_point
               /\ (up => ~SequenceLessEqual(f.recovery_point, s.ack))
            \/ ~up /\ LowestUnsacked(q) # 0 /\ e.recovery_point = q[Len(q)].end
  <2>1. IsFast(f) /\ f.last_ack = c.oldest /\ e = FastOnAck(f, s.ack, q).f
    BY <1>4, <1>7 DEF Recovery
  <2> HIDE DEF q, f, e
  <2> QED BY <2>1, FastIs
<1>10. QueueOK(q) /\ Len(q) = Len(a.queue)
       /\ \A i \in 1 .. Len(a.queue) : SameEntry(a.queue[i], q[i])
  BY <1>4, ApplySacksIs
<1>11. ASSUME e.in_recovery PROVE EndIn(d.queue, e.recovery_point)
  <2> HIDE DEF q
  <2>1. CASE f.in_recovery /\ e.recovery_point = f.recovery_point
               /\ (up => ~SequenceLessEqual(f.recovery_point, s.ack))
    <3>1. EndIn(c.queue, f.recovery_point)
      BY <2>1 DEF Recovery
    <3>2. EndIn(a.queue, f.recovery_point)
      <4>1. CASE up
        BY <1>0, <1>5, <2>1, <3>1, <4>1, EndStays
      <4>2. CASE ~up
        BY <1>5, <3>1, <4>2
      <4> QED BY <4>1, <4>2
    <3> QED BY <1>7, <2>1, <3>2, EndSame
  <2>2. CASE LowestUnsacked(q) # 0 /\ e.recovery_point = q[Len(q)].end
    <3>1. LowestUnsacked(q) \in 0 .. Len(q) /\ Len(q) \in Nat
      BY <1>10, LowestUnsackedIs DEF QueueOK, IsSequence
    <3>2. Len(q) \in 1 .. Len(a.queue)
      BY <1>10, <2>2, <3>1
    <3>3. e.recovery_point = a.queue[Len(q)].end
      BY <1>10, <2>2, <3>2 DEF SameEntry
    <3>4. EndIn(a.queue, e.recovery_point)
      BY <3>2, <3>3 DEF EndIn
    <3> QED BY <1>7, <3>4, EndSame
  <2> QED BY <1>9, <1>11, <2>1, <2>2
<1>12. d.fast.last_ack = d.oldest
  BY <1>4, <1>7, <1>9
<1>13. Recovery(d)
  BY <1>8, <1>9, <1>11, <1>12 DEF Recovery
<1> QED BY <1>2, <1>3, <1>13

\* The control and payload parts of on_segment, and the control part of tick,
\* leave the sender alone.
LEMMA EventSender ==
    ASSUME NEW c, IsEndpoint(c), NEW event
    PROVE  SameSender(c, PerformActions(Handle(c, event)))
<1> DEFINE t == Handle(c, event)
           d == PerformActions(t)
<1>1. IsEndpoint(t.c) /\ SameSender(c, t.c)
  BY HandleIs
<1> HIDE DEF t
<1>2. SameSender(t.c, d)
  BY <1>1, PerformActionsIs
<1> HIDE DEF d
<1>3. SameSender(c, d)
  BY <1>1, <1>2 DEF SameSender
<1> QED BY <1>3 DEF d, t

LEMMA SegmentSender ==
    ASSUME NEW c, Local(c), NEW s
    PROVE  SameSender(AckPart(c, s), OnSegment(c, s))
<1> DEFINE a == AckPart(c, s)
           d == ProcessControl(a, s.flags)
           e == PayloadPart(d, s)
<1>1. Local(a)
  BY LocalAck
<1> HIDE DEF a
<1>2. IsEndpoint(a)
  BY <1>1 DEF Local
<1>3. SameSender(a, d)
  <2> DEFINE event == ControlEvent(a, s.flags)
             yes == TRUE
             x == SendControl(a, {"SYN", "ACK"}, yes)
             y == PerformActions(Handle(a, event))
  <2>1. d \in {a, x, y}
    BY DEF ProcessControl, OnControlEvent
  <2> HIDE DEF yes, event, d
  <2>2. SameSender(a, x)
    BY <1>2, TransmitControlIs DEF SendControl
  <2>3. SameSender(a, y)
    BY <1>2, EventSender
  <2>4. SameSender(a, a)
    BY DEF SameSender
  <2> HIDE DEF x, y
  <2> QED BY <2>1, <2>2, <2>3, <2>4
<1>4. IsEndpoint(d)
  BY <1>1, LocalProcessControl DEF Local
<1> HIDE DEF d
<1>5. SameSender(d, e)
  <2>1. CASE s.length > 0 /\ d.state = "established"
    <3> DEFINE x == ReceivePayload(d, s, SeqAdd(s.sequence, s.length))
               no == FALSE
               y == SendControl(x, {"ACK"}, no)
    <3>1. e = y
      BY <2>1 DEF PayloadPart, ProcessPayload
    <3>2. IsEndpoint(x) /\ SameSender(d, x)
      BY <1>4, ReceivePayloadIs
    <3> HIDE DEF x, no, e
    <3>3. SameSender(x, y)
      BY <3>2, TransmitControlIs DEF SendControl
    <3> HIDE DEF y
    <3> QED BY <3>1, <3>2, <3>3 DEF SameSender
  <2>2. CASE ~(s.length > 0 /\ d.state = "established")
    BY <2>2 DEF PayloadPart, SameSender
  <2> QED BY <2>1, <2>2
<1>6. OnSegment(c, s) = e
  BY DEF OnSegment, a, d
<1> HIDE DEF e
<1> QED BY <1>3, <1>5, <1>6 DEF SameSender, a

LEMMA TickSender ==
    ASSUME NEW c, Local(c), NEW t, NEW r, NEW o
    PROVE  \E b : /\ IsEndpoint(b) /\ QueueOK(b.queue) /\ SameSender(c, b)
                  /\ Tick(c, t, r, o) = RetransmitTimeout(b, o)
<1> DEFINE a == ExpireTimeWait(c, t)
           b == RepeatControl(a, r)
<1>1. IsEndpoint(c) /\ QueueOK(c.queue)
  BY DEF Local
<1>2. IsEndpoint(a) /\ SameSender(c, a)
  <2>1. CASE c.state = "time_wait" /\ t
    BY <1>1, <2>1, EventSender, LocalEvent DEF ExpireTimeWait, Local
  <2>2. CASE ~(c.state = "time_wait" /\ t)
    BY <1>1, <2>2 DEF ExpireTimeWait, SameSender
  <2> QED BY <2>1, <2>2
<1>3. Tick(c, t, r, o) = RetransmitTimeout(b, o)
  BY DEF Tick
<1> HIDE DEF a
<1>4. IsEndpoint(b) /\ SameSender(a, b)
  <2>1. CASE a.control # NoControl /\ r
    <3>1. b = Transmit(a, a.control)
      BY <2>1 DEF RepeatControl
    <3> HIDE DEF b
    <3>2. IsEndpoint(b)
      BY <1>2, <3>1 DEF Transmit, IsEndpoint, Fields
    <3>3. SameSender(a, b)
      BY <1>2, <3>1 DEF Transmit, IsEndpoint, Fields, SameSender
    <3> QED BY <3>2, <3>3
  <2>2. CASE ~(a.control # NoControl /\ r)
    BY <1>2, <2>2 DEF RepeatControl, SameSender
  <2> QED BY <2>1, <2>2
<1> HIDE DEF b
<1>5. SameSender(c, b)
  BY <1>2, <1>4 DEF SameSender
<1>6. QueueOK(b.queue)
  BY <1>1, <1>5 DEF SameSender
<1> QED BY <1>3, <1>4, <1>5, <1>6

\* c after send.
LEMMA SendIs ==
    ASSUME NEW c, IsEndpoint(c), NEW length, NEW data
    PROVE  LET s == MakeSegment(c, {"ACK"}, length, data)
               e == [start |-> s.sequence, end |-> SeqAdd(s.sequence, s.length),
                     segment |-> s, retransmitted |-> FALSE, sacked |-> FALSE]
               d == Send(c, length, data)
           IN
           /\ IsEndpoint(d) /\ SameMachine(c, d) /\ SameReceiver(c, d)
           /\ d.queue = Append(c.queue, e) /\ d.next_send = SeqAdd(c.next_send, s.length)
           /\ d.oldest = c.oldest /\ d.fast = c.fast /\ d.congestion = c.congestion
           /\ d.peer_window = c.peer_window /\ d.out = c.out \cup {s}
<1> DEFINE s == MakeSegment(c, {"ACK"}, length, data)
           e == [start |-> s.sequence, end |-> SeqAdd(s.sequence, s.length),
                 segment |-> s, retransmitted |-> FALSE, sacked |-> FALSE]
           q == Append(c.queue, e)
           n == SeqAdd(c.next_send, s.length)
           r == [c EXCEPT !.tx_free = @ - 1, !.next_send = n, !.queue = q]
           d == Transmit(r, s)
<1>1. Send(c, length, data) = d
  BY DEF Send, SendSegment, Retain
<1> HIDE DEF s, e, q, n
<1>2. IsEndpoint(d) /\ SameMachine(c, d)
  BY DEF Transmit, IsEndpoint, Fields, SameMachine
<1>3. SameReceiver(c, d)
  BY DEF Transmit, IsEndpoint, Fields, SameReceiver
<1>4. /\ d.queue = q /\ d.next_send = n /\ d.oldest = c.oldest /\ d.fast = c.fast
      /\ d.congestion = c.congestion /\ d.peer_window = c.peer_window
      /\ d.out = c.out \cup {s}
  BY DEF Transmit, IsEndpoint, Fields
<1> HIDE DEF d
<1> QED BY <1>1, <1>2, <1>3, <1>4 DEF s, e, q, n

LEMMA RecoveryTick ==
    ASSUME NEW c, Local(c), Recovery(c), NEW t, NEW r, NEW o
    PROVE  Recovery(Tick(c, t, r, o))
<1>1. PICK b : /\ IsEndpoint(b) /\ QueueOK(b.queue) /\ SameSender(c, b)
               /\ Tick(c, t, r, o) = RetransmitTimeout(b, o)
  BY TickSender
<1> DEFINE d == RetransmitTimeout(b, o)
<1>2. Recovery(b)
  BY <1>1, RecoverySame
<1>3. /\ d.oldest = b.oldest /\ d.fast = b.fast /\ SameEntries(b.queue, d.queue)
      /\ d.congestion = b.congestion \/ Resends(b, d, "rto_timeout")
  BY <1>1, RetransmitTimeoutIs DEF SameEntries
<1> HIDE DEF d
<1>4. /\ IsCongestion(d.congestion)
      /\ d.congestion.in_recovery => EndIn(d.queue, d.congestion.recovery_point)
  <2>1. CASE d.congestion = b.congestion
    BY <1>2, <1>3, <2>1, EndSame DEF Recovery
  <2>2. CASE Resends(b, d, "rto_timeout")
    BY <1>1, <1>2, <1>3, <2>2, RecoveryCut DEF Recovery
  <2> QED BY <1>3, <2>1, <2>2
<1>5. d.fast.in_recovery => EndIn(d.queue, d.fast.recovery_point)
  BY <1>2, <1>3, EndSame DEF Recovery
<1>6. Recovery(d)
  BY <1>2, <1>3, <1>4, <1>5 DEF Recovery
<1> QED BY <1>1, <1>6 DEF d

LEMMA RecoverySend ==
    ASSUME NEW c, Local(c), Recovery(c), NEW length, NEW data
    PROVE  Recovery(Send(c, length, data))
<1> DEFINE s == MakeSegment(c, {"ACK"}, length, data)
           e == [start |-> s.sequence, end |-> SeqAdd(s.sequence, s.length),
                 segment |-> s, retransmitted |-> FALSE, sacked |-> FALSE]
           d == Send(c, length, data)
<1>1. IsEndpoint(c) /\ QueueOK(c.queue)
  BY DEF Local
<1>2. /\ d.queue = Append(c.queue, e) /\ d.oldest = c.oldest /\ d.fast = c.fast
      /\ d.congestion = c.congestion
  BY <1>1, SendIs
<1> HIDE DEF d, e
<1>3. ASSUME NEW n, EndIn(c.queue, n) PROVE EndIn(d.queue, n)
  <2>1. PICK i \in 1 .. Len(c.queue) : n = c.queue[i].end
    BY <1>3 DEF EndIn
  <2>2. i \in 1 .. Len(d.queue) /\ d.queue[i] = c.queue[i]
    BY <1>1, <1>2 DEF QueueOK, IsSequence
  <2> QED BY <2>1, <2>2 DEF EndIn
<1>4. Recovery(d)
  BY <1>2, <1>3 DEF Recovery
<1> QED BY <1>4 DEF d

RecoveryInv == \A p \in Peers : Recovery(conn[p])

LEMMA PerformRecovery ==
    ASSUME LocalInv, RecoveryInv, NEW p \in Peers, NEW c, IsEndpoint(c), Recovery(c),
           NEW gone, Perform(p, c, gone)
    PROVE  RecoveryInv'
<1> DEFINE e == [c EXCEPT !.out = {}]
<1>1. SameSender(c, e)
  BY DEF IsEndpoint, Fields, SameSender
<1>2. conn' = [conn EXCEPT ![p] = e]
  BY DEF Perform
<1> HIDE DEF e
<1>3. Recovery(e)
  BY <1>1, RecoverySame
<1> QED BY <1>2, <1>3 DEF LocalInv, RecoveryInv

LEMMA RecoveryNext == LocalInv /\ RecoveryInv /\ [Next]_vars => RecoveryInv'
<1> SUFFICES ASSUME LocalInv, RecoveryInv, [Next]_vars PROVE RecoveryInv'
  OBVIOUS
<1>0. ASSUME NEW p \in Peers
      PROVE  Local(conn[p]) /\ IsEndpoint(conn[p]) /\ Recovery(conn[p])
  BY DEF LocalInv, Local, RecoveryInv
<1>1. CASE UNCHANGED vars
  BY <1>1 DEF vars, RecoveryInv
<1>2. ASSUME NEW p \in Peers, NEW event, Perform(p, PerformActions(Handle(conn[p], event)), {})
      PROVE  RecoveryInv'
  <2> DEFINE c == PerformActions(Handle(conn[p], event))
  <2>1. IsEndpoint(c) /\ SameSender(conn[p], c)
    BY <1>0, LocalEvent, EventSender DEF Local
  <2>2. Perform(p, c, {})
    BY <1>2
  <2> HIDE DEF c
  <2>3. Recovery(c)
    BY <1>0, <2>1, RecoverySame
  <2> QED BY <2>1, <2>2, <2>3, PerformRecovery
<1>3. ASSUME NEW p \in Peers, AppConnect(p) \/ AppClose(p) PROVE RecoveryInv'
  BY <1>2, <1>3 DEF AppConnect, AppClose, Connect, Close
<1>4. ASSUME NEW p \in Peers, AppSend(p) PROVE RecoveryInv'
  <2>1. PICK length \in Lengths : /\ CanSend(conn[p], length)
                                  /\ Perform(p, Send(conn[p], length, accepted[p] + 1), {})
    BY <1>4 DEF AppSend
  <2> DEFINE c == Send(conn[p], length, accepted[p] + 1)
  <2>2. IsEndpoint(c) /\ Recovery(c)
    BY <1>0, SendIs, RecoverySend
  <2>3. Perform(p, c, {})
    BY <2>1
  <2> HIDE DEF c
  <2> QED BY <2>2, <2>3, PerformRecovery
<1>5. ASSUME NEW p \in Peers, ReceiveSegment(p) PROVE RecoveryInv'
  <2>1. PICK s \in net[p] : \E c \in {OnSegment(conn[p], s)}, gone \in {{}, {s}} :
                                Perform(p, c, gone)
    BY <1>5 DEF ReceiveSegment
  <2>2. PICK gone \in {{}, {s}} : Perform(p, OnSegment(conn[p], s), gone)
    BY <2>1
  <2> DEFINE c == OnSegment(conn[p], s)
             a == AckPart(conn[p], s)
  <2>3. IsEndpoint(c)
    BY LocalSegment DEF LocalInv, Step, Local
  <2>4. Recovery(a) /\ SameSender(a, c)
    BY <1>0, RecoveryAck, SegmentSender
  <2>5. Perform(p, c, gone)
    BY <2>2
  <2> HIDE DEF a, c
  <2>6. Recovery(c)
    BY <2>4, RecoverySame
  <2> QED BY <2>3, <2>5, <2>6, PerformRecovery
<1>6. ASSUME NEW p \in Peers, Lose(p) PROVE RecoveryInv'
  BY <1>6 DEF Lose, RecoveryInv
<1>7. ASSUME NEW p \in Peers, AnyTick(p) PROVE RecoveryInv'
  <2>1. PICK t, r, o : Perform(p, Tick(conn[p], t, r, o), {})
    BY <1>7 DEF AnyTick, TimerTick
  <2> DEFINE c == Tick(conn[p], t, r, o)
  <2>2. IsEndpoint(c)
    BY LocalTick DEF LocalInv, Step, Local
  <2>3. Recovery(c)
    BY <1>0, RecoveryTick
  <2>4. Perform(p, c, {})
    BY <2>1
  <2> HIDE DEF c
  <2> QED BY <2>2, <2>3, <2>4, PerformRecovery
<1> QED BY <1>1, <1>3, <1>4, <1>5, <1>6, <1>7 DEF Next

LEMMA RecoveryInit == Init \/ InitEstablished => RecoveryInv
<1>1. ASSUME NEW p \in Peers
      PROVE  Recovery(NewEndpoint(p)) /\ Recovery(Established(p))
  <2> DEFINE c == NewEndpoint(p)
             w == AdvertisedWindow(NewEndpoint(Other(p)))
             f == [c.fast EXCEPT !.duplicates = 1]
             d == [c EXCEPT !.state = "established", !.fast = f, !.peer_window = w]
             n == InitialSequence[p]
  <2>1. /\ IsEndpoint(c) /\ c.oldest = n
        /\ c.fast = NewFastRetransmit(n) /\ c.congestion = NewCongestion
    BY NewConnectionIs DEF NewEndpoint
  <2>2. Established(p) = d
    BY DEF Established
  <2> HIDE DEF c, w, n
  <2>3. IsFast(c.fast) /\ c.fast.last_ack = n /\ ~c.fast.in_recovery
    BY <2>1, NewFastIs
  <2>4. IsCongestion(c.congestion) /\ ~c.congestion.in_recovery
    BY <2>1, NewCongestionIs
  <2>5. Recovery(c)
    BY <2>1, <2>3, <2>4 DEF Recovery
  <2>6. IsFast(f) /\ f.last_ack = c.fast.last_ack /\ f.in_recovery = c.fast.in_recovery
    BY <2>3 DEF IsFast, FastFields
  <2> HIDE DEF f
  <2>7. d.oldest = c.oldest /\ d.fast = f /\ d.congestion = c.congestion
    BY <2>1 DEF IsEndpoint, Fields
  <2> HIDE DEF d
  <2>8. ~f.in_recovery
    BY <2>3, <2>6
  <2>9. Recovery(d)
    BY <2>1, <2>3, <2>4, <2>6, <2>7, <2>8 DEF Recovery
  <2> QED BY <2>2, <2>5, <2>9 DEF c
<1> QED BY <1>1 DEF Init, InitEstablished, RecoveryInv

\* The two recovery controllers agree with each other and with the queue in
\* every behaviour.
THEOREM RecoveryCorrect ==
    (Init \/ InitEstablished) /\ [][Next]_vars => [](LocalInv /\ RecoveryInv)
<1>1. LocalInv /\ RecoveryInv /\ [Next]_vars => (LocalInv /\ RecoveryInv)'
  BY LocalNext, RecoveryNext
<1> QED BY <1>1, LocalInit, RecoveryInit, PTL

\* With nothing outstanding neither the duplicate-ACK counter nor the window
\* controller is still inside a recovery epoch, in which it would ignore the
\* next loss.
THEOREM EpochsEnd ==
    /\ Spec => []RecoveryEndsWithFlight
    /\ TransferSpec => []RecoveryEndsWithFlight
<1>1. RecoveryInv => RecoveryEndsWithFlight
  <2> SUFFICES ASSUME RecoveryInv, NEW p \in Peers, conn[p].queue = <<>>
               PROVE  ~conn[p].fast.in_recovery /\ ~conn[p].congestion.in_recovery
    BY DEF RecoveryEndsWithFlight
  <2>1. Recovery(conn[p])
    BY DEF RecoveryInv
  <2>2. Len(conn[p].queue) = 0
    OBVIOUS
  <2>3. \A n : ~EndIn(conn[p].queue, n)
    BY <2>2 DEF EndIn
  <2> QED BY <2>1, <2>3 DEF Recovery
<1> QED BY <1>1, RecoveryCorrect, PTL DEF Spec, TransferSpec

-----------------------------------------------------------------------------
(* The congestion window.  What the rounds of congestion avoidance take is a *)
(* recursive function; the proofs about it are by least counterexample.      *)

LEMMA AddToCwndIs ==
    ASSUME NEW w \in Nat, NEW n \in Nat
    PROVE  AddToCwnd(w, n) = IF w + n <= MaxCwnd THEN w + n ELSE MaxCwnd
<1>1. {w + n, MaxCwnd} \subseteq Nat /\ {w + n, MaxCwnd} # {}
  BY ConnectionAssumption
<1>2. AddToCwnd(w, n) \in {w + n, MaxCwnd}
      /\ \A y \in {w + n, MaxCwnd} : AddToCwnd(w, n) <= y
  BY <1>1, LeastIs DEF AddToCwnd
<1> QED BY <1>2, ConnectionAssumption

\* The definition of RoundsUse, one step unfolded.
Rounds(w, u) ==
    [k \in Nat |-> IF k = 0 THEN 0 ELSE u[k - 1] + AddToCwnd(w, (k - 1) * Mss)]

\* Its first n values.
Start(w, n) ==
    {f \in [0 .. n -> Nat] :
        f[0] = 0 /\ \A k \in 1 .. n : f[k] = f[k - 1] + AddToCwnd(w, (k - 1) * Mss)}

LEMMA RoundIs ==
    ASSUME NEW w \in Nat, w >= Mss, NEW k \in Nat
    PROVE  AddToCwnd(w, k * Mss) \in Nat /\ AddToCwnd(w, k * Mss) >= 1
<1> DEFINE x == k * Mss
<1>1. x \in Nat /\ Mss \in Nat /\ Mss >= 1 /\ MaxCwnd \in Nat /\ MaxCwnd >= 1
  BY ConnectionAssumption
<1> HIDE DEF x
<1>2. AddToCwnd(w, x) \in Nat /\ AddToCwnd(w, x) >= 1
  BY <1>1, AddToCwndIs
<1> QED BY <1>2 DEF x

LEMMA StartIs ==
    ASSUME NEW w \in Nat, w >= Mss, NEW n \in Nat
    PROVE  Start(w, n) # {}
<1> DEFINE T == {k \in Nat : Start(w, k) = {}}
<1> SUFFICES ASSUME T # {} PROVE FALSE
  OBVIOUS
<1>1. PICK m \in T : \A y \in T : m <= y
  BY LeastElement
<1>2. m \in Nat /\ Start(w, m) = {}
  OBVIOUS
<1>3. CASE m = 0
  <2> DEFINE f == [k \in 0 .. 0 |-> 0]
  <2>1. f \in [0 .. 0 -> Nat] /\ f[0] = 0
    OBVIOUS
  <2>2. f \in Start(w, 0)
    BY <2>1 DEF Start
  <2> QED BY <1>2, <1>3, <2>2
<1>4. CASE m # 0
  <2>1. m - 1 \in Nat /\ m - 1 \notin T
    BY <1>1, <1>2, <1>4
  <2>2. PICK f : f \in Start(w, m - 1)
    BY <2>1
  <2> DEFINE x == f[m - 1] + AddToCwnd(w, (m - 1) * Mss)
             g == [k \in 0 .. m |-> IF k = m THEN x ELSE f[k]]
  <2>3. f \in [0 .. (m - 1) -> Nat] /\ f[0] = 0
        /\ \A k \in 1 .. (m - 1) : f[k] = f[k - 1] + AddToCwnd(w, (k - 1) * Mss)
    BY <2>2 DEF Start
  <2>4. x \in Nat
    <3>1. f[m - 1] \in Nat
      BY <2>1, <2>3
    <3>2. AddToCwnd(w, (m - 1) * Mss) \in Nat
      BY <2>1, RoundIs
    <3> QED BY <3>1, <3>2
  <2> HIDE DEF x
  <2>5. g \in [0 .. m -> Nat] /\ g[0] = 0
    BY <1>2, <1>4, <2>3, <2>4
  <2>6. ASSUME NEW k \in 1 .. m PROVE g[k] = g[k - 1] + AddToCwnd(w, (k - 1) * Mss)
    <3>1. CASE k = m
      <4>1. g[k] = x /\ g[k - 1] = f[m - 1]
        BY <1>2, <1>4, <3>1
      <4> QED BY <3>1, <4>1 DEF x
    <3>2. CASE k # m
      <4>1. k \in 1 .. (m - 1) /\ g[k] = f[k] /\ g[k - 1] = f[k - 1]
        BY <1>2, <3>2
      <4> QED BY <2>3, <4>1
    <3> QED BY <3>1, <3>2
  <2> HIDE DEF g
  <2>7. g \in Start(w, m)
    BY <2>5, <2>6 DEF Start
  <2> QED BY <1>2, <2>7
<1> QED BY <1>3, <1>4

LEMMA StartAgrees ==
    ASSUME NEW w, NEW m \in Nat, NEW n \in Nat, NEW f \in Start(w, m), NEW g \in Start(w, n),
           NEW k \in Nat, k <= m, k <= n
    PROVE  f[k] = g[k]
<1> DEFINE T == {j \in Nat : j <= m /\ j <= n /\ f[j] # g[j]}
<1> SUFFICES ASSUME T # {} PROVE FALSE
  OBVIOUS
<1>1. PICK j \in T : \A y \in T : j <= y
  BY LeastElement
<1>2. j \in Nat /\ j <= m /\ j <= n /\ f[j] # g[j]
  OBVIOUS
<1>3. f[0] = 0 /\ g[0] = 0
  BY DEF Start
<1>4. j # 0
  BY <1>2, <1>3
<1>5. j - 1 \in Nat /\ j - 1 \notin T
  BY <1>1, <1>2, <1>4
<1>6. f[j - 1] = g[j - 1]
  BY <1>2, <1>5
<1>7. f[j] = f[j - 1] + AddToCwnd(w, (j - 1) * Mss)
  BY <1>2, <1>4 DEF Start
<1>8. g[j] = g[j - 1] + AddToCwnd(w, (j - 1) * Mss)
  BY <1>2, <1>4 DEF Start
<1> QED BY <1>2, <1>6, <1>7, <1>8

LEMMA RoundsUseIs ==
    ASSUME NEW w \in Nat, w >= Mss
    PROVE  RoundsUse(w) = Rounds(w, RoundsUse(w))
<1> DEFINE some(k) == CHOOSE f \in Start(w, k) : TRUE
           u == [k \in Nat |-> some(k)[k]]
<1>1. ASSUME NEW k \in Nat PROVE some(k) \in Start(w, k)
  BY StartIs
<1> HIDE DEF some
<1>2. ASSUME NEW k \in Nat, k # 0
      PROVE  some(k)[k] = some(k - 1)[k - 1] + AddToCwnd(w, (k - 1) * Mss)
  <2>1. k - 1 \in Nat /\ k - 1 <= k /\ k - 1 <= k - 1 /\ k \in 1 .. k
    BY <1>2
  <2>2. some(k) \in Start(w, k) /\ some(k - 1) \in Start(w, k - 1)
    BY <1>1, <2>1
  <2>3. some(k)[k - 1] = some(k - 1)[k - 1]
    BY <2>1, <2>2, StartAgrees
  <2>4. some(k)[k] = some(k)[k - 1] + AddToCwnd(w, (k - 1) * Mss)
    BY <2>1, <2>2 DEF Start
  <2> QED BY <2>3, <2>4
<1>3. some(0)[0] = 0
  <2>1. some(0) \in Start(w, 0)
    BY <1>1
  <2> QED BY <2>1 DEF Start
<1>4. ASSUME NEW k \in Nat
      PROVE  u[k] = IF k = 0 THEN 0 ELSE u[k - 1] + AddToCwnd(w, (k - 1) * Mss)
  <2>1. CASE k = 0
    BY <1>3, <2>1
  <2>2. CASE k # 0
    <3>1. k - 1 \in Nat
      BY <2>2
    <3> QED BY <1>2, <2>2, <3>1
  <2> QED BY <2>1, <2>2
<1>5. u = Rounds(w, u)
  <2>1. u = [k \in Nat |-> u[k]]
    OBVIOUS
  <2> HIDE DEF u
  <2> QED BY <1>4, <2>1 DEF Rounds
<1> HIDE DEF u
<1>6. RoundsUse(w) = CHOOSE v : v = Rounds(w, v)
  BY DEF RoundsUse, Rounds
<1>7. \E v : v = Rounds(w, v)
  BY <1>5
<1> QED BY <1>6, <1>7

\* Each round takes at least one byte.
LEMMA RoundsTake ==
    ASSUME NEW w \in Nat, w >= Mss, NEW k \in Nat
    PROVE  LET u == RoundsUse(w) IN
           /\ u[k] \in Nat /\ u[k] >= k /\ u[0] = 0
           /\ k # 0 => u[k] = u[k - 1] + AddToCwnd(w, (k - 1) * Mss)
<1> DEFINE u == RoundsUse(w)
           T == {j \in Nat : ~(u[j] \in Nat /\ u[j] >= j)}
<1>1. u = Rounds(w, u)
  BY RoundsUseIs
<1> HIDE DEF u
<1>2. \A j \in Nat : u[j] = IF j = 0 THEN 0 ELSE u[j - 1] + AddToCwnd(w, (j - 1) * Mss)
  BY <1>1 DEF Rounds
<1>3. T = {}
  <2> SUFFICES ASSUME T # {} PROVE FALSE
    OBVIOUS
  <2>1. PICK j \in T : \A y \in T : j <= y
    BY LeastElement
  <2>2. j \in Nat /\ ~(u[j] \in Nat /\ u[j] >= j)
    OBVIOUS
  <2>3. j # 0
    BY <1>2, <2>2
  <2>4. j - 1 \in Nat /\ j - 1 \notin T
    BY <2>1, <2>2, <2>3
  <2>5. u[j - 1] \in Nat /\ u[j - 1] >= j - 1
    BY <2>4
  <2> DEFINE x == AddToCwnd(w, (j - 1) * Mss)
  <2>6. x \in Nat /\ x >= 1
    BY <2>4, RoundIs
  <2>7. u[j] = u[j - 1] + x
    BY <1>2, <2>2, <2>3
  <2> HIDE DEF x
  <2> QED BY <2>2, <2>5, <2>6, <2>7
<1> QED BY <1>2, <1>3 DEF u

\* Congestion avoidance: the rounds come to an end and never take more bytes
\* than were acknowledged.
LEMMA RoundsEnd ==
    ASSUME NEW w \in Nat, w >= Mss, NEW acked \in Nat
    PROVE  LET u == RoundsUse(w)
               rounds == Min({k \in 0 .. acked : acked - u[k] < AddToCwnd(w, k * Mss)})
           IN  rounds \in Nat /\ acked - u[rounds] \in Nat
<1> DEFINE u == RoundsUse(w)
           S == {k \in 0 .. acked : acked - u[k] < AddToCwnd(w, k * Mss)}
           r == Min(S)
<1>1. \A k \in Nat : u[k] \in Nat /\ u[k] >= k /\ u[0] = 0
                     /\ (k # 0 => u[k] = u[k - 1] + AddToCwnd(w, (k - 1) * Mss))
  BY RoundsTake
<1> HIDE DEF u
<1>2. \A k \in Nat : AddToCwnd(w, k * Mss) \in Nat /\ AddToCwnd(w, k * Mss) >= 1
  BY RoundIs
<1>3. acked \in S
  <2> DEFINE x == AddToCwnd(w, acked * Mss)
  <2>1. x \in Nat /\ x >= 1 /\ u[acked] \in Nat /\ u[acked] >= acked
    BY <1>1, <1>2
  <2> HIDE DEF x
  <2>2. acked - u[acked] < x
    BY <2>1
  <2> QED BY <2>2 DEF x
<1>4. S \subseteq Nat
  OBVIOUS
<1>5. r \in S /\ \A y \in S : r <= y
  <2> HIDE DEF S
  <2> QED BY <1>3, <1>4, LeastIs
<1> HIDE DEF r
<1>6. r \in Nat /\ r <= acked
  BY <1>5
<1>7. u[r] <= acked
  <2>1. CASE r = 0
    BY <1>1, <2>1
  <2>2. CASE r # 0
    <3> DEFINE x == AddToCwnd(w, (r - 1) * Mss)
    <3>1. r - 1 \in Nat /\ r - 1 \in 0 .. acked /\ r - 1 \notin S
      BY <1>5, <1>6, <2>2
    <3>2. x \in Nat /\ u[r - 1] \in Nat /\ u[r] = u[r - 1] + x
      BY <1>1, <1>2, <1>6, <2>2, <3>1
    <3>3. ~(acked - u[r - 1] < x)
      BY <3>1
    <3> HIDE DEF x
    <3> QED BY <3>2, <3>3
  <2> QED BY <2>1, <2>2
<1>8. acked - u[r] \in Nat
  BY <1>1, <1>6, <1>7
<1> QED BY <1>6, <1>8 DEF u, r

\* The range of the window.
WindowOK(g) == /\ g.cwnd \in Nat /\ Mss <= g.cwnd /\ g.cwnd <= MaxCwnd
               /\ g.acked \in Nat

\* An ACK never makes the window smaller.
LEMMA OnAckGrows ==
    ASSUME NEW g, IsCongestion(g), WindowOK(g), NEW bytes \in Nat
    PROVE  LET h == CongestionOnAck(g, bytes) IN WindowOK(h) /\ g.cwnd <= h.cwnd
<1> DEFINE grown == AddToCwnd(g.cwnd, bytes)
           acked == g.acked + bytes
           used == RoundsUse(g.cwnd)
           rounds == Min({k \in 0 .. acked : acked - used[k] < AddToCwnd(g.cwnd, k * Mss)})
           w == AddToCwnd(g.cwnd, rounds * Mss)
           r == acked - used[rounds]
           a == [g EXCEPT !.cwnd = grown, !.acked = 0, !.phase = "congestion_avoidance"]
           b == [g EXCEPT !.cwnd = grown]
           d == [g EXCEPT !.cwnd = w, !.acked = r]
           h == CongestionOnAck(g, bytes)
<1>1. h \in {g, a, b, d}
  BY DEF CongestionOnAck
<1>2. g.cwnd \in Nat /\ g.cwnd >= Mss /\ g.cwnd <= MaxCwnd /\ acked \in Nat
      /\ Mss \in Nat /\ MaxCwnd \in Nat /\ g.acked \in Nat
  BY ConnectionAssumption DEF WindowOK
<1>3. ASSUME NEW n \in Nat
      PROVE  LET x == AddToCwnd(g.cwnd, n) IN
             x \in Nat /\ Mss <= x /\ x <= MaxCwnd /\ g.cwnd <= x
  BY <1>2, AddToCwndIs
<1>4. rounds \in Nat /\ r \in Nat
  <2> HIDE DEF acked
  <2> QED BY <1>2, RoundsEnd
<1>5. grown \in Nat /\ Mss <= grown /\ grown <= MaxCwnd /\ g.cwnd <= grown
  BY <1>3
<1> HIDE DEF rounds
<1>6. rounds * Mss \in Nat
  BY <1>2, <1>4
<1>7. w \in Nat /\ Mss <= w /\ w <= MaxCwnd /\ g.cwnd <= w
  BY <1>3, <1>6
<1> HIDE DEF grown, w, r, h
<1>8. a.cwnd = grown /\ a.acked = 0
  BY DEF IsCongestion, CongestionFields
<1>9. b.cwnd = grown /\ b.acked = g.acked
  BY DEF IsCongestion, CongestionFields
<1>10. d.cwnd = w /\ d.acked = r
  BY DEF IsCongestion, CongestionFields
<1> HIDE DEF a, b, d
<1>11. WindowOK(a) /\ g.cwnd <= a.cwnd
  BY <1>5, <1>8 DEF WindowOK
<1>12. WindowOK(b) /\ g.cwnd <= b.cwnd
  BY <1>2, <1>5, <1>9 DEF WindowOK
<1>13. WindowOK(d) /\ g.cwnd <= d.cwnd
  BY <1>4, <1>7, <1>10 DEF WindowOK
<1>14. g.cwnd <= g.cwnd
  BY <1>2
<1>15. WindowOK(h) /\ g.cwnd <= h.cwnd
  BY <1>1, <1>11, <1>12, <1>13, <1>14
<1> QED BY <1>15 DEF h
-----------------------------------------------------------------------------
(***************************************************************************)
(* The delivery guarantee of Transport, proved for every network, schedule *)
(* and number of payloads, as long as what one endpoint sends covers less  *)
(* than half of the sequence space (beyond it an old segment the network   *)
(* kept looks like a new one).                                             *)
(*                                                                         *)
(* The argument replaces sequence numbers by positions: the payloads that  *)
(* send has accepted, 1 .. N, divide the numbers used so far at N + 1      *)
(* points, the ruler at[0] .. at[N], and every number in a segment, queue, *)
(* slot or range is one of these points.  On the ruler the wrapping        *)
(* comparisons are the comparisons of positions.  The recovery point of    *)
(* the window controller is such a point too, which bounds how often the   *)
(* window is cut.                                                          *)
(***************************************************************************)

(* Sequence arithmetic. *)

LEMMA SubShift ==
    ASSUME NEW a \in SeqNum, NEW b \in SeqNum, NEW f \in SeqNum
    PROVE  /\ SeqSub(a, f) >= SeqSub(b, f) => SeqSub(a, b) = SeqSub(a, f) - SeqSub(b, f)
           /\ SeqSub(a, f) < SeqSub(b, f) =>
                 SeqSub(a, b) = Modulus + SeqSub(a, f) - SeqSub(b, f)
           /\ SeqSub(a, b) \in Nat /\ SeqSub(a, b) < Modulus
<1>1. a \in Int /\ b \in Int /\ f \in Int /\ Modulus \in Int /\ 0 <= a /\ a < Modulus
      /\ 0 <= b /\ b < Modulus /\ 0 <= f /\ f < Modulus
  BY ModulusAssumption DEF SeqNum
<1>2. /\ a >= f => SeqSub(a, f) = a - f
      /\ a < f => SeqSub(a, f) = Modulus + a - f
  BY SubIs
<1>3. /\ b >= f => SeqSub(b, f) = b - f
      /\ b < f => SeqSub(b, f) = Modulus + b - f
  BY SubIs
<1>4. /\ a >= b => SeqSub(a, b) = a - b
      /\ a < b => SeqSub(a, b) = Modulus + a - b
  BY SubIs
<1> QED BY <1>1, <1>2, <1>3, <1>4

LEMMA AddSub ==
    ASSUME NEW a \in SeqNum, NEW b \in SeqNum
    PROVE  SeqAdd(b, SeqSub(a, b)) = a
<1>1. a \in Int /\ b \in Int /\ Modulus \in Nat /\ Modulus > 0
      /\ 0 <= a /\ a < Modulus /\ 0 <= b /\ b < Modulus
  BY ModulusAssumption DEF SeqNum
<1>2. CASE a >= b
  <2>1. b + SeqSub(a, b) = a
    BY <1>1, <1>2, SubIs
  <2>2. a = Modulus * 0 + a /\ a \in 0 .. (Modulus - 1) /\ 0 \in Int
    BY <1>1
  <2>3. a % Modulus = a
    BY <1>1, <2>2, Remainder
  <2> QED BY <2>1, <2>3 DEF SeqAdd
<1>3. CASE a < b
  <2>1. b + SeqSub(a, b) = Modulus + a
    BY <1>1, <1>3, SubIs
  <2>2. Modulus + a = Modulus * 1 + a /\ a \in 0 .. (Modulus - 1) /\ 1 \in Int
        /\ Modulus + a \in Int
    BY <1>1
  <2>3. (Modulus + a) % Modulus = a
    BY <1>1, <2>2, Remainder
  <2> QED BY <2>1, <2>3 DEF SeqAdd
<1> QED BY <1>1, <1>2, <1>3

LEMMA AddOffset ==
    ASSUME NEW a \in SeqNum, NEW f \in SeqNum, NEW n \in Nat,
           SeqSub(a, f) + n < Modulus
    PROVE  SeqAdd(a, n) \in SeqNum /\ SeqSub(SeqAdd(a, n), f) = SeqSub(a, f) + n
<1> DEFINE b == SeqAdd(a, n)
<1>1. a \in Int /\ f \in Int /\ Modulus \in Nat /\ Modulus > 0
      /\ 0 <= a /\ a < Modulus /\ 0 <= f /\ f < Modulus
  BY ModulusAssumption DEF SeqNum
<1>2. b \in SeqNum
  BY AddIs
<1>3. b \in Int /\ 0 <= b /\ b < Modulus
  BY <1>1, <1>2 DEF SeqNum
<1>4. SeqSub(a, f) \in Int /\ n < Modulus
  BY <1>1, SubIs, NumbersAre
<1>5. b = a + n \/ b = a + n - Modulus
  <2>1. CASE a + n < Modulus
    <3>1. a + n = Modulus * 0 + (a + n) /\ a + n \in 0 .. (Modulus - 1) /\ 0 \in Int
          /\ a + n \in Int
      BY <1>1, <2>1
    <3>2. (a + n) % Modulus = a + n
      BY <1>1, <3>1, Remainder
    <3> QED BY <3>2 DEF SeqAdd
  <2>2. CASE a + n >= Modulus
    <3>1. /\ a + n = Modulus * 1 + (a + n - Modulus)
          /\ a + n - Modulus \in 0 .. (Modulus - 1) /\ 1 \in Int /\ a + n \in Int
      BY <1>1, <1>4, <2>2
    <3>2. (a + n) % Modulus = a + n - Modulus
      BY <1>1, <3>1, Remainder
    <3> QED BY <3>2 DEF SeqAdd
  <2> QED BY <1>1, <2>1, <2>2
<1> HIDE DEF b
<1>6. /\ a >= f => SeqSub(a, f) = a - f
      /\ a < f => SeqSub(a, f) = Modulus + a - f
  BY SubIs
<1>7. /\ b >= f => SeqSub(b, f) = b - f
      /\ b < f => SeqSub(b, f) = Modulus + b - f
  BY <1>2, SubIs
<1>8. SeqSub(b, f) = SeqSub(a, f) + n
  BY <1>1, <1>3, <1>4, <1>5, <1>6, <1>7
<1> QED BY <1>2, <1>8 DEF b

-----------------------------------------------------------------------------
(* The ruler. *)

Half == Modulus \div 2

\* N payloads, none empty and none above the MSS, from first on.
Scale(at, N, first) ==
    /\ N \in Nat /\ N * Mss < Half /\ first \in SeqNum
    /\ at \in [0 .. N -> SeqNum] /\ at[0] = first
    /\ \A k \in 0 .. N : SeqSub(at[k], first) <= k * Mss
    /\ \A j, k \in 0 .. N : j < k => SeqSub(at[j], first) < SeqSub(at[k], first)

\* Comparing numbers is comparing positions, from whatever point they are
\* counted.
Ruler(at, N) ==
    /\ N \in Nat /\ at \in [0 .. N -> SeqNum]
    /\ \A j, k \in 0 .. N : /\ SequenceLess(at[j], at[k]) <=> j < k
                            /\ SequenceLessEqual(at[j], at[k]) <=> j <= k
                            /\ at[j] = at[k] <=> j = k
    /\ \A b, j, k \in 0 .. N :
          b <= j /\ j < k => SeqSub(at[j], at[b]) < SeqSub(at[k], at[b])

LEMMA ScaleBound ==
    ASSUME NEW at, NEW N, NEW first, Scale(at, N, first), NEW k \in 0 .. N
    PROVE  at[k] \in SeqNum /\ SeqSub(at[k], first) \in Nat /\ SeqSub(at[k], first) < Half
<1>1. N \in Nat /\ Mss \in Nat /\ k \in Nat /\ k <= N /\ Half \in Nat
  BY ConnectionAssumption, HalfIs DEF Scale, Half
<1>2. k * Mss <= N * Mss
  BY <1>1
<1>3. at[k] \in SeqNum /\ first \in SeqNum
  BY DEF Scale
<1>4. SeqSub(at[k], first) \in Nat
  BY <1>3, SubIs, NumbersAre
<1>5. SeqSub(at[k], first) <= k * Mss /\ N * Mss < Half
  BY DEF Scale
<1>6. k * Mss \in Nat /\ N * Mss \in Nat
  BY <1>1
<1> QED BY <1>1, <1>2, <1>3, <1>4, <1>5, <1>6

LEMMA ScaleIsRuler ==
    ASSUME NEW at, NEW N, NEW first, Scale(at, N, first)
    PROVE  Ruler(at, N)
<1>1. N \in Nat /\ at \in [0 .. N -> SeqNum] /\ first \in SeqNum
  BY DEF Scale
<1>2. Half \in Nat /\ Modulus = 2 * Half /\ Half > 0
  BY HalfIs DEF Half
<1>3. ASSUME NEW j \in 0 .. N, NEW k \in 0 .. N
      PROVE  /\ at[j] \in SeqNum /\ at[k] \in SeqNum
             /\ SeqSub(at[j], first) \in Nat /\ SeqSub(at[j], first) < Half
             /\ SeqSub(at[k], first) \in Nat /\ SeqSub(at[k], first) < Half
             /\ j < k => SeqSub(at[j], first) < SeqSub(at[k], first)
             /\ k < j => SeqSub(at[k], first) < SeqSub(at[j], first)
  BY ScaleBound DEF Scale
<1>4. ASSUME NEW j \in 0 .. N, NEW k \in 0 .. N
      PROVE  /\ j <= k => SeqSub(at[k], at[j]) = SeqSub(at[k], first) - SeqSub(at[j], first)
             /\ j < k => SeqSub(at[j], at[k]) =
                            Modulus + SeqSub(at[j], first) - SeqSub(at[k], first)
  <2>1. at[j] \in SeqNum /\ at[k] \in SeqNum
    BY <1>3
  <2>2. /\ SeqSub(at[k], first) >= SeqSub(at[j], first) =>
              SeqSub(at[k], at[j]) = SeqSub(at[k], first) - SeqSub(at[j], first)
        /\ SeqSub(at[j], first) < SeqSub(at[k], first) =>
              SeqSub(at[j], at[k]) = Modulus + SeqSub(at[j], first) - SeqSub(at[k], first)
    BY <1>1, <2>1, SubShift
  <2>3. j < k => SeqSub(at[j], first) < SeqSub(at[k], first)
    BY <1>3
  <2>4. j \in Int /\ k \in Int /\ SeqSub(at[j], first) \in Int /\ SeqSub(at[k], first) \in Int
    BY <1>3
  <2>5. j = k => SeqSub(at[k], first) >= SeqSub(at[j], first)
    BY <2>4
  <2> QED BY <2>2, <2>3, <2>4, <2>5
<1>5. ASSUME NEW j \in 0 .. N, NEW k \in 0 .. N
      PROVE  /\ SequenceLess(at[j], at[k]) <=> j < k
             /\ SequenceLessEqual(at[j], at[k]) <=> j <= k
             /\ at[j] = at[k] <=> j = k
  <2>1. /\ SeqSub(at[j], first) \in Nat /\ SeqSub(at[j], first) < Half
        /\ SeqSub(at[k], first) \in Nat /\ SeqSub(at[k], first) < Half
        /\ j < k => SeqSub(at[j], first) < SeqSub(at[k], first)
        /\ k < j => SeqSub(at[k], first) < SeqSub(at[j], first)
    BY <1>3
  <2>2. CASE j < k
    <3>1. SeqSub(at[j], at[k]) >= Half
      BY <1>2, <1>4, <2>1, <2>2
    <3>2. at[j] # at[k]
      BY <2>1, <2>2
    <3> QED BY <2>2, <3>1, <3>2 DEF SequenceLess, SequenceLessEqual, Half
  <2>3. CASE k <= j
    <3>1. SeqSub(at[j], at[k]) = SeqSub(at[j], first) - SeqSub(at[k], first)
      BY <1>4, <2>3
    <3>2. ~(SeqSub(at[j], at[k]) >= Half)
      BY <1>2, <2>1, <3>1
    <3>3. ~SequenceLess(at[j], at[k]) /\ ~(j < k)
      BY <2>3, <3>2 DEF SequenceLess, Half
    <3>4. at[j] = at[k] <=> j = k
      BY <2>1, <2>3
    <3> QED BY <2>3, <3>3, <3>4 DEF SequenceLessEqual
  <2> QED BY <2>2, <2>3
<1>6. ASSUME NEW b \in 0 .. N, NEW j \in 0 .. N, NEW k \in 0 .. N, b <= j, j < k
      PROVE  SeqSub(at[j], at[b]) < SeqSub(at[k], at[b])
  <2>1. /\ SeqSub(at[j], at[b]) = SeqSub(at[j], first) - SeqSub(at[b], first)
        /\ SeqSub(at[k], at[b]) = SeqSub(at[k], first) - SeqSub(at[b], first)
    BY <1>4, <1>6
  <2>2. /\ SeqSub(at[j], first) \in Nat /\ SeqSub(at[k], first) \in Nat
        /\ SeqSub(at[b], first) \in Nat
        /\ SeqSub(at[j], first) < SeqSub(at[k], first)
    BY <1>3, <1>6
  <2> QED BY <2>1, <2>2
<1> QED BY <1>1, <1>5, <1>6 DEF Ruler

\* One payload more.
Longer(at, N, length) ==
    [k \in 0 .. (N + 1) |-> IF k <= N THEN at[k] ELSE SeqAdd(at[N], length)]

LEMMA ScaleGrows ==
    ASSUME NEW at, NEW N, NEW first, Scale(at, N, first), (N + 1) * Mss < Half,
           NEW length \in 1 .. Mss
    PROVE  /\ Scale(Longer(at, N, length), N + 1, first)
           /\ \A k \in 0 .. N : Longer(at, N, length)[k] = at[k]
           /\ Longer(at, N, length)[N + 1] = SeqAdd(at[N], length)
<1> DEFINE bt == Longer(at, N, length)
<1>1. N \in Nat /\ Mss \in Nat /\ first \in SeqNum /\ at \in [0 .. N -> SeqNum]
      /\ length \in Nat /\ length > 0 /\ length <= Mss /\ at[0] = first
  BY ConnectionAssumption DEF Scale
<1>2. \A k \in 0 .. N : bt[k] = at[k]
  BY <1>1 DEF Longer
<1>3. bt[N + 1] = SeqAdd(at[N], length)
  BY <1>1 DEF Longer
<1>4. Half \in Nat /\ Modulus = 2 * Half
  BY HalfIs DEF Half
<1>5. SeqSub(at[N], first) \in Nat /\ at[N] \in SeqNum
  BY <1>1, ScaleBound
<1>6. SeqSub(at[N], first) <= N * Mss /\ N * Mss \in Nat /\ (N + 1) * Mss = N * Mss + Mss
  BY <1>1 DEF Scale
<1>7. SeqSub(at[N], first) + length <= (N + 1) * Mss
  BY <1>1, <1>5, <1>6
<1>8. SeqSub(at[N], first) + length < Modulus
  BY <1>1, <1>4, <1>5, <1>6, <1>7
<1>9. SeqAdd(at[N], length) \in SeqNum
      /\ SeqSub(SeqAdd(at[N], length), first) = SeqSub(at[N], first) + length
  BY <1>1, <1>5, <1>8, AddOffset
<1>10. bt \in [0 .. (N + 1) -> SeqNum]
  BY <1>1, <1>9 DEF Longer
<1> HIDE DEF bt
<1>11. ASSUME NEW k \in 0 .. (N + 1) PROVE SeqSub(bt[k], first) <= k * Mss
  <2>1. CASE k <= N
    <3>1. k \in 0 .. N
      BY <1>1, <2>1
    <3> QED BY <1>2, <3>1 DEF Scale
  <2>2. CASE k = N + 1
    BY <1>3, <1>7, <1>9, <2>2
  <2> QED BY <1>1, <2>1, <2>2
<1>12. ASSUME NEW j \in 0 .. (N + 1), NEW k \in 0 .. (N + 1), j < k
       PROVE  SeqSub(bt[j], first) < SeqSub(bt[k], first)
  <2>1. j \in 0 .. N
    BY <1>1, <1>12
  <2>2. CASE k <= N
    <3>1. k \in 0 .. N
      BY <1>1, <2>2
    <3> QED BY <1>2, <1>12, <2>1, <3>1 DEF Scale
  <2>3. CASE k = N + 1
    <3>1. SeqSub(bt[k], first) = SeqSub(at[N], first) + length
      BY <1>3, <1>9, <2>3
    <3>2. SeqSub(bt[j], first) \in Nat /\ SeqSub(bt[j], first) <= SeqSub(at[N], first)
      <4>1. SeqSub(at[j], first) \in Nat
        BY <2>1, ScaleBound
      <4>2. j < N => SeqSub(at[j], first) < SeqSub(at[N], first)
        BY <1>1, <2>1 DEF Scale
      <4> QED BY <1>1, <1>2, <1>5, <2>1, <4>1, <4>2
    <3> QED BY <1>1, <1>5, <3>1, <3>2
  <2> QED BY <1>1, <2>2, <2>3
<1>13. N + 1 \in Nat /\ bt[0] = first
  BY <1>1, <1>2
<1> QED BY <1>1, <1>2, <1>3, <1>10, <1>11, <1>12, <1>13 DEF Scale, bt

-----------------------------------------------------------------------------
(* The first and the last of a set of points. *)

LEMMA MinIs ==
    ASSUME NEW S, NEW x \in S, S \subseteq Int, \A y \in S : x <= y
    PROVE  Min(S) = x
<1>1. Min(S) \in S /\ \A y \in S : Min(S) <= y
  BY DEF Min
<1>2. Min(S) <= x /\ x <= Min(S) /\ Min(S) \in Int /\ x \in Int
  BY <1>1
<1> QED BY <1>2

LEMMA MaxIs ==
    ASSUME NEW S, NEW x \in S, S \subseteq Int, \A y \in S : y <= x
    PROVE  Max(S) = x
<1>1. Max(S) \in S /\ \A y \in S : Max(S) >= y
  BY DEF Max
<1>2. Max(S) <= x /\ x <= Max(S) /\ Max(S) \in Int /\ x \in Int
  BY <1>1
<1> QED BY <1>2

LEMMA RulerDistance ==
    ASSUME NEW at, NEW N, Ruler(at, N), NEW b \in 0 .. N, NEW j \in 0 .. N,
           NEW k \in 0 .. N, b <= j, j <= k
    PROVE  /\ SeqSub(at[j], at[b]) \in Int /\ SeqSub(at[k], at[b]) \in Int
           /\ SeqSub(at[j], at[b]) <= SeqSub(at[k], at[b])
<1>1. at[b] \in SeqNum /\ at[j] \in SeqNum /\ at[k] \in SeqNum /\ N \in Nat
  BY DEF Ruler
<1>2. SeqSub(at[j], at[b]) \in Int /\ SeqSub(at[k], at[b]) \in Int
  BY <1>1, SubIs, NumbersAre
<1>3. j < k => SeqSub(at[j], at[b]) < SeqSub(at[k], at[b])
  BY DEF Ruler
<1> QED BY <1>1, <1>2, <1>3

LEMMA EarliestIs ==
    ASSUME NEW at, NEW N, Ruler(at, N), NEW b \in 0 .. N, NEW m \in b .. N,
           NEW points, at[m] \in points, \A p \in points : \E x \in m .. N : p = at[x]
    PROVE  Earliest(at[b], points) = at[m]
<1> DEFINE S == {SeqSub(p, at[b]) : p \in points}
           z == SeqSub(at[m], at[b])
<1>0. N \in Nat /\ m \in 0 .. N /\ b <= m /\ b \in Int /\ m \in Int
  BY DEF Ruler
<1>1. ASSUME NEW y \in S PROVE y \in Int /\ z <= y
  <2>1. PICK p \in points : y = SeqSub(p, at[b])
    OBVIOUS
  <2>2. PICK x \in m .. N : p = at[x]
    OBVIOUS
  <2>3. x \in 0 .. N /\ m <= x
    BY <1>0
  <2> QED BY <1>0, <2>1, <2>2, <2>3, RulerDistance
<1>2. z \in S
  OBVIOUS
<1> HIDE DEF S, z
<1>3. Min(S) = z
  BY <1>1, <1>2, MinIs
<1>4. at[m] \in SeqNum /\ at[b] \in SeqNum
  BY <1>0 DEF Ruler
<1> QED BY <1>3, <1>4, AddSub DEF Earliest, S, z

LEMMA LatestIs ==
    ASSUME NEW at, NEW N, Ruler(at, N), NEW b \in 0 .. N, NEW m \in b .. N,
           NEW points, at[m] \in points, \A p \in points : \E x \in b .. m : p = at[x]
    PROVE  Latest(at[b], points) = at[m]
<1> DEFINE S == {SeqSub(p, at[b]) : p \in points}
           z == SeqSub(at[m], at[b])
<1>0. N \in Nat /\ m \in 0 .. N /\ b <= m /\ b \in Int /\ m \in Int
  BY DEF Ruler
<1>1. ASSUME NEW y \in S PROVE y \in Int /\ y <= z
  <2>1. PICK p \in points : y = SeqSub(p, at[b])
    OBVIOUS
  <2>2. PICK x \in b .. m : p = at[x]
    OBVIOUS
  <2>3. x \in 0 .. N /\ x <= m /\ b <= x
    BY <1>0
  <2> QED BY <1>0, <2>1, <2>2, <2>3, RulerDistance
<1>2. z \in S
  OBVIOUS
<1> HIDE DEF S, z
<1>3. Max(S) = z
  BY <1>1, <1>2, MaxIs
<1>4. at[m] \in SeqNum /\ at[b] \in SeqNum
  BY <1>0 DEF Ruler
<1> QED BY <1>3, <1>4, AddSub DEF Latest, S, z

-----------------------------------------------------------------------------
(* One direction: the sender c, the receiver r, N payloads accepted so far, *)
(* fwd what c has sent and back what r has sent and may still arrive.       *)

Stretch(at, i, j) == [start |-> at[i], end |-> at[j]]
SlotAt(at, d) == [start |-> at[d - 1], end |-> at[d], data |-> d]

HeldBy(r) == {slot.data : slot \in r.slots}
Done(r) == Len(r.delivered)
Got(r) == {d \in Nat : d <= Done(r)} \cup HeldBy(r)

\* The queue retains the last payloads, in order.
First(c, N) == N - Len(c.queue)

SenderOK(c, at, N) ==
    /\ Len(c.queue) \in 0 .. N
    /\ c.next_send = at[N] /\ c.oldest = at[First(c, N)]
    /\ \A i \in 1 .. Len(c.queue) :
          /\ c.queue[i].start = at[First(c, N) + i - 1]
          /\ c.queue[i].end = at[First(c, N) + i]
          /\ c.queue[i].segment.data = First(c, N) + i

\* The ranges, none of them touching another, cover the payloads of H that
\* are not among the first m.
Covered(ranges, at, N, d) ==
    \E i, j \in 0 .. N : Stretch(at, i, j) \in ranges /\ i < d /\ d <= j

RangesOK(ranges, at, N, m, H) ==
    /\ \A g \in ranges : \E i, j \in (m + 1) .. N : i < j /\ g = Stretch(at, i, j)
    /\ \A i, j, k, l \in 0 .. N :
          Stretch(at, i, j) \in ranges /\ Stretch(at, k, l) \in ranges
              => (i = k /\ j = l) \/ j < k \/ l < i
    /\ \A d \in 1 .. N : Covered(ranges, at, N, d) <=> d \in H /\ d > m

\* The first payloads are delivered; slots and ranges hold the same others.
ReceiverOK(r, at, N) ==
    /\ r.delivered \in Seq(Nat) /\ Done(r) \in 0 .. N
    /\ \A i \in 1 .. Done(r) : r.delivered[i] = i
    /\ r.ack = at[Done(r)] /\ r.delivery = at[Done(r)]
    /\ \A slot \in r.slots : /\ slot.data \in (Done(r) + 2) .. N
                             /\ slot = SlotAt(at, slot.data)
    /\ RangesOK(r.ranges, at, N, Done(r), HeldBy(r))

\* A segment with a payload has the place of its payload on the ruler.
DataOK(s, at, N) ==
    s.length > 0 => /\ s.data \in 1 .. N /\ s.sequence = at[s.data - 1]
                    /\ SeqAdd(s.sequence, s.length) = at[s.data]

\* A segment acknowledges, and its SACK blocks report, what the receiver got.
BackOK(s, r, at, N) ==
    /\ \E k \in 0 .. Done(r) : s.ack = at[k]
    /\ \A b \in s.sacks : \E i, j \in 0 .. N :
          /\ i < j /\ b = Stretch(at, i, j)
          /\ \A d \in (i + 1) .. j : d \in Got(r)

\* The point n is not in a SACK block of s.
Apart(s, n, at, N) ==
    \A i, j, k \in 0 .. N :
        Stretch(at, i, j) \in s.sacks /\ n = at[k] => k < i \/ j <= k

\* Every number that has been, or can now be, used as an acknowledgement.
Acks(c, r, back) == {c.oldest, r.ack} \cup {s.ack : s \in back}

MarksOK(c, r, back, at, N) ==
    \A i \in 1 .. Len(c.queue) :
        c.queue[i].sacked => /\ First(c, N) + i \in Got(r)
                             /\ at[First(c, N) + i - 1] \notin Acks(c, r, back)

DirOK(c, r, N, fwd, back, at, first) ==
    /\ Scale(at, N, first) /\ SenderOK(c, at, N) /\ ReceiverOK(r, at, N)
    /\ \A s \in fwd : DataOK(s, at, N)
    /\ \A s \in back : BackOK(s, r, at, N)
    /\ First(c, N) <= Done(r)
    /\ \A s \in back : \A n \in Acks(c, r, back) : Apart(s, n, at, N)
    /\ MarksOK(c, r, back, at, N)

\* The direction looks at these fields only.
LEMMA DirSame ==
    ASSUME NEW c, NEW r, NEW N, NEW fwd, NEW back, NEW at, NEW first,
           DirOK(c, r, N, fwd, back, at, first),
           NEW d, d.queue = c.queue, d.next_send = c.next_send, d.oldest = c.oldest,
           NEW e, e.delivered = r.delivered, e.ack = r.ack, e.delivery = r.delivery,
           e.slots = r.slots, e.ranges = r.ranges,
           NEW f \in SUBSET fwd, NEW b \in SUBSET back
    PROVE  DirOK(d, e, N, f, b, at, first)
<1>1. First(d, N) = First(c, N) /\ Done(e) = Done(r) /\ HeldBy(e) = HeldBy(r)
  BY DEF First, Done, HeldBy
<1>2. Got(e) = Got(r)
  BY <1>1 DEF Got
<1>3. Acks(d, e, b) \subseteq Acks(c, r, back)
  BY DEF Acks
<1>4. Scale(at, N, first) /\ SenderOK(d, at, N)
  BY <1>1 DEF DirOK, SenderOK
<1>5. ReceiverOK(e, at, N)
  BY <1>1 DEF DirOK, ReceiverOK
<1>6. \A s \in f : DataOK(s, at, N)
  BY DEF DirOK
<1>7. \A s \in b : BackOK(s, e, at, N)
  BY <1>1, <1>2 DEF DirOK, BackOK
<1>8. \A s \in b : \A n \in Acks(d, e, b) : Apart(s, n, at, N)
  BY <1>3 DEF DirOK
<1>9. MarksOK(d, e, b, at, N)
  BY <1>1, <1>2, <1>3 DEF DirOK, MarksOK
<1>10. First(d, N) <= Done(e)
  BY <1>1 DEF DirOK
<1> QED BY <1>4, <1>5, <1>6, <1>7, <1>8, <1>9, <1>10 DEF DirOK

LEMMA Place ==
    \A N \in Nat : \A q \in 0 .. N : \A i \in 1 .. q :
        /\ N - q + i \in 1 .. N /\ N - q + i - 1 \in 0 .. N /\ N - q + i \in 0 .. N
  OBVIOUS

LEMMA QueueAt ==
    ASSUME NEW c, NEW at, NEW N, N \in Nat, SenderOK(c, at, N)
    PROVE  /\ First(c, N) \in 0 .. N /\ First(c, N) = N - Len(c.queue)
           /\ Len(c.queue) \in 0 .. N
           /\ \A i \in 1 .. Len(c.queue) :
                 /\ First(c, N) + i \in 1 .. N /\ First(c, N) + i - 1 \in 0 .. N
                 /\ First(c, N) + i \in 0 .. N
                 /\ c.queue[i].start = at[First(c, N) + i - 1]
                 /\ c.queue[i].end = at[First(c, N) + i]
                 /\ c.queue[i].segment.data = First(c, N) + i
<1>1. Len(c.queue) \in 0 .. N /\ First(c, N) = N - Len(c.queue)
  BY DEF SenderOK, First
<1>2. First(c, N) \in 0 .. N
  BY <1>1
<1>3. ASSUME NEW i \in 1 .. Len(c.queue)
      PROVE  /\ First(c, N) + i \in 1 .. N /\ First(c, N) + i - 1 \in 0 .. N
             /\ First(c, N) + i \in 0 .. N
  BY <1>1, <1>2, Place
<1> QED BY <1>1, <1>2, <1>3 DEF SenderOK

\* A cumulative ACK.
LEMMA DirProgress ==
    ASSUME NEW c, NEW r, NEW N, NEW fwd, NEW back, NEW at, NEW first,
           DirOK(c, r, N, fwd, back, at, first),
           IsEndpoint(c), QueueOK(c.queue), c.tx_free \in Int, NEW s \in back
    PROVE  DirOK(AcknowledgeProgress(c, s.ack), r, N, fwd, back, at, first)
<1> DEFINE d == AcknowledgeProgress(c, s.ack)
           a == First(c, N)
<1>1. Ruler(at, N) /\ N \in Nat
  BY ScaleIsRuler DEF DirOK, Scale
<1>2. PICK k \in 0 .. Done(r) : s.ack = at[k]
  BY DEF DirOK, BackOK
<1>3. /\ Done(r) \in 0 .. N /\ Len(c.queue) \in 0 .. N /\ a = N - Len(c.queue)
      /\ c.oldest = at[a] /\ k \in 0 .. N /\ a \in 0 .. N
  BY <1>1, <1>2 DEF DirOK, ReceiverOK, SenderOK, First
<1> HIDE DEF a
<1>4. SequenceGreater(s.ack, c.oldest) <=> a < k
  BY <1>1, <1>2, <1>3 DEF Ruler, SequenceGreater
<1>5. CASE ~(a < k)
  <2>1. d = c
    BY <1>4, <1>5 DEF AcknowledgeProgress
  <2> QED BY <2>1
<1>6. CASE a < k
  <2> DEFINE n == AckedPrefix(c.queue, s.ack)
  <2>1. /\ d.next_send = c.next_send /\ d.oldest = s.ack
        /\ n \in 0 .. Len(c.queue) /\ Len(d.queue) = Len(c.queue) - n
        /\ \A i \in 1 .. Len(d.queue) :
              n + i \in 1 .. Len(c.queue) /\ d.queue[i] = c.queue[n + i]
    BY <1>4, <1>6, AcknowledgeProgressIs
  <2>2. /\ n < Len(c.queue) => ~SequenceLessEqual(c.queue[n + 1].end, s.ack)
        /\ \A i \in 1 .. n : SequenceLessEqual(c.queue[i].end, s.ack)
    BY AckedPrefixIs DEF QueueOK
  <2> HIDE DEF n, d
  <2>0. SenderOK(c, at, N)
    BY DEF DirOK
  <2>3. \A i \in 1 .. Len(c.queue) :
           /\ a + i \in 0 .. N /\ c.queue[i].start = at[a + i - 1]
           /\ c.queue[i].end = at[a + i] /\ c.queue[i].segment.data = a + i
    BY <1>1, <2>0, QueueAt DEF a
  <2>4. ASSUME NEW i \in 1 .. Len(c.queue)
        PROVE  SequenceLessEqual(c.queue[i].end, s.ack) <=> a + i <= k
    <3>1. a + i \in 0 .. N /\ c.queue[i].end = at[a + i]
      BY <2>3
    <3>2. SequenceLessEqual(at[a + i], at[k]) <=> a + i <= k
      BY <1>1, <1>3, <3>1 DEF Ruler
    <3> QED BY <1>2, <3>1, <3>2
  <2>5. n >= k - a
    <3>1. CASE n < Len(c.queue)
      <4>1. n + 1 \in 1 .. Len(c.queue)
        BY <1>3, <2>1, <3>1
      <4>2. ~(a + (n + 1) <= k)
        BY <2>2, <2>4, <3>1, <4>1
      <4> QED BY <1>3, <2>1, <4>2
    <3>2. CASE n = Len(c.queue)
      BY <1>1, <1>3, <3>2
    <3> QED BY <1>3, <2>1, <3>1, <3>2
  <2>6. n <= k - a
    <3>1. CASE n = 0
      BY <1>3, <1>6, <3>1
    <3>2. CASE n > 0
      <4>1. n \in 1 .. n /\ n \in 1 .. Len(c.queue)
        BY <1>3, <2>1, <3>2
      <4>2. a + n <= k
        BY <2>2, <2>4, <4>1
      <4> QED BY <1>3, <2>1, <4>2
    <3> QED BY <2>1, <3>1, <3>2
  <2>7. n = k - a /\ Len(d.queue) \in 0 .. N /\ First(d, N) = k /\ Len(d.queue) = N - k
    <3>1. k \in Int /\ a \in Int /\ n \in Int /\ Len(c.queue) \in Int /\ 0 <= k /\ k <= N
      BY <1>1, <1>3, <2>1
    <3>2. n = k - a
      BY <2>5, <2>6, <3>1
    <3>3. Len(d.queue) = N - k
      BY <1>1, <1>3, <2>1, <3>1, <3>2
    <3> QED BY <1>1, <3>1, <3>2, <3>3 DEF First
  <2>8. \A i \in 1 .. Len(d.queue) :
           /\ n + i \in 1 .. Len(c.queue) /\ d.queue[i] = c.queue[n + i]
           /\ a + (n + i) = k + i /\ a + (n + i) - 1 = k + i - 1
    <3>1. a \in Int /\ k \in Int /\ n = k - a /\ Len(d.queue) \in Int
      BY <1>1, <1>3, <2>7
    <3>2. \A i \in 1 .. Len(d.queue) : i \in Int
      BY <3>1
    <3>3. \A i \in Int : a + (n + i) = k + i /\ a + (n + i) - 1 = k + i - 1
      BY <3>1
    <3> QED BY <2>1, <3>2, <3>3
  <2>9. SenderOK(d, at, N)
    <3>1. ASSUME NEW i \in 1 .. Len(d.queue)
          PROVE  /\ d.queue[i].start = at[k + i - 1] /\ d.queue[i].end = at[k + i]
                 /\ d.queue[i].segment.data = k + i
      <4>1. n + i \in 1 .. Len(c.queue) /\ d.queue[i] = c.queue[n + i] /\ a + (n + i) = k + i
            /\ a + (n + i) - 1 = k + i - 1
        BY <2>8
      <4>2. /\ c.queue[n + i].start = at[a + (n + i) - 1]
            /\ c.queue[n + i].end = at[a + (n + i)]
            /\ c.queue[n + i].segment.data = a + (n + i)
        BY <2>3, <4>1
      <4> QED BY <4>1, <4>2
    <3>2. d.next_send = at[N] /\ d.oldest = at[First(d, N)]
      BY <1>2, <2>1, <2>7 DEF DirOK, SenderOK
    <3> QED BY <2>7, <3>1, <3>2 DEF SenderOK
  <2>10. First(d, N) <= Done(r)
    BY <1>2, <1>3, <2>7
  <2>11. Acks(d, r, back) \subseteq Acks(c, r, back)
    BY <2>1 DEF Acks
  <2>12. MarksOK(d, r, back, at, N)
    <3>1. ASSUME NEW i \in 1 .. Len(d.queue), d.queue[i].sacked
          PROVE  k + i \in Got(r) /\ at[k + i - 1] \notin Acks(d, r, back)
      <4>1. n + i \in 1 .. Len(c.queue) /\ d.queue[i] = c.queue[n + i] /\ a + (n + i) = k + i
            /\ a + (n + i) - 1 = k + i - 1
        BY <2>8
      <4>2. /\ a + (n + i) \in Got(r) /\ at[a + (n + i) - 1] \notin Acks(c, r, back)
        <5>1. MarksOK(c, r, back, at, N) /\ c.queue[n + i].sacked
          BY <3>1, <4>1 DEF DirOK
        <5> QED BY <4>1, <5>1 DEF MarksOK, a
      <4> QED BY <2>11, <4>1, <4>2
    <3> QED BY <2>7, <3>1 DEF MarksOK
  <2>13. \A x \in back : \A y \in Acks(d, r, back) : Apart(x, y, at, N)
    BY <2>11 DEF DirOK
  <2> QED BY <2>9, <2>10, <2>12, <2>13 DEF DirOK, d
<1> QED BY <1>5, <1>6

\* SACK blocks and duplicate ACKs.
LEMMA DirScore ==
    ASSUME NEW c, NEW r, NEW N, NEW fwd, NEW back, NEW at, NEW first,
           DirOK(c, r, N, fwd, back, at, first),
           IsEndpoint(c), QueueOK(c.queue), NEW s \in back
    PROVE  DirOK(Scoreboard(c, s), r, N, fwd, back, at, first)
<1> DEFINE d == Scoreboard(c, s)
           a == First(c, N)
           covered(i) == \E b \in s.sacks : Covers(b, c.queue[i])
<1>1. Ruler(at, N) /\ N \in Nat
  BY ScaleIsRuler DEF DirOK, Scale
<1>2. /\ d.next_send = c.next_send /\ d.oldest = c.oldest
      /\ Len(d.queue) = Len(c.queue)
      /\ \A i \in 1 .. Len(c.queue) :
            /\ SameEntry(c.queue[i], d.queue[i])
            /\ d.queue[i].sacked = (c.queue[i].sacked \/ covered(i))
  BY ScoreboardIs
<1> HIDE DEF d, covered
<1>3. First(d, N) = a
  BY <1>2 DEF First
<1>4. Len(c.queue) \in 0 .. N /\ a = N - Len(c.queue)
  BY DEF DirOK, SenderOK, First
<1>5. \A i \in 1 .. Len(c.queue) :
         /\ c.queue[i].start = at[a + i - 1] /\ c.queue[i].end = at[a + i]
         /\ c.queue[i].segment.data = a + i
  BY DEF DirOK, SenderOK
<1>6. SenderOK(d, at, N)
  BY <1>2, <1>3, <1>5 DEF DirOK, SenderOK, SameEntry
<1>7. Acks(d, r, back) = Acks(c, r, back)
  BY <1>2 DEF Acks
<1> HIDE DEF a
<1>8. MarksOK(d, r, back, at, N)
  <2>1. ASSUME NEW i \in 1 .. Len(c.queue), covered(i)
        PROVE  a + i \in Got(r) /\ at[a + i - 1] \notin Acks(c, r, back)
    <3>1. PICK b \in s.sacks : Covers(b, c.queue[i])
      BY <2>1 DEF covered
    <3>2. PICK x \in 0 .. N, y \in 0 .. N :
             /\ x < y /\ b = Stretch(at, x, y) /\ \A z \in (x + 1) .. y : z \in Got(r)
      BY DEF DirOK, BackOK
    <3>3. a + i \in 0 .. N /\ a + i - 1 \in 0 .. N /\ a + i \in Int /\ i \in Int /\ a \in Int
      <4>1. SenderOK(c, at, N)
        BY DEF DirOK
      <4>2. a + i \in 0 .. N /\ a + i - 1 \in 0 .. N /\ a \in 0 .. N
        BY <1>1, <2>1, <4>1, QueueAt DEF a
      <4>3. N \in Int /\ Len(c.queue) \in Int
        BY <1>1, <1>4
      <4>4. i \in Int
        BY <4>3
      <4>5. a \in Int
        BY <4>2, <4>3
      <4> QED BY <4>2, <4>3, <4>4, <4>5
    <3>4. SequenceLessEqual(at[x], at[a + i - 1]) /\ SequenceLessEqual(at[a + i], at[y])
      BY <1>5, <3>1, <3>2 DEF Covers, Stretch
    <3>5. x <= a + i - 1 /\ a + i <= y
      BY <1>1, <3>3, <3>4 DEF Ruler
    <3>6. a + i \in Got(r)
      <4>1. a + i \in (x + 1) .. y
        BY <1>1, <3>3, <3>5
      <4> QED BY <3>2, <4>1
    <3>7. ASSUME at[a + i - 1] \in Acks(c, r, back) PROVE FALSE
      <4>1. Apart(s, at[a + i - 1], at, N)
        BY <3>7 DEF DirOK
      <4>2. Stretch(at, x, y) \in s.sacks /\ at[a + i - 1] = at[a + i - 1]
        BY <3>2
      <4>3. a + i - 1 < x \/ y <= a + i - 1
        BY <3>3, <4>1, <4>2 DEF Apart
      <4> QED BY <1>1, <3>3, <3>5, <4>3
    <3> QED BY <3>6, <3>7
  <2>2. ASSUME NEW i \in 1 .. Len(c.queue), c.queue[i].sacked
        PROVE  a + i \in Got(r) /\ at[a + i - 1] \notin Acks(c, r, back)
    BY <2>2 DEF DirOK, MarksOK, a
  <2> QED BY <1>2, <1>3, <1>7, <2>1, <2>2 DEF MarksOK
<1>9. First(d, N) <= Done(r)
  BY <1>3 DEF DirOK, a
<1> QED BY <1>6, <1>7, <1>8, <1>9 DEF DirOK, d

\* A retransmission changes no more than the retransmitted marks.
LEMMA DirRemark ==
    ASSUME NEW c, NEW r, NEW N, NEW fwd, NEW back, NEW at, NEW first,
           DirOK(c, r, N, fwd, back, at, first),
           NEW d, d.next_send = c.next_send, d.oldest = c.oldest,
           Len(d.queue) = Len(c.queue),
           \A i \in 1 .. Len(c.queue) :
              SameEntry(c.queue[i], d.queue[i]) /\ d.queue[i].sacked = c.queue[i].sacked
    PROVE  DirOK(d, r, N, fwd, back, at, first)
<1>1. First(d, N) = First(c, N)
  BY DEF First
<1>2. Acks(d, r, back) = Acks(c, r, back)
  BY DEF Acks
<1>3. SenderOK(d, at, N)
  <2>1. SenderOK(c, at, N)
    BY DEF DirOK
  <2> QED BY <1>1, <2>1 DEF SenderOK, SameEntry
<1>4. MarksOK(d, r, back, at, N)
  <2>1. MarksOK(c, r, back, at, N)
    BY DEF DirOK
  <2> QED BY <1>1, <1>2, <2>1 DEF MarksOK
<1> QED BY <1>1, <1>2, <1>3, <1>4 DEF DirOK

\* The sender transmits.
LEMMA DirForward ==
    ASSUME NEW c, NEW r, NEW N, NEW fwd, NEW back, NEW at, NEW first,
           DirOK(c, r, N, fwd, back, at, first),
           NEW f, \A s \in f : s \in fwd \/ DataOK(s, at, N)
    PROVE  DirOK(c, r, N, f, back, at, first)
  BY DEF DirOK

LEMMA StretchIs ==
    ASSUME NEW at, NEW N, Ruler(at, N), NEW i \in 0 .. N, NEW j \in 0 .. N,
           NEW k \in 0 .. N, NEW l \in 0 .. N, Stretch(at, i, j) = Stretch(at, k, l)
    PROVE  i = k /\ j = l
<1>1. at[i] = at[k] /\ at[j] = at[l]
  BY DEF Stretch
<1> QED BY <1>1 DEF Ruler

\* No acknowledgement is ahead of what the receiver delivered.
LEMMA AcksAre ==
    ASSUME NEW c, NEW r, NEW N, NEW fwd, NEW back, NEW at, NEW first,
           DirOK(c, r, N, fwd, back, at, first), NEW n \in Acks(c, r, back)
    PROVE  \E k \in 0 .. Done(r) : n = at[k]
<1>1. N \in Nat /\ Done(r) \in 0 .. N /\ r.ack = at[Done(r)] /\ SenderOK(c, at, N)
      /\ First(c, N) <= Done(r)
  BY DEF DirOK, Scale, ReceiverOK
<1>2. First(c, N) \in 0 .. N /\ c.oldest = at[First(c, N)]
  BY <1>1, QueueAt DEF SenderOK
<1>3. First(c, N) \in 0 .. Done(r) /\ Done(r) \in 0 .. Done(r)
  BY <1>1, <1>2
<1>4. CASE n = c.oldest
  BY <1>2, <1>3, <1>4
<1>5. CASE n = r.ack
  BY <1>1, <1>3, <1>5
<1>6. ASSUME NEW s \in back, n = s.ack PROVE \E k \in 0 .. Done(r) : n = at[k]
  BY <1>6 DEF DirOK, BackOK
<1> QED BY <1>4, <1>5, <1>6 DEF Acks

\* The receiver transmits: it acknowledges what it delivered and reports ranges
\* it holds.
LEMMA DirBackward ==
    ASSUME NEW c, NEW r, NEW N, NEW fwd, NEW back, NEW at, NEW first,
           DirOK(c, r, N, fwd, back, at, first),
           NEW s, s.ack = r.ack, s.sacks \subseteq r.ranges
    PROVE  DirOK(c, r, N, fwd, back \cup {s}, at, first)
<1> DEFINE K == Done(r)
           both == back \cup {s}
<1>1. Ruler(at, N) /\ N \in Nat /\ K \in 0 .. N /\ ReceiverOK(r, at, N) /\ r.ack = at[K]
  BY ScaleIsRuler DEF DirOK, Scale, ReceiverOK
<1>2. RangesOK(r.ranges, at, N, K, HeldBy(r))
  BY <1>1 DEF ReceiverOK
<1>3. K \in 0 .. K
  BY <1>1
<1> HIDE DEF K
<1>4. ASSUME NEW b \in s.sacks
      PROVE  \E i, j \in 0 .. N : /\ i < j /\ b = Stretch(at, i, j) /\ K < i
                                 /\ \A d \in (i + 1) .. j : d \in Got(r)
  <2>1. PICK i \in (K + 1) .. N, j \in (K + 1) .. N : i < j /\ b = Stretch(at, i, j)
    BY <1>2 DEF RangesOK
  <2>2. i \in 0 .. N /\ j \in 0 .. N /\ K < i
    BY <1>1
  <2>3. ASSUME NEW d \in (i + 1) .. j PROVE d \in Got(r)
    <3>1. d \in 1 .. N /\ i < d /\ d <= j
      BY <1>1, <2>2
    <3>2. Covered(r.ranges, at, N, d)
      BY <2>1, <2>2, <3>1 DEF Covered
    <3> QED BY <1>2, <3>1, <3>2 DEF RangesOK, Got
  <2> QED BY <2>1, <2>2, <2>3
<1>5. BackOK(s, r, at, N)
  <2>1. \E k \in 0 .. Done(r) : s.ack = at[k]
    BY <1>1, <1>3 DEF K
  <2>2. \A b \in s.sacks : \E i, j \in 0 .. N :
          /\ i < j /\ b = Stretch(at, i, j) /\ \A d \in (i + 1) .. j : d \in Got(r)
    BY <1>4
  <2> QED BY <2>1, <2>2 DEF BackOK
<1>6. Acks(c, r, both) = Acks(c, r, back)
  BY DEF Acks
<1>7. ASSUME NEW n \in Acks(c, r, back) PROVE Apart(s, n, at, N)
  <2>1. PICK k \in 0 .. K : n = at[k]
    BY AcksAre DEF K
  <2>2. ASSUME NEW i \in 0 .. N, NEW j \in 0 .. N, NEW l \in 0 .. N,
               Stretch(at, i, j) \in s.sacks, n = at[l]
        PROVE  l < i
    <3>1. PICK x \in 0 .. N, y \in 0 .. N : Stretch(at, i, j) = Stretch(at, x, y) /\ K < x
      BY <1>4, <2>2
    <3>2. i = x
      BY <1>1, <3>1, StretchIs
    <3>3. l = k /\ k <= K /\ k \in Int
      <4>1. k \in 0 .. N /\ at[l] = at[k]
        BY <1>1, <2>1, <2>2
      <4> QED BY <1>1, <4>1 DEF Ruler
    <3> QED BY <1>1, <3>1, <3>2, <3>3
  <2> QED BY <2>2 DEF Apart
<1> HIDE DEF both
<1>8. \A x \in both : BackOK(x, r, at, N)
  BY <1>5 DEF both, DirOK
<1>9. \A x \in both : \A n \in Acks(c, r, both) : Apart(x, n, at, N)
  BY <1>6, <1>7 DEF both, DirOK
<1>10. MarksOK(c, r, both, at, N)
  BY <1>6 DEF DirOK, MarksOK
<1>11. DirOK(c, r, N, fwd, both, at, first)
  BY <1>8, <1>9, <1>10 DEF DirOK
<1> QED BY <1>11 DEF both

\* send accepts one payload more: the ruler grows by one point.
Entry(s, e) == /\ e.start = s.sequence /\ e.end = SeqAdd(s.sequence, s.length)
               /\ e.segment = s /\ ~e.sacked

LEMMA RangesGrow ==
    ASSUME NEW ranges, NEW at, NEW N, Ruler(at, N), NEW m \in 0 .. N, NEW H,
           RangesOK(ranges, at, N, m, H), N + 1 \notin H,
           NEW bt, Ruler(bt, N + 1), \A k \in 0 .. N : bt[k] = at[k]
    PROVE  RangesOK(ranges, bt, N + 1, m, H)
<1>0. N \in Nat
  BY DEF Ruler
<1>1. ASSUME NEW i \in 0 .. N, NEW j \in 0 .. N PROVE Stretch(bt, i, j) = Stretch(at, i, j)
  BY DEF Stretch
<1>2. ASSUME NEW g \in ranges
      PROVE  \E i, j \in (m + 1) .. N : i < j /\ g = Stretch(at, i, j) /\ g = Stretch(bt, i, j)
  <2>1. PICK i \in (m + 1) .. N, j \in (m + 1) .. N : i < j /\ g = Stretch(at, i, j)
    BY DEF RangesOK
  <2>2. i \in 0 .. N /\ j \in 0 .. N
    BY <1>0
  <2> QED BY <1>1, <2>1, <2>2
<1>3. ASSUME NEW i \in 0 .. (N + 1), NEW j \in 0 .. (N + 1), Stretch(bt, i, j) \in ranges
      PROVE  i \in 0 .. N /\ j \in 0 .. N /\ Stretch(at, i, j) \in ranges
  <2>1. PICK x \in (m + 1) .. N, y \in (m + 1) .. N :
           Stretch(bt, i, j) = Stretch(at, x, y) /\ Stretch(bt, i, j) = Stretch(bt, x, y)
    BY <1>2, <1>3
  <2>2. x \in 0 .. N /\ y \in 0 .. N /\ x \in 0 .. (N + 1) /\ y \in 0 .. (N + 1)
    BY <1>0
  <2>3. i = x /\ j = y
    BY <2>1, <2>2, StretchIs
  <2> QED BY <1>3, <2>1, <2>2, <2>3
<1>4. ASSUME NEW g \in ranges
      PROVE  \E i, j \in (m + 1) .. (N + 1) : i < j /\ g = Stretch(bt, i, j)
  <2>1. PICK i \in (m + 1) .. N, j \in (m + 1) .. N : i < j /\ g = Stretch(bt, i, j)
    BY <1>2
  <2>2. i \in (m + 1) .. (N + 1) /\ j \in (m + 1) .. (N + 1)
    BY <1>0
  <2> QED BY <2>1, <2>2
<1>5. ASSUME NEW i \in 0 .. (N + 1), NEW j \in 0 .. (N + 1),
             NEW k \in 0 .. (N + 1), NEW l \in 0 .. (N + 1),
             Stretch(bt, i, j) \in ranges, Stretch(bt, k, l) \in ranges
      PROVE  (i = k /\ j = l) \/ j < k \/ l < i
  <2>1. /\ i \in 0 .. N /\ j \in 0 .. N /\ Stretch(at, i, j) \in ranges
        /\ k \in 0 .. N /\ l \in 0 .. N /\ Stretch(at, k, l) \in ranges
    BY <1>3, <1>5
  <2> QED BY <2>1 DEF RangesOK
<1>6. ASSUME NEW d \in 1 .. (N + 1)
      PROVE  Covered(ranges, bt, N + 1, d) <=> d \in H /\ d > m
  <2>1. ASSUME Covered(ranges, bt, N + 1, d) PROVE d \in 1 .. N /\ Covered(ranges, at, N, d)
    <3>1. PICK i \in 0 .. (N + 1), j \in 0 .. (N + 1) :
             Stretch(bt, i, j) \in ranges /\ i < d /\ d <= j
      BY <2>1 DEF Covered
    <3>2. i \in 0 .. N /\ j \in 0 .. N /\ Stretch(at, i, j) \in ranges
      BY <1>3, <3>1
    <3>3. d \in 1 .. N
      BY <1>0, <3>1, <3>2
    <3> QED BY <3>1, <3>2, <3>3 DEF Covered
  <2>2. ASSUME d \in 1 .. N, Covered(ranges, at, N, d) PROVE Covered(ranges, bt, N + 1, d)
    <3>1. PICK i \in 0 .. N, j \in 0 .. N :
             Stretch(at, i, j) \in ranges /\ i < d /\ d <= j
      BY <2>2 DEF Covered
    <3>2. /\ Stretch(bt, i, j) \in ranges /\ i \in 0 .. (N + 1) /\ j \in 0 .. (N + 1)
      BY <1>0, <1>1, <3>1
    <3> QED BY <3>1, <3>2 DEF Covered
  <2>3. CASE d \in 1 .. N
    BY <2>1, <2>2, <2>3 DEF RangesOK
  <2>4. CASE d = N + 1
    BY <1>0, <2>1, <2>4
  <2> QED BY <1>0, <2>3, <2>4
<1> QED BY <1>4, <1>5, <1>6 DEF RangesOK

LEMMA DirSend ==
    ASSUME NEW c, NEW r, NEW N, NEW fwd, NEW back, NEW at, NEW first,
           DirOK(c, r, N, fwd, back, at, first), QueueOK(c.queue),
           (N + 1) * Mss < Half,
           NEW s, s.length \in 1 .. Mss, s.sequence = c.next_send, s.data = N + 1,
           NEW e, Entry(s, e),
           NEW d, d.queue = Append(c.queue, e), d.oldest = c.oldest,
           d.next_send = SeqAdd(c.next_send, s.length)
    PROVE  DirOK(d, r, N + 1, fwd \cup {s}, back, Longer(at, N, s.length), first)
<1> DEFINE bt == Longer(at, N, s.length)
           K  == Done(r)
           n  == Len(c.queue)
           a  == First(c, N)
<1>1. /\ Scale(at, N, first) /\ Ruler(at, N) /\ N \in Nat
      /\ SenderOK(c, at, N) /\ ReceiverOK(r, at, N)
  BY ScaleIsRuler DEF DirOK, Scale
<1>2. /\ Scale(bt, N + 1, first) /\ \A k \in 0 .. N : bt[k] = at[k]
      /\ bt[N + 1] = SeqAdd(at[N], s.length)
  BY <1>1, ScaleGrows
<1>3. Ruler(bt, N + 1)
  BY <1>2, ScaleIsRuler
<1> HIDE DEF bt
<1>4. n \in 0 .. N /\ a \in 0 .. N /\ a = N - n /\ N \in 0 .. N
  BY <1>1, QueueAt
<1>5. /\ Len(d.queue) = n + 1 /\ d.queue[n + 1] = e
      /\ \A i \in 1 .. n : d.queue[i] = c.queue[i]
  BY DEF QueueOK, IsSequence
<1>6. First(d, N + 1) = a /\ Len(d.queue) \in 0 .. (N + 1)
  BY <1>1, <1>4, <1>5 DEF First
<1>7. \A i \in 1 .. n :
         /\ a + i \in 0 .. N /\ a + i - 1 \in 0 .. N
         /\ c.queue[i].start = at[a + i - 1] /\ c.queue[i].end = at[a + i]
         /\ c.queue[i].segment.data = a + i
  BY <1>1, QueueAt
<1>8. c.next_send = at[N] /\ c.oldest = at[a]
  BY <1>1 DEF SenderOK
<1> HIDE DEF a, n
<1>9. s.sequence = bt[N] /\ SeqAdd(s.sequence, s.length) = bt[N + 1]
  BY <1>2, <1>4, <1>8
<1>10. a + (n + 1) = N + 1 /\ a + (n + 1) - 1 = N
  BY <1>1, <1>4
<1>11. ASSUME NEW i \in 1 .. Len(d.queue)
       PROVE  /\ d.queue[i].start = bt[a + i - 1] /\ d.queue[i].end = bt[a + i]
              /\ d.queue[i].segment.data = a + i
  <2>1. CASE i \in 1 .. n
    BY <1>2, <1>5, <1>7, <2>1
  <2>2. CASE i = n + 1
    BY <1>5, <1>9, <1>10, <2>2 DEF Entry
  <2>3. n \in Int /\ i \in Int
    BY <1>1, <1>4, <1>5
  <2> QED BY <1>5, <2>1, <2>2, <2>3
<1>12. SenderOK(d, bt, N + 1)
  <2>1. d.next_send = bt[N + 1] /\ d.oldest = bt[a]
    BY <1>2, <1>4, <1>8
  <2> QED BY <1>6, <1>11, <2>1 DEF SenderOK
<1>13. K \in 0 .. N /\ K \in 0 .. (N + 1)
  BY <1>1 DEF ReceiverOK
<1>14. ReceiverOK(r, bt, N + 1)
  <2>1. ASSUME NEW slot \in r.slots
        PROVE  slot.data \in (K + 2) .. N /\ slot.data \in (K + 2) .. (N + 1)
               /\ slot = SlotAt(bt, slot.data)
    <3>1. slot.data \in (K + 2) .. N /\ slot = SlotAt(at, slot.data)
      BY <1>1 DEF ReceiverOK
    <3>2. slot.data \in 0 .. N /\ slot.data - 1 \in 0 .. N /\ slot.data \in (K + 2) .. (N + 1)
      BY <1>1, <1>13, <3>1
    <3> QED BY <1>2, <3>1, <3>2 DEF SlotAt
  <2>2. N + 1 \notin HeldBy(r)
    <3>1. ASSUME NEW slot \in r.slots PROVE slot.data # N + 1
      BY <1>1, <1>13, <2>1
    <3> QED BY <3>1 DEF HeldBy
  <2>3. RangesOK(r.ranges, bt, N + 1, K, HeldBy(r))
    <3>1. RangesOK(r.ranges, at, N, K, HeldBy(r))
      BY <1>1 DEF ReceiverOK
    <3> QED BY <1>1, <1>2, <1>3, <1>13, <2>2, <3>1, RangesGrow
  <2>4. r.ack = bt[K] /\ r.delivery = bt[K]
    BY <1>1, <1>2, <1>13 DEF ReceiverOK
  <2>5. r.delivered \in Seq(Nat) /\ \A i \in 1 .. K : r.delivered[i] = i
    BY <1>1 DEF ReceiverOK
  <2> QED BY <1>13, <2>1, <2>3, <2>4, <2>5 DEF ReceiverOK
<1>15. ASSUME NEW x \in fwd \cup {s} PROVE DataOK(x, bt, N + 1)
  <2>1. CASE x \in fwd
    <3>1. DataOK(x, at, N)
      BY <2>1 DEF DirOK
    <3>2. SUFFICES ASSUME x.length > 0
                   PROVE  /\ x.data \in 1 .. (N + 1) /\ x.sequence = bt[x.data - 1]
                          /\ SeqAdd(x.sequence, x.length) = bt[x.data]
      BY DEF DataOK
    <3>3. /\ x.data \in 1 .. N /\ x.sequence = at[x.data - 1]
          /\ SeqAdd(x.sequence, x.length) = at[x.data]
      BY <3>1, <3>2 DEF DataOK
    <3>4. x.data \in 1 .. (N + 1) /\ x.data \in 0 .. N /\ x.data - 1 \in 0 .. N
      BY <1>1, <3>3
    <3> QED BY <1>2, <3>3, <3>4
  <2>2. CASE x = s
    <3>1. s.data \in 1 .. (N + 1) /\ s.data - 1 = N
      BY <1>1
    <3> QED BY <1>9, <2>2, <3>1 DEF DataOK
  <2> QED BY <2>1, <2>2
<1>16. ASSUME NEW x \in back PROVE BackOK(x, r, bt, N + 1)
  <2>1. BackOK(x, r, at, N)
    BY DEF DirOK
  <2>2. \E k \in 0 .. K : x.ack = bt[k]
    <3>1. PICK k \in 0 .. K : x.ack = at[k]
      BY <2>1 DEF BackOK
    <3>2. k \in 0 .. N
      BY <1>1, <1>13
    <3> QED BY <1>2, <3>1, <3>2
  <2>3. ASSUME NEW b \in x.sacks
        PROVE  \E i, j \in 0 .. (N + 1) : /\ i < j /\ b = Stretch(bt, i, j)
                                          /\ \A z \in (i + 1) .. j : z \in Got(r)
    <3>1. PICK i \in 0 .. N, j \in 0 .. N :
             i < j /\ b = Stretch(at, i, j) /\ \A z \in (i + 1) .. j : z \in Got(r)
      BY <2>1 DEF BackOK
    <3>2. i \in 0 .. (N + 1) /\ j \in 0 .. (N + 1) /\ b = Stretch(bt, i, j)
      BY <1>1, <1>2, <3>1 DEF Stretch
    <3> QED BY <3>1, <3>2
  <2> QED BY <2>2, <2>3 DEF BackOK
<1>17. Acks(d, r, back) = Acks(c, r, back)
  BY DEF Acks
<1>18. ASSUME NEW x \in back, NEW y \in Acks(c, r, back) PROVE Apart(x, y, bt, N + 1)
  <2>1. Apart(x, y, at, N) /\ BackOK(x, r, at, N)
    BY DEF DirOK
  <2>2. ASSUME NEW i \in 0 .. (N + 1), NEW j \in 0 .. (N + 1), NEW k \in 0 .. (N + 1),
               Stretch(bt, i, j) \in x.sacks, y = bt[k]
        PROVE  k < i \/ j <= k
    <3>1. PICK u \in 0 .. N, v \in 0 .. N : Stretch(bt, i, j) = Stretch(at, u, v)
      BY <2>1, <2>2 DEF BackOK
    <3>2. u \in 0 .. (N + 1) /\ v \in 0 .. (N + 1) /\ Stretch(at, u, v) = Stretch(bt, u, v)
      BY <1>1, <1>2 DEF Stretch
    <3>3. i = u /\ j = v
      BY <1>3, <3>1, <3>2, StretchIs
    <3>4. PICK l \in 0 .. K : y = at[l]
      BY AcksAre
    <3>5. l \in 0 .. N /\ l \in 0 .. (N + 1)
      BY <1>1, <1>13
    <3>6. bt[k] = bt[l]
      BY <1>2, <2>2, <3>4, <3>5
    <3>7. k = l
      BY <1>3, <3>5, <3>6 DEF Ruler
    <3> QED BY <2>1, <2>2, <3>1, <3>3, <3>4, <3>5, <3>7 DEF Apart
  <2> QED BY <2>2 DEF Apart
<1>19. MarksOK(d, r, back, bt, N + 1)
  <2>1. ASSUME NEW i \in 1 .. Len(d.queue), d.queue[i].sacked
        PROVE  a + i \in Got(r) /\ bt[a + i - 1] \notin Acks(d, r, back)
    <3>1. n \in Int /\ i \in Int
      BY <1>1, <1>4, <1>5
    <3>2. i # n + 1
      BY <1>5, <2>1 DEF Entry
    <3>3. i \in 1 .. n
      BY <1>5, <3>1, <3>2
    <3>4. d.queue[i] = c.queue[i] /\ bt[a + i - 1] = at[a + i - 1]
      BY <1>2, <1>5, <1>7, <3>3
    <3>5. MarksOK(c, r, back, at, N)
      BY DEF DirOK
    <3> QED BY <1>17, <2>1, <3>3, <3>4, <3>5 DEF MarksOK, a, n
  <2> QED BY <1>6, <2>1 DEF MarksOK
<1>20. First(d, N + 1) <= Done(r)
  BY <1>6 DEF DirOK, a
<1>21. DirOK(d, r, N + 1, fwd \cup {s}, back, bt, first)
  BY <1>2, <1>12, <1>14, <1>15, <1>16, <1>17, <1>18, <1>19, <1>20 DEF DirOK
<1> QED BY <1>21 DEF bt

-----------------------------------------------------------------------------
(* deliver_contiguous *)

\* The slots of the payloads K + 1 .. m.
Run(at, K, m) == {SlotAt(at, x) : x \in (K + 1) .. m}

LEMMA RunSize ==
    ASSUME NEW at, NEW K \in Int, NEW m \in Int, K <= m
    PROVE  IsFiniteSet(Run(at, K, m)) /\ Cardinality(Run(at, K, m)) = m - K
<1> DEFINE S == (K + 1) .. m
           f == [x \in S |-> SlotAt(at, x)]
<1>1. IsFiniteSet(S) /\ Cardinality(S) = m - K
  <2>1. K + 1 \in Int /\ (K + 1 > m => m - K = 0) /\ m - (K + 1) + 1 = m - K
    OBVIOUS
  <2> QED BY <2>1, FS_Interval
<1>2. f \in Bijection(S, Run(at, K, m))
  <2>1. \A x, y \in S : SlotAt(at, x) = SlotAt(at, y) => x = y
    BY DEF SlotAt
  <2> QED BY <2>1 DEF Bijection, Injection, IsInjective, Surjection, Run
<1>3. ExistsBijection(S, Run(at, K, m))
  BY <1>2 DEF ExistsBijection
<1> QED BY <1>1, <1>3, FS_Bijection

LEMMA RunBefore ==
    ASSUME NEW at, NEW N, Ruler(at, N), NEW K \in 0 .. N, NEW m \in K .. N,
           NEW x \in (K + 1) .. m
    PROVE  Before(Run(at, K, m), SlotAt(at, x)) = Run(at, K, x - 1)
<1>0. N \in Nat /\ K \in Int /\ m \in Int /\ x \in Int
  BY DEF Ruler
<1>1. ASSUME NEW y \in (K + 1) .. m
      PROVE  SequenceLess(SlotAt(at, y).start, SlotAt(at, x).start) <=> y \in (K + 1) .. (x - 1)
  <2>1. y - 1 \in 0 .. N /\ x - 1 \in 0 .. N /\ y \in Int
    BY <1>0
  <2>2. SequenceLess(at[y - 1], at[x - 1]) <=> y - 1 < x - 1
    BY <2>1 DEF Ruler
  <2>3. SlotAt(at, y).start = at[y - 1] /\ SlotAt(at, x).start = at[x - 1]
    BY DEF SlotAt
  <2> QED BY <1>0, <2>1, <2>2, <2>3
<1>2. \A y \in (K + 1) .. (x - 1) : y \in (K + 1) .. m
  BY <1>0
<1> QED BY <1>1, <1>2 DEF Before, Run

LEMMA InOrderIs ==
    ASSUME NEW at, NEW N, Ruler(at, N), NEW K \in 0 .. N, NEW m \in K .. N,
           NEW i \in 1 .. (m - K)
    PROVE  InOrder(Run(at, K, m))[i] = SlotAt(at, K + i)
<1> DEFINE S == Run(at, K, m)
<1>0. N \in Nat /\ K \in Int /\ m \in Int /\ K <= m /\ i \in Int /\ K + i \in (K + 1) .. m
  BY DEF Ruler
<1>1. Cardinality(S) = m - K
  BY <1>0, RunSize
<1>2. ASSUME NEW x \in (K + 1) .. m
      PROVE  Cardinality(Before(S, SlotAt(at, x))) = x - 1 - K
  <2>1. x - 1 \in Int /\ K <= x - 1
    BY <1>0
  <2> QED BY <1>0, <2>1, RunBefore, RunSize
<1>3. SlotAt(at, K + i) \in S /\ Cardinality(Before(S, SlotAt(at, K + i))) = i - 1
  <2>1. Cardinality(Before(S, SlotAt(at, K + i))) = K + i - 1 - K
    BY <1>0, <1>2
  <2>2. K + i - 1 - K = i - 1
    BY <1>0
  <2> QED BY <1>0, <2>1, <2>2 DEF Run
<1>4. ASSUME NEW slot \in S, Cardinality(Before(S, slot)) = i - 1
      PROVE  slot = SlotAt(at, K + i)
  <2>1. PICK x \in (K + 1) .. m : slot = SlotAt(at, x)
    BY DEF Run
  <2>2. x - 1 - K = i - 1
    BY <1>2, <1>4, <2>1
  <2>3. x = K + i
    BY <1>0, <2>2
  <2> QED BY <2>1, <2>3
<1> HIDE DEF S
<1>5. (CHOOSE slot \in S : Cardinality(Before(S, slot)) = i - 1) = SlotAt(at, K + i)
  BY <1>3, <1>4
<1>6. i \in 1 .. Cardinality(S)
  BY <1>1
<1> QED BY <1>5, <1>6 DEF InOrder, S

LEMMA HandedOver ==
    ASSUME NEW p, p \in Seq(Nat), NEW k, k = Len(p), \A i \in 1 .. k : p[i] = i,
           NEW n \in Nat, NEW q, q = [i \in 1 .. n |-> k + i]
    PROVE  LET z == p \o q IN
           z \in Seq(Nat) /\ Len(z) = k + n /\ \A i \in 1 .. (k + n) : z[i] = i
<1>1. k \in Nat
  OBVIOUS
<1>2. q \in Seq(Nat) /\ Len(q) = n
  BY <1>1
<1>3. p \o q \in Seq(Nat) /\ Len(p \o q) = k + n
  BY <1>2
<1>4. ASSUME NEW i \in 1 .. (k + n) PROVE (p \o q)[i] = i
  <2>1. CASE i <= k
    BY <1>1, <1>2, <2>1
  <2>2. CASE i > k
    <3>1. i - k \in 1 .. n /\ k + (i - k) = i
      BY <1>1, <2>2
    <3>2. (p \o q)[i] = q[i - k]
      BY <1>1, <1>2, <2>2
    <3> QED BY <3>1, <3>2
  <2> QED BY <1>1, <2>1, <2>2
<1> QED BY <1>3, <1>4

\* The receiver holds the payloads K + 1 .. m and not the next one.
LEMMA DeliverIs ==
    ASSUME NEW e, IsEndpoint(e), NEW at, NEW N, Ruler(at, N),
           NEW K \in 0 .. N, NEW m \in K .. N,
           e.delivered \in Seq(Nat), Done(e) = K, \A i \in 1 .. K : e.delivered[i] = i,
           e.delivery = at[K],
           \A slot \in e.slots : slot.data \in (K + 1) .. N /\ slot = SlotAt(at, slot.data),
           \A x \in (K + 1) .. m : x \in HeldBy(e), m + 1 \notin HeldBy(e)
    PROVE  LET d == DeliverContiguous(e) IN
           /\ IsEndpoint(d) /\ d.ranges = e.ranges /\ d.ack = e.ack
           /\ d.slots = {slot \in e.slots : slot.data > m}
           /\ d.delivery = at[m] /\ d.delivered \in Seq(Nat) /\ Len(d.delivered) = m
           /\ \A i \in 1 .. m : d.delivered[i] = i
<1>0. N \in Nat /\ K \in Int /\ m \in Int /\ 0 <= K /\ K <= m /\ m <= N /\ m \in 0 .. N
  BY DEF Ruler
<1>1. ASSUME NEW x \in HeldBy(e)
      PROVE  x \in (K + 1) .. N /\ SlotAt(at, x) \in e.slots
  BY DEF HeldBy
<1>2. ASSUME NEW slot \in e.slots
      PROVE  /\ slot.data \in HeldBy(e) /\ slot.data \in Int /\ slot.data \in 0 .. N
             /\ slot.data - 1 \in 0 .. N
             /\ slot.start = at[slot.data - 1] /\ slot.end = at[slot.data]
  <2>1. slot.data \in (K + 1) .. N /\ slot = SlotAt(at, slot.data)
    OBVIOUS
  <2>2. slot.data \in HeldBy(e)
    BY DEF HeldBy
  <2>3. slot.data \in Int /\ slot.data \in 0 .. N /\ slot.data - 1 \in 0 .. N
    BY <1>0, <2>1
  <2>4. slot.start = at[slot.data - 1] /\ slot.end = at[slot.data]
    BY <2>1 DEF SlotAt
  <2> QED BY <2>2, <2>3, <2>4
<1> DEFINE ends == {p \in {e.delivery} \cup {slot.end : slot \in e.slots} :
                       /\ SequenceLessEqual(e.delivery, p)
                       /\ \A slot \in e.slots : slot.start # p}
<1>3. at[m] \in ends
  <2>1. at[m] \in {e.delivery} \cup {slot.end : slot \in e.slots}
    <3>1. CASE m = K
      BY <3>1
    <3>2. CASE m > K
      <4>1. m \in (K + 1) .. m
        BY <1>0, <3>2
      <4>2. SlotAt(at, m) \in e.slots /\ SlotAt(at, m).end = at[m]
        BY <1>1, <4>1 DEF SlotAt
      <4> QED BY <4>2
    <3> QED BY <1>0, <3>1, <3>2
  <2>2. SequenceLessEqual(e.delivery, at[m])
    BY <1>0 DEF Ruler
  <2>3. ASSUME NEW slot \in e.slots, slot.start = at[m] PROVE FALSE
    <3>1. slot.data - 1 = m
      BY <1>0, <1>2, <2>3 DEF Ruler
    <3>2. slot.data = m + 1
      BY <1>0, <1>2, <3>1
    <3> QED BY <1>2, <3>2
  <2> QED BY <2>1, <2>2, <2>3
<1>4. ASSUME NEW p \in ends PROVE \E x \in m .. N : p = at[x]
  <2>1. ASSUME NEW x \in 0 .. N, p = at[x], K <= x PROVE m <= x
    <3>1. SUFFICES ASSUME x < m PROVE FALSE
      BY <1>0
    <3>2. x + 1 \in (K + 1) .. m
      BY <1>0, <2>1, <3>1
    <3>3. SlotAt(at, x + 1) \in e.slots
      BY <1>1, <3>2
    <3>4. SlotAt(at, x + 1).start = at[x]
      <4>1. x + 1 - 1 = x
        BY <1>0
      <4> QED BY <4>1 DEF SlotAt
    <3> QED BY <2>1, <3>3, <3>4
  <2>2. CASE p = e.delivery
    <3>1. m <= K /\ K \in m .. N
      BY <1>0, <2>1, <2>2
    <3> QED BY <2>2, <3>1
  <2>3. ASSUME NEW slot \in e.slots, p = slot.end PROVE \E x \in m .. N : p = at[x]
    <3>1. slot.data \in 0 .. N /\ p = at[slot.data] /\ slot.data \in (K + 1) .. N
      BY <1>2, <2>3
    <3>2. K <= slot.data /\ slot.data \in Int
      BY <1>0, <3>1
    <3>3. slot.data \in m .. N
      BY <1>0, <2>1, <3>1, <3>2
    <3> QED BY <3>1, <3>3
  <2> QED BY <2>2, <2>3
<1>5. DeliveryStop(e) = at[m]
  <2>1. Earliest(at[K], ends) = at[m]
    <3> HIDE DEF ends
    <3> QED BY <1>3, <1>4, EarliestIs
  <2> QED BY <2>1 DEF DeliveryStop
<1> HIDE DEF ends
<1> DEFINE ready == Ready(e, at[m])
<1>6. ASSUME NEW slot \in e.slots PROVE slot \in ready <=> slot.data <= m
  <2>1. SequenceLess(at[slot.data - 1], at[m]) <=> slot.data - 1 < m
    BY <1>0, <1>2 DEF Ruler
  <2>2. SequenceLessEqual(at[K], at[slot.data - 1]) <=> K <= slot.data - 1
    BY <1>0, <1>2 DEF Ruler
  <2>3. K <= slot.data - 1 /\ slot.data \in Int
    BY <1>0, <1>2
  <2> QED BY <1>0, <1>2, <2>1, <2>2, <2>3 DEF Ready
<1>7. ready \subseteq e.slots
  BY DEF Ready
<1> HIDE DEF ready
<1>8. ready = Run(at, K, m)
  <2>1. ASSUME NEW slot \in ready PROVE slot \in Run(at, K, m)
    <3>1. slot \in e.slots /\ slot.data <= m
      BY <1>6, <1>7
    <3>2. slot.data \in (K + 1) .. m /\ slot = SlotAt(at, slot.data)
      BY <1>0, <3>1
    <3> QED BY <3>2 DEF Run
  <2>2. ASSUME NEW x \in (K + 1) .. m PROVE SlotAt(at, x) \in ready
    <3>1. SlotAt(at, x) \in e.slots /\ SlotAt(at, x).data = x /\ x <= m
      BY <1>0, <1>1 DEF SlotAt
    <3> QED BY <1>6, <3>1
  <2> QED BY <2>1, <2>2 DEF Run
<1>9. Cardinality(ready) = m - K /\ m - K \in Nat
  BY <1>0, <1>8, RunSize
<1> DEFINE stop == at[m]
           d == HandOver(e, ready, stop)
           q == [i \in 1 .. (m - K) |-> K + i]
<1>10. /\ IsEndpoint(d) /\ d.ranges = e.ranges /\ d.ack = e.ack
       /\ d.slots = e.slots \ ready /\ d.delivery = at[m]
       /\ d.delivered = e.delivered \o Payloads(ready)
  <2> HIDE DEF stop
  <2>1. /\ IsEndpoint(d) /\ d.ranges = e.ranges /\ d.ack = e.ack
        /\ d.slots = e.slots \ ready /\ d.delivery = stop
    BY HandOverIs
  <2>2. d.delivered = e.delivered \o Payloads(ready)
    BY HandOverIs
  <2> HIDE DEF d
  <2> QED BY <2>1, <2>2 DEF stop
<1>11. d.delivered = e.delivered \o q
  <2>1. ASSUME NEW i \in 1 .. (m - K) PROVE InOrder(ready)[i].data = K + i
    <3>1. InOrder(ready)[i] = SlotAt(at, K + i)
      BY <1>8, InOrderIs
    <3> QED BY <3>1 DEF SlotAt
  <2>2. Payloads(ready) = q
    BY <1>9, <2>1 DEF Payloads
  <2> HIDE DEF d
  <2> QED BY <1>10, <2>2
<1>12. DeliverContiguous(e) = d
  BY <1>5 DEF DeliverContiguous, ready, stop
<1> HIDE DEF d
<1>13. d.delivered \in Seq(Nat) /\ Len(d.delivered) = m /\ \A i \in 1 .. m : d.delivered[i] = i
  <2>1. K = Len(e.delivered) /\ K + (m - K) = m
    BY <1>0 DEF Done
  <2> HIDE DEF q
  <2>2. q = [i \in 1 .. (m - K) |-> K + i]
    BY DEF q
  <2> DEFINE n == m - K
             z == e.delivered \o q
  <2>3. z \in Seq(Nat) /\ Len(z) = K + n /\ \A i \in 1 .. (K + n) : z[i] = i
    <3>1. n \in Nat /\ q = [i \in 1 .. n |-> K + i]
      BY <1>9, <2>2
    <3> HIDE DEF n
    <3> QED BY <2>1, <3>1, HandedOver
  <2> QED BY <1>11, <2>1, <2>3
<1>14. d.slots = {slot \in e.slots : slot.data > m}
  <2>1. \A slot \in e.slots : slot \notin ready <=> slot.data > m
    BY <1>0, <1>2, <1>6
  <2>2. d.slots = e.slots \ ready
    BY <1>10
  <2> QED BY <2>1, <2>2
<1> QED BY <1>10, <1>12, <1>13, <1>14

-----------------------------------------------------------------------------
(* ReceiveRangeSet::insert, by positions.  H are the payloads held before.  *)

\* Facts about the ranges that the following lemmas share.
LEMMA RangeIs ==
    ASSUME NEW ranges, NEW at, NEW N, Ruler(at, N), NEW K \in 0 .. N, NEW H,
           RangesOK(ranges, at, N, K, H),
           NEW i \in 0 .. N, NEW j \in 0 .. N, Stretch(at, i, j) \in ranges
    PROVE  /\ i \in (K + 1) .. N /\ j \in (K + 1) .. N /\ i < j
           /\ \A d \in (i + 1) .. j : d \in H
           /\ \A k, l \in 0 .. N :
                 Stretch(at, k, l) \in ranges => (i = k /\ j = l) \/ j < k \/ l < i
<1>0. N \in Nat
  BY DEF Ruler
<1>1. PICK x \in (K + 1) .. N, y \in (K + 1) .. N : x < y /\ Stretch(at, i, j) = Stretch(at, x, y)
  BY DEF RangesOK
<1>2. x \in 0 .. N /\ y \in 0 .. N
  BY <1>0
<1>3. i = x /\ j = y
  BY <1>1, <1>2, StretchIs
<1>4. ASSUME NEW d \in (i + 1) .. j PROVE d \in H
  <2>1. d \in 1 .. N /\ i < d /\ d <= j
    BY <1>0
  <2>2. Covered(ranges, at, N, d)
    BY <2>1 DEF Covered
  <2> QED BY <2>1, <2>2 DEF RangesOK
<1>5. \A k, l \in 0 .. N :
         Stretch(at, k, l) \in ranges => (i = k /\ j = l) \/ j < k \/ l < i
  BY DEF RangesOK
<1> QED BY <1>1, <1>3, <1>4, <1>5

LEMMA HeldInRange ==
    ASSUME NEW ranges, NEW at, NEW N, Ruler(at, N), NEW K \in 0 .. N, NEW H,
           RangesOK(ranges, at, N, K, H), NEW d \in H, d \in 1 .. N, d > K
    PROVE  \E i, j \in 0 .. N : Stretch(at, i, j) \in ranges /\ i < d /\ d <= j
  BY DEF RangesOK, Covered

\* The payload D, not held, can be followed by a stored stretch ...
RightEnd(ranges, at, N, H, D, m) ==
    /\ m \in D .. N
    /\ m = D \/ Stretch(at, D, m) \in ranges
    /\ \A y \in (D + 1) .. m : y \in H
    /\ m + 1 \notin H

LEMMA RightEndIs ==
    ASSUME NEW ranges, NEW at, NEW N, Ruler(at, N), NEW K \in 0 .. N, NEW H,
           RangesOK(ranges, at, N, K, H), \A x \in H : x \in (K + 1) .. N,
           NEW D \in (K + 1) .. N, D \notin H
    PROVE  \E m \in D .. N : RightEnd(ranges, at, N, H, D, m)
<1>0. N \in Nat /\ K \in Int /\ D \in Int /\ D \in 0 .. N /\ 0 <= K /\ K < D /\ D <= N
  BY DEF Ruler
<1>1. CASE \E j \in 0 .. N : Stretch(at, D, j) \in ranges
  <2>1. PICK j \in 0 .. N : Stretch(at, D, j) \in ranges
    BY <1>1
  <2>2. /\ j \in (K + 1) .. N /\ D < j /\ \A y \in (D + 1) .. j : y \in H
        /\ \A k, l \in 0 .. N :
              Stretch(at, k, l) \in ranges => (D = k /\ j = l) \/ j < k \/ l < D
    BY <1>0, <2>1, RangeIs
  <2>3. ASSUME j + 1 \in H PROVE FALSE
    <3>1. j + 1 \in 1 .. N /\ j + 1 > K
      BY <1>0, <2>2, <2>3
    <3>2. PICK k \in 0 .. N, l \in 0 .. N :
             Stretch(at, k, l) \in ranges /\ k < j + 1 /\ j + 1 <= l
      BY <2>3, <3>1, HeldInRange
    <3> QED BY <1>0, <2>2, <3>2
  <2>4. j \in D .. N
    BY <1>0, <2>2
  <2> QED BY <2>1, <2>2, <2>3, <2>4 DEF RightEnd
<1>2. CASE ~\E j \in 0 .. N : Stretch(at, D, j) \in ranges
  <2>1. ASSUME D + 1 \in H PROVE FALSE
    <3>1. D + 1 \in 1 .. N /\ D + 1 > K
      BY <1>0, <2>1
    <3>2. PICK k \in 0 .. N, l \in 0 .. N :
             Stretch(at, k, l) \in ranges /\ k < D + 1 /\ D + 1 <= l
      BY <2>1, <3>1, HeldInRange
    <3>3. \A d \in (k + 1) .. l : d \in H
      BY <3>2, RangeIs
    <3>4. k # D
      BY <1>2, <3>2
    <3>5. D \in (k + 1) .. l
      BY <1>0, <3>2, <3>4
    <3> QED BY <3>3, <3>5
  <2>2. D \in D .. N /\ \A y \in (D + 1) .. D : y \in H
    BY <1>0
  <2> QED BY <2>1, <2>2 DEF RightEnd
<1> QED BY <1>1, <1>2

\* ... and preceded by one.
LeftEnd(ranges, at, N, H, D, m) ==
    /\ m \in 0 .. (D - 1)
    /\ m = D - 1 \/ Stretch(at, m, D - 1) \in ranges
    /\ \A y \in (m + 1) .. (D - 1) : y \in H
    /\ m \notin H

LEMMA LeftEndIs ==
    ASSUME NEW ranges, NEW at, NEW N, Ruler(at, N), NEW K \in 0 .. N, NEW H,
           RangesOK(ranges, at, N, K, H),
           NEW D \in (K + 2) .. N, D \notin H
    PROVE  \E m \in (K + 1) .. (D - 1) : LeftEnd(ranges, at, N, H, D, m)
<1>0. N \in Nat /\ K \in Int /\ D \in Int /\ D - 1 \in 0 .. N /\ 0 <= K /\ K + 1 < D /\ D <= N
  BY DEF Ruler
<1>1. CASE \E i \in 0 .. N : Stretch(at, i, D - 1) \in ranges
  <2>1. PICK i \in 0 .. N : Stretch(at, i, D - 1) \in ranges
    BY <1>1
  <2>2. /\ i \in (K + 1) .. N /\ i < D - 1 /\ \A y \in (i + 1) .. (D - 1) : y \in H
        /\ \A k, l \in 0 .. N :
              Stretch(at, k, l) \in ranges => (i = k /\ D - 1 = l) \/ D - 1 < k \/ l < i
    BY <1>0, <2>1, RangeIs
  <2>3. ASSUME i \in H PROVE FALSE
    <3>1. i \in 1 .. N /\ i > K
      BY <1>0, <2>2
    <3>2. PICK k \in 0 .. N, l \in 0 .. N :
             Stretch(at, k, l) \in ranges /\ k < i /\ i <= l
      BY <2>3, <3>1, HeldInRange
    <3> QED BY <1>0, <2>2, <3>2
  <2>4. i \in (K + 1) .. (D - 1) /\ i \in 0 .. (D - 1)
    BY <1>0, <2>2
  <2> QED BY <2>1, <2>2, <2>3, <2>4 DEF LeftEnd
<1>2. CASE ~\E i \in 0 .. N : Stretch(at, i, D - 1) \in ranges
  <2>1. ASSUME D - 1 \in H PROVE FALSE
    <3>1. D - 1 \in 1 .. N /\ D - 1 > K
      BY <1>0, <2>1
    <3>2. PICK k \in 0 .. N, l \in 0 .. N :
             Stretch(at, k, l) \in ranges /\ k < D - 1 /\ D - 1 <= l
      BY <2>1, <3>1, HeldInRange
    <3>3. \A d \in (k + 1) .. l : d \in H
      BY <3>2, RangeIs
    <3>4. l # D - 1
      BY <1>2, <3>2
    <3>5. D \in (k + 1) .. l
      BY <1>0, <3>2, <3>4
    <3> QED BY <3>3, <3>5
  <2>2. /\ D - 1 \in (K + 1) .. (D - 1) /\ D - 1 \in 0 .. (D - 1)
        /\ \A y \in (D - 1 + 1) .. (D - 1) : y \in H
    BY <1>0
  <2> QED BY <2>1, <2>2 DEF LeftEnd
<1> QED BY <1>1, <1>2

\* The payload that was waited for: advance_contiguous runs to the end of the
\* stretch that follows it, and that stretch is no longer a range.
LEMMA InsertAtFront ==
    ASSUME NEW ranges, NEW at, NEW N, Ruler(at, N), NEW K \in 0 .. N, NEW H,
           RangesOK(ranges, at, N, K, H), NEW D \in 1 .. N, D = K + 1, D \notin H,
           NEW m \in D .. N, RightEnd(ranges, at, N, H, D, m)
    PROVE  /\ AdvanceContiguous(ranges, at[D]) = at[m]
           /\ RangesOK({g \in ranges : SequenceLess(at[m], g.start)}, at, N, m, H \cup {D})
<1>0. /\ N \in Nat /\ K \in Int /\ D \in Int /\ D \in 0 .. N /\ m \in Int /\ m \in 0 .. N
      /\ 0 <= K /\ D = K + 1 /\ D <= m /\ m <= N
  BY DEF Ruler
<1>1. m + 1 \notin H /\ \A y \in (D + 1) .. m : y \in H
  BY DEF RightEnd
<1> DEFINE continues(p) == \E r \in ranges : /\ SequenceLessEqual(r.start, p)
                                             /\ SequenceLess(p, r.end)
           points == {p \in {at[D]} \cup {r.end : r \in ranges} :
                         SequenceLessEqual(at[D], p) /\ ~continues(p)}
           left == {g \in ranges : SequenceLess(at[m], g.start)}
<1>2. ASSUME NEW x \in 0 .. N
      PROVE  /\ continues(at[x]) => x + 1 \in H
             /\ x + 1 \in H /\ D <= x /\ x < N => continues(at[x])
  <2>1. ASSUME continues(at[x]) PROVE x + 1 \in H
    <3>1. PICK r \in ranges : SequenceLessEqual(r.start, at[x]) /\ SequenceLess(at[x], r.end)
      BY <2>1
    <3>2. PICK i \in (K + 1) .. N, j \in (K + 1) .. N : r = Stretch(at, i, j)
      BY DEF RangesOK
    <3>3. i \in 0 .. N /\ j \in 0 .. N /\ r.start = at[i] /\ r.end = at[j]
      BY <1>0, <3>2 DEF Stretch
    <3>4. i <= x /\ x < j
      BY <3>1, <3>3 DEF Ruler
    <3>5. \A d \in (i + 1) .. j : d \in H
      BY <3>2, <3>3, RangeIs
    <3>6. x + 1 \in (i + 1) .. j
      BY <1>0, <3>3, <3>4
    <3> QED BY <3>5, <3>6
  <2>2. ASSUME x + 1 \in H, D <= x, x < N PROVE continues(at[x])
    <3>1. x + 1 \in 1 .. N /\ x + 1 > K /\ x \in Int
      BY <1>0, <2>2
    <3>2. PICK i \in 0 .. N, j \in 0 .. N :
             Stretch(at, i, j) \in ranges /\ i < x + 1 /\ x + 1 <= j
      BY <2>2, <3>1, HeldInRange
    <3>3. i <= x /\ x < j
      BY <1>0, <3>1, <3>2
    <3>4. SequenceLessEqual(at[i], at[x]) /\ SequenceLess(at[x], at[j])
      BY <3>3 DEF Ruler
    <3>5. Stretch(at, i, j).start = at[i] /\ Stretch(at, i, j).end = at[j]
      BY DEF Stretch
    <3> QED BY <3>2, <3>4, <3>5
  <2> QED BY <2>1, <2>2
<1>3. at[m] \in points
  <2>1. ~continues(at[m])
    BY <1>0, <1>1, <1>2
  <2>2. SequenceLessEqual(at[D], at[m])
    BY <1>0 DEF Ruler
  <2>3. m = D \/ Stretch(at, D, m) \in ranges
    BY DEF RightEnd
  <2>4. Stretch(at, D, m).end = at[m]
    BY DEF Stretch
  <2> HIDE DEF continues
  <2>5. at[m] \in {at[D]} \cup {r.end : r \in ranges}
    BY <2>3, <2>4
  <2> QED BY <2>1, <2>2, <2>5
<1>4. ASSUME NEW p \in points PROVE \E x \in m .. N : p = at[x]
  <2>1. PICK x \in 0 .. N : p = at[x]
    <3>1. CASE p = at[D]
      BY <1>0, <3>1
    <3>2. ASSUME NEW r \in ranges, p = r.end PROVE \E x \in 0 .. N : p = at[x]
      <4>1. PICK i \in (K + 1) .. N, j \in (K + 1) .. N : r = Stretch(at, i, j)
        BY DEF RangesOK
      <4>2. j \in 0 .. N /\ r.end = at[j]
        BY <1>0, <4>1 DEF Stretch
      <4> QED BY <3>2, <4>2
    <3> QED BY <3>1, <3>2
  <2>2. D <= x /\ ~continues(at[x]) /\ x \in Int /\ x <= N
    <3>1. SequenceLessEqual(at[D], at[x]) /\ ~continues(at[x])
      BY <2>1
    <3>2. D <= x
      BY <1>0, <3>1 DEF Ruler
    <3> QED BY <1>0, <3>1, <3>2
  <2> HIDE DEF continues
  <2>3. ASSUME x < m PROVE FALSE
    <3>1. x + 1 \in (D + 1) .. m /\ x < N
      BY <1>0, <2>2, <2>3
    <3> QED BY <1>1, <1>2, <2>2, <3>1
  <2>4. x \in m .. N
    BY <1>0, <2>2, <2>3
  <2> QED BY <2>1, <2>4
<1>5. AdvanceContiguous(ranges, at[D]) = at[m]
  <2>1. Earliest(at[D], points) = at[m]
    <3> HIDE DEF points
    <3> QED BY <1>0, <1>3, <1>4, EarliestIs
  <2> QED BY <2>1 DEF AdvanceContiguous
<1> HIDE DEF points, continues
<1>6. ASSUME NEW i \in 0 .. N, NEW j \in 0 .. N
      PROVE  Stretch(at, i, j) \in left <=> Stretch(at, i, j) \in ranges /\ m < i
  <2>1. Stretch(at, i, j).start = at[i]
    BY DEF Stretch
  <2>2. SequenceLess(at[m], at[i]) <=> m < i
    BY <1>0 DEF Ruler
  <2> QED BY <2>1, <2>2
<1>7. ASSUME NEW g \in left
      PROVE  \E i, j \in (m + 1) .. N : i < j /\ g = Stretch(at, i, j)
  <2>1. PICK i \in (K + 1) .. N, j \in (K + 1) .. N : i < j /\ g = Stretch(at, i, j)
    BY DEF RangesOK
  <2>2. i \in 0 .. N /\ j \in 0 .. N
    BY <1>0
  <2>3. m < i
    BY <1>6, <2>1, <2>2
  <2>4. i \in (m + 1) .. N /\ j \in (m + 1) .. N
    BY <1>0, <2>1, <2>2, <2>3
  <2> QED BY <2>1, <2>4
<1> HIDE DEF left
<1>8. \A i, j, k, l \in 0 .. N :
         Stretch(at, i, j) \in left /\ Stretch(at, k, l) \in left
              => (i = k /\ j = l) \/ j < k \/ l < i
  <2>1. \A i, j, k, l \in 0 .. N :
           Stretch(at, i, j) \in ranges /\ Stretch(at, k, l) \in ranges
              => (i = k /\ j = l) \/ j < k \/ l < i
    BY DEF RangesOK
  <2> QED BY <1>6, <2>1
<1>9. ASSUME NEW d \in 1 .. N PROVE Covered(left, at, N, d) <=> d \in H \cup {D} /\ d > m
  <2>1. ASSUME Covered(left, at, N, d) PROVE d \in H /\ d > m
    <3>1. PICK i \in 0 .. N, j \in 0 .. N : Stretch(at, i, j) \in left /\ i < d /\ d <= j
      BY <2>1 DEF Covered
    <3>2. Stretch(at, i, j) \in ranges /\ m < i
      BY <1>6, <3>1
    <3>3. d \in (i + 1) .. j /\ d > m
      BY <1>0, <3>1, <3>2
    <3> QED BY <3>2, <3>3, RangeIs
  <2>2. ASSUME d \in H \cup {D}, d > m PROVE Covered(left, at, N, d)
    <3>1. d \in H /\ d > K /\ d \in Int
      BY <1>0, <2>2
    <3>2. PICK i \in 0 .. N, j \in 0 .. N : Stretch(at, i, j) \in ranges /\ i < d /\ d <= j
      BY <3>1, HeldInRange
    <3>3. ASSUME i <= m PROVE FALSE
      <4>1. m + 1 \in (i + 1) .. j
        BY <1>0, <2>2, <3>1, <3>2, <3>3
      <4> QED BY <1>1, <3>2, <4>1, RangeIs
    <3>4. m < i
      BY <1>0, <3>3
    <3> QED BY <1>6, <3>2, <3>4 DEF Covered
  <2> QED BY <2>1, <2>2
<1>10. RangesOK(left, at, N, m, H \cup {D})
  BY <1>7, <1>8, <1>9 DEF RangesOK
<1> QED BY <1>5, <1>10 DEF left

\* A payload beyond a hole: it merges with the stretches next to it.
LEMMA InsertBeyond ==
    ASSUME NEW ranges, NEW at, NEW N, Ruler(at, N), NEW K \in 0 .. N, NEW H,
           RangesOK(ranges, at, N, K, H), NEW D \in (K + 2) .. N, D \notin H,
           NEW a \in (K + 1) .. (D - 1), LeftEnd(ranges, at, N, H, D, a),
           NEW z \in D .. N, RightEnd(ranges, at, N, H, D, z)
    PROVE  LET touching == Touching(ranges, at[D - 1], at[D]) IN
           RangesOK((ranges \ touching) \cup {Merge(at[K], touching, at[D - 1], at[D])},
                    at, N, K, H \cup {D})
<1>0. /\ N \in Nat /\ K \in Int /\ D \in Int /\ a \in Int /\ z \in Int
      /\ 0 <= K /\ K < a /\ a < D /\ D <= z /\ z <= N
      /\ a \in 0 .. N /\ z \in 0 .. N /\ D \in 0 .. N /\ D - 1 \in 0 .. N /\ K < D
  BY DEF Ruler
<1>1. /\ a \notin H /\ \A y \in (a + 1) .. (D - 1) : y \in H
      /\ a = D - 1 \/ Stretch(at, a, D - 1) \in ranges
  BY DEF LeftEnd
<1>2. /\ z + 1 \notin H /\ \A y \in (D + 1) .. z : y \in H
      /\ z = D \/ Stretch(at, D, z) \in ranges
  BY DEF RightEnd
<1> DEFINE touching == Touching(ranges, at[D - 1], at[D])
           merged == Merge(at[K], touching, at[D - 1], at[D])
           new == (ranges \ touching) \cup {merged}
<1>3. ASSUME NEW i \in 0 .. N, NEW j \in 0 .. N, Stretch(at, i, j) \in ranges
      PROVE  Stretch(at, i, j) \in touching <=> j >= D - 1 /\ i <= D
  <2>1. Stretch(at, i, j).start = at[i] /\ Stretch(at, i, j).end = at[j]
    BY DEF Stretch
  <2>2. SequenceLess(at[j], at[D - 1]) <=> j < D - 1
    BY <1>0 DEF Ruler
  <2>3. SequenceLessEqual(at[i], at[D]) <=> i <= D
    BY <1>0 DEF Ruler
  <2>4. ~(j < D - 1) <=> j >= D - 1
    BY <1>0
  <2> QED BY <1>3, <2>1, <2>2, <2>3, <2>4 DEF Touching
<1>4. touching \subseteq ranges
  BY DEF Touching
<1> HIDE DEF touching
<1>5. ASSUME NEW i \in 0 .. N, NEW j \in 0 .. N, Stretch(at, i, j) \in touching
      PROVE  a <= i /\ i <= D /\ D - 1 <= j /\ j <= z /\ i < j
  <2>1. Stretch(at, i, j) \in ranges /\ j >= D - 1 /\ i <= D
    BY <1>3, <1>4, <1>5
  <2>2. i < j /\ \A d \in (i + 1) .. j : d \in H
    BY <2>1, RangeIs
  <2>3. i \in Int /\ j \in Int
    BY <1>0
  <2>4. ASSUME i < a PROVE FALSE
    <3>1. a \in (i + 1) .. j
      BY <1>0, <2>1, <2>3, <2>4
    <3> QED BY <1>1, <2>2, <3>1
  <2>5. ASSUME z < j PROVE FALSE
    <3>1. z + 1 \in (i + 1) .. j
      BY <1>0, <2>1, <2>3, <2>5
    <3> QED BY <1>2, <2>2, <3>1
  <2> QED BY <1>0, <2>1, <2>2, <2>3, <2>4, <2>5
<1>6. ASSUME NEW g \in touching
      PROVE  \E i, j \in 0 .. N : g = Stretch(at, i, j) /\ g.start = at[i] /\ g.end = at[j]
  <2>1. PICK i \in (K + 1) .. N, j \in (K + 1) .. N : g = Stretch(at, i, j)
    BY <1>4 DEF RangesOK
  <2>2. i \in 0 .. N /\ j \in 0 .. N
    BY <1>0
  <2> QED BY <2>1, <2>2 DEF Stretch
<1> DEFINE starts == {at[D - 1]} \cup {g.start : g \in touching}
           ends == {at[D]} \cup {g.end : g \in touching}
<1>7. Earliest(at[K], starts) = at[a]
  <2>1. at[a] \in starts
    <3>1. CASE a = D - 1
      BY <3>1
    <3>2. CASE a # D - 1
      <4>1. Stretch(at, a, D - 1) \in ranges
        BY <1>1, <3>2
      <4>2. Stretch(at, a, D - 1) \in touching
        BY <1>0, <1>3, <4>1
      <4>3. Stretch(at, a, D - 1).start = at[a]
        BY DEF Stretch
      <4> QED BY <4>2, <4>3
    <3> QED BY <3>1, <3>2
  <2>2. ASSUME NEW p \in starts PROVE \E x \in a .. N : p = at[x]
    <3>1. CASE p = at[D - 1]
      <4>1. D - 1 \in a .. N
        BY <1>0
      <4> QED BY <3>1, <4>1
    <3>2. ASSUME NEW g \in touching, p = g.start PROVE \E x \in a .. N : p = at[x]
      <4>1. PICK i \in 0 .. N, j \in 0 .. N : g = Stretch(at, i, j) /\ g.start = at[i]
        BY <1>6
      <4>2. a <= i
        BY <1>5, <4>1
      <4>3. i \in a .. N
        BY <1>0, <4>2
      <4> QED BY <3>2, <4>1, <4>3
    <3> QED BY <3>1, <3>2
  <2>3. a \in K .. N
    BY <1>0
  <2> HIDE DEF starts
  <2> QED BY <2>1, <2>2, <2>3, EarliestIs
<1>8. Latest(at[K], ends) = at[z]
  <2>1. at[z] \in ends
    <3>1. CASE z = D
      BY <3>1
    <3>2. CASE z # D
      <4>1. Stretch(at, D, z) \in ranges
        BY <1>2, <3>2
      <4>2. Stretch(at, D, z) \in touching
        BY <1>0, <1>3, <4>1
      <4>3. Stretch(at, D, z).end = at[z]
        BY DEF Stretch
      <4> QED BY <4>2, <4>3
    <3> QED BY <3>1, <3>2
  <2>2. ASSUME NEW p \in ends PROVE \E x \in K .. z : p = at[x]
    <3>1. CASE p = at[D]
      <4>1. D \in K .. z
        BY <1>0
      <4> QED BY <3>1, <4>1
    <3>2. ASSUME NEW g \in touching, p = g.end PROVE \E x \in K .. z : p = at[x]
      <4>1. PICK i \in 0 .. N, j \in 0 .. N : g = Stretch(at, i, j) /\ g.end = at[j]
        BY <1>6
      <4>2. j <= z /\ a <= i /\ i < j
        BY <1>5, <4>1
      <4>3. j \in K .. z
        BY <1>0, <4>2
      <4> QED BY <3>2, <4>1, <4>3
    <3> QED BY <3>1, <3>2
  <2>3. z \in K .. N
    BY <1>0
  <2> HIDE DEF ends
  <2> QED BY <2>1, <2>2, <2>3, LatestIs
<1>9. merged = Stretch(at, a, z)
  BY <1>7, <1>8 DEF Merge, Stretch
<1> HIDE DEF merged
<1>10. ASSUME NEW i \in 0 .. N, NEW j \in 0 .. N, Stretch(at, i, j) \in new
       PROVE  \/ i = a /\ j = z
              \/ Stretch(at, i, j) \in ranges /\ (j < D - 1 \/ D < i)
  <2>1. CASE Stretch(at, i, j) = merged
    BY <1>0, <1>9, <2>1, StretchIs
  <2>2. CASE Stretch(at, i, j) \in ranges \ touching
    <3>1. ~(j >= D - 1 /\ i <= D)
      BY <1>3, <2>2
    <3> QED BY <1>0, <2>2, <3>1
  <2> QED BY <1>10, <2>1, <2>2
<1>11. ASSUME NEW g \in new
       PROVE  \E i, j \in (K + 1) .. N : i < j /\ g = Stretch(at, i, j)
  <2>1. CASE g \in ranges
    BY <2>1 DEF RangesOK
  <2>2. CASE g = merged
    <3>1. a \in (K + 1) .. N /\ z \in (K + 1) .. N /\ a < z
      BY <1>0
    <3> QED BY <1>9, <2>2, <3>1
  <2> QED BY <2>1, <2>2
<1> HIDE DEF new
<1>12. ASSUME NEW k \in 0 .. N, NEW l \in 0 .. N, Stretch(at, k, l) \in ranges,
              l < D - 1 \/ D < k
       PROVE  z < k \/ l < a
  <2>1. k < l /\ k \in Int /\ l \in Int
    BY <1>0, <1>12, RangeIs
  <2>2. CASE l < D - 1
    <3>1. CASE a = D - 1
      BY <2>2, <3>1
    <3>2. CASE a # D - 1
      <4>1. Stretch(at, a, D - 1) \in ranges
        BY <1>1, <3>2
      <4>2. (a = k /\ D - 1 = l) \/ D - 1 < k \/ l < a
        BY <1>0, <1>12, <4>1, RangeIs
      <4> QED BY <1>0, <2>1, <2>2, <4>2
    <3> QED BY <3>1, <3>2
  <2>3. CASE D < k
    <3>1. CASE z = D
      BY <2>3, <3>1
    <3>2. CASE z # D
      <4>1. Stretch(at, D, z) \in ranges
        BY <1>2, <3>2
      <4>2. (D = k /\ z = l) \/ z < k \/ l < D
        BY <1>0, <1>12, <4>1, RangeIs
      <4> QED BY <1>0, <2>1, <2>3, <4>2
    <3> QED BY <3>1, <3>2
  <2> QED BY <1>12, <2>2, <2>3
<1>13. ASSUME NEW i \in 0 .. N, NEW j \in 0 .. N, NEW k \in 0 .. N, NEW l \in 0 .. N,
              Stretch(at, i, j) \in new, Stretch(at, k, l) \in new
       PROVE  (i = k /\ j = l) \/ j < k \/ l < i
  <2>1. CASE i = a /\ j = z /\ k = a /\ l = z
    BY <2>1
  <2>2. CASE i = a /\ j = z /\ Stretch(at, k, l) \in ranges /\ (l < D - 1 \/ D < k)
    BY <1>12, <2>2
  <2>3. CASE k = a /\ l = z /\ Stretch(at, i, j) \in ranges /\ (j < D - 1 \/ D < i)
    BY <1>12, <2>3
  <2>4. CASE Stretch(at, i, j) \in ranges /\ Stretch(at, k, l) \in ranges
    BY <2>4, RangeIs
  <2> QED BY <1>10, <1>13, <2>1, <2>2, <2>3, <2>4
<1>14. ASSUME NEW d \in 1 .. N PROVE Covered(new, at, N, d) <=> d \in H \cup {D} /\ d > K
  <2>0. d \in Int
    BY <1>0
  <2>1. ASSUME Covered(new, at, N, d) PROVE d \in H \cup {D} /\ d > K
    <3>1. PICK i \in 0 .. N, j \in 0 .. N : Stretch(at, i, j) \in new /\ i < d /\ d <= j
      BY <2>1 DEF Covered
    <3>2. CASE i = a /\ j = z
      <4>1. d \in (a + 1) .. (D - 1) \/ d = D \/ d \in (D + 1) .. z
        BY <1>0, <2>0, <3>1, <3>2
      <4>2. d > K
        BY <1>0, <2>0, <3>1, <3>2
      <4> QED BY <1>1, <1>2, <4>1, <4>2
    <3>3. CASE Stretch(at, i, j) \in ranges
      <4>1. d \in (i + 1) .. j
        BY <1>0, <2>0, <3>1
      <4>2. d \in H /\ i \in (K + 1) .. N
        BY <3>3, <4>1, RangeIs
      <4>3. d > K
        BY <1>0, <2>0, <3>1, <4>2
      <4> QED BY <4>2, <4>3
    <3> QED BY <1>10, <3>1, <3>2, <3>3
  <2>2. Stretch(at, a, z) \in new
    BY <1>9 DEF new
  <2>3. ASSUME d = D PROVE Covered(new, at, N, d)
    <3>1. a < d /\ d <= z
      BY <1>0, <2>3
    <3> QED BY <1>0, <2>2, <3>1 DEF Covered
  <2>4. ASSUME d \in H, d > K PROVE Covered(new, at, N, d)
    <3>1. PICK i \in 0 .. N, j \in 0 .. N : Stretch(at, i, j) \in ranges /\ i < d /\ d <= j
      BY <2>4, HeldInRange
    <3>2. CASE Stretch(at, i, j) \in touching
      <4>1. a <= i /\ j <= z
        BY <1>5, <3>2
      <4>2. a < d /\ d <= z
        BY <1>0, <2>0, <3>1, <4>1
      <4> QED BY <1>0, <2>2, <4>2 DEF Covered
    <3>3. CASE Stretch(at, i, j) \notin touching
      <4>1. Stretch(at, i, j) \in new
        BY <3>1, <3>3 DEF new
      <4> QED BY <3>1, <4>1 DEF Covered
    <3> QED BY <3>2, <3>3
  <2> QED BY <2>1, <2>3, <2>4
<1>15. RangesOK(new, at, N, K, H \cup {D})
  BY <1>11, <1>13, <1>14 DEF RangesOK
<1> QED BY <1>15 DEF new, merged, touching

LEMMA InsertRangeIs ==
    ASSUME NEW ranges, NEW ack, NEW begin, NEW end, ~SequenceLess(begin, ack),
           InsertRange(ranges, ack, begin, end).status = "accepted"
    PROVE  LET x        == InsertRange(ranges, ack, begin, end)
               touching == Touching(ranges, begin, end)
               reached  == AdvanceContiguous(ranges, end)
           IN  IF begin = ack
               THEN /\ x.ranges = {g \in ranges : SequenceLess(reached, g.start)}
                    /\ x.ack = reached
               ELSE /\ x.ranges = (ranges \ touching) \cup {Merge(ack, touching, begin, end)}
                    /\ x.ack = ack
  BY DEF InsertRange

\* What insert answers: the first m payloads are acknowledged, and the ranges
\* cover the others of H, where H includes the new one.
Inserted(x, at, N, K, m, H) ==
    /\ x.ack = at[m] /\ m + 1 \notin H
    /\ \A y \in (K + 1) .. m : y \in H
    /\ RangesOK(x.ranges, at, N, m, H)

LEMMA InsertIs ==
    ASSUME NEW ranges, NEW at, NEW N, Ruler(at, N), NEW K \in 0 .. N, NEW H,
           RangesOK(ranges, at, N, K, H), \A x \in H : x \in (K + 2) .. N,
           NEW D \in (K + 1) .. N, D \notin H,
           InsertRange(ranges, at[K], at[D - 1], at[D]).status = "accepted"
    PROVE  \E m \in K .. N :
              Inserted(InsertRange(ranges, at[K], at[D - 1], at[D]), at, N, K, m, H \cup {D})
<1> DEFINE x == InsertRange(ranges, at[K], at[D - 1], at[D])
<1>0. /\ N \in Nat /\ K \in Int /\ D \in Int /\ 0 <= K /\ K < D /\ D <= N
      /\ D - 1 \in 0 .. N /\ D \in 0 .. N /\ D \in 1 .. N
  BY DEF Ruler
<1>1. ~SequenceLess(at[D - 1], at[K]) /\ (at[D - 1] = at[K] <=> D - 1 = K)
  <2>1. SequenceLess(at[D - 1], at[K]) <=> D - 1 < K
    BY <1>0 DEF Ruler
  <2>2. at[D - 1] = at[K] <=> D - 1 = K
    BY <1>0 DEF Ruler
  <2> QED BY <1>0, <2>1, <2>2
<1>2. PICK z \in D .. N : RightEnd(ranges, at, N, H, D, z)
  <2>1. \A y \in H : y \in (K + 1) .. N
    BY <1>0
  <2> QED BY <2>1, RightEndIs
<1>3. CASE D = K + 1
  <2>1. /\ AdvanceContiguous(ranges, at[D]) = at[z]
        /\ RangesOK({g \in ranges : SequenceLess(at[z], g.start)}, at, N, z, H \cup {D})
    BY <1>0, <1>2, <1>3, InsertAtFront
  <2>2. at[D - 1] = at[K]
    BY <1>0, <1>1, <1>3
  <2>3. /\ x.ranges = {g \in ranges : SequenceLess(AdvanceContiguous(ranges, at[D]), g.start)}
        /\ x.ack = AdvanceContiguous(ranges, at[D])
    BY <1>1, <2>2, InsertRangeIs
  <2> HIDE DEF x
  <2>4. x.ack = at[z] /\ RangesOK(x.ranges, at, N, z, H \cup {D})
    BY <2>1, <2>3
  <2>5. z + 1 \notin H /\ \A y \in (D + 1) .. z : y \in H
    BY <1>2 DEF RightEnd
  <2>6. z \in Int /\ z + 1 # D /\ z \in K .. N
    BY <1>0
  <2>7. \A y \in (K + 1) .. z : y = D \/ y \in (D + 1) .. z
    BY <1>0, <1>3, <2>6
  <2>8. Inserted(x, at, N, K, z, H \cup {D})
    BY <2>4, <2>5, <2>6, <2>7 DEF Inserted
  <2> QED BY <2>6, <2>8 DEF x
<1>4. CASE D # K + 1
  <2>1. D \in (K + 2) .. N
    BY <1>0, <1>4
  <2>2. PICK a \in (K + 1) .. (D - 1) : LeftEnd(ranges, at, N, H, D, a)
    BY <2>1, LeftEndIs
  <2> DEFINE touching == Touching(ranges, at[D - 1], at[D])
             new == (ranges \ touching) \cup {Merge(at[K], touching, at[D - 1], at[D])}
  <2>3. RangesOK(new, at, N, K, H \cup {D})
    BY <1>2, <2>1, <2>2, InsertBeyond
  <2>4. at[D - 1] # at[K]
    BY <1>0, <1>1, <1>4
  <2>5. x.ranges = new /\ x.ack = at[K]
    BY <1>1, <2>4, InsertRangeIs
  <2> HIDE DEF x, new
  <2>6. K + 1 \notin H \cup {D} /\ K \in K .. N
    BY <1>0, <1>4
  <2>7. \A y \in (K + 1) .. K : y \in H \cup {D}
    BY <1>0
  <2>8. Inserted(x, at, N, K, K, H \cup {D})
    BY <2>3, <2>5, <2>6, <2>7 DEF Inserted
  <2> QED BY <2>6, <2>8 DEF x
<1> QED BY <1>3, <1>4

\* The receiver moved on from r to e: it delivered m payloads and holds others,
\* not the next one.
LEMMA DirAdvance ==
    ASSUME NEW c, NEW r, NEW N, NEW fwd, NEW back, NEW at, NEW first,
           DirOK(c, r, N, fwd, back, at, first),
           NEW e, ReceiverOK(e, at, N), Got(r) \subseteq Got(e)
    PROVE  DirOK(c, e, N, fwd, back, at, first)
<1> DEFINE m == Done(e)
           K == Done(r)
<1>1. Ruler(at, N) /\ N \in Nat /\ K \in 0 .. N /\ m \in 0 .. N /\ e.ack = at[m]
  BY ScaleIsRuler DEF DirOK, Scale, ReceiverOK
<1>2. m + 1 \notin Got(e)
  <2>1. ASSUME NEW slot \in e.slots PROVE slot.data # m + 1
    <3>1. slot.data \in (m + 2) .. N
      BY DEF ReceiverOK
    <3> QED BY <1>1, <3>1
  <2>2. ~(m + 1 <= Done(e))
    BY <1>1
  <2> QED BY <2>1, <2>2 DEF Got, HeldBy
<1>3. K <= m
  <2>1. SUFFICES ASSUME m < K PROVE FALSE
    BY <1>1
  <2>2. m + 1 \in Nat /\ m + 1 <= K
    BY <1>1, <2>1
  <2> QED BY <1>2, <2>2 DEF Got
<1> HIDE DEF m, K
<1>4. ASSUME NEW s \in back PROVE BackOK(s, e, at, N)
  <2>1. BackOK(s, r, at, N)
    BY DEF DirOK
  <2>2. PICK k \in 0 .. K : s.ack = at[k]
    BY <2>1 DEF BackOK, K
  <2>3. k \in 0 .. m
    BY <1>1, <1>3
  <2>4. \E k2 \in 0 .. Done(e) : s.ack = at[k2]
    BY <2>2, <2>3 DEF m
  <2> QED BY <2>1, <2>4 DEF BackOK
<1>5. \A n \in Acks(c, e, back) : n \in Acks(c, r, back) \/ n = at[m]
  BY <1>1 DEF Acks
<1>6. ASSUME NEW s \in back, NEW n \in Acks(c, e, back) PROVE Apart(s, n, at, N)
  <2>1. CASE n \in Acks(c, r, back)
    BY <2>1 DEF DirOK
  <2>2. CASE n = at[m]
    <3>1. ASSUME NEW i \in 0 .. N, NEW j \in 0 .. N, NEW k \in 0 .. N,
                 Stretch(at, i, j) \in s.sacks, n = at[k], ~(k < i), ~(j <= k)
          PROVE  FALSE
      <4>1. k = m
        BY <1>1, <2>2, <3>1 DEF Ruler
      <4>2. BackOK(s, e, at, N)
        BY <1>4
      <4>3. PICK u \in 0 .. N, v \in 0 .. N :
               /\ Stretch(at, i, j) = Stretch(at, u, v)
               /\ \A d \in (u + 1) .. v : d \in Got(e)
        BY <3>1, <4>2 DEF BackOK
      <4>4. i = u /\ j = v
        BY <1>1, <4>3, StretchIs
      <4>5. m + 1 \in (u + 1) .. v
        BY <1>1, <3>1, <4>1, <4>4
      <4> QED BY <1>2, <4>3, <4>5 DEF m
    <3> QED BY <3>1 DEF Apart
  <2> QED BY <1>5, <2>1, <2>2
<1>7. MarksOK(c, e, back, at, N)
  <2>1. MarksOK(c, r, back, at, N) /\ SenderOK(c, at, N)
    BY DEF DirOK
  <2>2. ASSUME NEW i \in 1 .. Len(c.queue), c.queue[i].sacked
        PROVE  /\ First(c, N) + i \in Got(e)
               /\ at[First(c, N) + i - 1] \notin Acks(c, e, back)
    <3>1. First(c, N) + i \in Got(r) /\ at[First(c, N) + i - 1] \notin Acks(c, r, back)
      BY <2>1, <2>2 DEF MarksOK
    <3>2. First(c, N) + i - 1 \in 0 .. N /\ First(c, N) + i \in 1 .. N
      BY <1>1, <2>1, QueueAt
    <3>3. ASSUME NEW b \in 1 .. N, b \in Got(r), at[b - 1] \notin Acks(c, r, back),
                 b - 1 \in 0 .. N
          PROVE  b \in Got(e) /\ at[b - 1] \notin Acks(c, e, back)
      <4>1. b # m + 1
        BY <1>2, <3>3
      <4>2. at[b - 1] # at[m]
        BY <1>1, <3>3, <4>1 DEF Ruler
      <4> QED BY <1>5, <3>3, <4>2
    <3>4. First(c, N) \in Int /\ Len(c.queue) \in Int
      BY <1>1, <2>1, QueueAt
    <3>5. i \in Int
      BY <3>4
    <3> QED BY <3>1, <3>2, <3>3, <3>4, <3>5
  <2> QED BY <2>2 DEF MarksOK
<1>8. First(c, N) <= Done(e)
  <2>1. First(c, N) <= K /\ SenderOK(c, at, N)
    BY DEF DirOK, K
  <2>2. First(c, N) \in 0 .. N
    BY <1>1, <2>1, QueueAt
  <2> QED BY <1>1, <1>3, <2>1, <2>2 DEF m
<1> QED BY <1>4, <1>6, <1>7, <1>8 DEF DirOK

\* A payload arrives.
LEMMA DirPayload ==
    ASSUME NEW c, NEW r, NEW N, NEW fwd, NEW back, NEW at, NEW first,
           DirOK(c, r, N, fwd, back, at, first), IsEndpoint(r),
           NEW s \in fwd, s.length > 0
    PROVE  DirOK(c, ReceivePayload(r, s, SeqAdd(s.sequence, s.length)), N, fwd, back,
                 at, first)
<1> DEFINE end == SeqAdd(s.sequence, s.length)
           d == ReceivePayload(r, s, end)
           x == InsertRange(r.ranges, r.ack, s.sequence, end)
           e == Stored(r, s, x)
           D == s.data
           K == Done(r)
           H == HeldBy(r)
<1>1. /\ Ruler(at, N) /\ N \in Nat /\ ReceiverOK(r, at, N)
      /\ K \in 0 .. N /\ r.ack = at[K] /\ r.delivery = at[K]
      /\ r.delivered \in Seq(Nat) /\ RangesOK(r.ranges, at, N, K, H)
      /\ \A i \in 1 .. K : r.delivered[i] = i
  BY ScaleIsRuler DEF DirOK, Scale, ReceiverOK
<1>2. D \in 1 .. N /\ s.sequence = at[D - 1] /\ end = at[D]
  BY DEF DirOK, DataOK
<1>3. \/ /\ d.ranges = r.ranges /\ d.ack = r.ack /\ d.slots = r.slots
         /\ d.delivery = r.delivery /\ d.delivered = r.delivered
      \/ Storable(r, s, end) /\ d = DeliverContiguous(e)
  BY ReceivePayloadIs
<1> HIDE DEF d, x, e, end, D, K, H
<1>4. CASE /\ d.ranges = r.ranges /\ d.ack = r.ack /\ d.slots = r.slots
           /\ d.delivery = r.delivery /\ d.delivered = r.delivered
  <2>1. DirOK(c, d, N, fwd, back, at, first)
    BY <1>4, DirSame
  <2> QED BY <2>1 DEF d, end
<1>5. CASE Storable(r, s, end) /\ d = DeliverContiguous(e)
  <2>0. K \in Int /\ D \in Int /\ D - 1 \in 0 .. N /\ D \in 0 .. N /\ 0 <= K /\ K <= N
    BY <1>1, <1>2
  <2>1. K < D
    <3>1. ~SequenceLessEqual(at[D], at[K])
      BY <1>1, <1>2, <1>5 DEF Storable
    <3>2. SequenceLessEqual(at[D], at[K]) <=> D <= K
      BY <1>1, <2>0 DEF Ruler
    <3> QED BY <2>0, <3>1, <3>2
  <2>2. \A slot \in r.slots : /\ slot.data \in (K + 2) .. N /\ slot = SlotAt(at, slot.data)
                              /\ slot.data \in H
    BY <1>1 DEF ReceiverOK, K, HeldBy, H
  <2>3. \A y \in H : y \in (K + 2) .. N /\ SlotAt(at, y) \in r.slots
    BY <2>2 DEF HeldBy, H
  <2>4. D \notin H
    <3>1. SUFFICES ASSUME D \in H PROVE FALSE
      OBVIOUS
    <3>2. SlotAt(at, D) \in r.slots /\ SlotAt(at, D).start = at[D - 1]
          /\ SlotAt(at, D).end = at[D]
      BY <2>3, <3>1 DEF SlotAt
    <3>3. SequenceLess(at[D - 1], at[D])
      BY <1>1, <2>0 DEF Ruler
    <3>4. OverlapsReceived(r, at[D - 1], at[D])
      BY <3>2, <3>3 DEF OverlapsReceived
    <3> QED BY <1>2, <1>5, <3>4 DEF Storable
  <2>5. x = InsertRange(r.ranges, at[K], at[D - 1], at[D]) /\ x.status = "accepted"
    BY <1>1, <1>2, <1>5 DEF Storable, x
  <2>6. D \in (K + 1) .. N
    BY <1>1, <1>2, <2>0, <2>1
  <2>7. PICK m \in K .. N : Inserted(x, at, N, K, m, H \cup {D})
    BY <1>1, <2>3, <2>4, <2>5, <2>6, InsertIs
  <2>8. /\ IsEndpoint(e) /\ e.ranges = x.ranges /\ e.ack = x.ack
        /\ e.delivery = r.delivery /\ e.delivered = r.delivered
        /\ e.slots = r.slots \cup {[start |-> s.sequence, end |-> end, data |-> D]}
    BY StoredIs DEF e, end, D
  <2>9. e.slots = r.slots \cup {SlotAt(at, D)}
    BY <1>2, <2>8 DEF SlotAt
  <2>10. HeldBy(e) = H \cup {D}
    <3>1. SlotAt(at, D).data = D
      BY DEF SlotAt
    <3> QED BY <2>9, <3>1 DEF HeldBy, H
  <2>11. ASSUME NEW slot \in e.slots
         PROVE  slot.data \in (K + 1) .. N /\ slot = SlotAt(at, slot.data)
    <3>1. CASE slot \in r.slots
      BY <1>1, <2>0, <2>2, <3>1
    <3>2. CASE slot = SlotAt(at, D)
      <4>1. slot.data = D
        BY <3>2 DEF SlotAt
      <4> QED BY <2>6, <3>2, <4>1
    <3> QED BY <2>9, <3>1, <3>2
  <2>12. /\ x.ack = at[m] /\ m + 1 \notin H \cup {D} /\ \A y \in (K + 1) .. m : y \in H \cup {D}
         /\ RangesOK(x.ranges, at, N, m, H \cup {D})
    BY <2>7 DEF Inserted
  <2>13. /\ d.ranges = e.ranges /\ d.ack = e.ack
         /\ d.slots = {slot \in e.slots : slot.data > m}
         /\ d.delivery = at[m] /\ d.delivered \in Seq(Nat) /\ Len(d.delivered) = m
         /\ \A i \in 1 .. m : d.delivered[i] = i
    <3>1. e.delivered \in Seq(Nat) /\ Done(e) = K /\ (\A i \in 1 .. K : e.delivered[i] = i)
          /\ e.delivery = at[K]
      BY <1>1, <2>8 DEF Done, K
    <3>2. (\A y \in (K + 1) .. m : y \in HeldBy(e)) /\ m + 1 \notin HeldBy(e)
      BY <2>10, <2>12
    <3> QED BY <1>1, <1>5, <2>8, <2>11, <3>1, <3>2, DeliverIs
  <2>14. m \in Int /\ K <= m /\ m \in 0 .. N /\ Done(d) = m
    BY <1>1, <2>0, <2>13 DEF Done
  <2>15. HeldBy(d) = {y \in H \cup {D} : y > m}
    <3>1. ASSUME NEW y \in HeldBy(d) PROVE y \in H \cup {D} /\ y > m
      BY <2>10, <2>13 DEF HeldBy
    <3>2. ASSUME NEW y \in H \cup {D}, y > m PROVE y \in HeldBy(d)
      <4>1. PICK slot \in e.slots : y = slot.data
        BY <2>10, <3>2 DEF HeldBy
      <4> QED BY <2>13, <3>2, <4>1 DEF HeldBy
    <3> QED BY <3>1, <3>2
  <2>16. RangesOK(d.ranges, at, N, m, HeldBy(d))
    <3>1. d.ranges = x.ranges
      BY <2>8, <2>13
    <3>2. \A y \in 1 .. N : y \in HeldBy(d) /\ y > m <=> y \in H \cup {D} /\ y > m
      BY <2>15
    <3> QED BY <2>12, <3>1, <3>2 DEF RangesOK
  <2>17. ASSUME NEW slot \in d.slots
         PROVE  slot.data \in (m + 2) .. N /\ slot = SlotAt(at, slot.data)
    <3>1. slot \in e.slots /\ slot.data > m
      BY <2>13
    <3>2. slot.data \in H \cup {D}
      BY <2>10, <3>1 DEF HeldBy
    <3>3. slot.data # m + 1
      BY <2>12, <3>2
    <3>4. slot.data \in (K + 1) .. N /\ slot = SlotAt(at, slot.data)
      BY <2>11, <3>1
    <3>5. slot.data \in (m + 2) .. N
      BY <1>1, <2>0, <2>14, <3>1, <3>3, <3>4
    <3> QED BY <3>4, <3>5
  <2>18. ReceiverOK(d, at, N)
    <3>1. d.ack = at[m] /\ d.delivery = at[m]
      BY <2>8, <2>12, <2>13
    <3> QED BY <2>13, <2>14, <2>16, <2>17, <3>1 DEF ReceiverOK
  <2>19. Got(r) \subseteq Got(d)
    <3>1. ASSUME NEW y \in Nat, y <= K PROVE y <= m
      BY <2>0, <2>14, <3>1
    <3>2. ASSUME NEW y \in H PROVE y \in Nat /\ (y <= m \/ y \in HeldBy(d))
      <4>1. y \in Nat
        BY <1>1, <2>0, <2>3
      <4> QED BY <2>14, <2>15, <4>1
    <3> QED BY <2>14, <3>1, <3>2 DEF Got, K, H
  <2>20. DirOK(c, d, N, fwd, back, at, first)
    BY <2>18, <2>19, DirAdvance
  <2> QED BY <2>20 DEF d, end
<1> QED BY <1>3, <1>4, <1>5

-----------------------------------------------------------------------------
(* Both directions, while the endpoint c performs an operation: net is what  *)
(* it sent before and is under way, in what the other endpoint o sent.       *)

Way(c, r, N, fwd, back, first) == \E at : DirOK(c, r, N, fwd, back, at, first)

\* What c can transmit again.
Kept(c) == {s \in {c.control} : s # NoControl}
           \cup {c.queue[i].segment : i \in 1 .. Len(c.queue)}
Sent(c) == c.out \cup Kept(c)

Linked(c, o, N, M, wire, in, f, g) ==
    /\ Way(c, o, N, wire \cup Sent(c), in, f)
    /\ Way(o, c, M, in, wire \cup Sent(c), g)

SameNumbers(c, d) ==
    d.queue = c.queue /\ d.next_send = c.next_send /\ d.oldest = c.oldest
SameReception(c, d) ==
    /\ d.delivered = c.delivered /\ d.ack = c.ack /\ d.delivery = c.delivery
    /\ d.slots = c.slots /\ d.ranges = c.ranges

\* A control segment that c makes now.
IsControl(c, x) == x.length = 0 /\ x.ack = c.ack /\ x.sacks \subseteq c.ranges

LEMMA MakeControl ==
    ASSUME NEW c, NEW flags
    PROVE  IsControl(c, MakeSegment(c, flags, 0, 0))
<1> DEFINE x == MakeSegment(c, flags, 0, 0)
<1>1. x.length = 0 /\ x.ack = c.ack /\ x.sacks = GenerateSacks(c.ranges, c.ack)
  BY MakeSegmentIs
<1>2. GenerateSacks(c.ranges, c.ack) \subseteq c.ranges
  BY DEF GenerateSacks
<1> HIDE DEF x
<1>3. IsControl(c, x)
  BY <1>1, <1>2 DEF IsControl
<1> QED BY <1>3 DEF x

\* The endpoint transmits a new control segment, or what it kept.
LEMMA LinkedControl ==
    ASSUME NEW c, NEW o, NEW N, NEW M, NEW wire, NEW in, NEW f, NEW g,
           Linked(c, o, N, M, wire, in, f, g),
           NEW d, SameNumbers(c, d), SameReception(c, d),
           NEW x, IsControl(c, x), Sent(d) \subseteq Sent(c) \cup {x}
    PROVE  Linked(d, o, N, M, wire, in, f, g)
<1> DEFINE old == wire \cup Sent(c)
           new == wire \cup Sent(d)
<1>1. Way(d, o, N, new, in, f)
  <2>1. PICK at : DirOK(c, o, N, old, in, at, f)
    BY DEF Linked, Way
  <2>2. DataOK(x, at, N)
    BY DEF DataOK, IsControl
  <2>3. \A s \in new : s \in old \/ DataOK(s, at, N)
    BY <2>2
  <2> HIDE DEF old, new
  <2>4. DirOK(c, o, N, new, in, at, f)
    BY <2>1, <2>3, DirForward
  <2>5. DirOK(d, o, N, new, in, at, f)
    BY <2>4, DirSame DEF SameNumbers
  <2> QED BY <2>5 DEF Way
<1>2. Way(o, d, M, in, new, g)
  <2>1. PICK at : DirOK(o, c, M, in, old, at, g)
    BY DEF Linked, Way
  <2>2. x.ack = c.ack /\ x.sacks \subseteq c.ranges
    BY DEF IsControl
  <2>3. new \in SUBSET (old \cup {x})
    OBVIOUS
  <2> HIDE DEF old, new
  <2>4. DirOK(o, c, M, in, old \cup {x}, at, g)
    BY <2>1, <2>2, DirBackward
  <2>5. DirOK(o, d, M, in, new, at, g)
    BY <2>3, <2>4, DirSame DEF SameReception
  <2> QED BY <2>5 DEF Way
<1> QED BY <1>1, <1>2 DEF Linked

LEMMA LinkedSame ==
    ASSUME NEW c, NEW o, NEW N, NEW M, NEW wire, NEW in, NEW f, NEW g,
           Linked(c, o, N, M, wire, in, f, g),
           NEW d, SameNumbers(c, d), SameReception(c, d), Sent(d) \subseteq Sent(c)
    PROVE  Linked(d, o, N, M, wire, in, f, g)
<1> DEFINE x == MakeSegment(c, {}, 0, 0)
<1>1. IsControl(c, x)
  BY MakeControl
<1> HIDE DEF x
<1> QED BY <1>1, LinkedControl

\* The sender's side moved on, and nothing new is sent.
LEMMA LinkedSender ==
    ASSUME NEW c, NEW o, NEW N, NEW M, NEW wire, NEW in, NEW f, NEW g,
           Linked(c, o, N, M, wire, in, f, g),
           NEW d, SameReceiver(c, d), Sent(d) \subseteq Sent(c),
           \A at : DirOK(c, o, N, wire \cup Sent(c), in, at, f)
                      => DirOK(d, o, N, wire \cup Sent(c), in, at, f)
    PROVE  Linked(d, o, N, M, wire, in, f, g)
<1> DEFINE old == wire \cup Sent(c)
           new == wire \cup Sent(d)
<1>0. new \in SUBSET old
  OBVIOUS
<1>1. Way(d, o, N, new, in, f)
  <2>1. PICK at : DirOK(d, o, N, old, in, at, f)
    BY DEF Linked, Way
  <2> HIDE DEF old, new
  <2>2. DirOK(d, o, N, new, in, at, f)
    BY <1>0, <2>1, DirSame
  <2> QED BY <2>2 DEF Way
<1>2. Way(o, d, M, in, new, g)
  <2>1. PICK at : DirOK(o, c, M, in, old, at, g)
    BY DEF Linked, Way
  <2> HIDE DEF old, new
  <2>2. DirOK(o, d, M, in, new, at, g)
    BY <1>0, <2>1, DirSame DEF SameReceiver
  <2> QED BY <2>2 DEF Way
<1> QED BY <1>1, <1>2 DEF Linked

\* process_ack
LEMMA LinkedProgress ==
    ASSUME NEW c, NEW o, NEW N, NEW M, NEW wire, NEW in, NEW f, NEW g,
           Linked(c, o, N, M, wire, in, f, g),
           IsEndpoint(c), QueueOK(c.queue), c.tx_free \in Int, NEW s \in in
    PROVE  Linked(AcknowledgeProgress(c, s.ack), o, N, M, wire, in, f, g)
<1> DEFINE d == AcknowledgeProgress(c, s.ack)
           k == IF SequenceGreater(s.ack, c.oldest)
                THEN AckedPrefix(c.queue, s.ack) ELSE 0
<1>1. /\ SameMachine(c, d) /\ SameReceiver(c, d) /\ d.out = c.out
      /\ \A i \in 1 .. Len(d.queue) :
            k + i \in 1 .. Len(c.queue) /\ d.queue[i] = c.queue[k + i]
  BY AcknowledgeProgressIs
<1> DEFINE old == wire \cup Sent(c)
<1>2. \A at : DirOK(c, o, N, old, in, at, f) => DirOK(d, o, N, old, in, at, f)
  <2> HIDE DEF old
  <2> QED BY DirProgress
<1> HIDE DEF d, k
<1>3. Sent(d) \subseteq Sent(c)
  BY <1>1 DEF Sent, Kept, SameMachine
<1>4. Linked(d, o, N, M, wire, in, f, g)
  BY <1>1, <1>2, <1>3, LinkedSender
<1> QED BY <1>4 DEF d

LEMMA LinkedScore ==
    ASSUME NEW c, NEW o, NEW N, NEW M, NEW wire, NEW in, NEW f, NEW g,
           Linked(c, o, N, M, wire, in, f, g),
           IsEndpoint(c), QueueOK(c.queue), NEW s \in in
    PROVE  Linked(Scoreboard(c, s), o, N, M, wire, in, f, g)
<1> DEFINE d == Scoreboard(c, s)
<1>1. /\ SameMachine(c, d) /\ SameReceiver(c, d) /\ Len(d.queue) = Len(c.queue)
      /\ \A i \in 1 .. Len(c.queue) : SameEntry(c.queue[i], d.queue[i])
      /\ d.out = c.out \/ Resends(c, d, "sack_fast_recovery")
  BY ScoreboardIs
<1> DEFINE old == wire \cup Sent(c)
<1>2. \A at : DirOK(c, o, N, old, in, at, f) => DirOK(d, o, N, old, in, at, f)
  <2> HIDE DEF old
  <2> QED BY DirScore
<1> HIDE DEF d
<1>3. d.out \subseteq Sent(c)
  BY <1>1 DEF Resends, Sent, Kept
<1>4. Sent(d) \subseteq Sent(c)
  BY <1>1, <1>3 DEF Sent, Kept, SameMachine, SameEntry
<1>5. Linked(d, o, N, M, wire, in, f, g)
  BY <1>1, <1>2, <1>4, LinkedSender
<1> QED BY <1>5 DEF d

LEMMA LinkedTimeout ==
    ASSUME NEW c, NEW o, NEW N, NEW M, NEW wire, NEW in, NEW f, NEW g,
           Linked(c, o, N, M, wire, in, f, g),
           IsEndpoint(c), QueueOK(c.queue), NEW due
    PROVE  Linked(RetransmitTimeout(c, due), o, N, M, wire, in, f, g)
<1> DEFINE d == RetransmitTimeout(c, due)
<1>1. /\ SameMachine(c, d) /\ SameReceiver(c, d) /\ Len(d.queue) = Len(c.queue)
      /\ d.next_send = c.next_send /\ d.oldest = c.oldest
      /\ \A i \in 1 .. Len(c.queue) :
            SameEntry(c.queue[i], d.queue[i]) /\ d.queue[i].sacked = c.queue[i].sacked
      /\ d.out = c.out \/ Resends(c, d, "rto_timeout")
  BY RetransmitTimeoutIs
<1> HIDE DEF d
<1> DEFINE old == wire \cup Sent(c)
<1>2. \A at : DirOK(c, o, N, old, in, at, f) => DirOK(d, o, N, old, in, at, f)
  <2> HIDE DEF old
  <2> QED BY <1>1, DirRemark
<1>3. d.out \subseteq Sent(c)
  BY <1>1 DEF Resends, Sent, Kept
<1>4. Sent(d) \subseteq Sent(c)
  BY <1>1, <1>3 DEF Sent, Kept, SameMachine, SameEntry
<1>5. Linked(d, o, N, M, wire, in, f, g)
  BY <1>1, <1>2, <1>4, LinkedSender
<1> QED BY <1>5 DEF d

\* The state machine, and what it makes the endpoint send.
LEMMA LinkedEvent ==
    ASSUME NEW c, NEW o, NEW N, NEW M, NEW wire, NEW in, NEW f, NEW g,
           Linked(c, o, N, M, wire, in, f, g), IsEndpoint(c), NEW event
    PROVE  Linked(PerformActions(Handle(c, event)), o, N, M, wire, in, f, g)
<1> DEFINE t == Handle(c, event)
           d == PerformActions(t)
           flags == ActionFlags(t.actions)
           x == MakeSegment(t.c, flags, 0, 0)
<1>1. /\ IsEndpoint(t.c) /\ SameSender(c, t.c) /\ SameReceiver(c, t.c)
      /\ t.c.control = c.control /\ t.c.out = c.out
  BY HandleIs
<1> HIDE DEF t
<1>2. /\ SameSender(t.c, d) /\ SameReceiver(t.c, d)
      /\ d.out \subseteq t.c.out \cup {x}
      /\ d.control \in {NoControl, x, t.c.control}
  <2>1. SameSender(t.c, d) /\ SameReceiver(t.c, d)
    BY <1>1, PerformActionsIs
  <2>2. d.out = IF flags = {} THEN t.c.out ELSE t.c.out \cup {x}
    BY <1>1, PerformActionsIs
  <2>3. d.control = IF t.actions \cap {"notify_connected", "notify_closed"} # {}
                    THEN NoControl
                    ELSE IF flags \cap {"SYN", "FIN"} # {} THEN x ELSE t.c.control
    BY <1>1, PerformActionsIs
  <2> HIDE DEF d, x, flags
  <2> QED BY <2>1, <2>2, <2>3
<1>3. IsControl(t.c, x)
  BY MakeControl
<1> HIDE DEF d, x, flags
<1>4. IsControl(c, x)
  BY <1>1, <1>3 DEF IsControl, SameReceiver
<1>5. SameNumbers(c, d) /\ SameReception(c, d)
  BY <1>1, <1>2 DEF SameSender, SameReceiver, SameNumbers, SameReception
<1>6. Sent(d) \subseteq Sent(c) \cup {x}
  <2>1. d.out \subseteq c.out \cup {x} /\ d.control \in {NoControl, x, c.control}
    BY <1>1, <1>2
  <2> QED BY <1>5, <2>1 DEF Sent, Kept, SameNumbers
<1>7. Linked(d, o, N, M, wire, in, f, g)
  BY <1>4, <1>5, <1>6, LinkedControl
<1> QED BY <1>7 DEF d, t

LEMMA LinkedReply ==
    ASSUME NEW c, NEW o, NEW N, NEW M, NEW wire, NEW in, NEW f, NEW g,
           Linked(c, o, N, M, wire, in, f, g), IsEndpoint(c), NEW flags, NEW remember
    PROVE  Linked(SendControl(c, flags, remember), o, N, M, wire, in, f, g)
<1> DEFINE x == MakeSegment(c, flags, 0, 0)
           d == TransmitControl(c, x, remember)
<1>1. IsControl(c, x)
  BY MakeControl
<1>0. SendControl(c, flags, remember) = d
  BY DEF SendControl
<1> HIDE DEF x
<1>2. /\ SameSender(c, d) /\ SameReceiver(c, d) /\ d.out = c.out \cup {x}
      /\ d.control = (IF remember THEN x ELSE c.control)
  BY TransmitControlIs
<1> HIDE DEF d
<1>3. SameNumbers(c, d) /\ SameReception(c, d)
  BY <1>2 DEF SameSender, SameReceiver, SameNumbers, SameReception
<1>4. d.control \in {x, c.control}
  BY <1>2
<1>5. Sent(d) \subseteq Sent(c) \cup {x}
  BY <1>2, <1>3, <1>4 DEF Sent, Kept, SameNumbers
<1>6. Linked(d, o, N, M, wire, in, f, g)
  BY <1>1, <1>3, <1>5, LinkedControl
<1> QED BY <1>0, <1>6

LEMMA LinkedAck ==
    ASSUME NEW c, NEW o, NEW N, NEW M, NEW wire, NEW in, NEW f, NEW g,
           Linked(c, o, N, M, wire, in, f, g), Local(c), NEW s \in in
    PROVE  Linked(AckPart(c, s), o, N, M, wire, in, f, g)
<1> DEFINE w == [c EXCEPT !.peer_window = s.window]
           a == AcknowledgeProgress(w, s.ack)
           d == Scoreboard(a, s)
<1>0. IsEndpoint(c) /\ QueueOK(c.queue) /\ c.tx_free \in Int
  BY DEF Local
<1>1. /\ IsEndpoint(w) /\ w.queue = c.queue /\ w.tx_free = c.tx_free
      /\ w.out = c.out /\ w.control = c.control
  BY <1>0 DEF IsEndpoint, Fields
<1>2. SameNumbers(c, w)
  BY <1>0 DEF IsEndpoint, Fields, SameNumbers
<1>3. SameReception(c, w)
  BY <1>0 DEF IsEndpoint, Fields, SameReception
<1>4. AckPart(c, s) \in {c, w, d}
  BY DEF AckPart, ProcessAck
<1> HIDE DEF w
<1>5. Sent(w) \subseteq Sent(c)
  BY <1>1 DEF Sent, Kept
<1>6. Linked(w, o, N, M, wire, in, f, g)
  BY <1>2, <1>3, <1>5, LinkedSame
<1>7. Linked(a, o, N, M, wire, in, f, g)
  BY <1>0, <1>1, <1>6, LinkedProgress
<1>8. IsEndpoint(a) /\ QueueOK(a.queue)
  BY <1>0, <1>1, AcknowledgeProgressIs
<1> HIDE DEF a
<1>9. Linked(d, o, N, M, wire, in, f, g)
  BY <1>7, <1>8, LinkedScore
<1> HIDE DEF d
<1> QED BY <1>4, <1>6, <1>9

LEMMA LinkedProcessControl ==
    ASSUME NEW c, NEW o, NEW N, NEW M, NEW wire, NEW in, NEW f, NEW g,
           Linked(c, o, N, M, wire, in, f, g), IsEndpoint(c), NEW flags
    PROVE  Linked(ProcessControl(c, flags), o, N, M, wire, in, f, g)
<1> DEFINE event == ControlEvent(c, flags)
           yes == TRUE
           a == SendControl(c, {"SYN", "ACK"}, yes)
           b == PerformActions(Handle(c, event))
<1>1. ProcessControl(c, flags) \in {c, a, b}
  BY DEF ProcessControl, OnControlEvent
<1> HIDE DEF yes, event
<1>2. Linked(a, o, N, M, wire, in, f, g)
  BY LinkedReply
<1>3. Linked(b, o, N, M, wire, in, f, g)
  BY LinkedEvent
<1> HIDE DEF a, b
<1> QED BY <1>1, <1>2, <1>3

\* process_payload
LEMMA LinkedReceive ==
    ASSUME NEW c, NEW o, NEW N, NEW M, NEW wire, NEW in, NEW f, NEW g,
           Linked(c, o, N, M, wire, in, f, g), IsEndpoint(c),
           NEW s \in in, s.length > 0
    PROVE  Linked(ReceivePayload(c, s, SeqAdd(s.sequence, s.length)), o, N, M, wire, in, f, g)
<1> DEFINE end == SeqAdd(s.sequence, s.length)
           d == ReceivePayload(c, s, end)
           old == wire \cup Sent(c)
<1>1. SameMachine(c, d) /\ SameSender(c, d) /\ d.out = c.out
  BY ReceivePayloadIs
<1>2. Way(o, d, M, in, old, g)
  <2>1. PICK at : DirOK(o, c, M, in, old, at, g)
    BY DEF Linked, Way
  <2> HIDE DEF old
  <2>2. DirOK(o, d, M, in, old, at, g)
    BY <2>1, DirPayload
  <2> HIDE DEF d
  <2> QED BY <2>2 DEF Way
<1> HIDE DEF d
<1>3. Sent(d) = Sent(c)
  BY <1>1 DEF Sent, Kept, SameMachine, SameSender
<1>4. Way(d, o, N, old, in, f)
  <2>1. PICK at : DirOK(c, o, N, old, in, at, f)
    BY DEF Linked, Way
  <2> HIDE DEF old
  <2>2. DirOK(d, o, N, old, in, at, f)
    BY <1>1, <2>1, DirSame DEF SameSender
  <2> QED BY <2>2 DEF Way
<1>5. Linked(d, o, N, M, wire, in, f, g)
  BY <1>2, <1>3, <1>4 DEF Linked
<1> QED BY <1>5 DEF d, end

LEMMA LinkedPayload ==
    ASSUME NEW c, NEW o, NEW N, NEW M, NEW wire, NEW in, NEW f, NEW g,
           Linked(c, o, N, M, wire, in, f, g), IsEndpoint(c), NEW s \in in
    PROVE  Linked(PayloadPart(c, s), o, N, M, wire, in, f, g)
<1>1. CASE s.length > 0 /\ c.state = "established"
  <2> DEFINE d == ReceivePayload(c, s, SeqAdd(s.sequence, s.length))
             no == FALSE
             e == SendControl(d, {"ACK"}, no)
  <2>1. Linked(d, o, N, M, wire, in, f, g) /\ IsEndpoint(d)
    BY <1>1, LinkedReceive, ReceivePayloadIs
  <2>2. PayloadPart(c, s) = e
    BY <1>1 DEF PayloadPart, ProcessPayload
  <2> HIDE DEF d, no
  <2>3. Linked(e, o, N, M, wire, in, f, g)
    BY <2>1, LinkedReply
  <2> QED BY <2>2, <2>3
<1>2. CASE ~(s.length > 0 /\ c.state = "established")
  BY <1>2 DEF PayloadPart
<1> QED BY <1>1, <1>2

LEMMA LinkedSegment ==
    ASSUME NEW c, NEW o, NEW N, NEW M, NEW wire, NEW in, NEW f, NEW g,
           Linked(c, o, N, M, wire, in, f, g), Local(c), NEW s \in in
    PROVE  Linked(OnSegment(c, s), o, N, M, wire, in, f, g)
<1> DEFINE a == AckPart(c, s)
           d == ProcessControl(a, s.flags)
           e == PayloadPart(d, s)
<1>1. Local(a) /\ Linked(a, o, N, M, wire, in, f, g)
  BY LocalAck, LinkedAck
<1> HIDE DEF a
<1>2. IsEndpoint(a)
  BY <1>1 DEF Local
<1>3. Local(d) /\ Linked(d, o, N, M, wire, in, f, g)
  BY <1>1, <1>2, LocalProcessControl, LinkedProcessControl
<1> HIDE DEF d
<1>4. Linked(e, o, N, M, wire, in, f, g)
  BY <1>3, LinkedPayload DEF Local
<1> QED BY <1>4 DEF OnSegment, a, d, e

LEMMA LinkedTick ==
    ASSUME NEW c, NEW o, NEW N, NEW M, NEW wire, NEW in, NEW f, NEW g,
           Linked(c, o, N, M, wire, in, f, g), Local(c), NEW t, NEW u, NEW v
    PROVE  Linked(Tick(c, t, u, v), o, N, M, wire, in, f, g)
<1> DEFINE a == ExpireTimeWait(c, t)
           b == RepeatControl(a, u)
           d == RetransmitTimeout(b, v)
<1>1. Local(a) /\ Linked(a, o, N, M, wire, in, f, g)
  <2>1. CASE c.state = "time_wait" /\ t
    BY <2>1, LocalEvent, LinkedEvent DEF ExpireTimeWait, Local
  <2>2. CASE ~(c.state = "time_wait" /\ t)
    BY <2>2 DEF ExpireTimeWait
  <2> QED BY <2>1, <2>2
<1> HIDE DEF a
<1>2. IsEndpoint(b) /\ QueueOK(b.queue) /\ Linked(b, o, N, M, wire, in, f, g)
  <2>1. IsEndpoint(a) /\ QueueOK(a.queue)
    BY <1>1 DEF Local
  <2>2. CASE a.control # NoControl /\ u
    <3>1. b = Transmit(a, a.control)
      BY <2>2 DEF RepeatControl
    <3> HIDE DEF b
    <3>2. b.control = a.control /\ b.out = a.out \cup {a.control} /\ IsEndpoint(b)
          /\ b.queue = a.queue
      BY <2>1, <3>1 DEF Transmit, IsEndpoint, Fields
    <3>3. SameNumbers(a, b)
      BY <2>1, <3>1 DEF Transmit, IsEndpoint, Fields, SameNumbers
    <3>4. SameReception(a, b)
      BY <2>1, <3>1 DEF Transmit, IsEndpoint, Fields, SameReception
    <3>5. Sent(b) \subseteq Sent(a)
      BY <2>2, <3>2 DEF Sent, Kept
    <3>6. Linked(b, o, N, M, wire, in, f, g)
      BY <1>1, <3>3, <3>4, <3>5, LinkedSame
    <3> QED BY <2>1, <3>2, <3>6
  <2>3. CASE ~(a.control # NoControl /\ u)
    BY <1>1, <2>1, <2>3 DEF RepeatControl
  <2> QED BY <2>2, <2>3
<1> HIDE DEF b
<1>3. Linked(d, o, N, M, wire, in, f, g)
  BY <1>2, LinkedTimeout
<1> QED BY <1>3 DEF Tick, a, b, d

\* send
LEMMA LinkedSend ==
    ASSUME NEW c, NEW o, NEW N, NEW M, NEW wire, NEW in, NEW f, NEW g,
           Linked(c, o, N, M, wire, in, f, g), Local(c),
           NEW length \in 1 .. Mss, (N + 1) * Mss < Half
    PROVE  Linked(Send(c, length, N + 1), o, N + 1, M, wire, in, f, g)
<1> DEFINE s == MakeSegment(c, {"ACK"}, length, N + 1)
           e == [start |-> s.sequence, end |-> SeqAdd(s.sequence, s.length),
                 segment |-> s, retransmitted |-> FALSE, sacked |-> FALSE]
           d == Send(c, length, N + 1)
           old == wire \cup Sent(c)
           new == wire \cup Sent(d)
<1>0. IsEndpoint(c) /\ QueueOK(c.queue)
  BY DEF Local
<1>1. /\ s.sequence = c.next_send /\ s.ack = c.ack /\ s.length = length /\ s.data = N + 1
      /\ s.sacks = GenerateSacks(c.ranges, c.ack)
  BY MakeSegmentIs
<1>2. /\ SameMachine(c, d) /\ SameReceiver(c, d)
      /\ d.queue = Append(c.queue, e) /\ d.next_send = SeqAdd(c.next_send, s.length)
      /\ d.oldest = c.oldest /\ d.out = c.out \cup {s}
  BY <1>0, SendIs
<1>3. Entry(s, e) /\ e.segment = s
  BY DEF Entry
<1> HIDE DEF s, e, d
<1>4. s.sacks \subseteq c.ranges
  BY <1>1 DEF GenerateSacks
<1>5. Sent(d) \subseteq Sent(c) \cup {s}
  <2>1. \A i \in 1 .. Len(d.queue) :
           (i \in 1 .. Len(c.queue) /\ d.queue[i] = c.queue[i]) \/ d.queue[i] = e
    BY <1>0, <1>2 DEF QueueOK, IsSequence
  <2> QED BY <1>2, <1>3, <2>1 DEF Sent, Kept, SameMachine
<1>6. new \in SUBSET (old \cup {s})
  BY <1>5
<1>7. Way(d, o, N + 1, new, in, f)
  <2>1. PICK at : DirOK(c, o, N, old, in, at, f)
    BY DEF Linked, Way
  <2> HIDE DEF old, new
  <2>2. DirOK(d, o, N + 1, old \cup {s}, in, Longer(at, N, s.length), f)
    BY <1>0, <1>1, <1>2, <1>3, <2>1, DirSend
  <2>3. DirOK(d, o, N + 1, new, in, Longer(at, N, s.length), f)
    BY <1>6, <2>2, DirSame
  <2> QED BY <2>3 DEF Way
<1>8. Way(o, d, M, in, new, g)
  <2>1. PICK at : DirOK(o, c, M, in, old, at, g)
    BY DEF Linked, Way
  <2> HIDE DEF old, new
  <2>2. DirOK(o, c, M, in, old \cup {s}, at, g)
    BY <1>1, <1>4, <2>1, DirBackward
  <2>3. DirOK(o, d, M, in, new, at, g)
    BY <1>2, <1>6, <2>2, DirSame DEF SameReceiver
  <2> QED BY <2>3 DEF Way
<1> QED BY <1>7, <1>8 DEF Linked, d

-----------------------------------------------------------------------------
(* The invariant of the two directions. *)

\* What p sent and may still arrive, or be sent again.
Traffic(p) == net[Other(p)] \cup Kept(conn[p])

DataInv ==
    /\ accepted = [p \in Peers |-> accepted[p]]
    /\ \A p \in Peers :
          /\ accepted[p] \in 0 .. SendBound[p]
          /\ Way(conn[p], conn[Other(p)], accepted[p], Traffic(p), Traffic(Other(p)),
                 InitialSequence[p])

\* Half of the sequence space is enough for everything an endpoint sends.
WithinHalf == \A p \in Peers : SendBound[p] * Mss < Half

LEMMA OtherIs ==
    ASSUME NEW p \in Peers
    PROVE  /\ Other(p) \in Peers /\ Other(p) # p /\ Other(Other(p)) = p
           /\ \A q \in Peers : q = p \/ q = Other(p)
  BY TransportAssumption DEF Peers, Other

\* The two directions as the endpoint p sees them.
LinkedAs(p, c, N) ==
    Linked(c, conn[Other(p)], N, accepted[Other(p)], net[Other(p)], Traffic(Other(p)),
           InitialSequence[p], InitialSequence[Other(p)])

LEMMA LinkedNow ==
    ASSUME LocalInv, DataInv, NEW p \in Peers
    PROVE  LinkedAs(p, conn[p], accepted[p])
<1>1. Sent(conn[p]) = Kept(conn[p])
  BY DEF LocalInv, Sent
<1>2. Other(p) \in Peers /\ Other(Other(p)) = p
  BY OtherIs
<1>3. net[Other(p)] \cup Sent(conn[p]) = Traffic(p)
  BY <1>1 DEF Traffic
<1> QED BY <1>2, <1>3 DEF DataInv, LinkedAs, Linked

LEMMA PerformLinked ==
    ASSUME LocalInv, DataInv, NEW p \in Peers, NEW c, IsEndpoint(c),
           NEW N \in 0 .. SendBound[p], LinkedAs(p, c, N),
           NEW gone, Perform(p, c, gone), accepted' = [accepted EXCEPT ![p] = N]
    PROVE  DataInv'
<1> DEFINE e == [c EXCEPT !.out = {}]
           o == Other(p)
<1>1. /\ e.out = {} /\ e.control = c.control
      /\ e.queue = c.queue /\ e.next_send = c.next_send /\ e.oldest = c.oldest
  BY DEF IsEndpoint, Fields
<1>2. /\ e.delivered = c.delivered /\ e.ack = c.ack /\ e.delivery = c.delivery
      /\ e.slots = c.slots /\ e.ranges = c.ranges
  BY DEF IsEndpoint, Fields
<1>3. o \in Peers /\ o # p /\ Other(o) = p /\ \A q \in Peers : q = p \/ q = o
  BY OtherIs
<1>4. conn'[p] = e /\ conn'[o] = conn[o]
  BY <1>3 DEF Perform, LocalInv
<1>5. net'[p] = net[p] \ gone /\ net'[o] = Carry(net[o], c.out)
  BY <1>3 DEF Perform, LocalInv
<1>6. accepted' = [q \in Peers |-> accepted'[q]] /\ accepted'[p] = N /\ accepted'[o] = accepted[o]
  BY <1>3 DEF DataInv
<1> HIDE DEF e
<1>7. Kept(e) = Kept(c)
  BY <1>1 DEF Kept
<1>8. Traffic(p)' \in SUBSET (net[o] \cup Sent(c))
  <2>1. Traffic(p)' = net'[o] \cup Kept(e)
    BY <1>4 DEF Traffic
  <2>2. net'[o] \subseteq net[o] \cup c.out
    BY <1>5 DEF Carry
  <2> QED BY <1>7, <2>1, <2>2 DEF Sent
<1>9. Traffic(o)' \in SUBSET Traffic(o)
  <2>1. Traffic(o)' = net'[p] \cup Kept(conn[o])
    BY <1>3, <1>4 DEF Traffic
  <2>2. Traffic(o) = net[p] \cup Kept(conn[o])
    BY <1>3 DEF Traffic
  <2> QED BY <1>5, <2>1, <2>2
<1> DEFINE fwd == Traffic(p)'
           back == Traffic(o)'
           was == net[o] \cup Sent(c)
           old == Traffic(o)
<1>10. Way(e, conn[o], N, fwd, back, InitialSequence[p])
  <2>1. PICK at : DirOK(c, conn[o], N, was, old, at, InitialSequence[p])
    BY DEF LinkedAs, Linked, Way
  <2> HIDE DEF fwd, back, was, old
  <2>2. fwd \in SUBSET was /\ back \in SUBSET old
    BY <1>8, <1>9 DEF fwd, back, was, old
  <2>3. DirOK(e, conn[o], N, fwd, back, at, InitialSequence[p])
    BY <1>1, <2>1, <2>2, DirSame
  <2> QED BY <2>3 DEF Way
<1>11. Way(conn[o], e, accepted[o], back, fwd, InitialSequence[o])
  <2>1. PICK at : DirOK(conn[o], c, accepted[o], old, was, at, InitialSequence[o])
    BY DEF LinkedAs, Linked, Way
  <2> HIDE DEF fwd, back, was, old
  <2>2. fwd \in SUBSET was /\ back \in SUBSET old
    BY <1>8, <1>9 DEF fwd, back, was, old
  <2>3. DirOK(conn[o], e, accepted[o], back, fwd, at, InitialSequence[o])
    BY <1>2, <2>1, <2>2, DirSame
  <2> QED BY <2>3 DEF Way
<1>12. ASSUME NEW q \in Peers
       PROVE  /\ accepted'[q] \in 0 .. SendBound[q]
              /\ Way(conn'[q], conn'[Other(q)], accepted'[q], Traffic(q)',
                     Traffic(Other(q))', InitialSequence[q])
  <2>1. CASE q = p
    BY <1>4, <1>6, <1>10, <2>1
  <2>2. CASE q = o
    <3>1. accepted[o] \in 0 .. SendBound[o]
      BY <1>3 DEF DataInv
    <3>2. Traffic(Other(o))' = Traffic(p)'
      BY <1>3
    <3> HIDE DEF o
    <3> QED BY <1>3, <1>4, <1>6, <1>11, <2>2, <3>1, <3>2
  <2> QED BY <1>3, <2>1, <2>2
<1> QED BY <1>6, <1>12 DEF DataInv

LEMMA DataNext ==
    ASSUME WithinHalf, LocalInv, DataInv, [Next]_vars
    PROVE  DataInv'
<1>0. ASSUME NEW p \in Peers
      PROVE  /\ Local(conn[p]) /\ IsEndpoint(conn[p]) /\ LinkedAs(p, conn[p], accepted[p])
             /\ accepted[p] \in 0 .. SendBound[p]
             /\ UNCHANGED accepted => accepted' = [accepted EXCEPT ![p] = accepted[p]]
  BY LinkedNow DEF LocalInv, Local, DataInv
<1>1. CASE UNCHANGED vars
  BY <1>1 DEF vars, DataInv, Traffic
<1>2. ASSUME NEW p \in Peers, AppConnect(p) PROVE DataInv'
  <2> DEFINE c == Connect(conn[p])
  <2>1. IsEndpoint(c)
    BY <1>0, LocalEvent DEF Local, Connect
  <2>2. LinkedAs(p, c, accepted[p])
    BY <1>0, LinkedEvent DEF LinkedAs, Connect
  <2>3. Perform(p, c, {}) /\ UNCHANGED accepted
    BY <1>2 DEF AppConnect
  <2> HIDE DEF c
  <2> QED BY <1>0, <2>1, <2>2, <2>3, PerformLinked
<1>3. ASSUME NEW p \in Peers, AppClose(p) PROVE DataInv'
  <2> DEFINE c == Close(conn[p])
  <2>1. IsEndpoint(c)
    BY <1>0, LocalEvent DEF Local, Close
  <2>2. LinkedAs(p, c, accepted[p])
    BY <1>0, LinkedEvent DEF LinkedAs, Close
  <2>3. Perform(p, c, {}) /\ UNCHANGED accepted
    BY <1>3 DEF AppClose
  <2> HIDE DEF c
  <2> QED BY <1>0, <2>1, <2>2, <2>3, PerformLinked
<1>4. ASSUME NEW p \in Peers, AppSend(p) PROVE DataInv'
  <2> DEFINE N == accepted[p]
  <2>1. PICK length \in Lengths : /\ CanSend(conn[p], length)
                                  /\ Perform(p, Send(conn[p], length, N + 1), {})
    BY <1>4 DEF AppSend
  <2> DEFINE c == Send(conn[p], length, N + 1)
  <2>2. length \in 1 .. Mss /\ length \in Nat
    BY TransportAssumption, ConnectionAssumption
  <2>3. N \in 0 .. SendBound[p] /\ N < SendBound[p] /\ SendBound[p] \in Nat
    BY <1>0, <1>4, TransportAssumption DEF AppSend
  <2>4. N + 1 \in 0 .. SendBound[p]
    BY <2>3
  <2>5. (N + 1) * Mss < Half
    <3>1. (N + 1) * Mss <= SendBound[p] * Mss
      BY <2>3, <2>4, ConnectionAssumption
    <3>2. SendBound[p] * Mss < Half
      BY DEF WithinHalf
    <3>3. (N + 1) * Mss \in Int /\ SendBound[p] * Mss \in Int /\ Half \in Int
      BY <2>3, ConnectionAssumption, HalfIs DEF Half
    <3> QED BY <3>1, <3>2, <3>3
  <2>6. IsEndpoint(c)
    <3>1. Step(conn[p], Send(conn[p], length, N + 1))
      BY <2>1, <2>2, LocalSend DEF LocalInv
    <3> QED BY <3>1 DEF Step, Local
  <2>7. accepted' = [accepted EXCEPT ![p] = N + 1]
    BY <1>4 DEF AppSend
  <2>8. LinkedAs(p, conn[p], N) /\ Local(conn[p])
    BY <1>0
  <2> HIDE DEF N
  <2>9. LinkedAs(p, c, N + 1)
    BY <2>2, <2>5, <2>8, LinkedSend DEF LinkedAs
  <2>10. Perform(p, c, {})
    BY <2>1
  <2> HIDE DEF c
  <2> QED BY <2>4, <2>6, <2>7, <2>9, <2>10, PerformLinked
<1>5. ASSUME NEW p \in Peers, ReceiveSegment(p) PROVE DataInv'
  <2>1. PICK s \in net[p] : \E c \in {OnSegment(conn[p], s)}, gone \in {{}, {s}} :
                                Perform(p, c, gone)
    BY <1>5 DEF ReceiveSegment
  <2>2. PICK gone \in {{}, {s}} : Perform(p, OnSegment(conn[p], s), gone)
    BY <2>1
  <2> DEFINE c == OnSegment(conn[p], s)
  <2>3. IsEndpoint(c)
    BY LocalSegment DEF LocalInv, Step, Local
  <2>4. s \in Traffic(Other(p))
    BY OtherIs DEF Traffic
  <2>5. LinkedAs(p, c, accepted[p])
    BY <1>0, <2>4, LinkedSegment DEF LinkedAs
  <2>6. UNCHANGED accepted
    BY <1>5 DEF ReceiveSegment
  <2>7. Perform(p, c, gone)
    BY <2>2
  <2> HIDE DEF c
  <2> QED BY <1>0, <2>3, <2>5, <2>6, <2>7, PerformLinked
<1>6. ASSUME NEW p \in Peers, Lose(p) PROVE DataInv'
  <2>1. UNCHANGED <<conn, accepted>> /\ \A q \in Peers : net'[q] \subseteq net[q]
    BY <1>6 DEF Lose, LocalInv
  <2>2. ASSUME NEW q \in Peers
        PROVE  Way(conn[q], conn[Other(q)], accepted[q], Traffic(q)', Traffic(Other(q))',
                   InitialSequence[q])
    <3> DEFINE fwd == Traffic(q)'
               back == Traffic(Other(q))'
               was == Traffic(q)
               old == Traffic(Other(q))
    <3>1. fwd \in SUBSET was /\ back \in SUBSET old
      BY <2>1, OtherIs DEF Traffic
    <3>2. PICK at : DirOK(conn[q], conn[Other(q)], accepted[q], was, old, at,
                          InitialSequence[q])
      BY DEF DataInv, Way
    <3> HIDE DEF fwd, back, was, old
    <3>3. DirOK(conn[q], conn[Other(q)], accepted[q], fwd, back, at, InitialSequence[q])
      BY <3>1, <3>2, DirSame
    <3>4. Way(conn[q], conn[Other(q)], accepted[q], fwd, back, InitialSequence[q])
      BY <3>3 DEF Way
    <3> QED BY <3>4 DEF fwd, back
  <2> QED BY <2>1, <2>2 DEF DataInv
<1>7. ASSUME NEW p \in Peers, AnyTick(p) PROVE DataInv'
  <2>1. PICK t, r, o : Perform(p, Tick(conn[p], t, r, o), {}) /\ UNCHANGED accepted
    BY <1>7 DEF AnyTick, TimerTick
  <2> DEFINE c == Tick(conn[p], t, r, o)
  <2>2. IsEndpoint(c)
    BY LocalTick DEF LocalInv, Step, Local
  <2>3. LinkedAs(p, c, accepted[p])
    BY <1>0, LinkedTick DEF LinkedAs
  <2>4. Perform(p, c, {}) /\ UNCHANGED accepted
    BY <2>1
  <2> HIDE DEF c
  <2> QED BY <1>0, <2>2, <2>3, <2>4, PerformLinked
<1> QED BY <1>1, <1>2, <1>3, <1>4, <1>5, <1>6, <1>7 DEF Next

-----------------------------------------------------------------------------
(* The initial states. *)

\* The fields of an endpoint that has sent and received no payload.
Fresh(c, own, peer) ==
    /\ c.queue = <<>> /\ c.next_send = own /\ c.oldest = own
    /\ c.delivered = <<>> /\ c.ack = peer /\ c.delivery = peer
    /\ c.slots = {} /\ c.ranges = {}

LEMMA FreshWay ==
    ASSUME NEW f \in SeqNum, NEW g, NEW c, Fresh(c, f, g), NEW r, Fresh(r, g, f),
           NEW fwd, \A s \in fwd : IsControl(c, s),
           NEW back, \A s \in back : IsControl(r, s)
    PROVE  Way(c, r, 0, fwd, back, f)
<1> DEFINE at == [k \in 0 .. 0 |-> f]
<1>1. /\ Len(c.queue) = 0 /\ c.next_send = f /\ c.oldest = f
      /\ r.delivered = <<>> /\ r.ack = f /\ r.delivery = f /\ r.slots = {} /\ r.ranges = {}
  BY DEF Fresh
<1>2. Done(r) = 0 /\ HeldBy(r) = {} /\ First(c, 0) = 0
  BY <1>1 DEF Done, HeldBy, First
<1>3. Scale(at, 0, f)
  <2>1. 0 * Mss = 0 /\ Half > 0 /\ Half \in Nat
    BY ConnectionAssumption, HalfIs DEF Half
  <2>2. SeqSub(f, f) = 0
    BY SubIs, NumbersAre
  <2>3. \A k \in 0 .. 0 : k = 0
    OBVIOUS
  <2>4. at[0] = f /\ at \in [0 .. 0 -> SeqNum]
    OBVIOUS
  <2> HIDE DEF at
  <2> QED BY <2>1, <2>2, <2>3, <2>4 DEF Scale
<1>4. at[0] = f
  OBVIOUS
<1> HIDE DEF at
<1>5. SenderOK(c, at, 0)
  BY <1>1, <1>2, <1>4 DEF SenderOK
<1>6. ReceiverOK(r, at, 0)
  <2>1. RangesOK(r.ranges, at, 0, 0, {})
    BY <1>1 DEF RangesOK, Covered
  <2>2. r.delivered \in Seq(Nat)
    BY <1>1
  <2> QED BY <1>1, <1>2, <1>4, <2>1, <2>2 DEF ReceiverOK
<1>7. \A s \in fwd : DataOK(s, at, 0)
  BY DEF DataOK, IsControl
<1>8. \A s \in back : s.ack = at[0] /\ s.sacks = {}
  BY <1>1, <1>4 DEF IsControl
<1>9. \A s \in back : BackOK(s, r, at, 0)
  <2>1. 0 \in 0 .. Done(r)
    BY <1>2
  <2> QED BY <1>8, <2>1 DEF BackOK
<1>10. \A s \in back : \A n \in Acks(c, r, back) : Apart(s, n, at, 0)
  BY <1>8 DEF Apart
<1>11. MarksOK(c, r, back, at, 0)
  BY <1>1 DEF MarksOK
<1>12. DirOK(c, r, 0, fwd, back, at, f)
  BY <1>2, <1>3, <1>5, <1>6, <1>7, <1>9, <1>10, <1>11 DEF DirOK
<1> QED BY <1>12 DEF Way

\* The endpoints are fresh and the traffic is control traffic.
FreshState ==
    /\ accepted = [p \in Peers |-> 0]
    /\ \A p \in Peers : /\ Fresh(conn[p], InitialSequence[p], InitialSequence[Other(p)])
                        /\ \A s \in Traffic(p) : IsControl(conn[p], s)

LEMMA FreshData == FreshState => DataInv
<1> SUFFICES ASSUME FreshState, NEW p \in Peers
             PROVE  /\ accepted = [q \in Peers |-> accepted[q]]
                    /\ accepted[p] \in 0 .. SendBound[p]
                    /\ Way(conn[p], conn[Other(p)], accepted[p], Traffic(p),
                           Traffic(Other(p)), InitialSequence[p])
  BY TransportAssumption DEF DataInv, FreshState
<1>1. accepted[p] = 0 /\ SendBound[p] \in Nat /\ InitialSequence[p] \in SeqNum
  BY TransportAssumption DEF FreshState
<1>2. Other(p) \in Peers /\ Other(Other(p)) = p
  BY OtherIs
<1>3. Way(conn[p], conn[Other(p)], 0, Traffic(p), Traffic(Other(p)), InitialSequence[p])
  BY <1>1, <1>2, FreshWay DEF FreshState
<1> QED BY <1>1, <1>3 DEF FreshState

LEMMA NewIsFresh ==
    ASSUME NEW p \in Peers
    PROVE  LET c == NewEndpoint(p) IN
           /\ Fresh(c, InitialSequence[p], InitialSequence[Other(p)])
           /\ IsEndpoint(c) /\ c.control = NoControl /\ c.out = {}
  BY NewConnectionIs DEF NewEndpoint, Fresh

LEMMA EstablishedIsFresh ==
    ASSUME NEW p \in Peers
    PROVE  LET c == Established(p) IN
           /\ Fresh(c, InitialSequence[p], InitialSequence[Other(p)])
           /\ c.control = NoControl
<1> DEFINE c == NewEndpoint(p)
           w == AdvertisedWindow(NewEndpoint(Other(p)))
           f == [c.fast EXCEPT !.duplicates = 1]
           d == [c EXCEPT !.state = "established", !.fast = f, !.peer_window = w]
<1>1. Established(p) = d
  BY DEF Established
<1>2. /\ Fresh(c, InitialSequence[p], InitialSequence[Other(p)])
      /\ IsEndpoint(c) /\ c.control = NoControl
  BY NewIsFresh
<1> HIDE DEF c, w, f
<1>3. SameNumbers(c, d) /\ d.control = c.control
  BY <1>2 DEF IsEndpoint, Fields, SameNumbers
<1>4. SameReception(c, d)
  BY <1>2 DEF IsEndpoint, Fields, SameReception
<1> HIDE DEF d
<1> QED BY <1>1, <1>2, <1>3, <1>4 DEF Fresh, SameNumbers, SameReception

LEMMA DataInit == Init \/ InitEstablished => DataInv
<1>1. ASSUME Init PROVE FreshState
  <2>1. ASSUME NEW p \in Peers
        PROVE  /\ Fresh(conn[p], InitialSequence[p], InitialSequence[Other(p)])
               /\ Traffic(p) = {}
    <3>1. conn[p] = NewEndpoint(p) /\ net[Other(p)] = {}
      BY <1>1, OtherIs DEF Init
    <3>2. /\ Fresh(conn[p], InitialSequence[p], InitialSequence[Other(p)])
          /\ conn[p].control = NoControl
      BY <3>1, NewIsFresh
    <3>3. Kept(conn[p]) = {}
      <4>1. Len(conn[p].queue) = 0
        BY <3>2 DEF Fresh
      <4>2. 1 .. Len(conn[p].queue) = {}
        BY <4>1
      <4> QED BY <3>2, <4>2 DEF Kept
    <3> QED BY <3>1, <3>2, <3>3 DEF Traffic
  <2> QED BY <1>1, <2>1 DEF Init, FreshState
<1>2. ASSUME InitEstablished PROVE FreshState
  <2>1. ASSUME NEW p \in Peers
        PROVE  /\ Fresh(conn[p], InitialSequence[p], InitialSequence[Other(p)])
               /\ Traffic(p) = {}
    <3>1. conn[p] = Established(p) /\ net[Other(p)] = {}
      BY <1>2, OtherIs DEF InitEstablished
    <3>2. /\ Fresh(conn[p], InitialSequence[p], InitialSequence[Other(p)])
          /\ conn[p].control = NoControl
      BY <3>1, EstablishedIsFresh
    <3>3. Kept(conn[p]) = {}
      <4>1. Len(conn[p].queue) = 0
        BY <3>2 DEF Fresh
      <4>2. 1 .. Len(conn[p].queue) = {}
        BY <4>1
      <4> QED BY <3>2, <4>2 DEF Kept
    <3> QED BY <3>1, <3>2, <3>3 DEF Traffic
  <2> QED BY <1>2, <2>1 DEF InitEstablished, FreshState
<1> QED BY <1>1, <1>2, FreshData

\* The two directions stay consistent in every behaviour.
THEOREM DataCorrect ==
    ASSUME WithinHalf
    PROVE  (Init \/ InitEstablished) /\ [][Next]_vars => [](LocalInv /\ DataInv)
<1>1. LocalInv /\ DataInv /\ [Next]_vars => (LocalInv /\ DataInv)'
  BY DataNext, LocalNext
<1> QED BY <1>1, DataInit, LocalInit, PTL

-----------------------------------------------------------------------------
(* What the invariant says of the data. *)

\* Both ends of a direction, as the invariant sees them.
LEMMA DirNow ==
    ASSUME DataInv, NEW p \in Peers
    PROVE  /\ accepted[p] \in Nat
           /\ \E at : DirOK(conn[p], conn[Other(p)], accepted[p], Traffic(p),
                            Traffic(Other(p)), at, InitialSequence[p])
<1>1. SendBound[p] \in Nat /\ accepted[p] \in 0 .. SendBound[p]
  BY TransportAssumption DEF DataInv
<1> QED BY <1>1 DEF DataInv, Way

LEMMA DataIsInOrder == DataInv => InOrderExactlyOnce
<1> SUFFICES ASSUME DataInv, NEW p \in Peers
             PROVE  LET d == conn[p].delivered IN
                    Len(d) <= accepted[Other(p)] /\ \A i \in DOMAIN d : d[i] = i
  BY DEF InOrderExactlyOnce
<1> DEFINE o == Other(p)
           r == conn[p]
           N == accepted[o]
<1>1. o \in Peers /\ Other(o) = p
  BY OtherIs
<1>2. PICK at : ReceiverOK(r, at, N)
  BY <1>1, DirNow DEF DirOK
<1>3. N \in Nat
  BY <1>1, DirNow
<1> HIDE DEF o, N
<1>4. /\ r.delivered \in Seq(Nat) /\ Len(r.delivered) \in 0 .. N
      /\ \A i \in 1 .. Len(r.delivered) : r.delivered[i] = i
  BY <1>2 DEF ReceiverOK, Done
<1>5. DOMAIN r.delivered = 1 .. Len(r.delivered)
  BY <1>4
<1> QED BY <1>3, <1>4, <1>5 DEF N, o

LEMMA DataIsRecoverable == LocalInv /\ DataInv => MissingIsRecoverable
<1> SUFFICES ASSUME LocalInv, DataInv, NEW p \in Peers, NEW d \in 1 .. accepted[p],
                    d \notin Delivered(Other(p)) \cup Held(Other(p))
             PROVE  \E i \in DOMAIN conn[p].queue :
                       conn[p].queue[i].segment.data = d /\ ~conn[p].queue[i].sacked
  BY DEF MissingIsRecoverable
<1> DEFINE c == conn[p]
           r == conn[Other(p)]
           N == accepted[p]
           i == d - First(c, N)
<1>1. PICK at : DirOK(c, r, N, Traffic(p), Traffic(Other(p)), at, InitialSequence[p])
  BY DirNow
<1>2. N \in Nat /\ d \in 1 .. N
  BY DirNow
<1>3. QueueOK(c.queue)
  BY DEF LocalInv, Local
<1> DEFINE back == Traffic(Other(p))
<1>4. /\ SenderOK(c, at, N) /\ ReceiverOK(r, at, N) /\ First(c, N) <= Done(r)
      /\ MarksOK(c, r, back, at, N)
  BY <1>1 DEF DirOK
<1> HIDE DEF back, N
<1>5. d \notin HeldBy(r) /\ d > Done(r)
  <2>1. d \notin HeldBy(r)
    BY DEF HeldBy, Held
  <2>2. r.delivered \in Seq(Nat) /\ Done(r) \in 0 .. N /\ \A x \in 1 .. Done(r) : r.delivered[x] = x
    BY <1>4 DEF ReceiverOK
  <2>3. ASSUME d \in 1 .. Done(r) PROVE d \in Delivered(Other(p))
    <3>1. DOMAIN r.delivered = 1 .. Done(r)
      BY <2>2 DEF Done
    <3> QED BY <2>2, <2>3, <3>1 DEF Delivered
  <2>4. d \in Int /\ d >= 1 /\ Done(r) \in Int
    BY <1>2, <2>2
  <2> QED BY <2>1, <2>3, <2>4
<1>6. d \notin Got(r)
  BY <1>5, <1>2, <1>4 DEF Got, ReceiverOK
<1>7. First(c, N) \in 0 .. N /\ First(c, N) = N - Len(c.queue) /\ Len(c.queue) \in 0 .. N
  BY <1>2, <1>4, QueueAt
<1>8. First(c, N) \in Int /\ Len(c.queue) \in Int /\ d \in Int /\ Done(r) \in Int
  BY <1>2, <1>4, <1>7 DEF ReceiverOK
<1> HIDE DEF c, r
<1>9. i \in 1 .. Len(c.queue) /\ First(c, N) + i = d
  <2>1. First(c, N) <= Done(r) /\ Done(r) < d /\ 1 <= d /\ d <= N /\ N \in Int
    BY <1>2, <1>4, <1>5, <1>8
  <2> DEFINE f == First(c, N)
             l == Len(c.queue)
             x == Done(r)
  <2>2. f \in Int /\ l \in Int /\ x \in Int /\ f = N - l /\ f <= x /\ x < d /\ d <= N
    BY <1>7, <1>8, <2>1
  <2> HIDE DEF f, l, x
  <2>3. d - f \in 1 .. l /\ f + (d - f) = d
    BY <1>8, <2>1, <2>2
  <2> QED BY <2>3 DEF f, l
<1> HIDE DEF i
<1>10. c.queue[i].segment.data = First(c, N) + i
  BY <1>9, <1>4 DEF SenderOK
<1>11. ~c.queue[i].sacked
  BY <1>4, <1>6, <1>9 DEF MarksOK
<1>12. DOMAIN c.queue = 1 .. Len(c.queue)
  BY <1>3 DEF QueueOK, IsSequence
<1> QED BY <1>9, <1>10, <1>11, <1>12 DEF c

LEMMA DataHeadUnsacked == LocalInv /\ DataInv => HeadIsUnsacked
<1> SUFFICES ASSUME LocalInv, DataInv, NEW p \in Peers, conn[p].queue # <<>>
             PROVE  ~conn[p].queue[1].sacked
  BY DEF HeadIsUnsacked
<1> DEFINE c == conn[p]
           r == conn[Other(p)]
           N == accepted[p]
           back == Traffic(Other(p))
<1>1. PICK at : DirOK(c, r, N, Traffic(p), back, at, InitialSequence[p])
  BY DirNow
<1>2. N \in Nat
  BY DirNow
<1>3. QueueOK(c.queue) /\ c.queue # <<>>
  BY DEF LocalInv, Local
<1> HIDE DEF back, N, c, r
<1>4. SenderOK(c, at, N) /\ MarksOK(c, r, back, at, N)
  BY <1>1 DEF DirOK
<1>5. First(c, N) \in Int /\ Len(c.queue) \in Nat
  BY <1>2, <1>4, QueueAt
<1>6. 1 \in 1 .. Len(c.queue)
  <2>1. Len(c.queue) # 0
    BY <1>3 DEF QueueOK, IsSequence
  <2> QED BY <1>5, <2>1
<1>7. First(c, N) + 1 - 1 = First(c, N)
  BY <1>5
<1>8. at[First(c, N)] = c.oldest
  BY <1>4 DEF SenderOK
<1>9. c.oldest \in Acks(c, r, back)
  BY DEF Acks
<1>10. ~c.queue[1].sacked
  BY <1>4, <1>6, <1>7, <1>8, <1>9 DEF MarksOK
<1> QED BY <1>10 DEF c

\* The bytes between two points of the ruler, counted from first.
LEMMA Inside ==
    ASSUME NEW at, NEW N, NEW first, Scale(at, N, first),
           NEW i \in 0 .. N, NEW j \in 0 .. N, i < j, NEW n \in SeqNum
    PROVE  (SequenceLessEqual(at[i], n) /\ SequenceLess(n, at[j]))
              <=> (SeqSub(at[i], first) <= SeqSub(n, first)
                   /\ SeqSub(n, first) < SeqSub(at[j], first))
<1> DEFINE u == at[i]
           v == at[j]
           a == SeqSub(u, first)
           b == SeqSub(v, first)
           x == SeqSub(n, first)
<1>1. /\ u \in SeqNum /\ v \in SeqNum /\ a \in Nat /\ b \in Nat /\ b < Half /\ a < Half
      /\ first \in SeqNum
  BY ScaleBound DEF Scale
<1>2. a < b
  BY DEF Scale
<1>3. x \in Nat /\ x < Modulus
  BY <1>1, SubIs, NumbersAre
<1>4. /\ a >= x => SeqSub(u, n) = a - x
      /\ a < x => SeqSub(u, n) = Modulus + a - x
  BY <1>1, SubShift
<1>5. /\ x >= b => SeqSub(n, v) = x - b
      /\ x < b => SeqSub(n, v) = Modulus + x - b
  BY <1>1, SubShift
<1>6. u = n <=> a = x
  <2>1. ASSUME a = x PROVE u = n
    <3>1. SeqAdd(first, a) = u /\ SeqAdd(first, x) = n
      BY <1>1, AddSub
    <3> QED BY <2>1, <3>1
  <2> QED BY <2>1
<1>7. Half \in Nat /\ Modulus = 2 * Half /\ Half > 0
  BY HalfIs DEF Half
<1>8. SequenceLessEqual(u, n) <=> a = x \/ SeqSub(u, n) >= Half
  BY <1>6 DEF SequenceLessEqual, SequenceLess, Half
<1>9. SequenceLess(n, v) <=> SeqSub(n, v) >= Half
  BY DEF SequenceLess, Half
<1> HIDE DEF u, v, a, b, x
<1>10. SequenceLessEqual(u, n) <=> a <= x /\ x - a <= Half
  BY <1>1, <1>3, <1>4, <1>7, <1>8
<1>11. SequenceLess(n, v) <=> x < b \/ x - b >= Half
  BY <1>1, <1>3, <1>5, <1>7, <1>9
<1>12. SequenceLessEqual(u, n) /\ SequenceLess(n, v) <=> a <= x /\ x < b
  BY <1>1, <1>2, <1>3, <1>7, <1>10, <1>11
<1> QED BY <1>12 DEF u, v, a, b, x

\* A byte between two points lies in one payload.
LEMMA PayloadOf ==
    ASSUME NEW at, NEW N, NEW first, Scale(at, N, first),
           NEW i \in 0 .. N, NEW j \in 0 .. N, i < j, NEW x \in Nat,
           SeqSub(at[i], first) <= x, x < SeqSub(at[j], first)
    PROVE  \E d \in (i + 1) .. j :
              SeqSub(at[d - 1], first) <= x /\ x < SeqSub(at[d], first)
<1> DEFINE off(k) == SeqSub(at[k], first)
           T == {d \in (i + 1) .. j : x < off(d)}
<1>0. i \in Int /\ j \in Int /\ 0 <= i /\ j <= N /\ N \in Int
  BY DEF Scale
<1>1. \A k \in 0 .. N : off(k) \in Nat
  BY ScaleBound
<1> HIDE DEF off
<1>2. T \subseteq Nat /\ j \in T
  BY <1>0 DEF off
<1>3. PICK d \in T : \A y \in T : d <= y
  BY <1>2, LeastElement
<1>4. d \in (i + 1) .. j /\ x < off(d) /\ d \in Int
  BY <1>3
<1>5. off(d - 1) <= x
  <2>1. CASE d - 1 = i
    BY <2>1 DEF off
  <2>2. CASE d - 1 # i
    <3>1. d - 1 \in (i + 1) .. j /\ d - 1 \in 0 .. N
      BY <1>0, <1>4, <2>2
    <3>2. d - 1 \notin T
      BY <1>3, <1>4
    <3>3. ~(x < off(d - 1)) /\ off(d - 1) \in Nat
      BY <1>1, <3>1, <3>2
    <3> QED BY <3>3
  <2> QED BY <2>1, <2>2
<1> QED BY <1>4, <1>5 DEF off

LEMMA DataRangesMatch == DataInv => RangesMatchSlots
<1> SUFFICES ASSUME DataInv, NEW p \in Peers
             PROVE  /\ conn[p].ack = conn[p].delivery
                    /\ \A n \in SeqNum :
                          (\E g \in conn[p].ranges : SequenceLessEqual(g.start, n)
                                                     /\ SequenceLess(n, g.end))
                          <=> (\E s \in conn[p].slots : SequenceLessEqual(s.start, n)
                                                        /\ SequenceLess(n, s.end))
  BY DEF RangesMatchSlots
<1> DEFINE o == Other(p)
           r == conn[p]
           N == accepted[o]
           first == InitialSequence[o]
           off(k) == SeqSub(k, first)
           K == Done(r)
<1>1. o \in Peers /\ Other(o) = p
  BY OtherIs
<1>2. PICK at : Scale(at, N, first) /\ ReceiverOK(r, at, N)
  BY <1>1, DirNow DEF DirOK
<1>3. N \in Nat
  BY <1>1, DirNow
<1> HIDE DEF o, N, r, first
<1>4. /\ r.ack = r.delivery /\ K \in 0 .. N
      /\ \A slot \in r.slots : slot.data \in (K + 2) .. N /\ slot = SlotAt(at, slot.data)
      /\ RangesOK(r.ranges, at, N, K, HeldBy(r))
  BY <1>2 DEF ReceiverOK
<1>5. \A k \in 0 .. N : off(at[k]) \in Nat
  BY <1>2, ScaleBound
<1>6. \A i, j \in 0 .. N : i <= j => off(at[i]) <= off(at[j])
  <2>1. \A i, j \in 0 .. N : i < j => off(at[i]) < off(at[j])
    BY <1>2 DEF Scale
  <2> HIDE DEF off
  <2> QED BY <1>5, <2>1
<1>7. Ruler(at, N)
  BY <1>2, ScaleIsRuler
<1> HIDE DEF K
<1>8. ASSUME NEW n \in SeqNum, NEW g \in r.ranges,
             SequenceLessEqual(g.start, n), SequenceLess(n, g.end)
      PROVE  \E s \in r.slots : SequenceLessEqual(s.start, n) /\ SequenceLess(n, s.end)
  <2>1. PICK i \in (K + 1) .. N, j \in (K + 1) .. N : i < j /\ g = Stretch(at, i, j)
    BY <1>4 DEF RangesOK
  <2>2. i \in 0 .. N /\ j \in 0 .. N /\ i \in Int /\ j \in Int /\ K \in Int
    BY <1>4, <2>1
  <2>3. g.start = at[i] /\ g.end = at[j]
    BY <2>1 DEF Stretch
  <2>4. off(at[i]) <= off(n) /\ off(n) < off(at[j])
    BY <1>2, <1>8, <2>1, <2>2, <2>3, Inside
  <2>5. off(n) \in Nat
    <3>1. first \in SeqNum
      BY <1>2 DEF Scale
    <3> QED BY <3>1, SubIs, NumbersAre
  <2>6. PICK d \in (i + 1) .. j : off(at[d - 1]) <= off(n) /\ off(n) < off(at[d])
    BY <1>2, <2>1, <2>2, <2>4, <2>5, PayloadOf
  <2>7. d \in 1 .. N /\ d \in 0 .. N /\ d - 1 \in 0 .. N /\ d - 1 < d /\ i < d /\ d <= j
        /\ d > K
    BY <1>3, <2>1, <2>2
  <2>8. Covered(r.ranges, at, N, d)
    BY <2>1, <2>2, <2>7 DEF Covered
  <2>9. d \in HeldBy(r)
    BY <1>4, <2>7, <2>8 DEF RangesOK
  <2>10. PICK s \in r.slots : s.data = d
    BY <2>9 DEF HeldBy
  <2>11. s = SlotAt(at, d)
    BY <1>4, <2>10
  <2>12. s.start = at[d - 1] /\ s.end = at[d]
    BY <2>11 DEF SlotAt
  <2>13. SequenceLessEqual(at[d - 1], n) /\ SequenceLess(n, at[d])
    BY <1>2, <2>6, <2>7, Inside
  <2> QED BY <2>10, <2>12, <2>13
<1>9. ASSUME NEW n \in SeqNum, NEW s \in r.slots,
             SequenceLessEqual(s.start, n), SequenceLess(n, s.end)
      PROVE  \E g \in r.ranges : SequenceLessEqual(g.start, n) /\ SequenceLess(n, g.end)
  <2> DEFINE d == s.data
  <2>1. d \in (K + 2) .. N /\ s = SlotAt(at, d) /\ d \in HeldBy(r)
    BY <1>4 DEF HeldBy
  <2>2. s.start = at[d - 1] /\ s.end = at[d]
    BY <2>1 DEF SlotAt
  <2> HIDE DEF d
  <2>3. d \in 1 .. N /\ d \in 0 .. N /\ d - 1 \in 0 .. N /\ d - 1 < d /\ d > K /\ d \in Int
    BY <1>3, <1>4, <2>1
  <2>4. Covered(r.ranges, at, N, d)
    BY <1>4, <2>1, <2>3 DEF RangesOK
  <2>5. PICK i \in 0 .. N, j \in 0 .. N : Stretch(at, i, j) \in r.ranges /\ i < d /\ d <= j
    BY <2>4 DEF Covered
  <2>6. off(at[d - 1]) <= off(n) /\ off(n) < off(at[d])
    BY <1>2, <1>9, <2>2, <2>3, Inside
  <2>7. i <= d - 1 /\ i < j
    BY <2>3, <2>5
  <2>8. off(at[i]) <= off(at[d - 1]) /\ off(at[d]) <= off(at[j])
    BY <1>6, <2>3, <2>5, <2>7
  <2>9. /\ off(at[i]) \in Nat /\ off(at[d - 1]) \in Nat /\ off(at[d]) \in Nat
        /\ off(at[j]) \in Nat
    BY <1>5, <2>3, <2>5
  <2>10. off(n) \in Nat
    <3>1. first \in SeqNum
      BY <1>2 DEF Scale
    <3> QED BY <3>1, SubIs, NumbersAre
  <2>11. off(at[i]) <= off(n) /\ off(n) < off(at[j])
    <3> HIDE DEF off
    <3> QED BY <2>6, <2>8, <2>9, <2>10
  <2>12. SequenceLessEqual(at[i], n) /\ SequenceLess(n, at[j])
    BY <1>2, <2>5, <2>7, <2>11, Inside
  <2> DEFINE g == Stretch(at, i, j)
  <2>13. g \in r.ranges /\ g.start = at[i] /\ g.end = at[j]
    BY <2>5 DEF Stretch
  <2> HIDE DEF g
  <2> QED BY <2>12, <2>13
<1> QED BY <1>4, <1>8, <1>9 DEF r

-----------------------------------------------------------------------------
(* The results, for a connection that is opened and closed (Spec) and for a *)
(* transfer over an established one (TransferSpec).                         *)

\* The receive callback gets what the peer's send accepted, each payload once
\* and in order, however the network loses, repeats and reorders segments.
THEOREM DeliveredInOrder ==
    ASSUME WithinHalf
    PROVE  (Spec => []InOrderExactlyOnce) /\ (TransferSpec => []InOrderExactlyOnce)
  BY DataCorrect, DataIsInOrder, PTL DEF Spec, TransferSpec

\* A payload the peer lacks is retained and not excluded from retransmission:
\* no ACK or SACK block, however old, makes the sender give it up.
THEOREM NothingGivenUp ==
    ASSUME WithinHalf
    PROVE  (Spec => []MissingIsRecoverable) /\ (TransferSpec => []MissingIsRecoverable)
  BY DataCorrect, DataIsRecoverable, PTL DEF Spec, TransferSpec

\* The oldest retained segment is never marked as SACKed, so that a timeout
\* retransmits the hole the peer waits for.
THEOREM HeadStaysUnsacked ==
    ASSUME WithinHalf
    PROVE  (Spec => []HeadIsUnsacked) /\ (TransferSpec => []HeadIsUnsacked)
  BY DataCorrect, DataHeadUnsacked, PTL DEF Spec, TransferSpec

\* What ACKs and SACK blocks report and what the slots hold for the
\* application is the same, byte by byte.
THEOREM ReceptionAgrees ==
    ASSUME WithinHalf
    PROVE  (Spec => []RangesMatchSlots) /\ (TransferSpec => []RangesMatchSlots)
  BY DataCorrect, DataRangesMatch, PTL DEF Spec, TransferSpec

\* A reset, a close or a new attempt on the same objects loses no payload and
\* no buffer.
THEOREM AttemptsKeepData ==
    ASSUME WithinHalf
    PROVE  Spec => []DataSurvivesAttempts
<1>1. InOrderExactlyOnce /\ MissingIsRecoverable /\ BuffersAccounted => DataSurvivesAttempts
  BY DEF DataSurvivesAttempts
<1> QED BY <1>1, DeliveredInOrder, NothingGivenUp, NoBufferLost, PTL

-----------------------------------------------------------------------------
(* One decrease per epoch.  An epoch that is over has its recovery point     *)
(* behind the oldest outstanding number, counted from the first one.         *)

LEMMA CutToIs ==
    ASSUME NEW flight \in Nat
    PROVE  CutTo(flight) \in Nat /\ Mss <= CutTo(flight) /\ CutTo(flight) <= MaxCwnd
<1> DEFINE a == 2 * Mss
           b == flight \div 2
           m == Max({a, b})
<1>1. a \in Nat /\ b \in Nat /\ Mss \in Nat /\ MaxCwnd \in Nat /\ Mss <= MaxCwnd /\ Mss <= a
  BY ConnectionAssumption
<1> HIDE DEF a, b
<1>2. m = IF a >= b THEN a ELSE b
  <2>1. CASE a >= b
    <3>1. a \in {a, b} /\ {a, b} \subseteq Int /\ \A y \in {a, b} : y <= a
      BY <1>1, <2>1
    <3>2. m = a
      BY <3>1, MaxIs
    <3> QED BY <2>1, <3>2
  <2>2. CASE b >= a
    <3>1. b \in {a, b} /\ {a, b} \subseteq Int /\ \A y \in {a, b} : y <= b
      BY <1>1, <2>2
    <3>2. m = b
      BY <3>1, MaxIs
    <3> QED BY <1>1, <2>2, <3>2
  <2> QED BY <1>1, <2>1, <2>2
<1> HIDE DEF m
<1>3. m \in Nat /\ Mss <= m
  BY <1>1, <1>2
<1>4. Min({m, MaxCwnd}) = IF m <= MaxCwnd THEN m ELSE MaxCwnd
  <2>1. CASE m <= MaxCwnd
    BY <1>1, <1>3, <2>1, MinIs
  <2>2. CASE MaxCwnd <= m
    BY <1>1, <1>3, <2>2, MinIs
  <2> QED BY <1>1, <1>3, <2>1, <2>2
<1>5. CutTo(flight) = Min({m, MaxCwnd})
  BY DEF CutTo, m, a, b
<1> QED BY <1>1, <1>3, <1>4, <1>5

\* No epoch yet, or the last one ended at or before n.
Over(g, n, first) ==
    \/ g.ssthresh = MaxCwnd
    \/ g.recovery_point \in SeqNum /\ SeqSub(g.recovery_point, first) <= SeqSub(n, first)

Epoch(c, first) ==
    /\ WindowOK(c.congestion)
    /\ ~c.congestion.in_recovery => Over(c.congestion, c.oldest, first)

\* What OneDecreasePerEpoch says of one endpoint.
OneCut(c, d) ==
    d.congestion.cwnd < c.congestion.cwnd =>
        \/ c.congestion.ssthresh = MaxCwnd
        \/ SequenceLessEqual(c.congestion.recovery_point, c.oldest)

\* The numbers of a sender that is within half of the space.
Numbers(c, first) ==
    /\ first \in SeqNum /\ c.oldest \in SeqNum /\ c.next_send \in SeqNum
    /\ SeqSub(c.oldest, first) \in Nat /\ SeqSub(c.oldest, first) < Half

LEMMA NumbersNow ==
    ASSUME NEW c, NEW r, NEW N, NEW fwd, NEW back, NEW at, NEW first,
           DirOK(c, r, N, fwd, back, at, first)
    PROVE  Numbers(c, first)
<1>1. Scale(at, N, first) /\ SenderOK(c, at, N)
  BY DEF DirOK
<1>2. N \in Nat /\ first \in SeqNum
  BY <1>1 DEF Scale
<1>3. First(c, N) \in 0 .. N /\ N \in 0 .. N
  BY <1>1, <1>2, QueueAt
<1>4. c.oldest = at[First(c, N)] /\ c.next_send = at[N]
  BY <1>1 DEF SenderOK
<1> QED BY <1>1, <1>2, <1>3, <1>4, ScaleBound DEF Numbers

LEMMA OverIs ==
    ASSUME NEW c, NEW first, Numbers(c, first), NEW g, Over(g, c.oldest, first)
    PROVE  g.ssthresh = MaxCwnd \/ SequenceLessEqual(g.recovery_point, c.oldest)
<1> SUFFICES ASSUME g.recovery_point \in SeqNum,
                    SeqSub(g.recovery_point, first) <= SeqSub(c.oldest, first)
             PROVE  SequenceLessEqual(g.recovery_point, c.oldest)
  BY DEF Over
<1> DEFINE m == g.recovery_point
           n == c.oldest
           x == SeqSub(m, first)
           y == SeqSub(n, first)
<1>1. first \in SeqNum /\ m \in SeqNum /\ n \in SeqNum /\ y \in Nat /\ y < Half /\ x <= y
  BY DEF Numbers
<1>2. x \in Nat
  BY <1>1, SubIs, NumbersAre
<1>3. x < y => SeqSub(m, n) = Modulus + x - y
  BY <1>1, SubShift
<1>4. x = y => m = n
  <2>1. SeqAdd(first, x) = m /\ SeqAdd(first, y) = n
    BY <1>1, AddSub
  <2> QED BY <2>1
<1>5. Half \in Nat /\ Modulus = 2 * Half
  BY HalfIs DEF Half
<1> HIDE DEF m, n, x, y
<1>6. m = n \/ SeqSub(m, n) >= Half
  BY <1>1, <1>2, <1>3, <1>4, <1>5
<1>7. SequenceLessEqual(m, n)
  BY <1>6 DEF SequenceLessEqual, SequenceLess, Half
<1> QED BY <1>7 DEF m, n

LEMMA EpochSame ==
    ASSUME NEW c, NEW first, Epoch(c, first), NEW d, SameSender(c, d)
    PROVE  Epoch(d, first) /\ OneCut(c, d)
<1>1. d.congestion = c.congestion /\ d.oldest = c.oldest
  BY DEF SameSender
<1>2. Epoch(d, first)
  BY <1>1 DEF Epoch
<1>3. ~(d.congestion.cwnd < c.congestion.cwnd)
  BY <1>1 DEF Epoch, WindowOK
<1> QED BY <1>2, <1>3 DEF OneCut

\* A loss cuts the window only if no epoch is under way.
LEMMA EpochLoss ==
    ASSUME NEW c, NEW first, Epoch(c, first), Numbers(c, first),
           IsCongestion(c.congestion),
           NEW d, d.oldest = c.oldest, NEW signal, Resends(c, d, signal)
    PROVE  Epoch(d, first) /\ OneCut(c, d)
<1> DEFINE g == c.congestion
           h == d.congestion
           point == c.queue[Len(c.queue)].end
           flight == FlightBytes(c)
<1>1. h = CongestionOnLoss(g, signal, flight, point)
  BY DEF Resends
<1>2. flight \in Nat
  BY SubIs, NumbersAre DEF FlightBytes, Numbers
<1>3. IsCongestion(g) /\ WindowOK(g) /\ (~g.in_recovery => Over(g, c.oldest, first))
  BY DEF Epoch
<1> HIDE DEF g, h, point, flight
<1>4. CASE g.in_recovery
  <2>1. h = g
    BY <1>1, <1>3, <1>4, OnLossIs
  <2>2. ~(h.cwnd < g.cwnd)
    BY <1>3, <2>1 DEF WindowOK
  <2>3. Epoch(d, first)
    BY <1>3, <1>4, <2>1 DEF Epoch, h
  <2> QED BY <2>2, <2>3 DEF OneCut, g, h
<1>5. CASE ~g.in_recovery
  <2>1. NewEpoch(h, signal, flight, point)
    BY <1>1, <1>3, <1>5, OnLossIs
  <2>2. h.in_recovery /\ h.acked = 0 /\ (h.cwnd = Mss \/ h.cwnd = CutTo(flight))
    BY <2>1 DEF NewEpoch
  <2>3. WindowOK(h)
    <3>1. Mss \in Nat /\ Mss <= Mss /\ Mss <= MaxCwnd
      BY ConnectionAssumption
    <3> QED BY <1>2, <2>2, <3>1, CutToIs DEF WindowOK
  <2>4. Epoch(d, first)
    BY <2>2, <2>3 DEF Epoch, h
  <2>5. g.ssthresh = MaxCwnd \/ SequenceLessEqual(g.recovery_point, c.oldest)
    BY <1>3, <1>5, OverIs
  <2> QED BY <2>4, <2>5 DEF OneCut, g
<1> QED BY <1>4, <1>5

\* An ACK moves the oldest number forward on the ruler; it ends an epoch only
\* at or beyond its recovery point.
LEMMA EpochAck ==
    ASSUME NEW c, NEW r, NEW N, NEW fwd, NEW back, NEW at, NEW first,
           DirOK(c, r, N, fwd, back, at, first),
           IsEndpoint(c), QueueOK(c.queue), c.tx_free \in Int,
           Recovery(c), Epoch(c, first), NEW s \in back
    PROVE  LET a == AcknowledgeProgress(c, s.ack) IN Epoch(a, first) /\ OneCut(c, a)
<1> DEFINE a == AcknowledgeProgress(c, s.ack)
           up == SequenceGreater(s.ack, c.oldest)
           bytes == SeqSub(s.ack, c.oldest)
           g == c.congestion
           e == CongestionOnAck(g, bytes)
           h == CongestionOnRecoveryAck(e, s.ack)
           off(n) == SeqSub(n, first)
<1>1. /\ a.oldest = (IF up THEN s.ack ELSE c.oldest)
      /\ a.congestion = (IF up THEN h ELSE g)
  BY AcknowledgeProgressIs
<1>2. Scale(at, N, first) /\ SenderOK(c, at, N) /\ ReceiverOK(r, at, N)
  BY DEF DirOK
<1>3. Ruler(at, N) /\ N \in Nat /\ first \in SeqNum
  BY <1>2, ScaleIsRuler DEF Scale
<1>4. PICK k \in 0 .. Done(r) : s.ack = at[k]
  BY DEF DirOK, BackOK
<1>5. k \in 0 .. N
  BY <1>2, <1>3, <1>4 DEF ReceiverOK
<1>6. Numbers(c, first)
  BY NumbersNow
<1>7. s.ack \in SeqNum /\ off(s.ack) \in Nat
  BY <1>2, <1>4, <1>5, ScaleBound
<1>8. WindowOK(g) /\ IsCongestion(g) /\ (~g.in_recovery => Over(g, c.oldest, first))
  BY DEF Epoch, Recovery
<1> HIDE DEF a
<1>9. CASE ~up
  <2>1. a.congestion = g /\ a.oldest = c.oldest
    BY <1>1, <1>9
  <2>2. ~(a.congestion.cwnd < g.cwnd)
    BY <1>8, <2>1 DEF WindowOK
  <2> QED BY <1>8, <2>1, <2>2 DEF Epoch, OneCut, a
<1>10. CASE up
  <2>1. bytes \in Nat
    BY <1>6, <1>7, SubIs, NumbersAre DEF Numbers
  <2> HIDE DEF bytes
  <2>2. /\ WindowOK(e) /\ g.cwnd <= e.cwnd /\ IsCongestion(e) /\ e.ssthresh = g.ssthresh
        /\ e.recovery_point = g.recovery_point /\ e.in_recovery = g.in_recovery
    BY <1>8, <2>1, OnAckGrows, OnAckIs
  <2> HIDE DEF e
  <2>3. /\ h.ssthresh = e.ssthresh /\ h.cwnd = e.cwnd /\ h.acked = e.acked
        /\ h.recovery_point = e.recovery_point
        /\ h.in_recovery <=> e.in_recovery /\ ~SequenceLessEqual(e.recovery_point, s.ack)
    BY <2>2, OnRecoveryAckIs
  <2>4. a.congestion = h /\ a.oldest = s.ack
    BY <1>1, <1>10
  <2> HIDE DEF h
  <2>5. WindowOK(h) /\ ~(h.cwnd < g.cwnd)
    BY <1>8, <2>2, <2>3 DEF WindowOK
  <2>6. ASSUME ~g.in_recovery PROVE Over(h, s.ack, first)
    <3>1. Over(g, c.oldest, first)
      BY <1>8, <2>6
    <3>2. First(c, N) \in 0 .. N /\ c.oldest = at[First(c, N)]
      BY <1>2, <1>3, QueueAt DEF SenderOK
    <3>3. First(c, N) < k
      BY <1>3, <1>4, <1>5, <1>10, <3>2 DEF Ruler, SequenceGreater
    <3>4. off(c.oldest) < off(s.ack)
      BY <1>2, <1>4, <1>5, <3>2, <3>3 DEF Scale
    <3>5. ASSUME g.recovery_point \in SeqNum, off(g.recovery_point) <= off(c.oldest)
          PROVE  off(g.recovery_point) <= off(s.ack)
      <4>1. off(g.recovery_point) \in Nat /\ off(c.oldest) \in Nat
        BY <1>3, <1>6, <3>5, SubIs, NumbersAre DEF Numbers
      <4> HIDE DEF off
      <4> QED BY <1>7, <3>4, <3>5, <4>1
    <3> QED BY <2>2, <2>3, <3>1, <3>5 DEF Over
  <2>7. ASSUME g.in_recovery, SequenceLessEqual(g.recovery_point, s.ack)
        PROVE  Over(h, s.ack, first)
    <3>1. PICK i \in 1 .. Len(c.queue) : g.recovery_point = c.queue[i].end
      BY <2>7 DEF Recovery, EndIn
    <3> DEFINE j == First(c, N) + i
    <3>2. j \in 0 .. N /\ g.recovery_point = at[j]
      <4>1. \A x \in 1 .. Len(c.queue) :
               First(c, N) + x \in 0 .. N /\ c.queue[x].end = at[First(c, N) + x]
        BY <1>2, <1>3, QueueAt
      <4>2. First(c, N) + i \in 0 .. N /\ c.queue[i].end = at[First(c, N) + i]
        BY <4>1
      <4> QED BY <3>1, <4>2
    <3> HIDE DEF j
    <3>3. j <= k
      BY <1>3, <1>4, <1>5, <2>7, <3>2 DEF Ruler
    <3>4. at[j] \in SeqNum /\ off(at[j]) \in Nat /\ (j < k => off(at[j]) < off(at[k]))
      BY <1>2, <1>5, <3>2, ScaleBound DEF Scale
    <3>5. off(at[j]) <= off(at[k])
      <4>1. j = k \/ j < k
        BY <1>5, <3>2, <3>3
      <4>2. off(at[k]) \in Nat
        BY <1>4, <1>7
      <4> HIDE DEF off
      <4> QED BY <3>4, <4>1, <4>2
    <3>6. g.recovery_point \in SeqNum /\ off(g.recovery_point) <= off(s.ack)
      BY <1>4, <3>2, <3>4, <3>5
    <3> QED BY <2>2, <2>3, <3>6 DEF Over
  <2>8. ~h.in_recovery => Over(h, s.ack, first)
    BY <2>2, <2>3, <2>6, <2>7
  <2> QED BY <2>4, <2>5, <2>8 DEF Epoch, OneCut, a
<1> QED BY <1>9, <1>10

LEMMA EpochPart ==
    ASSUME NEW c, NEW r, NEW N, NEW fwd, NEW back, NEW at, NEW first,
           DirOK(c, r, N, fwd, back, at, first),
           Local(c), Recovery(c), Epoch(c, first), NEW s \in back
    PROVE  LET d == AckPart(c, s) IN Epoch(d, first) /\ OneCut(c, d)
<1> DEFINE w == [c EXCEPT !.peer_window = s.window]
           a == AcknowledgeProgress(w, s.ack)
           d == Scoreboard(a, s)
<1>0. IsEndpoint(c) /\ QueueOK(c.queue) /\ c.tx_free \in Int
  BY DEF Local
<1>1. /\ IsEndpoint(w) /\ w.queue = c.queue /\ w.tx_free = c.tx_free /\ w.oldest = c.oldest
      /\ w.fast = c.fast /\ w.congestion = c.congestion /\ w.next_send = c.next_send
  BY <1>0 DEF IsEndpoint, Fields
<1>2. AckPart(c, s) \in {c, w, d}
  BY DEF AckPart, ProcessAck
<1>3. a.fast = w.fast /\ IsEndpoint(a) /\ QueueOK(a.queue)
  BY <1>0, <1>1, AcknowledgeProgressIs
<1>4. ~SequenceGreater(s.ack, w.oldest) => a = w
  BY DEF AcknowledgeProgress
<1> HIDE DEF w
<1>5. Recovery(w) /\ Epoch(w, first) /\ ~(c.congestion.cwnd < c.congestion.cwnd)
  BY <1>1 DEF Recovery, Epoch, WindowOK
<1>6. DirOK(w, r, N, fwd, back, at, first)
  BY <1>1, DirSame
<1>7. Numbers(w, first)
  BY <1>6, NumbersNow
<1>8. Epoch(a, first) /\ OneCut(w, a)
  BY <1>0, <1>1, <1>5, <1>6, EpochAck
<1> HIDE DEF a
<1>9. /\ d.oldest = a.oldest
      /\ \/ d.congestion = a.congestion
         \/ /\ Resends(a, d, "sack_fast_recovery")
            /\ s.ack = a.fast.last_ack /\ ~SequenceGreater(s.ack, a.fast.last_ack)
  BY <1>3, ScoreboardIs
<1> HIDE DEF d
<1>10. Epoch(d, first) /\ OneCut(w, d)
  <2>1. CASE d.congestion = a.congestion
    BY <1>8, <1>9, <2>1 DEF Epoch, OneCut
  <2>2. CASE /\ Resends(a, d, "sack_fast_recovery")
             /\ s.ack = a.fast.last_ack /\ ~SequenceGreater(s.ack, a.fast.last_ack)
    <3>1. ~SequenceGreater(s.ack, w.oldest)
      BY <1>3, <1>5, <2>2 DEF Recovery
    <3>2. a = w
      BY <1>4, <3>1
    <3>3. IsCongestion(w.congestion)
      BY <1>5 DEF Recovery
    <3>4. Resends(w, d, "sack_fast_recovery") /\ d.oldest = w.oldest
      BY <1>9, <2>2, <3>2
    <3> QED BY <1>5, <1>7, <3>3, <3>4, EpochLoss
  <2> QED BY <1>9, <2>1, <2>2
<1>11. OneCut(c, d)
  BY <1>1, <1>10 DEF OneCut
<1>12. OneCut(c, c) /\ OneCut(c, w)
  BY <1>1, <1>5 DEF OneCut
<1> QED BY <1>2, <1>5, <1>10, <1>11, <1>12

EpochInv == \A p \in Peers : Epoch(conn[p], InitialSequence[p])

\* Every conjunct together, as the induction needs them.
FlowInv == LocalInv /\ DataInv /\ RecoveryInv /\ EpochInv

EpochStep == EpochInv' /\ \A p \in Peers : OneCut(conn[p], conn'[p])

LEMMA PerformEpoch ==
    ASSUME FlowInv, NEW p \in Peers, NEW c, IsEndpoint(c), NEW gone, Perform(p, c, gone),
           Epoch(c, InitialSequence[p]), OneCut(conn[p], c)
    PROVE  EpochStep
<1> DEFINE e == [c EXCEPT !.out = {}]
<1>1. e.congestion = c.congestion /\ e.oldest = c.oldest
  BY DEF IsEndpoint, Fields
<1>2. conn' = [conn EXCEPT ![p] = e] /\ conn = [q \in Peers |-> conn[q]]
  BY DEF Perform, FlowInv, LocalInv
<1> HIDE DEF e
<1>3. conn'[p] = e /\ \A q \in Peers : q # p => conn'[q] = conn[q]
  BY <1>2
<1>4. Epoch(e, InitialSequence[p]) /\ OneCut(conn[p], e)
  BY <1>1 DEF Epoch, OneCut
<1>5. ASSUME NEW q \in Peers
      PROVE  Epoch(conn[q], InitialSequence[q]) /\ OneCut(conn[q], conn[q])
  <2>1. Epoch(conn[q], InitialSequence[q])
    BY DEF FlowInv, EpochInv
  <2>2. ~(conn[q].congestion.cwnd < conn[q].congestion.cwnd)
    BY <2>1 DEF Epoch, WindowOK
  <2> QED BY <2>1, <2>2 DEF OneCut
<1>6. ASSUME NEW q \in Peers
      PROVE  Epoch(conn'[q], InitialSequence[q]) /\ OneCut(conn[q], conn'[q])
  <2>1. CASE q = p
    BY <1>3, <1>4, <2>1
  <2>2. CASE q # p
    BY <1>3, <1>5, <2>2
  <2> QED BY <2>1, <2>2
<1> QED BY <1>6 DEF EpochStep, EpochInv

\* send starts no epoch and leaves the window alone.
LEMMA SendKeepsFlow ==
    ASSUME NEW c, IsEndpoint(c), NEW length, NEW data
    PROVE  LET d == Send(c, length, data)
           IN  IsEndpoint(d) /\ d.congestion = c.congestion /\ d.oldest = c.oldest
<1> DEFINE s == MakeSegment(c, {"ACK"}, length, data)
           e == [start |-> s.sequence, end |-> SeqAdd(s.sequence, s.length),
                 segment |-> s, retransmitted |-> FALSE, sacked |-> FALSE]
           d == Send(c, length, data)
<1>1. /\ IsEndpoint(d) /\ d.queue = Append(c.queue, e)
      /\ d.congestion = c.congestion /\ d.oldest = c.oldest
  BY SendIs
<1> QED BY <1>1

LEMMA EpochNext ==
    ASSUME FlowInv, [Next]_vars
    PROVE  EpochStep
<1>0. ASSUME NEW p \in Peers
      PROVE  /\ Local(conn[p]) /\ IsEndpoint(conn[p]) /\ Recovery(conn[p])
             /\ Epoch(conn[p], InitialSequence[p]) /\ Numbers(conn[p], InitialSequence[p])
  <2>1. Numbers(conn[p], InitialSequence[p])
    BY DirNow, NumbersNow DEF FlowInv
  <2> QED BY <2>1 DEF FlowInv, LocalInv, Local, RecoveryInv, EpochInv
<1>1. CASE UNCHANGED conn
  <2>1. ASSUME NEW p \in Peers PROVE OneCut(conn[p], conn[p])
    <3>1. ~(conn[p].congestion.cwnd < conn[p].congestion.cwnd)
      BY <1>0 DEF Epoch, WindowOK
    <3> QED BY <3>1 DEF OneCut
  <2> QED BY <1>0, <1>1, <2>1 DEF EpochStep, EpochInv
<1>2. ASSUME NEW p \in Peers, NEW event, Perform(p, PerformActions(Handle(conn[p], event)), {})
      PROVE  EpochStep
  <2> DEFINE c == PerformActions(Handle(conn[p], event))
  <2>1. IsEndpoint(c) /\ SameSender(conn[p], c)
    BY <1>0, LocalEvent, EventSender DEF Local
  <2>2. Perform(p, c, {})
    BY <1>2
  <2> HIDE DEF c
  <2>3. Epoch(c, InitialSequence[p]) /\ OneCut(conn[p], c)
    BY <1>0, <2>1, EpochSame
  <2> QED BY <2>1, <2>2, <2>3, PerformEpoch
<1>3. ASSUME NEW p \in Peers, AppConnect(p) \/ AppClose(p) PROVE EpochStep
  BY <1>2, <1>3 DEF AppConnect, AppClose, Connect, Close
<1>4. ASSUME NEW p \in Peers, AppSend(p) PROVE EpochStep
  <2>1. PICK length \in Lengths : /\ CanSend(conn[p], length)
                                  /\ Perform(p, Send(conn[p], length, accepted[p] + 1), {})
    BY <1>4 DEF AppSend
  <2> DEFINE c == Send(conn[p], length, accepted[p] + 1)
  <2>2. IsEndpoint(c) /\ c.congestion = conn[p].congestion /\ c.oldest = conn[p].oldest
    BY <1>0, SendKeepsFlow
  <2>3. Perform(p, c, {})
    BY <2>1
  <2> HIDE DEF c
  <2>4. ~(c.congestion.cwnd < conn[p].congestion.cwnd)
    BY <1>0, <2>2 DEF Epoch, WindowOK
  <2>5. Epoch(c, InitialSequence[p]) /\ OneCut(conn[p], c)
    BY <1>0, <2>2, <2>4 DEF Epoch, OneCut
  <2> QED BY <2>2, <2>3, <2>5, PerformEpoch
<1>5. ASSUME NEW p \in Peers, ReceiveSegment(p) PROVE EpochStep
  <2>1. PICK s \in net[p] : \E c \in {OnSegment(conn[p], s)}, gone \in {{}, {s}} :
                                Perform(p, c, gone)
    BY <1>5 DEF ReceiveSegment
  <2>2. PICK gone \in {{}, {s}} : Perform(p, OnSegment(conn[p], s), gone)
    BY <2>1
  <2> DEFINE c == OnSegment(conn[p], s)
             a == AckPart(conn[p], s)
  <2>3. IsEndpoint(c)
    BY LocalSegment DEF FlowInv, LocalInv, Step, Local
  <2>4. SameSender(a, c)
    BY <1>0, SegmentSender
  <2>5. s \in Traffic(Other(p))
    BY OtherIs DEF Traffic
  <2>6. PICK at : DirOK(conn[p], conn[Other(p)], accepted[p], Traffic(p),
                        Traffic(Other(p)), at, InitialSequence[p])
    BY DirNow DEF FlowInv
  <2>7. Epoch(a, InitialSequence[p]) /\ OneCut(conn[p], a)
    BY <1>0, <2>5, <2>6, EpochPart
  <2>8. Perform(p, c, gone)
    BY <2>2
  <2> HIDE DEF a, c
  <2>9. Epoch(c, InitialSequence[p]) /\ c.congestion = a.congestion
    BY <2>4, <2>7, EpochSame DEF SameSender
  <2>10. OneCut(conn[p], c)
    BY <2>7, <2>9 DEF OneCut
  <2> QED BY <2>3, <2>8, <2>9, <2>10, PerformEpoch
<1>6. ASSUME NEW p \in Peers, Lose(p) PROVE EpochStep
  BY <1>1, <1>6 DEF Lose
<1>7. ASSUME NEW p \in Peers, AnyTick(p) PROVE EpochStep
  <2>1. PICK t, r, o : Perform(p, Tick(conn[p], t, r, o), {})
    BY <1>7 DEF AnyTick, TimerTick
  <2> DEFINE c == Tick(conn[p], t, r, o)
  <2>2. IsEndpoint(c)
    BY LocalTick DEF FlowInv, LocalInv, Step, Local
  <2>3. Perform(p, c, {})
    BY <2>1
  <2>4. PICK b : /\ IsEndpoint(b) /\ QueueOK(b.queue) /\ SameSender(conn[p], b)
                 /\ c = RetransmitTimeout(b, o)
    BY <1>0, TickSender
  <2>5. c.oldest = b.oldest /\ (c.congestion = b.congestion \/ Resends(b, c, "rto_timeout"))
    BY <2>4, RetransmitTimeoutIs
  <2> HIDE DEF c
  <2>6. /\ Epoch(b, InitialSequence[p]) /\ Numbers(b, InitialSequence[p])
        /\ IsCongestion(b.congestion) /\ b.congestion = conn[p].congestion
        /\ b.oldest = conn[p].oldest
    BY <1>0, <2>4, EpochSame DEF SameSender, Numbers, Recovery
  <2>7. Epoch(c, InitialSequence[p]) /\ OneCut(b, c)
    <3>1. CASE c.congestion = b.congestion
      <4>1. ~(c.congestion.cwnd < b.congestion.cwnd)
        BY <2>6, <3>1 DEF Epoch, WindowOK
      <4> QED BY <2>5, <2>6, <3>1, <4>1 DEF Epoch, OneCut
    <3>2. CASE Resends(b, c, "rto_timeout")
      BY <2>5, <2>6, <3>2, EpochLoss
    <3> QED BY <2>5, <3>1, <3>2
  <2>8. OneCut(conn[p], c)
    BY <2>6, <2>7 DEF OneCut
  <2> QED BY <2>2, <2>3, <2>7, <2>8, PerformEpoch
<1> QED BY <1>1, <1>3, <1>4, <1>5, <1>6, <1>7 DEF Next, vars

LEMMA EpochInit == Init \/ InitEstablished => EpochInv
<1>1. WindowOK(NewCongestion) /\ NewCongestion.ssthresh = MaxCwnd
  <2>1. /\ NewCongestion.cwnd = AddToCwnd(0, Mss * 10) /\ NewCongestion.acked = 0
        /\ NewCongestion.ssthresh = MaxCwnd
    BY NewCongestionIs
  <2>2. Mss * 10 \in Nat /\ Mss <= Mss * 10 /\ Mss \in Nat /\ MaxCwnd \in Nat
        /\ Mss <= MaxCwnd
    BY ConnectionAssumption
  <2> QED BY <2>1, <2>2, AddToCwndIs DEF WindowOK
<1>2. ASSUME NEW p \in Peers
      PROVE  /\ NewEndpoint(p).congestion = NewCongestion
             /\ Established(p).congestion = NewCongestion
  <2> DEFINE c == NewEndpoint(p)
             w == AdvertisedWindow(NewEndpoint(Other(p)))
             f == [c.fast EXCEPT !.duplicates = 1]
             d == [c EXCEPT !.state = "established", !.fast = f, !.peer_window = w]
  <2>1. IsEndpoint(c) /\ c.congestion = NewCongestion
    BY NewConnectionIs DEF NewEndpoint
  <2>2. Established(p) = d
    BY DEF Established
  <2> HIDE DEF c, w, f
  <2>3. d.congestion = c.congestion
    BY <2>1 DEF IsEndpoint, Fields
  <2> QED BY <2>1, <2>2, <2>3 DEF c
<1>3. \A c : c.congestion = NewCongestion => \A first : Epoch(c, first)
  BY <1>1 DEF Epoch, Over
<1> QED BY <1>2, <1>3 DEF Init, InitEstablished, EpochInv

\* Window and recovery point stay consistent with the data in flight.
THEOREM FlowCorrect ==
    ASSUME WithinHalf
    PROVE  (Init \/ InitEstablished) /\ [][Next]_vars => []FlowInv
<1>1. Init \/ InitEstablished => FlowInv
  BY LocalInit, DataInit, RecoveryInit, EpochInit DEF FlowInv
<1>2. FlowInv /\ [Next]_vars => FlowInv'
  BY LocalNext, DataNext, RecoveryNext, EpochNext DEF FlowInv, EpochStep
<1> QED BY <1>1, <1>2, PTL

\* The congestion window is cut again only after an ACK has crossed the
\* recovery point of the cut before it, however the losses are signalled.
THEOREM CutsOncePerEpoch ==
    ASSUME WithinHalf
    PROVE  (Spec => OneDecreasePerEpoch) /\ (TransferSpec => OneDecreasePerEpoch)
<1>1. FlowInv /\ [Next]_vars =>
         [\A p \in Peers : LET g == conn[p].congestion IN
             conn'[p].congestion.cwnd < g.cwnd =>
                 \/ g.ssthresh = MaxCwnd
                 \/ SequenceLessEqual(g.recovery_point, conn[p].oldest)]_vars
  BY EpochNext DEF EpochStep, OneCut
<1> QED BY <1>1, FlowCorrect, PTL DEF Spec, TransferSpec, OneDecreasePerEpoch

-----------------------------------------------------------------------------
(* Types.  What is left of TypeOK beside LocalInv, DataInv and EpochInv: the *)
(* fields of segments that carry no sequence numbers, and the two tables     *)
(* that must not be over-full.                                               *)

\* low is a number of buffers that every receiver always has free: 0 for the
\* types, 1 when segments are full, and then no window is ever closed.
LowOK(low) == low \in {0, 1} /\ low * Mss <= MaxWindow

Shape(s, low) ==
    /\ s = [sequence |-> s.sequence, ack |-> s.ack, flags |-> s.flags,
            window |-> s.window, sacks |-> s.sacks, length |-> s.length,
            data |-> s.data]
    /\ s.flags \subseteq {"SYN", "ACK", "FIN", "RST"}
    /\ s.window \in (low * Mss) .. MaxWindow /\ s.window <= ReceiveCapacity * Mss
    /\ s.length \in 0 .. Mss /\ s.data \in Nat

RangesFit(ranges) == IsFiniteSet(ranges) /\ Cardinality(ranges) <= ReceiveCapacity

ShapedControl(c, low) == c.control = NoControl \/ Shape(c.control, low)

ShapedSender(c, low) ==
    /\ Len(c.queue) <= RetransmissionCapacity
    /\ \A i \in 1 .. Len(c.queue) : Shape(c.queue[i].segment, low)
    /\ c.peer_window \in (low * Mss) .. MaxWindow

ShapedReceiver(c, low) == RangesFit(c.ranges) /\ low <= c.rx_free

Shaped(c, low) ==
    /\ ShapedControl(c, low) /\ ShapedSender(c, low) /\ ShapedReceiver(c, low)
    /\ \A s \in c.out : Shape(s, low)

LEMMA TimesMss ==
    ASSUME NEW m \in Nat, NEW n \in Nat, m <= n
    PROVE  m * Mss \in Nat /\ n * Mss \in Nat /\ m * Mss <= n * Mss
<1>1. Mss \in Nat
  BY ConnectionAssumption
<1>2. PICK k \in Nat : n = m + k
  <2>1. n - m \in Nat /\ n = m + (n - m)
    OBVIOUS
  <2> QED BY <2>1
<1>3. n * Mss = m * Mss + k * Mss
  BY <1>1, <1>2
<1>4. m * Mss \in Nat /\ n * Mss \in Nat /\ k * Mss \in Nat
  BY <1>1, <1>2
<1> QED BY <1>3, <1>4

\* A window that an endpoint advertises fits its field, and is neither more
\* than all nor less than the free buffers hold.
LEMMA WindowFits ==
    ASSUME NEW low, LowOK(low), NEW c, c.rx_free \in 0 .. ReceiveCapacity, low <= c.rx_free
    PROVE  /\ AdvertisedWindow(c) \in (low * Mss) .. MaxWindow
           /\ AdvertisedWindow(c) <= ReceiveCapacity * Mss
<1> DEFINE a == c.rx_free * Mss
           b == low * Mss
           t == ReceiveCapacity * Mss
           S == {a, MaxWindow}
<1>1. MaxWindow \in Nat /\ ReceiveCapacity \in Nat /\ low \in Nat /\ c.rx_free \in Nat
  BY ConnectionAssumption DEF LowOK
<1>2. a \in Nat /\ b \in Nat /\ t \in Nat /\ b <= a /\ a <= t
  BY <1>1, TimesMss
<1>3. S \subseteq Nat /\ S # {}
  BY <1>1, <1>2
<1>4. Min(S) \in S /\ \A y \in S : Min(S) <= y
  <2> HIDE DEF S
  <2> QED BY <1>3, LeastIs
<1>5. AdvertisedWindow(c) = Min(S)
  BY DEF AdvertisedWindow
<1> DEFINE m == Min(S)
<1>6. m \in {a, MaxWindow} /\ m <= MaxWindow /\ m <= a
  BY <1>4
<1>7. b <= MaxWindow
  BY DEF LowOK
<1> HIDE DEF a, b, t, m
<1>8. m \in b .. MaxWindow /\ m <= t
  BY <1>1, <1>2, <1>6, <1>7
<1> QED BY <1>5, <1>8 DEF m, b, t

\* Every segment is made by make_header.
LEMMA MadeShape ==
    ASSUME NEW low, LowOK(low), NEW c, Local(c), low <= c.rx_free,
           NEW flags \in SUBSET {"SYN", "ACK", "FIN", "RST"},
           NEW length \in 0 .. Mss, NEW data \in Nat
    PROVE  Shape(MakeSegment(c, flags, length, data), low)
<1> DEFINE s == MakeSegment(c, flags, length, data)
<1>1. /\ s.sequence = c.next_send /\ s.ack = c.ack /\ s.flags = flags
      /\ s.window = AdvertisedWindow(c) /\ s.sacks = GenerateSacks(c.ranges, c.ack)
      /\ s.length = length /\ s.data = data
  BY MakeSegmentIs
<1>2. s.window \in (low * Mss) .. MaxWindow /\ s.window <= ReceiveCapacity * Mss
  <2>1. c.rx_free \in 0 .. ReceiveCapacity
    <3>1. /\ c.rx_free \in Nat /\ Cardinality(c.slots) \in Nat /\ ReceiveCapacity \in Nat
          /\ c.rx_free + Cardinality(c.slots) = ReceiveCapacity
      BY ConnectionAssumption DEF Local
    <3> QED BY <3>1
  <2> QED BY <1>1, <2>1, WindowFits
<1>3. s = [sequence |-> c.next_send, ack |-> c.ack, flags |-> flags,
           window |-> AdvertisedWindow(c), sacks |-> GenerateSacks(c.ranges, c.ack),
           length |-> length, data |-> data]
  BY DEF MakeSegment
<1> HIDE DEF s
<1> QED BY <1>1, <1>2, <1>3 DEF Shape, s

LEMMA ControlShape ==
    ASSUME NEW low, LowOK(low), NEW c, Local(c), low <= c.rx_free,
           NEW flags \in SUBSET {"SYN", "ACK", "FIN", "RST"}
    PROVE  Shape(MakeSegment(c, flags, 0, 0), low)
<1>1. 0 \in 0 .. Mss
  BY ConnectionAssumption
<1> QED BY <1>1, MadeShape

\* c after send_control.
LEMMA ShapedSendControl ==
    ASSUME NEW low, LowOK(low), NEW c, Local(c), Shaped(c, low), NEW remember,
           NEW flags \in SUBSET {"SYN", "ACK", "FIN", "RST"}
    PROVE  Shaped(SendControl(c, flags, remember), low)
<1> DEFINE s == MakeSegment(c, flags, 0, 0)
           d == TransmitControl(c, s, remember)
<1>1. SendControl(c, flags, remember) = d
  BY DEF SendControl
<1>2. Shape(s, low) /\ IsEndpoint(c)
  BY ControlShape DEF Local, Shaped, ShapedReceiver
<1> HIDE DEF s
<1>3. /\ SameSender(c, d) /\ SameReceiver(c, d)
      /\ d.control = (IF remember THEN s ELSE c.control)
      /\ d.out = c.out \cup {s}
  BY <1>2, TransmitControlIs
<1> HIDE DEF d
<1>4. ShapedControl(d, low)
  BY <1>2, <1>3 DEF Shaped, ShapedControl
<1>5. ShapedSender(d, low) /\ ShapedReceiver(d, low)
  BY <1>3 DEF Shaped, ShapedSender, ShapedReceiver, SameSender, SameReceiver
<1>6. \A x \in d.out : Shape(x, low)
  BY <1>2, <1>3 DEF Shaped
<1> QED BY <1>1, <1>4, <1>5, <1>6 DEF Shaped

LEMMA ShapedEvent ==
    ASSUME NEW low, LowOK(low), NEW c, Local(c), Shaped(c, low), NEW event
    PROVE  Shaped(PerformActions(Handle(c, event)), low)
<1> DEFINE t == Handle(c, event)
           e == t.c
           flags == ActionFlags(t.actions)
           s == MakeSegment(e, flags, 0, 0)
           d == PerformActions(t)
<1>0. IsEndpoint(c)
  BY DEF Local
<1>1. /\ IsEndpoint(e) /\ SameSender(c, e) /\ SameReceiver(c, e)
      /\ e.control = c.control /\ e.out = c.out
  BY <1>0, HandleIs
<1>2. flags \in SUBSET {"SYN", "ACK", "FIN", "RST"}
  BY ActionFlagsAre
<1> HIDE DEF t
<1>3. /\ SameSender(e, d) /\ SameReceiver(e, d)
      /\ d.out = (IF flags = {} THEN e.out ELSE e.out \cup {s})
      /\ d.control \in {NoControl, s, e.control}
  <2>1. /\ SameSender(t.c, d) /\ SameReceiver(t.c, d)
        /\ d.out = IF flags = {} THEN t.c.out ELSE t.c.out \cup {s}
        /\ d.control =
              IF t.actions \cap {"notify_connected", "notify_closed"} # {}
              THEN NoControl
              ELSE IF flags \cap {"SYN", "FIN"} # {} THEN s ELSE t.c.control
    BY <1>1, PerformActionsIs
  <2> QED BY <2>1
<1> HIDE DEF e, flags, d
<1>4. MakeSegment(e, flags, 0, 0) = MakeSegment(c, flags, 0, 0)
  BY <1>1 DEF MakeSegment, AdvertisedWindow, SameSender, SameReceiver
<1>5. Shape(s, low)
  BY <1>2, <1>4, ControlShape DEF Shaped, ShapedReceiver
<1> HIDE DEF s
<1>6. ShapedControl(d, low)
  BY <1>1, <1>3, <1>5 DEF Shaped, ShapedControl
<1>7. ShapedSender(d, low) /\ ShapedReceiver(d, low)
  BY <1>1, <1>3 DEF Shaped, ShapedSender, ShapedReceiver, SameSender, SameReceiver
<1>8. \A x \in d.out : Shape(x, low)
  BY <1>1, <1>3, <1>5 DEF Shaped
<1>9. Shaped(d, low)
  BY <1>6, <1>7, <1>8 DEF Shaped
<1> QED BY <1>9 DEF d, t

LEMMA ShapedProcessControl ==
    ASSUME NEW low, LowOK(low), NEW c, Local(c), Shaped(c, low), NEW flags
    PROVE  Shaped(ProcessControl(c, flags), low)
<1> DEFINE event == ControlEvent(c, flags)
           d == OnControlEvent(c, event)
<1> HIDE DEF event
<1> SUFFICES Shaped(d, low)
  BY DEF ProcessControl, event
<1>1. CASE event = "none"
  BY <1>1 DEF OnControlEvent
<1>2. CASE event # "none" /\ event = "receive_syn" /\ c.state = "syn_received"
  <2>1. d = SendControl(c, {"SYN", "ACK"}, TRUE)
    BY <1>2 DEF OnControlEvent
  <2>2. {"SYN", "ACK"} \in SUBSET {"SYN", "ACK", "FIN", "RST"}
    OBVIOUS
  <2> QED BY <2>1, <2>2, ShapedSendControl
<1>3. CASE event # "none" /\ ~(event = "receive_syn" /\ c.state = "syn_received")
  BY <1>3, ShapedEvent DEF OnControlEvent
<1> QED BY <1>1, <1>2, <1>3

\* Acknowledging and marking leave the segments of the queue as they are.
LEMMA ShapedAck ==
    ASSUME NEW low, LowOK(low), NEW c, Local(c), Shaped(c, low), NEW s, Shape(s, low)
    PROVE  Shaped(AckPart(c, s), low)
<1> DEFINE w == [c EXCEPT !.peer_window = s.window]
           a == AcknowledgeProgress(w, s.ack)
           d == Scoreboard(a, s)
<1>0. IsEndpoint(c) /\ QueueOK(c.queue) /\ c.tx_free \in Int /\ Len(c.queue) \in Nat
  BY DEF Local, QueueOK, IsSequence
<1>1. /\ IsEndpoint(w) /\ w.control = c.control /\ w.ranges = c.ranges
      /\ w.queue = c.queue /\ w.tx_free = c.tx_free /\ w.out = c.out
      /\ w.rx_free = c.rx_free /\ w.peer_window = s.window
  BY <1>0 DEF IsEndpoint, Fields
<1> HIDE DEF w
<1>2. Shaped(w, low)
  BY <1>1 DEF Shaped, ShapedControl, ShapedSender, ShapedReceiver, Shape
<1>3. Shaped(d, low)
  <2> DEFINE k == IF SequenceGreater(s.ack, w.oldest)
                  THEN AckedPrefix(w.queue, s.ack) ELSE 0
  <2>1. /\ k \in 0 .. Len(w.queue)
        /\ IsEndpoint(a) /\ SameMachine(w, a) /\ SameReceiver(w, a)
        /\ a.peer_window = w.peer_window /\ a.out = w.out
        /\ QueueOK(a.queue) /\ Len(a.queue) = Len(w.queue) - k
        /\ \A i \in 1 .. Len(a.queue) :
              k + i \in 1 .. Len(w.queue) /\ a.queue[i] = w.queue[k + i]
    <3>1. IsEndpoint(w) /\ QueueOK(w.queue) /\ w.tx_free \in Int
      BY <1>0, <1>1
    <3> QED BY <3>1, AcknowledgeProgressIs
  <2> HIDE DEF a, k
  <2>2. /\ SameMachine(a, d) /\ SameReceiver(a, d) /\ d.peer_window = a.peer_window
        /\ Len(d.queue) = Len(a.queue)
        /\ \A i \in 1 .. Len(a.queue) : SameEntry(a.queue[i], d.queue[i])
    BY <2>1, ScoreboardIs
  <2>3. \/ d.out = a.out
        \/ \E i \in 1 .. Len(a.queue) : d.out = a.out \cup {a.queue[i].segment}
    <3>1. d.out = a.out \/ Resends(a, d, "sack_fast_recovery")
      BY <2>1, ScoreboardIs
    <3> QED BY <3>1 DEF Resends
  <2> HIDE DEF d
  <2>4. \A i \in 1 .. Len(a.queue) : Shape(a.queue[i].segment, low)
    BY <1>2, <2>1 DEF Shaped, ShapedSender
  <2>5. Len(d.queue) <= RetransmissionCapacity
    <3>1. Len(w.queue) \in Nat /\ Len(w.queue) <= RetransmissionCapacity
      BY <1>0, <1>1, <1>2 DEF Shaped, ShapedSender
    <3>2. RetransmissionCapacity \in Nat
      BY ConnectionAssumption
    <3> QED BY <2>1, <2>2, <3>1, <3>2
  <2>6. ShapedSender(d, low)
    BY <1>2, <2>1, <2>2, <2>4, <2>5 DEF Shaped, ShapedSender, SameEntry
  <2>7. \A x \in d.out : Shape(x, low)
    BY <1>2, <2>1, <2>3, <2>4 DEF Shaped
  <2>8. ShapedControl(d, low) /\ ShapedReceiver(d, low)
    BY <1>2, <2>1, <2>2 DEF Shaped, ShapedControl, ShapedReceiver, SameMachine, SameReceiver
  <2> QED BY <2>6, <2>7, <2>8 DEF Shaped
<1>4. AckPart(c, s) \in {c, w, d}
  BY DEF AckPart, ProcessAck, w
<1> HIDE DEF d
<1> QED BY <1>2, <1>3, <1>4

\* insert puts at most one range into the set, and when the set is full only
\* in exchange for those it touches.
LEMMA InsertFits ==
    ASSUME NEW ranges, RangesFit(ranges), NEW ack, NEW begin, NEW end
    PROVE  RangesFit(InsertRange(ranges, ack, begin, end).ranges)
<1> DEFINE start == IF SequenceLess(begin, ack) THEN ack ELSE begin
           touching == Touching(ranges, start, end)
           reached == AdvanceContiguous(ranges, end)
           kept == {r \in ranges : SequenceLess(reached, r.start)}
           merged == Merge(ack, touching, start, end)
           rest == ranges \ touching
           ins == InsertRange(ranges, ack, begin, end)
<1>1. \/ ins.ranges = ranges
      \/ ins.ranges = kept
      \/ /\ ~(touching = {} /\ Cardinality(ranges) = ReceiveCapacity)
         /\ ins.ranges = rest \cup {merged}
  BY DEF InsertRange
<1>2. touching \subseteq ranges /\ kept \subseteq ranges
  BY DEF Touching
<1> HIDE DEF touching, kept, merged, ins, start, reached
<1>3. Cardinality(ranges) \in Nat /\ ReceiveCapacity \in Nat
  BY FS_CardinalityType, ConnectionAssumption DEF RangesFit
<1>4. ASSUME NEW T \in SUBSET ranges
      PROVE  /\ IsFiniteSet(T) /\ Cardinality(T) \in Nat
             /\ Cardinality(T) <= Cardinality(ranges)
             /\ T # ranges => Cardinality(T) < Cardinality(ranges)
  BY FS_Subset, FS_CardinalityType DEF RangesFit
<1>5. ASSUME ~(touching = {} /\ Cardinality(ranges) = ReceiveCapacity)
      PROVE  RangesFit(rest \cup {merged})
  <2>1. /\ rest \in SUBSET ranges /\ IsFiniteSet(rest) /\ Cardinality(rest) \in Nat
        /\ Cardinality(rest) <= Cardinality(ranges)
        /\ rest # ranges => Cardinality(rest) < Cardinality(ranges)
    BY <1>4
  <2>2. touching # {} => rest # ranges
    BY <1>2
  <2>3. Cardinality(rest) < ReceiveCapacity
    BY <1>3, <1>5, <2>1, <2>2 DEF RangesFit
  <2> DEFINE m == merged
  <2> HIDE DEF rest, m
  <2>4. /\ IsFiniteSet(rest \cup {m})
        /\ Cardinality(rest \cup {m}) \in {Cardinality(rest), Cardinality(rest) + 1}
    BY <2>1, FS_AddElement
  <2>5. IsFiniteSet(rest \cup {merged}) /\ Cardinality(rest \cup {merged}) <= ReceiveCapacity
    BY <1>3, <2>1, <2>3, <2>4 DEF m
  <2> QED BY <2>5 DEF RangesFit
<1>6. RangesFit(kept)
  BY <1>2, <1>3, <1>4 DEF RangesFit
<1> HIDE DEF rest
<1>7. RangesFit(ins.ranges)
  BY <1>1, <1>5, <1>6
<1> QED BY <1>7 DEF ins

\* Storing a payload and handing payloads over.
LEMMA ShapedPayload ==
    ASSUME NEW low, LowOK(low), NEW c, Local(c), Shaped(c, low), NEW s, WireOK(s),
           low <= PayloadPart(c, s).rx_free
    PROVE  Shaped(PayloadPart(c, s), low)
<1> DEFINE end == SeqAdd(s.sequence, s.length)
           ins == InsertRange(c.ranges, c.ack, s.sequence, end)
           e == Stored(c, s, ins)
           r == ReceivePayload(c, s, end)
<1>0. IsEndpoint(c)
  BY DEF Local
<1>1. /\ SameMachine(c, r) /\ SameSender(c, r) /\ r.out = c.out
      /\ r.ranges = c.ranges \/ r = DeliverContiguous(e)
  BY <1>0, ReceivePayloadIs
<1>2. Local(r)
  BY LocalReceive
<1>3. IsEndpoint(e) /\ e.ranges = ins.ranges
  BY <1>0, StoredIs
<1>4. RangesFit(ins.ranges)
  BY InsertFits DEF Shaped, ShapedReceiver
<1> HIDE DEF ins, e
<1>5. DeliverContiguous(e).ranges = e.ranges
  BY <1>3, HandOverIs DEF DeliverContiguous
<1> HIDE DEF r
<1>6. RangesFit(r.ranges)
  BY <1>1, <1>3, <1>4, <1>5 DEF Shaped, ShapedReceiver
<1> DEFINE x == SendControl(r, {"ACK"}, FALSE)
<1>7. CASE PayloadPart(c, s) = x
  <2>1. x.rx_free = r.rx_free
    <3> DEFINE m == MakeSegment(r, {"ACK"}, 0, 0)
               y == TransmitControl(r, m, FALSE)
    <3>1. x = y
      BY DEF SendControl
    <3>2. IsEndpoint(r)
      BY <1>2 DEF Local
    <3> HIDE DEF m
    <3>3. SameReceiver(r, y)
      BY <3>2, TransmitControlIs
    <3> HIDE DEF x, y
    <3> QED BY <3>1, <3>3 DEF SameReceiver
  <2>2. low <= r.rx_free
    BY <1>7, <2>1
  <2>3. Shaped(r, low)
    BY <1>1, <1>6, <2>2
       DEF Shaped, ShapedControl, ShapedSender, ShapedReceiver, SameMachine, SameSender
  <2>4. {"ACK"} \in SUBSET {"SYN", "ACK", "FIN", "RST"}
    OBVIOUS
  <2>5. Shaped(x, low)
    BY <1>2, <2>3, <2>4, ShapedSendControl
  <2> QED BY <1>7, <2>5
<1>8. PayloadPart(c, s) \in {c, x}
  BY DEF PayloadPart, ProcessPayload, r
<1> QED BY <1>7, <1>8

LEMMA ShapedSegment ==
    ASSUME NEW low, LowOK(low), NEW c, Local(c), Shaped(c, low), NEW s, Shape(s, low),
           WireOK(s), low <= OnSegment(c, s).rx_free
    PROVE  Shaped(OnSegment(c, s), low)
<1> DEFINE a == AckPart(c, s)
           d == ProcessControl(a, s.flags)
<1>1. Local(a) /\ Shaped(a, low)
  BY LocalAck, ShapedAck
<1> HIDE DEF a
<1>2. Local(d) /\ Shaped(d, low)
  BY <1>1, LocalProcessControl, ShapedProcessControl
<1>3. OnSegment(c, s) = PayloadPart(d, s)
  BY DEF OnSegment, a
<1> HIDE DEF d
<1>4. low <= PayloadPart(d, s).rx_free
  BY <1>3
<1>5. Shaped(PayloadPart(d, s), low)
  BY <1>2, <1>4, ShapedPayload
<1> QED BY <1>3, <1>5

LEMMA ShapedTick ==
    ASSUME NEW low, LowOK(low), NEW c, Local(c), Shaped(c, low), NEW t, NEW r, NEW o
    PROVE  Shaped(Tick(c, t, r, o), low)
<1> DEFINE a == ExpireTimeWait(c, t)
           b == RepeatControl(a, r)
           d == RetransmitTimeout(b, o)
<1>1. Local(a) /\ Shaped(a, low)
  <2>1. CASE c.state = "time_wait" /\ t
    BY <2>1, LocalEvent, ShapedEvent DEF ExpireTimeWait
  <2>2. CASE ~(c.state = "time_wait" /\ t)
    BY <2>2 DEF ExpireTimeWait
  <2> QED BY <2>1, <2>2
<1> HIDE DEF a
<1>2. IsEndpoint(b) /\ QueueOK(b.queue) /\ Shaped(b, low)
  <2>0. IsEndpoint(a) /\ QueueOK(a.queue)
    BY <1>1 DEF Local
  <2>1. CASE a.control # NoControl /\ r
    <3>1. b = Transmit(a, a.control)
      BY <2>1 DEF RepeatControl
    <3> HIDE DEF b
    <3>2. /\ IsEndpoint(b) /\ b.control = a.control /\ b.out = a.out \cup {a.control}
          /\ b.queue = a.queue /\ b.peer_window = a.peer_window
          /\ b.ranges = a.ranges /\ b.rx_free = a.rx_free
      BY <2>0, <3>1 DEF Transmit, IsEndpoint, Fields
    <3>3. Shape(a.control, low)
      BY <1>1, <2>1 DEF Shaped, ShapedControl
    <3> QED BY <1>1, <2>0, <3>2, <3>3
            DEF Shaped, ShapedControl, ShapedSender, ShapedReceiver
  <2>2. CASE ~(a.control # NoControl /\ r)
    BY <1>1, <2>0, <2>2 DEF RepeatControl
  <2> QED BY <2>1, <2>2
<1> HIDE DEF b
<1>3. /\ SameMachine(b, d) /\ SameReceiver(b, d) /\ d.peer_window = b.peer_window
      /\ Len(d.queue) = Len(b.queue)
      /\ \A i \in 1 .. Len(b.queue) : SameEntry(b.queue[i], d.queue[i])
  BY <1>2, RetransmitTimeoutIs
<1>4. d.out = b.out \/ \E i \in 1 .. Len(b.queue) : d.out = b.out \cup {b.queue[i].segment}
  <2>1. d.out = b.out \/ Resends(b, d, "rto_timeout")
    BY <1>2, RetransmitTimeoutIs
  <2> QED BY <2>1 DEF Resends
<1> HIDE DEF d
<1>5. ShapedSender(d, low)
  BY <1>2, <1>3 DEF Shaped, ShapedSender, SameEntry
<1>6. ShapedControl(d, low) /\ ShapedReceiver(d, low)
  BY <1>2, <1>3 DEF Shaped, ShapedControl, ShapedReceiver, SameMachine, SameReceiver
<1>7. \A x \in d.out : Shape(x, low)
  BY <1>2, <1>4 DEF Shaped, ShapedSender
<1>8. Shaped(d, low)
  BY <1>5, <1>6, <1>7 DEF Shaped
<1> QED BY <1>8 DEF Tick, a, b, d

LEMMA ShapedSend ==
    ASSUME NEW low, LowOK(low), NEW c, Local(c), Shaped(c, low), NEW length,
           CanSend(c, length), NEW data \in Nat
    PROVE  Shaped(Send(c, length, data), low)
<1> DEFINE s == MakeSegment(c, {"ACK"}, length, data)
           e == [start |-> s.sequence, end |-> SeqAdd(s.sequence, s.length),
                 segment |-> s, retransmitted |-> FALSE, sacked |-> FALSE]
           d == Send(c, length, data)
<1>0. IsEndpoint(c) /\ QueueOK(c.queue)
  BY DEF Local
<1>1. /\ SameMachine(c, d) /\ SameReceiver(c, d) /\ d.queue = Append(c.queue, e)
      /\ d.peer_window = c.peer_window /\ d.out = c.out \cup {s}
  BY <1>0, SendIs
<1>2. Shape(s, low)
  <2>1. length \in 0 .. Mss
    BY ConnectionAssumption DEF CanSend
  <2> QED BY <2>1, MadeShape DEF Shaped, ShapedReceiver
<1>3. e.segment = s
  OBVIOUS
<1> HIDE DEF d, e, s
<1>4. /\ Len(d.queue) = Len(c.queue) + 1 /\ Len(c.queue) \in Nat
      /\ \A i \in 1 .. Len(d.queue) :
            (i \in 1 .. Len(c.queue) /\ d.queue[i] = c.queue[i]) \/ d.queue[i] = e
  <2>1. c.queue \in Seq(Range(c.queue) \cup {e}) /\ Len(c.queue) \in Nat
    BY <1>0 DEF QueueOK, IsSequence
  <2> QED BY <1>1, <2>1
<1>5. Len(d.queue) <= RetransmissionCapacity
  <2>1. Len(c.queue) < RetransmissionCapacity
    BY DEF CanSend, CanEnqueue
  <2>2. RetransmissionCapacity \in Nat
    BY ConnectionAssumption
  <2> QED BY <1>4, <2>1, <2>2
<1>6. \A i \in 1 .. Len(d.queue) : Shape(d.queue[i].segment, low)
  BY <1>2, <1>3, <1>4 DEF Shaped, ShapedSender
<1>7. ShapedSender(d, low)
  BY <1>1, <1>5, <1>6 DEF Shaped, ShapedSender
<1>8. ShapedControl(d, low) /\ ShapedReceiver(d, low)
  BY <1>1 DEF Shaped, ShapedControl, ShapedReceiver, SameMachine, SameReceiver
<1>9. \A x \in d.out : Shape(x, low)
  BY <1>1, <1>2 DEF Shaped
<1>10. Shaped(d, low)
  BY <1>7, <1>8, <1>9 DEF Shaped
<1> QED BY <1>10 DEF d

-----------------------------------------------------------------------------
(* The types of the whole system. *)

ShapeInv(low) ==
    \A p \in Peers : Shaped(conn[p], low) /\ \A s \in net[p] : Shape(s, low)

LEMMA PerformShape ==
    ASSUME NEW low, LocalInv, ShapeInv(low), NEW p \in Peers, NEW c, IsEndpoint(c),
           Shaped(c, low), NEW gone, Perform(p, c, gone)
    PROVE  ShapeInv(low)'
<1> DEFINE e == [c EXCEPT !.out = {}]
<1>1. /\ e.control = c.control /\ e.queue = c.queue /\ e.peer_window = c.peer_window
      /\ e.ranges = c.ranges /\ e.rx_free = c.rx_free /\ e.out = {}
  BY DEF IsEndpoint, Fields
<1>2. /\ conn' = [conn EXCEPT ![p] = e]
      /\ net' = [net EXCEPT ![p] = @ \ gone, ![Other(p)] = Carry(@, c.out)]
  BY DEF Perform
<1> HIDE DEF e
<1>3. Shaped(e, low)
  BY <1>1 DEF Shaped, ShapedControl, ShapedSender, ShapedReceiver
<1>4. conn'[p] = e /\ \A q \in Peers : q # p => conn'[q] = conn[q]
  BY <1>2 DEF LocalInv
<1>5. Other(p) \in Peers /\ Other(p) # p /\ \A q \in Peers : q = p \/ q = Other(p)
  BY OtherIs
<1>6. net'[p] = net[p] \ gone /\ net'[Other(p)] = Carry(net[Other(p)], c.out)
  BY <1>2, <1>5 DEF LocalInv
<1>7. \A s \in Carry(net[Other(p)], c.out) : s \in net[Other(p)] \/ s \in c.out
  BY DEF Carry
<1>8. ASSUME NEW q \in Peers PROVE \A s \in net'[q] : Shape(s, low)
  <2>1. CASE q = p
    BY <1>6, <2>1 DEF ShapeInv
  <2>2. CASE q = Other(p)
    BY <1>5, <1>6, <1>7, <2>2 DEF ShapeInv, Shaped
  <2> QED BY <1>5, <2>1, <2>2
<1>9. ASSUME NEW q \in Peers PROVE Shaped(conn'[q], low)
  BY <1>3, <1>4 DEF ShapeInv
<1> QED BY <1>8, <1>9 DEF ShapeInv

LEMMA ShapeNext ==
    ASSUME NEW low, LowOK(low), LocalInv, accepted \in [Peers -> Nat], ShapeInv(low),
           [Next]_vars, \A p \in Peers : low <= conn'[p].rx_free
    PROVE  ShapeInv(low)'
<1>0. ASSUME NEW p \in Peers PROVE Local(conn[p]) /\ Shaped(conn[p], low)
  BY DEF LocalInv, ShapeInv
<1>1. CASE UNCHANGED vars
  BY <1>1 DEF vars, ShapeInv
<1>2. ASSUME NEW p \in Peers, NEW event, Perform(p, PerformActions(Handle(conn[p], event)), {})
      PROVE  ShapeInv(low)'
  <2> DEFINE c == PerformActions(Handle(conn[p], event))
  <2>1. IsEndpoint(c) /\ Shaped(c, low)
    BY <1>0, LocalEvent, ShapedEvent DEF Local
  <2>2. Perform(p, c, {})
    BY <1>2
  <2> HIDE DEF c
  <2> QED BY <2>1, <2>2, PerformShape
<1>3. ASSUME NEW p \in Peers, AppConnect(p) \/ AppClose(p) PROVE ShapeInv(low)'
  BY <1>2, <1>3 DEF AppConnect, AppClose, Connect, Close
<1>4. ASSUME NEW p \in Peers, AppSend(p) PROVE ShapeInv(low)'
  <2>1. PICK length \in Lengths : /\ CanSend(conn[p], length)
                                  /\ Perform(p, Send(conn[p], length, accepted[p] + 1), {})
    BY <1>4 DEF AppSend
  <2>2. length \in Nat /\ accepted[p] + 1 \in Nat
    BY TransportAssumption, ConnectionAssumption
  <2> DEFINE c == Send(conn[p], length, accepted[p] + 1)
  <2>3. IsEndpoint(c)
    BY <1>0, <2>1, <2>2, LocalSend DEF Step, Local
  <2>4. Shaped(c, low)
    BY <1>0, <2>1, <2>2, ShapedSend
  <2>5. Perform(p, c, {})
    BY <2>1
  <2> HIDE DEF c
  <2> QED BY <2>3, <2>4, <2>5, PerformShape
<1>5. ASSUME NEW p \in Peers, ReceiveSegment(p) PROVE ShapeInv(low)'
  <2>1. PICK s \in net[p] : \E c \in {OnSegment(conn[p], s)}, gone \in {{}, {s}} :
                                Perform(p, c, gone)
    BY <1>5 DEF ReceiveSegment
  <2>2. PICK gone \in {{}, {s}} : Perform(p, OnSegment(conn[p], s), gone)
    BY <2>1
  <2> DEFINE c == OnSegment(conn[p], s)
  <2>3. WireOK(s) /\ Shape(s, low)
    BY DEF LocalInv, ShapeInv
  <2>4. IsEndpoint(c)
    BY <1>0, <2>3, LocalSegment DEF Step, Local
  <2>5. Shaped(c, low)
    <3>1. conn'[p] = [c EXCEPT !.out = {}]
      BY <2>2 DEF Perform, LocalInv
    <3>2. [c EXCEPT !.out = {}].rx_free = c.rx_free
      BY <2>4 DEF IsEndpoint, Fields
    <3>3. low <= OnSegment(conn[p], s).rx_free
      BY <3>1, <3>2
    <3> QED BY <1>0, <2>3, <3>3, ShapedSegment
  <2>6. Perform(p, c, gone)
    BY <2>2
  <2> HIDE DEF c
  <2> QED BY <2>4, <2>5, <2>6, PerformShape
<1>6. ASSUME NEW p \in Peers, Lose(p) PROVE ShapeInv(low)'
  <2>1. PICK s \in net[p] : net' = [net EXCEPT ![p] = @ \ {s}]
    BY <1>6 DEF Lose
  <2>2. conn' = conn /\ \A q \in Peers : net'[q] \subseteq net[q]
    BY <1>6, <2>1 DEF Lose, LocalInv
  <2> QED BY <2>2 DEF ShapeInv
<1>7. ASSUME NEW p \in Peers, AnyTick(p) PROVE ShapeInv(low)'
  <2>1. PICK t, r, o : Perform(p, Tick(conn[p], t, r, o), {})
    BY <1>7 DEF AnyTick, TimerTick
  <2> DEFINE c == Tick(conn[p], t, r, o)
  <2>2. IsEndpoint(c)
    BY <1>0, LocalTick DEF Step, Local
  <2>3. Shaped(c, low)
    BY <1>0, ShapedTick
  <2>4. Perform(p, c, {})
    BY <2>1
  <2> HIDE DEF c
  <2> QED BY <2>2, <2>3, <2>4, PerformShape
<1> QED BY <1>1, <1>3, <1>4, <1>5, <1>6, <1>7 DEF Next

LEMMA ShapeInit ==
    ASSUME NEW low, LowOK(low), Init \/ InitEstablished
    PROVE  ShapeInv(low)
<1>0. MaxWindow \in Nat /\ ReceiveCapacity \in Nat /\ RetransmissionCapacity \in Nat
  BY ConnectionAssumption
<1>1. RangesFit({}) /\ Len(<<>>) = 0
  BY <1>0, FS_EmptySet DEF RangesFit
<1>a. low <= ReceiveCapacity /\ low * Mss \in Nat /\ low * Mss <= MaxWindow
  <2>1. ReceiveCapacity # 0 /\ low \in Nat /\ low <= 1
    BY ConnectionAssumption DEF LowOK
  <2> QED BY <1>0, <2>1, TimesMss DEF LowOK
<1>2. ASSUME NEW c, c.control = NoControl, c.queue = <<>>, c.ranges = {}, c.out = {},
             c.peer_window \in (low * Mss) .. MaxWindow, c.rx_free = ReceiveCapacity
      PROVE  Shaped(c, low)
  BY <1>0, <1>1, <1>a, <1>2 DEF Shaped, ShapedControl, ShapedSender, ShapedReceiver
<1>3. ASSUME NEW p \in Peers
      PROVE  Shaped(NewEndpoint(p), low) /\ Shaped(Established(p), low)
  <2> DEFINE c == NewEndpoint(p)
             n == NewEndpoint(Other(p))
             w == AdvertisedWindow(n)
             f == [c.fast EXCEPT !.duplicates = 1]
             d == [c EXCEPT !.state = "established", !.fast = f, !.peer_window = w]
  <2>1. /\ IsEndpoint(c) /\ c.control = NoControl /\ c.queue = <<>> /\ c.ranges = {}
        /\ c.out = {} /\ c.peer_window = MaxWindow /\ c.rx_free = ReceiveCapacity
    BY NewConnectionIs DEF NewEndpoint
  <2>2. n.rx_free = ReceiveCapacity
    BY NewConnectionIs DEF NewEndpoint
  <2>3. Established(p) = d
    BY DEF Established
  <2> HIDE DEF c, n, f
  <2>4. w \in (low * Mss) .. MaxWindow
    BY <1>0, <1>a, <2>2, WindowFits
  <2> HIDE DEF w
  <2>5. /\ d.control = c.control /\ d.queue = c.queue /\ d.ranges = c.ranges
        /\ d.out = c.out /\ d.peer_window = w /\ d.rx_free = c.rx_free
    BY <2>1 DEF IsEndpoint, Fields
  <2> HIDE DEF d
  <2>6. Shaped(c, low)
    BY <1>0, <1>a, <1>2, <2>1
  <2>7. Shaped(d, low)
    BY <1>2, <2>1, <2>4, <2>5
  <2> QED BY <2>3, <2>6, <2>7 DEF c
<1> QED BY <1>3 DEF Init, InitEstablished, ShapeInv

\* The numbers a direction puts on the ruler are sequence numbers.
LEMMA DirTypes ==
    ASSUME NEW c, NEW r, NEW N, NEW fwd, NEW back, NEW at, NEW first,
           DirOK(c, r, N, fwd, back, at, first)
    PROVE  /\ c.oldest \in SeqNum /\ r.ack \in SeqNum /\ r.delivery \in SeqNum
           /\ r.ranges \subseteq Block
           /\ \A s \in back : s.ack \in SeqNum /\ s.sacks \subseteq Block
<1>1. N \in Nat /\ at \in [0 .. N -> SeqNum]
  BY DEF DirOK, Scale
<1>2. ASSUME NEW i \in 0 .. N, NEW j \in 0 .. N PROVE Stretch(at, i, j) \in Block
  BY <1>1 DEF Stretch, Block
<1>3. First(c, N) \in 0 .. N /\ Done(r) \in 0 .. N
  <2>1. Len(c.queue) \in 0 .. N /\ Done(r) \in 0 .. N
    BY DEF DirOK, SenderOK, ReceiverOK
  <2> QED BY <1>1, <2>1 DEF First
<1>4. c.oldest \in SeqNum
  BY <1>1, <1>3 DEF DirOK, SenderOK
<1>5. r.ack \in SeqNum /\ r.delivery \in SeqNum
  BY <1>1, <1>3 DEF DirOK, ReceiverOK
<1>6. ASSUME NEW g \in r.ranges PROVE g \in Block
  <2>1. PICK i, j \in (Done(r) + 1) .. N : g = Stretch(at, i, j)
    BY DEF DirOK, ReceiverOK, RangesOK
  <2>2. i \in 0 .. N /\ j \in 0 .. N
    BY <1>1, <1>3
  <2> QED BY <1>2, <2>1, <2>2
<1>7. ASSUME NEW s \in back PROVE s.ack \in SeqNum /\ s.sacks \subseteq Block
  <2>1. BackOK(s, r, at, N)
    BY DEF DirOK
  <2>2. PICK k \in 0 .. Done(r) : s.ack = at[k]
    BY <2>1 DEF BackOK
  <2>3. k \in 0 .. N
    BY <1>1, <1>3
  <2>4. ASSUME NEW b \in s.sacks PROVE b \in Block
    <3>1. PICK i, j \in 0 .. N : b = Stretch(at, i, j)
      BY <2>1 DEF BackOK
    <3> QED BY <1>2, <3>1
  <2> QED BY <1>1, <2>2, <2>3, <2>4
<1> QED BY <1>4, <1>5, <1>6, <1>7

\* Shape and numbers together make a segment.
LEMMA ShapeIsSegment ==
    ASSUME NEW s, Shape(s, 0), s.sequence \in SeqNum, s.ack \in SeqNum, s.sacks \subseteq Block
    PROVE  s \in Segment
<1> DEFINE a == s.sequence
           b == s.ack
           f == s.flags
           w == s.window
           k == s.sacks
           l == s.length
           d == s.data
<1>1. /\ s = [sequence |-> a, ack |-> b, flags |-> f, window |-> w, sacks |-> k,
              length |-> l, data |-> d]
      /\ a \in SeqNum /\ b \in SeqNum /\ f \in SUBSET {"SYN", "ACK", "FIN", "RST"}
      /\ w \in 0 .. MaxWindow /\ k \in SUBSET Block /\ l \in 0 .. Mss /\ d \in Nat
  BY ConnectionAssumption DEF Shape
<1> HIDE DEF a, b, f, w, k, l, d
<1> QED BY <1>1 DEF Segment

LEMMA AcceptedNow ==
    ASSUME DataInv
    PROVE  accepted \in [Peers -> Nat]
<1>1. accepted = [p \in Peers |-> accepted[p]]
  BY DEF DataInv
<1>2. \A p \in Peers : accepted[p] \in Nat
  BY DirNow
<1> QED BY <1>1, <1>2

LEMMA TypesFollow ==
    ASSUME FlowInv, ShapeInv(0)
    PROVE  TypeOK
<1>1. ASSUME NEW p \in Peers
      PROVE  /\ conn[p].oldest \in SeqNum /\ conn[p].ack \in SeqNum
             /\ conn[p].delivery \in SeqNum /\ conn[p].ranges \subseteq Block
             /\ accepted[p] \in Nat
             /\ \A s \in Traffic(p) : s.ack \in SeqNum /\ s.sacks \subseteq Block
  <2>0. Other(p) \in Peers /\ Other(Other(p)) = p
    BY OtherIs
  <2>1. PICK at : DirOK(conn[p], conn[Other(p)], accepted[p], Traffic(p),
                        Traffic(Other(p)), at, InitialSequence[p])
    BY DirNow DEF FlowInv
  <2>2. PICK to : DirOK(conn[Other(p)], conn[p], accepted[Other(p)], Traffic(Other(p)),
                        Traffic(p), to, InitialSequence[Other(p)])
    BY <2>0, DirNow DEF FlowInv
  <2>3. conn[p].oldest \in SeqNum
    BY <2>1, DirTypes
  <2>4. /\ conn[p].ack \in SeqNum /\ conn[p].delivery \in SeqNum
        /\ conn[p].ranges \subseteq Block
        /\ \A s \in Traffic(p) : s.ack \in SeqNum /\ s.sacks \subseteq Block
    BY <2>2, DirTypes
  <2> QED BY <2>3, <2>4, DirNow DEF FlowInv
<1>2. ASSUME NEW p \in Peers, NEW s \in net[p] PROVE s \in Segment
  <2>1. s \in Traffic(Other(p)) /\ Other(p) \in Peers
    BY OtherIs DEF Traffic
  <2>2. Shape(s, 0) /\ s.sequence \in SeqNum
    BY DEF FlowInv, LocalInv, WireOK, ShapeInv
  <2>3. s.ack \in SeqNum /\ s.sacks \subseteq Block
    BY <1>1, <2>1
  <2> QED BY <2>2, <2>3, ShapeIsSegment
<1>3. ASSUME NEW p \in Peers, NEW s \in Kept(conn[p]) PROVE s \in Segment
  <2>1. s \in Traffic(p)
    BY DEF Traffic
  <2>2. Local(conn[p]) /\ Shaped(conn[p], 0)
    BY DEF FlowInv, LocalInv, ShapeInv
  <2>3. Shape(s, 0) /\ s.sequence \in SeqNum
    <3>1. CASE s = conn[p].control /\ s # NoControl
      BY <2>2, <3>1 DEF Local, Shaped, ShapedControl, WireOK
    <3>2. CASE \E i \in 1 .. Len(conn[p].queue) : s = conn[p].queue[i].segment
      BY <2>2, <3>2 DEF Local, Shaped, ShapedSender, WireOK
    <3> QED BY <3>1, <3>2 DEF Kept
  <2>4. s.ack \in SeqNum /\ s.sacks \subseteq Block
    BY <1>1, <2>1
  <2> QED BY <2>3, <2>4, ShapeIsSegment
<1>4. ASSUME NEW p \in Peers
      PROVE  LET c == conn[p] IN
         /\ c.state \in ConnectionState /\ c.reset_sent \in BOOLEAN
         /\ c.control = NoControl \/ c.control \in Segment
         /\ Len(c.queue) <= RetransmissionCapacity
         /\ \A i \in DOMAIN c.queue : c.queue[i].segment \in Segment
         /\ {c.next_send, c.oldest, c.ack, c.delivery} \subseteq SeqNum
         /\ c.tx_free \in 0 .. PoolBuffers /\ c.rx_free \in 0 .. ReceiveCapacity
         /\ c.ranges \subseteq Block /\ Cardinality(c.ranges) <= ReceiveCapacity
         /\ c.peer_window \in 0 .. MaxWindow
         /\ c.congestion.cwnd \in Mss .. MaxCwnd
  <2> DEFINE c == conn[p]
  <2>1. Local(c) /\ Shaped(c, 0) /\ WindowOK(c.congestion)
    BY DEF FlowInv, LocalInv, ShapeInv, EpochInv, Epoch
  <2>2. c.state \in ConnectionState /\ c.reset_sent \in BOOLEAN
    BY <2>1 DEF Local, Machine
  <2>3. c.control = NoControl \/ c.control \in Segment
    BY <1>3 DEF Kept
  <2>4. \A i \in 1 .. Len(c.queue) : c.queue[i].segment \in Segment
    BY <1>3 DEF Kept
  <2>5. /\ c.next_send \in SeqNum /\ c.oldest \in SeqNum /\ c.ack \in SeqNum
        /\ c.delivery \in SeqNum /\ c.ranges \subseteq Block
    BY <1>1, <2>1 DEF Local
  <2> HIDE DEF c
  <2>6. DOMAIN c.queue = 1 .. Len(c.queue) /\ Len(c.queue) \in Nat
    BY <2>1 DEF Local, QueueOK, IsSequence
  <2>7. c.tx_free \in 0 .. PoolBuffers /\ c.rx_free \in 0 .. ReceiveCapacity
    <3>1. c.tx_free \in Nat /\ c.tx_free + Len(c.queue) = PoolBuffers
      BY <2>1 DEF Local
    <3>2. /\ c.rx_free \in Nat /\ Cardinality(c.slots) \in Nat
          /\ c.rx_free + Cardinality(c.slots) = ReceiveCapacity
      BY <2>1 DEF Local
    <3>3. PoolBuffers \in Nat /\ ReceiveCapacity \in Nat
      BY ConnectionAssumption
    <3> QED BY <2>6, <3>1, <3>2, <3>3
  <2>8. /\ Len(c.queue) <= RetransmissionCapacity /\ c.peer_window \in 0 .. MaxWindow
        /\ Cardinality(c.ranges) <= ReceiveCapacity
    BY <2>1, ConnectionAssumption DEF Shaped, ShapedSender, ShapedReceiver, RangesFit
  <2>9. c.congestion.cwnd \in Mss .. MaxCwnd
    BY <2>1, ConnectionAssumption DEF WindowOK
  <2> QED BY <2>2, <2>3, <2>4, <2>5, <2>6, <2>7, <2>8, <2>9 DEF c
<1>5. accepted \in [Peers -> Nat]
  BY AcceptedNow DEF FlowInv
<1>6. resets \in [Peers -> 0 .. 2]
  <2>1. resets = [p \in Peers |-> resets[p]] /\ \A p \in Peers : resets[p] \in 0 .. 1
    BY DEF FlowInv, LocalInv, ResetsOK
  <2> QED BY <2>1
<1> QED BY <1>2, <1>4, <1>5, <1>6 DEF TypeOK

LEMMA ShapeStays == FlowInv /\ ShapeInv(0) /\ [Next]_vars /\ FlowInv' => ShapeInv(0)'
<1> SUFFICES ASSUME FlowInv, ShapeInv(0), [Next]_vars, FlowInv' PROVE ShapeInv(0)'
  OBVIOUS
<1>0. LowOK(0)
  BY ConnectionAssumption DEF LowOK
<1>1. accepted \in [Peers -> Nat] /\ LocalInv
  BY AcceptedNow DEF FlowInv
<1>2. ASSUME NEW p \in Peers PROVE 0 <= conn'[p].rx_free
  BY DEF FlowInv, LocalInv, Local
<1> QED BY <1>0, <1>1, <1>2, ShapeNext

\* No table or pool of connection.cpp is ever over-full or over-released, and
\* every header field keeps the range of its C++ type, whatever the network
\* loses, repeats and reorders.
THEOREM TypesHold ==
    ASSUME WithinHalf
    PROVE  (Spec => []TypeOK) /\ (TransferSpec => []TypeOK)
<1>0. LowOK(0)
  BY ConnectionAssumption DEF LowOK
<1>1. Init \/ InitEstablished => ShapeInv(0)
  BY <1>0, ShapeInit
<1>2. FlowInv /\ ShapeInv(0) /\ [Next]_vars /\ FlowInv' => ShapeInv(0)'
  BY ShapeStays
<1>3. FlowInv /\ ShapeInv(0) => TypeOK
  BY TypesFollow
<1> QED BY <1>1, <1>2, <1>3, FlowCorrect, PTL DEF Spec, TransferSpec

-----------------------------------------------------------------------------
(* Windows.  With full segments a sender never has more payloads unacked     *)
(* than its peer has buffers, so a receiver never has to drop one.           *)

Invited(c) == c.peer_window <= ReceiveCapacity * Mss

\* next is next_send, which only send moves.
Windowed(c, next) ==
    /\ c.next_send = next /\ Len(c.queue) <= ReceiveCapacity
    /\ c.receive_drop = FALSE
    /\ c.state = "established" => Invited(c)

LEMMA WindowedSame ==
    ASSUME NEW c, NEW next, Windowed(c, next), NEW d, SameSender(c, d),
           d.receive_drop = FALSE,
           d.state = "established" => c.state = "established" \/ Invited(c)
    PROVE  Windowed(d, next)
  BY DEF Windowed, Invited, SameSender

\* Only a SYN|ACK or an ACK establishes a connection.
LEMMA EstablishedBy ==
    ASSUME NEW c, IsEndpoint(c), NEW event,
           PerformActions(Handle(c, event)).state = "established"
    PROVE  event \in {"receive_ack", "receive_syn_ack"}
<1> DEFINE t == Handle(c, event)
<1>1. IsEndpoint(t.c) /\ Outcome(c, event, t)
  BY HandleIs
<1> HIDE DEF t
<1>2. PerformActions(t).state = t.c.state
  BY <1>1, PerformActionsIs
<1>3. t.c.state = "established"
  BY <1>2 DEF t
<1>4. PICK x \in kTransitions : x[2] = event /\ x[3] = "established"
  BY <1>1, <1>3 DEF Outcome
<1>5. CASE x \in {<<s, "receive_rst", "closed", kCloseError>> :
                      s \in ConnectionState \ {"closed"}}
  BY <1>4, <1>5
<1>6. CASE x \notin {<<s, "receive_rst", "closed", kCloseError>> :
                      s \in ConnectionState \ {"closed"}}
  BY <1>4, <1>6 DEF kTransitions
<1> QED BY <1>5, <1>6

LEMMA WindowedEvent ==
    ASSUME NEW c, IsEndpoint(c), NEW next, Windowed(c, next), NEW event,
           event \in {"receive_ack", "receive_syn_ack"} => Invited(c)
    PROVE  /\ Windowed(PerformActions(Handle(c, event)), next)
           /\ SameReceiver(c, PerformActions(Handle(c, event)))
<1> DEFINE t == Handle(c, event)
           d == PerformActions(t)
<1>1. IsEndpoint(t.c) /\ SameReceiver(c, t.c)
  BY HandleIs
<1> HIDE DEF t
<1>2. SameReceiver(t.c, d)
  BY <1>1, PerformActionsIs
<1>3. SameSender(c, d)
  BY EventSender DEF t
<1>4. d.state = "established" => Invited(c)
  BY EstablishedBy DEF t
<1> HIDE DEF d
<1>5. SameReceiver(c, d)
  BY <1>1, <1>2 DEF SameReceiver
<1>6. d.receive_drop = FALSE
  BY <1>5 DEF SameReceiver, Windowed
<1>7. Windowed(d, next)
  BY <1>3, <1>4, <1>6, WindowedSame
<1> QED BY <1>5, <1>7 DEF d, t

LEMMA WindowedControl ==
    ASSUME NEW c, IsEndpoint(c), NEW next, Windowed(c, next), NEW flags, NEW remember
    PROVE  /\ Windowed(SendControl(c, flags, remember), next)
           /\ SameReceiver(c, SendControl(c, flags, remember))
<1> DEFINE s == MakeSegment(c, flags, 0, 0)
           d == TransmitControl(c, s, remember)
<1>1. SendControl(c, flags, remember) = d
  BY DEF SendControl
<1> HIDE DEF s
<1>2. SameSender(c, d) /\ SameReceiver(c, d) /\ d.state = c.state
  BY TransmitControlIs
<1> HIDE DEF d
<1>3. d.receive_drop = FALSE
  BY <1>2 DEF SameReceiver, Windowed
<1> QED BY <1>1, <1>2, <1>3, WindowedSame

LEMMA WindowedProcessControl ==
    ASSUME NEW c, IsEndpoint(c), NEW next, Windowed(c, next), NEW flags,
           "ACK" \in flags => Invited(c)
    PROVE  /\ Windowed(ProcessControl(c, flags), next)
           /\ SameReceiver(c, ProcessControl(c, flags))
<1> DEFINE event == ControlEvent(c, flags)
           d == OnControlEvent(c, event)
<1>0. event \in {"receive_ack", "receive_syn_ack"} => Invited(c)
  BY DEF ControlEvent
<1> HIDE DEF event
<1> SUFFICES Windowed(d, next) /\ SameReceiver(c, d)
  BY DEF ProcessControl, event
<1>1. CASE event = "none"
  BY <1>1 DEF OnControlEvent, SameReceiver
<1>2. CASE event # "none" /\ event = "receive_syn" /\ c.state = "syn_received"
  <2>1. d = SendControl(c, {"SYN", "ACK"}, TRUE)
    BY <1>2 DEF OnControlEvent
  <2> QED BY <2>1, WindowedControl
<1>3. CASE event # "none" /\ ~(event = "receive_syn" /\ c.state = "syn_received")
  BY <1>0, <1>3, WindowedEvent DEF OnControlEvent
<1> QED BY <1>1, <1>2, <1>3

\* Every ACK replaces the window, a stale one too.
LEMMA WindowedAck ==
    ASSUME NEW c, Local(c), NEW next, Windowed(c, next), NEW s,
           s.window <= ReceiveCapacity * Mss
    PROVE  /\ Windowed(AckPart(c, s), next) /\ SameReceiver(c, AckPart(c, s))
           /\ "ACK" \in s.flags => Invited(AckPart(c, s))
<1> DEFINE w == [c EXCEPT !.peer_window = s.window]
           a == AcknowledgeProgress(w, s.ack)
           d == Scoreboard(a, s)
<1>0. IsEndpoint(c) /\ QueueOK(c.queue) /\ c.tx_free \in Int /\ Len(c.queue) \in Nat
  BY DEF Local, QueueOK, IsSequence
<1>1. /\ IsEndpoint(w) /\ w.state = c.state /\ w.next_send = c.next_send
      /\ w.queue = c.queue /\ w.tx_free = c.tx_free /\ w.peer_window = s.window
  BY <1>0 DEF IsEndpoint, Fields
<1>a. SameReceiver(c, w)
  BY <1>0 DEF IsEndpoint, Fields, SameReceiver
<1> HIDE DEF w
<1>2. Windowed(w, next) /\ Invited(w)
  BY <1>1, <1>a DEF Windowed, Invited, SameReceiver
<1>3. Windowed(d, next) /\ Invited(d) /\ SameReceiver(c, d)
  <2> DEFINE k == IF SequenceGreater(s.ack, w.oldest)
                  THEN AckedPrefix(w.queue, s.ack) ELSE 0
  <2>0. IsEndpoint(w) /\ QueueOK(w.queue) /\ w.tx_free \in Int
    BY <1>0, <1>1
  <2>1. /\ k \in 0 .. Len(w.queue)
        /\ IsEndpoint(a) /\ SameReceiver(w, a) /\ a.next_send = w.next_send
        /\ a.peer_window = w.peer_window
        /\ QueueOK(a.queue) /\ Len(a.queue) = Len(w.queue) - k
    BY <2>0, AcknowledgeProgressIs
  <2> HIDE DEF a, k
  <2>2. /\ SameReceiver(a, d) /\ d.peer_window = a.peer_window
        /\ d.next_send = a.next_send /\ Len(d.queue) = Len(a.queue)
    BY <2>1, ScoreboardIs
  <2> HIDE DEF d
  <2>3. Len(d.queue) <= ReceiveCapacity
    <3>1. Len(w.queue) \in Nat /\ Len(w.queue) <= ReceiveCapacity
      BY <1>0, <1>1, <1>2 DEF Windowed
    <3>2. ReceiveCapacity \in Nat
      BY ConnectionAssumption
    <3> QED BY <2>1, <2>2, <3>1, <3>2
  <2>4. SameReceiver(c, d)
    BY <1>a, <2>1, <2>2 DEF SameReceiver
  <2>5. Invited(d) /\ d.next_send = next
    BY <1>2, <2>1, <2>2 DEF Windowed, Invited
  <2>6. d.receive_drop = FALSE
    BY <2>4 DEF Windowed, SameReceiver
  <2> QED BY <2>3, <2>4, <2>5, <2>6 DEF Windowed
<1>4. AckPart(c, s) = IF "ACK" \in s.flags
                      THEN IF SequenceGreater(s.ack, c.next_send) THEN w ELSE d
                      ELSE c
  BY DEF AckPart, ProcessAck, w
<1> HIDE DEF d
<1>5. SameReceiver(c, c)
  BY DEF SameReceiver
<1> QED BY <1>a, <1>2, <1>3, <1>4, <1>5

LEMMA WindowedTick ==
    ASSUME NEW c, Local(c), NEW next, Windowed(c, next), NEW t, NEW r, NEW o
    PROVE  Windowed(Tick(c, t, r, o), next)
<1> DEFINE a == ExpireTimeWait(c, t)
           b == RepeatControl(a, r)
           d == RetransmitTimeout(b, o)
<1>0. IsEndpoint(c)
  BY DEF Local
<1>1. Local(a) /\ Windowed(a, next)
  <2>1. CASE c.state = "time_wait" /\ t
    <3>1. "time_wait_expired" \notin {"receive_ack", "receive_syn_ack"}
      OBVIOUS
    <3> QED BY <1>0, <2>1, <3>1, LocalEvent, WindowedEvent DEF ExpireTimeWait
  <2>2. CASE ~(c.state = "time_wait" /\ t)
    BY <2>2 DEF ExpireTimeWait
  <2> QED BY <2>1, <2>2
<1> HIDE DEF a
<1>2. IsEndpoint(b) /\ QueueOK(b.queue) /\ Windowed(b, next)
  <2>0. IsEndpoint(a) /\ QueueOK(a.queue)
    BY <1>1 DEF Local
  <2>1. CASE a.control # NoControl /\ r
    <3>1. b = Transmit(a, a.control)
      BY <2>1 DEF RepeatControl
    <3> HIDE DEF b
    <3>2. IsEndpoint(b) /\ SameSender(a, b)
      BY <2>0, <3>1 DEF Transmit, IsEndpoint, Fields, SameSender
    <3>3. b.receive_drop = a.receive_drop /\ b.state = a.state
      BY <2>0, <3>1 DEF Transmit, IsEndpoint, Fields
    <3>4. b.receive_drop = FALSE
      BY <1>1, <3>3 DEF Windowed
    <3>5. b.queue = a.queue
      BY <3>2 DEF SameSender
    <3> QED BY <1>1, <2>0, <3>2, <3>3, <3>4, <3>5, WindowedSame
  <2>2. CASE ~(a.control # NoControl /\ r)
    BY <1>1, <2>0, <2>2 DEF RepeatControl
  <2> QED BY <2>1, <2>2
<1> HIDE DEF b
<1>3. /\ SameMachine(b, d) /\ SameReceiver(b, d) /\ d.peer_window = b.peer_window
      /\ d.next_send = b.next_send /\ Len(d.queue) = Len(b.queue)
  BY <1>2, RetransmitTimeoutIs
<1> HIDE DEF d
<1>4. d.receive_drop = FALSE
  BY <1>2, <1>3 DEF Windowed, SameReceiver
<1>5. Windowed(d, next)
  BY <1>2, <1>3, <1>4 DEF Windowed, Invited, SameMachine
<1> QED BY <1>5 DEF Tick, a, b, d

-----------------------------------------------------------------------------
(* What a direction says about the receiver's buffers. *)

\* The slots hold payloads beyond the one that is missing.
LEMMA SlotsWithin ==
    ASSUME NEW r, NEW at, NEW N \in Nat, ReceiverOK(r, at, N), Local(r)
    PROVE  /\ r.slots = {} \/ Cardinality(r.slots) <= N - Done(r) - 1
           /\ Cardinality(r.slots) \in Nat /\ Done(r) \in 0 .. N
<1> DEFINE K == Done(r)
           T == (K + 2) .. N
           f == [slot \in r.slots |-> slot.data]
<1>1. /\ K \in 0 .. N /\ Cardinality(r.slots) \in Nat
      /\ \A slot \in r.slots : slot.data \in T /\ slot = SlotAt(at, slot.data)
  BY DEF ReceiverOK, Local
<1> HIDE DEF K
<1>2. f \in Injection(r.slots, T)
  <2>1. f \in [r.slots -> T]
    BY <1>1
  <2>2. IsInjective(f)
    <3> SUFFICES ASSUME NEW a \in r.slots, NEW b \in r.slots, a.data = b.data
                 PROVE  a = b
      BY DEF IsInjective
    <3> QED BY <1>1
  <2> QED BY <2>1, <2>2 DEF Injection
<1>3. K + 2 \in Int /\ N \in Int
  BY <1>1
<1>4. /\ IsFiniteSet(T)
      /\ Cardinality(T) = IF K + 2 > N THEN 0 ELSE N - (K + 2) + 1
  BY <1>3, FS_Interval
<1> HIDE DEF f
<1>5. Cardinality(r.slots) <= Cardinality(T)
  BY <1>2, <1>4, FS_Injection
<1>6. r.slots # {} => K + 2 <= N
  BY <1>1
<1> HIDE DEF T
<1> QED BY <1>1, <1>3, <1>4, <1>5, <1>6 DEF K

\* What a receiver holds beyond a hole, its peer retains, and the payload
\* missing in the hole too: one buffer is free for that one.
LEMMA RoomForMissing ==
    ASSUME NEW c, NEW r, NEW N, NEW fwd, NEW back, NEW at, NEW first,
           DirOK(c, r, N, fwd, back, at, first), Local(r),
           Len(c.queue) <= ReceiveCapacity
    PROVE  1 <= r.rx_free
<1> DEFINE L == Len(c.queue)
           K == Done(r)
           h == Cardinality(r.slots)
<1>1. /\ N \in Nat /\ L \in 0 .. N /\ N - L <= K /\ ReceiverOK(r, at, N)
  BY DEF DirOK, Scale, SenderOK, First
<1>2. (r.slots = {} \/ h <= N - K - 1) /\ h \in Nat /\ K \in 0 .. N
  BY <1>1, SlotsWithin
<1>3. r.slots = {} => h = 0
  BY FS_EmptySet
<1>4. /\ r.rx_free \in Nat /\ r.rx_free + h = ReceiveCapacity
      /\ ReceiveCapacity \in Nat /\ ReceiveCapacity > 0
  BY ConnectionAssumption DEF Local
<1> HIDE DEF L, K, h
<1>5. h < ReceiveCapacity
  BY <1>1, <1>2, <1>3, <1>4 DEF L
<1> QED BY <1>2, <1>4, <1>5

\* Every range ends with a payload that a slot holds.
LEMMA RangesFewer ==
    ASSUME NEW r, NEW at, NEW N, Ruler(at, N), ReceiverOK(r, at, N), Local(r)
    PROVE  IsFiniteSet(r.ranges) /\ Cardinality(r.ranges) <= Cardinality(r.slots)
<1> DEFINE K == Done(r)
           f == [g \in r.ranges |-> CHOOSE slot \in r.slots : slot.end = g.end]
<1>1. /\ N \in Nat /\ K \in 0 .. N /\ RangesOK(r.ranges, at, N, K, HeldBy(r))
      /\ \A slot \in r.slots : slot = SlotAt(at, slot.data)
  BY DEF Ruler, ReceiverOK
<1> HIDE DEF K
<1>2. ASSUME NEW g \in r.ranges
      PROVE  /\ \E i, j \in 0 .. N : i < j /\ g = Stretch(at, i, j)
             /\ \E slot \in r.slots : slot.end = g.end
  <2>1. PICK i, j \in (K + 1) .. N : i < j /\ g = Stretch(at, i, j)
    BY <1>1 DEF RangesOK
  <2>2. i \in 0 .. N /\ j \in 0 .. N /\ j \in 1 .. N
    BY <1>1
  <2>3. Covered(r.ranges, at, N, j)
    BY <2>1, <2>2 DEF Covered
  <2>4. j \in HeldBy(r)
    BY <1>1, <2>2, <2>3 DEF RangesOK
  <2>5. PICK slot \in r.slots : slot.data = j
    BY <2>4 DEF HeldBy
  <2>6. slot.end = at[j] /\ g.end = at[j]
    BY <1>1, <2>1, <2>5 DEF SlotAt, Stretch
  <2> QED BY <2>1, <2>2, <2>6
<1>3. ASSUME NEW g \in r.ranges PROVE f[g] \in r.slots /\ f[g].end = g.end
  BY <1>2
<1>4. f \in [r.ranges -> r.slots]
  BY <1>3
<1> HIDE DEF f
<1>5. ASSUME NEW g \in r.ranges, NEW h \in r.ranges, f[g] = f[h] PROVE g = h
  <2>1. PICK i, j \in 0 .. N : i < j /\ g = Stretch(at, i, j)
    BY <1>2
  <2>2. PICK k, l \in 0 .. N : k < l /\ h = Stretch(at, k, l)
    BY <1>2
  <2>3. g.end = at[j] /\ h.end = at[l]
    BY <2>1, <2>2 DEF Stretch
  <2>4. j = l
    BY <1>3, <1>5, <2>3 DEF Ruler
  <2>5. (i = k /\ j = l) \/ j < k \/ l < i
    BY <1>1, <2>1, <2>2 DEF RangesOK
  <2>6. i = k
    BY <1>1, <2>1, <2>2, <2>4, <2>5
  <2> QED BY <2>1, <2>2, <2>4, <2>6
<1>6. f \in Injection(r.ranges, r.slots)
  BY <1>4, <1>5 DEF Injection, IsInjective
<1>7. IsFiniteSet(r.slots)
  BY DEF Local
<1> QED BY <1>6, <1>7, FS_Injection

LEMMA InsertAnswers ==
    ASSUME NEW ranges, NEW ack, NEW begin, NEW end, begin # end,
           ~(SeqSub(end, begin) >= Modulus \div 2), Cardinality(ranges) # ReceiveCapacity
    PROVE  InsertRange(ranges, ack, begin, end).status \in {"duplicate", "accepted"}
<1> DEFINE start == IF SequenceLess(begin, ack) THEN ack ELSE begin
           touching == Touching(ranges, start, end)
           reached == AdvanceContiguous(ranges, end)
           kept == {r \in ranges : SequenceLess(reached, r.start)}
           merged == Merge(ack, touching, start, end)
           rest == (ranges \ touching) \cup {merged}
           no == [ranges |-> ranges, ack |-> ack, status |-> "duplicate"]
           yes(rs, a) == [ranges |-> rs, ack |-> a, status |-> "accepted"]
<1>1. InsertRange(ranges, ack, begin, end) \in {no, yes(kept, reached), yes(rest, ack)}
  BY DEF InsertRange
<1> HIDE DEF kept, reached, rest
<1>2. no.status = "duplicate" /\ \A rs, a : yes(rs, a).status = "accepted"
  OBVIOUS
<1> HIDE DEF no, yes
<1> QED BY <1>1, <1>2

\* A payload that a sender within the window sent is stored or was there.
LEMMA NotDropped ==
    ASSUME NEW r, NEW at, NEW N, NEW first, Scale(at, N, first), ReceiverOK(r, at, N),
           Local(r), 1 <= r.rx_free, r.receive_drop = FALSE,
           NEW s, DataOK(s, at, N), s.length > 0
    PROVE  ReceivePayload(r, s, SeqAdd(s.sequence, s.length)).receive_drop = FALSE
<1> DEFINE end == SeqAdd(s.sequence, s.length)
           d == ReceivePayload(r, s, end)
           x == InsertRange(r.ranges, r.ack, s.sequence, end)
           D == s.data
<1>0. IsEndpoint(r) /\ Ruler(at, N)
  BY ScaleIsRuler DEF Local
<1>1. N \in Nat /\ D \in 1 .. N /\ s.sequence = at[D - 1] /\ end = at[D]
  BY DEF DataOK, Scale
<1>2. D - 1 \in 0 .. N /\ D \in 0 .. N /\ D - 1 < D
  BY <1>1
<1> HIDE DEF end, D
<1>3. Cardinality(r.ranges) # ReceiveCapacity /\ Cardinality(r.slots) # ReceiveCapacity
      /\ r.rx_free # 0
  <2>1. IsFiniteSet(r.ranges) /\ Cardinality(r.ranges) <= Cardinality(r.slots)
    BY <1>0, RangesFewer
  <2>2. Cardinality(r.ranges) \in Nat
    BY <2>1, FS_CardinalityType
  <2>3. /\ r.rx_free \in Nat /\ Cardinality(r.slots) \in Nat /\ ReceiveCapacity \in Nat
        /\ r.rx_free + Cardinality(r.slots) = ReceiveCapacity
    BY ConnectionAssumption DEF Local
  <2> QED BY <2>1, <2>2, <2>3
<1>4. s.sequence # end
  BY <1>0, <1>1, <1>2 DEF Ruler
<1>5. ~(SeqSub(end, s.sequence) >= Modulus \div 2)
  <2> DEFINE a == SeqSub(at[D - 1], first)
             b == SeqSub(at[D], first)
  <2>1. /\ at[D - 1] \in SeqNum /\ at[D] \in SeqNum /\ first \in SeqNum
        /\ a \in Nat /\ b \in Nat /\ b < Half /\ a < b /\ Half \in Nat
    BY <1>2, ScaleBound, HalfIs DEF Scale, Half
  <2>2. SeqSub(at[D], at[D - 1]) = b - a
    BY <2>1, SubShift
  <2> HIDE DEF a, b
  <2>3. ~(b - a >= Half)
    BY <2>1
  <2> QED BY <1>1, <2>2, <2>3 DEF Half
<1>6. x.status \in {"duplicate", "accepted"}
  BY <1>3, <1>4, <1>5, InsertAnswers
<1>7. CASE SequenceLessEqual(end, r.delivery) \/ OverlapsReceived(r, s.sequence, end)
  BY <1>7 DEF ReceivePayload, end
<1>8. CASE ~(SequenceLessEqual(end, r.delivery) \/ OverlapsReceived(r, s.sequence, end))
  <2>1. d = StoreRange(r, s, x)
    BY <1>3, <1>8 DEF ReceivePayload
  <2> HIDE DEF x, d
  <2>2. CASE x.status = "duplicate"
    <3> DEFINE y == r.receive_drop \/ x.status # "duplicate"
               e == [r EXCEPT !.receive_drop = y]
    <3>1. y = FALSE
      BY <2>2
    <3>2. d = e
      BY <2>1, <2>2 DEF StoreRange
    <3> HIDE DEF y
    <3>3. e.receive_drop = y
      BY <1>0 DEF IsEndpoint, Fields
    <3> HIDE DEF e
    <3> QED BY <3>1, <3>2, <3>3 DEF d, end
  <2>3. CASE x.status = "accepted"
    <3> DEFINE e == Stored(r, s, x)
               stop == DeliveryStop(e)
               ready == Ready(e, stop)
    <3>1. IsEndpoint(e) /\ e.receive_drop = r.receive_drop
      BY <1>0, StoredIs
    <3>2. d = DeliverContiguous(e)
      BY <2>1, <2>3 DEF StoreRange, Stored
    <3> HIDE DEF e
    <3>3. d = HandOver(e, ready, stop)
      BY <3>2 DEF DeliverContiguous
    <3> HIDE DEF ready, stop
    <3>4. d.receive_drop = e.receive_drop
      BY <3>1, <3>3, HandOverIs
    <3>5. d.receive_drop = FALSE
      BY <3>1, <3>4
    <3> QED BY <3>5 DEF d, end
  <2> QED BY <1>6, <2>2, <2>3
<1> QED BY <1>7, <1>8

-----------------------------------------------------------------------------
(* What a full window holds. *)

\* With full segments the bytes in flight count the payloads in the queue.
LEMMA FlightIs ==
    ASSUME NEW c, NEW r, NEW N, NEW fwd, NEW back, NEW at, NEW first,
           DirOK(c, r, N, fwd, back, at, first), SeqSub(c.next_send, first) = N * Mss
    PROVE  /\ FlightBytes(c) \in Nat /\ Len(c.queue) \in 0 .. N
           /\ Len(c.queue) * Mss <= FlightBytes(c)
           /\ Len(c.queue) = 0 => FlightBytes(c) = 0
<1> DEFINE L == Len(c.queue)
           F == N - L
           a == SeqSub(at[N], first)
           b == SeqSub(at[F], first)
           u == L * Mss
           v == F * Mss
           w == N * Mss
<1>1. /\ N \in Nat /\ L \in 0 .. N /\ Scale(at, N, first)
      /\ c.next_send = at[N] /\ c.oldest = at[F] /\ Mss \in Nat
  BY ConnectionAssumption DEF DirOK, Scale, SenderOK, First
<1>2. F \in 0 .. N /\ N \in 0 .. N /\ N = F + L /\ F \in Nat /\ L \in Nat
  BY <1>1
<1>3. /\ at[N] \in SeqNum /\ at[F] \in SeqNum /\ first \in SeqNum
      /\ a \in Nat /\ b \in Nat /\ b <= v /\ a = w
  BY <1>1, <1>2, ScaleBound DEF Scale
<1>4. u \in Nat /\ v \in Nat /\ w \in Nat /\ w = v + u
  <2> HIDE DEF F, L
  <2>1. (F + L) * Mss = F * Mss + L * Mss /\ F * Mss \in Nat /\ L * Mss \in Nat
    BY <1>1, <1>2
  <2>2. N * Mss = (F + L) * Mss
    BY <1>2
  <2> QED BY <2>1, <2>2
<1>5. a >= b
  <2> HIDE DEF a, b, u, v, w
  <2> QED BY <1>3, <1>4
<1>6. SeqSub(at[N], at[F]) = a - b
  BY <1>3, <1>5, SubShift
<1>7. FlightBytes(c) = a - b
  BY <1>1, <1>6 DEF FlightBytes
<1>8. L = 0 => F = N
  BY <1>2
<1>9. L = 0 => a = b
  BY <1>8
<1> HIDE DEF a, b, u, v, w, F
<1>10. a - b \in Nat /\ u <= a - b /\ (a = b => a - b = 0)
  BY <1>3, <1>4, <1>5
<1> QED BY <1>1, <1>7, <1>9, <1>10 DEF u

LEMMA AllowanceIs ==
    ASSUME NEW g, g.cwnd \in Nat, NEW flight \in Nat, NEW window \in Nat,
           NEW n \in Nat \ {0}
    PROVE  SendAllowance(g, flight, window) >= n <=>
               flight + n <= g.cwnd /\ flight + n <= window
<1> DEFINE S == {g.cwnd, window}
           m == Min(S)
<1>1. S \subseteq Nat /\ S # {}
  OBVIOUS
<1>2. m \in S /\ \A y \in S : m <= y
  <2> HIDE DEF S
  <2> QED BY <1>1, LeastIs
<1>3. m \in {g.cwnd, window} /\ m <= g.cwnd /\ m <= window
  BY <1>2
<1>4. SendAllowance(g, flight, window) = IF flight >= m THEN 0 ELSE m - flight
  BY DEF SendAllowance
<1> HIDE DEF m
<1> QED BY <1>3, <1>4

LEMMA WindowedSend ==
    ASSUME NEW c, Local(c), NEW next, Windowed(c, next), NEW r, NEW N, NEW fwd, NEW back,
           NEW at, NEW first, DirOK(c, r, N, fwd, back, at, first),
           SeqSub(next, first) = N * Mss, (N + 1) * Mss < Half,
           c.peer_window \in Nat, c.congestion.cwnd \in Nat, CanSend(c, Mss), NEW data
    PROVE  /\ Windowed(Send(c, Mss, data), SeqAdd(next, Mss))
           /\ SeqSub(SeqAdd(next, Mss), first) = (N + 1) * Mss
<1> DEFINE s == MakeSegment(c, {"ACK"}, Mss, data)
           e == [start |-> s.sequence, end |-> SeqAdd(s.sequence, s.length),
                 segment |-> s, retransmitted |-> FALSE, sacked |-> FALSE]
           d == Send(c, Mss, data)
           L == Len(c.queue)
           flight == FlightBytes(c)
           u == L * Mss
           t == ReceiveCapacity * Mss
<1>0. /\ IsEndpoint(c) /\ QueueOK(c.queue) /\ s.length = Mss
      /\ Mss \in Nat /\ Mss > 0 /\ ReceiveCapacity \in Nat
  BY ConnectionAssumption, MakeSegmentIs DEF Local
<1>1. /\ SameMachine(c, d) /\ SameReceiver(c, d) /\ d.queue = Append(c.queue, e)
      /\ d.next_send = SeqAdd(c.next_send, s.length) /\ d.peer_window = c.peer_window
  BY <1>0, SendIs
<1> HIDE DEF d, e, s
<1>2. flight \in Nat /\ L \in 0 .. N /\ u <= flight /\ N \in Nat
  BY FlightIs DEF Windowed, DirOK, Scale
<1>3. flight + Mss <= c.peer_window
  BY <1>0, <1>2, AllowanceIs DEF CanSend
<1>4. c.peer_window <= t
  BY DEF CanSend, Windowed, Invited
<1>5. u \in Nat /\ t \in Nat
  BY <1>0, <1>2
<1>6. u + Mss <= t
  <2> HIDE DEF u, t, flight
  <2> QED BY <1>0, <1>2, <1>3, <1>4, <1>5
<1>7. L < ReceiveCapacity
  <2> SUFFICES ASSUME ReceiveCapacity <= L PROVE FALSE
    BY <1>0, <1>2
  <2> HIDE DEF L
  <2>0. L \in Nat
    BY <1>2
  <2>1. ReceiveCapacity * Mss <= L * Mss
    BY <1>0, <2>0, TimesMss
  <2>2. t <= u
    BY <2>1
  <2> HIDE DEF u, t
  <2> QED BY <1>0, <1>5, <1>6, <2>2
<1>8. Len(d.queue) = L + 1
  <2>1. c.queue \in Seq(Range(c.queue) \cup {e})
    BY <1>0 DEF QueueOK, IsSequence
  <2> QED BY <1>1, <2>1
<1>9. Len(d.queue) <= ReceiveCapacity
  BY <1>0, <1>2, <1>7, <1>8
<1>10. d.receive_drop = FALSE
  BY <1>1 DEF Windowed, SameReceiver
<1>11. Windowed(d, SeqAdd(next, Mss))
  BY <1>0, <1>1, <1>9, <1>10 DEF Windowed, Invited, SameMachine
<1>12. SeqSub(SeqAdd(next, Mss), first) = (N + 1) * Mss
  <2> DEFINE a == N * Mss
             b == (N + 1) * Mss
  <2>0. Half \in Nat /\ Half < Modulus /\ Modulus \in Nat
    <3> DEFINE n == Modulus \div 2
    <3>1. n \in Nat /\ Modulus = 2 * n /\ n > 0
      BY HalfIs
    <3> HIDE DEF n
    <3>2. n < Modulus /\ Modulus \in Nat
      BY <3>1
    <3> QED BY <3>1, <3>2 DEF Half, n
  <2>1. b = a + Mss /\ a \in Nat /\ b \in Nat
    BY <1>0, <1>2
  <2>2. next \in SeqNum /\ first \in SeqNum
    BY DEF Windowed, Local, DirOK, Scale
  <2>3. b < Modulus
    <3> HIDE DEF a, b
    <3>1. b < Half
      BY DEF b
    <3> QED BY <2>0, <2>1, <3>1
  <2>4. SeqSub(next, first) = a
    OBVIOUS
  <2> HIDE DEF a, b
  <2>5. SeqSub(next, first) + Mss < Modulus
    BY <2>0, <2>1, <2>3, <2>4
  <2>6. SeqSub(SeqAdd(next, Mss), first) = a + Mss
    BY <1>0, <2>2, <2>4, <2>5, AddOffset
  <2> QED BY <2>1, <2>6 DEF b
<1> QED BY <1>11, <1>12 DEF d

LEMMA WindowedSegment ==
    ASSUME NEW c, Local(c), NEW next, Windowed(c, next), NEW s, WireOK(s),
           s.window <= ReceiveCapacity * Mss, 1 <= c.rx_free, NEW at, NEW N, NEW first,
           Scale(at, N, first), ReceiverOK(c, at, N), DataOK(s, at, N)
    PROVE  Windowed(OnSegment(c, s), next)
<1> DEFINE a == AckPart(c, s)
           b == ProcessControl(a, s.flags)
           r == ReceivePayload(b, s, SeqAdd(s.sequence, s.length))
           x == SendControl(r, {"ACK"}, FALSE)
<1>1. /\ Local(a) /\ Windowed(a, next) /\ SameReceiver(c, a)
      /\ "ACK" \in s.flags => Invited(a)
  BY LocalAck, WindowedAck
<1> HIDE DEF a
<1>2. Local(b) /\ Windowed(b, next) /\ SameReceiver(a, b)
  BY <1>1, LocalProcessControl, WindowedProcessControl DEF Local
<1>3. OnSegment(c, s) = PayloadPart(b, s)
  BY DEF OnSegment, a
<1> HIDE DEF b
<1>4. ASSUME s.length > 0 PROVE Windowed(x, next)
  <2>1. IsEndpoint(b) /\ b.rx_free = c.rx_free /\ ReceiverOK(b, at, N)
    BY <1>1, <1>2 DEF Local, SameReceiver, ReceiverOK, Done, HeldBy
  <2>2. b.receive_drop = FALSE
    BY <1>2 DEF Windowed
  <2>3. r.receive_drop = FALSE
    BY <1>2, <1>4, <2>1, <2>2, NotDropped
  <2>4. IsEndpoint(r) /\ SameMachine(b, r) /\ SameSender(b, r)
    BY <2>1, ReceivePayloadIs
  <2> HIDE DEF r
  <2>5. Windowed(r, next)
    BY <1>2, <2>3, <2>4, WindowedSame DEF SameMachine
  <2> QED BY <2>4, <2>5, WindowedControl
<1>5. PayloadPart(b, s) = IF s.length > 0 /\ b.state = "established" THEN x ELSE b
  BY DEF PayloadPart, ProcessPayload
<1> HIDE DEF x
<1> QED BY <1>2, <1>3, <1>4, <1>5

-----------------------------------------------------------------------------
(* The windows of the whole system. *)

\* Every payload fills its segment.  The window counts buffers of Mss bytes, so
\* it invites more payloads than there are buffers when they are shorter.
FullSegments == Lengths \subseteq {Mss}

WindowInv ==
    \A p \in Peers :
        /\ Windowed(conn[p], conn[p].next_send)
        /\ SeqSub(conn[p].next_send, InitialSequence[p]) = accepted[p] * Mss

HasRoom == \A p \in Peers : 1 <= conn[p].rx_free

LEMMA RoomNow == FlowInv /\ WindowInv => HasRoom
<1> SUFFICES ASSUME FlowInv, WindowInv, NEW p \in Peers PROVE 1 <= conn[p].rx_free
  BY DEF HasRoom
<1>1. Other(p) \in Peers /\ Other(Other(p)) = p
  BY OtherIs
<1>2. PICK at : DirOK(conn[Other(p)], conn[p], accepted[Other(p)], Traffic(Other(p)),
                      Traffic(p), at, InitialSequence[Other(p)])
  BY <1>1, DirNow DEF FlowInv
<1>3. Local(conn[p]) /\ Len(conn[Other(p)].queue) <= ReceiveCapacity
  BY <1>1 DEF FlowInv, LocalInv, WindowInv, Windowed
<1> QED BY <1>2, <1>3, RoomForMissing

LEMMA PerformWindow ==
    ASSUME LocalInv, WindowInv, NEW p \in Peers, NEW c, IsEndpoint(c), NEW next,
           Windowed(c, next), NEW n, SeqSub(next, InitialSequence[p]) = n * Mss,
           accepted'[p] = n, \A q \in Peers : q # p => accepted'[q] = accepted[q],
           NEW gone, Perform(p, c, gone)
    PROVE  WindowInv'
<1> DEFINE e == [c EXCEPT !.out = {}]
<1>1. SameSender(c, e)
  BY DEF IsEndpoint, Fields, SameSender
<1>2. e.receive_drop = c.receive_drop /\ e.state = c.state
  BY DEF IsEndpoint, Fields
<1>3. conn' = [conn EXCEPT ![p] = e]
  BY DEF Perform
<1> HIDE DEF e
<1>4. e.receive_drop = FALSE
  BY <1>2 DEF Windowed
<1>5. Windowed(e, next)
  BY <1>1, <1>2, <1>4, WindowedSame
<1>6. conn'[p] = e /\ \A q \in Peers : q # p => conn'[q] = conn[q]
  BY <1>3 DEF LocalInv
<1>7. ASSUME NEW q \in Peers
      PROVE  /\ Windowed(conn'[q], conn'[q].next_send)
             /\ SeqSub(conn'[q].next_send, InitialSequence[q]) = accepted'[q] * Mss
  <2>1. CASE q = p
    <3>1. e.next_send = next
      BY <1>5 DEF Windowed
    <3> QED BY <1>5, <1>6, <2>1, <3>1
  <2>2. CASE q # p
    BY <1>6, <2>2 DEF WindowInv
  <2> QED BY <2>1, <2>2
<1> QED BY <1>7 DEF WindowInv

LEMMA WindowNext ==
    ASSUME WithinHalf, FullSegments, FlowInv, ShapeInv(0), WindowInv, [Next]_vars
    PROVE  WindowInv'
<1> DEFINE next(p) == conn[p].next_send
<1>0. ASSUME NEW p \in Peers
      PROVE  /\ Local(conn[p]) /\ IsEndpoint(conn[p]) /\ Windowed(conn[p], next(p))
             /\ SeqSub(next(p), InitialSequence[p]) = accepted[p] * Mss
  BY DEF FlowInv, LocalInv, Local, WindowInv
<1>a. LocalInv /\ DataInv
  BY DEF FlowInv
<1>1. CASE UNCHANGED vars
  BY <1>1 DEF vars, WindowInv
<1> HIDE DEF next
<1>2. ASSUME NEW p \in Peers, NEW event, event \notin {"receive_ack", "receive_syn_ack"},
             Perform(p, PerformActions(Handle(conn[p], event)), {}), UNCHANGED accepted
      PROVE  WindowInv'
  <2> DEFINE c == PerformActions(Handle(conn[p], event))
  <2>1. IsEndpoint(c)
    BY <1>0, LocalEvent DEF Local
  <2>2. Windowed(c, next(p))
    BY <1>0, <1>2, WindowedEvent
  <2>3. Perform(p, c, {})
    BY <1>2
  <2> HIDE DEF c
  <2> QED BY <1>0, <1>a, <1>2, <2>1, <2>2, <2>3, PerformWindow
<1>3. ASSUME NEW p \in Peers, AppConnect(p) \/ AppClose(p) PROVE WindowInv'
  <2>1. /\ "app_connect" \notin {"receive_ack", "receive_syn_ack"}
        /\ "app_close" \notin {"receive_ack", "receive_syn_ack"}
    OBVIOUS
  <2> QED BY <1>2, <1>3, <2>1 DEF AppConnect, AppClose, Connect, Close
<1>4. ASSUME NEW p \in Peers, AppSend(p) PROVE WindowInv'
  <2> DEFINE N == accepted[p]
             to == SeqAdd(next(p), Mss)
  <2>1. PICK length \in Lengths : /\ CanSend(conn[p], length)
                                  /\ Perform(p, Send(conn[p], length, N + 1), {})
    BY <1>4 DEF AppSend
  <2>2. length = Mss /\ length \in Nat
    BY ConnectionAssumption DEF FullSegments
  <2>3. /\ N \in Nat /\ N + 1 <= SendBound[p] /\ SendBound[p] \in Nat
        /\ N + 1 \in Nat
    BY <1>a, <1>4, TransportAssumption, DirNow DEF AppSend
  <2>4. (N + 1) * Mss < Half
    <3>1. /\ (N + 1) * Mss <= SendBound[p] * Mss
          /\ (N + 1) * Mss \in Nat /\ SendBound[p] * Mss \in Nat
      <4> HIDE DEF N
      <4> QED BY <2>3, TimesMss
    <3>2. SendBound[p] * Mss < Half /\ Half \in Nat
      BY HalfIs DEF WithinHalf, Half
    <3> QED BY <3>1, <3>2
  <2>5. PICK at : DirOK(conn[p], conn[Other(p)], N, Traffic(p), Traffic(Other(p)), at,
                        InitialSequence[p])
    BY <1>a, DirNow
  <2>6. conn[p].peer_window \in Nat /\ conn[p].congestion.cwnd \in Nat
    BY ConnectionAssumption
       DEF ShapeInv, Shaped, ShapedSender, FlowInv, EpochInv, Epoch, WindowOK
  <2> DEFINE c == Send(conn[p], Mss, N + 1)
  <2>7. Windowed(c, to) /\ SeqSub(to, InitialSequence[p]) = (N + 1) * Mss
    BY <1>0, <2>1, <2>2, <2>4, <2>5, <2>6, WindowedSend
  <2>8. IsEndpoint(c)
    BY <1>0, SendIs
  <2>9. Perform(p, c, {})
    BY <2>1, <2>2
  <2>10. /\ accepted'[p] = N + 1
         /\ \A q \in Peers : q # p => accepted'[q] = accepted[q]
    BY <1>a, <1>4 DEF AppSend, DataInv
  <2> HIDE DEF c, to, N
  <2> QED BY <1>a, <2>7, <2>8, <2>9, <2>10, PerformWindow
<1>5. ASSUME NEW p \in Peers, ReceiveSegment(p) PROVE WindowInv'
  <2>1. PICK s \in net[p] : \E c \in {OnSegment(conn[p], s)}, gone \in {{}, {s}} :
                                Perform(p, c, gone)
    BY <1>5 DEF ReceiveSegment
  <2>2. PICK gone \in {{}, {s}} : Perform(p, OnSegment(conn[p], s), gone)
    BY <2>1
  <2>3. WireOK(s) /\ s.window <= ReceiveCapacity * Mss /\ 1 <= conn[p].rx_free
    BY <1>a, RoomNow DEF LocalInv, ShapeInv, Shape, HasRoom
  <2>4. Other(p) \in Peers /\ Other(Other(p)) = p
    BY OtherIs
  <2>5. PICK at : DirOK(conn[Other(p)], conn[p], accepted[Other(p)], Traffic(Other(p)),
                        Traffic(p), at, InitialSequence[Other(p)])
    BY <1>a, <2>4, DirNow
  <2>6. s \in Traffic(Other(p))
    BY <2>4 DEF Traffic
  <2>7. /\ Scale(at, accepted[Other(p)], InitialSequence[Other(p)])
        /\ ReceiverOK(conn[p], at, accepted[Other(p)])
        /\ DataOK(s, at, accepted[Other(p)])
    BY <2>5, <2>6 DEF DirOK
  <2> DEFINE c == OnSegment(conn[p], s)
  <2>8. Windowed(c, next(p))
    BY <1>0, <2>3, <2>7, WindowedSegment
  <2>9. IsEndpoint(c)
    BY <1>0, <2>3, LocalSegment DEF Step, Local
  <2>10. Perform(p, c, gone) /\ UNCHANGED accepted
    BY <1>5, <2>2 DEF ReceiveSegment
  <2> HIDE DEF c
  <2> QED BY <1>0, <1>a, <2>8, <2>9, <2>10, PerformWindow
<1>6. ASSUME NEW p \in Peers, Lose(p) PROVE WindowInv'
  BY <1>6 DEF Lose, WindowInv
<1>7. ASSUME NEW p \in Peers, AnyTick(p) PROVE WindowInv'
  <2>1. PICK t, r, o : Perform(p, Tick(conn[p], t, r, o), {}) /\ UNCHANGED accepted
    BY <1>7 DEF AnyTick, TimerTick
  <2> DEFINE c == Tick(conn[p], t, r, o)
  <2>2. IsEndpoint(c)
    BY <1>0, LocalTick DEF Step, Local
  <2>3. Windowed(c, next(p))
    BY <1>0, WindowedTick
  <2>4. Perform(p, c, {})
    BY <2>1
  <2> HIDE DEF c
  <2> QED BY <1>0, <1>a, <2>1, <2>2, <2>3, <2>4, PerformWindow
<1> QED BY <1>1, <1>3, <1>4, <1>5, <1>6, <1>7 DEF Next

LEMMA WindowInit ==
    ASSUME Init \/ InitEstablished
    PROVE  WindowInv
<1>0. Mss \in Nat /\ ReceiveCapacity \in Nat /\ LowOK(0)
  BY ConnectionAssumption DEF LowOK
<1>1. ASSUME NEW p \in Peers
      PROVE  /\ Windowed(NewEndpoint(p), InitialSequence[p])
             /\ Windowed(Established(p), InitialSequence[p])
  <2> DEFINE c == NewEndpoint(p)
             n == NewEndpoint(Other(p))
             w == AdvertisedWindow(n)
             f == [c.fast EXCEPT !.duplicates = 1]
             d == [c EXCEPT !.state = "established", !.fast = f, !.peer_window = w]
  <2>1. /\ IsEndpoint(c) /\ c.queue = <<>> /\ c.next_send = InitialSequence[p]
        /\ c.receive_drop = FALSE /\ c.state = "closed"
    BY NewConnectionIs DEF NewEndpoint
  <2>2. n.rx_free = ReceiveCapacity
    BY NewConnectionIs DEF NewEndpoint
  <2>3. Established(p) = d
    BY DEF Established
  <2> HIDE DEF c, n, f
  <2>4. w <= ReceiveCapacity * Mss
    <3>1. n.rx_free \in 0 .. ReceiveCapacity /\ 0 <= n.rx_free
      BY <1>0, <2>2
    <3> QED BY <1>0, <3>1, WindowFits
  <2> HIDE DEF w
  <2>5. /\ d.queue = c.queue /\ d.next_send = c.next_send /\ d.peer_window = w
        /\ d.receive_drop = c.receive_drop
    BY <2>1 DEF IsEndpoint, Fields
  <2> HIDE DEF d
  <2>6. d.receive_drop = FALSE
    BY <2>1, <2>5
  <2>7. Len(<<>>) = 0
    OBVIOUS
  <2>8. Windowed(c, InitialSequence[p])
    BY <1>0, <2>1, <2>7 DEF Windowed
  <2>9. Windowed(d, InitialSequence[p])
    BY <1>0, <2>1, <2>4, <2>5, <2>6, <2>7 DEF Windowed, Invited
  <2> QED BY <2>3, <2>8, <2>9 DEF c
<1>2. ASSUME NEW p \in Peers PROVE SeqSub(InitialSequence[p], InitialSequence[p]) = 0
  <2>1. InitialSequence[p] \in SeqNum
    BY TransportAssumption
  <2> QED BY <2>1, SubIs, NumbersAre
<1>3. 0 * Mss = 0
  BY <1>0
<1>4. ASSUME NEW p \in Peers
      PROVE  Windowed(conn[p], InitialSequence[p]) /\ accepted[p] = 0
  BY <1>1 DEF Init, InitEstablished
<1>5. ASSUME NEW p \in Peers PROVE conn[p].next_send = InitialSequence[p]
  BY <1>4 DEF Windowed
<1> QED BY <1>2, <1>3, <1>4, <1>5 DEF WindowInv

LEMMA WindowsOpen ==
    ASSUME Mss <= MaxWindow, FlowInv, ShapeInv(1), WindowInv
    PROVE  NeverWindowBlocked
<1> SUFFICES ASSUME NEW p \in Peers, conn[p].state = "established", conn[p].queue = <<>>
             PROVE  CanSend(conn[p], Mss)
  BY DEF NeverWindowBlocked
<1> DEFINE c == conn[p]
<1>1. /\ Local(c) /\ Shaped(c, 1) /\ WindowOK(c.congestion)
      /\ SeqSub(c.next_send, InitialSequence[p]) = accepted[p] * Mss
  BY DEF FlowInv, LocalInv, ShapeInv, EpochInv, Epoch, WindowInv
<1>2. PICK at : DirOK(c, conn[Other(p)], accepted[p], Traffic(p), Traffic(Other(p)), at,
                      InitialSequence[p])
  BY DirNow DEF FlowInv
<1>3. c.queue = <<>> /\ Len(c.queue) = 0 /\ c.state = "established"
  OBVIOUS
<1> HIDE DEF c
<1>4. FlightBytes(c) = 0
  BY <1>1, <1>2, <1>3, FlightIs
<1>5. Mss \in Nat \ {0} /\ MaxWindow \in Nat /\ PoolBuffers \in Nat \ {0} /\ 1 * Mss = Mss
      /\ RetransmissionCapacity \in Nat \ {0}
  BY ConnectionAssumption
<1>6. c.peer_window \in Nat /\ Mss <= c.peer_window
  BY <1>1, <1>5 DEF Shaped, ShapedSender
<1>7. c.congestion.cwnd \in Nat /\ Mss <= c.congestion.cwnd
  BY <1>1 DEF WindowOK
<1>8. SendAllowance(c.congestion, FlightBytes(c), c.peer_window) >= Mss
  BY <1>4, <1>5, <1>6, <1>7, AllowanceIs
<1>9. c.tx_free > 0
  <2>1. c.tx_free \in Nat /\ c.tx_free + Len(c.queue) = PoolBuffers
    BY <1>1 DEF Local
  <2> QED BY <1>3, <1>5, <2>1
<1>10. CanEnqueue(c.queue, c.next_send)
  BY <1>3, <1>5 DEF CanEnqueue
<1>11. Mss \in 1 .. Mss
  BY <1>5
<1>12. CanSend(c, Mss)
  BY <1>3, <1>8, <1>9, <1>10, <1>11 DEF CanSend
<1> QED BY <1>12 DEF c

\* Senders stay within the window of their peer, whatever stale window an old
\* ACK restores: the invariant of the two theorems below.
THEOREM WindowsCorrect ==
    ASSUME WithinHalf, FullSegments
    PROVE  (Init \/ InitEstablished) /\ [][Next]_vars =>
               [](FlowInv /\ ShapeInv(0) /\ WindowInv /\ HasRoom)
<1>0. LowOK(0)
  BY ConnectionAssumption DEF LowOK
<1>1. Init \/ InitEstablished => ShapeInv(0) /\ WindowInv
  BY <1>0, ShapeInit, WindowInit
<1>2. FlowInv /\ ShapeInv(0) /\ [Next]_vars /\ FlowInv' => ShapeInv(0)'
  BY ShapeStays
<1>3. FlowInv /\ ShapeInv(0) /\ WindowInv /\ [Next]_vars => WindowInv'
  BY WindowNext
<1>4. FlowInv /\ WindowInv => HasRoom
  BY RoomNow
<1> QED BY <1>1, <1>2, <1>3, <1>4, FlowCorrect, PTL

\* With full segments process_payload never drops a segment for want of a
\* buffer, a slot or a range: whatever is lost and reordered, the receiver
\* has room for every payload that its advertised windows let the peer send.
THEOREM WindowsHonoured ==
    ASSUME WithinHalf, FullSegments
    PROVE  (Spec => []WindowIsHonoured) /\ (TransferSpec => []WindowIsHonoured)
<1>1. WindowInv => WindowIsHonoured
  BY DEF WindowInv, Windowed, WindowIsHonoured
<1> QED BY <1>1, WindowsCorrect, PTL DEF Spec, TransferSpec

\* No window is ever advertised, not even by an ACK that arrives late, that
\* would keep an idle sender from sending one full segment: without a window
\* probe in the code such a window would end the transfer.
THEOREM WindowsStayOpen ==
    ASSUME WithinHalf, FullSegments, Mss <= MaxWindow
    PROVE  (Spec => []NeverWindowBlocked) /\ (TransferSpec => []NeverWindowBlocked)
<1>0. LowOK(1)
  BY ConnectionAssumption DEF LowOK
<1>1. Init \/ InitEstablished => ShapeInv(1)
  BY <1>0, ShapeInit
<1>2. FlowInv /\ ShapeInv(1) /\ [Next]_vars /\ HasRoom' => ShapeInv(1)'
  <2> SUFFICES ASSUME FlowInv, ShapeInv(1), [Next]_vars, HasRoom' PROVE ShapeInv(1)'
    OBVIOUS
  <2>1. accepted \in [Peers -> Nat] /\ LocalInv
    BY AcceptedNow DEF FlowInv
  <2>2. ASSUME NEW p \in Peers PROVE 1 <= conn'[p].rx_free
    BY DEF HasRoom
  <2> QED BY <1>0, <2>1, <2>2, ShapeNext
<1>3. FlowInv /\ ShapeInv(1) /\ WindowInv => NeverWindowBlocked
  BY WindowsOpen
<1> QED BY <1>1, <1>2, <1>3, WindowsCorrect, PTL DEF Spec, TransferSpec
=============================================================================
