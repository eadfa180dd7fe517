--------------------------- MODULE FastRetransmit ---------------------------
(***************************************************************************)
(* Duplicate-ACK counting (src/transport/fast_retransmit.cpp).  The        *)
(* counter is compared with the threshold for equality only, so one value  *)
(* above the threshold stands for all of them (DuplicateCap).              *)
(***************************************************************************)
EXTENDS RetransmissionQueue

CONSTANT DuplicateAckThreshold   \* kDuplicateAckThreshold, 3 in the code

DuplicateCap == DuplicateAckThreshold + 1

NewFastRetransmit(initial_ack) ==
    [last_ack |-> initial_ack, recovery_point |-> 0,
     duplicates |-> 0, in_recovery |-> FALSE]

\* on_ack: the controller, the queue, and the index of the segment to send
\* again (0 when the decision is not triggered).
FastOnAck(f, ack, q) ==
    LET count   == Min({f.duplicates + 1, DuplicateCap})
        counted == [f EXCEPT !.duplicates = count]
        lowest  == LowestUnsacked(q)
    IN  IF SequenceGreater(ack, f.last_ack)
        THEN [f |-> [f EXCEPT !.last_ack = ack,
                              !.duplicates = 0,
                              !.in_recovery =
                                  @ /\ ~SequenceLessEqual(f.recovery_point, ack)],
              q |-> q, resend |-> 0]
        ELSE IF ack # f.last_ack
        THEN [f |-> f, q |-> q, resend |-> 0]
        ELSE IF count # DuplicateAckThreshold \/ f.in_recovery \/ lowest = 0
        THEN [f |-> counted, q |-> q, resend |-> 0]
        ELSE [f |-> [counted EXCEPT !.recovery_point = q[Len(q)].end,
                                    !.in_recovery = TRUE],
              q |-> MarkRetransmitted(q, lowest), resend |-> lowest]
=============================================================================
