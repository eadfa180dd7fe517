------------------------- MODULE RetransmissionQueue ------------------------
(***************************************************************************)
(* The sender's retained segments (src/transport/retransmission_queue.cpp) *)
(* as a sequence of records                                                *)
(*   [start, end      : the half-open range of sequence numbers,           *)
(*    segment         : the transmitted segment, kept in the pool buffer,  *)
(*    retransmitted   : retransmit_count # 0, all that Karn's rule reads,  *)
(*    sacked          : BOOLEAN].                                          *)
(* sent_at_ns only feeds the timeout estimator and is abstracted: whether  *)
(* the timeout has passed is an input of Tick in Connection.               *)
(***************************************************************************)
EXTENDS Sequence, Sequences, FiniteSetsExt

CONSTANT RetransmissionCapacity

\* enqueue: the caller's guards leave a non-empty range and a buffer.
CanEnqueue(q, start) ==
    /\ Len(q) < RetransmissionCapacity
    /\ q # <<>> => SequenceLess(q[Len(q)].start, start)

\* acknowledge: the number of leading segments the ACK covers completely.
AckedPrefix(q, ack) ==
    Min({k \in 0 .. Len(q) :
            k < Len(q) => ~SequenceLessEqual(q[k + 1].end, ack)})

Acknowledge(q, ack) == SubSeq(q, AckedPrefix(q, ack) + 1, Len(q))

\* Mutants: one of the two comparisons is missing.
CoversFromStart(block, s) == /\ block.start # block.end
                             /\ SequenceLessEqual(block.start, s.start)
CoversToEnd(block, s) == /\ block.start # block.end
                         /\ SequenceLessEqual(s.end, block.end)

\* apply_sacks: a segment is marked only if one block covers all of it.
Covers(block, s) == /\ block.start # block.end
                    /\ SequenceLessEqual(block.start, s.start)
                    /\ SequenceLessEqual(s.end, block.end)

ApplySacks(q, sacks) ==
    [i \in 1 .. Len(q) |->
        [q[i] EXCEPT !.sacked = @ \/ \E b \in sacks : Covers(b, q[i])]]

\* lowest_unsacked: its index, 0 when there is none.
Unsacked(q) == {i \in 1 .. Len(q) : ~q[i].sacked}

\* Mutant: the last unsacked segment instead of the first.
HighestUnsacked(q) == IF Unsacked(q) = {} THEN 0 ELSE Max(Unsacked(q))

LowestUnsacked(q) == IF Unsacked(q) = {} THEN 0 ELSE Min(Unsacked(q))

MarkRetransmitted(q, i) == [q EXCEPT ![i].retransmitted = TRUE]
=============================================================================
