---------------------------- MODULE ReceiveRanges ---------------------------
(***************************************************************************)
(* The receiver's out-of-order ranges and the SACK blocks made from them   *)
(* (src/transport/receive_ranges.cpp).  The code keeps an array sorted by  *)
(* distance from cumulative_ack; a set of blocks holds the same            *)
(* information, and the position in the array is the rank in that order.   *)
(***************************************************************************)
EXTENDS Sequence, FiniteSets, FiniteSetsExt

CONSTANTS ReceiveCapacity, \* ReceiveRangeSet::capacity_
          MaxSackBlocks    \* kMaximumSackBlocks

Block == [start : SeqNum, end : SeqNum]

\* The first and the last of a set of sequence numbers, counted from base.
Earliest(base, points) == SeqAdd(base, Min({SeqSub(p, base) : p \in points}))
Latest(base, points)   == SeqAdd(base, Max({SeqSub(p, base) : p \in points}))

\* Mutant: the call is missing.
AdvanceNot(ranges, ack) == ack

\* advance_contiguous: the end of the stretch that reaches ack and runs on
\* through every stored range it meets, i.e. the first point from ack on that
\* no stored range contains or begins at.
AdvanceContiguous(ranges, ack) ==
    LET continues(p) == \E r \in ranges : /\ SequenceLessEqual(r.start, p)
                                         /\ SequenceLess(p, r.end)
    IN  Earliest(ack, {p \in {ack} \cup {r.end : r \in ranges} :
                          SequenceLessEqual(ack, p) /\ ~continues(p)})

\* The stored ranges that overlap or touch [start, end), and what they and
\* the new range merge into.  Stored ranges never touch one another, so
\* absorbing one of them cannot bring the next one into reach.
Touching(ranges, start, end) ==
    {r \in ranges : /\ ~SequenceLess(r.end, start)
                    /\ SequenceLessEqual(r.start, end)}

Merge(ack, touching, start, end) ==
    [start |-> Earliest(ack, {start} \cup {r.start : r \in touching}),
     end   |-> Latest(ack, {end} \cup {r.end : r \in touching})]

\* insert, in the order of its early returns.  (The code's second
\* outside_window test follows the clamping of start and is never true.)
InsertRange(ranges, ack, begin, end) ==
    LET rejected(status) == [ranges |-> ranges, ack |-> ack, status |-> status]
        accepted(rs, a)  == [ranges |-> rs, ack |-> a, status |-> "accepted"]
        start    == IF SequenceLess(begin, ack) THEN ack ELSE begin
        touching == Touching(ranges, start, end)
        reached  == AdvanceContiguous(ranges, end)
    IN  IF begin = end THEN rejected("invalid_range")
        ELSE IF SeqSub(end, begin) >= Modulus \div 2
             THEN rejected("outside_window")
        ELSE IF SequenceLessEqual(end, ack) THEN rejected("duplicate")
        ELSE IF start = ack
             THEN accepted({r \in ranges : SequenceLess(reached, r.start)},
                           reached)
        ELSE IF touching = {} /\ Cardinality(ranges) = ReceiveCapacity
             THEN rejected("full")
        ELSE accepted((ranges \ touching)
                        \cup {Merge(ack, touching, start, end)}, ack)

\* generate_sacks: at most MaxSackBlocks blocks, those nearest to the ACK.
GenerateSacks(ranges, ack) ==
    {r \in ranges :
        Cardinality({n \in ranges : SeqSub(n.start, ack) < SeqSub(r.start, ack)})
            < MaxSackBlocks}
=============================================================================
