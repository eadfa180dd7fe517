------------------------------ MODULE FrameQueue ----------------------------
(***************************************************************************)
(* What ArpResolver promises the network stack about the frames it is      *)
(* given, with nothing said about caches, requests and deadlines: a frame  *)
(* is transmitted at once, refused at once, or waits; a frame that waits   *)
(* is transmitted or given up later; neither is ever taken back, and no    *)
(* frame is transmitted twice.  The order among frames that wait is left   *)
(* open.                                                                   *)
(***************************************************************************)
EXTENDS Integers

CONSTANT FrameBound      \* bound on the queue_frame calls

VARIABLE status

Frame == 1 .. FrameBound

Settled == {"sent", "failed"}

Status == {"none", "waiting"} \cup Settled

Init == status = [f \in Frame |-> "none"]

Waits == {f \in Frame : status[f] = "waiting"}

\* The frame that the next call of queue_frame brings.
IsNext(f) == /\ status[f] = "none"
             /\ \A g \in Frame : g < f => status[g] # "none"

\* queue_frame returns with this outcome for its frame.
Offer(f, outcome) == /\ IsNext(f)
                     /\ status' = [status EXCEPT ![f] = outcome]

\* Some of the waiting frames are transmitted or given up.
Settle(sent, failed) ==
    /\ sent \cap failed = {}
    /\ status' = [f \in Frame |-> IF f \in sent THEN "sent"
                                  ELSE IF f \in failed THEN "failed" ELSE status[f]]

\* The answer arrives inside queue_frame: its frame and all others that wait
\* for the address are flushed.
OfferAnswered(f, sent) ==
    /\ IsNext(f)
    /\ status' = [g \in Frame |-> IF g \in sent \cup {f} THEN "sent" ELSE status[g]]

Next ==
    \/ \E f \in Frame, outcome \in Status \ {"none"} : Offer(f, outcome)
    \/ \E f \in Frame, sent \in SUBSET Waits : OfferAnswered(f, sent)
    \/ \E sent, failed \in SUBSET Waits : Settle(sent, failed)

Spec == Init /\ [][Next]_status
=============================================================================
