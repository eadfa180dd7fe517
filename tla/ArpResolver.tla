----------------------------- MODULE ArpResolver ----------------------------
(***************************************************************************)
(* Address resolution (src/link/arp.cpp): the cache, the frames that wait  *)
(* for an address, and the resolutions under way.                          *)
(*                                                                         *)
(* cache and pending are the code's arrays, a slot that is not valid or    *)
(* not active being Invalid or Free.  resolutions is a set where the code  *)
(* has an array: nothing depends on the position of a resolution.  Every   *)
(* operation runs on one thread and is one step.  Frames are numbered in   *)
(* the order of the queue_frame calls.                                     *)
(***************************************************************************)
EXTENDS Integers, Sequences, FiniteSets

CONSTANTS Address, Hardware,             \* peers and their MAC addresses
          CacheCapacity, PendingCapacity,
          Ttl, RefreshMargin, RetryInterval, PendingDeadline, MaximumAttempts,
          Top,                           \* largest uint64_t, end of the clock
          FrameBound                     \* bound on the queue_frame calls

ASSUME ArpAssumption ==
    /\ CacheCapacity \in Nat /\ PendingCapacity \in Nat
    /\ Ttl \in Nat /\ RefreshMargin \in Nat /\ RetryInterval \in Nat
    /\ PendingDeadline \in Nat /\ MaximumAttempts \in Nat
    /\ Top \in Nat /\ FrameBound \in Nat
    /\ "none" \notin Address \cup Hardware

VARIABLES clock,
          cache,          \* cache_.entries_
          pending,        \* pending_
          resolutions,    \* the active elements of resolutions_
          queued,         \* number of queue_frame calls so far
          sent,           \* frames handed to frame_transmit, in order
          failed,         \* reports of failure per frame: callback or status
          peer            \* the hardware address each peer announced last

vars == <<clock, cache, pending, resolutions, queued, sent, failed, peer>>

CacheSlot == 1 .. CacheCapacity
PendingSlot == 1 .. PendingCapacity
Frame == 1 .. FrameBound
Time == 0 .. Top

Invalid == [valid |-> FALSE, address |-> "none", hardware |-> "none",
            expires |-> 0, refresh |-> FALSE]

Free == [active |-> FALSE, target |-> "none", deadline |-> 0, frame |-> 0]

Init == /\ clock = 0
        /\ cache = [i \in CacheSlot |-> Invalid]
        /\ pending = [i \in PendingSlot |-> Free]
        /\ resolutions = {}
        /\ queued = 0
        /\ sent = <<>>
        /\ failed = [f \in Frame |-> 0]
        /\ peer = [a \in Address |-> "none"]

\* The first slot of a scan that stops at a match.
First(S) == CHOOSE i \in S : \A j \in S : i <= j

\* deadline_from and expiration_from: the sum saturates.
DeadlineFrom(now, interval) == IF interval > Top - now THEN Top
                                                       ELSE now + interval

\* Mutant: a deadline is met only after its last nanosecond.
ReachedLate(now, deadline) == now > deadline

\* The comparison of every deadline with the clock.
Reached(now, deadline) == now >= deadline
-----------------------------------------------------------------------------
(* The cache *)

Entries(c, a) == {i \in CacheSlot : c[i].valid /\ c[i].address = a}

Expire(c, now) ==
    [i \in CacheSlot |-> IF c[i].valid /\ Reached(now, c[i].expires)
                         THEN Invalid ELSE c[i]]

\* lookup: the hardware address, or "none".
Lookup(c, a, now) ==
    IF \/ Entries(c, a) = {}
       \/ Reached(now, c[First(Entries(c, a))].expires)
    THEN "none"
    ELSE c[First(Entries(c, a))].hardware

\* lookup invalidates the entry it finds expired.
AfterLookup(c, a, now) ==
    IF Entries(c, a) # {} /\ Lookup(c, a, now) = "none"
    THEN [c EXCEPT ![First(Entries(c, a))] = Invalid]
    ELSE c

Put(c, i, a, h, now) ==
    [c EXCEPT ![i] = [valid |-> TRUE, address |-> a, hardware |-> h,
                      expires |-> DeadlineFrom(now, Ttl), refresh |-> FALSE]]

Vacant(c) == {i \in CacheSlot : ~c[i].valid}

\* Mutant: the scan ends at a vacant slot, before it meets the address.
StoreStopsEarly(c, a, h, now) ==
    IF Entries(c, a) \cup Vacant(c) # {}
    THEN Put(c, First(Entries(c, a) \cup Vacant(c)), a, h, now)
    ELSE c

\* The scan of insert: the slot of the address, else the first vacant one,
\* else nothing is stored (cache_full).
Store(c, a, h, now) ==
    IF Entries(c, a) # {} THEN Put(c, First(Entries(c, a)), a, h, now)
    ELSE IF Vacant(c) # {} THEN Put(c, First(Vacant(c)), a, h, now)
    ELSE c

Insert(c, a, h, now) == Store(Expire(c, now), a, h, now)
-----------------------------------------------------------------------------
(* Waiting frames and resolutions *)

Waiting(p, a) == {i \in PendingSlot : p[i].active /\ p[i].target = a}

WaitingFor(p, A) == {i \in PendingSlot : p[i].active /\ p[i].target \in A}

Release(p, slots) == [i \in PendingSlot |-> IF i \in slots THEN Free ELSE p[i]]

\* The failure callback, once for each of these slots.
Report(f, p, slots) ==
    [x \in Frame |-> f[x] + Cardinality({i \in slots : p[i].frame = x})]

\* The k-th of these slots in the order of a scan: k - 1 of them come before.
Nth(slots, k) ==
    CHOOSE i \in slots : Cardinality({j \in slots : j < i}) = k - 1

\* The frames of a target that are transmitted, in the order of the slots.
Transmitted(p, a, broken) ==
    LET chosen == Waiting(p, a) \ broken
    IN [k \in 1 .. Cardinality(chosen) |-> p[Nth(chosen, k)].frame]

Resolving(r) == {x.target : x \in r}

NewResolution(a, now) ==
    [target |-> a, attempts |-> 1,
     retry |-> DeadlineFrom(now, RetryInterval),
     deadline |-> DeadlineFrom(now, PendingDeadline)]

\* The size of resolutions_.
ResolutionCapacity ==
    IF CacheCapacity > PendingCapacity THEN CacheCapacity ELSE PendingCapacity

\* ensure_resolution finds a free element: it is about to send a request.
CanStart(r, a) == /\ MaximumAttempts # 0
                  /\ a \notin Resolving(r)
                  /\ Cardinality(r) < ResolutionCapacity

\* ensure_resolution joins a resolution that is under way.
CanJoin(r, a) == MaximumAttempts # 0 /\ a \in Resolving(r)

\* clear_resolution
ClearResolution(r, a) == {x \in r : x.target # a}

\* Mutant: a flushed slot stays active when its transmission fails.
FlushKeepsBroken(p, a, broken) == Release(p, Waiting(p, a) \ broken)

\* flush_pending releases every slot of the target, transmitted or not.
FlushPending(p, a, broken) == Release(p, Waiting(p, a))

\* cache_.insert, clear_resolution, flush_pending: what on_arp_payload does
\* with the sender of a message, from the cache c and the frames p.
Learn(c, p, a, h, broken) ==
    /\ cache' = Insert(c, a, h, clock)
    /\ resolutions' = ClearResolution(resolutions, a)
    /\ pending' = FlushPending(p, a, broken)
    /\ sent' = sent \o Transmitted(p, a, broken)
    /\ failed' = Report(failed, p, Waiting(p, a) \cap broken)
    /\ peer' = [peer EXCEPT ![a] = h]

\* Mutant: an address is learned without flushing its frames.
OnArpCacheOnly(a, h, broken) ==
    /\ cache' = Insert(cache, a, h, clock)
    /\ peer' = [peer EXCEPT ![a] = h]
    /\ UNCHANGED <<clock, pending, resolutions, queued, sent, failed>>

\* on_arp_payload.  The reply to a request for the local address is output
\* without effect on the state.
OnArpPayload(a, h, broken) ==
    /\ Learn(cache, pending, a, h, broken)
    /\ UNCHANGED <<clock, queued>>
-----------------------------------------------------------------------------
(* queue_frame *)

FreeSlots == {i \in PendingSlot : ~pending[i].active}

Enqueue(p, a, frame) ==
    [p EXCEPT ![First(FreeSlots)] =
        [active |-> TRUE, target |-> a, frame |-> frame,
         deadline |-> DeadlineFrom(clock, PendingDeadline)]]

Reject(frame) == failed' = [failed EXCEPT ![frame] = @ + 1]

\* The frame does not fit into a slot, whether or not it would need one.
QueueTooLarge == /\ Reject(queued + 1)
                 /\ UNCHANGED <<cache, pending, resolutions, sent, peer>>

\* The address is known: the frame is transmitted at once.
QueueHit(a, works) ==
    /\ Lookup(cache, a, clock) # "none"
    /\ IF works THEN /\ sent' = Append(sent, queued + 1)
                     /\ UNCHANGED failed
                ELSE Reject(queued + 1) /\ UNCHANGED sent
    /\ UNCHANGED <<cache, pending, resolutions, peer>>

\* No free slot, no free resolution, or the request cannot be sent: an
\* error is returned and the slot is free again.
QueueRefused(a, works) ==
    /\ Lookup(cache, a, clock) = "none"
    /\ \/ FreeSlots = {}
       \/ ~CanJoin(resolutions, a) /\ ~CanStart(resolutions, a)
       \/ CanStart(resolutions, a) /\ ~works
    /\ cache' = AfterLookup(cache, a, clock)
    /\ Reject(queued + 1)
    /\ UNCHANGED <<pending, resolutions, sent, peer>>

\* The frame waits, for a resolution under way or for a new one.
QueueWaits(a) ==
    /\ Lookup(cache, a, clock) = "none"
    /\ FreeSlots # {}
    /\ \/ CanJoin(resolutions, a) /\ UNCHANGED resolutions
       \/ /\ CanStart(resolutions, a)
          /\ resolutions' = resolutions \cup {NewResolution(a, clock)}
    /\ cache' = AfterLookup(cache, a, clock)
    /\ pending' = Enqueue(pending, a, queued + 1)
    /\ UNCHANGED <<sent, failed, peer>>

\* The transmit callback of the request delivers the reply before it
\* returns: the frame is flushed from its slot inside queue_frame.
QueueAnswered(a, h) ==
    /\ Lookup(cache, a, clock) = "none"
    /\ FreeSlots # {}
    /\ CanStart(resolutions, a)
    /\ Learn(AfterLookup(cache, a, clock), Enqueue(pending, a, queued + 1),
             a, h, {})

QueueFrame(a, works) ==
    /\ queued < FrameBound
    /\ queued' = queued + 1
    /\ \/ QueueTooLarge
       \/ QueueHit(a, works)
       \/ QueueRefused(a, works)
       \/ works /\ QueueWaits(a)
       \/ works /\ \E h \in Hardware : QueueAnswered(a, h)
    /\ UNCHANGED clock

\* resolve: as queue_frame, without a frame.
Resolve(a, works) ==
    /\ Lookup(cache, a, clock) = "none"
    /\ cache' = AfterLookup(cache, a, clock)
    /\ IF works /\ CanStart(resolutions, a)
       THEN resolutions' = resolutions \cup {NewResolution(a, clock)}
       ELSE UNCHANGED resolutions
    /\ UNCHANGED <<clock, pending, queued, sent, failed, peer>>
-----------------------------------------------------------------------------
(* tick *)

Expired(r) == {x \in r : Reached(clock, x.deadline)}

\* Resolutions that tick asks for again.
Due(r) == {x \in r \ Expired(r) : /\ x.attempts < MaximumAttempts
                                  /\ Reached(clock, x.retry)}

\* Mutant: a resolution is given up without its frames.
GivenUpQuietly(r, broken) == {}

\* Resolutions that tick gives up: past the deadline, or the request of a
\* retry could not be sent.
GivenUp(r, broken) == Expired(r) \cup {x \in Due(r) : x.target \in broken}

Retried(x) == [target |-> x.target, attempts |-> x.attempts + 1,
               retry |-> DeadlineFrom(clock, RetryInterval),
               deadline |-> x.deadline]

AfterRetries(r, broken) ==
    (r \ (Expired(r) \cup Due(r)))
        \cup {Retried(x) : x \in {y \in Due(r) : y.target \notin broken}}

\* Entries inside the refresh margin that have not asked for a refresh.
Stale(c) == {i \in CacheSlot : /\ c[i].valid /\ ~c[i].refresh
                               /\ ~Reached(clock, c[i].expires)
                               /\ c[i].expires - clock <= RefreshMargin}

\* Stale entries that would start a resolution of their own, in the order of
\* the scan as long as there are free elements.
Refreshing(c, r, broken) ==
    {i \in Stale(c) :
        /\ MaximumAttempts # 0
        /\ c[i].address \notin Resolving(r) \cup broken
        /\ Cardinality(r)
             + Cardinality({j \in Stale(c) : /\ j < i
                                 /\ c[j].address \notin Resolving(r) \cup broken})
           < ResolutionCapacity}

\* Entries whose address is resolved already only set the flag.
Marked(c, r, broken) ==
    Refreshing(c, r, broken) \cup {i \in Stale(c) : CanJoin(r, c[i].address)}

Refresh(c, r, broken) ==
    /\ cache' = [i \in CacheSlot |-> IF i \in Marked(c, r, broken)
                                     THEN [c[i] EXCEPT !.refresh = TRUE]
                                     ELSE c[i]]
    /\ resolutions' = r \cup {NewResolution(c[i].address, clock) :
                                 i \in Refreshing(c, r, broken)}

OverdueFrames == {i \in PendingSlot : /\ pending[i].active
                                      /\ Reached(clock, pending[i].deadline)}

\* tick: the cache, overdue frames, resolutions, refreshes, in this order.
\* broken and unsent are the targets to which no request can be sent.
Tick(broken, unsent) ==
    LET lost == OverdueFrames \cup
                WaitingFor(pending, Resolving(GivenUp(resolutions, broken)))
    IN /\ pending' = Release(pending, lost)
       /\ failed' = Report(failed, pending, lost)
       /\ Refresh(Expire(cache, clock), AfterRetries(resolutions, broken), unsent)
       /\ UNCHANGED <<clock, queued, sent, peer>>

\* Any of the requests that tick sends may fail.
TickAny == \E broken \in SUBSET Resolving(Due(resolutions)),
              unsent \in SUBSET {cache[i].address : i \in Stale(cache)} :
                  Tick(broken, unsent)

Advance == /\ clock < Top
           /\ clock' = clock + 1
           /\ UNCHANGED <<cache, pending, resolutions, queued, sent, failed, peer>>

Next ==
    \/ Advance
    \/ \E a \in Address, works \in BOOLEAN : QueueFrame(a, works)
    \/ \E a \in Address, works \in BOOLEAN : Resolve(a, works)
    \/ \E a \in Address, h \in Hardware :
            \E broken \in SUBSET Waiting(pending, a) : OnArpPayload(a, h, broken)
    \/ TickAny

Spec == Init /\ [][Next]_vars

\* The event loop calls tick after every poll, so also while frames are
\* overdue, and the clock goes on.
FairSpec ==
    /\ Spec
    /\ WF_clock(Advance)
    /\ WF_vars(OverdueFrames # {} /\ TickAny)
-----------------------------------------------------------------------------
(* Properties *)

Entry == {Invalid} \cup [valid : {TRUE}, address : Address,
                        hardware : Hardware, expires : Time, refresh : BOOLEAN]

PendingFrame == {Free} \cup [active : {TRUE}, target : Address,
                             deadline : Time, frame : Frame]

Resolution == [target : Address, attempts : 1 .. MaximumAttempts,
               retry : Time, deadline : Time]

\* The tables of the resolver are well formed; attempts stay within
\* maximum_attempts and deadlines within the clock's range.
TablesOK == /\ clock \in Time
            /\ queued \in 0 .. FrameBound
            /\ cache \in [CacheSlot -> Entry]
            /\ pending \in [PendingSlot -> PendingFrame]
            /\ resolutions \subseteq Resolution

\* A frame that waits belongs to a resolution under way: whatever ends the
\* resolution (a reply, the deadline, a request that cannot be sent) also
\* settles its frames, so no frame waits for a reply nobody asks for.
PendingHasResolution ==
    \A i \in PendingSlot :
        pending[i].active => pending[i].target \in Resolving(resolutions)

\* A target has at most one resolution, however it was started (a frame,
\* resolve, a refresh).
OneResolutionPerTarget ==
    \A x, y \in resolutions : x.target = y.target => x = y

\* The inductive invariant of the resolver: well-formed tables, a resolution
\* under way for every frame that waits, one resolution per target.
ResolverInv == TablesOK /\ PendingHasResolution /\ OneResolutionPerTarget

\* How often frame f was transmitted, reported as failed (by status or by
\* callback) or is waiting in a slot.
Places(f) ==
    Cardinality({k \in DOMAIN sent : sent[k] = f}) + failed[f]
      + Cardinality({i \in PendingSlot : pending[i].active /\ pending[i].frame = f})

\* Where frame f is, as the caller of queue_frame sees it.
FrameStatus(f) ==
    IF f > queued THEN "none"
    ELSE IF Places(f) # 1 THEN "lost or repeated"
    ELSE IF f \in {sent[k] : k \in DOMAIN sent} THEN "sent"
    ELSE IF failed[f] = 1 THEN "failed" ELSE "waiting"

FrameQueue == INSTANCE FrameQueue WITH status <- [f \in Frame |-> FrameStatus(f)]

\* The resolver implements FrameQueue: whatever the cache, the deadlines and
\* the retries do, each frame is transmitted once, or reported as failed once,
\* or waits in one slot; a frame that was refused or given up is never
\* transmitted afterwards, and none is dropped without a report.
ImplementsFrameQueue == FrameQueue!Spec

\* An address has at most one valid entry, and it holds the hardware address
\* the peer announced last: a frame never goes to an address the peer left.
CacheMatchesPeer ==
    \A i \in CacheSlot : cache[i].valid =>
        /\ cache[i].hardware = peer[cache[i].address]
        /\ Entries(cache, cache[i].address) = {i}

\* No frame waits for an address that lookup would find: queue_frame looks
\* before it waits, and whoever learns an address flushes.
NoWaitForKnownAddress ==
    \A i \in PendingSlot :
        pending[i].active => Lookup(cache, pending[i].target, clock) = "none"

\* LLD.md 7: a frame whose reply never comes is reported, not left hanging:
\* every frame leaves the slots sooner or later, and for good.
EveryFrameSettles ==
    \A f \in Frame :
        <>[]~(\E i \in PendingSlot : pending[i].active /\ pending[i].frame = f)
=============================================================================
