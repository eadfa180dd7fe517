-------------------------- MODULE ArpResolverProofs -------------------------
(***************************************************************************)
(* Proofs about ArpResolver, for every number of peers, slots and attempts *)
(* and all intervals.                                                      *)
(***************************************************************************)
EXTENDS ArpResolver, NumberFacts, FiniteSetTheorems, TLAPS

\* deadline_from stays within the range of the clock, because it saturates.
LEMMA DeadlineInRange ==
    ASSUME NEW now \in Time, NEW interval \in Nat
    PROVE  DeadlineFrom(now, interval) \in Time
BY ArpAssumption DEF DeadlineFrom, Time

\* A new resolution is well formed and is for its target.
LEMMA NewResolutionType ==
    ASSUME NEW a \in Address, NEW now \in Time, MaximumAttempts # 0
    PROVE  /\ NewResolution(a, now) \in Resolution
           /\ NewResolution(a, now).target = a
BY DeadlineInRange, ArpAssumption DEF NewResolution, Resolution

\* A valid entry of the cache is complete.
LEMMA ValidEntry ==
    ASSUME NEW e \in Entry, e.valid
    PROVE  /\ e \in [valid : {TRUE}, address : Address, hardware : Hardware,
                     expires : Time, refresh : BOOLEAN]
           /\ e.address \in Address
           /\ [e EXCEPT !.refresh = TRUE] \in Entry
<1>1. e # Invalid
  BY DEF Invalid
<1>2. e \in [valid : {TRUE}, address : Address, hardware : Hardware,
             expires : Time, refresh : BOOLEAN]
  BY <1>1 DEF Entry
<1>3. e.address \in Address
  BY <1>2
<1>4. [e EXCEPT !.refresh = TRUE] \in
         [valid : {TRUE}, address : Address, hardware : Hardware,
          expires : Time, refresh : BOOLEAN]
  BY <1>2
<1> QED BY <1>2, <1>3, <1>4 DEF Entry

\* insert, lookup and expire keep the cache well formed.
LEMMA CacheType ==
    ASSUME NEW c \in [CacheSlot -> Entry], NEW a \in Address, NEW now \in Time
    PROVE  /\ Expire(c, now) \in [CacheSlot -> Entry]
           /\ AfterLookup(c, a, now) \in [CacheSlot -> Entry]
           /\ \A h \in Hardware : Insert(c, a, h, now) \in [CacheSlot -> Entry]
<1>1. Expire(c, now) \in [CacheSlot -> Entry]
  BY DEF Expire, Entry
<1>2. AfterLookup(c, a, now) \in [CacheSlot -> Entry]
  BY DEF AfterLookup, Entry
<1>3. ASSUME NEW h \in Hardware, NEW i
      PROVE  Put(Expire(c, now), i, a, h, now) \in [CacheSlot -> Entry]
  <2>1. [valid |-> TRUE, address |-> a, hardware |-> h,
         expires |-> DeadlineFrom(now, Ttl), refresh |-> FALSE] \in Entry
    BY DeadlineInRange, ArpAssumption DEF Entry
  <2> QED BY <1>1, <2>1 DEF Put
<1>4. ASSUME NEW h \in Hardware
      PROVE  Insert(c, a, h, now) \in [CacheSlot -> Entry]
  BY <1>1, <1>3 DEF Insert, Store
<1> QED BY <1>1, <1>2, <1>4

\* Retries neither add nor lose a target, except those given up.
LEMMA RetriesKeepTargets ==
    ASSUME NEW r, r \subseteq Resolution, NEW broken, clock \in Time
    PROVE  /\ AfterRetries(r, broken) \subseteq Resolution
           /\ \A x \in r \ GivenUp(r, broken) :
                  x.target \in Resolving(AfterRetries(r, broken))
           /\ (\A x, y \in r : x.target = y.target => x = y) =>
                  \A x, y \in AfterRetries(r, broken) :
                      x.target = y.target => x = y
<1>1. ASSUME NEW x \in Due(r)
      PROVE  Retried(x) \in Resolution /\ Retried(x).target = x.target
  <2>1. x \in Resolution /\ x.attempts < MaximumAttempts
    BY DEF Due
  <2>2. DeadlineFrom(clock, RetryInterval) \in Time
    BY DeadlineInRange, ArpAssumption
  <2>3. x.attempts + 1 \in 1 .. MaximumAttempts
    BY <2>1, ArpAssumption DEF Resolution
  <2> QED BY <2>1, <2>2, <2>3 DEF Resolution, Retried
<1>2. AfterRetries(r, broken) \subseteq Resolution
  BY <1>1 DEF AfterRetries
<1>3. ASSUME NEW x \in r \ GivenUp(r, broken)
      PROVE  x.target \in Resolving(AfterRetries(r, broken))
  <2>1. CASE x \in Due(r)
    <3>1. x.target \notin broken
      BY <2>1, <1>3 DEF GivenUp
    <3>2. Retried(x) \in AfterRetries(r, broken)
      BY <2>1, <3>1 DEF AfterRetries
    <3> QED BY <3>2, <1>1, <2>1 DEF Resolving
  <2>2. CASE x \notin Due(r)
    <3>1. x \in AfterRetries(r, broken)
      BY <2>2, <1>3 DEF AfterRetries, GivenUp
    <3> QED BY <3>1 DEF Resolving
  <2> QED BY <2>1, <2>2
<1>4. ASSUME \A x, y \in r : x.target = y.target => x = y,
             NEW x \in AfterRetries(r, broken), NEW y \in AfterRetries(r, broken),
             x.target = y.target
      PROVE  x = y
  <2>1. ASSUME NEW z \in AfterRetries(r, broken)
        PROVE  \/ z \in r \ Due(r)
               \/ \E w \in Due(r) : z = Retried(w) /\ z.target = w.target
    BY <1>1 DEF AfterRetries
  <2>2. Due(r) \subseteq r
    BY DEF Due
  <2> QED BY <1>4, <2>1, <2>2
<1> QED BY <1>2, <1>3, <1>4

\* The refreshes of a tick add well-formed resolutions, lose none and give
\* no target a second one.
LEMMA RefreshKeepsTargets ==
    ASSUME NEW c \in [CacheSlot -> Entry], NEW r, r \subseteq Resolution,
           NEW unsent, clock \in Time, Refresh(c, r, unsent)
    PROVE  /\ cache' \in [CacheSlot -> Entry]
           /\ resolutions' \subseteq Resolution
           /\ Resolving(r) \subseteq Resolving(resolutions')
           /\ (\A x, y \in r : x.target = y.target => x = y) =>
                  \A x, y \in resolutions' : x.target = y.target => x = y
<1>1. cache' \in [CacheSlot -> Entry]
  <2>1. ASSUME NEW i \in Marked(c, r, unsent)
        PROVE  i \in CacheSlot /\ c[i].valid
    BY DEF Marked, Refreshing, Stale
  <2>2. ASSUME NEW i \in Marked(c, r, unsent)
        PROVE  [c[i] EXCEPT !.refresh = TRUE] \in Entry
    BY <2>1, ValidEntry
  <2> QED BY <2>2 DEF Refresh
<1>2. ASSUME NEW i \in Refreshing(c, r, unsent)
      PROVE  /\ NewResolution(c[i].address, clock) \in Resolution
             /\ NewResolution(c[i].address, clock).target = c[i].address
             /\ c[i].address \notin Resolving(r)
  <2>1. /\ c[i].valid /\ c[i] \in Entry /\ MaximumAttempts # 0
        /\ c[i].address \notin Resolving(r)
    BY DEF Refreshing, Stale
  <2>2. c[i].address \in Address
    BY <2>1, ValidEntry
  <2> QED BY <2>1, <2>2, NewResolutionType
<1>3. resolutions' = r \cup {NewResolution(c[i].address, clock) :
                                i \in Refreshing(c, r, unsent)}
  BY DEF Refresh
<1>4. resolutions' \subseteq Resolution /\ Resolving(r) \subseteq Resolving(resolutions')
  BY <1>2, <1>3 DEF Resolving
<1>5. ASSUME \A x, y \in r : x.target = y.target => x = y,
             NEW x \in resolutions', NEW y \in resolutions', x.target = y.target
      PROVE  x = y
  <2>1. ASSUME NEW z \in resolutions'
        PROVE  \/ z \in r /\ z.target \in Resolving(r)
               \/ z = NewResolution(z.target, clock) /\ z.target \notin Resolving(r)
    BY <1>2, <1>3 DEF Resolving
  <2> QED BY <1>5, <2>1
<1> QED BY <1>1, <1>4, <1>5

\* The empty tables satisfy the invariant.
LEMMA IndInit == Init => ResolverInv
<1> SUFFICES ASSUME Init PROVE ResolverInv
  OBVIOUS
<1>1. TablesOK
  BY ArpAssumption DEF Init, TablesOK, Time, Entry, PendingFrame
<1>2. PendingHasResolution /\ OneResolutionPerTarget
  BY DEF Init, PendingHasResolution, OneResolutionPerTarget, Free
<1> QED BY <1>1, <1>2 DEF ResolverInv

\* A frame put into a slot is the only change to the pending frames.
LEMMA EnqueueType ==
    ASSUME TablesOK, NEW a \in Address, queued < FrameBound
    PROVE  /\ Enqueue(pending, a, queued + 1) \in [PendingSlot -> PendingFrame]
           /\ \A i \in PendingSlot :
                 \/ Enqueue(pending, a, queued + 1)[i] = pending[i]
                 \/ Enqueue(pending, a, queued + 1)[i].active
                    /\ Enqueue(pending, a, queued + 1)[i].target = a
<1> DEFINE new == [active |-> TRUE, target |-> a, frame |-> queued + 1,
                   deadline |-> DeadlineFrom(clock, PendingDeadline)]
<1>1. new \in PendingFrame /\ new.active /\ new.target = a
  <2>1. queued + 1 \in Frame
    BY ArpAssumption DEF TablesOK, Frame
  <2>2. DeadlineFrom(clock, PendingDeadline) \in Time
    BY DeadlineInRange, ArpAssumption DEF TablesOK
  <2> QED BY <2>1, <2>2 DEF PendingFrame
<1>2. Enqueue(pending, a, queued + 1) = [pending EXCEPT ![First(FreeSlots)] = new]
  BY DEF Enqueue
<1>3. pending \in [PendingSlot -> PendingFrame]
  BY DEF TablesOK
<1> HIDE DEF new
<1> QED BY <1>1, <1>2, <1>3

\* Learning an address settles the frames and the resolution of that address
\* and touches no other.
LEMMA LearnKeeps ==
    ASSUME TablesOK, OneResolutionPerTarget,
           NEW c \in [CacheSlot -> Entry], NEW p \in [PendingSlot -> PendingFrame],
           NEW a \in Address, NEW h \in Hardware, NEW broken,
           \A i \in PendingSlot : p[i].active =>
               p[i].target \in Resolving(resolutions) \cup {a},
           Learn(c, p, a, h, broken)
    PROVE  /\ cache' \in [CacheSlot -> Entry]
           /\ pending' \in [PendingSlot -> PendingFrame]
           /\ resolutions' \subseteq Resolution
           /\ PendingHasResolution'
           /\ OneResolutionPerTarget'
<1>1. cache' \in [CacheSlot -> Entry]
  BY CacheType DEF Learn, TablesOK
<1>2. pending' = [i \in PendingSlot |-> IF i \in Waiting(p, a) THEN Free ELSE p[i]]
  BY DEF Learn, FlushPending, Release
<1>3. pending' \in [PendingSlot -> PendingFrame]
  BY <1>2 DEF PendingFrame
<1>4. resolutions' = {x \in resolutions : x.target # a}
  BY DEF Learn, ClearResolution
<1>5. resolutions' \subseteq Resolution /\ OneResolutionPerTarget'
  BY <1>4 DEF TablesOK, OneResolutionPerTarget
<1>6. ASSUME NEW i \in PendingSlot, pending'[i].active
      PROVE  pending'[i].target \in Resolving(resolutions')
  <2>1. i \notin Waiting(p, a) /\ pending'[i] = p[i]
    BY <1>2, <1>6 DEF Free
  <2>2. p[i].target # a /\ p[i].target \in Resolving(resolutions)
    BY <2>1, <1>6 DEF Waiting
  <2> QED BY <2>1, <2>2, <1>4 DEF Resolving
<1> QED BY <1>1, <1>3, <1>5, <1>6 DEF PendingHasResolution

\* A resolution that ensure_resolution starts is for a new target.
LEMMA StartKeeps ==
    ASSUME TablesOK, OneResolutionPerTarget, NEW a \in Address,
           CanStart(resolutions, a),
           resolutions' = resolutions \cup {NewResolution(a, clock)}
    PROVE  /\ resolutions' \subseteq Resolution
           /\ OneResolutionPerTarget'
           /\ Resolving(resolutions') = Resolving(resolutions) \cup {a}
<1>1. /\ NewResolution(a, clock) \in Resolution
      /\ NewResolution(a, clock).target = a
      /\ a \notin Resolving(resolutions)
  BY NewResolutionType DEF CanStart, TablesOK
<1>2. resolutions' \subseteq Resolution
  BY <1>1 DEF TablesOK
<1>3. OneResolutionPerTarget'
  BY <1>1 DEF OneResolutionPerTarget, Resolving
<1>4. Resolving(resolutions') = Resolving(resolutions) \cup {a}
  BY <1>1 DEF Resolving
<1> QED BY <1>2, <1>3, <1>4

\* queue_frame keeps the invariant.
LEMMA QueueFrameKeeps ==
    ASSUME ResolverInv, NEW a \in Address, NEW works \in BOOLEAN, QueueFrame(a, works)
    PROVE  ResolverInv'
<1>1. TablesOK /\ PendingHasResolution /\ OneResolutionPerTarget
  BY DEF ResolverInv
<1>2. queued < FrameBound /\ queued' = queued + 1 /\ clock' = clock
  BY DEF QueueFrame
<1>3. clock' \in Time /\ queued' \in 0 .. FrameBound
  BY <1>1, <1>2, ArpAssumption DEF TablesOK
<1>4. AfterLookup(cache, a, clock) \in [CacheSlot -> Entry]
  BY <1>1, CacheType DEF TablesOK
<1>5. CASE QueueTooLarge \/ QueueHit(a, works)
  <2>1. UNCHANGED <<cache, pending, resolutions>>
    BY <1>5 DEF QueueTooLarge, QueueHit
  <2> QED BY <1>1, <1>3, <2>1
        DEF ResolverInv, TablesOK, PendingHasResolution, OneResolutionPerTarget
<1>6. CASE QueueRefused(a, works)
  <2>1. /\ UNCHANGED <<pending, resolutions>>
        /\ cache' = AfterLookup(cache, a, clock)
    BY <1>6 DEF QueueRefused
  <2> QED BY <1>1, <1>3, <1>4, <2>1
        DEF ResolverInv, TablesOK, PendingHasResolution, OneResolutionPerTarget
<1>7. CASE QueueWaits(a)
  <2>1. /\ cache' = AfterLookup(cache, a, clock)
        /\ pending' = Enqueue(pending, a, queued + 1)
    BY <1>7 DEF QueueWaits
  <2>2. /\ resolutions' \subseteq Resolution
        /\ OneResolutionPerTarget'
        /\ Resolving(resolutions') = Resolving(resolutions) \cup {a}
    <3>1. CASE CanJoin(resolutions, a) /\ UNCHANGED resolutions
      BY <3>1, <1>1 DEF CanJoin, TablesOK, OneResolutionPerTarget, Resolving
    <3>2. CASE /\ CanStart(resolutions, a)
               /\ resolutions' = resolutions \cup {NewResolution(a, clock)}
      BY <3>2, <1>1, StartKeeps
    <3> QED BY <1>7, <3>1, <3>2 DEF QueueWaits
  <2>3. PendingHasResolution'
    <3> SUFFICES ASSUME NEW i \in PendingSlot, pending'[i].active
                 PROVE  pending'[i].target \in Resolving(resolutions')
      BY DEF PendingHasResolution
    <3>1. \/ pending'[i] = pending[i]
          \/ pending'[i].target = a
      BY <1>1, <1>2, <2>1, EnqueueType
    <3> QED BY <3>1, <2>2, <1>1 DEF PendingHasResolution
  <2>4. pending' \in [PendingSlot -> PendingFrame]
    BY <1>1, <1>2, <2>1, EnqueueType
  <2> QED BY <1>3, <1>4, <2>1, <2>2, <2>3, <2>4 DEF ResolverInv, TablesOK
<1>8. ASSUME NEW h \in Hardware, QueueAnswered(a, h)
      PROVE  ResolverInv'
  <2> DEFINE p == Enqueue(pending, a, queued + 1)
  <2>1. p \in [PendingSlot -> PendingFrame]
    BY <1>1, <1>2, EnqueueType
  <2>2. ASSUME NEW i \in PendingSlot, p[i].active
        PROVE  p[i].target \in Resolving(resolutions) \cup {a}
    <3>1. \/ p[i] = pending[i]
          \/ p[i].target = a
      BY <1>1, <1>2, EnqueueType
    <3> QED BY <3>1, <2>2, <1>1 DEF PendingHasResolution
  <2>3. Learn(AfterLookup(cache, a, clock), p, a, h, {})
    BY <1>8 DEF QueueAnswered
  <2> HIDE DEF p
  <2>4. /\ cache' \in [CacheSlot -> Entry]
        /\ pending' \in [PendingSlot -> PendingFrame]
        /\ resolutions' \subseteq Resolution
        /\ PendingHasResolution'
        /\ OneResolutionPerTarget'
    BY <1>1, <1>4, <2>1, <2>2, <2>3, LearnKeeps
  <2> QED BY <1>3, <2>4 DEF ResolverInv, TablesOK
<1> QED BY <1>5, <1>6, <1>7, <1>8 DEF QueueFrame

\* resolve keeps the invariant.
LEMMA ResolveKeeps ==
    ASSUME ResolverInv, NEW a \in Address, NEW works \in BOOLEAN, Resolve(a, works)
    PROVE  ResolverInv'
<1>1. TablesOK /\ PendingHasResolution /\ OneResolutionPerTarget
  BY DEF ResolverInv
<1>2. /\ cache' = AfterLookup(cache, a, clock)
      /\ UNCHANGED <<clock, pending, queued>>
  BY DEF Resolve
<1>3. cache' \in [CacheSlot -> Entry]
  BY <1>1, <1>2, CacheType DEF TablesOK
<1>4. /\ resolutions' \subseteq Resolution
      /\ OneResolutionPerTarget'
      /\ Resolving(resolutions) \subseteq Resolving(resolutions')
  <2>1. CASE UNCHANGED resolutions
    BY <2>1, <1>1 DEF TablesOK, OneResolutionPerTarget, Resolving
  <2>2. CASE /\ CanStart(resolutions, a)
             /\ resolutions' = resolutions \cup {NewResolution(a, clock)}
    BY <2>2, <1>1, StartKeeps
  <2> QED BY <2>1, <2>2 DEF Resolve
<1>5. PendingHasResolution'
  BY <1>1, <1>2, <1>4 DEF PendingHasResolution
<1> QED BY <1>1, <1>2, <1>3, <1>4, <1>5 DEF ResolverInv, TablesOK

\* on_arp_payload keeps the invariant.
LEMMA OnArpPayloadKeeps ==
    ASSUME ResolverInv, NEW a \in Address, NEW h \in Hardware, NEW broken,
           OnArpPayload(a, h, broken)
    PROVE  ResolverInv'
<1>1. TablesOK /\ PendingHasResolution /\ OneResolutionPerTarget
  BY DEF ResolverInv
<1>2. Learn(cache, pending, a, h, broken) /\ UNCHANGED <<clock, queued>>
  BY DEF OnArpPayload
<1>3. /\ cache \in [CacheSlot -> Entry] /\ pending \in [PendingSlot -> PendingFrame]
      /\ \A i \in PendingSlot : pending[i].active =>
             pending[i].target \in Resolving(resolutions) \cup {a}
  BY <1>1 DEF TablesOK, PendingHasResolution
<1>4. /\ cache' \in [CacheSlot -> Entry]
      /\ pending' \in [PendingSlot -> PendingFrame]
      /\ resolutions' \subseteq Resolution
      /\ PendingHasResolution'
      /\ OneResolutionPerTarget'
  BY <1>1, <1>2, <1>3, LearnKeeps
<1> QED BY <1>1, <1>2, <1>4 DEF ResolverInv, TablesOK

\* tick keeps the invariant: a resolution it ends takes its frames along.
LEMMA TickKeeps ==
    ASSUME ResolverInv, NEW broken, NEW unsent, Tick(broken, unsent)
    PROVE  ResolverInv'
<1> DEFINE r == AfterRetries(resolutions, broken)
           ended == WaitingFor(pending, Resolving(GivenUp(resolutions, broken)))
<1>1. TablesOK /\ PendingHasResolution /\ OneResolutionPerTarget
  BY DEF ResolverInv
<1>2. /\ pending' = Release(pending, OverdueFrames \cup ended)
      /\ Refresh(Expire(cache, clock), r, unsent)
      /\ UNCHANGED <<clock, queued>>
  BY DEF Tick
<1>3. Expire(cache, clock) \in [CacheSlot -> Entry]
  BY <1>1 DEF TablesOK, Expire, Entry
<1>4. /\ r \subseteq Resolution
      /\ \A x \in resolutions \ GivenUp(resolutions, broken) :
             x.target \in Resolving(r)
      /\ \A x, y \in r : x.target = y.target => x = y
  BY <1>1, RetriesKeepTargets DEF TablesOK, OneResolutionPerTarget
<1>5. clock \in Time
  BY <1>1 DEF TablesOK
<1> HIDE DEF r
<1>6. /\ cache' \in [CacheSlot -> Entry]
      /\ resolutions' \subseteq Resolution
      /\ Resolving(r) \subseteq Resolving(resolutions')
      /\ OneResolutionPerTarget'
  BY <1>2, <1>3, <1>4, <1>5, RefreshKeepsTargets DEF OneResolutionPerTarget
<1>7. pending' \in [PendingSlot -> PendingFrame]
  BY <1>1, <1>2 DEF TablesOK, Release, PendingFrame
<1>8. ASSUME NEW i \in PendingSlot, pending'[i].active
      PROVE  pending'[i].target \in Resolving(resolutions')
  <2>1. i \notin ended /\ pending'[i] = pending[i]
    BY <1>2, <1>8 DEF Release, Free
  <2>2. PICK x \in resolutions : x.target = pending[i].target
    BY <1>1, <1>8, <2>1 DEF PendingHasResolution, Resolving
  <2>3. x \notin GivenUp(resolutions, broken)
    BY <1>8, <2>1, <2>2 DEF WaitingFor, Resolving
  <2>4. x.target \in Resolving(r)
    BY <1>4, <2>3
  <2> QED BY <1>6, <2>1, <2>2, <2>4
<1> QED BY <1>1, <1>2, <1>6, <1>7, <1>8 DEF ResolverInv, TablesOK, PendingHasResolution

\* The inductive invariant holds in every state of the resolver.
THEOREM ArpInvariant == Spec => []ResolverInv
<1>1. Init => ResolverInv
  BY IndInit
<1>2. ResolverInv /\ [Next]_vars => ResolverInv'
  <2> SUFFICES ASSUME ResolverInv, [Next]_vars PROVE ResolverInv'
    OBVIOUS
  <2>1. CASE Advance
    <3>1. clock' \in Time
      BY <2>1, ArpAssumption DEF Advance, ResolverInv, TablesOK, Time
    <3>2. UNCHANGED <<cache, pending, resolutions, queued>>
      BY <2>1 DEF Advance
    <3> QED BY <3>1, <3>2
          DEF ResolverInv, TablesOK, PendingHasResolution, OneResolutionPerTarget
  <2>2. CASE \E a \in Address, works \in BOOLEAN : QueueFrame(a, works)
    BY <2>2, QueueFrameKeeps
  <2>3. CASE \E a \in Address, works \in BOOLEAN : Resolve(a, works)
    BY <2>3, ResolveKeeps
  <2>4. CASE \E a \in Address, h \in Hardware :
                 \E broken \in SUBSET Waiting(pending, a) : OnArpPayload(a, h, broken)
    BY <2>4, OnArpPayloadKeeps
  <2>5. CASE TickAny
    BY <2>5, TickKeeps DEF TickAny
  <2>6. CASE UNCHANGED vars
    BY <2>6 DEF vars, ResolverInv, TablesOK, PendingHasResolution, OneResolutionPerTarget
  <2> QED BY <2>1, <2>2, <2>3, <2>4, <2>5, <2>6 DEF Next
<1> QED BY <1>1, <1>2, PTL DEF Spec

\* No frame waits without a resolution under way for its target.
THEOREM NoOrphanFrame == Spec => []PendingHasResolution
<1>1. ResolverInv => PendingHasResolution
  BY DEF ResolverInv
<1> QED BY <1>1, ArpInvariant, PTL

\* No target is resolved twice at once.
THEOREM SingleResolution == Spec => []OneResolutionPerTarget
<1>1. ResolverInv => OneResolutionPerTarget
  BY DEF ResolverInv
<1> QED BY <1>1, ArpInvariant, PTL
-----------------------------------------------------------------------------
(* The cache. *)

\* First is the least element, of a set that has one.
LEMMA FirstIs ==
    ASSUME NEW S, S \subseteq Nat, S # {}
    PROVE  First(S) \in S /\ \A j \in S : First(S) <= j
  BY LeastElement DEF First

\* The cache c has one entry per address, with the hardware address in k.
CacheOK(c, k) ==
    \A i \in CacheSlot : c[i].valid =>
        /\ c[i].hardware = k[c[i].address]
        /\ \A j \in CacheSlot : c[j].valid /\ c[j].address = c[i].address => j = i

\* Whatever the cache c has for the address a is out of date.
Unknown(c, a, now) ==
    \A j \in CacheSlot : c[j].valid /\ c[j].address = a => Reached(now, c[j].expires)

\* d has no entry that c does not have.
Fewer(c, d) ==
    \A i \in CacheSlot : d[i].valid =>
        /\ c[i].valid /\ d[i].address = c[i].address
        /\ d[i].hardware = c[i].hardware /\ d[i].expires = c[i].expires

\* Removing entries of the cache keeps it unambiguous and makes no address known.
LEMMA FewerKeeps ==
    ASSUME NEW c, NEW d, Fewer(c, d)
    PROVE  /\ \A k : CacheOK(c, k) => CacheOK(d, k)
           /\ \A a, now : Unknown(c, a, now) => Unknown(d, a, now)
  BY DEF Fewer, CacheOK, Unknown

\* lookup finds nothing exactly when there is no entry that is still good.
LEMMA LookupNone ==
    ASSUME NEW c \in [CacheSlot -> Entry], NEW k, CacheOK(c, k), NEW a, NEW now
    PROVE  (Lookup(c, a, now) = "none") <=> Unknown(c, a, now)
<1>1. CASE Entries(c, a) = {}
  BY <1>1 DEF Entries, Lookup, Unknown
<1>2. CASE Entries(c, a) # {}
  <2> DEFINE i == First(Entries(c, a))
  <2>1. Entries(c, a) \subseteq Nat
    BY ArpAssumption DEF Entries, CacheSlot
  <2>2. i \in Entries(c, a)
    BY <1>2, <2>1, FirstIs
  <2> HIDE DEF i
  <2>3. i \in CacheSlot /\ c[i].valid /\ c[i].address = a
    BY <2>2 DEF Entries
  <2>4. c[i].hardware # "none"
    <3>1. c[i] \in [valid : {TRUE}, address : Address, hardware : Hardware,
                    expires : Time, refresh : BOOLEAN]
      BY <2>3, ValidEntry
    <3> QED BY <3>1, ArpAssumption
  <2>5. Unknown(c, a, now) <=> Reached(now, c[i].expires)
    BY <2>3 DEF CacheOK, Unknown
  <2>6. (Lookup(c, a, now) = "none") <=> Reached(now, c[i].expires)
    BY <1>2, <2>4 DEF Lookup, i
  <2> QED BY <2>5, <2>6
<1> QED BY <1>1, <1>2

\* lookup and expire only remove entries.
LEMMA RemovalsAreFewer ==
    ASSUME NEW c \in [CacheSlot -> Entry], NEW a, NEW now
    PROVE  Fewer(c, AfterLookup(c, a, now)) /\ Fewer(c, Expire(c, now))
<1>1. ~Invalid.valid
  BY DEF Invalid
<1>2. Fewer(c, Expire(c, now))
  BY <1>1 DEF Fewer, Expire
<1>3. Fewer(c, c)
  BY DEF Fewer
<1>4. ASSUME NEW i PROVE Fewer(c, [c EXCEPT ![i] = Invalid])
  BY <1>1 DEF Fewer
<1> QED BY <1>2, <1>3, <1>4 DEF AfterLookup

\* insert stores the latest address in the only entry of the peer, or in none,
\* and leaves the other peers' entries alone.
LEMMA InsertIs ==
    ASSUME NEW c \in [CacheSlot -> Entry], NEW k \in [Address -> Hardware \cup {"none"}],
           CacheOK(c, k), NEW a \in Address, NEW h \in Hardware, NEW now \in Time
    PROVE  /\ CacheOK(Insert(c, a, h, now), [k EXCEPT ![a] = h])
           /\ \A b : b # a /\ Unknown(c, b, now) => Unknown(Insert(c, a, h, now), b, now)
<1> DEFINE e == Expire(c, now)
           l == [k EXCEPT ![a] = h]
           new == [valid |-> TRUE, address |-> a, hardware |-> h,
                   expires |-> DeadlineFrom(now, Ttl), refresh |-> FALSE]
           d == Store(e, a, h, now)
<1>1. e \in [CacheSlot -> Entry] /\ CacheOK(e, k)
      /\ \A b : Unknown(c, b, now) => Unknown(e, b, now)
  BY CacheType, RemovalsAreFewer, FewerKeeps
<1>2. Insert(c, a, h, now) = d
  BY DEF Insert
<1>3. l \in [Address -> Hardware \cup {"none"}] /\ l[a] = h /\ \A b : b # a => l[b] = k[b]
  OBVIOUS
<1>4. new.valid /\ new.address = a /\ new.hardware = h
  OBVIOUS
<1> HIDE DEF e, new, l
<1>5. \A i \in CacheSlot : e[i].valid => e[i].address \in Address
  BY <1>1, ValidEntry
<1>6. ASSUME NEW i \in CacheSlot, \A j \in Entries(e, a) : j = i,
             ~e[i].valid \/ e[i].address = a, d = [e EXCEPT ![i] = new]
      PROVE  CacheOK(d, l) /\ \A b : b # a /\ Unknown(e, b, now) => Unknown(d, b, now)
  <2>1. d[i] = new /\ \A j \in CacheSlot : j # i => d[j] = e[j]
    BY <1>1, <1>6
  <2>2. \A j \in CacheSlot : j # i /\ e[j].valid => e[j].address # a
    BY <1>6 DEF Entries
  <2> HIDE DEF d
  <2>3. CacheOK(d, l)
    BY <1>1, <1>3, <1>4, <1>5, <2>1, <2>2 DEF CacheOK
  <2>4. ASSUME NEW b, b # a, Unknown(e, b, now) PROVE Unknown(d, b, now)
    BY <1>4, <2>1, <2>4 DEF Unknown
  <2> QED BY <2>3, <2>4
<1>7. Entries(e, a) \subseteq Nat /\ Vacant(e) \subseteq Nat
  BY ArpAssumption DEF Entries, Vacant, CacheSlot
<1>8. CASE Entries(e, a) # {}
  <2> DEFINE i == First(Entries(e, a))
  <2>1. i \in Entries(e, a)
    BY <1>7, <1>8, FirstIs
  <2>2. d = [e EXCEPT ![i] = new]
    BY <1>8 DEF Store, Put, new
  <2> HIDE DEF i
  <2>3. i \in CacheSlot /\ e[i].valid /\ e[i].address = a
    BY <2>1 DEF Entries
  <2>4. \A j \in Entries(e, a) : j = i
    BY <1>1, <2>3 DEF CacheOK, Entries
  <2>5. CacheOK(d, l) /\ \A b : b # a /\ Unknown(e, b, now) => Unknown(d, b, now)
    BY <1>6, <2>2, <2>3, <2>4
  <2> QED BY <1>1, <1>2, <2>5 DEF l
<1>9. CASE Entries(e, a) = {} /\ Vacant(e) # {}
  <2> DEFINE i == First(Vacant(e))
  <2>1. i \in Vacant(e)
    BY <1>7, <1>9, FirstIs
  <2>2. d = [e EXCEPT ![i] = new]
    BY <1>9 DEF Store, Put, new
  <2> HIDE DEF i
  <2>3. i \in CacheSlot /\ ~e[i].valid
    BY <2>1 DEF Vacant
  <2>4. CacheOK(d, l) /\ \A b : b # a /\ Unknown(e, b, now) => Unknown(d, b, now)
    BY <1>6, <1>9, <2>2, <2>3
  <2> QED BY <1>1, <1>2, <2>4 DEF l
<1>10. CASE Entries(e, a) = {} /\ Vacant(e) = {}
  <2>1. d = e
    BY <1>10 DEF Store
  <2>2. CacheOK(e, l)
    BY <1>1, <1>3, <1>5, <1>10 DEF CacheOK, Entries
  <2> QED BY <1>1, <1>2, <2>1, <2>2 DEF l
<1> QED BY <1>8, <1>9, <1>10

\* What is known about the peers: their latest addresses, in one entry each,
\* and no frame waits for one of them.
KnownInv ==
    /\ peer \in [Address -> Hardware \cup {"none"}]
    /\ CacheOK(cache, peer)
    /\ \A i \in PendingSlot : pending[i].active => Unknown(cache, pending[i].target, clock)

\* A step that removes entries and adds no frame for a known address.
LEMMA KnownFewer ==
    ASSUME KnownInv, UNCHANGED <<clock, peer>>, Fewer(cache, cache'),
           \A i \in PendingSlot : pending'[i].active =>
               \/ pending[i].active /\ pending'[i].target = pending[i].target
               \/ Unknown(cache, pending'[i].target, clock)
    PROVE  KnownInv'
<1>1. CacheOK(cache', peer)
  BY FewerKeeps DEF KnownInv
<1>2. ASSUME NEW i \in PendingSlot, pending'[i].active
      PROVE  Unknown(cache', pending'[i].target, clock)
  <2>1. Unknown(cache, pending'[i].target, clock)
    BY <1>2 DEF KnownInv
  <2> QED BY <2>1, FewerKeeps
<1> QED BY <1>1, <1>2 DEF KnownInv

\* Whoever learns an address flushes the frames that wait for it.
LEMMA KnownLearn ==
    ASSUME KnownInv, clock \in Time, UNCHANGED clock,
           NEW c \in [CacheSlot -> Entry], Fewer(cache, c),
           NEW p \in [PendingSlot -> PendingFrame],
           NEW a \in Address, NEW h \in Hardware, NEW broken,
           \A i \in PendingSlot : p[i].active =>
               p[i].target = a \/ Unknown(cache, p[i].target, clock),
           Learn(c, p, a, h, broken)
    PROVE  KnownInv'
<1>1. CacheOK(c, peer) /\ peer \in [Address -> Hardware \cup {"none"}]
  BY FewerKeeps DEF KnownInv
<1>2. cache' = Insert(c, a, h, clock) /\ peer' = [peer EXCEPT ![a] = h]
  BY DEF Learn
<1>3. /\ CacheOK(cache', peer')
      /\ \A b : b # a /\ Unknown(c, b, clock) => Unknown(cache', b, clock)
  BY <1>1, <1>2, InsertIs
<1>4. peer' \in [Address -> Hardware \cup {"none"}]
  BY <1>1, <1>2
<1>5. pending' = [i \in PendingSlot |-> IF i \in Waiting(p, a) THEN Free ELSE p[i]]
  BY DEF Learn, FlushPending, Release
<1>6. ASSUME NEW i \in PendingSlot, pending'[i].active
      PROVE  Unknown(cache', pending'[i].target, clock)
  <2>1. i \notin Waiting(p, a) /\ pending'[i] = p[i]
    BY <1>5, <1>6 DEF Free
  <2>2. p[i].target # a /\ Unknown(cache, p[i].target, clock)
    BY <1>6, <2>1 DEF Waiting
  <2>3. Unknown(c, p[i].target, clock)
    BY <2>2, FewerKeeps
  <2> QED BY <1>3, <2>1, <2>2, <2>3
<1> QED BY <1>3, <1>4, <1>6 DEF KnownInv

\* queue_frame looks for the address before it lets a frame wait.
LEMMA KnownQueueFrame ==
    ASSUME ResolverInv, KnownInv, NEW a \in Address, NEW works \in BOOLEAN,
           QueueFrame(a, works)
    PROVE  KnownInv'
<1>1. TablesOK /\ queued < FrameBound /\ clock' = clock
  BY DEF ResolverInv, QueueFrame
<1>2. /\ cache \in [CacheSlot -> Entry] /\ pending \in [PendingSlot -> PendingFrame]
      /\ clock \in Time /\ AfterLookup(cache, a, clock) \in [CacheSlot -> Entry]
  BY <1>1, CacheType DEF TablesOK
<1>3. Fewer(cache, cache) /\ Fewer(cache, AfterLookup(cache, a, clock))
  BY <1>2, RemovalsAreFewer DEF Fewer
<1>4. CASE QueueTooLarge \/ QueueHit(a, works)
  <2>1. UNCHANGED <<cache, pending, peer>>
    BY <1>4 DEF QueueTooLarge, QueueHit
  <2> QED BY <1>1, <1>3, <2>1, KnownFewer
<1>5. CASE QueueRefused(a, works)
  <2>1. UNCHANGED <<pending, peer>> /\ cache' = AfterLookup(cache, a, clock)
    BY <1>5 DEF QueueRefused
  <2> QED BY <1>1, <1>3, <2>1, KnownFewer
<1>6. ASSUME Lookup(cache, a, clock) = "none" PROVE Unknown(cache, a, clock)
  BY <1>2, <1>6, LookupNone DEF KnownInv
<1>7. CASE QueueWaits(a)
  <2>1. /\ cache' = AfterLookup(cache, a, clock) /\ peer' = peer
        /\ pending' = Enqueue(pending, a, queued + 1) /\ Unknown(cache, a, clock)
    BY <1>6, <1>7 DEF QueueWaits
  <2>2. ASSUME NEW i \in PendingSlot, pending'[i].active
        PROVE  \/ pending[i].active /\ pending'[i].target = pending[i].target
               \/ Unknown(cache, pending'[i].target, clock)
    <3>1. pending'[i] = pending[i] \/ pending'[i].target = a
      BY <1>1, <2>1, EnqueueType
    <3> QED BY <2>1, <2>2, <3>1
  <2> QED BY <1>1, <1>3, <2>1, <2>2, KnownFewer
<1>8. ASSUME NEW h \in Hardware, QueueAnswered(a, h) PROVE KnownInv'
  <2> DEFINE p == Enqueue(pending, a, queued + 1)
             c == AfterLookup(cache, a, clock)
  <2>1. p \in [PendingSlot -> PendingFrame]
    BY <1>1, EnqueueType
  <2>2. ASSUME NEW i \in PendingSlot, p[i].active
        PROVE  p[i].target = a \/ Unknown(cache, p[i].target, clock)
    <3>1. p[i] = pending[i] \/ p[i].target = a
      BY <1>1, EnqueueType
    <3> QED BY <2>2, <3>1 DEF KnownInv
  <2>3. Learn(c, p, a, h, {})
    BY <1>8 DEF QueueAnswered
  <2>4. c \in [CacheSlot -> Entry] /\ Fewer(cache, c)
    BY <1>2, <1>3
  <2> HIDE DEF p, c
  <2> QED BY <1>1, <1>2, <2>1, <2>2, <2>3, <2>4, KnownLearn
<1> QED BY <1>4, <1>5, <1>7, <1>8 DEF QueueFrame

\* tick only forgets addresses and frames.
LEMMA KnownTick ==
    ASSUME ResolverInv, KnownInv, NEW broken, NEW unsent, Tick(broken, unsent)
    PROVE  KnownInv'
<1> DEFINE e == Expire(cache, clock)
           r == AfterRetries(resolutions, broken)
           lost == OverdueFrames \cup
                   WaitingFor(pending, Resolving(GivenUp(resolutions, broken)))
<1>1. /\ pending' = Release(pending, lost) /\ Refresh(e, r, unsent)
      /\ UNCHANGED <<clock, peer>>
  BY DEF Tick
<1>2. e \in [CacheSlot -> Entry] /\ Fewer(cache, e)
  BY CacheType, RemovalsAreFewer DEF ResolverInv, TablesOK, Expire, Entry
<1> HIDE DEF e, r, lost
<1>3. Fewer(e, cache')
  <2>1. ASSUME NEW i \in CacheSlot, e[i].valid
        PROVE  LET d == [e[i] EXCEPT !.refresh = TRUE] IN
               /\ d.address = e[i].address /\ d.hardware = e[i].hardware
               /\ d.expires = e[i].expires
    <3>1. e[i] \in Entry
      BY <1>2
    <3>2. e[i] \in [valid : {TRUE}, address : Address, hardware : Hardware,
                    expires : Time, refresh : BOOLEAN]
      BY <2>1, <3>1, ValidEntry
    <3> QED BY <3>2
  <2>2. \A i \in Marked(e, r, unsent) : i \in CacheSlot /\ e[i].valid
    BY DEF Marked, Refreshing, Stale
  <2> QED BY <1>1, <2>1, <2>2 DEF Refresh, Fewer
<1>4. Fewer(cache, cache')
  BY <1>2, <1>3 DEF Fewer
<1>5. \A i \in PendingSlot : pending'[i].active => pending'[i] = pending[i]
  BY <1>1 DEF Release, Free
<1> QED BY <1>1, <1>4, <1>5, KnownFewer

\* Every operation keeps the cache current and lets no frame wait needlessly.
LEMMA KnownNext == ResolverInv /\ KnownInv /\ [Next]_vars => KnownInv'
<1> SUFFICES ASSUME ResolverInv, KnownInv, [Next]_vars PROVE KnownInv'
  OBVIOUS
<1>1. /\ cache \in [CacheSlot -> Entry] /\ pending \in [PendingSlot -> PendingFrame]
      /\ clock \in Time /\ Fewer(cache, cache)
  BY DEF ResolverInv, TablesOK, Fewer
<1>2. CASE Advance
  <2>1. UNCHANGED <<cache, pending, peer>> /\ clock' = clock + 1
    BY <1>2 DEF Advance
  <2>2. ASSUME NEW a, Unknown(cache, a, clock) PROVE Unknown(cache, a, clock + 1)
    <3>1. ASSUME NEW j \in CacheSlot, cache[j].valid PROVE cache[j].expires \in Time
      <4>1. cache[j] \in Entry
        BY <1>1
      <4>2. cache[j] \in [valid : {TRUE}, address : Address, hardware : Hardware,
                          expires : Time, refresh : BOOLEAN]
        BY <3>1, <4>1, ValidEntry
      <4> QED BY <4>2
    <3> QED BY <1>1, <2>2, <3>1 DEF Unknown, Reached, Time
  <2> QED BY <2>1, <2>2 DEF KnownInv
<1>3. ASSUME NEW a \in Address, NEW works \in BOOLEAN, QueueFrame(a, works) PROVE KnownInv'
  BY <1>3, KnownQueueFrame
<1>4. ASSUME NEW a \in Address, NEW works \in BOOLEAN, Resolve(a, works) PROVE KnownInv'
  <2>1. UNCHANGED <<clock, pending, peer>> /\ cache' = AfterLookup(cache, a, clock)
    BY <1>4 DEF Resolve
  <2>2. Fewer(cache, cache')
    BY <1>1, <2>1, RemovalsAreFewer
  <2> QED BY <2>1, <2>2, KnownFewer
<1>5. ASSUME NEW a \in Address, NEW h \in Hardware, NEW broken, OnArpPayload(a, h, broken)
      PROVE  KnownInv'
  <2>1. Learn(cache, pending, a, h, broken) /\ UNCHANGED clock
    BY <1>5 DEF OnArpPayload
  <2>2. \A i \in PendingSlot : pending[i].active =>
            pending[i].target = a \/ Unknown(cache, pending[i].target, clock)
    BY DEF KnownInv
  <2> QED BY <1>1, <2>1, <2>2, KnownLearn
<1>6. ASSUME NEW broken, NEW unsent, Tick(broken, unsent) PROVE KnownInv'
  BY <1>6, KnownTick
<1>7. CASE UNCHANGED vars
  BY <1>1, <1>7, KnownFewer DEF vars
<1> QED BY <1>2, <1>3, <1>4, <1>5, <1>6, <1>7 DEF Next, TickAny

\* Cache, frames and peers stay consistent in every behaviour.
THEOREM KnownCorrect == Spec => [](ResolverInv /\ KnownInv)
<1>1. Init => KnownInv
  BY DEF Init, KnownInv, CacheOK, Invalid, Free
<1> QED BY <1>1, KnownNext, ArpInvariant, PTL DEF Spec

\* A valid entry is the only one of its address and holds what the peer
\* announced last.
THEOREM CacheIsCurrent == Spec => []CacheMatchesPeer
<1>1. KnownInv => CacheMatchesPeer
  BY DEF KnownInv, CacheOK, CacheMatchesPeer, Entries
<1> QED BY <1>1, KnownCorrect, PTL

\* No frame waits for an address that lookup would find.
THEOREM NoNeedlessWait == Spec => []NoWaitForKnownAddress
<1>1. ResolverInv /\ KnownInv => NoWaitForKnownAddress
  BY LookupNone DEF ResolverInv, TablesOK, KnownInv, NoWaitForKnownAddress
<1> QED BY <1>1, KnownCorrect, PTL
-----------------------------------------------------------------------------
(* Where the frames are: the resolver implements FrameQueue. *)

\* Every slot of a set comes at one position of a scan.
LEMMA NthIs ==
    ASSUME NEW n \in Nat, NEW W, W \subseteq 1 .. n
    PROVE  /\ Cardinality(W) \in Nat
           /\ \A k \in 1 .. Cardinality(W) : Nth(W, k) \in W
           /\ \A k, l \in 1 .. Cardinality(W) : Nth(W, k) = Nth(W, l) => k = l
           /\ \A i \in W : \E k \in 1 .. Cardinality(W) : Nth(W, k) = i
<1> DEFINE B(i) == {j \in W : j < i}
           c == Cardinality(W)
           rank == [i \in W |-> Cardinality(B(i))]
<1>1. IsFiniteSet(W) /\ c \in Nat
  <2>1. IsFiniteSet(1 .. n) /\ W \in SUBSET (1 .. n)
    BY FS_Interval
  <2>2. IsFiniteSet(W)
    BY <2>1, FS_Subset
  <2> QED BY <2>2, FS_CardinalityType
<1>2. ASSUME NEW i \in W
      PROVE  IsFiniteSet(B(i)) /\ Cardinality(B(i)) \in Nat /\ Cardinality(B(i)) < c
  <2>1. IsFiniteSet(B(i)) /\ Cardinality(B(i)) \in Nat
    BY <1>1, FS_Subset, FS_CardinalityType
  <2>2. i \notin B(i) /\ B(i) \cup {i} \subseteq W
    OBVIOUS
  <2>3. Cardinality(B(i) \cup {i}) = Cardinality(B(i)) + 1
    BY <2>1, <2>2, FS_AddElement
  <2>4. Cardinality(B(i) \cup {i}) <= c
    BY <1>1, <2>2, FS_Subset
  <2> QED BY <1>1, <2>1, <2>3, <2>4
<1>3. ASSUME NEW i \in W, NEW j \in W, i < j
      PROVE  Cardinality(B(i)) < Cardinality(B(j))
  <2>0. \A w \in W : w \in Int
    OBVIOUS
  <2>1. i \notin B(i) /\ B(i) \cup {i} \subseteq B(j)
    <3>1. ASSUME NEW w \in W, w < i PROVE w < j
      BY <1>3, <2>0, <3>1
    <3>2. i \in Int /\ ~(i < i)
      BY <2>0
    <3> QED BY <1>3, <3>1, <3>2
  <2>2. Cardinality(B(i) \cup {i}) = Cardinality(B(i)) + 1
    BY <1>2, <2>1, FS_AddElement
  <2>3. Cardinality(B(i) \cup {i}) <= Cardinality(B(j))
    BY <1>2, <2>1, FS_Subset
  <2> QED BY <1>2, <2>2, <2>3
<1>4. \A i, j \in W : Cardinality(B(i)) = Cardinality(B(j)) => i = j
  <2> SUFFICES ASSUME NEW i \in W, NEW j \in W, Cardinality(B(i)) = Cardinality(B(j))
               PROVE  i = j
    OBVIOUS
  <2>1. i \in Int /\ j \in Int /\ Cardinality(B(i)) \in Nat
    BY <1>2
  <2>2. ~(i < j)
    BY <1>3, <2>1
  <2>3. ~(j < i)
    BY <1>3, <2>1
  <2> QED BY <2>1, <2>2, <2>3
<1>5. \A k \in 1 .. c : \E i \in W : Cardinality(B(i)) = k - 1
  <2>1. rank \in Injection(W, 0 .. (c - 1))
    <3>1. rank \in [W -> 0 .. (c - 1)]
      BY <1>1, <1>2
    <3>2. \A i, j \in W : rank[i] = rank[j] => i = j
      BY <1>4
    <3> HIDE DEF rank
    <3> QED BY <3>1, <3>2 DEF Injection, IsInjective
  <2>2. IsFiniteSet(0 .. (c - 1)) /\ Cardinality(0 .. (c - 1)) = c
    BY <1>1, FS_Interval
  <2>3. rank \in Surjection(W, 0 .. (c - 1))
    BY <2>1, <2>2, FS_Injection
  <2>4. \A m \in 0 .. (c - 1) : \E i \in W : rank[i] = m
    BY <2>3 DEF Surjection
  <2> QED BY <1>1, <2>4
<1> HIDE DEF rank
<1>6. ASSUME NEW k \in 1 .. c
      PROVE  Nth(W, k) \in W /\ Cardinality(B(Nth(W, k))) = k - 1
  BY <1>5 DEF Nth
<1>7. ASSUME NEW i \in W
      PROVE  \E k \in 1 .. c : Nth(W, k) = i
  <2> DEFINE k == Cardinality(B(i)) + 1
  <2>1. k \in 1 .. c /\ Cardinality(B(i)) = k - 1
    BY <1>1, <1>2
  <2> HIDE DEF k
  <2>2. Nth(W, k) \in W /\ Cardinality(B(Nth(W, k))) = k - 1
    BY <1>6, <2>1
  <2> QED BY <1>4, <2>1, <2>2
<1>8. ASSUME NEW k \in 1 .. c, NEW l \in 1 .. c, Nth(W, k) = Nth(W, l) PROVE k = l
  <2>1. k - 1 = l - 1
    BY <1>6, <1>8
  <2> QED BY <1>1, <2>1
<1> QED BY <1>1, <1>6, <1>7, <1>8

\* The slots in use, the frames in these slots, the frames of a sequence, the
\* frames reported once, and a sequence without repetitions.
Active(p) == {i \in PendingSlot : p[i].active}

FramesOf(p, slots) == {p[i].frame : i \in slots}

Out(s) == {s[k] : k \in 1 .. Len(s)}

Refused(r) == {f \in Frame : r[f] = 1}

Distinct(s) == \A k, l \in 1 .. Len(s) : s[k] = s[l] => k = l

\* Each of the first q frames is in one place, the others are nowhere.
Placed(s, r, p, q) ==
    /\ s \in Seq(Frame) /\ r \in [Frame -> 0 .. 1]
    /\ p \in [PendingSlot -> PendingFrame]
    /\ Distinct(s)
    /\ \A i, j \in Active(p) : p[i].frame = p[j].frame => i = j
    /\ Out(s) \cap Refused(r) = {}
    /\ Out(s) \cap FramesOf(p, Active(p)) = {}
    /\ Refused(r) \cap FramesOf(p, Active(p)) = {}
    /\ \A f \in Frame : f \in Out(s) \cup Refused(r) \cup FramesOf(p, Active(p)) <=> f <= q

\* A slot in use holds a frame.
LEMMA ActiveFrame ==
    ASSUME NEW p \in [PendingSlot -> PendingFrame], NEW i \in Active(p)
    PROVE  p[i].frame \in Frame /\ p[i].active
<1>1. p[i] \in PendingFrame /\ p[i].active
  BY DEF Active
<1>2. p[i] # Free
  BY <1>1 DEF Free
<1> QED BY <1>1, <1>2 DEF PendingFrame

\* The failure callback reports each frame of the slots once.
LEMMA ReportIs ==
    ASSUME NEW s, NEW r, NEW p, NEW q, Placed(s, r, p, q), NEW bad, bad \subseteq Active(p)
    PROVE  /\ Report(r, p, bad) \in [Frame -> 0 .. 1]
           /\ Refused(Report(r, p, bad)) = Refused(r) \cup FramesOf(p, bad)
<1> DEFINE t == Report(r, p, bad)
           I(x) == {i \in bad : p[i].frame = x}
<1>1. ASSUME NEW x \in Frame
      PROVE  /\ x \in FramesOf(p, bad) => Cardinality(I(x)) = 1 /\ r[x] = 0
             /\ x \notin FramesOf(p, bad) => Cardinality(I(x)) = 0
  <2>1. CASE x \in FramesOf(p, bad)
    <3>1. PICK i \in bad : p[i].frame = x
      BY <2>1 DEF FramesOf
    <3>2. I(x) = {i}
      BY <3>1 DEF Placed
    <3>3. x \notin Refused(r)
      BY <3>1 DEF Placed, FramesOf
    <3>4. r[x] = 0
      BY <3>3 DEF Placed, Refused
    <3> QED BY <2>1, <3>2, <3>4, FS_Singleton
  <2>2. CASE x \notin FramesOf(p, bad)
    <3>1. I(x) = {}
      BY <2>2 DEF FramesOf
    <3> QED BY <2>2, <3>1, FS_EmptySet
  <2> QED BY <2>1, <2>2
<1>2. \A x \in Frame : t[x] = r[x] + Cardinality(I(x)) /\ r[x] \in 0 .. 1
  BY DEF Report, Placed
<1>3. t = [x \in Frame |-> t[x]]
  BY DEF Report
<1> HIDE DEF t, I
<1>4. ASSUME NEW x \in Frame
      PROVE  t[x] \in 0 .. 1 /\ (t[x] = 1 <=> r[x] = 1 \/ x \in FramesOf(p, bad))
  BY <1>1, <1>2
<1>5. FramesOf(p, bad) \subseteq Frame
  BY ActiveFrame DEF FramesOf, Placed
<1>6. t \in [Frame -> 0 .. 1]
  BY <1>3, <1>4
<1>7. Refused(t) = Refused(r) \cup FramesOf(p, bad)
  BY <1>4, <1>5 DEF Refused
<1> QED BY <1>6, <1>7 DEF t

\* Releasing slots takes exactly their frames out of the table.
LEMMA ReleaseIs ==
    ASSUME NEW s, NEW r, NEW p, NEW q, Placed(s, r, p, q), NEW slots
    PROVE  LET d == Release(p, slots) IN
           /\ d \in [PendingSlot -> PendingFrame]
           /\ Active(d) = Active(p) \ slots
           /\ \A i \in Active(d) : d[i] = p[i]
           /\ slots \subseteq Active(p) =>
                 FramesOf(d, Active(d)) = FramesOf(p, Active(p)) \ FramesOf(p, slots)
<1> DEFINE d == Release(p, slots)
<1>1. \A i \in PendingSlot : d[i] = IF i \in slots THEN Free ELSE p[i]
  BY DEF Release
<1>2. d \in [PendingSlot -> PendingFrame]
  BY DEF Release, PendingFrame, Placed
<1> HIDE DEF d
<1>3. Active(d) = Active(p) \ slots /\ \A i \in Active(d) : d[i] = p[i]
  BY <1>1 DEF Active, Free
<1>4. ASSUME slots \subseteq Active(p)
      PROVE  FramesOf(d, Active(d)) = FramesOf(p, Active(p)) \ FramesOf(p, slots)
  <2>1. \A i \in Active(p), j \in slots : p[i].frame = p[j].frame => i = j
    BY <1>4 DEF Placed
  <2> QED BY <1>3, <1>4, <2>1 DEF FramesOf
<1> QED BY <1>2, <1>3, <1>4 DEF d

\* A sequence without repetitions goes on with new frames.
LEMMA SentGrows ==
    ASSUME NEW s \in Seq(Frame), NEW t \in Seq(Frame),
           Distinct(s),
           Distinct(t),
           Out(s) \cap Out(t) = {}
    PROVE  /\ s \o t \in Seq(Frame) /\ Out(s \o t) = Out(s) \cup Out(t)
           /\ Distinct(s \o t)
<1> DEFINE u == s \o t
           m == Len(s)
           n == Len(t)
<1>1. u \in Seq(Frame) /\ m \in Nat /\ n \in Nat /\ Len(u) = m + n
  OBVIOUS
<1>2. \A k \in 1 .. m + n : u[k] = IF k <= m THEN s[k] ELSE t[k - m]
  OBVIOUS
<1>3. \A k \in 1 .. n : u[m + k] = t[k]
  <2> SUFFICES ASSUME NEW k \in 1 .. n PROVE u[m + k] = t[k]
    OBVIOUS
  <2>1. m + k \in 1 .. m + n /\ ~(m + k <= m) /\ (m + k) - m = k
    BY <1>1
  <2> QED BY <1>2, <2>1
<1> HIDE DEF u
<1>4. ASSUME NEW k \in 1 .. m + n
      PROVE  \/ k \in 1 .. m /\ u[k] = s[k]
             \/ k - m \in 1 .. n /\ u[k] = t[k - m]
  BY <1>1, <1>2
<1>5. Out(u) = Out(s) \cup Out(t)
  <2>1. \A x \in Out(u) : x \in Out(s) \cup Out(t)
    BY <1>1, <1>4 DEF Out
  <2>2. ASSUME NEW x \in Out(s) PROVE x \in Out(u)
    <3>1. PICK k \in 1 .. m : x = s[k]
      BY <2>2 DEF Out
    <3>2. k \in 1 .. m + n /\ u[k] = s[k]
      BY <1>1, <1>2
    <3> QED BY <1>1, <3>1, <3>2 DEF Out
  <2>3. ASSUME NEW x \in Out(t) PROVE x \in Out(u)
    <3>1. PICK k \in 1 .. n : x = t[k]
      BY <2>3 DEF Out
    <3>2. m + k \in 1 .. m + n /\ u[m + k] = t[k]
      BY <1>1, <1>3
    <3> QED BY <1>1, <3>1, <3>2 DEF Out
  <2> QED BY <2>1, <2>2, <2>3
<1>6. \A i \in 1 .. m, j \in 1 .. n : s[i] # t[j]
  <2> SUFFICES ASSUME NEW i \in 1 .. m, NEW j \in 1 .. n PROVE s[i] # t[j]
    OBVIOUS
  <2>1. s[i] \in Out(s) /\ t[j] \in Out(t)
    BY DEF Out
  <2> QED BY <2>1
<1>7. ASSUME NEW k \in 1 .. m + n, NEW l \in 1 .. m + n, u[k] = u[l] PROVE k = l
  <2>1. CASE k \in 1 .. m /\ u[k] = s[k] /\ l \in 1 .. m /\ u[l] = s[l]
    BY <1>7, <2>1 DEF Distinct
  <2>2. CASE k - m \in 1 .. n /\ u[k] = t[k - m] /\ l - m \in 1 .. n /\ u[l] = t[l - m]
    <3>1. k - m = l - m
      BY <1>7, <2>2 DEF Distinct
    <3> QED BY <1>1, <3>1
  <2>3. CASE k \in 1 .. m /\ u[k] = s[k] /\ l - m \in 1 .. n /\ u[l] = t[l - m]
    BY <1>7, <1>6, <2>3
  <2>4. CASE l \in 1 .. m /\ u[l] = s[l] /\ k - m \in 1 .. n /\ u[k] = t[k - m]
    BY <1>7, <1>6, <2>4
  <2> QED BY <1>4, <2>1, <2>2, <2>3, <2>4
<1> QED BY <1>1, <1>5, <1>7 DEF u, Distinct

\* What flush_pending transmits: each frame of the target, but those that
\* fail, once.
LEMMA TransmittedIs ==
    ASSUME NEW s, NEW r, NEW p, NEW q, Placed(s, r, p, q), NEW a, NEW broken
    PROVE  LET t == Transmitted(p, a, broken) IN
           /\ t \in Seq(Frame)
           /\ Distinct(t)
           /\ Out(t) = FramesOf(p, Waiting(p, a) \ broken)
<1> DEFINE W == Waiting(p, a) \ broken
           t == Transmitted(p, a, broken)
           c == Cardinality(W)
<1>1. W \subseteq Active(p) /\ W \subseteq 1 .. PendingCapacity
  BY DEF Waiting, Active, PendingSlot
<1>2. t = [k \in 1 .. c |-> p[Nth(W, k)].frame]
  BY DEF Transmitted
<1> HIDE DEF W, t, c
<1>3. /\ c \in Nat /\ \A k \in 1 .. c : Nth(W, k) \in W
      /\ \A k, l \in 1 .. c : Nth(W, k) = Nth(W, l) => k = l
      /\ \A i \in W : \E k \in 1 .. c : Nth(W, k) = i
  BY <1>1, NthIs, ArpAssumption DEF c
<1>4. \A i \in W : p[i].frame \in Frame
  BY <1>1, ActiveFrame DEF Placed
<1>5. t \in Seq(Frame) /\ Len(t) = c /\ \A k \in 1 .. c : t[k] = p[Nth(W, k)].frame
  BY <1>2, <1>3, <1>4
<1>6. Distinct(t)
  <2>1. \A i, j \in W : p[i].frame = p[j].frame => i = j
    BY <1>1 DEF Placed
  <2> QED BY <1>3, <1>5, <2>1 DEF Distinct
<1>7. Out(t) = FramesOf(p, W)
  <2>1. \A x \in Out(t) : x \in FramesOf(p, W)
    BY <1>3, <1>5 DEF Out, FramesOf
  <2>2. ASSUME NEW i \in W PROVE p[i].frame \in Out(t)
    <3>1. PICK k \in 1 .. c : Nth(W, k) = i
      BY <1>3
    <3> QED BY <1>5, <3>1 DEF Out
  <2> QED BY <2>1, <2>2 DEF FramesOf
<1> QED BY <1>5, <1>6, <1>7 DEF t, W

\* t is a transmission of the frames of good, and bad are other slots.
Leaving(p, good, bad, t) ==
    /\ good \subseteq Active(p) /\ bad \subseteq Active(p) /\ good \cap bad = {}
    /\ t \in Seq(Frame) /\ Distinct(t) /\ Out(t) = FramesOf(p, good)

\* What is left when they are gone.
Left(s, r, p, good, bad, t, u, v, d) ==
    u = s \o t /\ v = Report(r, p, bad) /\ d = Release(p, good \cup bad)

\* Frames leave their slots, the ones of good by transmission and the ones of
\* bad by a report.
LEMMA SettlePlaced ==
    ASSUME NEW s, NEW r, NEW p, NEW q, Placed(s, r, p, q),
           NEW good, NEW bad, NEW t, Leaving(p, good, bad, t),
           NEW u, NEW v, NEW d, Left(s, r, p, good, bad, t, u, v, d)
    PROVE  /\ Placed(u, v, d, q)
           /\ Out(u) = Out(s) \cup FramesOf(p, good)
           /\ Refused(v) = Refused(r) \cup FramesOf(p, bad)
           /\ FramesOf(d, Active(d)) =
                 FramesOf(p, Active(p)) \ (FramesOf(p, good) \cup FramesOf(p, bad))
<1> DEFINE G == FramesOf(p, good)
           B == FramesOf(p, bad)
           A == FramesOf(p, Active(p))
<1>0. /\ good \subseteq Active(p) /\ bad \subseteq Active(p) /\ good \cap bad = {}
      /\ t \in Seq(Frame) /\ Distinct(t) /\ Out(t) = FramesOf(p, good)
      /\ u = s \o t /\ v = Report(r, p, bad) /\ d = Release(p, good \cup bad)
  BY DEF Leaving, Left
<1>1. /\ s \in Seq(Frame) /\ Distinct(s)
      /\ Out(s) \cap A = {}
  BY DEF Placed
<1>2. G \subseteq A /\ B \subseteq A /\ G \cap B = {}
  <2>1. G \subseteq A /\ B \subseteq A
    BY <1>0 DEF FramesOf
  <2>2. \A i \in good, j \in bad : p[i].frame # p[j].frame
    BY <1>0 DEF Placed
  <2> QED BY <2>1, <2>2 DEF FramesOf
<1>3. /\ u \in Seq(Frame) /\ Out(u) = Out(s) \cup G
      /\ Distinct(u)
  <2>1. Out(s) \cap Out(t) = {}
    BY <1>0, <1>1, <1>2
  <2> QED BY <1>0, <1>1, <2>1, SentGrows
<1>4. v \in [Frame -> 0 .. 1] /\ Refused(v) = Refused(r) \cup B
  BY <1>0, ReportIs
<1>5. /\ d \in [PendingSlot -> PendingFrame] /\ Active(d) \subseteq Active(p)
      /\ \A i \in Active(d) : d[i] = p[i]
      /\ FramesOf(d, Active(d)) = A \ FramesOf(p, good \cup bad)
  <2>1. good \cup bad \subseteq Active(p)
    BY <1>0
  <2> QED BY <1>0, <2>1, ReleaseIs
<1>6. FramesOf(p, good \cup bad) = G \cup B
  BY DEF FramesOf
<1>7. FramesOf(d, Active(d)) = A \ (G \cup B)
  BY <1>5, <1>6
<1>8. \A i, j \in Active(d) : d[i].frame = d[j].frame => i = j
  BY <1>5 DEF Placed
<1>9. /\ Out(u) \cap Refused(v) = {} /\ Out(u) \cap FramesOf(d, Active(d)) = {}
      /\ Refused(v) \cap FramesOf(d, Active(d)) = {}
      /\ Out(u) \cup Refused(v) \cup FramesOf(d, Active(d)) = Out(s) \cup Refused(r) \cup A
  <2>1. Out(s) \cap Refused(r) = {} /\ Out(s) \cap A = {} /\ Refused(r) \cap A = {}
    BY DEF Placed
  <2> HIDE DEF G, B, A
  <2> QED BY <1>2, <1>3, <1>4, <1>7, <2>1
<1>10. \A f \in Frame : f \in Out(s) \cup Refused(r) \cup A <=> f <= q
  BY DEF Placed
<1>11. Placed(u, v, d, q)
  BY <1>3, <1>4, <1>5, <1>8, <1>9, <1>10 DEF Placed
<1> QED BY <1>3, <1>4, <1>7, <1>11

\* A new frame is in no place yet.
LEMMA NextFrame ==
    ASSUME NEW s, NEW r, NEW p, NEW q \in 0 .. FrameBound, Placed(s, r, p, q), q < FrameBound
    PROVE  /\ q + 1 \in Frame /\ q + 1 \notin Out(s) /\ q + 1 \notin Refused(r)
           /\ q + 1 \notin FramesOf(p, Active(p))
           /\ \A f \in Frame : f <= q + 1 <=> f <= q \/ f = q + 1
<1>1. q \in Nat /\ q + 1 \in Frame /\ ~(q + 1 <= q)
  BY ArpAssumption DEF Frame
<1>2. \A f \in Frame : f <= q + 1 <=> f <= q \/ f = q + 1
  BY <1>1, ArpAssumption DEF Frame
<1> QED BY <1>1, <1>2 DEF Placed

\* queue_frame transmits the new frame, refuses it or puts it into a free slot.
Refuses(r, v, n) == v = [r EXCEPT ![n] = @ + 1]

\* A new frame that is transmitted or refused at once is in that one place.
LEMMA OfferPlaced ==
    ASSUME NEW s, NEW r, NEW p, NEW q \in 0 .. FrameBound, Placed(s, r, p, q), q < FrameBound
    PROVE  /\ Placed(Append(s, q + 1), r, p, q + 1)
           /\ Out(Append(s, q + 1)) = Out(s) \cup {q + 1}
           /\ \A v : Refuses(r, v, q + 1) =>
                 Placed(s, v, p, q + 1) /\ Refused(v) = Refused(r) \cup {q + 1}
<1> DEFINE n == q + 1
           u == Append(s, n)
           A == FramesOf(p, Active(p))
<1>1. /\ n \in Frame /\ n \notin Out(s) /\ n \notin Refused(r) /\ n \notin A
      /\ \A f \in Frame : f <= n <=> f <= q \/ f = n
  BY NextFrame
<1> HIDE DEF n
<1>2. /\ s \in Seq(Frame) /\ r \in [Frame -> 0 .. 1] /\ p \in [PendingSlot -> PendingFrame]
      /\ Distinct(s)
      /\ \A i, j \in Active(p) : p[i].frame = p[j].frame => i = j
      /\ Out(s) \cap Refused(r) = {} /\ Out(s) \cap A = {} /\ Refused(r) \cap A = {}
      /\ \A f \in Frame : f \in Out(s) \cup Refused(r) \cup A <=> f <= q
  BY DEF Placed
<1> HIDE DEF A
<1>3. /\ u \in Seq(Frame) /\ Out(u) = Out(s) \cup {n}
      /\ Distinct(u)
  <2> DEFINE t == <<n>>
  <2>1. t \in Seq(Frame) /\ Len(t) = 1 /\ t[1] = n
    BY <1>1
  <2>2. u = s \o t
    BY <1>1, <1>2
  <2> HIDE DEF t, u
  <2>3. Out(t) = {n} /\ Distinct(t)
    BY <2>1 DEF Out, Distinct
  <2>4. Out(s) \cap Out(t) = {}
    BY <1>1, <2>3
  <2> QED BY <1>2, <2>1, <2>2, <2>3, <2>4, SentGrows
<1>4. ASSUME NEW v, Refuses(r, v, n)
      PROVE  v \in [Frame -> 0 .. 1] /\ Refused(v) = Refused(r) \cup {n}
  <2>1. r[n] = 0
    BY <1>1, <1>2 DEF Refused
  <2>2. v[n] = 1 /\ \A f \in Frame : f # n => v[f] = r[f]
    BY <1>1, <1>2, <1>4, <2>1 DEF Refuses
  <2>3. v \in [Frame -> 0 .. 1]
    BY <1>1, <1>2, <1>4, <2>1 DEF Refuses
  <2> QED BY <1>1, <2>2, <2>3 DEF Refused
<1> HIDE DEF u
<1>5. Placed(u, r, p, n)
  BY <1>1, <1>2, <1>3 DEF Placed, A
<1>6. ASSUME NEW v, Refuses(r, v, n) PROVE Placed(s, v, p, n)
  BY <1>1, <1>2, <1>4, <1>6 DEF Placed, A
<1> QED BY <1>3, <1>4, <1>5, <1>6 DEF u, n

\* A new frame that is kept is in one slot.
LEMMA EnqueuePlaced ==
    ASSUME TablesOK, Placed(sent, failed, pending, queued), queued < FrameBound,
           NEW a \in Address, FreeSlots # {}
    PROVE  LET d == Enqueue(pending, a, queued + 1) IN
           /\ Placed(sent, failed, d, queued + 1)
           /\ FramesOf(d, Active(d)) = FramesOf(pending, Active(pending)) \cup {queued + 1}
           /\ Waiting(d, a) = Waiting(pending, a) \cup {First(FreeSlots)}
           /\ FramesOf(d, Waiting(d, a)) =
                 FramesOf(pending, Waiting(pending, a)) \cup {queued + 1}
<1> DEFINE n == queued + 1
           x == First(FreeSlots)
           new == [active |-> TRUE, target |-> a, frame |-> n,
                   deadline |-> DeadlineFrom(clock, PendingDeadline)]
           d == Enqueue(pending, a, n)
           A == FramesOf(pending, Active(pending))
<1>1. /\ n \in Frame /\ n \notin Out(sent) /\ n \notin Refused(failed) /\ n \notin A
      /\ \A f \in Frame : f <= n <=> f <= queued \/ f = n
  BY NextFrame DEF TablesOK
<1>2. x \in PendingSlot /\ ~pending[x].active
  <2>1. FreeSlots \subseteq Nat
    BY ArpAssumption DEF FreeSlots, PendingSlot
  <2>2. x \in FreeSlots
    BY <2>1, FirstIs
  <2> QED BY <2>2 DEF FreeSlots
<1>3. d = [pending EXCEPT ![x] = new] /\ new.active /\ new.target = a /\ new.frame = n
  BY DEF Enqueue
<1>4. d \in [PendingSlot -> PendingFrame] /\ pending \in [PendingSlot -> PendingFrame]
  BY EnqueueType DEF TablesOK
<1> HIDE DEF n, x, new, d
<1>5. d[x] = new /\ \A i \in PendingSlot : i # x => d[i] = pending[i]
  BY <1>2, <1>3, <1>4
<1>6. /\ Active(d) = Active(pending) \cup {x} /\ x \notin Active(pending)
      /\ Waiting(d, a) = Waiting(pending, a) \cup {x} /\ x \notin Waiting(pending, a)
  BY <1>2, <1>3, <1>5 DEF Active, Waiting
<1>7. \A i \in Active(pending) : d[i] = pending[i]
  BY <1>5, <1>6 DEF Active
<1>8. Waiting(pending, a) \subseteq Active(pending)
  BY DEF Waiting, Active
<1>9. ASSUME NEW S, S \subseteq Active(pending)
      PROVE  FramesOf(d, S \cup {x}) = FramesOf(pending, S) \cup {n}
  <2>1. d[x].frame = n /\ \A i \in S : d[i].frame = pending[i].frame
    BY <1>3, <1>5, <1>7, <1>9
  <2>2. \A f \in FramesOf(d, S \cup {x}) : f \in FramesOf(pending, S) \cup {n}
    BY <2>1 DEF FramesOf
  <2>3. \A f \in FramesOf(pending, S) \cup {n} : f \in FramesOf(d, S \cup {x})
    BY <2>1 DEF FramesOf
  <2> QED BY <2>2, <2>3
<1>10. /\ FramesOf(d, Active(d)) = A \cup {n}
       /\ FramesOf(d, Waiting(d, a)) = FramesOf(pending, Waiting(pending, a)) \cup {n}
  BY <1>6, <1>8, <1>9
<1>11. ASSUME NEW i \in Active(d), NEW j \in Active(d), d[i].frame = d[j].frame PROVE i = j
  <2>1. \A k \in Active(pending) : d[k].frame \in A /\ d[k].frame # n
    BY <1>1, <1>7 DEF FramesOf
  <2>2. d[x].frame = n
    BY <1>3, <1>5
  <2>3. CASE i \in Active(pending) /\ j \in Active(pending)
    BY <1>7, <1>11, <2>3 DEF Placed
  <2> QED BY <1>6, <1>11, <2>1, <2>2, <2>3
<1>12. Placed(sent, failed, d, n)
  <2> HIDE DEF A
  <2>1. /\ sent \in Seq(Frame) /\ failed \in [Frame -> 0 .. 1]
        /\ Distinct(sent)
        /\ Out(sent) \cap Refused(failed) = {} /\ Out(sent) \cap A = {}
        /\ Refused(failed) \cap A = {}
        /\ \A f \in Frame : f \in Out(sent) \cup Refused(failed) \cup A <=> f <= queued
    BY DEF Placed, A
  <2> QED BY <1>1, <1>4, <1>10, <1>11, <2>1 DEF Placed
<1> QED BY <1>6, <1>10, <1>12 DEF d, n, x

\* The status of every frame, from the place it is in.
StatusOf(S, F, W) ==
    [f \in Frame |-> IF f \in S THEN "sent" ELSE IF f \in F THEN "failed"
                     ELSE IF f \in W THEN "waiting" ELSE "none"]

StatusAt(s, r, p) == StatusOf(Out(s), Refused(r), FramesOf(p, Active(p)))

\* FrameStatus as a function of the tables.
Counted(s, r, p, q, f) ==
    IF f > q THEN "none"
    ELSE IF Cardinality({k \in DOMAIN s : s[k] = f}) + r[f]
              + Cardinality({i \in PendingSlot : p[i].active /\ p[i].frame = f}) # 1
    THEN "lost or repeated"
    ELSE IF f \in {s[k] : k \in DOMAIN s} THEN "sent"
    ELSE IF r[f] = 1 THEN "failed" ELSE "waiting"

\* It counts the places of a frame and finds one.
LEMMA OnePlace ==
    ASSUME NEW s, NEW r, NEW p, NEW q \in Nat, Placed(s, r, p, q), NEW f \in Frame
    PROVE  Counted(s, r, p, q, f) = StatusAt(s, r, p)[f]
<1> DEFINE K == {k \in DOMAIN s : s[k] = f}
           I == {i \in PendingSlot : p[i].active /\ p[i].frame = f}
           A == FramesOf(p, Active(p))
<1>1. /\ DOMAIN s = 1 .. Len(s) /\ Distinct(s)
      /\ \A i, j \in Active(p) : p[i].frame = p[j].frame => i = j
      /\ r[f] \in 0 .. 1
  BY DEF Placed
<1>2. /\ f \in Out(s) => Cardinality(K) = 1
      /\ f \notin Out(s) => Cardinality(K) = 0
  <2>1. CASE f \in Out(s)
    <3>1. PICK k \in 1 .. Len(s) : s[k] = f
      BY <2>1 DEF Out
    <3>2. K = {k}
      BY <1>1, <3>1 DEF Distinct
    <3> QED BY <2>1, <3>2, FS_Singleton
  <2>2. CASE f \notin Out(s)
    <3>1. K = {}
      BY <1>1, <2>2 DEF Out
    <3> QED BY <2>2, <3>1, FS_EmptySet
  <2> QED BY <2>1, <2>2
<1>3. /\ f \in A => Cardinality(I) = 1
      /\ f \notin A => Cardinality(I) = 0
  <2>1. CASE f \in A
    <3>1. PICK i \in Active(p) : p[i].frame = f
      BY <2>1 DEF FramesOf
    <3>2. I = {i}
      BY <1>1, <3>1 DEF Active
    <3> QED BY <2>1, <3>2, FS_Singleton
  <2>2. CASE f \notin A
    <3>1. I = {}
      BY <2>2 DEF FramesOf, Active
    <3> QED BY <2>2, <3>1, FS_EmptySet
  <2> QED BY <2>1, <2>2
<1>4. r[f] = 1 <=> f \in Refused(r)
  BY DEF Refused
<1>5. f \in {s[k] : k \in DOMAIN s} <=> f \in Out(s)
  BY <1>1 DEF Out
<1>6. /\ ~(f \in Out(s) /\ f \in Refused(r)) /\ ~(f \in Out(s) /\ f \in A)
      /\ ~(f \in Refused(r) /\ f \in A)
      /\ (f \in Out(s) \/ f \in Refused(r) \/ f \in A) <=> ~(f > q)
  <2>1. f \in Int /\ q \in Int
    BY ArpAssumption DEF Frame
  <2> QED BY <2>1 DEF Placed
<1>7. StatusAt(s, r, p)[f] = IF f \in Out(s) THEN "sent" ELSE IF f \in Refused(r) THEN "failed"
                             ELSE IF f \in A THEN "waiting" ELSE "none"
  BY DEF StatusAt, StatusOf
<1> HIDE DEF K, I, A
<1>8. ~(f > q) => Cardinality(K) + r[f] + Cardinality(I) = 1
  BY <1>1, <1>2, <1>3, <1>4, <1>6
<1>9. CASE f > q
  BY <1>6, <1>7, <1>9 DEF Counted
<1>10. CASE ~(f > q)
  BY <1>4, <1>5, <1>6, <1>7, <1>8, <1>10 DEF K, I, Counted
<1> QED BY <1>9, <1>10

\* The frames handed to the resolver, in this and in the next state.
PlacedInv == Placed(sent, failed, pending, queued)

Mapped == [f \in Frame |-> FrameStatus(f)]

\* The refinement mapping, in terms of where the frames are.
LEMMA MappedIs ==
    ASSUME PlacedInv, queued \in Nat
    PROVE  Mapped = StatusAt(sent, failed, pending)
<1>1. \A f \in Frame : FrameStatus(f) = Counted(sent, failed, pending, queued, f)
  BY DEF FrameStatus, Places, Counted
<1>2. \A f \in Frame : FrameStatus(f) = StatusAt(sent, failed, pending)[f]
  BY <1>1, OnePlace DEF PlacedInv
<1> QED BY <1>2 DEF Mapped, StatusAt, StatusOf

\* The same in the next state.
LEMMA MappedNext ==
    ASSUME PlacedInv', queued' \in Nat
    PROVE  Mapped' = StatusAt(sent', failed', pending')
<1>1. \A f \in Frame : FrameStatus(f)' = Counted(sent', failed', pending', queued', f)
  BY DEF FrameStatus, Places, Counted
<1>2. \A f \in Frame : FrameStatus(f)' = StatusAt(sent', failed', pending')[f]
  BY <1>1, OnePlace DEF PlacedInv
<1> QED BY <1>2 DEF Mapped, StatusAt, StatusOf

\* One step of FrameQueue, from one status to the next.
FrameStep(m, n) ==
    \/ m = n
    \/ \E f \in Frame, outcome \in {"sent", "failed", "waiting"} :
          /\ m[f] = "none" /\ \A g \in Frame : g < f => m[g] # "none"
          /\ n = [m EXCEPT ![f] = outcome]
    \/ \E f \in Frame, done \in SUBSET {g \in Frame : m[g] = "waiting"} :
          /\ m[f] = "none" /\ \A g \in Frame : g < f => m[g] # "none"
          /\ n = [g \in Frame |-> IF g \in done \cup {f} THEN "sent" ELSE m[g]]
    \/ \E done, lost \in SUBSET {g \in Frame : m[g] = "waiting"} :
          /\ done \cap lost = {}
          /\ n = [g \in Frame |-> IF g \in done THEN "sent"
                                  ELSE IF g \in lost THEN "failed" ELSE m[g]]

\* The steps in terms of the places.
LEMMA SettleStep ==
    ASSUME NEW S, NEW F, NEW W, S \cap F = {}, S \cap W = {}, F \cap W = {},
           W \subseteq Frame,
           NEW G, NEW B, G \subseteq W, B \subseteq W, G \cap B = {}
    PROVE  FrameStep(StatusOf(S, F, W), StatusOf(S \cup G, F \cup B, W \ (G \cup B)))
<1> DEFINE m == StatusOf(S, F, W)
           n == StatusOf(S \cup G, F \cup B, W \ (G \cup B))
<1>1. \A g \in Frame : m[g] = IF g \in S THEN "sent" ELSE IF g \in F THEN "failed"
                              ELSE IF g \in W THEN "waiting" ELSE "none"
  BY DEF StatusOf
<1>2. G \in SUBSET {g \in Frame : m[g] = "waiting"}
      /\ B \in SUBSET {g \in Frame : m[g] = "waiting"}
  BY <1>1
<1>3. n = [g \in Frame |-> IF g \in G THEN "sent" ELSE IF g \in B THEN "failed" ELSE m[g]]
  BY <1>1 DEF StatusOf
<1> HIDE DEF m, n
<1>4. FrameStep(m, n)
  BY <1>2, <1>3 DEF FrameStep
<1> QED BY <1>4 DEF m, n

\* q + 1 is the next frame.
LEMMA NextIs ==
    ASSUME NEW S, NEW F, NEW W, NEW q \in Nat, q + 1 \in Frame,
           \A f \in Frame : f \in S \cup F \cup W <=> f <= q
    PROVE  LET m == StatusOf(S, F, W) IN
           m[q + 1] = "none" /\ \A g \in Frame : g < q + 1 => m[g] # "none"
<1>1. \A g \in Frame : (g < q + 1 <=> g <= q) /\ ~(q + 1 <= q)
  BY ArpAssumption DEF Frame
<1> QED BY <1>1 DEF StatusOf

\* Putting a new frame in one of the three places is a step of FrameQueue.
LEMMA OfferStep ==
    ASSUME NEW S, NEW F, NEW W, NEW q \in Nat, q + 1 \in Frame,
           \A f \in Frame : f \in S \cup F \cup W <=> f <= q
    PROVE  /\ FrameStep(StatusOf(S, F, W), StatusOf(S \cup {q + 1}, F, W))
           /\ FrameStep(StatusOf(S, F, W), StatusOf(S, F \cup {q + 1}, W))
           /\ FrameStep(StatusOf(S, F, W), StatusOf(S, F, W \cup {q + 1}))
<1> DEFINE m == StatusOf(S, F, W)
           x == q + 1
<1>1. x \in Frame /\ m[x] = "none" /\ \A g \in Frame : g < x => m[g] # "none"
  BY NextIs
<1>2. x \notin S /\ x \notin F /\ x \notin W
  BY <1>1 DEF StatusOf
<1> HIDE DEF x
<1>3. /\ StatusOf(S \cup {x}, F, W) = [m EXCEPT ![x] = "sent"]
      /\ StatusOf(S, F \cup {x}, W) = [m EXCEPT ![x] = "failed"]
      /\ StatusOf(S, F, W \cup {x}) = [m EXCEPT ![x] = "waiting"]
  BY <1>1, <1>2 DEF StatusOf
<1>4. \A outcome \in {"sent", "failed", "waiting"} :
         FrameStep(m, [m EXCEPT ![x] = outcome])
  <2> HIDE DEF m
  <2> QED BY <1>1 DEF FrameStep
<1> QED BY <1>3, <1>4 DEF x

\* So is transmitting it together with frames that waited.
LEMMA AnsweredStep ==
    ASSUME NEW S, NEW F, NEW W, NEW q \in Nat, q + 1 \in Frame,
           \A f \in Frame : f \in S \cup F \cup W <=> f <= q,
           S \cap W = {}, F \cap W = {}, W \subseteq Frame, NEW G, G \subseteq W
    PROVE  FrameStep(StatusOf(S, F, W), StatusOf(S \cup G \cup {q + 1}, F, W \ G))
<1> DEFINE m == StatusOf(S, F, W)
           x == q + 1
           n == StatusOf(S \cup G \cup {x}, F, W \ G)
<1>1. x \in Frame /\ m[x] = "none" /\ \A g \in Frame : g < x => m[g] # "none"
  BY NextIs
<1>2. x \notin S /\ x \notin F /\ x \notin W
  BY <1>1 DEF StatusOf
<1> HIDE DEF x
<1>3. n = [g \in Frame |-> IF g \in G \cup {x} THEN "sent" ELSE m[g]]
  BY <1>1, <1>2 DEF StatusOf
<1>4. G \in SUBSET {g \in Frame : m[g] = "waiting"}
  BY DEF StatusOf
<1> HIDE DEF m, n
<1>5. FrameStep(m, n)
  BY <1>1, <1>3, <1>4 DEF FrameStep
<1> QED BY <1>5 DEF m, n, x

\* A step that keeps every frame in one place and is allowed by FrameQueue.
Moves == /\ PlacedInv'
         /\ FrameStep(StatusAt(sent, failed, pending), StatusAt(sent', failed', pending'))

\* The places as the steps above need them.
LEMMA PlacesNow ==
    ASSUME NEW s, NEW r, NEW p, NEW q, Placed(s, r, p, q)
    PROVE  LET W == FramesOf(p, Active(p)) IN
           /\ Out(s) \cap Refused(r) = {} /\ Out(s) \cap W = {} /\ Refused(r) \cap W = {}
           /\ W \subseteq Frame
           /\ \A f \in Frame : f \in Out(s) \cup Refused(r) \cup W <=> f <= q
<1>1. FramesOf(p, Active(p)) \subseteq Frame
  BY ActiveFrame DEF FramesOf, Placed
<1> QED BY <1>1 DEF Placed

\* Nothing happens to the frames.
LEMMA NothingMoves ==
    ASSUME PlacedInv, UNCHANGED <<sent, failed, pending, queued>>
    PROVE  Moves
  BY DEF Moves, PlacedInv, FrameStep

\* Frames that wait are settled.
LEMMA SettleMoves ==
    ASSUME PlacedInv, UNCHANGED queued,
           NEW good, NEW bad, NEW t, Leaving(pending, good, bad, t),
           Left(sent, failed, pending, good, bad, t, sent', failed', pending')
    PROVE  Moves
<1> DEFINE W == FramesOf(pending, Active(pending))
           G == FramesOf(pending, good)
           B == FramesOf(pending, bad)
<1>1. /\ Placed(sent', failed', pending', queued)
      /\ Out(sent') = Out(sent) \cup G /\ Refused(failed') = Refused(failed) \cup B
      /\ FramesOf(pending', Active(pending')) = W \ (G \cup B)
  <2>1. Placed(sent, failed, pending, queued)
    BY DEF PlacedInv
  <2> QED BY <2>1, SettlePlaced
<1>2. /\ Out(sent) \cap Refused(failed) = {} /\ Out(sent) \cap W = {}
      /\ Refused(failed) \cap W = {} /\ W \subseteq Frame
  BY PlacesNow DEF PlacedInv
<1>3. G \subseteq W /\ B \subseteq W /\ G \cap B = {}
  <2>1. G \subseteq W /\ B \subseteq W
    BY DEF FramesOf, Leaving
  <2>2. \A i \in good, j \in bad : pending[i].frame # pending[j].frame
    BY DEF PlacedInv, Placed, Leaving
  <2> QED BY <2>1, <2>2 DEF FramesOf
<1> HIDE DEF W, G, B
<1>4. FrameStep(StatusOf(Out(sent), Refused(failed), W),
                StatusOf(Out(sent) \cup G, Refused(failed) \cup B, W \ (G \cup B)))
  BY <1>2, <1>3, SettleStep
<1>5. FrameStep(StatusAt(sent, failed, pending), StatusAt(sent', failed', pending'))
  BY <1>1, <1>4 DEF StatusAt, W
<1> QED BY <1>1, <1>5 DEF Moves, PlacedInv

\* queue_frame, with or without an answer inside its callback.
LEMMA QueueFrameMoves ==
    ASSUME ResolverInv, PlacedInv, NEW a \in Address, NEW works \in BOOLEAN,
           QueueFrame(a, works)
    PROVE  Moves
<1> DEFINE S == Out(sent)
           F == Refused(failed)
           W == FramesOf(pending, Active(pending))
           x == queued + 1
<1>1. /\ TablesOK /\ queued < FrameBound /\ queued' = x
      /\ queued \in 0 .. FrameBound /\ queued \in Nat /\ x \in Frame
  BY ArpAssumption DEF ResolverInv, TablesOK, QueueFrame, Frame
<1>2. Placed(sent, failed, pending, queued)
  BY DEF PlacedInv
<1>3. /\ S \cap F = {} /\ S \cap W = {} /\ F \cap W = {} /\ W \subseteq Frame
      /\ \A f \in Frame : f \in S \cup F \cup W <=> f <= queued
  BY <1>2, PlacesNow
<1>4. /\ FrameStep(StatusOf(S, F, W), StatusOf(S \cup {x}, F, W))
      /\ FrameStep(StatusOf(S, F, W), StatusOf(S, F \cup {x}, W))
      /\ FrameStep(StatusOf(S, F, W), StatusOf(S, F, W \cup {x}))
  BY <1>1, <1>3, OfferStep
<1>5. StatusAt(sent, failed, pending) = StatusOf(S, F, W)
  BY DEF StatusAt
<1>6. CASE Reject(x) /\ UNCHANGED <<sent, pending>>
  <2>1. failed' = [failed EXCEPT ![x] = @ + 1]
    BY <1>6 DEF Reject
  <2>2. Placed(sent, failed', pending, x) /\ Refused(failed') = F \cup {x}
    <3>1. Refuses(failed, failed', queued + 1)
      BY <2>1 DEF Refuses
    <3> QED BY <1>1, <1>2, <3>1, OfferPlaced
  <2>3. StatusAt(sent', failed', pending') = StatusOf(S, F \cup {x}, W)
    BY <1>6, <2>2 DEF StatusAt
  <2> QED BY <1>1, <1>4, <1>5, <1>6, <2>2, <2>3 DEF Moves, PlacedInv
<1>7. CASE sent' = Append(sent, x) /\ UNCHANGED <<failed, pending>>
  <2>1. Placed(sent', failed, pending, x) /\ Out(sent') = S \cup {x}
    BY <1>1, <1>2, <1>7, OfferPlaced
  <2>2. StatusAt(sent', failed', pending') = StatusOf(S \cup {x}, F, W)
    BY <1>7, <2>1 DEF StatusAt
  <2> QED BY <1>1, <1>4, <1>5, <1>7, <2>1, <2>2 DEF Moves, PlacedInv
<1>8. CASE QueueWaits(a)
  <2>1. /\ FreeSlots # {} /\ pending' = Enqueue(pending, a, x)
        /\ UNCHANGED <<sent, failed>>
    BY <1>8 DEF QueueWaits
  <2>2. /\ Placed(sent, failed, pending', x)
        /\ FramesOf(pending', Active(pending')) = W \cup {x}
    BY <1>1, <1>2, <2>1, EnqueuePlaced
  <2>3. StatusAt(sent', failed', pending') = StatusOf(S, F, W \cup {x})
    BY <2>1, <2>2 DEF StatusAt
  <2> QED BY <1>1, <1>4, <1>5, <2>1, <2>2, <2>3 DEF Moves, PlacedInv
<1>9. ASSUME NEW h \in Hardware, QueueAnswered(a, h) PROVE Moves
  <2> DEFINE d == Enqueue(pending, a, x)
             t == Transmitted(d, a, {})
             G == FramesOf(pending, Waiting(pending, a))
             D == Waiting(d, a)
  <2>1. /\ FreeSlots # {} /\ pending' = Release(d, D) /\ sent' = sent \o t
        /\ failed' = Report(failed, d, D \cap {})
    BY <1>9 DEF QueueAnswered, Learn, FlushPending
  <2>2. /\ Placed(sent, failed, d, x) /\ FramesOf(d, Active(d)) = W \cup {x}
        /\ FramesOf(d, D) = G \cup {x}
    BY <1>1, <1>2, <2>1, EnqueuePlaced
  <2>3. /\ t \in Seq(Frame) /\ Distinct(t)
        /\ Out(t) = FramesOf(d, D \ {})
    BY <2>2, TransmittedIs
  <2>4. D \subseteq Active(d)
    BY DEF Waiting, Active
  <2>5. G \subseteq W
    BY DEF FramesOf, Waiting, Active
  <2> HIDE DEF d, t, D, G
  <2>6. FramesOf(d, {}) = {} /\ D \cap {} = {} /\ D \ {} = D /\ D \cup {} = D
    BY DEF FramesOf
  <2>7. /\ Leaving(d, D, {}, t)
        /\ Left(sent, failed, d, D, {}, t, sent', failed', pending')
    BY <2>1, <2>3, <2>4, <2>6 DEF Leaving, Left
  <2>8. /\ Placed(sent', failed', pending', x)
        /\ Out(sent') = S \cup G \cup {x} /\ Refused(failed') = F
        /\ FramesOf(pending', Active(pending')) = (W \cup {x}) \ (G \cup {x})
    <3>1. /\ Placed(sent', failed', pending', x)
          /\ Out(sent') = S \cup FramesOf(d, D)
          /\ Refused(failed') = F \cup FramesOf(d, {})
          /\ FramesOf(pending', Active(pending')) =
                FramesOf(d, Active(d)) \ (FramesOf(d, D) \cup FramesOf(d, {}))
      BY <2>2, <2>7, SettlePlaced
    <3> QED BY <2>2, <2>6, <3>1
  <2>9. x \notin W
    <3>1. ~(x <= queued)
      BY <1>1
    <3> QED BY <1>1, <1>3, <3>1
  <2>10. (W \cup {x}) \ (G \cup {x}) = W \ G
    BY <2>9
  <2>11. StatusAt(sent', failed', pending') = StatusOf(S \cup G \cup {x}, F, W \ G)
    BY <2>8, <2>10 DEF StatusAt
  <2>12. FrameStep(StatusOf(S, F, W), StatusOf(S \cup G \cup {x}, F, W \ G))
    BY <1>1, <1>3, <2>5, AnsweredStep
  <2> QED BY <1>1, <1>5, <2>8, <2>11, <2>12 DEF Moves, PlacedInv
<1> QED BY <1>6, <1>7, <1>8, <1>9 DEF QueueFrame, QueueTooLarge, QueueHit, QueueRefused

\* Every step of the resolver is a step of FrameQueue or changes no status.
LEMMA MovesNext == ResolverInv /\ PlacedInv /\ [Next]_vars => Moves
<1> SUFFICES ASSUME ResolverInv, PlacedInv, [Next]_vars PROVE Moves
  OBVIOUS
<1>1. CASE Advance \/ UNCHANGED vars
  BY <1>1, NothingMoves DEF Advance, vars
<1>2. ASSUME NEW a \in Address, NEW works \in BOOLEAN, QueueFrame(a, works) PROVE Moves
  BY <1>2, QueueFrameMoves
<1>3. ASSUME NEW a \in Address, NEW works \in BOOLEAN, Resolve(a, works) PROVE Moves
  BY <1>3, NothingMoves DEF Resolve
<1>4. ASSUME NEW a \in Address, NEW h \in Hardware, NEW broken, OnArpPayload(a, h, broken)
      PROVE  Moves
  <2> DEFINE D == Waiting(pending, a)
             t == Transmitted(pending, a, broken)
  <2>1. /\ pending' = Release(pending, D) /\ sent' = sent \o t /\ UNCHANGED queued
        /\ failed' = Report(failed, pending, D \cap broken)
    BY <1>4 DEF OnArpPayload, Learn, FlushPending
  <2>2. /\ t \in Seq(Frame) /\ Distinct(t)
        /\ Out(t) = FramesOf(pending, D \ broken)
    <3>1. Placed(sent, failed, pending, queued)
      BY DEF PlacedInv
    <3> QED BY <3>1, TransmittedIs
  <2>3. D \subseteq Active(pending)
    BY DEF Waiting, Active
  <2> HIDE DEF D, t
  <2>4. /\ D \ broken \subseteq Active(pending) /\ D \cap broken \subseteq Active(pending)
        /\ (D \ broken) \cap (D \cap broken) = {} /\ (D \ broken) \cup (D \cap broken) = D
    BY <2>3
  <2>5. /\ Leaving(pending, D \ broken, D \cap broken, t)
        /\ Left(sent, failed, pending, D \ broken, D \cap broken, t,
                sent', failed', pending')
    BY <2>1, <2>2, <2>4 DEF Leaving, Left
  <2> QED BY <2>1, <2>5, SettleMoves
<1>5. ASSUME NEW broken, NEW unsent, Tick(broken, unsent) PROVE Moves
  <2> DEFINE lost == OverdueFrames \cup
                     WaitingFor(pending, Resolving(GivenUp(resolutions, broken)))
             t == << >>
  <2>1. /\ pending' = Release(pending, lost) /\ failed' = Report(failed, pending, lost)
        /\ UNCHANGED <<queued, sent>>
    BY <1>5 DEF Tick
  <2>2. lost \subseteq Active(pending)
    BY DEF OverdueFrames, WaitingFor, Active
  <2>3. t \in Seq(Frame) /\ Len(t) = 0 /\ sent' = sent \o t
    <3>1. sent \in Seq(Frame)
      BY DEF PlacedInv, Placed
    <3> QED BY <2>1, <3>1
  <2> HIDE DEF lost, t
  <2>4. /\ Distinct(t)
        /\ Out(t) = FramesOf(pending, {})
    BY <2>3 DEF Out, FramesOf, Distinct
  <2>5. {} \subseteq Active(pending) /\ {} \cap lost = {} /\ {} \cup lost = lost
    OBVIOUS
  <2>6. /\ Leaving(pending, {}, lost, t)
        /\ Left(sent, failed, pending, {}, lost, t, sent', failed', pending')
    BY <2>1, <2>2, <2>3, <2>4, <2>5 DEF Leaving, Left
  <2> QED BY <2>1, <2>6, SettleMoves
<1> QED BY <1>1, <1>2, <1>3, <1>4, <1>5 DEF Next, TickAny

\* The resolver implements FrameQueue: every frame is transmitted once,
\* reported once or waits in one slot, and what is settled stays settled.
THEOREM ResolverImplementsQueue == Spec => ImplementsFrameQueue
<1>1. Init => PlacedInv
  <2> SUFFICES ASSUME Init PROVE PlacedInv
    OBVIOUS
  <2>1. /\ sent \in Seq(Frame) /\ Len(sent) = 0 /\ failed \in [Frame -> 0 .. 1]
        /\ pending \in [PendingSlot -> PendingFrame] /\ queued = 0
    BY DEF Init, PendingFrame
  <2>2. Out(sent) = {} /\ Refused(failed) = {} /\ Active(pending) = {}
    BY <2>1 DEF Init, Out, Refused, Active, Free
  <2>3. FramesOf(pending, Active(pending)) = {}
    BY <2>2 DEF FramesOf
  <2>4. \A f \in Frame : ~(f <= 0)
    BY ArpAssumption DEF Frame
  <2> QED BY <2>1, <2>2, <2>3, <2>4 DEF PlacedInv, Placed, Distinct
<1>2. Init => FrameQueue!Init
  <2> SUFFICES ASSUME Init PROVE FrameQueue!Init
    OBVIOUS
  <2>1. \A f \in Frame : f > 0
    BY ArpAssumption DEF Frame
  <2>2. \A f \in Frame : FrameStatus(f) = "none"
    BY <2>1 DEF Init, FrameStatus
  <2> QED BY <2>2 DEF FrameQueue!Init, FrameQueue!Frame, Frame
<1>3. ResolverInv /\ PlacedInv /\ [Next]_vars => PlacedInv'
  BY MovesNext DEF Moves
<1>4. ResolverInv /\ ResolverInv' /\ PlacedInv /\ [Next]_vars => [FrameQueue!Next]_Mapped
  <2> SUFFICES ASSUME ResolverInv, ResolverInv', PlacedInv, [Next]_vars
               PROVE  [FrameQueue!Next]_Mapped
    OBVIOUS
  <2>1. PlacedInv' /\ queued \in Nat /\ queued' \in Nat
    BY MovesNext, ArpAssumption DEF Moves, ResolverInv, TablesOK
  <2>2. FrameStep(Mapped, Mapped')
    BY <2>1, MovesNext, MappedIs, MappedNext DEF Moves
  <2> QED BY <2>2
        DEF FrameStep, FrameQueue!Next, FrameQueue!Offer, FrameQueue!OfferAnswered,
            FrameQueue!Settle, FrameQueue!IsNext, FrameQueue!Waits, FrameQueue!Frame,
            FrameQueue!Status, FrameQueue!Settled, Frame, Mapped
<1>5. Spec => [](ResolverInv /\ PlacedInv)
  BY <1>1, <1>3, ArpInvariant, PTL DEF Spec
<1> QED BY <1>2, <1>4, <1>5, PTL DEF Spec, ImplementsFrameQueue, FrameQueue!Spec, Mapped
=============================================================================
