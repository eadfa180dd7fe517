# vectorNet in TLA+

Specifications of the protocol core of vectorNet, a user-space network stack in
C++: a reliable transport over IPv4 over Ethernet, with a packet pool and
lock-free rings for its threads.  TLC checks the specifications on small
instances; TLAPS proves the central results for every instance.

## 1. The system

| Component | State | Operations | Talks to |
|---|---|---|---|
| Connection (`src/transport/connection.cpp`) | sequence numbers, two pools, receive slots, remembered control segment, peer window | `connect`, `send`, `close`, `on_segment`, `tick` | calls every transport part below; sends through a transmit callback; delivers through a receive callback |
| State machine (`state_machine.cpp`) | state, `reset_sent` | `handle(event)` | returns the actions the connection performs |
| Retransmission queue (`retransmission_queue.cpp`) | retained segments with SACK marks | `enqueue`, `acknowledge`, `apply_sacks`, `lowest_unsacked` | releases buffers to the TX pool |
| Receive ranges (`receive_ranges.cpp`) | cumulative ACK, out-of-order ranges | `insert`, `generate_sacks` | feeds the headers the connection sends |
| Fast retransmit (`fast_retransmit.cpp`) | last ACK, duplicate count, recovery epoch | `on_ack` | picks a segment of the queue |
| Congestion control (`congestion.cpp`) | cwnd, ssthresh, phase, recovery epoch | `on_ack`, `on_loss`, `on_recovery_ack`, `send_allowance_bytes` | limits `send` |
| Timeout estimator (`rto.cpp`) | srtt, rttvar, computed and current RTO | `observe`, `on_timeout`, `on_forward_progress` | decides when `tick` retransmits |
| Packet pool (`alloc/packet_pool.cpp`) | free list, in-use flags | `acquire`, `release` | the connection |
| SPSC ring (`alloc/spsc_ring.hpp`) | two cursors, slots | `try_push`, `try_pop` | one producer and one consumer thread |
| ARP resolver (`link/arp.cpp`) | cache, resolutions, pending frames | `resolve`, `queue_frame`, `on_arp_payload`, `tick` | transmit and failure callbacks of the network stack |
| Reassembly (`net/reassembly.cpp`) | slots with bytes, holes and length | `insert`, `sweep` | delivers to the network stack |
| Fragmentation, network stack (`net/fragmentation.cpp`, `network_stack.cpp`) | identification counter, the send under way | `send_datagram`, poll, `tick` | gives fragments to the resolver, received ones to reassembly, datagrams to a callback |
| Ethernet and IPv4 codecs (`link/ethernet.cpp`, `net/ipv4.cpp`) | - | build, parse, dispatch | between the network stack and the link |
| Link endpoint (`link/link_endpoint.cpp`, `darwin/bpf_backend.cpp`) | two descriptors, a read buffer, the device's settings | `open`, `poll_frames`, `send_frame` | the kernel's BPF device; a callback per frame |
| Instrumentation, tools | - | histograms, probes, benchmarks | drive the stack |

What is hard here: segments that are lost, repeated and reordered; ACKs, SACKs
and windows that are stale when they arrive; timeouts that race late ACKs;
retries of control segments in states that do not expect them; two recovery
controllers that must agree on when an epoch ends; two records of what was
received; bounded pools and tables; sequence numbers, identifications and ring
cursors that wrap; a datagram that fails half-way through its fragments; frames the
kernel captures while the device is still being set up; and, in the ring, two
threads that see each other's cursors late.

## 2. The modules

| Module | Models |
|---|---|
| `Sequence` | wrapping sequence arithmetic (`sequence.hpp`), width as a parameter |
| `StateMachine` | the transition table and `handle` |
| `RetransmissionQueue`, `ReceiveRanges`, `FastRetransmit`, `Congestion` | the four data structures and controllers, as operators on records |
| `Connection` | one endpoint: each public operation as an operator from the endpoint record to the new record and the segments sent |
| `Transport` | two endpoints and the network between them; the actions, the properties |
| `MCTransport` | values of the function-valued constants for the runs |
| `TransportProofs` | theorems about the endpoints (resets, retries, buffers, recovery epochs), the data, the congestion window, the types and the windows |
| `SpscRing` | the ring, one step per memory access |
| `BoundedFifo` | what the ring promises: a bounded first-in first-out queue |
| `SpscRingProofs` | the theorems about the ring |
| `ArpResolver` | cache, resolutions and pending frames of `ArpResolver` |
| `FrameQueue` | what the resolver promises: each frame is transmitted, refused or kept, and what is kept is settled once |
| `ArpResolverProofs` | the theorems about the resolver |
| `Reassembly` | the table of incomplete datagrams |
| `ReassemblyProofs` | the theorems about the table |
| `NetworkStack` | datagrams from one host to another: fragmentation over `FrameQueue`, the wire, the receiver's checks and `Reassembly` |
| `NetworkStackProofs` | the theorems about the network stack |
| `Rto` | the timeout estimator in 64-bit arithmetic, driven by ACKs and timeouts |
| `RtoProofs` | the theorems about the estimator |
| `BpfLink` | opening, polling and destroying a link endpoint on the BPF device |
| `BpfLinkProofs` | the theorems about the link endpoint |
| `NumberFacts` | quotients, remainders and least elements, for all the proofs |

### Connection and Transport

The record of an endpoint has one field per member of `Connection::Impl` that
control depends on: `state` and `reset_sent` (the machine), `control` (the
remembered control segment, `NoControl` when `remembered_control_bytes` is 0),
`queue`, `next_send`, `oldest`, `fast`, `congestion`, `peer_window`, `tx_free`
and `rx_free` (the pools' available counts), `ranges` and `ack` (the range set),
`slots` and `delivery`.  `delivered` records what the receive callback got, and
`receive_drop` whether a segment had to be dropped; both are only read by
properties.

Every operation runs to completion on the host's single event-loop thread, so it
is one step, with everything it calls: `OnSegment` is `process_ack`, then
`process_control`, then `process_payload` with its delivery loop and its ACK.
Two loops are written in closed form: `DeliverContiguous` and the congestion
avoidance loop.  `ReceiveRanges` keeps a set where the code keeps a sorted array;
position in the array is rank by distance from the ACK.

Abstractions:

* Payloads are numbers, given by the sender in order; headers are records.  The
  wire codec is not modelled: only segments some endpoint sent arrive, and
  malformed ones are outside the model.
* Time is three Boolean inputs of `Tick` (TIME_WAIT over, control retry due,
  timeout due).  Any combination may occur, so the runs cover every value of the
  timeout estimator, also early timeouts.
* A failing transmit callback changes nothing but counters; it is a lost segment.
* `NewConnection` starts from a configuration within its limits.  The constructor
  clamps three members (`connection.cpp:57-66`) after the pools and the congestion
  controller were built from the unclamped ones; with the defaults and in
  `tools/bench_runner.cpp` the two agree.
* A duplicate count above the threshold behaves like threshold + 1 (the code
  compares for equality), so it is capped there.
* The network is a set of segments per destination: order is lost, a delivered
  segment may stay as a duplicate, and `Lose` removes any.  When `NetCapacity` is
  exceeded the older segments are lost, which is a behaviour of the real network
  too; it bounds how many old segments coexist, not how old they are.

`InitEstablished` is the state after a handshake without losses, computed by the
operations themselves; it lets the data runs spend their states on data.

### SpscRing

`pushed` and `popped` count completed operations, and the code's cursors are
these counts modulo `Word`.  An acquire load may return any value the other
cursor has had since the one this thread saw last: coherence forbids going back,
nothing forces the newest.  Slots are plain memory, so the property that matters
most is that a write and a read of one slot are never under way together.

### ArpResolver

`cache` and `pending` are the code's arrays, because scans stop at the first match
and frames leave in the order of the slots.  `resolutions` is a set: nothing depends
on the position of a resolution, only on how many fit.  A transmit callback may
fail at any call (`works`, `broken` and `unsent` are inputs), and the reply to a
request may be processed inside the callback that sends it, as
`test/arp_pending_test.cpp` does; in `tick` the replies come later.  A callback that
delivers the reply and then returns an error is left out: `queue_frame` would report
as failed a frame that was flushed already.  So is a flush that fails inside the
callback.  The Ethernet endpoint's `send_frame` never calls back.  `tick` is one
step in four parts, in the code's order; its loops are written in closed form (the
frames `flush_pending` transmits are the waiting ones by the rank of their slots,
`Nth`).  The
clock ends at `Top`, the largest `uint64_t`, where deadlines saturate.  `queued`,
`sent`, `failed` and `peer` are history for the properties.  Malformed messages
and the reply to a request change no state and are left out.

`ImplementsFrameQueue` maps these tables to one status per frame: the resolver is a
`FrameQueue`, and `NetworkStack` uses that instead of the resolver.  The refinement is
proved as well as checked, so what holds of the stack over `FrameQueue` rests on
no assumption about the resolver.

### Reassembly

Any fragment that passes the checks of `insert` may arrive.  A slot's `data` is
not cleared when the slot is taken again, as in the code, so the model can deliver
a byte of an earlier datagram if the holes allow it.  `arrived` is the reference: the
first byte that arrived at each position since the slot was taken.  `holes` is a set
instead of a sorted array.  Time is the age of a slot, as far as `sweep` looks.

### NetworkStack

The module composes two others: the sender's resolver is `FrameQueue`
(`INSTANCE`, with `status` shared), and the receiver's table is `Reassembly`, whose
keys are the identifications and whose contents are the datagrams.  `send_datagram`
is one call, but each fragment it emits is a step, because the resolver may
transmit, keep or refuse each of them; nothing else happens at the sender in
between.  `ArpResolver`'s answer inside the transmit callback
(`FrameQueue!OfferAnswered`) does not occur here: the Ethernet endpoint never calls
back from `send_frame`.

Every transmitted frame may arrive at any later time and any number of times, whole
or in one of the forms the receiver has to refuse (cut, VLAN-tagged, header damaged,
another type, protocol or destination).  The header checksum is a flag that damage
clears.  Padding is modelled by lengths: a short packet has more bytes behind the
Ethernet header than its total length says.  A packet
whose version, header length or total length is no IPv4 header (`ipv4.cpp:62-71`) is
not among the forms; the code drops it like the damaged ones, without a change of
state.  `sweep` may find any of the incomplete datagrams overdue at any time.  `result`, `received` and `ends` are history for the
properties; `ends` records, beside the bytes that `Reassembly` keeps in `arrived`,
which datagram's last fragment told a slot its length.

### Rto

`observe`, `on_timeout` and `on_forward_progress` on integers modulo `Word`, called
the way `process_ack` and `tick` call them; which ACK brings a sample (Karn's rule)
is a choice.  `last`, `low`, `high` and `backoffs` are history for the properties.
`Transport` does not use the module: there any timeout may come at any time.

### BpfLink

Every system call of `open` is a step, since frames are captured between two of
them, and every call may fail.  The resources are sets: what the scopes of `open`
own, what the backend owns, what is really open.  The kernel is external: it stores
the frames that the settings made so far select, and lays out a batch with aligned
records, the last with or without its padding.  The walk over a batch sees genuine
headers or any others.  `send_frame` changes no state of the endpoint.

## 3. Runs

| Run | What it asks | Bounds |
|---|---|---|
| `transfer` | delivery, retention, recovery epochs, buffers | four full segments one way, one SACK block per ACK, two segments under way each way, wrap after the first byte |
| `delivery` | no invited segment is dropped; no permanent zero window; every accepted payload is delivered and acknowledged | three segments, receiver with two buffers |
| `reopen` | data and buffers across resets and reconnections; one RST per attempt; retries that fit the state | one payload, connect by one side, close by both, at any time |
| `ring` | race freedom, order, refinement, progress | four slots, cursors of three bits, eighteen pushes |
| `arp` | frames are settled, once, and never left without a resolution; one entry with the latest hardware address; refinement of `FrameQueue` | three peers, two hardware addresses, two cache entries, two resolutions, two frames, two slots, two attempts |
| `reassembly` | holes, bytes and length agree; first arrival wins; few holes; nothing of an earlier datagram; slots are given back | one slot, two keys, two contents each, six bytes in units of two |
| `rto` | the documented formula; no timeout below the sample; backing off and recovering | seven round-trip times from 0 to the largest value of an eleven-bit word |
| `stack` | whole datagrams or none; refused ones never delivered; accepted ones on the wire | three datagrams of up to three fragments, four fragments in all, two identifications, one reassembly slot |
| `link` | balanced resources; no frame from before the filter; each frame once and in order; safe and finite walks; progress | two device nodes, a kernel buffer of two frames, three frames between flushes, header fields up to 17 |
| `small_segments`, `closed_retry`, `simultaneous_open` | statements of the documents the code does not keep | see section 6 |

Four segments are the fewest with three duplicate ACKs from data behind one hole
and with two holes (so that one SACK block cannot report everything); sequence
numbers start one below the wrap-around, and `Modulus` is just more than twice the
flight, where comparisons are about to become ambiguous.  In
`reopen` sequence numbers play no part, so they have two bits.  The ring's
cursors wrap twice in eighteen pushes.

In `arp` the cache has room for two of three peers, and the clock runs long enough
for its entries to be stored at different times and to expire one after the other:
the first slot becomes vacant while the second still holds an address that is then
announced again, the case in which an insertion that stopped its scan early would
leave two entries.  The array of resolutions has two elements as well, so frames,
`resolve` and refreshes for three peers find it full.  Two frames may wait for one
peer or for two, a resolution gets its retry before its deadline, and the clock
reaches its last value, where deadlines saturate.  In `reassembly` two datagrams take turns in one slot, whose old
bytes stay behind; the six bytes are three units, with room for a hole on both sides
of a fragment.  The table of holes has room to spare, as in the code: that the
branch for a full table is not taken is what `HolesBounded` shows.

In `rto` the maximum is four times the minimum and the word eight times the maximum,
so that the variation exceeds the maximum, both clamps are reached and every
backing off from the minimum ends at the cap.  In `stack` the sizes are just below,
at and above what one fragment holds, one is larger than any datagram may be, a
packet may be too large for a slot of the resolver, the smallest is padded, and with
two identifications the third datagram reuses the first one's; then bytes of one
datagram may be completed by another, and the last fragment of the one may cut off
the other.  In `link` a record's
length is a multiple of the alignment for one size and not for the other, and `Top`
exceeds every batch.

Payloads flow from the client to the server in every run: the two directions of a
connection have separate state (retransmission queue and congestion control for one,
receive ranges and slots for the other) and share only the segments that carry
both; data both ways at once is not among the runs, its state space being the
product of the two.

`DuplicateAckThreshold` is 3 except in the runs without a flight of that size,
where it is 1.

### Fairness

`FairTransferSpec` assumes that a sender's event loop keeps calling `tick` and
that a due timeout is acted on (weak fairness; the loop of
`tools/bench_runner.cpp` calls it after every poll), and that the network is
fair-lossy for the segments that matter: if the oldest outstanding segment, or an
ACK with the receiver's current cumulative ACK, is under way again and again, it
is received again and again.  The enabling condition of that strong fairness is
written out.  Nothing is assumed about fast retransmission or about the order in
which segments arrive.  `FairSpec` of the ring assumes that both threads keep
running and that a load which is repeated for ever returns the newest value in
the end.  For the resolver and the reassembly table the clock goes on and the loop of
`tools/bench_runner.cpp` calls `tick` again and again (for the resolver this is needed
only while a frame is overdue); nothing is assumed about replies or fragments.  For
the link the owner polls again and again, a poll goes on until it returns, and the
kernel does its part: while it holds frames, a wait and a read finally succeed
(`WF_vars(ReadBatch)`).  An endless run of timeouts or errors with frames in the
buffer is thus excluded; which frames are captured, and when, is left open.

## 4. Properties

Transport:

* `InOrderExactlyOnce`: the receive callback gets the accepted payloads, each once and in order.
* `RangesMatchSlots`: the ranges that make ACKs and the slots that feed the application describe the same bytes.
* `MissingIsRecoverable`: a payload the peer does not have is retained and not marked as SACKed.
* `HeadIsUnsacked`: the oldest retained segment is never marked, so a timeout repairs the hole the peer waits for.
* `RecoveryEndsWithFlight`, `OneDecreasePerEpoch`: the recovery epochs.
* `BuffersAccounted`: no pool buffer leaks or is counted twice.
* `WindowIsHonoured`, `NeverWindowBlocked`: the window protects the receiver and, though there is no probe, never blocks the sender for good.
* `DataSurvivesAttempts`: the first, third and sixth of these across attempts that fail and are opened again.
* `AtMostOneReset`, `RetryMatchesState`: the control exchange.
* `AllDelivered`: liveness.

Ring: `NoSlotRace`, `RingInv` (whose parts are the types, `CursorsOrdered`,
`SlotsHoldValues` and `PopsInPushOrder`), `ImplementsFifo`, `AllPopped`, `AllPushed`.

Resolver: `ResolverInv` (the types of the tables, `PendingHasResolution` and
`OneResolutionPerTarget`), `NoWaitForKnownAddress`, `CacheMatchesPeer`,
`EveryFrameSettles`, and `ImplementsFrameQueue`, by which every frame is sent or
reported failed once and never both.
Since a frame that waits always has a resolution, and joins it after it began, the
deadline of the resolution settles it: no frame waits longer than its own deadline.

Reassembly: `HolesAreMissingBytes`, `FirstArrivalWins`, `DeliveredIsReceived`,
`TableOK` (the types and `HolesBounded`), `EverySlotIsFreed`.  `HolesBounded` gives at most
4,095 holes with the code's sizes, so the 8,192 of a slot are never exhausted.

Network stack: `WholeUnlessReused` (what the callback gets is one whole datagram for
this host; datagrams mix, in their bytes or by the length that the last fragment of one
gives another, only if the identification came round in between),
`RefusedNeverDelivered`, `AcceptedIsTransmitted`.  That datagrams can mix once the
identification comes round is a limit of IPv4 that the property states: no checksum
covers the payload.

Timeout: `ComputedIsClampedSum`, `TimeoutCoversSample`, `BackoffIsExponential`; the
types and `EstimatesWithinSamples` are proved only.

Link: `ResourcesBalanced`, `OnlyWantedFrames`, `InOrderOnce`, `WalkIsSafe`
(what the walk hands to the callback lies inside the batch, and the walk ends),
`EveryFrameRead`.  The read of a header itself stays inside the batch by the test just
before it (`bpf_backend.cpp:411`); no property speaks of it.

Each property of each passing run has a mutant, an operator beside the definition
it replaces, that makes TLC find the property violated.

## 5. Proofs

`SpscRingProofs` proves, for every `Capacity >= 2` and every `Word` that is a
larger multiple of it (in the code 2^64 and a power of two):

* `RingCorrect`: `Spec => []RingInv`;
* `TypeCorrect`, `CursorsStayOrdered`, `NoSlotOverwritten`, `RaceFree`,
  `OrderPreserved`: the invariants above;
* `RingImplementsFifo`: the ring refines `BoundedFifo`.

`NoSlotRace` and `PopsInPushOrder` are not inductive.  `RingInv` adds what the two
threads know about each other: the stale counts lag behind the true ones
(`CursorsOrdered`), so the producer's test against a stale count is on the safe
side, and every live value is in its slot (`SlotsHoldValues`).  The arithmetic is
in `NumberFacts`: division has a unique quotient and remainder; reducing modulo
`Word` first does not change the slot, because `Capacity` divides `Word`; counts
less than `Capacity` apart have different slots; and the unsigned difference of
two cursors is the difference of the counts.  In the refinement a push takes
effect with the store to `producer_` and a pop with the store to `consumer_`.

The only assumption is `RingAssumption`.

`ArpResolverProofs` proves, for any sets of peers, any capacities, intervals and
numbers of attempts (`ArpAssumption`):

* `ArpInvariant`: `Spec => []ResolverInv`;
* `NoOrphanFrame`, `SingleResolution`: `PendingHasResolution` and `OneResolutionPerTarget`;
* `CacheIsCurrent`, `NoNeedlessWait`: `CacheMatchesPeer` and `NoWaitForKnownAddress`;
* `ResolverImplementsQueue`: the resolver refines `FrameQueue`.

`ResolverInv` is the first two together with `TablesOK`, the types of the tables.  The
frames need no more than the types; that retries and refreshes neither lose nor
double a target is in `RetriesKeepTargets` and `RefreshKeepsTargets`, and that
learning an address ends exactly its own resolution and frames in `LearnKeeps`.

The two properties of the cache depend on each other through `lookup`, which expires
entries while it searches, and are proved together (`KnownInv`): an operation either
only removes entries, or stores one and flushes the frames that waited for it.  For
the refinement `PlacedInv` says that each frame accepted so far is in exactly one
place: among those sent, those reported, or in one slot.  Every operation then moves
a set of frames from the slots to one of the other two and adds at most one new
frame, which is what `FrameQueue` allows.

`RtoProofs` proves, for every word of more than eight times the maximum timeout,
every granularity of at least 31 clock units and any bounds (`RtoAssumption`; the
constants of `rto.hpp` are an instance):

* `EstimatorCorrect`: `Spec => []EstimatorInv`;
* `EstimatorFits`, `TimeoutIsDocumentedFormula`, `NoTimeoutBelowSample`,
  `EstimatesStayWithinSamples`: the type invariant, `ComputedIsClampedSum`,
  `TimeoutCoversSample` and `EstimatesWithinSamples`;
* `BackoffDoubles`: `BackoffIsExponential`, for every number of timeouts in a row.

`EstimatorInv` is the conjunction of the first four.  The types are needed so that no
sum or product wraps around; then `update_computed_rto` computes the documented
formula even where its subtraction wraps, because the clamp that follows gives the
same result.  The timeout covers the sample because the rounding down of mean and
deviation loses less than 31 units in all, which the granularity makes up for;
without a lower bound on the granularity the property is false.  Backing off clamps at
every step what the property clamps once; the two agree because doubling cannot lead
back below the maximum.  The powers of two are a recursive function, whose defining
equation (`TwoToIs`) is proved first.

`ReassemblyProofs` proves, for any number of slots, any payload size, any unit of the
offset and any fragments (`ReassemblyAssumption`):

* `TableCorrect`: `Spec => []TableInv`;
* `HolesCorrect`, `FirstArrivalStays`, `DeliveryIsOwn`, `TableStaysOK`: the four
  invariants of the run;
* `RoomForEveryHole`: if the array has one hole more than there are pairs of units in the
  largest datagram, as in the code, it always has room for the hole a split adds, so
  `subtract_received_range` never fails.

`TableInv` relates a slot to the bytes that arrived: holes are disjoint, not adjacent,
begin at a unit, and cover exactly the positions nothing arrived for below the known
length; a byte that arrived is in `data`.  A datagram without holes therefore consists of
bytes that arrived since its slot was taken, never of what an earlier one left in
`data`.  The number of holes is
bounded by an injection: two holes cannot share a pair of units.

`TransportProofs` proves of every initial state of `Transport` and every value of its
constants (`TransportAssumption`, `ConnectionAssumption`), whatever the network does:

* `LocalCorrect`: `LocalInv`, what holds of each endpoint by itself;
* `OneResetPerAttempt`, `RetriesMatch`, `NoBufferLost`: `AtMostOneReset`,
  `RetryMatchesState` and `BuffersAccounted`;
* `RecoveryCorrect`, `EpochsEnd`: `RecoveryInv` and `RecoveryEndsWithFlight`.

Each operation of `Connection` is first shown to change only the fields it is about
(the lemmas on frames of fields), then each operation is one lemma per conjunct.
`LocalInv` pairs the state of the machine with the control segment it remembers and
counts a buffer for every retained segment and every occupied slot.  `RecoveryInv`
says that the recovery point of an epoch is the end of a segment that is still
retained, and that the duplicate-ACK counter's last ACK is the queue's oldest number: the
ACK that releases that segment ends the epoch, in both controllers.

The second half of the module proves the delivery guarantee over any network that loses, repeats
and reorders, for `Spec` and for `TransferSpec`:

* `DataCorrect`: `DataInv`, the two directions of a connection;
* `DeliveredInOrder`, `NothingGivenUp`, `HeadStaysUnsacked`, `ReceptionAgrees`,
  `AttemptsKeepData`: `InOrderExactlyOnce`, `MissingIsRecoverable`, `HeadIsUnsacked`,
  `RangesMatchSlots` and `DataSurvivesAttempts`;
* `FlowCorrect`, `CutsOncePerEpoch`: `EpochInv` and the action property
  `OneDecreasePerEpoch`;
* `TypesHold`: `TypeOK`;
* `WindowsHonoured`, `WindowsStayOpen`: `WindowIsHonoured` and `NeverWindowBlocked`.

These theorems assume `WithinHalf`: what one endpoint sends covers less than half of
the sequence space.  The model's network may keep a segment for ever, and once the
numbers come round such a segment cannot be told from a new one; the real network
drops it after its lifetime, which the code relies on and does not enforce.  The runs
check the same properties at a `Modulus` just large enough for it.

The argument replaces sequence numbers by positions.  The payloads accepted so far
divide the numbers used at points `at[0] .. at[N]`, the ruler; every number in a
segment, queue, slot, range or recovery point is one of these points, and on the
ruler the wrapping comparisons are comparisons of positions.  `DataInv` then says for
each direction which positions are delivered, held, marked and retained, and that
every segment under way carries the payload its number stands for and an ACK and
blocks that were true when it was sent.  Since what the receiver has only grows, a
stale ACK or block is still true when it arrives; that is the step that no
single-endpoint invariant can take.

The types follow from `LocalInv`, `DataInv` and `ShapeInv`, which keeps the fields of
segments that the ruler says nothing about.  The two theorems about windows assume
`FullSegments`, every payload fills its segment; `small_segments` (section 6) shows
that without it the first is false.  `WindowsStayOpen` assumes also that a segment
fits the window field (in the code 1,436 bytes, or what the configuration says, against 65,535).  A window may be
stale, and a stale one may be larger than the current one, so the argument does not
follow windows at all: an established sender has always heard from its peer, none of
the peer's windows exceeds its buffers, and with full segments the bytes in flight
count the payloads (`WindowInv`).  So a sender retains at most as many payloads as its
peer has buffers.  What the peer holds beyond a hole is retained by the sender, and so
is the payload that is missing (`DataInv`): one buffer at least is free for that one
(`HasRoom`).  The buffer that is always free is also why every window that is
advertised has room for a segment, and a range never lacks a place, since each
range ends with a payload that occupies a slot.

`BpfLinkProofs` proves, for any capacity of the kernel's buffer, sizes, alignment,
header length and contents of damaged headers (`LinkAssumption`):

* `LinkCorrect`: `LinkInv`, and with it `ResourcesStayBalanced`, `CallbackGetsWanted`
  and `WalkStaysInside`, which are `ResourcesBalanced`, `OnlyWantedFrames` and
  `WalkIsSafe`;
* `FramesInOrder`: `InOrderOnce`.

`LinkInv` says which resources the scopes of `open` own after each call, that from
the flush on only wanted frames are in the buffer, the batch and the callback, and
that each callback of the walk has used up a header's length.  `OrderInv` numbers the
frames: those delivered, those in the batch from the walk's offset on and those in
the buffer are consecutive while no header was damaged.  That the walk meets every
record rests on `StartsIs`: the records' starts, a recursive function of the sizes, are
`BPF_WORDALIGN` of a record's length apart.

`NetworkStackProofs` proves, for any sizes and numbers of datagrams, any MTU with room
for a unit of the offset, any number of identifications and any reassembly table
(`StackAssumption`):

* `StackCorrect`: `StackInv`;
* `AcceptedAreTransmitted`, `DeliveredAreWhole`, `RefusedAreNotDelivered`:
  `AcceptedIsTransmitted`, `WholeUnlessReused` and `RefusedNeverDelivered`.

The sender's part of `StackInv` says that the packets offered to the resolver follow
one another, each beginning where the one before it of the same datagram ends, that the
identification of a datagram is its number modulo `Identifications`, and what each
answer of `send_datagram` stands for.  The receiver's part is `TableInv`, taken from
`ReassemblyProofs` through `INSTANCE`, with the fact that every byte and every length in
the table was carried by a frame that the sender transmitted under that
identification (`TableSent`, `PayloadSent`).  A refused datagram has a fragment that
was never transmitted, so one of its bytes, or its length, can reach no slot.  A first
form of the properties counted only the datagrams of the bytes; the proof showed that
the datagram whose last fragment sets the length has to be counted too.

Statements about all elements of a sequence, a recursive function or a set that
grows are proved by least counterexample (`LeastElement` in `NumberFacts`), because
the library's induction rules cannot be instantiated by the provers at hand.

Model-checked only: the liveness properties `AllDelivered`, `AllPopped`, `AllPushed`,
`EveryFrameSettles`, `EverySlotIsFreed` and `EveryFrameRead`, which are out of the
provers' reach.  Every other property of a passing run is the subject of a theorem.

## 6. Where the documents and the code disagree

* `small_segments`: the window is documented as available bytes; the code
  advertises free buffers times MSS and spends a buffer per segment, so segments
  below the MSS overrun it and the one that fills the hole can be dropped for ever.
* `closed_retry`: an undefined event closes the connection, but `tick` goes on
  repeating the SYN or FIN of the aborted attempt.
* `simultaneous_open`: after a simultaneous open both sides answer SYN+ACK with
  SYN+ACK for ever and never reach ESTABLISHED.

Two more disagreements have no run of their own.  `LLD.md:336` says that FIN_WAIT_2
follows the ACK of the FIN, but `process_control` (`connection.cpp:469`) takes any
segment with the ACK flag, so a delayed ACK of the handshake does it while the peer
has not seen the FIN.  `LLD.md:135-136` says a reply flushes
the frames that wait in insertion order, but `flush_pending` goes through the slots in
index order, and a later frame may have taken a lower slot.  `ArpResolver` models
the slots, so its `sent` shows the order; no property claims it.

## 7. Not modelled, and plan

Next: `ReceiveRangeArray`, the array loops of `receive_ranges.cpp`, shown to compute
the set operations of `ReceiveRanges`.

Outside the project:

* the byte layout of the transport, IPv4, Ethernet and ARP headers and the checksum
  arithmetic: codecs without state, which round-trip tests serve better;
* the free list of the packet pool, a sequential stack whose count is what
  `Connection` uses;
* `send_frame` of the BPF backend beyond success and failure (a clock that fails
  after a successful write would report a transmitted frame as failed);
* statistics, timestamps, histograms, scripts, benchmarks and probes.
