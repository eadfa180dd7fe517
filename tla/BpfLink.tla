------------------------------- MODULE BpfLink ------------------------------
(***************************************************************************)
(* The link endpoint on the BPF device (src/link/darwin/bpf_backend.cpp    *)
(* behind link_endpoint.cpp and EthernetEndpoint): open acquires           *)
(* descriptors and configures the device call by call, poll_frames reads a *)
(* batch of captured frames and walks its records, send_frame writes.      *)
(*                                                                         *)
(* Each system call is one step, since the kernel captures frames between  *)
(* two of them.  The kernel is external: once the device is attached it    *)
(* stores the frames the device's present settings select.  A record       *)
(* header may hold any values.                                             *)
(***************************************************************************)
EXTENDS Integers, Sequences

CONSTANTS Sizes,          \* captured lengths
          StoreCapacity,  \* frames the kernel's buffer holds
          FrameBound,     \* bound on the frames captured after a flush
          HeaderFields,   \* kBpfHeaderFieldsBytes
          Align,          \* BPF_ALIGNMENT
          Top             \* largest value of a damaged header's fields

ASSUME LinkAssumption ==
    /\ Sizes \subseteq Nat /\ StoreCapacity \in Nat /\ FrameBound \in Nat
    /\ HeaderFields \in Nat \ {0} /\ Align \in Nat \ {0} /\ Top \in Nat

VARIABLES done,      \* how many of the calls of open have succeeded
          guards,    \* resources owned by a scope of open
          backend,   \* resources owned by the BpfBackend
          acquired,  \* resources that are really open
          closes,    \* whether a resource was closed that was not open
          stored,    \* the kernel's buffer
          count,     \* frames stored since the flush
          walk,      \* the batch poll_frames_impl is walking, the bytes it gave
                     \* to the callback last, and how often it called back
          delivered, \* frames given to the callback since open
          damaged    \* whether a damaged header cut a batch short

resources == <<guards, backend, acquired, closes>>
kernel == <<stored, count>>
poll == <<walk, delivered, damaged>>
vars == <<done, resources, kernel, poll>>

NoWalk == [active |-> FALSE, records |-> <<>>, bytes |-> 0, offset |-> 0,
           span |-> <<0, 0>>, turns |-> 0]

Init == /\ done = 0 /\ guards = {} /\ backend = {} /\ acquired = {}
        /\ closes = FALSE /\ stored = <<>> /\ count = 0
        /\ walk = NoWalk /\ delivered = <<>> /\ damaged = FALSE
-----------------------------------------------------------------------------
(* open *)

\* Mutant: the buffer is flushed before the filter is installed.
OpenCallsFlushEarly ==
    <<"device", "version", "buffer", "interface", "link_type", "header_complete",
      "promiscuous", "see_sent", "flush", "socket", "mtu", "addresses", "mac",
      "filter", "immediate", "kqueue", "register", "construct">>

\* The calls of open and of query_interface_info, in their order.
OpenCalls ==
    <<"device", "version", "buffer", "interface", "link_type", "header_complete",
      "promiscuous", "see_sent", "socket", "mtu", "addresses", "mac",
      "filter", "immediate", "flush", "kqueue", "register", "construct">>

Ready == done = Len(OpenCalls)

Succeeded(call) == \E i \in 1 .. done : OpenCalls[i] = call

\* Close these resources; closing one that is not open is noted.
Close(S) == /\ acquired' = acquired \ S
            /\ closes' = (closes \/ ~(S \subseteq acquired))

\* The resource a call acquires: a descriptor, or the list of addresses.
Acquires(call) == CASE call = "device" -> {"bpf"}
                    [] call = "socket" -> {"socket"}
                    [] call = "addresses" -> {"addresses"}
                    [] call = "kqueue" -> {"kqueue"}
                    [] OTHER -> {}

\* What open_available_bpf makes of the devices it tries in turn.
OpenAvailableBpf(devices) ==
    LET usable == {i \in DOMAIN devices : devices[i] \notin {"busy", "absent"}}
    IN usable # {} /\ devices[CHOOSE i \in usable : \A j \in usable : i <= j] = "free"

Device == 1 .. 2

\* A call succeeds.  getifaddrs' list is freed and the socket closed at the
\* end of query_interface_info; the new backend takes over both descriptors.
OpenCall ==
    LET call == OpenCalls[done + 1]
    IN /\ ~Ready
       /\ call = "device" => \E devices \in [Device -> {"free", "busy", "absent", "denied"}] :
                                 OpenAvailableBpf(devices)
       /\ done' = done + 1
       /\ CASE call = "mac" ->
                 /\ Close({"addresses", "socket"})
                 /\ guards' = guards \ {"addresses", "socket"}
                 /\ UNCHANGED backend
            [] call = "construct" ->
                 /\ backend' = {"bpf", "kqueue"}
                 /\ guards' = guards \ {"bpf", "kqueue"}
                 /\ UNCHANGED <<acquired, closes>>
            [] OTHER ->
                 /\ acquired' = acquired \cup Acquires(call)
                 /\ guards' = guards \cup Acquires(call)
                 /\ UNCHANGED <<backend, closes>>
       /\ IF call = "flush" THEN stored' = <<>> /\ count' = 0 ELSE UNCHANGED kernel
       /\ UNCHANGED poll

\* The state after open returned nullptr or the endpoint was destroyed.
Reset == /\ done' = 0 /\ stored' = <<>> /\ count' = 0
         /\ walk' = NoWalk /\ delivered' = <<>> /\ damaged' = FALSE

\* Mutant: the list of addresses is not freed when no address is found.
UnwoundWithoutList == guards \ {"addresses"}

\* What the destructors of open's scopes and freeifaddrs close.
Unwound == guards

\* A call fails: open returns nullptr, all scopes are left.
OpenFails == /\ ~Ready
             /\ Close(Unwound)
             /\ guards' = {} /\ UNCHANGED backend
             /\ Reset

\* ~BpfBackend
Destroy == /\ Ready /\ ~walk.active
           /\ Close(backend)
           /\ backend' = {} /\ UNCHANGED guards
           /\ Reset
-----------------------------------------------------------------------------
(* The kernel *)

\* Frames for this stack, other traffic, and frames this host sends.
Kind == {"wanted", "foreign", "own"}

\* What the device stores, by its settings at this moment.
Selected(kind) == /\ kind = "foreign" => ~Succeeded("filter")
                  /\ kind = "own" => ~Succeeded("see_sent")

\* A frame passes the interface while the buffer has room.
Capture(kind, size) ==
    /\ Succeeded("interface") /\ Selected(kind)
    /\ Len(stored) < StoreCapacity /\ count < FrameBound
    /\ count' = count + 1
    /\ stored' = Append(stored, [number |-> count + 1, kind |-> kind, size |-> size])
    /\ UNCHANGED <<done, resources, poll>>
-----------------------------------------------------------------------------
(* poll_frames_impl *)

\* Where the kernel puts the records of a batch: at aligned offsets.
Starts(frames) ==
    LET start[i \in 1 .. Len(frames)] ==
            IF i = 1 THEN 0
            ELSE LET end == start[i - 1] + HeaderFields + frames[i - 1].size
                 IN end + ((-end) % Align)
    IN start

\* The record ends with its last byte or with the padding behind it.
BatchEnds(frames) ==
    LET end == Starts(frames)[Len(frames)] + HeaderFields + frames[Len(frames)].size
    IN {end, end + ((-end) % Align)}

\* kevent reports the device readable and read returns some of the frames.
ReadBatch ==
    /\ Ready /\ ~walk.active
    /\ \E n \in 1 .. Len(stored) : LET frames == SubSeq(stored, 1, n) IN
          /\ stored' = SubSeq(stored, n + 1, Len(stored))
          /\ \E bytes \in BatchEnds(frames) :
                walk' = [active |-> TRUE, bytes |-> bytes, offset |-> 0,
                         span |-> <<0, 0>>, turns |-> 0,
                         records |-> [i \in 1 .. n |-> [frame |-> frames[i],
                                                      start |-> Starts(frames)[i]]]]
    /\ UNCHANGED <<done, resources, count, delivered, damaged>>

\* An interrupted wait or read is repeated; a timeout or an error returns.
PollNothing == Ready /\ ~walk.active /\ UNCHANGED vars

\* The genuine record at the walk's offset, if there is one.
Here == {i \in DOMAIN walk.records : walk.records[i].start = walk.offset}

GenuineHeaders == {[header |-> HeaderFields, captured |-> walk.records[i].frame.size,
                    stamp |-> TRUE] : i \in Here}

AnyHeader == [header : 0 .. Top, captured : 0 .. Top, stamp : BOOLEAN]

Remaining == walk.bytes - walk.offset

\* Mutant: a header may be shorter than its own fields.
RejectsLong(h) == \/ Remaining < HeaderFields
                  \/ h.header > Remaining
                  \/ h.captured > Remaining - h.header
                  \/ ~h.stamp

\* The tests of a record before the callback.
Rejects(h) == \/ Remaining < HeaderFields
              \/ h.header < HeaderFields \/ h.header > Remaining
              \/ h.captured > Remaining - h.header
              \/ ~h.stamp

\* Mutant: the padding behind a record is not skipped.
WordAlignNone(n) == n

\* BPF_WORDALIGN
WordAlign(n) == ((n + Align - 1) \div Align) * Align

\* Mutant: only the first record of a batch is read.
NextOffsetEnds(h) == walk.bytes

\* Where the walk goes on, beyond the end if the padding does not fit.
NextOffset(h) ==
    walk.offset + IF h.header + h.captured = Remaining THEN Remaining
                  ELSE WordAlign(h.header + h.captured)

\* One turn of the loop, the callback included, for the header h.
WalkRecord(h) ==
    /\ damaged' = (damaged \/ (Here # {} /\ h \notin GenuineHeaders))
    /\ IF Rejects(h)
       THEN walk' = NoWalk /\ UNCHANGED delivered
       ELSE /\ walk' = [IF NextOffset(h) >= walk.bytes
                        THEN [NoWalk EXCEPT !.bytes = walk.bytes]
                        ELSE [walk EXCEPT !.offset = NextOffset(h)]
                        EXCEPT !.span = <<walk.offset + h.header, h.captured>>,
                               !.turns = walk.turns + 1]
            /\ delivered' = IF h \in GenuineHeaders
                            THEN Append(delivered,
                                        walk.records[CHOOSE i \in Here : TRUE].frame)
                            ELSE delivered

Walk == /\ walk.active
        /\ \E h \in GenuineHeaders \cup AnyHeader : WalkRecord(h)
        /\ UNCHANGED <<done, resources, kernel>>

Next == \/ OpenCall \/ OpenFails \/ Destroy
        \/ \E kind \in Kind, size \in Sizes : Capture(kind, size)
        \/ ReadBatch \/ PollNothing \/ Walk

Spec == Init /\ [][Next]_vars

\* The owner's loop polls again and again, and a poll runs to its end.
FairSpec == Spec /\ WF_vars(ReadBatch) /\ WF_vars(Walk)
-----------------------------------------------------------------------------
(* Properties *)

\* Every descriptor and the list of addresses are released once, on every
\* way out of open, by exactly the owner that holds them at the time: nothing
\* stays open behind a failed open or a destroyed endpoint, and nothing is
\* closed twice although open hands two descriptors over.
ResourcesBalanced ==
    /\ ~closes
    /\ guards \cap backend = {}
    /\ acquired = guards \cup backend
    /\ Ready => acquired = {"bpf", "kqueue"}
    /\ done = 0 => acquired = {}

\* The callback never gets a frame that was captured before the filter or the
\* exclusion of this host's own frames was in force.
OnlyWantedFrames ==
    \A i \in DOMAIN delivered : delivered[i].kind = "wanted"

\* The records of the batch that the walk has not reached, which lie in the
\* order of their offsets.
Unread ==
    LET left == {i \in DOMAIN walk.records : walk.records[i].start >= walk.offset}
    IN  IF left = {} THEN <<>>
        ELSE SubSeq(walk.records, CHOOSE i \in left : \A j \in left : i <= j,
                    Len(walk.records))

Numbers(frames) == [i \in DOMAIN frames |-> frames[i].number]

\* Every frame the kernel stored since the flush is delivered once and in
\* order, as long as no header is damaged; a damaged header loses frames of
\* its batch and repeats none.
InOrderOnce ==
    LET unread == [i \in DOMAIN Unread |-> Unread[i].frame]
        all == Numbers(delivered \o unread \o stored)
    IN /\ ~damaged => all = [i \in 1 .. count |-> i]
       /\ \A i, j \in DOMAIN delivered : i < j => delivered[i].number < delivered[j].number

\* Whatever the headers say, the callback only sees bytes that read returned,
\* and a poll comes to its end: each callback uses up a header of the batch,
\* so that their number is bounded by its size.
WalkIsSafe ==
    /\ walk.span[1] + walk.span[2] <= walk.bytes
    /\ walk.turns * HeaderFields <= walk.bytes
    /\ walk.active => walk.offset < walk.bytes

\* A frame the kernel holds reaches the callback, unless the endpoint is
\* destroyed or a header is damaged.
EveryFrameRead ==
    \A n \in 1 .. FrameBound :
        (Ready /\ \E i \in DOMAIN stored : stored[i].number = n)
            ~> (~Ready \/ damaged \/ \E i \in DOMAIN delivered : delivered[i].number = n)
=============================================================================
