---------------------------- MODULE BpfLinkProofs ---------------------------
(***************************************************************************)
(* Proofs about BpfLink, for any capacity of the kernel's buffer, any      *)
(* sizes, alignment and header, and any contents of damaged headers.       *)
(***************************************************************************)
EXTENDS BpfLink, NumberFacts, TLAPS

\* The calls that matter to the resources and to the kernel's buffer.
LEMMA CallsAre ==
    /\ Len(OpenCalls) = 18
    /\ \A i \in 1 .. 18 :
          /\ OpenCalls[i] = "device" <=> i = 1
          /\ OpenCalls[i] = "see_sent" <=> i = 8
          /\ OpenCalls[i] = "socket" <=> i = 9
          /\ OpenCalls[i] = "addresses" <=> i = 11
          /\ OpenCalls[i] = "mac" <=> i = 12
          /\ OpenCalls[i] = "filter" <=> i = 13
          /\ OpenCalls[i] = "flush" <=> i = 15
          /\ OpenCalls[i] = "kqueue" <=> i = 16
          /\ OpenCalls[i] = "construct" <=> i = 18
<1>1. Len(OpenCalls) = 18
  BY DEF OpenCalls
<1>2. /\ OpenCalls[1] = "device" /\ OpenCalls[2] = "version" /\ OpenCalls[3] = "buffer"
      /\ OpenCalls[4] = "interface" /\ OpenCalls[5] = "link_type"
      /\ OpenCalls[6] = "header_complete" /\ OpenCalls[7] = "promiscuous"
      /\ OpenCalls[8] = "see_sent" /\ OpenCalls[9] = "socket" /\ OpenCalls[10] = "mtu"
      /\ OpenCalls[11] = "addresses" /\ OpenCalls[12] = "mac" /\ OpenCalls[13] = "filter"
      /\ OpenCalls[14] = "immediate" /\ OpenCalls[15] = "flush" /\ OpenCalls[16] = "kqueue"
      /\ OpenCalls[17] = "register" /\ OpenCalls[18] = "construct"
  BY DEF OpenCalls
<1>3. \A i \in 1 .. 18 : i \in {1, 2, 3, 4, 5, 6, 7, 8, 9, 10, 11, 12, 13, 14, 15, 16, 17, 18}
  OBVIOUS
<1> QED BY <1>1, <1>2, <1>3

\* What open's scopes own after n calls: the socket and the list of addresses
\* only inside query_interface_info, nothing once the backend exists.
Scopes(n) ==
    {r \in {"bpf", "socket", "addresses", "kqueue"} :
        \/ r = "bpf" /\ n \in 1 .. 17
        \/ r = "socket" /\ n \in 9 .. 11
        \/ r = "addresses" /\ n = 11
        \/ r = "kqueue" /\ n \in 16 .. 17}

ResourceInv ==
    /\ done \in 0 .. 18 /\ ~closes
    /\ guards = Scopes(done)
    /\ backend = {r \in {"bpf", "kqueue"} : done = 18}
    /\ acquired = guards \cup backend

\* open is done after its eighteen calls.
LEMMA ReadyIs == Ready <=> done = 18
  BY CallsAre DEF Ready

\* Each call of open, each failure and the destructor keep the owners right.
LEMMA ResourceNext == ResourceInv /\ [Next]_vars => ResourceInv'
<1> SUFFICES ASSUME ResourceInv, [Next]_vars PROVE ResourceInv'
  OBVIOUS
<1>1. CASE UNCHANGED <<done, resources>>
  BY <1>1 DEF ResourceInv, resources
<1>2. CASE OpenCall
  <2> DEFINE n == done + 1
             call == OpenCalls[n]
  <2>1. done \in 0 .. 17 /\ n \in 1 .. 18 /\ done' = n
    BY <1>2, ReadyIs DEF OpenCall, ResourceInv
  <2>2. backend = {} /\ guards = Scopes(done) /\ acquired = guards /\ ~closes
    BY <2>1 DEF ResourceInv
  <2>3. CASE call = "mac"
    <3>1. n = 12
      BY <2>1, <2>3, CallsAre
    <3>2. /\ acquired' = acquired \ {"addresses", "socket"} /\ backend' = backend
          /\ guards' = guards \ {"addresses", "socket"}
          /\ closes' => closes \/ ~({"addresses", "socket"} \subseteq acquired)
      BY <1>2, <2>3 DEF OpenCall, Close
    <3>3. {"addresses", "socket"} \subseteq acquired
      BY <2>1, <2>2, <3>1 DEF Scopes
    <3>4. Scopes(12) = Scopes(11) \ {"addresses", "socket"}
      BY DEF Scopes
    <3> QED BY <2>1, <2>2, <3>1, <3>2, <3>3, <3>4 DEF ResourceInv
  <2>4. CASE call = "construct"
    <3>1. n = 18
      BY <2>1, <2>4, CallsAre
    <3>2. /\ backend' = {"bpf", "kqueue"} /\ guards' = guards \ {"bpf", "kqueue"}
          /\ UNCHANGED <<acquired, closes>>
      BY <1>2, <2>4 DEF OpenCall
    <3>3. Scopes(17) = {"bpf", "kqueue"} /\ Scopes(18) = {}
      BY DEF Scopes
    <3> QED BY <2>1, <2>2, <3>1, <3>2, <3>3 DEF ResourceInv
  <2>5. CASE call # "mac" /\ call # "construct"
    <3>1. n # 12 /\ n # 18
      BY <2>1, <2>5, CallsAre
    <3>2. /\ acquired' = acquired \cup Acquires(call) /\ guards' = guards \cup Acquires(call)
          /\ UNCHANGED <<backend, closes>>
      BY <1>2, <2>5 DEF OpenCall
    <3>3. /\ call = "device" <=> n = 1
          /\ call = "socket" <=> n = 9
          /\ call = "addresses" <=> n = 11
          /\ call = "kqueue" <=> n = 16
      BY <2>1, CallsAre
    <3>4. Acquires(call) = {r \in {"bpf", "socket", "addresses", "kqueue"} :
                               \/ r = "bpf" /\ n = 1
                               \/ r = "socket" /\ n = 9
                               \/ r = "addresses" /\ n = 11
                               \/ r = "kqueue" /\ n = 16}
      BY <2>1, <3>3 DEF Acquires
    <3>5. Scopes(n) = Scopes(done) \cup Acquires(call)
      BY <2>1, <3>1, <3>4 DEF Scopes
    <3> HIDE DEF call, n
    <3> QED BY <2>1, <2>2, <3>1, <3>2, <3>5 DEF ResourceInv
  <2> QED BY <2>3, <2>4, <2>5
<1>3. CASE OpenFails
  <2>1. /\ acquired' = acquired \ guards /\ guards' = {} /\ backend' = backend
        /\ (closes' => closes \/ ~(guards \subseteq acquired)) /\ done' = 0 /\ done # 18
    BY <1>3, ReadyIs DEF OpenFails, Close, Unwound, Reset
  <2>2. Scopes(0) = {}
    BY DEF Scopes
  <2> QED BY <2>1, <2>2 DEF ResourceInv
<1>4. CASE Destroy
  <2>1. /\ acquired' = acquired \ backend /\ backend' = {} /\ guards' = guards
        /\ (closes' => closes \/ ~(backend \subseteq acquired)) /\ done' = 0 /\ done = 18
    BY <1>4, ReadyIs DEF Destroy, Close, Reset
  <2>2. Scopes(0) = {} /\ Scopes(18) = {}
    BY DEF Scopes
  <2> QED BY <2>1, <2>2 DEF ResourceInv
<1>5. CASE \/ \E kind \in Kind, size \in Sizes : Capture(kind, size)
           \/ ReadBatch \/ PollNothing \/ Walk \/ UNCHANGED vars
  BY <1>1, <1>5 DEF Capture, ReadBatch, PollNothing, Walk, vars
<1> QED BY <1>2, <1>3, <1>4, <1>5 DEF Next

\* Every descriptor and the list of addresses are released exactly once, on
\* every way out of open and when the endpoint is destroyed.
THEOREM ResourcesStayBalanced == Spec => []ResourcesBalanced
<1>1. Init => ResourceInv
  BY DEF Init, ResourceInv, Scopes
<1>2. ResourceInv => ResourcesBalanced
  BY ReadyIs DEF ResourceInv, ResourcesBalanced, Scopes
<1> QED BY <1>1, <1>2, ResourceNext, PTL DEF Spec
-----------------------------------------------------------------------------
(* The layout of a batch. *)

FrameRecord == [number : Nat, kind : Kind, size : Sizes]

BatchRecord == [frame : FrameRecord, start : Nat]

\* BPF_WORDALIGN rounds up to a multiple of the alignment.
LEMMA WordAlignIs ==
    ASSUME NEW n \in Nat
    PROVE  /\ WordAlign(n) \in Nat /\ WordAlign(n) >= n /\ WordAlign(n) % Align = 0
           /\ (-n) % Align = WordAlign(n) - n
<1> DEFINE q == (n + Align - 1) \div Align
           r == (n + Align - 1) % Align
<1>1. Align \in Nat /\ Align > 0 /\ n + Align - 1 \in Nat
  BY LinkAssumption
<1>2. q \in Int /\ n + Align - 1 = Align * q + r
  BY <1>1
<1>3. r \in 0 .. (Align - 1)
  BY <1>1, Division
<1>4. WordAlign(n) = q * Align /\ q * Align = Align * q
  BY <1>1, <1>2 DEF WordAlign
<1> HIDE DEF q, r
<1> DEFINE w == Align * q
           k == Align - 1 - r
<1>5. w \in Int /\ w = n + k /\ k \in 0 .. (Align - 1)
  BY <1>1, <1>2, <1>3
<1>6. Align * (-q) = -w
  BY <1>1, <1>2
<1>7. -n = Align * (-q) + k
  BY <1>1, <1>2, <1>5, <1>6
<1>8. (-n) % Align = k
  BY <1>1, <1>2, <1>5, <1>7, Remainder
<1>9. w % Align = 0
  <2>1. w = Align * q + 0 /\ 0 \in 0 .. (Align - 1)
    BY <1>1, <1>2
  <2> QED BY <1>1, <1>2, <1>5, <2>1, Remainder
<1> HIDE DEF w, k
<1>10. w \in Nat /\ w >= n /\ k = w - n
  BY <1>5
<1> QED BY <1>4, <1>8, <1>9, <1>10 DEF w

\* The offset behind a record of this size at offset s.
Behind(s, size) == LET end == s + HeaderFields + size IN end + ((-end) % Align)

\* Behind an aligned record of any size the next aligned offset is BPF_WORDALIGN of
\* its length away.
LEMMA BehindIs ==
    ASSUME NEW s \in Nat, NEW size \in Nat
    PROVE  /\ Behind(s, size) \in Nat
           /\ s % Align = 0 => /\ Behind(s, size) = s + WordAlign(HeaderFields + size)
                               /\ Behind(s, size) % Align = 0
<1> DEFINE n == HeaderFields + size
           end == s + n
<1>1. /\ HeaderFields \in Nat /\ Align \in Nat /\ Align > 0 /\ n \in Nat /\ end \in Nat
      /\ s + HeaderFields + size = end
  BY LinkAssumption
<1>2. Behind(s, size) = end + ((-end) % Align)
  BY <1>1 DEF Behind
<1> HIDE DEF n, end
<1>3. (-end) % Align = WordAlign(end) - end /\ WordAlign(end) \in Nat
      /\ WordAlign(end) % Align = 0
  BY <1>1, WordAlignIs
<1>4. Behind(s, size) = WordAlign(end)
  BY <1>1, <1>2, <1>3
<1>5. ASSUME s % Align = 0 PROVE WordAlign(end) = s + WordAlign(n)
  <2> DEFINE w == WordAlign(n)
             k == w - n
  <2>1. w \in Nat /\ w % Align = 0 /\ (-n) % Align = k
    BY <1>1, WordAlignIs
  <2>2. k \in 0 .. (Align - 1)
    BY <1>1, <2>1, Division
  <2> HIDE DEF w
  <2>3. (s + w) % Align = 0
    <3>1. s \in Int /\ w \in Int /\ s % Align = 0 /\ w % Align = 0
      BY <1>5, <2>1
    <3> QED BY <1>1, <3>1, MultiplesAdd
  <2>4. PICK q \in Int : s + w = Align * q + ((s + w) % Align)
    BY <1>1, <2>1, Division
  <2>5. Align * (-q) = -(Align * q)
    BY <1>1
  <2>6. -end = Align * (-q) + k
    BY <1>1, <2>1, <2>3, <2>4, <2>5 DEF end
  <2> DEFINE m == -end
             p == -q
  <2>7. m % Align = k
    <3>1. m \in Int /\ p \in Int /\ m = Align * p + k
      BY <1>1, <2>4, <2>6
    <3> HIDE DEF m, p, k
    <3> QED BY <1>1, <2>2, <3>1, Remainder
  <2> QED BY <1>1, <1>3, <2>1, <2>7 DEF w, end
<1> QED BY <1>3, <1>4, <1>5 DEF n

\* The defining equation of Starts.
Rows(frames, f) ==
    [i \in 1 .. Len(frames) |-> IF i = 1 THEN 0 ELSE Behind(f[i - 1], frames[i - 1].size)]

\* The first k starts, one after the other.
Row(frames, k) ==
    {f \in [1 .. k -> Nat] :
        \A i \in 1 .. k : f[i] = IF i = 1 THEN 0 ELSE Behind(f[i - 1], frames[i - 1].size)}

\* There is such a row of starts for every number of frames.
LEMMA RowExists ==
    ASSUME NEW frames \in Seq(FrameRecord), NEW n \in 0 .. Len(frames)
    PROVE  Row(frames, n) # {}
<1> DEFINE T == {k \in 0 .. Len(frames) : Row(frames, k) = {}}
<1> SUFFICES ASSUME T # {} PROVE FALSE
  OBVIOUS
<1>0. Len(frames) \in Nat /\ T \subseteq Nat
  OBVIOUS
<1>1. PICK k \in T : \A y \in T : k <= y
  <2> HIDE DEF T
  <2> QED BY <1>0, LeastElement
<1>2. k \in 0 .. Len(frames) /\ Row(frames, k) = {}
  OBVIOUS
<1>3. k # 0
  <2>1. [i \in 1 .. 0 |-> 0] \in Row(frames, 0)
    BY DEF Row
  <2> QED BY <1>2, <2>1
<1>4. k - 1 \in 0 .. Len(frames) /\ Row(frames, k - 1) # {} /\ ~(k <= k - 1)
  BY <1>1, <1>2, <1>3
<1>5. PICK f : f \in Row(frames, k - 1)
  BY <1>4
<1>6. /\ f \in [1 .. (k - 1) -> Nat]
      /\ \A i \in 1 .. (k - 1) : f[i] = IF i = 1 THEN 0 ELSE Behind(f[i - 1], frames[i - 1].size)
  BY <1>5 DEF Row
<1> DEFINE x == IF k = 1 THEN 0 ELSE Behind(f[k - 1], frames[k - 1].size)
           g == [i \in 1 .. k |-> IF i = k THEN x ELSE f[i]]
<1>7. x \in Nat
  <2>1. CASE k = 1
    BY <2>1
  <2>2. CASE k # 1
    <3>1. k - 1 \in 1 .. (k - 1) /\ k - 1 \in 1 .. Len(frames)
      BY <1>2, <1>3, <2>2
    <3>2. f[k - 1] \in Nat /\ frames[k - 1] \in FrameRecord
      BY <1>6, <3>1
    <3>3. frames[k - 1].size \in Nat
      BY <3>2, LinkAssumption DEF FrameRecord
    <3> QED BY <2>2, <3>2, <3>3, BehindIs
  <2> QED BY <2>1, <2>2
<1> HIDE DEF x
<1>8. g \in [1 .. k -> Nat] /\ g[k] = x /\ \A i \in 1 .. (k - 1) : g[i] = f[i]
  BY <1>2, <1>3, <1>6, <1>7
<1> HIDE DEF g
<1>9. ASSUME NEW i \in 1 .. k
      PROVE  g[i] = IF i = 1 THEN 0 ELSE Behind(g[i - 1], frames[i - 1].size)
  <2>1. i # 1 => i - 1 \in 1 .. (k - 1)
    BY <1>2, <1>3
  <2>2. CASE i = k
    BY <1>8, <2>1, <2>2 DEF x
  <2>3. CASE i # k
    <3>1. i \in 1 .. (k - 1)
      BY <1>2, <1>3, <2>3
    <3> QED BY <1>6, <1>8, <2>1, <3>1
  <2> QED BY <2>2, <2>3
<1>10. g \in Row(frames, k)
  BY <1>8, <1>9 DEF Row
<1> QED BY <1>2, <1>10

\* Records lie one behind the other, each at a multiple of the alignment.
Layout(frames, f) ==
    /\ f \in [1 .. Len(frames) -> Nat] /\ f[1] = 0
    /\ \A i \in 1 .. Len(frames) : f[i] % Align = 0
    /\ \A i \in 1 .. Len(frames) : i # 1 =>
          f[i] = f[i - 1] + WordAlign(HeaderFields + frames[i - 1].size)

\* Starts, a recursive function, is such a layout.
LEMMA StartsIs ==
    ASSUME NEW frames \in Seq(FrameRecord), Len(frames) >= 1
    PROVE  Layout(frames, Starts(frames))
<1> DEFINE n == Len(frames)
           f == Starts(frames)
           T == {i \in 1 .. n : ~(f[i] \in Nat /\ f[i] % Align = 0)}
<1>1. n \in Nat /\ n >= 1 /\ \A i \in 1 .. n : frames[i].size \in Nat
  <2>1. n \in Nat /\ n >= 1 /\ \A i \in 1 .. n : frames[i] \in FrameRecord
    OBVIOUS
  <2>2. \A x \in FrameRecord : x.size \in Nat
    BY LinkAssumption DEF FrameRecord
  <2> QED BY <2>1, <2>2
<1>2. f = CHOOSE g : g = Rows(frames, g)
  BY DEF Starts, Rows, Behind
<1>3. \E g : g = Rows(frames, g)
  <2>1. n \in 0 .. n
    BY <1>1
  <2>2. PICK g : g \in Row(frames, n)
    BY <2>1, RowExists
  <2> QED BY <2>2 DEF Row, Rows
<1>4. f = Rows(frames, f)
  BY <1>2, <1>3
<1> HIDE DEF f
<1>5. /\ f = [i \in 1 .. n |-> f[i]]
      /\ \A i \in 1 .. n : f[i] = IF i = 1 THEN 0 ELSE Behind(f[i - 1], frames[i - 1].size)
  BY <1>4 DEF Rows
<1>6. 0 % Align = 0
  <2>1. Align \in Nat /\ Align > 0
    BY LinkAssumption
  <2> QED BY <2>1
<1>7. T = {}
  <2> SUFFICES ASSUME T # {} PROVE FALSE
    OBVIOUS
  <2>0. T \subseteq Nat
    BY <1>1
  <2>1. PICK i \in T : \A y \in T : i <= y
    <3> HIDE DEF T
    <3> QED BY <2>0, LeastElement
  <2>2. i \in 1 .. n /\ ~(f[i] \in Nat /\ f[i] % Align = 0)
    OBVIOUS
  <2>3. i # 1
    <3>1. i = 1 => f[i] = 0
      BY <1>5, <2>2
    <3> QED BY <1>6, <2>2, <3>1
  <2>4. i - 1 \in 1 .. n /\ i - 1 \notin T
    BY <1>1, <2>1, <2>2, <2>3
  <2>5. f[i - 1] \in Nat /\ f[i - 1] % Align = 0
    BY <2>4
  <2>6. f[i] = Behind(f[i - 1], frames[i - 1].size)
    BY <1>5, <2>2, <2>3
  <2>7. f[i - 1] \in Nat /\ frames[i - 1].size \in Nat
    BY <1>1, <2>4, <2>5
  <2>8. f[i] \in Nat /\ f[i] % Align = 0
    BY <2>5, <2>6, <2>7, BehindIs
  <2> QED BY <2>2, <2>8
<1>8. \A i \in 1 .. n : f[i] \in Nat /\ f[i] % Align = 0
  BY <1>7
<1>9. ASSUME NEW i \in 1 .. n, i # 1
      PROVE  f[i] = f[i - 1] + WordAlign(HeaderFields + frames[i - 1].size)
  <2>1. i - 1 \in 1 .. n
    BY <1>1, <1>9
  <2>2. f[i] = Behind(f[i - 1], frames[i - 1].size)
    BY <1>5, <1>9
  <2>3. f[i - 1] \in Nat /\ f[i - 1] % Align = 0 /\ frames[i - 1].size \in Nat
    BY <1>1, <1>8, <2>1
  <2> QED BY <2>2, <2>3, BehindIs
<1>10. f[1] = 0
  <2>1. 1 \in 1 .. n
    BY <1>1
  <2>2. \A i \in 1 .. n : i = 1 => f[i] = 0
    BY <1>5
  <2> QED BY <2>1, <2>2
<1>11. f \in [1 .. n -> Nat]
  BY <1>5, <1>8
<1>12. Layout(frames, f)
  BY <1>8, <1>9, <1>10, <1>11 DEF Layout
<1> QED BY <1>12 DEF f
-----------------------------------------------------------------------------
(* The types, and what each action does to the poll. *)

WalkRecords == [active : BOOLEAN, records : Seq(BatchRecord), bytes : Nat, offset : Nat,
                span : Nat \X Nat, turns : Nat]

\* Before open has ended nothing is polled.
FrameTypes ==
    /\ count \in Nat /\ stored \in Seq(FrameRecord) /\ delivered \in Seq(FrameRecord)
    /\ walk \in WalkRecords
    /\ done # 18 => walk = NoWalk /\ delivered = <<>> /\ ~damaged

\* A record laid out behind the one before it.
Laid(records) ==
    /\ Len(records) >= 1 /\ records[1].start = 0
    /\ \A i \in 1 .. Len(records) : i # 1 =>
          records[i].start
              = records[i - 1].start + WordAlign(HeaderFields + records[i - 1].frame.size)

\* The batch ends with its last record, or with the padding behind that.
EndsWith(bytes, last) ==
    \/ bytes = last.start + HeaderFields + last.frame.size
    \/ bytes = last.start + WordAlign(HeaderFields + last.frame.size)

\* The batch that a read of the first n stored frames gives the walk.
Batch(frames, n, w) ==
    /\ w \in WalkRecords /\ w.active /\ w.offset = 0 /\ w.turns = 0 /\ w.span = <<0, 0>>
    /\ Len(w.records) = n /\ \A i \in 1 .. n : w.records[i].frame = frames[i]
    /\ Laid(w.records) /\ EndsWith(w.bytes, w.records[n])

\* The fields of a record.
LEMMA RecordIs ==
    ASSUME NEW r \in BatchRecord
    PROVE  /\ r.frame \in FrameRecord /\ r.start \in Nat
           /\ r.frame.size \in Nat /\ r.frame.number \in Nat
<1>1. r.frame \in FrameRecord /\ r.start \in Nat
  BY DEF BatchRecord
<1> QED BY <1>1, LinkAssumption DEF FrameRecord

\* A record lies within the bytes that end with it.
LEMMA EndsBehind ==
    ASSUME NEW bytes, NEW r \in BatchRecord, EndsWith(bytes, r)
    PROVE  bytes >= r.start + HeaderFields + r.frame.size
<1> DEFINE n == HeaderFields + r.frame.size
           s == r.start
<1>1. n \in Nat /\ s \in Nat /\ HeaderFields \in Nat /\ r.frame.size \in Nat
  BY RecordIs, LinkAssumption
<1>2. r.start + HeaderFields + r.frame.size = s + n
  BY <1>1
<1>3. bytes = s + n \/ bytes = s + WordAlign(n)
  BY <1>2 DEF EndsWith
<1> HIDE DEF n, s
<1>4. WordAlign(n) \in Nat /\ WordAlign(n) >= n
  BY <1>1, WordAlignIs
<1>5. bytes >= s + n
  BY <1>1, <1>3, <1>4
<1> QED BY <1>2, <1>5

\* No batch is being walked.
LEMMA NoWalkIs ==
    /\ NoWalk \in WalkRecords /\ ~NoWalk.active /\ NoWalk.records = <<>> /\ NoWalk.bytes = 0
    /\ NoWalk.span = <<0, 0>> /\ NoWalk.turns = 0
<1>1. <<>> \in Seq(BatchRecord) /\ <<0, 0>> \in Nat \X Nat
  OBVIOUS
<1> QED BY <1>1 DEF NoWalk, WalkRecords

\* What read gives is such a batch.
LEMMA ReadBatchIs ==
    ASSUME FrameTypes, ReadBatch
    PROVE  /\ done = 18 /\ ~walk.active /\ UNCHANGED <<done, resources, count, delivered, damaged>>
           /\ \E n \in 1 .. Len(stored) : /\ Batch(stored, n, walk')
                                          /\ stored' = SubSeq(stored, n + 1, Len(stored))
<1>1. done = 18 /\ ~walk.active /\ UNCHANGED <<done, resources, count, delivered, damaged>>
  BY ReadyIs DEF ReadBatch
<1>2. PICK n \in 1 .. Len(stored) :
         /\ stored' = SubSeq(stored, n + 1, Len(stored))
         /\ \E bytes \in BatchEnds(SubSeq(stored, 1, n)) :
                walk' = [active |-> TRUE, bytes |-> bytes, offset |-> 0,
                         span |-> <<0, 0>>, turns |-> 0,
                         records |-> [i \in 1 .. n |->
                                        [frame |-> SubSeq(stored, 1, n)[i],
                                         start |-> Starts(SubSeq(stored, 1, n))[i]]]]
  BY DEF ReadBatch
<1> DEFINE frames == SubSeq(stored, 1, n)
           f == Starts(frames)
           records == [i \in 1 .. n |-> [frame |-> frames[i], start |-> f[i]]]
<1>3. stored \in Seq(FrameRecord) /\ n \in Nat /\ n >= 1 /\ n <= Len(stored)
  BY DEF FrameTypes
<1>4. /\ frames \in Seq(FrameRecord) /\ Len(frames) = n
      /\ \A i \in 1 .. n : frames[i] = stored[i] /\ frames[i] \in FrameRecord
  BY <1>3
<1>5. PICK bytes \in BatchEnds(frames) :
         walk' = [active |-> TRUE, bytes |-> bytes, offset |-> 0, span |-> <<0, 0>>,
                  turns |-> 0, records |-> records]
  BY <1>2
<1> HIDE DEF frames
<1>6. Layout(frames, f)
  BY <1>3, <1>4, StartsIs
<1>7. bytes \in {f[n] + HeaderFields + frames[n].size, Behind(f[n], frames[n].size)}
  BY <1>4, <1>5 DEF BatchEnds, Behind
<1> HIDE DEF f
<1>8. /\ f \in [1 .. n -> Nat] /\ f[1] = 0 /\ \A i \in 1 .. n : f[i] \in Nat /\ f[i] % Align = 0
      /\ \A i \in 1 .. n : i # 1 =>
            f[i] = f[i - 1] + WordAlign(HeaderFields + frames[i - 1].size)
  BY <1>4, <1>6 DEF Layout
<1>9. /\ Len(records) = n /\ records \in Seq(BatchRecord)
      /\ \A i \in 1 .. n : records[i].frame = frames[i] /\ records[i].start = f[i]
  <2>1. \A i \in 1 .. n : [frame |-> frames[i], start |-> f[i]] \in BatchRecord
    BY <1>4, <1>8 DEF BatchRecord
  <2> QED BY <1>3, <2>1
<1> HIDE DEF records
<1>10. n \in 1 .. n /\ 1 \in 1 .. n
  BY <1>3
<1>11. Laid(records)
  <2>1. ASSUME NEW i \in 1 .. n, i # 1
        PROVE  records[i].start
                  = records[i - 1].start + WordAlign(HeaderFields + records[i - 1].frame.size)
    <3>1. i - 1 \in 1 .. n
      BY <1>3, <2>1
    <3> QED BY <1>8, <1>9, <2>1, <3>1
  <2> QED BY <1>3, <1>8, <1>9, <1>10, <2>1 DEF Laid
<1>12. frames[n].size \in Nat /\ HeaderFields \in Nat /\ f[n] \in Nat
  BY <1>4, <1>8, <1>10, LinkAssumption DEF FrameRecord
<1>13. Behind(f[n], frames[n].size) = f[n] + WordAlign(HeaderFields + frames[n].size)
       /\ Behind(f[n], frames[n].size) \in Nat
  BY <1>8, <1>10, <1>12, BehindIs
<1>14. EndsWith(bytes, records[n]) /\ bytes \in Nat
  BY <1>7, <1>9, <1>10, <1>12, <1>13 DEF EndsWith
<1>15. walk' \in WalkRecords
  <2>1. <<0, 0>> \in Nat \X Nat
    OBVIOUS
  <2> QED BY <1>5, <1>9, <1>14, <2>1 DEF WalkRecords
<1>16. Batch(stored, n, walk')
  <2>1. /\ walk'.active /\ walk'.offset = 0 /\ walk'.turns = 0 /\ walk'.span = <<0, 0>>
        /\ walk'.records = records /\ walk'.bytes = bytes
    BY <1>5
  <2> QED BY <1>4, <1>9, <1>11, <1>14, <1>15, <2>1 DEF Batch
<1> QED BY <1>1, <1>2, <1>16

\* The walk after a turn that called back for the header h.
Accepted(h, w, v) ==
    /\ v \in WalkRecords /\ v.bytes = w.bytes /\ v.turns = w.turns + 1
    /\ v.span = <<w.offset + h.header, h.captured>>
    /\ h.header >= HeaderFields /\ h.header + h.captured <= w.bytes - w.offset
    /\ NextOffset(h) \in Nat /\ NextOffset(h) >= w.offset + HeaderFields
    /\ NextOffset(h) >= w.bytes => ~v.active /\ v.records = <<>>
    /\ NextOffset(h) < w.bytes => v.active /\ v.records = w.records /\ v.offset = NextOffset(h)

\* The callback gets the frame of a genuine record at the walk's offset.
Calls(w, d, e) ==
    \E i \in 1 .. Len(w.records) : /\ w.records[i].start = w.offset
                                   /\ e = Append(d, w.records[i].frame)

Headers == [header : Nat, captured : Nat, stamp : BOOLEAN]

\* A turn of the walk ends it, or calls back, and is noted when it damages.
Turns(h) ==
    /\ done = 18 /\ UNCHANGED <<done, resources, kernel>>
    /\ \/ ~Rejects(h) /\ Accepted(h, walk, walk')
       \/ Rejects(h) /\ walk' = NoWalk
    /\ UNCHANGED delivered \/ Calls(walk, delivered, delivered')
    /\ ~damaged' => /\ ~damaged /\ (Here = {} \/ h \in GenuineHeaders)
                    /\ ~Rejects(h) /\ h \in GenuineHeaders => Calls(walk, delivered, delivered')

\* The fields of the walk's records.
LEMMA RecordsAre ==
    ASSUME FrameTypes, NEW i \in 1 .. Len(walk.records)
    PROVE  /\ walk.records[i].frame \in FrameRecord /\ walk.records[i].start \in Nat
           /\ walk.records[i].frame.size \in Nat /\ walk.records[i].frame.number \in Nat
<1>1. walk.records \in Seq(BatchRecord)
  BY DEF FrameTypes, WalkRecords
<1>2. walk.records[i] \in BatchRecord
  BY <1>1
<1> QED BY <1>2, RecordIs

\* Headers, genuine or damaged, hold numbers.
LEMMA HeadersAre ==
    ASSUME FrameTypes, NEW h \in GenuineHeaders \cup AnyHeader
    PROVE  h \in Headers
<1>1. CASE h \in AnyHeader
  BY <1>1, LinkAssumption DEF AnyHeader, Headers
<1>2. CASE h \in GenuineHeaders
  <2>1. PICK i \in Here : h = [header |-> HeaderFields, stamp |-> TRUE,
                               captured |-> walk.records[i].frame.size]
    BY <1>2 DEF GenuineHeaders
  <2>2. i \in 1 .. Len(walk.records)
    BY <2>1 DEF FrameTypes, WalkRecords, Here
  <2>3. walk.records[i].frame.size \in Nat
    BY <2>2, RecordsAre
  <2> QED BY <2>1, <2>3, LinkAssumption DEF Headers
<1> QED BY <1>1, <1>2

\* A header that passes the tests moves the walk on by a header's length or more.
LEMMA AcceptedIs ==
    ASSUME FrameTypes, walk.active, NEW h \in Headers, ~Rejects(h), WalkRecord(h)
    PROVE  Accepted(h, walk, walk')
<1> DEFINE o == NextOffset(h)
           w0 == IF o >= walk.bytes THEN [NoWalk EXCEPT !.bytes = walk.bytes]
                 ELSE [walk EXCEPT !.offset = o]
<1>1. walk' = [w0 EXCEPT !.span = <<walk.offset + h.header, h.captured>>,
                         !.turns = walk.turns + 1]
  BY DEF WalkRecord
<1>2. /\ walk \in WalkRecords /\ walk.bytes \in Nat /\ walk.offset \in Nat /\ walk.turns \in Nat
      /\ h.header \in Nat /\ h.captured \in Nat /\ HeaderFields \in Nat
  BY LinkAssumption DEF FrameTypes, WalkRecords, Headers
<1>3. /\ h.header >= HeaderFields /\ walk.bytes - walk.offset >= HeaderFields
      /\ h.header + h.captured <= walk.bytes - walk.offset
  BY <1>2 DEF Rejects, Remaining
<1>4. o \in Nat /\ o >= walk.offset + HeaderFields
  <2>1. h.header + h.captured \in Nat
    BY <1>2
  <2>2. /\ WordAlign(h.header + h.captured) \in Nat
        /\ WordAlign(h.header + h.captured) >= h.header + h.captured
    BY <2>1, WordAlignIs
  <2> QED BY <1>2, <1>3, <2>1, <2>2 DEF NextOffset, Remaining
<1> HIDE DEF o
<1> DEFINE s == <<walk.offset + h.header, h.captured>>
<1>5. s \in Nat \X Nat /\ walk.turns + 1 \in Nat
  BY <1>2
<1> HIDE DEF s
<1>6. CASE o >= walk.bytes
  <2>1. walk' = [[NoWalk EXCEPT !.bytes = walk.bytes] EXCEPT !.span = s, !.turns = walk.turns + 1]
    BY <1>1, <1>6 DEF s
  <2>2. NoWalk \in WalkRecords /\ ~NoWalk.active /\ NoWalk.records = <<>>
    BY NoWalkIs
  <2>3. /\ walk' \in WalkRecords /\ walk'.bytes = walk.bytes /\ walk'.turns = walk.turns + 1
        /\ walk'.span = s /\ ~walk'.active /\ walk'.records = <<>>
    BY <1>2, <1>5, <2>1, <2>2 DEF WalkRecords
  <2> QED BY <1>2, <1>3, <1>4, <1>6, <2>3 DEF Accepted, o, s
<1>7. CASE ~(o >= walk.bytes)
  <2>1. walk' = [[walk EXCEPT !.offset = o] EXCEPT !.span = s, !.turns = walk.turns + 1]
    BY <1>1, <1>7 DEF s
  <2>3. /\ walk' \in WalkRecords /\ walk'.bytes = walk.bytes /\ walk'.turns = walk.turns + 1
        /\ walk'.span = s /\ walk'.active = walk.active /\ walk'.records = walk.records
        /\ walk'.offset = o
    BY <1>2, <1>4, <1>5, <2>1 DEF WalkRecords
  <2> QED BY <1>2, <1>3, <1>4, <1>7, <2>3 DEF Accepted, o, s
<1> QED BY <1>6, <1>7

\* Every step of the walk is a turn for some header.
LEMMA WalkIs ==
    ASSUME FrameTypes, Walk
    PROVE  \E h \in Headers : Turns(h)
<1>1. PICK h \in GenuineHeaders \cup AnyHeader : WalkRecord(h)
  BY DEF Walk
<1>2. h \in Headers
  BY HeadersAre
<1>3. walk.active /\ done = 18 /\ UNCHANGED <<done, resources, kernel>>
  BY NoWalkIs DEF Walk, FrameTypes
<1>4. (~Rejects(h) /\ Accepted(h, walk, walk')) \/ (Rejects(h) /\ walk' = NoWalk)
  <2>1. CASE Rejects(h)
    BY <1>1, <2>1 DEF WalkRecord
  <2>2. CASE ~Rejects(h)
    BY <1>1, <1>2, <1>3, <2>2, AcceptedIs
  <2> QED BY <2>1, <2>2
<1>5. ASSUME ~Rejects(h), h \in GenuineHeaders PROVE Calls(walk, delivered, delivered')
  <2>1. Here # {}
    BY <1>5 DEF GenuineHeaders
  <2> DEFINE i == CHOOSE i \in Here : TRUE
  <2>2. i \in Here
    BY <2>1
  <2>3. delivered' = Append(delivered, walk.records[i].frame)
    BY <1>1, <1>5 DEF WalkRecord
  <2> HIDE DEF i
  <2>4. i \in 1 .. Len(walk.records) /\ walk.records[i].start = walk.offset
    BY <2>2 DEF Here, FrameTypes, WalkRecords
  <2> QED BY <2>3, <2>4 DEF Calls
<1>6. ASSUME Rejects(h) \/ h \notin GenuineHeaders PROVE UNCHANGED delivered
  BY <1>1, <1>6 DEF WalkRecord
<1>7. ~damaged' => ~damaged /\ (Here = {} \/ h \in GenuineHeaders)
  BY <1>1 DEF WalkRecord
<1> QED BY <1>2, <1>3, <1>4, <1>5, <1>6, <1>7 DEF Turns
-----------------------------------------------------------------------------
(* The callback sees wanted frames only, and bytes of the batch only. *)

\* Once the buffer was flushed with all settings in force, it holds wanted
\* frames only.
KindInv ==
    /\ done >= 15 => \A i \in 1 .. Len(stored) : stored[i].kind = "wanted"
    /\ \A i \in 1 .. Len(walk.records) : walk.records[i].frame.kind = "wanted"
    /\ \A i \in 1 .. Len(delivered) : delivered[i].kind = "wanted"

\* Each turn of the walk moves on by a header at least.
SafeInv ==
    /\ walk.span[1] + walk.span[2] <= walk.bytes
    /\ walk.turns * HeaderFields <= walk.bytes
    /\ walk.active => walk.offset < walk.bytes /\ walk.turns * HeaderFields <= walk.offset

LinkInv == ResourceInv /\ FrameTypes /\ KindInv /\ SafeInv

\* The calls of open leave the poll alone, and flush empties the buffer.
LEMMA OpenCallIs ==
    ASSUME ResourceInv, OpenCall
    PROVE  /\ done \in 0 .. 17 /\ done' = done + 1 /\ UNCHANGED poll
           /\ done' = 15 => stored' = <<>> /\ count' = 0
           /\ done' # 15 => UNCHANGED kernel
<1>1. done \in 0 .. 17 /\ done' = done + 1 /\ done' \in 1 .. 18 /\ UNCHANGED poll
  BY ReadyIs DEF OpenCall, ResourceInv
<1>2. OpenCalls[done + 1] = "flush" <=> done + 1 = 15
  BY <1>1, CallsAre
<1>3. /\ OpenCalls[done + 1] = "flush" => stored' = <<>> /\ count' = 0
      /\ OpenCalls[done + 1] # "flush" => UNCHANGED kernel
  BY DEF OpenCall
<1> QED BY <1>1, <1>2, <1>3

\* A frame is stored with the next number, and is a wanted one once the
\* filter and the exclusion of own frames are in force.
LEMMA CaptureIs ==
    ASSUME ResourceInv, FrameTypes, NEW kind \in Kind, NEW size \in Sizes, Capture(kind, size)
    PROVE  /\ UNCHANGED <<done, resources, poll>> /\ count' = count + 1
           /\ \E x \in FrameRecord : /\ stored' = Append(stored, x) /\ x.number = count + 1
                                     /\ done >= 15 => x.kind = "wanted"
<1>1. UNCHANGED <<done, resources, poll>> /\ count' = count + 1 /\ Selected(kind)
      /\ stored' = Append(stored, [number |-> count + 1, kind |-> kind, size |-> size])
  BY DEF Capture
<1>2. [number |-> count + 1, kind |-> kind, size |-> size] \in FrameRecord
  BY DEF FrameRecord, FrameTypes
<1>3. ASSUME done >= 15 PROVE kind = "wanted"
  <2>1. 8 \in 1 .. done /\ 13 \in 1 .. done /\ OpenCalls[8] = "see_sent" /\ OpenCalls[13] = "filter"
    BY <1>3, CallsAre DEF ResourceInv
  <2>2. Succeeded("see_sent") /\ Succeeded("filter")
    BY <2>1 DEF Succeeded
  <2> QED BY <1>1, <2>2 DEF Selected, Kind
<1> QED BY <1>1, <1>2, <1>3

\* After a failed open or the destructor everything starts anew.
LEMMA ResetIs ==
    ASSUME Reset
    PROVE  /\ done' = 0 /\ count' = 0 /\ stored' = <<>> /\ delivered' = <<>> /\ ~damaged'
           /\ walk' = NoWalk
  BY DEF Reset

\* The types are kept.
LEMMA FrameTypesNext ==
    ASSUME ResourceInv, FrameTypes, [Next]_vars
    PROVE  FrameTypes'
<1> USE DEF FrameTypes
<1>1. CASE OpenCall
  <2>1. done \in 0 .. 17 /\ done' = done + 1 /\ UNCHANGED poll
    BY <1>1, OpenCallIs
  <2>2. count' \in Nat /\ stored' \in Seq(FrameRecord)
    <3>1. (stored' = <<>> /\ count' = 0) \/ UNCHANGED kernel
      BY <1>1, OpenCallIs
    <3>2. CASE UNCHANGED kernel
      BY <3>2 DEF kernel
    <3>3. CASE stored' = <<>> /\ count' = 0
      BY <3>3
    <3> QED BY <3>1, <3>2, <3>3
  <2> QED BY <2>1, <2>2 DEF poll
<1>2. CASE Reset
  BY <1>2, ResetIs, NoWalkIs
<1>3. ASSUME NEW kind \in Kind, NEW size \in Sizes, Capture(kind, size) PROVE FrameTypes'
  <2>1. UNCHANGED <<done, resources, poll>> /\ count' = count + 1
    BY <1>3, CaptureIs
  <2>2. PICK x \in FrameRecord : stored' = Append(stored, x)
    BY <1>3, CaptureIs
  <2> QED BY <2>1, <2>2 DEF poll
<1>4. CASE ReadBatch
  <2>1. done = 18 /\ UNCHANGED <<done, resources, count, delivered, damaged>>
    BY <1>4, ReadBatchIs
  <2>2. PICK n \in 1 .. Len(stored) : /\ Batch(stored, n, walk')
                                      /\ stored' = SubSeq(stored, n + 1, Len(stored))
    BY <1>4, ReadBatchIs
  <2>3. stored' \in Seq(FrameRecord)
    BY <2>2
  <2> QED BY <2>1, <2>2, <2>3 DEF Batch
<1>5. CASE Walk
  <2>1. PICK h \in Headers : Turns(h)
    BY <1>5, WalkIs
  <2>2. walk' \in WalkRecords
    BY <2>1, NoWalkIs DEF Turns, Accepted
  <2>3. delivered' \in Seq(FrameRecord)
    <3>1. CASE UNCHANGED delivered
      BY <3>1
    <3>2. CASE Calls(walk, delivered, delivered')
      <4>1. PICK i \in 1 .. Len(walk.records) : delivered' = Append(delivered, walk.records[i].frame)
        BY <3>2 DEF Calls
      <4>2. walk.records[i].frame \in FrameRecord
        BY RecordsAre
      <4> QED BY <4>1, <4>2
    <3> QED BY <2>1, <3>1, <3>2 DEF Turns
  <2> QED BY <2>1, <2>2, <2>3 DEF Turns, kernel
<1>6. CASE PollNothing \/ UNCHANGED vars
  BY <1>6 DEF PollNothing, vars, kernel, poll
<1> QED BY <1>1, <1>2, <1>3, <1>4, <1>5, <1>6 DEF Next, OpenFails, Destroy

\* Only wanted frames get into the flushed buffer, the batch and the callback.
LEMMA KindNext ==
    ASSUME ResourceInv, FrameTypes, KindInv, [Next]_vars
    PROVE  KindInv'
<1> USE DEF KindInv
<1>0. stored \in Seq(FrameRecord) /\ delivered \in Seq(FrameRecord) /\ walk \in WalkRecords
  BY DEF FrameTypes
<1>1. CASE OpenCall
  <2>1. /\ done \in 0 .. 17 /\ done' = done + 1 /\ UNCHANGED poll
        /\ done' = 15 => stored' = <<>>
        /\ done' # 15 => UNCHANGED kernel
    BY <1>1, OpenCallIs
  <2>2. ASSUME done' >= 15, NEW i \in 1 .. Len(stored') PROVE stored'[i].kind = "wanted"
    <3>1. CASE done' = 15
      BY <2>1, <2>2, <3>1
    <3>2. CASE done' # 15
      <4>1. done >= 15 /\ stored' = stored
        BY <2>1, <2>2, <3>2 DEF kernel
      <4> QED BY <2>2, <4>1
    <3> QED BY <3>1, <3>2
  <2> QED BY <2>1, <2>2 DEF poll
<1>2. CASE Reset
  BY <1>2, ResetIs, NoWalkIs
<1>3. ASSUME NEW kind \in Kind, NEW size \in Sizes, Capture(kind, size) PROVE KindInv'
  <2>1. UNCHANGED <<done, resources, poll>>
    BY <1>3, CaptureIs
  <2>2. PICK x \in FrameRecord : stored' = Append(stored, x) /\ (done >= 15 => x.kind = "wanted")
    BY <1>3, CaptureIs
  <2>3. ASSUME done >= 15, NEW i \in 1 .. Len(stored') PROVE stored'[i].kind = "wanted"
    <3>1. (i \in 1 .. Len(stored) /\ stored'[i] = stored[i]) \/ stored'[i] = x
      BY <1>0, <2>2
    <3> QED BY <2>2, <2>3, <3>1
  <2> QED BY <2>1, <2>3 DEF poll
<1>4. CASE ReadBatch
  <2>1. done = 18 /\ UNCHANGED <<done, resources, count, delivered, damaged>>
    BY <1>4, ReadBatchIs
  <2>2. PICK n \in 1 .. Len(stored) : /\ Batch(stored, n, walk')
                                      /\ stored' = SubSeq(stored, n + 1, Len(stored))
    BY <1>4, ReadBatchIs
  <2>3. \A i \in 1 .. Len(stored) : stored[i].kind = "wanted"
    BY <2>1
  <2>4. ASSUME NEW i \in 1 .. Len(stored') PROVE stored'[i].kind = "wanted"
    <3>1. n + i \in 1 .. Len(stored) /\ stored'[i] = stored[n + i]
      BY <1>0, <2>2
    <3> QED BY <2>3, <3>1
  <2>5. ASSUME NEW i \in 1 .. Len(walk'.records) PROVE walk'.records[i].frame.kind = "wanted"
    <3>1. i \in 1 .. n /\ walk'.records[i].frame = stored[i] /\ i \in 1 .. Len(stored)
      BY <1>0, <2>2 DEF Batch
    <3> QED BY <2>3, <3>1
  <2> QED BY <2>1, <2>4, <2>5
<1>5. CASE Walk
  <2>1. PICK h \in Headers : Turns(h)
    BY <1>5, WalkIs
  <2>2. walk'.records = <<>> \/ walk'.records = walk.records
    <3>1. CASE Accepted(h, walk, walk')
      BY <1>0, <3>1 DEF Accepted, WalkRecords
    <3>2. CASE walk' = NoWalk
      BY <3>2, NoWalkIs
    <3> QED BY <2>1, <3>1, <3>2 DEF Turns
  <2>3. ASSUME NEW i \in 1 .. Len(delivered') PROVE delivered'[i].kind = "wanted"
    <3>1. CASE UNCHANGED delivered
      BY <3>1
    <3>2. CASE Calls(walk, delivered, delivered')
      <4>1. PICK k \in 1 .. Len(walk.records) : delivered' = Append(delivered, walk.records[k].frame)
        BY <3>2 DEF Calls
      <4>2. \/ i \in 1 .. Len(delivered) /\ delivered'[i] = delivered[i]
            \/ delivered'[i] = walk.records[k].frame
        BY <1>0, <4>1
      <4> QED BY <4>2
    <3> QED BY <2>1, <3>1, <3>2 DEF Turns
  <2> QED BY <2>1, <2>2, <2>3 DEF Turns, kernel
<1>6. CASE PollNothing \/ UNCHANGED vars
  BY <1>6 DEF PollNothing, vars, kernel, poll
<1> QED BY <1>1, <1>2, <1>3, <1>4, <1>5, <1>6 DEF Next, OpenFails, Destroy

\* The walk stays inside its batch, and pays a header for each callback.
LEMMA SafeNext ==
    ASSUME ResourceInv, FrameTypes, SafeInv, [Next]_vars
    PROVE  SafeInv'
<1>0. walk \in WalkRecords /\ HeaderFields \in Nat /\ HeaderFields > 0
  BY LinkAssumption DEF FrameTypes
<1>1. CASE UNCHANGED walk
  BY <1>1 DEF SafeInv
<1>2. CASE walk' = NoWalk
  <2>1. 0 * HeaderFields = 0 /\ <<0, 0>>[1] = 0 /\ <<0, 0>>[2] = 0
    BY <1>0
  <2> QED BY <1>2, <2>1, NoWalkIs DEF SafeInv
<1>3. CASE ReadBatch
  <2>1. PICK n \in 1 .. Len(stored) : Batch(stored, n, walk')
    BY <1>3, ReadBatchIs
  <2>2. /\ walk' \in WalkRecords /\ walk'.offset = 0 /\ walk'.turns = 0 /\ walk'.span = <<0, 0>>
        /\ EndsWith(walk'.bytes, walk'.records[n]) /\ walk'.bytes \in Nat
    BY <2>1 DEF Batch, WalkRecords
  <2>3. walk'.records[n] \in BatchRecord
    <3>1. n \in 1 .. Len(walk'.records) /\ walk'.records \in Seq(BatchRecord)
      BY <2>1 DEF Batch, WalkRecords
    <3> QED BY <3>1
  <2>4. walk'.bytes > 0
    BY <1>0, <2>2, <2>3, EndsBehind, RecordIs
  <2>5. 0 * HeaderFields = 0 /\ <<0, 0>>[1] = 0 /\ <<0, 0>>[2] = 0
    BY <1>0
  <2> QED BY <2>2, <2>4, <2>5 DEF SafeInv
<1>4. CASE Walk
  <2>1. PICK h \in Headers : Turns(h)
    BY <1>4, WalkIs
  <2>2. ASSUME Accepted(h, walk, walk') PROVE SafeInv'
    <3>1. /\ walk'.bytes = walk.bytes /\ walk'.turns = walk.turns + 1
          /\ walk'.span = <<walk.offset + h.header, h.captured>>
          /\ h.header >= HeaderFields /\ h.header + h.captured <= walk.bytes - walk.offset
          /\ NextOffset(h) \in Nat /\ NextOffset(h) >= walk.offset + HeaderFields
          /\ NextOffset(h) >= walk.bytes => ~walk'.active
          /\ NextOffset(h) < walk.bytes => walk'.offset = NextOffset(h)
      BY <2>2 DEF Accepted
    <3>2. /\ walk.bytes \in Nat /\ walk.offset \in Nat /\ walk.turns \in Nat
          /\ h.header \in Nat /\ h.captured \in Nat
      BY <1>0 DEF WalkRecords, Headers
    <3>3. /\ walk'.span[1] = walk.offset + h.header /\ walk'.span[2] = h.captured
      BY <3>1
    <3>4. walk.active /\ walk.turns * HeaderFields <= walk.offset
      BY <1>4 DEF Walk, SafeInv
    <3>5. /\ (walk.turns + 1) * HeaderFields = walk.turns * HeaderFields + HeaderFields
          /\ walk.turns * HeaderFields \in Nat
      BY <1>0, <3>2
    <3>6. walk'.turns * HeaderFields <= walk.offset + HeaderFields
      BY <1>0, <3>1, <3>2, <3>4, <3>5
    <3>7. walk'.turns * HeaderFields \in Nat
      BY <1>0, <3>1, <3>2
    <3>8. walk'.span[1] + walk'.span[2] <= walk'.bytes
      BY <3>1, <3>2, <3>3
    <3>9. walk'.turns * HeaderFields <= walk'.bytes
      BY <1>0, <3>1, <3>2, <3>6, <3>7
    <3>10. walk'.active => walk'.offset < walk'.bytes /\ walk'.turns * HeaderFields <= walk'.offset
      BY <1>0, <3>1, <3>2, <3>6, <3>7
    <3> QED BY <3>8, <3>9, <3>10 DEF SafeInv
  <2> QED BY <1>2, <2>1, <2>2 DEF Turns
<1> QED BY <1>1, <1>2, <1>3, <1>4, ResetIs
        DEF Next, OpenCall, OpenFails, Destroy, Capture, PollNothing, vars, poll

\* The inductive invariant of the endpoint: owners of resources, types, kinds of
\* frames and bounds of the walk.
THEOREM LinkCorrect == Spec => []LinkInv
<1>1. Init => LinkInv
  <2> SUFFICES ASSUME Init PROVE LinkInv
    OBVIOUS
  <2>1. /\ done = 0 /\ guards = {} /\ backend = {} /\ acquired = {} /\ ~closes /\ stored = <<>>
        /\ count = 0 /\ walk = NoWalk /\ delivered = <<>> /\ ~damaged
    BY DEF Init
  <2>2. ResourceInv
    BY <2>1 DEF ResourceInv, Scopes
  <2>3. FrameTypes /\ KindInv
    BY <2>1, NoWalkIs DEF FrameTypes, KindInv
  <2>4. SafeInv
    <3>1. 0 * HeaderFields = 0 /\ <<0, 0>>[1] = 0 /\ <<0, 0>>[2] = 0
      BY LinkAssumption
    <3> QED BY <2>1, <3>1, NoWalkIs DEF SafeInv
  <2> QED BY <2>2, <2>3, <2>4 DEF LinkInv
<1>2. LinkInv /\ [Next]_vars => LinkInv'
  BY ResourceNext, FrameTypesNext, KindNext, SafeNext DEF LinkInv
<1> QED BY <1>1, <1>2, PTL DEF Spec

\* The callback never gets a frame that the kernel stored before the filter
\* and the exclusion of this host's own frames were in force.
THEOREM CallbackGetsWanted == Spec => []OnlyWantedFrames
<1>1. LinkInv => OnlyWantedFrames
  BY DEF LinkInv, FrameTypes, KindInv, OnlyWantedFrames
<1> QED BY <1>1, LinkCorrect, PTL

\* Whatever the headers of a batch say, the callback sees bytes of the batch
\* only, and is called at most once for each header's length in it.
THEOREM WalkStaysInside == Spec => []WalkIsSafe
<1>1. LinkInv => WalkIsSafe
  BY DEF LinkInv, SafeInv, WalkIsSafe
<1> QED BY <1>1, LinkCorrect, PTL
-----------------------------------------------------------------------------
(* Every stored frame is delivered once and in order. *)

\* Frames read from the kernel since the flush.
Taken == count - Len(stored)

\* The kernel holds the frames behind the ones taken.
Queued(t, c, frames) ==
    t \in Nat /\ c = t + Len(frames) /\ \A i \in 1 .. Len(frames) : frames[i].number = t + i

\* The batch holds the last frames taken, laid out one behind the other.
Holds(t, w) ==
    /\ ~w.active => w.records = <<>>
    /\ w.active => Laid(w.records) /\ EndsWith(w.bytes, w.records[Len(w.records)])
    /\ Len(w.records) <= t
    /\ \A i \in 1 .. Len(w.records) : w.records[i].frame.number = t - Len(w.records) + i

\* The frames delivered rise, and lie before the ones not read yet.
Past(t, w, d) ==
    /\ \A i, j \in 1 .. Len(d) : i < j => d[i].number < d[j].number
    /\ \A k \in 1 .. Len(d) : d[k].number <= t
    /\ \A k \in 1 .. Len(d), i \in 1 .. Len(w.records) :
          w.records[i].start >= w.offset => d[k].number < w.records[i].frame.number

\* The walk stands at record j, and all before that has been delivered.
At(t, w, d, j) == /\ w.records[j].start = w.offset
                  /\ Len(d) = t - Len(w.records) + j - 1

\* Nothing is lost while no header was damaged.
Complete(t, w, d) ==
    /\ \A k \in 1 .. Len(d) : d[k].number = k
    /\ ~w.active => Len(d) = t
    /\ w.active => \E j \in 1 .. Len(w.records) : At(t, w, d, j)

OrderInv == /\ Queued(Taken, count, stored) /\ Holds(Taken, walk) /\ Past(Taken, walk, delivered)
            /\ ~damaged => Complete(Taken, walk, delivered)

\* Later records lie behind earlier ones.
LEMMA LaterIsBehind ==
    ASSUME NEW records \in Seq(BatchRecord), Laid(records), NEW i \in 1 .. Len(records)
    PROVE  \A j \in 1 .. Len(records) :
              i < j => /\ records[i].start < records[j].start
                       /\ records[i].start + WordAlign(HeaderFields + records[i].frame.size)
                             <= records[j].start
<1> DEFINE n == Len(records)
           f == [k \in 1 .. n |-> records[k].start]
           g == [k \in 1 .. n |-> WordAlign(HeaderFields + records[k].frame.size)]
           T == {j \in 1 .. n : i < j /\ ~(f[i] + g[i] <= f[j])}
<1>1. n \in Nat /\ i \in 1 .. n
  OBVIOUS
<1>2. ASSUME NEW k \in 1 .. n PROVE f[k] \in Nat /\ g[k] \in Nat /\ g[k] > 0
  <2>1. records[k] \in BatchRecord
    OBVIOUS
  <2>2. records[k].start \in Nat /\ records[k].frame.size \in Nat
    BY <2>1, RecordIs
  <2>3. HeaderFields + records[k].frame.size \in Nat /\ HeaderFields + records[k].frame.size > 0
    BY <2>2, LinkAssumption
  <2> DEFINE m == HeaderFields + records[k].frame.size
  <2>4. WordAlign(m) \in Nat /\ WordAlign(m) > 0
    <3>1. m \in Nat /\ m > 0
      BY <2>3
    <3> HIDE DEF m
    <3>2. WordAlign(m) \in Nat /\ WordAlign(m) >= m
      BY <3>1, WordAlignIs
    <3> QED BY <3>1, <3>2
  <2> QED BY <2>2, <2>4
<1>3. ASSUME NEW k \in 1 .. n, k # 1 PROVE k - 1 \in 1 .. n /\ f[k] = f[k - 1] + g[k - 1]
  <2>1. k - 1 \in 1 .. n
    BY <1>1, <1>3
  <2> QED BY <1>3, <2>1 DEF Laid
<1>4. \A k \in 1 .. n : /\ f[k] = records[k].start
                        /\ g[k] = WordAlign(HeaderFields + records[k].frame.size)
  OBVIOUS
<1> HIDE DEF f, g, n
<1>5. T = {}
  <2> SUFFICES ASSUME T # {} PROVE FALSE
    OBVIOUS
  <2>1. T \subseteq Nat
    BY <1>1
  <2>2. PICK j \in T : \A y \in T : j <= y
    <3> HIDE DEF T
    <3> QED BY <2>1, LeastElement
  <2>3. j \in 1 .. n /\ i < j /\ ~(f[i] + g[i] <= f[j])
    OBVIOUS
  <2>4. j # 1 /\ j - 1 \in 1 .. n /\ f[j] = f[j - 1] + g[j - 1]
    BY <1>1, <1>3, <2>3
  <2>5. CASE j - 1 = i
    BY <1>2, <2>3, <2>4, <2>5
  <2>6. CASE j - 1 # i
    <3>1. j - 1 \notin T /\ i < j - 1
      BY <1>1, <2>2, <2>3, <2>6
    <3>2. f[i] + g[i] <= f[j - 1]
      BY <2>4, <3>1
    <3>3. f[i] \in Nat /\ g[i] \in Nat /\ f[j - 1] \in Nat /\ g[j - 1] \in Nat
      BY <1>1, <1>2, <2>4
    <3> QED BY <2>3, <2>4, <3>2, <3>3
  <2> QED BY <2>5, <2>6
<1>6. ASSUME NEW j \in 1 .. n, i < j PROVE f[i] < f[j] /\ f[i] + g[i] <= f[j]
  <2>1. f[i] + g[i] <= f[j]
    BY <1>5, <1>6
  <2> QED BY <1>1, <1>2, <2>1
<1> QED BY <1>1, <1>4, <1>6 DEF n

\* So only one record starts at an offset.
LEMMA OneRecord ==
    ASSUME NEW records \in Seq(BatchRecord), Laid(records),
           NEW i \in 1 .. Len(records), NEW j \in 1 .. Len(records),
           records[i].start = records[j].start
    PROVE  i = j
<1>1. records[i].start \in Nat /\ records[j].start \in Nat
  BY RecordIs
<1>2. ~(i < j) /\ ~(j < i)
  BY <1>1, LaterIsBehind
<1> QED BY <1>2

\* Reading a batch takes the next frames of the kernel.
LEMMA ReadKeepsOrder ==
    ASSUME NEW t, NEW c \in Nat, NEW frames \in Seq(FrameRecord), NEW w \in WalkRecords,
           NEW v, NEW d \in Seq(FrameRecord), NEW n \in 1 .. Len(frames),
           Queued(t, c, frames), Holds(t, w), ~w.active, Past(t, w, d), Batch(frames, n, v)
    PROVE  /\ Queued(t + n, c, SubSeq(frames, n + 1, Len(frames)))
           /\ Holds(t + n, v) /\ Past(t + n, v, d)
           /\ Complete(t, w, d) => Complete(t + n, v, d)
<1> DEFINE rest == SubSeq(frames, n + 1, Len(frames))
<1>1. /\ t \in Nat /\ c = t + Len(frames) /\ \A i \in 1 .. Len(frames) : frames[i].number = t + i
  BY DEF Queued
<1>2. /\ Len(rest) = Len(frames) - n /\ \A i \in 1 .. Len(rest) : rest[i] = frames[n + i]
      /\ Len(frames) \in Nat /\ n \in Nat /\ n >= 1 /\ n <= Len(frames)
  OBVIOUS
<1> HIDE DEF rest
<1>3. Queued(t + n, c, rest)
  <2>1. ASSUME NEW i \in 1 .. Len(rest) PROVE rest[i].number = t + n + i
    <3>1. n + i \in 1 .. Len(frames) /\ t + (n + i) = t + n + i
      BY <1>1, <1>2
    <3>2. frames[n + i].number = t + (n + i)
      BY <1>1, <3>1
    <3> QED BY <1>2, <3>1, <3>2
  <2>2. t + n \in Nat /\ c = t + n + Len(rest)
    BY <1>1, <1>2
  <2> QED BY <2>1, <2>2 DEF Queued
<1>4. /\ v \in WalkRecords /\ v.active /\ v.offset = 0 /\ Len(v.records) = n
      /\ \A i \in 1 .. n : v.records[i].frame = frames[i]
      /\ Laid(v.records) /\ EndsWith(v.bytes, v.records[n]) /\ v.records[1].start = 0
  BY DEF Batch, Laid
<1>5. ASSUME NEW i \in 1 .. n PROVE v.records[i].frame.number = t + i
  <2>1. i \in 1 .. Len(frames)
    BY <1>2
  <2> QED BY <1>1, <1>4, <2>1
<1>6. Holds(t + n, v)
  <2>1. \A i \in 1 .. n : t + i = t + n - n + i
    BY <1>1, <1>2
  <2>2. n <= t + n
    BY <1>1, <1>2
  <2>3. \A i \in 1 .. n : v.records[i].frame.number = t + n - n + i
    BY <1>5, <2>1
  <2>4. /\ Len(v.records) <= t + n
        /\ \A i \in 1 .. Len(v.records) :
              v.records[i].frame.number = t + n - Len(v.records) + i
    BY <1>4, <2>2, <2>3
  <2>5. v.active /\ Laid(v.records) /\ EndsWith(v.bytes, v.records[Len(v.records)])
    BY <1>4
  <2>6. /\ ~v.active => v.records = <<>>
        /\ v.active => Laid(v.records) /\ EndsWith(v.bytes, v.records[Len(v.records)])
    BY <2>5
  <2> QED BY <1>1, <1>2, <1>4, <2>4, <2>6 DEF Holds
<1>7. Past(t + n, v, d)
  <2>1. ASSUME NEW k \in 1 .. Len(d) PROVE d[k].number \in Nat /\ d[k].number <= t
    <3>1. d[k] \in FrameRecord /\ d[k].number <= t
      BY DEF Past
    <3> QED BY <3>1 DEF FrameRecord
  <2>2. \A k \in 1 .. Len(d) : d[k].number <= t + n
    BY <1>1, <1>2, <2>1
  <2>3. \A k \in 1 .. Len(d), i \in 1 .. n : d[k].number < v.records[i].frame.number
    <3>1. \A k \in 1 .. Len(d), i \in 1 .. n : d[k].number < t + i
      BY <1>1, <1>2, <2>1
    <3> QED BY <1>5, <3>1
  <2> QED BY <1>4, <2>2, <2>3 DEF Past
<1>8. ASSUME Complete(t, w, d) PROVE Complete(t + n, v, d)
  <2>1. (\A k \in 1 .. Len(d) : d[k].number = k) /\ Len(d) = t
    BY <1>8 DEF Complete
  <2>2. t = t + n - n + 1 - 1 /\ 1 \in 1 .. n
    BY <1>1, <1>2
  <2>3. At(t + n, v, d, 1)
    BY <1>4, <2>1, <2>2 DEF At
  <2> QED BY <1>4, <2>1, <2>2, <2>3 DEF Complete
<1> QED BY <1>3, <1>6, <1>7, <1>8 DEF rest

\* What a turn leaves of the batch.
LEMMA TurnIs ==
    ASSUME FrameTypes, NEW h \in Headers, Turns(h)
    PROVE  \/ ~walk'.active /\ walk'.records = <<>>
           \/ /\ walk'.active /\ walk'.records = walk.records /\ walk'.bytes = walk.bytes
              /\ walk'.offset \in Nat /\ walk'.offset > walk.offset
<1>1. CASE walk' = NoWalk
  BY <1>1, NoWalkIs
<1>2. CASE Accepted(h, walk, walk')
  <2>1. /\ walk.bytes \in Nat /\ walk.offset \in Nat /\ HeaderFields \in Nat /\ HeaderFields > 0
    BY LinkAssumption DEF FrameTypes, WalkRecords
  <2> QED BY <1>2, <2>1 DEF Accepted
<1> QED BY <1>1, <1>2 DEF Turns

\* A turn leaves the batch alone or ends with it.
LEMMA TurnHolds ==
    ASSUME FrameTypes, walk.active, NEW t \in Nat, Holds(t, walk), NEW h \in Headers, Turns(h)
    PROVE  Holds(t, walk')
<1>1. CASE ~walk'.active /\ walk'.records = <<>>
  BY <1>1 DEF Holds
<1>2. CASE walk'.active /\ walk'.records = walk.records /\ walk'.bytes = walk.bytes
  BY <1>2 DEF Holds
<1> QED BY <1>1, <1>2, TurnIs

\* A turn calls back with a frame behind all earlier ones, and moves past it.
LEMMA TurnIsPast ==
    ASSUME FrameTypes, walk.active, NEW t \in Nat, Holds(t, walk), Past(t, walk, delivered),
           NEW h \in Headers, Turns(h)
    PROVE  Past(t, walk', delivered')
<1> DEFINE records == walk.records
           n == Len(records)
           d == delivered
           o == walk.offset
<1>1. /\ records \in Seq(BatchRecord) /\ n \in Nat /\ d \in Seq(FrameRecord) /\ o \in Nat
      /\ n <= t /\ Laid(records)
      /\ \A i \in 1 .. n : records[i].frame.number = t - n + i
  BY DEF FrameTypes, WalkRecords, Holds
<1>2. /\ \A i, j \in 1 .. Len(d) : i < j => d[i].number < d[j].number
      /\ \A k \in 1 .. Len(d) : d[k].number <= t
      /\ \A k \in 1 .. Len(d), i \in 1 .. n :
            records[i].start >= o => d[k].number < records[i].frame.number
  BY DEF Past
<1>3. \A i \in 1 .. n : records[i].start \in Nat
  BY <1>1, RecordIs
<1>4. \/ walk'.records = <<>>
      \/ walk'.records = records /\ walk'.offset \in Nat /\ walk'.offset > o
  BY TurnIs
<1> HIDE DEF records, n, d, o
<1>5. ASSUME NEW i \in 1 .. Len(walk'.records), walk'.records[i].start >= walk'.offset
      PROVE  i \in 1 .. n /\ walk'.records[i] = records[i] /\ records[i].start > o
  <2>1. walk'.records = records /\ walk'.offset \in Nat /\ walk'.offset > o
    BY <1>4, <1>5
  <2>2. i \in 1 .. n
    BY <2>1 DEF n
  <2> QED BY <1>1, <1>3, <1>5, <2>1, <2>2
<1>6. CASE UNCHANGED delivered
  <2>1. ASSUME NEW k \in 1 .. Len(d), NEW i \in 1 .. Len(walk'.records),
               walk'.records[i].start >= walk'.offset
        PROVE  d[k].number < walk'.records[i].frame.number
    <3>1. i \in 1 .. n /\ walk'.records[i] = records[i] /\ records[i].start >= o
      BY <1>1, <1>3, <1>5, <2>1
    <3> QED BY <1>2, <3>1
  <2> QED BY <1>2, <1>6, <2>1 DEF Past, d
<1>7. CASE Calls(walk, delivered, delivered')
  <2>1. PICK m \in 1 .. n : records[m].start = o /\ delivered' = Append(d, records[m].frame)
    BY <1>7 DEF Calls, records, n, d, o
  <2> DEFINE x == records[m].frame
             e == Append(d, x)
  <2>2. x.number = t - n + m /\ x.number <= t /\ x.number \in Nat
    BY <1>1
  <2>3. \A k \in 1 .. Len(d) : d[k].number < x.number
    <3>1. records[m].start >= o
      BY <1>1, <2>1
    <3> QED BY <1>2, <3>1
  <2> HIDE DEF x
  <2>4. /\ Len(e) = Len(d) + 1 /\ e[Len(d) + 1] = x /\ Len(d) \in Nat
        /\ \A k \in 1 .. Len(d) : e[k] = d[k]
    BY <1>1
  <2>5. delivered' = e
    BY <2>1 DEF x
  <2> HIDE DEF e
  <2>6. ASSUME NEW i \in 1 .. Len(e), NEW j \in 1 .. Len(e), i < j
        PROVE  e[i].number < e[j].number
    <3>1. i \in 1 .. Len(d)
      BY <2>4, <2>6
    <3>2. CASE j = Len(d) + 1
      BY <2>3, <2>4, <3>1, <3>2
    <3>3. CASE j # Len(d) + 1
      <4>1. j \in 1 .. Len(d)
        BY <2>4, <3>3
      <4> QED BY <1>2, <2>4, <2>6, <3>1, <4>1
    <3> QED BY <3>2, <3>3
  <2>7. ASSUME NEW k \in 1 .. Len(e) PROVE e[k].number <= x.number
    <3>1. CASE k = Len(d) + 1
      BY <2>2, <2>4, <3>1
    <3>2. CASE k # Len(d) + 1
      <4>1. k \in 1 .. Len(d)
        BY <2>4, <3>2
      <4>2. d[k].number \in Nat
        <5>1. d[k] \in FrameRecord
          BY <1>1, <4>1
        <5> QED BY <5>1 DEF FrameRecord
      <4> QED BY <2>2, <2>3, <2>4, <4>1, <4>2
    <3> QED BY <3>1, <3>2
  <2>8. ASSUME NEW k \in 1 .. Len(e) PROVE e[k].number \in Nat
    <3>1. x \in FrameRecord
      <4>1. records[m] \in BatchRecord
        BY <1>1 DEF n
      <4> QED BY <4>1, RecordIs DEF x
    <3>2. e[k] \in FrameRecord
      BY <1>1, <3>1 DEF e
    <3> QED BY <3>2 DEF FrameRecord
  <2>9. ASSUME NEW k \in 1 .. Len(e), NEW i \in 1 .. Len(walk'.records),
               walk'.records[i].start >= walk'.offset
        PROVE  e[k].number < walk'.records[i].frame.number
    <3>1. i \in 1 .. n /\ walk'.records[i] = records[i] /\ records[i].start > o
      BY <1>5, <2>9
    <3>2. m < i
      <4>1. i < m => records[i].start < records[m].start
        BY <1>1, <3>1, LaterIsBehind DEF n
      <4>2. records[i].start \in Nat /\ records[m].start \in Nat
        BY <1>3, <3>1
      <4> QED BY <1>1, <2>1, <3>1, <4>1, <4>2
    <3>3. records[i].frame.number = t - n + i /\ x.number = t - n + m
      BY <1>1, <2>2, <3>1
    <3>4. records[i].frame.number \in Nat /\ x.number < records[i].frame.number
      BY <1>1, <3>1, <3>2, <3>3
    <3> QED BY <2>2, <2>7, <2>8, <3>1, <3>4
  <2>10. \A k \in 1 .. Len(e) : e[k].number <= t
    BY <2>2, <2>7, <2>8
  <2> QED BY <2>5, <2>6, <2>9, <2>10 DEF Past
<1> QED BY <1>6, <1>7 DEF Turns

\* A record lies within its batch, and ends it exactly when it is the last.
LEMMA RecordEnds ==
    ASSUME NEW w \in WalkRecords, NEW t, Holds(t, w), w.active, NEW j \in 1 .. Len(w.records)
    PROVE  LET r == w.records[j]
               size == HeaderFields + r.frame.size
           IN  /\ r.start + size <= w.bytes
               /\ j = Len(w.records) => w.bytes = r.start + size \/ w.bytes = r.start + WordAlign(size)
               /\ j # Len(w.records) => /\ w.bytes # r.start + size
                                        /\ w.records[j + 1].start = r.start + WordAlign(size)
                                        /\ r.start + WordAlign(size) < w.bytes
<1> DEFINE r == w.records[j]
           size == HeaderFields + r.frame.size
           n == Len(w.records)
           z == w.records[n]
<1>1. /\ w.records \in Seq(BatchRecord) /\ Laid(w.records) /\ EndsWith(w.bytes, z)
      /\ n \in Nat /\ n >= 1 /\ w.bytes \in Nat /\ HeaderFields \in Nat /\ HeaderFields > 0
  BY LinkAssumption DEF WalkRecords, Holds, Laid
<1>2. n \in 1 .. n /\ r \in BatchRecord /\ z \in BatchRecord
  BY <1>1
<1>3. /\ r.start \in Nat /\ r.frame.size \in Nat /\ z.start \in Nat /\ z.frame.size \in Nat
      /\ size \in Nat /\ size > 0 /\ r.start + HeaderFields + r.frame.size = r.start + size
  BY <1>1, <1>2, RecordIs
<1>4. w.bytes >= z.start + HeaderFields + z.frame.size
  BY <1>1, <1>2, EndsBehind
<1>5. w.bytes > z.start
  <2> HIDE DEF z
  <2> QED BY <1>1, <1>3, <1>4
<1>6. WordAlign(size) \in Nat /\ WordAlign(size) >= size
  <2> HIDE DEF size
  <2> QED BY <1>3, WordAlignIs
<1>7. CASE j = n
  <2>1. r = z
    BY <1>7
  <2>2. w.bytes = r.start + size \/ w.bytes = r.start + WordAlign(size)
    BY <1>1, <1>3, <2>1 DEF EndsWith
  <2>3. r.start + size <= w.bytes
    BY <1>3, <1>6, <2>2
  <2> QED BY <1>7, <2>2, <2>3
<1>8. CASE j # n
  <2>1. j + 1 \in 1 .. n /\ j + 1 # 1 /\ j + 1 - 1 = j
    BY <1>1, <1>8
  <2>2. w.records[j + 1].start = w.records[j + 1 - 1].start
            + WordAlign(HeaderFields + w.records[j + 1 - 1].frame.size)
    BY <1>1, <2>1 DEF Laid
  <2>3. w.records[j + 1].start = r.start + WordAlign(size)
    BY <2>1, <2>2
  <2>4. r.start + WordAlign(size) <= z.start
    <3>1. j < n
      BY <1>1, <1>8
    <3> QED BY <1>1, <1>2, <3>1, LaterIsBehind
  <2>5. /\ r.start + WordAlign(size) < w.bytes /\ r.start + size < w.bytes
    <3> HIDE DEF size, r, z
    <3> QED BY <1>1, <1>3, <1>5, <1>6, <2>4
  <2> HIDE DEF size
  <2>6. r.start + size <= w.bytes /\ w.bytes # r.start + size
    BY <1>1, <1>3, <2>5
  <2> QED BY <1>8, <2>3, <2>5, <2>6 DEF size
<1> QED BY <1>7, <1>8

\* A turn that is not damaged delivers the record the walk stands at and moves to
\* the next one, or ends behind the last.
LEMMA TurnIsComplete ==
    ASSUME FrameTypes, walk.active, NEW t \in Nat, Holds(t, walk), NEW h \in Headers, Turns(h),
           ~damaged', Complete(t, walk, delivered)
    PROVE  Complete(t, walk', delivered')
<1> DEFINE records == walk.records
           n == Len(records)
           d == delivered
           o == walk.offset
<1>1. /\ walk \in WalkRecords /\ records \in Seq(BatchRecord) /\ n \in Nat
      /\ d \in Seq(FrameRecord) /\ o \in Nat /\ n <= t /\ Laid(records) /\ walk.bytes \in Nat
      /\ \A i \in 1 .. n : records[i].frame.number = t - n + i
  BY DEF FrameTypes, WalkRecords, Holds
<1>2. PICK j \in 1 .. n : records[j].start = o /\ Len(d) = t - n + j - 1
  BY DEF Complete, At
<1> DEFINE size == HeaderFields + records[j].frame.size
<1>3. /\ o + size <= walk.bytes
      /\ j = n => walk.bytes = o + size \/ walk.bytes = o + WordAlign(size)
      /\ j # n => /\ walk.bytes # o + size /\ records[j + 1].start = o + WordAlign(size)
                  /\ o + WordAlign(size) < walk.bytes
  BY <1>1, <1>2, RecordEnds
<1>4. /\ records[j].frame.size \in Nat /\ HeaderFields \in Nat /\ size \in Nat
      /\ WordAlign(size) \in Nat
  <2>1. records[j] \in BatchRecord
    BY <1>1
  <2>2. records[j].frame.size \in Nat /\ HeaderFields \in Nat /\ size \in Nat
    BY <2>1, RecordIs, LinkAssumption
  <2> HIDE DEF size
  <2> QED BY <2>2, WordAlignIs
<1>5. h \in GenuineHeaders
  <2>1. j \in Here
    BY <1>1, <1>2 DEF Here
  <2> QED BY <2>1 DEF Turns
<1>6. h.header = HeaderFields /\ h.captured = records[j].frame.size /\ h.stamp
  <2>1. PICK i \in Here : h = [header |-> HeaderFields, stamp |-> TRUE,
                               captured |-> walk.records[i].frame.size]
    BY <1>5 DEF GenuineHeaders
  <2>2. i \in 1 .. n /\ records[i].start = records[j].start
    BY <1>1, <1>2, <2>1 DEF Here
  <2>3. i = j
    BY <1>1, <2>2, OneRecord
  <2> QED BY <2>1, <2>3
<1>7. h.header + h.captured = size
  BY <1>6
<1>8. ~Rejects(h)
  <2>1. h.header \in Nat /\ h.captured \in Nat /\ h.header = HeaderFields
    BY <1>4, <1>6
  <2>2. walk.bytes - o >= size
    <3> HIDE DEF size, o
    <3> QED BY <1>1, <1>3, <1>4
  <2>3. walk.bytes - walk.offset >= h.header + h.captured
    BY <1>7, <2>2
  <2>4. walk.offset \in Nat /\ walk.bytes \in Nat
    BY <1>1
  <2>5. Remaining \in Int /\ Remaining >= h.header + h.captured
    BY <2>3, <2>4 DEF Remaining
  <2> QED BY <1>6, <2>1, <2>5 DEF Rejects
<1>9. NextOffset(h) = IF walk.bytes = o + size THEN walk.bytes ELSE o + WordAlign(size)
  <2> HIDE DEF size
  <2> QED BY <1>1, <1>4, <1>7 DEF NextOffset, Remaining
<1>10. Accepted(h, walk, walk') /\ Calls(walk, delivered, delivered')
  BY <1>5, <1>8 DEF Turns
<1>11. delivered' = Append(d, records[j].frame)
  <2>1. PICK i \in 1 .. n : records[i].start = o /\ delivered' = Append(d, records[i].frame)
    BY <1>10 DEF Calls
  <2>2. i = j
    BY <1>1, <1>2, <2>1, OneRecord
  <2> QED BY <2>1, <2>2
<1> DEFINE x == records[j].frame
           e == Append(d, x)
<1>12. delivered' = e /\ x.number = t - n + j
  BY <1>1, <1>11
<1> HIDE DEF x
<1>13. /\ Len(e) = Len(d) + 1 /\ e[Len(d) + 1] = x /\ Len(d) \in Nat
       /\ \A k \in 1 .. Len(d) : e[k] = d[k]
  BY <1>1
<1> HIDE DEF e
<1>14. Len(e) = t - n + j /\ x.number = Len(d) + 1
  BY <1>1, <1>2, <1>12, <1>13
<1>15. ASSUME NEW k \in 1 .. Len(e) PROVE e[k].number = k
  <2>1. k = Len(d) + 1 \/ k \in 1 .. Len(d)
    BY <1>13
  <2>2. k \in 1 .. Len(d) => d[k].number = k
    BY DEF Complete
  <2> QED BY <1>13, <1>14, <2>1, <2>2
<1> HIDE DEF size
<1>16. CASE j = n
  <2>1. NextOffset(h) >= walk.bytes
    BY <1>1, <1>3, <1>9, <1>16
  <2>2. ~walk'.active
    BY <1>10, <2>1 DEF Accepted
  <2>3. Len(e) = t
    BY <1>1, <1>14, <1>16
  <2> QED BY <1>12, <1>15, <2>2, <2>3 DEF Complete
<1>17. CASE j # n
  <2>1. NextOffset(h) = o + WordAlign(size) /\ NextOffset(h) < walk.bytes
    BY <1>1, <1>3, <1>4, <1>9, <1>17
  <2>2. walk'.active /\ walk'.records = records /\ walk'.offset = records[j + 1].start
    BY <1>3, <1>10, <1>17, <2>1 DEF Accepted
  <2>3. j + 1 \in 1 .. n /\ Len(e) = t - n + (j + 1) - 1
    BY <1>1, <1>14, <1>17
  <2>4. At(t, walk', e, j + 1)
    BY <2>2, <2>3 DEF At
  <2>5. j + 1 \in 1 .. Len(walk'.records)
    BY <2>2, <2>3
  <2> QED BY <1>12, <1>15, <2>2, <2>4, <2>5 DEF Complete
<1> QED BY <1>16, <1>17

\* Nothing is in progress before open has ended.
LEMMA NothingYet ==
    /\ \A t \in Nat : Holds(t, NoWalk) /\ Past(t, NoWalk, <<>>)
    /\ Complete(0, NoWalk, <<>>) /\ Queued(0, 0, <<>>)
<1>1. Len(<<>>) = 0 /\ (1 .. 0) = {}
  OBVIOUS
<1> QED BY <1>1, NoWalkIs DEF Holds, Past, Complete, Queued

\* Captures, reads and turns keep the order.
LEMMA OrderNext ==
    ASSUME ResourceInv, FrameTypes, OrderInv, [Next]_vars
    PROVE  OrderInv'
<1>0. /\ count \in Nat /\ stored \in Seq(FrameRecord) /\ delivered \in Seq(FrameRecord)
      /\ walk \in WalkRecords /\ Taken \in Nat /\ Len(stored) \in Nat
      /\ Queued(Taken, count, stored) /\ Holds(Taken, walk) /\ Past(Taken, walk, delivered)
      /\ ~damaged => Complete(Taken, walk, delivered)
  BY DEF FrameTypes, OrderInv, Queued
<1>1. CASE UNCHANGED <<kernel, poll>>
  BY <1>0, <1>1 DEF OrderInv, Taken, kernel, poll
<1>2. CASE count' = 0 /\ stored' = <<>> /\ walk' = NoWalk /\ delivered' = <<>> /\ ~damaged'
  <2>1. Taken' = 0
    <3>1. Len(stored') = 0 /\ count' = 0 /\ 0 - 0 = 0
      BY <1>2
    <3> QED BY <3>1 DEF Taken
  <2> QED BY <1>2, <2>1, NothingYet DEF OrderInv
<1>3. CASE OpenCall
  <2>1. done \in 0 .. 17 /\ UNCHANGED poll /\ (UNCHANGED kernel \/ (stored' = <<>> /\ count' = 0))
    BY <1>3, OpenCallIs
  <2>2. walk = NoWalk /\ delivered = <<>> /\ ~damaged
    BY <2>1 DEF FrameTypes
  <2> QED BY <1>1, <1>2, <2>1, <2>2 DEF poll
<1>4. ASSUME NEW kind \in Kind, NEW size \in Sizes, Capture(kind, size) PROVE OrderInv'
  <2>1. UNCHANGED poll /\ count' = count + 1
    BY <1>4, CaptureIs
  <2>2. PICK x \in FrameRecord : stored' = Append(stored, x) /\ x.number = count + 1
    BY <1>4, CaptureIs
  <2>3. /\ Len(stored') = Len(stored) + 1 /\ stored'[Len(stored) + 1] = x
        /\ \A i \in 1 .. Len(stored) : stored'[i] = stored[i]
    BY <1>0, <2>2
  <2>4. Taken' = Taken
    BY <1>0, <2>1, <2>3 DEF Taken
  <2>5. count = Taken + Len(stored) /\ \A i \in 1 .. Len(stored) : stored[i].number = Taken + i
    BY <1>0 DEF Queued
  <2>6. ASSUME NEW i \in 1 .. Len(stored') PROVE stored'[i].number = Taken + i
    <3>1. CASE i = Len(stored) + 1
      <4>1. stored'[i] = x
        BY <2>3, <3>1
      <4>2. x.number = Taken + i
        BY <1>0, <2>2, <2>5, <3>1
      <4> QED BY <4>1, <4>2
    <3>2. CASE i # Len(stored) + 1
      <4>1. i \in 1 .. Len(stored)
        BY <1>0, <2>3, <3>2
      <4> QED BY <2>3, <2>5, <4>1
    <3> QED BY <3>1, <3>2
  <2>7. Queued(Taken, count', stored')
    <3>1. count' = Taken + Len(stored')
      BY <1>0, <2>1, <2>3, <2>5
    <3> QED BY <1>0, <2>6, <3>1 DEF Queued
  <2> QED BY <1>0, <2>1, <2>4, <2>7 DEF OrderInv, poll
<1>5. CASE ReadBatch
  <2>1. ~walk.active /\ UNCHANGED <<count, delivered, damaged>>
    BY <1>5, ReadBatchIs
  <2>2. PICK n \in 1 .. Len(stored) : /\ Batch(stored, n, walk')
                                      /\ stored' = SubSeq(stored, n + 1, Len(stored))
    BY <1>5, ReadBatchIs
  <2>3. /\ Queued(Taken + n, count, stored') /\ Holds(Taken + n, walk')
        /\ Past(Taken + n, walk', delivered)
        /\ Complete(Taken, walk, delivered) => Complete(Taken + n, walk', delivered)
    BY <1>0, <2>1, <2>2, ReadKeepsOrder
  <2>4. Len(stored') = Len(stored) - n
    BY <1>0, <2>2
  <2>5. Taken' = Taken + n
    <3>1. Taken' = count - (Len(stored) - n) /\ n \in Nat
      BY <2>1, <2>4 DEF Taken
    <3>2. Taken = count - Len(stored)
      BY DEF Taken
    <3> QED BY <1>0, <3>1, <3>2
  <2> QED BY <1>0, <2>1, <2>3, <2>5 DEF OrderInv
<1>6. CASE Walk
  <2>1. walk.active
    BY <1>6 DEF Walk
  <2>2. PICK h \in Headers : Turns(h)
    BY <1>6, WalkIs
  <2>3. Taken' = Taken /\ UNCHANGED kernel /\ (~damaged' => ~damaged)
    BY <2>2 DEF Turns, kernel, Taken
  <2>4. Holds(Taken, walk') /\ Past(Taken, walk', delivered')
    BY <1>0, <2>1, <2>2, TurnHolds, TurnIsPast
  <2>5. ~damaged' => Complete(Taken, walk', delivered')
    BY <1>0, <2>1, <2>2, <2>3, TurnIsComplete
  <2> QED BY <1>0, <2>3, <2>4, <2>5 DEF OrderInv, kernel
<1>7. CASE OpenFails \/ Destroy
  BY <1>2, <1>7, ResetIs DEF OpenFails, Destroy
<1>8. CASE PollNothing \/ UNCHANGED vars
  BY <1>1, <1>8 DEF PollNothing, vars
<1> QED BY <1>3, <1>4, <1>5, <1>6, <1>7, <1>8 DEF Next

\* The invariant gives the order of everything delivered, in the batch and stored.
LEMMA OrderGives ==
    ASSUME FrameTypes, OrderInv
    PROVE  InOrderOnce
<1> DEFINE t == Taken
           n == Len(walk.records)
           unread == [i \in DOMAIN Unread |-> Unread[i].frame]
           line == delivered \o unread \o stored
<1>0. /\ count \in Nat /\ stored \in Seq(FrameRecord) /\ delivered \in Seq(FrameRecord)
      /\ walk \in WalkRecords /\ walk.records \in Seq(BatchRecord) /\ walk.offset \in Nat
      /\ t \in Nat /\ Len(stored) \in Nat /\ n \in Nat
      /\ Queued(t, count, stored) /\ Holds(t, walk) /\ Past(t, walk, delivered)
      /\ ~damaged => Complete(t, walk, delivered)
  BY DEF FrameTypes, WalkRecords, OrderInv, Queued
<1>1. \A i, j \in DOMAIN delivered : i < j => delivered[i].number < delivered[j].number
  BY <1>0 DEF Past
<1>2. ASSUME ~damaged
      PROVE  /\ unread \in Seq(FrameRecord) /\ Len(delivered) + Len(unread) = t
             /\ \A i \in 1 .. Len(unread) : unread[i].number = Len(delivered) + i
  <2>1. CASE ~walk.active
    <3>1. walk.records = <<>> /\ Len(delivered) = t
      BY <1>0, <1>2, <2>1 DEF Holds, Complete
    <3>2. Unread = <<>>
      BY <3>1 DEF Unread
    <3>3. unread = <<>>
      BY <3>2
    <3> QED BY <1>0, <3>1, <3>3
  <2>2. CASE walk.active
    <3>1. PICK j \in 1 .. n : walk.records[j].start = walk.offset /\ Len(delivered) = t - n + j - 1
      BY <1>0, <1>2, <2>2 DEF Complete, At
    <3>2. Laid(walk.records) /\ n <= t
          /\ \A i \in 1 .. n : walk.records[i].frame.number = t - n + i
      BY <1>0, <2>2 DEF Holds
    <3> DEFINE left == {i \in DOMAIN walk.records : walk.records[i].start >= walk.offset}
               first == CHOOSE i \in left : \A k \in left : i <= k
    <3>3. DOMAIN walk.records = 1 .. n
      BY <1>0
    <3>4. \A i \in 1 .. n : walk.records[i].start \in Nat
      BY <1>0, RecordIs
    <3>5. j \in left
      BY <1>0, <3>1, <3>3
    <3>6. \A i \in left : i \in 1 .. n /\ j <= i
      <4> SUFFICES ASSUME NEW i \in left PROVE i \in 1 .. n /\ j <= i
        OBVIOUS
      <4>1. i \in 1 .. n /\ walk.records[i].start >= walk.offset
        BY <3>3
      <4>2. i < j => walk.records[i].start < walk.records[j].start
        BY <1>0, <3>2, <4>1, LaterIsBehind
      <4>3. walk.records[i].start \in Nat /\ walk.records[j].start \in Nat
        BY <3>4, <4>1
      <4> QED BY <1>0, <3>1, <4>1, <4>2, <4>3
    <3>7. Unread = SubSeq(walk.records, first, n)
      BY <3>5 DEF Unread
    <3> HIDE DEF left
    <3>8. first = j
      <4>1. \A k \in left : j <= k
        BY <3>6
      <4>2. \E i \in left : \A k \in left : i <= k
        BY <3>5, <4>1
      <4>3. first \in left /\ \A k \in left : first <= k
        BY <4>2
      <4> HIDE DEF first
      <4>4. first <= j /\ j <= first /\ first \in 1 .. n
        BY <3>5, <3>6, <4>3
      <4> QED BY <1>0, <4>4
    <3> HIDE DEF first
    <3>9. Unread = SubSeq(walk.records, j, n)
      BY <3>7, <3>8
    <3>10. /\ Unread \in Seq(BatchRecord) /\ Len(Unread) = n - j + 1
           /\ \A i \in 1 .. Len(Unread) : Unread[i] = walk.records[j + i - 1]
      BY <1>0, <3>9
    <3>11. /\ DOMAIN Unread = 1 .. (n - j + 1) /\ n - j + 1 \in Nat
           /\ \A i \in 1 .. (n - j + 1) : Unread[i] \in BatchRecord /\ Unread[i].frame \in FrameRecord
      <4>1. DOMAIN Unread = 1 .. (n - j + 1) /\ n - j + 1 \in Nat
        BY <1>0, <3>10
      <4>2. \A i \in 1 .. (n - j + 1) : Unread[i] \in BatchRecord
        BY <3>10
      <4> QED BY <4>1, <4>2, RecordIs
    <3>12. /\ unread \in Seq(FrameRecord) /\ Len(unread) = n - j + 1
           /\ \A i \in 1 .. (n - j + 1) : unread[i] = Unread[i].frame
      BY <3>11
    <3> HIDE DEF unread
    <3>13. ASSUME NEW i \in 1 .. Len(unread) PROVE unread[i].number = Len(delivered) + i
      <4>1. i \in 1 .. (n - j + 1) /\ j + i - 1 \in 1 .. n
        BY <1>0, <3>12
      <4>2. unread[i] = walk.records[j + i - 1].frame
        BY <3>10, <3>12, <4>1
      <4>3. walk.records[j + i - 1].frame.number = t - n + (j + i - 1)
        BY <3>2, <4>1
      <4>4. t - n + (j + i - 1) = Len(delivered) + i
        BY <1>0, <3>1, <3>2, <4>1
      <4> QED BY <4>2, <4>3, <4>4
    <3>14. Len(delivered) + Len(unread) = t
      <4>1. t \in Int /\ n \in Int /\ j \in Int
        BY <1>0
      <4>2. Len(delivered) = t - n + j - 1 /\ Len(unread) = n - j + 1
        BY <3>1, <3>12
      <4> HIDE DEF t, n
      <4> QED BY <4>1, <4>2
    <3> QED BY <3>12, <3>13, <3>14
  <2> QED BY <2>1, <2>2
<1>3. ASSUME ~damaged PROVE Numbers(line) = [i \in 1 .. count |-> i]
  <2> HIDE DEF unread, t
  <2>1. /\ unread \in Seq(FrameRecord) /\ Len(delivered) + Len(unread) = t
        /\ \A i \in 1 .. Len(unread) : unread[i].number = Len(delivered) + i
    BY <1>2, <1>3
  <2>2. count = t + Len(stored) /\ \A i \in 1 .. Len(stored) : stored[i].number = t + i
    BY <1>0 DEF Queued
  <2>3. \A k \in 1 .. Len(delivered) : delivered[k].number = k
    BY <1>0, <1>3 DEF Complete
  <2> DEFINE a == Len(delivered)
             b == Len(unread)
  <2>4. /\ line \in Seq(FrameRecord) /\ Len(line) = a + b + Len(stored) /\ a \in Nat /\ b \in Nat
        /\ \A i \in 1 .. a : line[i] = delivered[i]
        /\ \A i \in 1 .. b : line[a + i] = unread[i]
        /\ \A i \in 1 .. Len(stored) : line[a + b + i] = stored[i]
    BY <1>0, <2>1
  <2> HIDE DEF line, a, b
  <2>5. a + b = t /\ Len(line) = count
    BY <1>0, <2>1, <2>2, <2>4 DEF a, b
  <2>6. ASSUME NEW i \in 1 .. count PROVE line[i].number = i
    <3>1. CASE i \in 1 .. a
      BY <2>3, <2>4, <3>1 DEF a
    <3>2. CASE i - a \in 1 .. b
      <4>1. i = a + (i - a) /\ line[a + (i - a)] = unread[i - a]
        BY <2>4, <3>2
      <4>2. unread[i - a].number = a + (i - a)
        BY <2>1, <3>2 DEF a, b
      <4> QED BY <4>1, <4>2
    <3>3. CASE i - t \in 1 .. Len(stored)
      <4>1. i = a + b + (i - t) /\ line[a + b + (i - t)] = stored[i - t] /\ t + (i - t) = i
        BY <1>0, <2>4, <2>5, <3>3
      <4>2. stored[i - t].number = t + (i - t)
        BY <2>2, <3>3
      <4> QED BY <4>1, <4>2
    <3>4. i \in 1 .. a \/ i - a \in 1 .. b \/ i - t \in 1 .. Len(stored)
      BY <1>0, <2>2, <2>4, <2>5
    <3> QED BY <3>1, <3>2, <3>3, <3>4
  <2>7. DOMAIN line = 1 .. count
    BY <2>4, <2>5
  <2> QED BY <2>6, <2>7 DEF Numbers
<1> QED BY <1>1, <1>3 DEF InOrderOnce

\* Every frame the kernel stored since the flush is delivered once and in
\* order while no header is damaged; a damaged header repeats no frame.
THEOREM FramesInOrder == Spec => []InOrderOnce
<1>1. Init => OrderInv
  <2> SUFFICES ASSUME Init PROVE OrderInv
    OBVIOUS
  <2>1. count = 0 /\ stored = <<>> /\ walk = NoWalk /\ delivered = <<>>
    BY DEF Init
  <2>2. Taken = 0
    <3>1. Len(stored) = 0 /\ 0 - 0 = 0
      BY <2>1
    <3> QED BY <2>1, <3>1 DEF Taken
  <2> QED BY <2>1, <2>2, NothingYet DEF OrderInv
<1>2. LinkInv /\ OrderInv /\ [Next]_vars => OrderInv'
  BY OrderNext DEF LinkInv
<1>3. LinkInv /\ OrderInv => InOrderOnce
  BY OrderGives DEF LinkInv
<1> QED BY <1>1, <1>2, <1>3, LinkCorrect, PTL DEF Spec
=============================================================================
