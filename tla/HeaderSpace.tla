---------------------------- MODULE HeaderSpace ----------------------------
(***************************************************************************)
(* The header-space scanner.  A command maps a range of nonces of one      *)
(* header: the range is cut into zones, a GPU work-group scans each zone   *)
(* and reduces the figures of its work-items, the host adds the zones up,  *)
(* checks them and writes zones.csv and summary.json.  The trajectory      *)
(* campaign uses the scanner's other kernel, which collects the nonces     *)
(* below a threshold in a buffer of limited capacity and is launched again *)
(* with twice the capacity when the buffer was too small.                  *)
(*                                                                         *)
(* Work-items run in any order between two barriers.  A header is given by *)
(* the PoW value of each of its nonces.                                    *)
(***************************************************************************)
EXTENDS Integers, Sequences, FiniteSets

CONSTANTS NonceSpace,      \* kNonceSpaceSize: 2^32
          MaxPow,          \* the PoW value of 256 one bits
          Worlds,          \* the headers: functions from nonces to PoW values
          Bounds,          \* the tail thresholds: a value is counted below each
          Target,          \* the network target
          Hit,             \* the sparse threshold: a nonce is a hit below it
          Requests,        \* what may be asked of the scanner
          LocalSize,       \* work-items of a group, a power of two
          PreferredItems,  \* of a sparse launch: local size * compute units * 8
          MaxCommands, MaxAborts

Nonces == 0 .. NonceSpace - 1

\* The work-group size is a power of two: it can be halved down to one.
PowerOfTwo(n) ==
    \E halves \in SUBSET (1 .. n) :
        /\ {1, n} \subseteq halves
        /\ \A h \in halves : h = 1 \/ (h \div 2 \in halves /\ h = 2 * (h \div 2))
        /\ \A h, k \in halves : h < k => 2 * h <= k

\* A header without one nonce above the threshold would make the 32-bit counter
\* of hits wrap around to zero; no header of 2^32 nonces is like that.  The tail
\* thresholds decrease, and what a request asks for is unsigned.
ASSUME HeaderSpaceAssumption ==
    /\ NonceSpace \in Nat \ {0} /\ PreferredItems \in Nat \ {0}
    /\ LocalSize \in Nat \ {0} /\ PowerOfTwo(LocalSize)
    /\ MaxPow \in Nat /\ Target \in Int /\ Hit \in Int
    /\ Bounds \in Seq(Int) /\ \A i, j \in DOMAIN Bounds : i < j => Bounds[j] <= Bounds[i]
    /\ \A pow \in Worlds : pow \in [Nonces -> 0 .. MaxPow] /\ \E n \in Nonces : pow[n] >= Hit
    /\ \A r \in Requests :
           /\ r.start \in Nat /\ r.count \in Nat
           /\ r.kind = "map" => r.zone \in Nat /\ r.batch \in Nat /\ r.verify \in Nat
           /\ r.kind = "sparse" => r.capacity \in Nat

VARIABLES pow,        \* of the header
          request,    \* the arguments of the command
          disk,       \* zones.csv and summary.json: the zones, and the global figures, if any
          host,       \* where the command is
          scan,       \* its scan: the range's length, overwrite, whether verified
          zones,      \* the zones downloaded so far
          items,      \* the work-items of the launch under way
          capture,    \* capacity, counter and buffer of the sparse launch
          exit,       \* how the last command ended
          commands, aborts

vars == <<pow, request, disk, host, scan, zones, items, capture, exit, commands, aborts>>

None == "none"
NoSlot == -1
NoNonce == -1

-----------------------------------------------------------------------------
(***************************************************************************)
(* Zones and their statistics.                                             *)
(***************************************************************************)
Smaller(x, y) == IF x < y THEN x ELSE y
Larger(x, y) == IF x < y THEN y ELSE x

ValidRange(start, count, size) ==
    /\ count > 0 /\ size \in 1 .. NonceSpace
    /\ start < NonceSpace /\ count <= NonceSpace - start

\* The zones that the range meets, cut at its ends.
MakeZoneLayout(start, count, size) ==
    LET first == start \div size
        last == (start + count - 1) \div size
        zone(index) == LET from == Larger(start, index * size)
                           end == Smaller(start + count, Smaller(NonceSpace, (index + 1) * size))
                       IN  [index |-> index, start |-> from, end |-> end - 1, count |-> end - from]
    IN  [i \in 1 .. last - first + 1 |-> zone(first + i - 1)]

\* A minimum is a PoW value and its nonce; equal values go by nonce.
MinimumPrecedes(x, y) == x[1] < y[1] \/ (x[1] = y[1] /\ x[2] < y[2])

EmptyStats == [minimum |-> << MaxPow, NonceSpace - 1 >>,
               counts |-> [i \in DOMAIN Bounds |-> 0], network |-> 0]

ClassifyTail(value) == [i \in DOMAIN Bounds |-> IF value < Bounds[i] THEN 1 ELSE 0]

Observe(stats, nonce) ==
    LET value == pow[nonce]
    IN  [minimum |-> IF MinimumPrecedes(<< value, nonce >>, stats.minimum)
                     THEN << value, nonce >> ELSE stats.minimum,
         counts  |-> [i \in DOMAIN Bounds |-> stats.counts[i] + ClassifyTail(value)[i]],
         network |-> stats.network + (IF value <= Target THEN 1 ELSE 0)]

\* What work-item lid of a group of the given size accumulates: it takes the
\* offsets lid, lid + size, ...
ItemStats(range, lid, size) ==
    LET upto[o \in 0 .. range.count] ==
            IF o = 0 THEN EmptyStats
            ELSE IF (o - 1) % size = lid
                 THEN Observe(upto[o - 1], (range.start + o - 1) % NonceSpace)
                 ELSE upto[o - 1]
    IN  upto[range.count]

Combine(left, right) ==
    [minimum |-> IF MinimumPrecedes(right.minimum, left.minimum) THEN right.minimum ELSE left.minimum,
     counts  |-> [i \in DOMAIN Bounds |-> left.counts[i] + right.counts[i]],
     network |-> left.network + right.network]

ScanCpu(layout) == [i \in DOMAIN layout |-> [range |-> layout[i], stats |-> ItemStats(layout[i], 0, 1)]]

\* The zone of the minimum is that of the first zone which has it.
AggregateZones(zs) ==
    LET upto[i \in 0 .. Len(zs)] ==
            IF i = 0 THEN [total |-> 0, zone |-> zs[1].range.index, stats |-> EmptyStats]
            ELSE LET before == upto[i - 1]
                     z == zs[i]
                 IN  [total |-> before.total + z.range.count,
                      zone  |-> IF MinimumPrecedes(z.stats.minimum, before.stats.minimum)
                                THEN z.range.index ELSE before.zone,
                      stats |-> Combine(before.stats, z.stats)]
    IN  upto[Len(zs)]

\* The records make sense by themselves: the layout is that of the range, a
\* minimum is in its zone, and a tail is never larger than the tail around it.
ValidateIntegrity(zs, global) ==
    LET expected == MakeZoneLayout(request.start, request.count, request.zone)
        larger(z, i) == IF i = 1 THEN z.range.count ELSE z.stats.counts[i - 1]
    IN  /\ [i \in DOMAIN zs |-> zs[i].range] = expected
        /\ \A k \in DOMAIN zs :
               /\ zs[k].stats.minimum[2] \in zs[k].range.start .. zs[k].range.end
               /\ \A i \in DOMAIN Bounds : zs[k].stats.counts[i] <= larger(zs[k], i)
        /\ global.total = request.count

-----------------------------------------------------------------------------
(***************************************************************************)
(* The command.                                                            *)
(***************************************************************************)
NoCapture == [capacity |-> 0, total |-> 0, nonces |-> <<>>]
NoScan == [count |-> 0, overwrite |-> FALSE, verified |-> FALSE]

Init ==
    /\ pow \in Worlds /\ request \in Requests
    /\ disk = [zones |-> <<>>, summary |-> <<>>]
    /\ host = "idle" /\ scan = NoScan /\ zones = <<>> /\ items = <<>>
    /\ capture = NoCapture /\ exit = None /\ commands = 0 /\ aborts = 0

Layout == MakeZoneLayout(request.start, scan.count, request.zone)

\* The command ends; what it had in memory is gone.
End(how) ==
    /\ host' = "idle" /\ exit' = how
    /\ scan' = NoScan /\ zones' = <<>> /\ items' = <<>>

\* The arguments are checked, and a result that exists is not scanned again
\* unless it may be overwritten.  The range is scanned as far as the CPU is to
\* verify it first.
BeginMap(overwrite) ==
    /\ host = "idle" /\ request.kind = "map" /\ commands < MaxCommands
    /\ commands' = commands + 1
    /\ IF \/ ~ValidRange(request.start, request.count, request.zone) \/ request.batch = 0
          \/ ~overwrite /\ (disk.zones # <<>> \/ disk.summary # <<>>)
       THEN exit' = "refused" /\ UNCHANGED <<host, scan>>
       ELSE /\ host' = "upload" /\ exit' = None
            /\ scan' = [count |-> IF request.verify > 0 THEN Smaller(request.count, request.verify)
                                                       ELSE request.count,
                        overwrite |-> overwrite, verified |-> request.verify = 0]
    /\ UNCHANGED <<pow, request, disk, zones, items, capture, aborts>>

MaximumBatch == Smaller(request.batch, Len(Layout))

\* The zones of the launch under way, after those downloaded already.
BatchSize == Smaller(MaximumBatch, Len(Layout) - Len(zones))

\* One group per zone of the batch; every work-item is to scan first.
Upload ==
    /\ host = "upload" /\ Len(zones) < Len(Layout)
    /\ items' = [x \in (1 .. BatchSize) \X (0 .. LocalSize - 1) |->
                    [stride |-> LocalSize, stats |-> EmptyStats]]
    /\ host' = "kernel"
    /\ UNCHANGED <<pow, request, disk, scan, zones, capture, exit, commands, aborts>>

\* A work-item goes past a barrier only when its whole group has reached it.
AtBarrier(g, lid) == \A l \in 0 .. LocalSize - 1 : items[<<g, l>>].stride <= items[<<g, lid>>].stride

\* Mutant of Reduce: the strides stop before the last pair.
ReduceShort(g, lid, stride) ==
    IF lid < stride /\ (stride > 1 \/ LocalSize = 1)
    THEN Combine(items[<<g, lid>>].stats, items[<<g, lid + stride>>].stats)
    ELSE items[<<g, lid>>].stats

\* In the step of the tree with this stride, an item of the lower half takes in
\* the one a stride above it.
Reduce(g, lid, stride) ==
    IF lid < stride THEN Combine(items[<<g, lid>>].stats, items[<<g, lid + stride>>].stats)
                    ELSE items[<<g, lid>>].stats

\* A work-item scans its nonces, then takes its part in each step of the tree.
WorkItem(g, lid) ==
    LET s == items[<<g, lid>>].stride
    IN  /\ s > 0 /\ AtBarrier(g, lid)
        /\ items' = [items EXCEPT ![<<g, lid>>] =
                        [stride |-> s \div 2,
                         stats |-> IF s = LocalSize
                                   THEN ItemStats(Layout[Len(zones) + g], lid, LocalSize)
                                   ELSE Reduce(g, lid, s)]]
        /\ UNCHANGED <<pow, request, disk, host, scan, zones, capture, exit, commands, aborts>>

Kernel == host = "kernel" /\ \E x \in DOMAIN items : WorkItem(x[1], x[2])

\* Every group is done: its first item has the figures of the zone.
Download ==
    /\ host = "kernel" /\ \A x \in DOMAIN items : items[x].stride = 0
    /\ zones' = zones \o [g \in 1 .. BatchSize |-> [range |-> Layout[Len(zones) + g],
                                                   stats |-> items[<<g, 0>>].stats]]
    /\ items' = <<>> /\ host' = "upload"
    /\ UNCHANGED <<pow, request, disk, scan, capture, exit, commands, aborts>>

\* The GPU's zones against the CPU's.  A verification of less than the range is
\* followed by the scan of the range.
Verify ==
    /\ host = "upload" /\ Len(zones) = Len(Layout) /\ ~scan.verified
    /\ IF zones # ScanCpu(Layout) THEN End("mismatch")
       ELSE /\ scan' = [scan EXCEPT !.verified = TRUE, !.count = request.count]
            /\ zones' = IF scan.count = request.count THEN zones ELSE <<>>
            /\ UNCHANGED <<host, items, exit>>
    /\ UNCHANGED <<pow, request, disk, capture, commands, aborts>>

Conclude ==
    /\ host = "upload" /\ Len(zones) = Len(Layout) /\ scan.verified
    /\ IF ValidateIntegrity(zones, AggregateZones(zones))
       THEN host' = "zones" /\ UNCHANGED <<scan, zones, items, exit>>
       ELSE End("mismatch")
    /\ UNCHANGED <<pow, request, disk, capture, commands, aborts>>

\* write_atomic.  The temporary is written; an old file is removed...
Remove(file) ==
    /\ host = file
    /\ disk' = [disk EXCEPT ![file] = IF scan.overwrite THEN <<>> ELSE @]
    /\ host' = IF file = "zones" THEN "rename_zones" ELSE "rename_summary"
    /\ UNCHANGED <<pow, request, scan, zones, items, capture, exit, commands, aborts>>

\* ... and the temporary takes its name: zones.csv first, then summary.json.
RenameZones ==
    /\ host = "rename_zones" /\ host' = "summary"
    /\ disk' = [disk EXCEPT !.zones = zones]
    /\ UNCHANGED <<pow, request, scan, zones, items, capture, exit, commands, aborts>>

RenameSummary ==
    /\ host = "rename_summary" /\ End("done")
    /\ disk' = [disk EXCEPT !.summary = << AggregateZones(zones) >>]
    /\ UNCHANGED <<pow, request, capture, commands, aborts>>

-----------------------------------------------------------------------------
(***************************************************************************)
(* The sparse capture.                                                     *)
(***************************************************************************)
\* The items of a launch: no more than nonces, rounded up to whole groups.
GlobalSize == ((Smaller(request.count, PreferredItems) + LocalSize - 1) \div LocalSize) * LocalSize

\* A launch: the counter is zero and the buffer holds nothing.  The capacity is
\* a 32-bit argument of the kernel.
Launch(capacity) ==
    IF capacity \in 1 .. NonceSpace - 1
    THEN /\ capture' = [capacity |-> capacity, total |-> 0, nonces |-> [s \in 1 .. capacity |-> NoNonce]]
         /\ items' = [i \in 0 .. GlobalSize - 1 |-> [offset |-> i, slot |-> NoSlot]]
         /\ host' = "sparse" /\ exit' = None
         /\ UNCHANGED <<scan, zones>>
    ELSE End("refused") /\ capture' = NoCapture

BeginSparse ==
    /\ host = "idle" /\ request.kind = "sparse" /\ commands < MaxCommands
    /\ commands' = commands + 1
    /\ IF ValidRange(request.start, request.count, request.count)
       THEN Launch(request.capacity)
       ELSE exit' = "refused" /\ UNCHANGED <<host, scan, zones, items, capture>>
    /\ UNCHANGED <<pow, request, disk, aborts>>

NonceAt(offset) == (request.start + offset) % NonceSpace

\* Mutant of Counted: hits that do not fit are not counted.
CountedIfStored(total, capacity) == IF total < capacity THEN total + 1 ELSE total

\* The counter after one more hit, in 32 bits.
Counted(total, capacity) == (total + 1) % NonceSpace

\* An item at its next nonce: a hit draws a slot from the counter, atomically.
Probe(i) ==
    LET o == items[i].offset
    IN  /\ host = "sparse" /\ o < request.count /\ items[i].slot = NoSlot
        /\ IF pow[NonceAt(o)] < Hit
           THEN /\ items' = [items EXCEPT ![i].slot = capture.total]
                /\ capture' = [capture EXCEPT !.total = Counted(@, capture.capacity)]
           ELSE items' = [items EXCEPT ![i].offset = o + GlobalSize] /\ UNCHANGED capture
        /\ UNCHANGED <<pow, request, disk, host, scan, zones, exit, commands, aborts>>

\* The nonce is stored if the slot is in the buffer.
Store(i) ==
    /\ host = "sparse" /\ items[i].slot # NoSlot
    /\ capture' = IF items[i].slot < capture.capacity
                  THEN [capture EXCEPT !.nonces[items[i].slot + 1] = NonceAt(items[i].offset)]
                  ELSE capture
    /\ items' = [items EXCEPT ![i] = [offset |-> @.offset + GlobalSize, slot |-> NoSlot]]
    /\ UNCHANGED <<pow, request, disk, host, scan, zones, exit, commands, aborts>>

\* Mutant of Grown: the same capacity is tried again.
GrownNot(capacity) == capacity

Grown(capacity) == 2 * capacity

\* The launch is over: the buffer is read as far as the counter says, or the
\* whole is done again with twice the capacity.
ReadHits ==
    /\ host = "sparse" /\ \A i \in DOMAIN items : items[i].offset >= request.count
    /\ IF capture.total > capture.capacity THEN Launch(Grown(capture.capacity))
       ELSE /\ End("done")
            /\ capture' = [capture EXCEPT !.nonces = SubSeq(@, 1, capture.total)]
    /\ UNCHANGED <<pow, request, disk, commands, aborts>>

Sparse == \E i \in DOMAIN items : Probe(i) \/ Store(i)

-----------------------------------------------------------------------------
\* An OpenCL call or a write fails, or the process is killed.
Abort ==
    /\ host # "idle" /\ aborts < MaxAborts
    /\ aborts' = aborts + 1 /\ End("failed")
    /\ capture' = NoCapture
    /\ UNCHANGED <<pow, request, disk, commands>>

Command ==
    \/ Upload \/ Kernel \/ Download \/ Verify \/ Conclude
    \/ (\E file \in {"zones", "summary"} : Remove(file)) \/ RenameZones \/ RenameSummary
    \/ Sparse \/ ReadHits

Next == (\E o \in BOOLEAN : BeginMap(o)) \/ BeginSparse \/ Command \/ Abort

Spec == Init /\ [][Next]_vars

\* The device runs the work-items of a launch to their end.
FairSpec == Spec /\ WF_vars(Command)

-----------------------------------------------------------------------------
(***************************************************************************)
(* Properties.                                                             *)
(***************************************************************************)
NonceRange == request.start .. request.start + request.count - 1

\* The figures of a set of nonces, by definition.
IsStatsOf(stats, S) ==
    /\ stats.minimum[2] \in S /\ stats.minimum[1] = pow[stats.minimum[2]]
    /\ \A n \in S : ~MinimumPrecedes(<< pow[n], n >>, stats.minimum)
    /\ \A i \in DOMAIN Bounds : stats.counts[i] = Cardinality({n \in S : pow[n] < Bounds[i]})
    /\ stats.network = Cardinality({n \in S : pow[n] <= Target})

\* What is published is exact, whatever the order of the work-items, the batches
\* and the aborts before it: zones.csv has one row for each aligned zone that the
\* range meets, in order, with the figures of its own nonces; summary.json has
\* those of the whole range and the zone that its minimum is in; and it is there
\* without zones.csv only while or after an older result is overwritten
\* (map_header_space_zones, GpuScanner::scan, aggregate_zones, write_atomic).
MapIsExact ==
    /\ exit # "mismatch"
    /\ disk.zones # <<>> =>
           /\ \A z \in 1 .. Len(disk.zones) :
                  LET r == disk.zones[z].range
                  IN  /\ r.index = request.start \div request.zone + z - 1
                      /\ IsStatsOf(disk.zones[z].stats, {n \in NonceRange : n \div request.zone = r.index})
                      /\ r.count = Cardinality({n \in NonceRange : n \div request.zone = r.index})
           /\ {n \div request.zone : n \in NonceRange} = {disk.zones[z].range.index : z \in DOMAIN disk.zones}
    /\ \A i \in DOMAIN disk.summary :
           LET global == disk.summary[i]
           IN  /\ global.total = request.count /\ IsStatsOf(global.stats, NonceRange)
               /\ global.zone = global.stats.minimum[2] \div request.zone
               /\ disk.zones = <<>> => commands > 1

\* A capture that is returned holds every hit of the range, each once, although
\* the work-items race for the slots and a launch may have overflowed before; and
\* a request is refused only for its arguments, or when a capacity that the hits
\* exceed cannot be doubled in 32 bits (capture_sparse_hits,
\* scan_sparse_hits_complete).
CaptureIsExact ==
    request.kind = "sparse" =>
        LET hits == {n \in NonceRange \cap Nonces : pow[n] < Hit}
        IN  /\ exit = "done" =>
                   /\ {capture.nonces[s] : s \in DOMAIN capture.nonces} = hits
                   /\ Len(capture.nonces) = Cardinality(hits)
            /\ (exit = "refused" /\ request.capacity \in 1 .. NonceSpace - 1
                  /\ NonceRange \subseteq Nonces /\ NonceRange # {}) =>
                   2 * Cardinality(hits) > NonceSpace - 1

\* Every command comes to an end; the launches with ever larger buffers too.
ScanEnds == (host # "idle") ~> (host = "idle")
=============================================================================
