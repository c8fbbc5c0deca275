---------------------------- MODULE WorkAllocator ----------------------------
(***************************************************************************)
(* The work allocator of the live modes ("live" and "mock_stratum"):       *)
(* src/src/mining/work_allocator.cpp.  The class is one record, and each of *)
(* its methods an operator from the record before the call to the record   *)
(* after it; every method runs under mutex_, so a call is one atomic step   *)
(* of the modules that use this one.                                       *)
(*                                                                         *)
(* One model nonce stands for one block of nonces between two looks at the  *)
(* stop flag (4096 hashes of a CPU worker, one kernel launch on the GPU),   *)
(* and NonceSpace for the 2^32 nonces of a header.  units_ is a vector in   *)
(* the code; groups are appended with increasing extranonce2 counters and   *)
(* increasing ranges, so among the units of one kind the vector order is    *)
(* the order Before below, and a set carries the same information.         *)
(***************************************************************************)
EXTENDS Integers

CONSTANTS
  CpuCount,     \* max(1, cpu_workers): the CPU units of a group
  GpuEnabled,   \* config.gpu.enabled
  NonceSpace,   \* the nonces of one header, 2^32 in the code
  Jobs,         \* what mining.notify announces: job_id, prevhash, coinbase...
  Ex1s,         \* what mining.subscribe announces: extranonce1 and its size
  Ex2Space,     \* Ex2Space[e]: how many extranonce2 values the size allows,
                \* 256^extranonce2_size, and 0 when the size is 0
  NoWork        \* no job was ever prepared

(***************************************************************************)
(* A work is what prepare_live_job compares with the metadata: the job and  *)
(* the extranonce1 (and size) of the subscription it is mined under.        *)
(***************************************************************************)
Work == Jobs \X Ex1s

ASSUME AllocatorAssumption ==
  /\ CpuCount \in Nat \ {0}
  /\ GpuEnabled \in BOOLEAN
  /\ NonceSpace \in Nat \ {0}
  /\ Ex2Space \in [Ex1s -> Nat]
  /\ \A e \in Ex1s : Ex2Space[e] # 1      \* a size of one byte allows 256
  /\ NoWork \notin Work

Kinds == {"cpu", "gpu"}
Statuses == {"pending", "in_progress", "complete", "stale"}

Capacity(w) == Ex2Space[w[2]]

(***************************************************************************)
(* encode_extranonce2 throws overflow_error for a counter the announced     *)
(* size cannot hold.                                                       *)
(***************************************************************************)
Encodable(w, x) == Capacity(w) = 0 \/ x < Capacity(w)

(***************************************************************************)
(* A work unit.  Its id string is made of the generation it was created in  *)
(* (born), its extranonce2, its kind and its index in the group.           *)
(***************************************************************************)
Unit == [kind : Kinds, x : Nat, part : Nat, born : Nat,
         start : 0..NonceSpace, end : 0..NonceSpace, next : 0..NonceSpace,
         status : Statuses, gen : Nat]

Id(u) == <<u.kind, u.x, u.part, u.born>>
Ids == Kinds \X Nat \X Nat \X Nat

Open(u) == u.status \in {"pending", "in_progress"}

NewUnit(kind, x, part, start, end, gen) ==
  [kind |-> kind, x |-> x, part |-> part, born |-> gen,
   start |-> start, end |-> end, next |-> start,
   status |-> "pending", gen |-> gen]

(***************************************************************************)
(* The nonces a unit still has to scan, as <<extranonce2, nonce>> pairs.    *)
(***************************************************************************)
Rest(u) == {u.x} \X (u.next .. (u.end - 1))

(***************************************************************************)
(* The allocator: units_, the part of metadata_ that steers it (the work    *)
(* last prepared and next_extranonce2_counter), and two history fields that *)
(* no operator reads: done, the nonces recorded as scanned for this work,   *)
(* and tenure, which tells apart two times the same work was begun from     *)
(* nothing with another work in between.                                   *)
(***************************************************************************)
Allocator == [units : SUBSET Unit, work : Work \cup {NoWork}, counter : Nat,
              done : SUBSET (Nat \X Nat), tenure : Nat]

EmptyAllocator ==
  [units |-> {}, work |-> NoWork, counter |-> 0, done |-> {}, tenure |-> 0]

(***************************************************************************)
(* Partition i of p: [2^32 * i / p, 2^32 * (i + 1) / p) in integer division *)
(***************************************************************************)
Cut(i, p) == (NonceSpace * i) \div p

CpuGroup(x, p, gen) ==
  {NewUnit("cpu", x, i, Cut(i, p), Cut(i + 1, p), gen) : i \in 0..(CpuCount - 1)}

(***************************************************************************)
(* create_units: without an extranonce2 the GPU shares the one nonce space  *)
(* and takes the last partition of it; with one, the CPU starts on          *)
(* extranonce2 0 and the GPU on extranonce2 1.                             *)
(***************************************************************************)
\* Mutant of SharedNonceSpace: the GPU is forgotten when there is no extranonce2.
SharedNonceSpaceNever(w) == Capacity(w) = 0 /\ FALSE

SharedNonceSpace(w) == Capacity(w) = 0 /\ GpuEnabled

Partitions(w) == IF SharedNonceSpace(w) THEN CpuCount + 1 ELSE CpuCount

CreatedUnits(w, gen) ==
  CpuGroup(0, Partitions(w), gen)
    \cup (IF GpuEnabled
          THEN {NewUnit("gpu", IF Capacity(w) = 0 THEN 0 ELSE 1, 0,
                        IF SharedNonceSpace(w) THEN Cut(CpuCount, Partitions(w)) ELSE 0,
                        NonceSpace, gen)}
          ELSE {})

\* Mutant of CreatedCounter: the extranonce2 of the GPU is not counted.
CreatedCounterCpuOnly(w) == IF Capacity(w) = 0 THEN 0 ELSE 1

CreatedCounter(w) == IF Capacity(w) = 0 THEN 0 ELSE IF GpuEnabled THEN 2 ELSE 1

(***************************************************************************)
(* append_live_group: a group on a new extranonce2, of CpuCount CPU units   *)
(* or of one GPU unit over the whole nonce space.                          *)
(***************************************************************************)
LiveGroup(kind, x, gen) ==
  IF kind = "gpu" THEN {NewUnit("gpu", x, 0, 0, NonceSpace, gen)}
                  ELSE CpuGroup(x, CpuCount, gen)

-----------------------------------------------------------------------------
(***************************************************************************)
(* prepare_live_job.  The metadata of another work, or no unit that is not  *)
(* stale, makes the state incompatible: the units are dropped and new ones  *)
(* created from the first extranonce2.  Otherwise the open units are kept,  *)
(* made pending under the new generation, and each kind that has no open    *)
(* unit left is given a new extranonce2.                                   *)
(***************************************************************************)
Compatible(al, w) == al.work = w /\ \E u \in al.units : u.status # "stale"

\* Mutant of Kept: a unit in progress is taken for a lost one.
KeptPendingOnly(al, w) ==
  {u \in al.units : u.status = "pending" \/ (Capacity(w) = 0 /\ u.status = "complete")}

Kept(al, w) ==
  {u \in al.units : u.status # "stale" /\ ~(Capacity(w) > 0 /\ u.status = "complete")}

Renew(u, gen) == IF Open(u) THEN [u EXCEPT !.status = "pending", !.gen = gen] ELSE u

Renewed(al, w, gen) == {Renew(u, gen) : u \in Kept(al, w)}

HasOpen(units, kind) == \E u \in units : u.kind = kind /\ Open(u)

NeedsCpu(al, w, gen) == Capacity(w) > 0 /\ ~HasOpen(Renewed(al, w, gen), "cpu")

NeedsGpu(al, w, gen) ==
  Capacity(w) > 0 /\ GpuEnabled /\ ~HasOpen(Renewed(al, w, gen), "gpu")

GpuCounter(al, w, gen) == IF NeedsCpu(al, w, gen) THEN al.counter + 1 ELSE al.counter

Resumed(al, w, gen) ==
  [al EXCEPT
     !.units = Renewed(al, w, gen)
        \cup (IF NeedsCpu(al, w, gen) THEN LiveGroup("cpu", al.counter, gen) ELSE {})
        \cup (IF NeedsGpu(al, w, gen)
              THEN LiveGroup("gpu", GpuCounter(al, w, gen), gen) ELSE {}),
     !.counter = IF NeedsGpu(al, w, gen) THEN GpuCounter(al, w, gen) + 1
                                         ELSE GpuCounter(al, w, gen)]

Recreated(al, w, gen) ==
  [units |-> CreatedUnits(w, gen), work |-> w, counter |-> CreatedCounter(w),
   done |-> IF al.work = w THEN al.done ELSE {},
   tenure |-> IF al.work = w THEN al.tenure ELSE al.tenure + 1]

PrepareLiveJob(al, w, gen) ==
  IF Compatible(al, w) THEN Resumed(al, w, gen) ELSE Recreated(al, w, gen)

(***************************************************************************)
(* A kind that needs an extranonce2 the size cannot hold makes              *)
(* append_live_group throw.  The units are filtered and renewed by then,    *)
(* and a CPU group already appended stays; the metadata is not written.     *)
(***************************************************************************)
PrepareThrows(al, w, gen) ==
  /\ Compatible(al, w)
  /\ \/ NeedsCpu(al, w, gen) /\ ~Encodable(w, al.counter)
     \/ NeedsGpu(al, w, gen) /\ ~Encodable(w, GpuCounter(al, w, gen))

HalfPrepared(al, w, gen) ==
  [al EXCEPT !.units = Renewed(al, w, gen)
     \cup (IF NeedsCpu(al, w, gen) /\ Encodable(w, al.counter)
           THEN LiveGroup("cpu", al.counter, gen) ELSE {})]

-----------------------------------------------------------------------------
(***************************************************************************)
(* acquire: the first pending unit of the kind with a nonce left.          *)
(***************************************************************************)
Acquirable(al, kind) ==
  {u \in al.units : u.kind = kind /\ u.status = "pending" /\ u.next < u.end}

Before(u, v) == u.x < v.x \/ (u.x = v.x /\ u.start <= v.start)

FirstAcquirable(al, kind) ==
  {u \in Acquirable(al, kind) : \A v \in Acquirable(al, kind) : Before(u, v)}

Acquired(al, u) ==
  [al EXCEPT !.units = (@ \ {u}) \cup {[u EXCEPT !.status = "in_progress"]}]

(***************************************************************************)
(* update_progress: the cursor of an open unit, clamped to its range; a     *)
(* complete or stale unit is left alone.                                   *)
(***************************************************************************)
Clamp(n, lo, hi) == IF n < lo THEN lo ELSE IF n > hi THEN hi ELSE n

Advance(u, n) == [u EXCEPT !.next = Clamp(n, u.start, u.end)]

UpdateProgress(al, id, n) ==
  LET hit == {u \in al.units : Id(u) = id /\ Open(u)} IN
  [al EXCEPT
     !.units = (@ \ hit) \cup {Advance(u, n) : u \in hit},
     !.done = @ \cup UNION {Rest(u) \ Rest(Advance(u, n)) : u \in hit}]

(***************************************************************************)
(* complete: the unit's range is done.  With an extranonce2, the last open  *)
(* unit of its kind and generation brings a new group on the next counter,  *)
(* and complete units are erased; the counter is what keeps them from being *)
(* given out again.                                                        *)
(***************************************************************************)
Finish(u) == [u EXCEPT !.next = u.end, !.status = "complete"]

FinishedUnits(al, id) == {IF Id(u) = id THEN Finish(u) ELSE u : u \in al.units}

LastOfGroup(al, id) ==
  \E u \in al.units :
    /\ Id(u) = id
    /\ ~ \E v \in FinishedUnits(al, id) : v.kind = u.kind /\ v.gen = u.gen /\ Open(v)

BringsGroup(al, id) == Capacity(al.work) > 0 /\ LastOfGroup(al, id)

(* append_live_group throws: the unit is complete, nothing is appended or   *)
(* erased.                                                                 *)
CompleteThrows(al, id) == BringsGroup(al, id) /\ ~Encodable(al.work, al.counter)

FinishedDone(al, id) ==
  al.done \cup UNION {Rest(u) : u \in {v \in al.units : Id(v) = id}}

HalfCompleted(al, id) ==
  [al EXCEPT !.units = FinishedUnits(al, id), !.done = FinishedDone(al, id)]

NextGroup(al, id) ==
  IF BringsGroup(al, id)
  THEN UNION {LiveGroup(u.kind, al.counter, u.gen) : u \in {v \in al.units : Id(v) = id}}
  ELSE {}

Complete(al, id) ==
  IF Capacity(al.work) = 0
  THEN HalfCompleted(al, id)
  ELSE [al EXCEPT
          !.units = {u \in FinishedUnits(al, id) : u.status # "complete"}
                      \cup NextGroup(al, id),
          !.counter = IF BringsGroup(al, id) THEN @ + 1 ELSE @,
          !.done = FinishedDone(al, id)]

(***************************************************************************)
(* release: back to pending; no effect on a unit that is not in progress.   *)
(***************************************************************************)
Release(al, id) ==
  [al EXCEPT !.units = {IF Id(u) = id /\ u.status = "in_progress"
                        THEN [u EXCEPT !.status = "pending"] ELSE u : u \in @}]

MarkAllStale(al) ==
  [al EXCEPT !.units = {IF u.status = "complete" THEN u
                        ELSE [u EXCEPT !.status = "stale"] : u \in @}]

(***************************************************************************)
(* load_existing: the units of the checkpoint, none of them in progress.    *)
(***************************************************************************)
\* Mutant of LoadExisting: units in progress are not brought back.
LoadExistingSettledOnly(saved) ==
  [saved EXCEPT !.units = {u \in @ : u.status # "in_progress"}]

LoadExisting(saved) ==
  [saved EXCEPT !.units = {IF u.status = "in_progress"
                           THEN [u EXCEPT !.status = "pending"] ELSE u : u \in @}]

-----------------------------------------------------------------------------
(***************************************************************************)
(* What the allocator owes its users, as predicates on the record.         *)
(***************************************************************************)
\* The extranonce2 values reserved so far for the current work.
Reserved(al) ==
  IF al.work = NoWork THEN {}
  ELSE IF Capacity(al.work) = 0 THEN {0} ELSE 0..(al.counter - 1)

\* Ids are unique and two units never share a nonce.
UniqueIds(al) == \A u, v \in al.units : Id(u) = Id(v) => u = v

DisjointUnits(al) ==
  \A u, v \in al.units : u # v /\ u.x = v.x => u.end <= v.start \/ v.end <= u.start

CursorsInRange(al) == \A u \in al.units : u.start <= u.next /\ u.next <= u.end

UsesExtranonce2(al) == al.work # NoWork /\ Capacity(al.work) > 0

\* The counter is past every extranonce2 in use, so a new group is a new one.
CounterAhead(al) == UsesExtranonce2(al) => \A u \in al.units : u.x < al.counter

\* With an extranonce2, a complete unit is still there only because the
\* extranonce2 values ran out while it was completed.
CompleteErased(al) ==
  UsesExtranonce2(al) /\ Encodable(al.work, al.counter)
    => \A u \in al.units : u.status # "complete"

\* Until they run out, the CPU always has an open unit; prepare_live_job relies
\* on it: it stores the counter only after the last group it appends.
CpuHasOpen(al) ==
  UsesExtranonce2(al) /\ Encodable(al.work, al.counter)
    => HasOpen(al.units, "cpu") \/ \A u \in al.units : u.status = "stale"

WellFormed(al) ==
  /\ al.work = NoWork => al.units = {}
  /\ UniqueIds(al) /\ DisjointUnits(al) /\ CursorsInRange(al)
  /\ CounterAhead(al) /\ CompleteErased(al) /\ CpuHasOpen(al)

\* No nonce recorded as scanned is waiting in an open unit.
NothingReallocated(al) == \A u \in al.units : Open(u) => Rest(u) \cap al.done = {}

\* Every nonce of a reserved extranonce2 is recorded as scanned or belongs to a
\* unit that is not complete: an open one, where it waits, or one that
\* mark_all_stale abandoned.
NothingForgotten(al) ==
  \A x \in Reserved(al), n \in 0..(NonceSpace - 1) :
    <<x, n>> \in al.done \/ \E u \in al.units : u.status # "complete" /\ <<x, n>> \in Rest(u)
=============================================================================
