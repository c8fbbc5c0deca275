----------------------- MODULE TrajectoryCampaignProofs -----------------------
(***************************************************************************)
(* Theorems about TrajectoryCampaign, for any manifest, any number of       *)
(* workers, commands, kills and exceptions: the pool hands every task over  *)
(* once and loses none, a complete capture stays complete, the checkpoint   *)
(* is never ahead of the captures, and the analysis is made of all of them. *)
(***************************************************************************)
EXTENDS TrajectoryCampaign, TLAPS, FiniteSetTheorems, SequenceTheorems, WellFoundedInduction

-----------------------------------------------------------------------------
(* Sequences of tasks. *)

(* The queue and the ready list start empty. *)
LEMMA NoTasks ==
  /\ <<>> \in Seq(Nat) /\ Range(<<>>) = {} /\ IsInjective(<<>>) /\ Len(<<>>) = 0
  /\ \A S, q : q \in Seq(S) => (q = <<>> <=> Len(q) = 0) /\ (q # <<>> => Len(q) > 0)
BY DEF Range, IsInjective

(* A task appended to the queue is in it, once. *)
LEMMA TaskAppended ==
  ASSUME NEW q \in Seq(Nat), NEW t \in Nat, t \notin Range(q), IsInjective(q)
  PROVE  /\ Append(q, t) \in Seq(Nat) /\ IsInjective(Append(q, t))
         /\ Range(Append(q, t)) = Range(q) \cup {t}
  <1> DEFINE r == Append(q, t)
             last == Len(q) + 1
  <1>1. /\ Len(q) \in Nat /\ last \in Nat /\ last \notin 1..Len(q) /\ 1..last = 1..Len(q) \cup {last}
        /\ r \in Seq(Nat) /\ DOMAIN r = 1..last /\ DOMAIN q = 1..Len(q)
        /\ r[last] = t /\ \A k \in 1..Len(q) : r[k] = q[k]
    OBVIOUS
  <1> HIDE DEF r, last
  <1>2. Range(r) = Range(q) \cup {t}
    BY <1>1 DEF Range
  <1>3. IsInjective(r)
    BY <1>1 DEF Range, IsInjective
  <1> QED BY <1>1, <1>2, <1>3 DEF r

(* The first task leaves the ready list, the others stay. *)
LEMMA TaskTaken ==
  ASSUME NEW q \in Seq(Nat), Len(q) > 0, IsInjective(q)
  PROVE  /\ Tail(q) \in Seq(Nat) /\ IsInjective(Tail(q))
         /\ Range(Tail(q)) = Range(q) \ {Head(q)}
         /\ Head(q) \in Range(q)
  <1> DEFINE r == Tail(q)
             n == Len(q)
  <1>1. /\ n \in Nat /\ n > 0 /\ DOMAIN q = 1..n /\ r \in Seq(Nat) /\ DOMAIN r = 1..n - 1
        /\ Head(q) = q[1] /\ \A k \in 1..n - 1 : r[k] = q[k + 1]
    OBVIOUS
  <1> HIDE DEF r, n
  <1>2. /\ \A k \in 1..n - 1 : k + 1 \in 1..n /\ k + 1 # 1
        /\ \A k \in 1..n : k = 1 \/ (k - 1 \in 1..n - 1 /\ (k - 1) + 1 = k)
        /\ \A j, k \in 1..n - 1 : j + 1 = k + 1 => j = k
        /\ 1 \in 1..n
    BY <1>1
  <1>3. /\ \A k \in 1..n : q[k] \in Range(q)
        /\ \A j, k \in 1..n : q[j] = q[k] => j = k
    BY <1>1 DEF Range, IsInjective
  <1>4. IsInjective(r)
    <2>1. ASSUME NEW j \in 1..n - 1, NEW k \in 1..n - 1, r[j] = r[k]
          PROVE  j = k
      <3>1. q[j + 1] = q[k + 1] /\ j + 1 \in 1..n /\ k + 1 \in 1..n
        BY <1>1, <1>2, <2>1
      <3> QED BY <1>2, <1>3, <3>1
    <2> QED BY <1>1, <2>1 DEF IsInjective
  <1>5. Head(q) \in Range(q)
    BY <1>1, <1>2, <1>3
  <1>6. ASSUME NEW t \in Range(r)
        PROVE  t \in Range(q) \ {Head(q)}
    <2>1. PICK k \in 1..n - 1 : t = r[k]
      BY <1>1 DEF Range
    <2>2. t = q[k + 1] /\ k + 1 \in 1..n /\ k + 1 # 1
      BY <1>1, <1>2, <2>1
    <2> QED BY <1>1, <1>2, <1>3, <2>2
  <1>7. ASSUME NEW t \in Range(q), t # Head(q)
        PROVE  t \in Range(r)
    <2>1. PICK k \in 1..n : t = q[k]
      BY <1>1 DEF Range
    <2>2. k # 1
      BY <1>1, <1>7, <2>1
    <2>3. k - 1 \in 1..n - 1 /\ r[k - 1] = t
      BY <1>1, <1>2, <2>1, <2>2
    <2> QED BY <1>1, <2>3 DEF Range
  <1> QED BY <1>1, <1>4, <1>5, <1>6, <1>7 DEF r

(* Two lists without a common task make one without a repeated one. *)
LEMMA TasksJoined ==
  ASSUME NEW q \in Seq(Nat), NEW r \in Seq(Nat), IsInjective(q), IsInjective(r),
         Range(q) \cap Range(r) = {}
  PROVE  IsInjective(q \o r)
  <1> DEFINE s == q \o r
             n == Len(q)
             m == Len(r)
  <1>1. /\ n \in Nat /\ m \in Nat /\ DOMAIN q = 1..n /\ DOMAIN r = 1..m /\ DOMAIN s = 1..n + m
        /\ \A k \in 1..n : s[k] = q[k]
        /\ \A k \in n + 1..n + m : s[k] = r[k - n]
    OBVIOUS
  <1> HIDE DEF s, n, m
  <1>2. /\ \A k \in 1..n + m : k \in 1..n \/ k \in n + 1..n + m
        /\ \A k \in n + 1..n + m : k - n \in 1..m
        /\ \A j, k \in n + 1..n + m : j - n = k - n => j = k
    BY <1>1
  <1>3. /\ \A k \in 1..n : q[k] \in Range(q)
        /\ \A k \in 1..m : r[k] \in Range(r)
        /\ \A j, k \in 1..n : q[j] = q[k] => j = k
        /\ \A j, k \in 1..m : r[j] = r[k] => j = k
    BY <1>1 DEF Range, IsInjective
  <1>4. ASSUME NEW j \in 1..n + m, NEW k \in 1..n + m, s[j] = s[k]
        PROVE  j = k
    <2>1. CASE j \in 1..n /\ k \in 1..n
      BY <1>1, <1>4, <1>3, <2>1
    <2>2. CASE j \in n + 1..n + m /\ k \in n + 1..n + m
      <3>1. r[j - n] = r[k - n] /\ j - n \in 1..m /\ k - n \in 1..m
        BY <1>1, <1>2, <1>4, <2>2
      <3> QED BY <1>2, <1>3, <2>2, <3>1
    <2>3. CASE j \in 1..n /\ k \in n + 1..n + m
      <3>1. q[j] = r[k - n] /\ k - n \in 1..m
        BY <1>1, <1>2, <1>4, <2>3
      <3> QED BY <1>3, <2>3, <3>1
    <2>4. CASE k \in 1..n /\ j \in n + 1..n + m
      <3>1. q[k] = r[j - n] /\ j - n \in 1..m
        BY <1>1, <1>2, <1>4, <2>4
      <3> QED BY <1>3, <2>4, <3>1
    <2> QED BY <1>2, <2>1, <2>2, <2>3, <2>4
  <1> QED BY <1>1, <1>4 DEF IsInjective, s

-----------------------------------------------------------------------------
(* The blocks in the order of the manifest. *)

Increasing(s, n) == \A i, j \in 1..n : i < j => s[i] < s[j]

(* A finite set of numbers can be put in order: its least element comes first. *)
LEMMA OrderExists ==
  ASSUME NEW S \in SUBSET Nat, IsFiniteSet(S)
  PROVE  \E s \in [1..Cardinality(S) -> S] : Increasing(s, Cardinality(S))
  <1> DEFINE Can(T) == \E s \in [1..Cardinality(T) -> T] : Increasing(s, Cardinality(T))
             Bad == {n \in Nat : \E T \in SUBSET Nat : IsFiniteSet(T) /\ Cardinality(T) = n /\ ~Can(T)}
  <1>1. Bad = {}
    <2> SUFFICES ASSUME Bad # {} PROVE FALSE
      OBVIOUS
    <2>1. PICK n \in Bad : \A m \in Bad : ~(<<m, n>> \in OpToRel(<, Nat))
      BY NatLessThanWellFounded, WFMin, Bad \in SUBSET Nat
    <2>2. n \in Nat /\ \A m \in Nat : m < n => m \notin Bad
      BY <2>1 DEF OpToRel
    <2>3. PICK T \in SUBSET Nat : IsFiniteSet(T) /\ Cardinality(T) = n /\ ~Can(T)
      BY <2>1
    <2>4. T # {}
      <3>1. [i \in 1..0 |-> i] \in [1..0 -> {}] /\ Increasing([i \in 1..0 |-> i], 0)
        BY DEF Increasing
      <3>2. Can({})
        BY <3>1, FS_EmptySet
      <3> QED BY <2>3, <3>2
    <2>5. PICK least \in T : \A t \in T : ~(<<t, least>> \in OpToRel(<, Nat))
      BY <2>3, <2>4, NatLessThanWellFounded, WFMin
    <2>6. least \in Nat /\ \A t \in T \ {least} : least < t
      <3>1. least \in Nat /\ \A t \in T : t \in Nat
        BY <2>3
      <3>2. \A t \in T : ~(t < least)
        BY <2>5, <3>1 DEF OpToRel
      <3> HIDE DEF Can, Bad
      <3>3. ASSUME NEW t \in T, t # least
            PROVE  least < t
        <4>1. t \in Nat /\ least \in Nat /\ ~(t < least)
          BY <3>1, <3>2
        <4> QED BY <3>3, <4>1
      <3> QED BY <3>1, <3>3
    <2> DEFINE R == T \ {least}
    <2>7. IsFiniteSet(R) /\ Cardinality(R) = n - 1 /\ R \in SUBSET Nat /\ n > 0 /\ n - 1 \in Nat
      <3>1. IsFiniteSet(R) /\ Cardinality(R) = n - 1
        BY <2>3, FS_RemoveElement
      <3>2. Cardinality(R) \in Nat
        BY <3>1, FS_CardinalityType
      <3> QED BY <2>2, <2>3, <3>1, <3>2
    <2>8. Can(R)
      <3>1. n - 1 \notin Bad
        BY <2>2, <2>7
      <3> QED BY <2>7, <3>1
    <2>9. PICK s \in [1..n - 1 -> R] : Increasing(s, n - 1)
      BY <2>7, <2>8
    <2> DEFINE u == [i \in 1..n |-> IF i = 1 THEN least ELSE s[i - 1]]
    <2>10. /\ \A i \in 1..n : i # 1 => i - 1 \in 1..n - 1
           /\ \A i, j \in 1..n : i < j => j # 1
           /\ \A i, j \in 1..n : i < j => i - 1 < j - 1
           /\ \A i \in 1..n : i # 1 => u[i] = s[i - 1]
           /\ \A i \in 1..n : i = 1 => u[i] = least
      BY <2>2
    <2>11. \A i \in 1..n : i # 1 => u[i] \in R
      BY <2>9, <2>10
    <2>12. u \in [1..n -> T]
      BY <2>5, <2>10, <2>11
    <2> HIDE DEF R, u
    <2>13. ASSUME NEW i \in 1..n, NEW j \in 1..n, i < j
           PROVE  u[i] < u[j]
      <3>1. CASE i = 1
        BY <2>6, <2>10, <2>11, <2>13, <3>1 DEF R
      <3>2. CASE i # 1
        BY <2>9, <2>10, <2>13, <3>2 DEF Increasing
      <3> QED BY <3>1, <3>2
    <2>14. Can(T)
      BY <2>3, <2>12, <2>13 DEF Increasing
    <2> QED BY <2>3, <2>14
  <1>2. Cardinality(S) \in Nat
    BY FS_CardinalityType
  <1> QED BY <1>1, <1>2

(* The tasks of a command: every incomplete block is one of them, once. *)
LEMMA OrderIsExact ==
  ASSUME NEW S \in SUBSET Nat, IsFiniteSet(S)
  PROVE  /\ InManifestOrder(S) \in Seq(S)
         /\ IsInjective(InManifestOrder(S)) /\ Range(InManifestOrder(S)) = S
         /\ S # {} => Len(InManifestOrder(S)) > 0
  <1> DEFINE n == Cardinality(S)
             s == InManifestOrder(S)
  <1>1. n \in Nat
    BY FS_CardinalityType
  <1>2. s \in [1..n -> S] /\ \A i, j \in 1..n : i < j => s[i] < s[j]
    BY OrderExists DEF InManifestOrder, Increasing
  <1>3. \A i \in 1..n : s[i] \in Nat
    BY <1>2
  <1> HIDE DEF n, s
  <1>4. DOMAIN s = 1..n /\ s \in Seq(S) /\ Len(s) = n
    BY <1>1, <1>2
  <1>5. IsInjective(s)
    <2>1. ASSUME NEW i \in 1..n, NEW j \in 1..n, s[i] = s[j]
          PROVE  i = j
      <3>1. i < j \/ j < i \/ i = j
        BY <1>1
      <3> QED BY <1>2, <1>3, <2>1, <3>1
    <2> QED BY <1>4, <2>1 DEF IsInjective
  <1>6. s \in Injection(1..n, S)
    BY <1>2, <1>5 DEF Injection
  <1>7. Cardinality(1..n) = n
    BY <1>1, FS_Interval
  <1>8. s \in Surjection(1..n, S)
    BY <1>6, <1>7, FS_Injection DEF n
  <1>9. Range(s) = S
    BY <1>2, <1>4, <1>8 DEF Range, Surjection
  <1>10. S # {} => n > 0
    BY <1>1, FS_EmptySet DEF n
  <1> QED BY <1>4, <1>5, <1>9, <1>10 DEF s

-----------------------------------------------------------------------------
(* The inductive invariant. *)

Handling == {"quarantine", "write", "rename", "metadata", "checkpoint"}
Pooled == {"spawn", "wait", "asleep", "handle", "join"} \cup Handling
Places == {"idle", "load", "refresh", "analyze", "captures", "conclude"} \cup Pooled
WorkerPcs == {"none", "claim", "scan", "notify", "alarm", "finish", "bye", "gone"}

Checkpoint == [status : {"PLANNED", "RUNNING", "COMPLETE"}, completed : 0..NBlocks]
Analysis == [read : SUBSET Blocks, done : BOOLEAN]
Pool == [next : Nat, stop : BOOLEAN, queue : Seq(Nat), finished : Nat, ready : Seq(Nat),
         all : BOOLEAN, refused : BOOLEAN, threw : BOOLEAN]
Thread == [pc : WorkerPcs, task : Nat]
Workers == 1..GpuWorkers

Captured == {b \in Blocks : CaptureIsComplete(b)}
Finished == {i \in Active : wk[i].pc \in {"bye", "gone"}}

DiskTypes ==
  /\ binary \in [Blocks -> {"none", "whole", "bad"}] /\ metadata \in [Blocks -> {"none", "COMPLETE"}]
  /\ temporary \in [Blocks -> {"none", "part", "whole"}] /\ invalid \in Nat
  /\ damaged \subseteq Blocks

MemoryTypes ==
  /\ co \in Places /\ completed \in 0..NBlocks
  /\ exit \in {"none", "ok", "partial", "failed", "killed"}
  /\ pending \in Seq(Blocks) /\ handled \subseteq 1..Len(pending)
  /\ pool \in Pool /\ wk \in [Workers -> Thread]

(* A task that was claimed is in the hands of one worker, in the queue once, or was
   handled; without an exception none gets lost on the way. *)
Passed == Range(pool.queue) \cup Range(pool.ready) \cup handled
Scans(i, t) == wk[i].pc = "scan" /\ wk[i].task = t

ClaimsOK ==
  /\ pool.next \in 1..Len(pending) + 1
  /\ \A i \in Workers : wk[i].pc = "scan" => wk[i].task \in 1..pool.next - 1 /\ wk[i].task \notin Passed
  /\ \A i, j \in Workers : wk[i].pc = "scan" /\ Scans(j, wk[i].task) => i = j
  /\ Passed \subseteq 1..pool.next - 1
  /\ ~pool.refused /\ ~pool.threw =>
       \A t \in 1..pool.next - 1 : t \in Passed \/ \E i \in Workers : Scans(i, t)

QueueOK ==
  /\ IsInjective(pool.queue) /\ IsInjective(pool.ready)
  /\ Range(pool.queue) \cap Range(pool.ready) = {}
  /\ ~pool.refused => /\ Range(pool.queue) \cap handled = {}
                      /\ \A t \in Range(pool.ready) \cap handled : co \in Handling /\ t = Task

(* A worker leaves when there is nothing to claim or something went wrong; the
   coordinator's last look at the queue is after the last worker's. *)
EndOK ==
  /\ pool.stop => pool.threw \/ pool.refused
  /\ \A i \in Workers : i \notin Active => wk[i].pc = "none"
  /\ ~pool.refused /\ ~pool.threw =>
       \A i \in Workers : wk[i].pc \in {"alarm", "finish", "bye", "gone"} => pool.next > Len(pending)
  /\ pool.finished = Cardinality(Finished)
  /\ pool.all => pool.queue = <<>> /\ \A i \in Active : wk[i].pc \in {"bye", "gone"}
  /\ co = "join" => pool.all

(* What the coordinator holds at each place. *)
PlaceOK ==
  /\ co \in {"idle", "load", "spawn"} => /\ pool = NoPool /\ handled = {}
                                         /\ \A i \in Workers : wk[i] = NoThread
  /\ co \in {"idle", "load"} => pending = <<>>
  /\ co \in Pooled => Len(pending) > 0
  /\ co \in {"wait", "asleep", "join"} => pool.ready = <<>>
  /\ co \in Handling => Len(pool.ready) > 0 /\ Task \in handled /\ ~pool.refused

(* The captures while the pool runs: those not pending are complete, of the others
   exactly those handled, but for the one being written. *)
CapturesOK ==
  /\ co \in Pooled =>
       /\ completed = Cardinality(Captured)
       /\ IsInjective(pending)
       /\ Blocks \ Range(pending) \subseteq Captured
       /\ \A t \in 1..Len(pending) : t \notin handled => pending[t] \notin Captured
       /\ ~pool.refused => \A t \in handled :
            pending[t] \in Captured \/ (co \in Handling \ {"checkpoint"} /\ t = Task)
  /\ co = "refresh" => Captured = Blocks

(* The files of the block being written. *)
WritingOK ==
  /\ co \in Handling \ {"checkpoint"} => Block \notin Captured
  /\ co \in {"write", "rename", "metadata"} => metadata[Block] = "none"
  /\ co = "rename" => temporary[Block] = "whole"
  /\ co = "metadata" => binary[Block] = "whole"

(* The checkpoint is behind the captures; an analysis was begun when all were there. *)
RecordsOK ==
  /\ checkpoint # None \/ co # "idle" =>
       /\ checkpoint \in Checkpoint
       /\ checkpoint.completed <= Cardinality(Captured \cup damaged)
       /\ checkpoint.status = "COMPLETE" => Captured \cup damaged = Blocks
  /\ analysis # None \/ co \in {"captures", "conclude"} =>
       /\ analysis \in Analysis /\ analysis.read \in {{}, Discovery}
       /\ Captured \cup damaged = Blocks
  /\ co = "conclude" => Discovery \subseteq Captured

TrajectoryInv ==
  /\ DiskTypes /\ MemoryTypes /\ ClaimsOK /\ QueueOK /\ EndOK /\ PlaceOK /\ CapturesOK
  /\ WritingOK /\ RecordsOK
(* The manifest is finite. *)
LEMMA BlocksAreFinite ==
  IsFiniteSet(Blocks) /\ Cardinality(Blocks) = NBlocks /\ Blocks \subseteq Nat /\ NBlocks \in Nat
  <1>1. NBlocks \in Nat /\ NBlocks > 0 /\ 1 \in Int
    BY TrajectoryAssumption
  <1>2. IsFiniteSet(1..NBlocks) /\ Cardinality(1..NBlocks) = IF 1 > NBlocks THEN 0 ELSE NBlocks - 1 + 1
    BY <1>1, FS_Interval
  <1> QED BY <1>1, <1>2 DEF Blocks

-----------------------------------------------------------------------------
(* The threads of the pool. *)

(* The threads are the first of the configured workers. *)
LEMMA ActiveAreWorkers ==
  ASSUME pending \in Seq(Blocks)
  PROVE  /\ Active \subseteq Workers /\ IsFiniteSet(Active) /\ IsFiniteSet(Workers)
         /\ Cardinality(Active) \in Nat /\ Cardinality(Active) <= GpuWorkers
         /\ Len(pending) > 0 => 1 \in Active
  <1>1. Len(pending) \in Nat /\ GpuWorkers \in Nat \ {0}
    BY TrajectoryAssumption
  <1>2. Active \subseteq Workers /\ (Len(pending) > 0 => 1 \in Active)
    BY <1>1 DEF Active, Workers
  <1>3. IsFiniteSet(Workers) /\ Cardinality(Workers) = GpuWorkers
    BY <1>1, FS_Interval DEF Workers
  <1>4. IsFiniteSet(Active) /\ Cardinality(Active) <= GpuWorkers
    BY <1>2, <1>3, FS_Subset
  <1> QED BY <1>2, <1>3, <1>4, FS_CardinalityType

(* What a step of one thread leaves of the others. *)
OneMoves(i, p, t) ==
  /\ wk' \in [Workers -> Thread] /\ wk'[i].pc = p /\ wk'[i].task = t
  /\ \A j \in Workers : j # i => wk'[j] = wk[j]

(* A worker that takes up or puts down a task. *)
LEMMA ThreadMoves ==
  ASSUME wk \in [Workers -> Thread], NEW i \in Workers, NEW p \in WorkerPcs, NEW t \in Nat,
         wk' = [wk EXCEPT ![i] = [pc |-> p, task |-> t]]
  PROVE  OneMoves(i, p, t)
BY DEF OneMoves, Thread

(* A worker that only goes on. *)
LEMMA ThreadGoes ==
  ASSUME wk \in [Workers -> Thread], NEW i \in Workers, NEW p \in WorkerPcs, Go(i, p)
  PROVE  OneMoves(i, p, wk[i].task) /\ wk[i].task \in Nat
  <1> DEFINE r == [wk[i] EXCEPT !.pc = p]
  <1>1. wk' = [wk EXCEPT ![i] = r]
    BY DEF Go
  <1>2. wk[i] \in Thread
    OBVIOUS
  <1>3. r \in Thread /\ r.pc = p /\ r.task = wk[i].task /\ wk[i].task \in Nat
    BY <1>2 DEF Thread
  <1> HIDE DEF r
  <1> QED BY <1>1, <1>3 DEF OneMoves

(* The pool record, field by field. *)
PoolIs(p, next, stop, queue, finished, ready, all, refused, threw) ==
  /\ p \in Pool /\ p.next = next /\ p.stop = stop /\ p.queue = queue /\ p.finished = finished
  /\ p.ready = ready /\ p.all = all /\ p.refused = refused /\ p.threw = threw

(* Assigning pool.next changes nothing else. *)
LEMMA PoolSetNext ==
  ASSUME NEW p \in Pool, NEW v \in Nat
  PROVE  PoolIs([p EXCEPT !.next = v], v, p.stop, p.queue, p.finished, p.ready, p.all, p.refused, p.threw)
BY DEF Pool, PoolIs

(* Assigning pool.stop changes nothing else. *)
LEMMA PoolSetStop ==
  ASSUME NEW p \in Pool, NEW v \in BOOLEAN
  PROVE  PoolIs([p EXCEPT !.stop = v], p.next, v, p.queue, p.finished, p.ready, p.all, p.refused, p.threw)
BY DEF Pool, PoolIs

(* Assigning pool.queue changes nothing else. *)
LEMMA PoolSetQueue ==
  ASSUME NEW p \in Pool, NEW v \in Seq(Nat)
  PROVE  PoolIs([p EXCEPT !.queue = v], p.next, p.stop, v, p.finished, p.ready, p.all, p.refused, p.threw)
BY DEF Pool, PoolIs

(* Assigning pool.finished changes nothing else. *)
LEMMA PoolSetFinished ==
  ASSUME NEW p \in Pool, NEW v \in Nat
  PROVE  PoolIs([p EXCEPT !.finished = v], p.next, p.stop, p.queue, v, p.ready, p.all, p.refused, p.threw)
BY DEF Pool, PoolIs

(* Assigning pool.ready changes nothing else. *)
LEMMA PoolSetReady ==
  ASSUME NEW p \in Pool, NEW v \in Seq(Nat)
  PROVE  PoolIs([p EXCEPT !.ready = v], p.next, p.stop, p.queue, p.finished, v, p.all, p.refused, p.threw)
BY DEF Pool, PoolIs

(* Assigning pool.all changes nothing else. *)
LEMMA PoolSetAll ==
  ASSUME NEW p \in Pool, NEW v \in BOOLEAN
  PROVE  PoolIs([p EXCEPT !.all = v], p.next, p.stop, p.queue, p.finished, p.ready, v, p.refused, p.threw)
BY DEF Pool, PoolIs

(* Assigning pool.refused changes nothing else. *)
LEMMA PoolSetRefused ==
  ASSUME NEW p \in Pool, NEW v \in BOOLEAN
  PROVE  PoolIs([p EXCEPT !.refused = v], p.next, p.stop, p.queue, p.finished, p.ready, p.all, v, p.threw)
BY DEF Pool, PoolIs

(* Assigning pool.threw changes nothing else. *)
LEMMA PoolSetThrew ==
  ASSUME NEW p \in Pool, NEW v \in BOOLEAN
  PROVE  PoolIs([p EXCEPT !.threw = v], p.next, p.stop, p.queue, p.finished, p.ready, p.all, p.refused, v)
BY DEF Pool, PoolIs

(* While its threads run the command is neither idle nor about to start them. *)
LEMMA ThreadsAreRunning ==
  ASSUME PlaceOK, NEW i \in Workers, wk[i].pc # "none"
  PROVE  co \notin {"idle", "load", "spawn"}
BY DEF PlaceOK, NoThread

(* A thread touches no file, and of the coordinator's place only its sleep. *)
Aside ==
  /\ UNCHANGED <<disk, completed, pending, handled, exit>>
  /\ pool'.ready = pool.ready /\ pool'.refused = pool.refused
  /\ co' = co \/ (co = "asleep" /\ co' = "wait")

(* So all that is said of files and of the place stays true. *)
LEMMA AsideKeeps ==
  ASSUME TrajectoryInv, Aside, co \notin {"idle", "load", "spawn"}
  PROVE  DiskTypes' /\ PlaceOK' /\ CapturesOK' /\ WritingOK' /\ RecordsOK'
  <1>1. /\ binary' = binary /\ metadata' = metadata /\ temporary' = temporary /\ invalid' = invalid
        /\ damaged' = damaged /\ checkpoint' = checkpoint /\ analysis' = analysis
        /\ completed' = completed /\ pending' = pending /\ handled' = handled
        /\ pool'.ready = pool.ready /\ pool'.refused = pool.refused
    BY DEF Aside, disk
  <1>2. Captured' = Captured /\ Task' = Task /\ Block' = Block
    BY <1>1 DEF Captured, CaptureIsComplete, Task, Block
  <1>3. DiskTypes'
    BY <1>1 DEF TrajectoryInv, DiskTypes
  <1>4. CASE co' = co
    <2>1. PlaceOK'
      BY <1>1, <1>2, <1>4 DEF TrajectoryInv, PlaceOK
    <2>2. CapturesOK'
      BY <1>1, <1>2, <1>4 DEF TrajectoryInv, CapturesOK
    <2>3. WritingOK'
      BY <1>1, <1>2, <1>4 DEF TrajectoryInv, WritingOK
    <2>4. RecordsOK'
      BY <1>1, <1>2, <1>4 DEF TrajectoryInv, RecordsOK
    <2> QED BY <1>3, <2>1, <2>2, <2>3, <2>4
  <1>5. CASE co = "asleep" /\ co' = "wait"
    <2>1. PlaceOK'
      BY <1>1, <1>2, <1>5 DEF TrajectoryInv, PlaceOK, Pooled, Handling
    <2>2. CapturesOK'
      BY <1>1, <1>2, <1>5 DEF TrajectoryInv, CapturesOK, Pooled, Handling
    <2>3. WritingOK'
      BY <1>1, <1>2, <1>5 DEF TrajectoryInv, WritingOK, Handling
    <2>4. RecordsOK'
      BY <1>1, <1>2, <1>5 DEF TrajectoryInv, RecordsOK
    <2> QED BY <1>3, <2>1, <2>2, <2>3, <2>4
  <1> QED BY <1>4, <1>5 DEF Aside

(* A thread that neither scans nor finishes, before or after, changes no account. *)
LEMMA QuietMove ==
  ASSUME TrajectoryInv, NEW i \in Active, NEW p \in WorkerPcs, NEW t \in Nat, OneMoves(i, p, t),
         pool' = pool, Aside, p # "scan", wk[i].pc # "scan", wk[i].pc # "none",
         p \in {"bye", "gone"} <=> wk[i].pc \in {"bye", "gone"},
         p \in {"alarm", "finish", "bye", "gone"} =>
           wk[i].pc \in {"alarm", "finish", "bye", "gone"} \/ pool.stop \/ pool.next > Len(pending)
  PROVE  TrajectoryInv'
  <1> USE DEF TrajectoryInv
  <1>1. pending \in Seq(Blocks) /\ pool \in Pool /\ Active \subseteq Workers /\ i \in Workers
    BY ActiveAreWorkers DEF MemoryTypes
  <1>2. co \notin {"idle", "load", "spawn"}
    BY <1>1, ThreadsAreRunning
  <1>3. /\ pending' = pending /\ handled' = handled /\ completed' = completed /\ exit' = exit
        /\ Active' = Active /\ Passed' = Passed /\ Task' = Task
    BY DEF Aside, Active, Passed, Task
  <1>4. \A j \in Workers : wk'[j].pc = "scan" <=> wk[j].pc = "scan"
    BY <1>1 DEF OneMoves
  <1>5. \A j \in Workers : wk'[j].pc = "scan" => wk'[j].task = wk[j].task
    BY <1>1 DEF OneMoves
  <1>6. MemoryTypes'
    BY <1>3 DEF MemoryTypes, Aside, OneMoves, Places, Pooled
  <1>7. ClaimsOK'
    BY <1>3, <1>4, <1>5 DEF ClaimsOK, Scans
  <1>8. QueueOK'
    BY <1>3 DEF QueueOK, Aside, Handling
  <1>9. \A j \in Workers : wk'[j].pc \in {"bye", "gone"} <=> wk[j].pc \in {"bye", "gone"}
    BY <1>1 DEF OneMoves
  <1>10. EndOK'
    <2>1. Finished' = Finished
      BY <1>1, <1>3, <1>9 DEF Finished
    <2>2. \A j \in Workers : j \notin Active => wk'[j].pc = "none"
      BY <1>1 DEF EndOK, OneMoves
    <2>3. ~pool.refused /\ ~pool.threw =>
            \A j \in Workers : wk'[j].pc \in {"alarm", "finish", "bye", "gone"} => pool.next > Len(pending)
      BY <1>1 DEF EndOK, OneMoves
    <2>4. pool.all => pool.queue = <<>> /\ \A j \in Active : wk'[j].pc \in {"bye", "gone"}
      BY <1>1, <1>9 DEF EndOK
    <2>5. co' = "join" => pool.all
      BY DEF EndOK, Aside
    <2> QED BY <1>3, <2>1, <2>2, <2>3, <2>4, <2>5 DEF EndOK
  <1> QED BY <1>2, <1>6, <1>7, <1>8, <1>10, AsideKeeps

(* Claim takes the next task, which nobody had, or finds none. *)
LEMMA ClaimKeeps ==
  ASSUME TrajectoryInv, NEW i \in Active, Claim(i)
  PROVE  TrajectoryInv'
  <1> USE DEF TrajectoryInv
  <1>1. /\ pending \in Seq(Blocks) /\ pool \in Pool /\ Active \subseteq Workers /\ i \in Workers
        /\ wk \in [Workers -> Thread] /\ wk[i].pc = "claim"
    BY ActiveAreWorkers DEF MemoryTypes, Claim, At
  <1>2. CASE pool.stop \/ pool.next > Len(pending)
    <2>1. Go(i, "finish") /\ pool' = pool /\ Aside
      BY <1>2 DEF Claim, pooled, Aside
    <2>2. OneMoves(i, "finish", wk[i].task) /\ wk[i].task \in Nat
      BY <1>1, <2>1, ThreadGoes DEF WorkerPcs
    <2> QED BY <1>1, <1>2, <2>1, <2>2, QuietMove DEF WorkerPcs
  <1>3. CASE ~(pool.stop \/ pool.next > Len(pending))
    <2> DEFINE n == pool.next
    <2>1. /\ pool' = [pool EXCEPT !.next = n + 1] /\ n \in Nat
          /\ wk' = [wk EXCEPT ![i] = [pc |-> "scan", task |-> n]]
          /\ UNCHANGED <<disk, co, completed, pending, handled, exit>>
      BY <1>1, <1>3 DEF Claim, pooled, Pool
    <2>2. /\ pool' \in Pool /\ pool'.next = n + 1 /\ pool'.queue = pool.queue /\ pool'.ready = pool.ready
          /\ pool'.stop = pool.stop /\ pool'.finished = pool.finished /\ pool'.all = pool.all
          /\ pool'.refused = pool.refused /\ pool'.threw = pool.threw
      <3> DEFINE m == n + 1
      <3>1. pool' = [pool EXCEPT !.next = m] /\ m \in Nat
        BY <2>1
      <3> HIDE DEF m, n
      <3>2. PoolIs(pool', m, pool.stop, pool.queue, pool.finished, pool.ready, pool.all, pool.refused,
                   pool.threw)
        BY <1>1, <3>1, PoolSetNext, Zenon
      <3> QED BY <3>2 DEF PoolIs, m
    <2>3. OneMoves(i, "scan", n)
      BY <1>1, <2>1, ThreadMoves DEF WorkerPcs
    <2>4. Aside /\ co \notin {"idle", "load", "spawn"}
      BY <1>1, <2>1, <2>2, ThreadsAreRunning DEF Aside
    <2>5. /\ pending' = pending /\ handled' = handled /\ co' = co
          /\ Active' = Active /\ Passed' = Passed /\ Task' = Task
      BY <2>1, <2>2 DEF Active, Passed, Task
    <2>6. /\ n \in 1..Len(pending) /\ n + 1 \in 1..Len(pending) + 1 /\ n \notin 1..n - 1
          /\ 1..(n + 1) - 1 = 1..n - 1 \cup {n} /\ Len(pending) \in Nat
      BY <1>1, <1>3, <2>1 DEF ClaimsOK
    <2> HIDE DEF n
    <2>7. MemoryTypes'
      BY <2>1, <2>2, <2>3 DEF MemoryTypes, OneMoves
    <2>8. /\ n \notin Passed /\ \A j \in Workers : ~Scans(j, n)
          /\ Passed \subseteq 1..n - 1
          /\ \A j \in Workers : wk[j].pc = "scan" => wk[j].task \in 1..n - 1 /\ wk[j].task \notin Passed
      BY <2>6 DEF ClaimsOK, Scans, n
    <2>9. ClaimsOK'
      <3>1. \A j \in Workers : wk'[j].pc = "scan" =>
              wk'[j].task \in 1..(n + 1) - 1 /\ wk'[j].task \notin Passed
        BY <1>1, <2>3, <2>6, <2>8 DEF OneMoves
      <3>2. ASSUME NEW j \in Workers, NEW k \in Workers, wk'[j].pc = "scan", wk'[k].pc = "scan",
                   wk'[k].task = wk'[j].task
            PROVE  j = k
        BY <1>1, <2>3, <2>8, <3>2 DEF OneMoves, ClaimsOK, Scans
      <3>3. ASSUME ~pool.refused, ~pool.threw, NEW t \in 1..(n + 1) - 1, t \notin Passed
            PROVE  \E j \in Workers : wk'[j].pc = "scan" /\ wk'[j].task = t
        <4>1. CASE t = n
          BY <1>1, <2>3, <4>1 DEF OneMoves
        <4>2. CASE t \in 1..n - 1
          <5>1. PICK j \in Workers : Scans(j, t)
            BY <3>3, <4>2 DEF ClaimsOK, n
          <5>2. j # i
            BY <1>1, <5>1 DEF Scans
          <5> QED BY <2>3, <5>1, <5>2 DEF Scans, OneMoves
        <4> QED BY <2>6, <3>3, <4>1, <4>2
      <3>4. Passed \subseteq 1..(n + 1) - 1
        BY <2>6, <2>8
      <3> QED BY <2>2, <2>5, <2>6, <3>1, <3>2, <3>3, <3>4 DEF ClaimsOK, Scans
    <2>10. QueueOK'
      BY <2>2, <2>5 DEF QueueOK
    <2>11. EndOK'
      <3>1. Finished' = Finished
        BY <1>1, <2>3, <2>5 DEF Finished, OneMoves
      <3>2. ~pool.all
        BY <1>1 DEF EndOK
      <3>3. \A j \in Workers : j \notin Active => wk'[j].pc = "none"
        BY <1>1, <2>3 DEF EndOK, OneMoves
      <3>4. ~pool.refused /\ ~pool.threw =>
              \A j \in Workers : wk'[j].pc \in {"alarm", "finish", "bye", "gone"} => n + 1 > Len(pending)
        BY <1>1, <2>3, <2>6 DEF EndOK, OneMoves, n
      <3> QED BY <2>2, <2>5, <3>1, <3>2, <3>3, <3>4 DEF EndOK
    <2> QED BY <2>4, <2>7, <2>9, <2>10, <2>11, AsideKeeps
  <1> QED BY <1>2, <1>3

(* Push hands the task of a worker to the queue. *)
LEMMA PushKeeps ==
  ASSUME TrajectoryInv, NEW i \in Active, Push(i)
  PROVE  TrajectoryInv'
  <1> USE DEF TrajectoryInv
  <1> DEFINE t == wk[i].task
             q == Append(pool.queue, t)
  <1>1. /\ pending \in Seq(Blocks) /\ pool \in Pool /\ Active \subseteq Workers /\ i \in Workers
        /\ wk \in [Workers -> Thread] /\ wk[i].pc = "scan"
    BY ActiveAreWorkers DEF MemoryTypes, Push, At
  <1>2. /\ pool' = [pool EXCEPT !.queue = q]
        /\ wk' = [wk EXCEPT ![i] = [pc |-> "notify", task |-> 0]]
        /\ UNCHANGED <<disk, co, completed, pending, handled, exit>>
    BY <1>1 DEF Push, pooled
  <1>3. t \in Nat /\ t \in 1..pool.next - 1 /\ t \notin Passed
    BY <1>1 DEF ClaimsOK, Thread
  <1>4. pool.queue \in Seq(Nat) /\ pool.ready \in Seq(Nat)
    BY <1>1 DEF Pool
  <1>5. q \in Seq(Nat) /\ IsInjective(q) /\ Range(q) = Range(pool.queue) \cup {t}
    BY <1>3, <1>4, TaskAppended DEF Passed, QueueOK
  <1> HIDE DEF t, q
  <1>6. PoolIs(pool', pool.next, pool.stop, q, pool.finished, pool.ready, pool.all, pool.refused,
               pool.threw)
    BY <1>1, <1>2, <1>5, PoolSetQueue, Zenon
  <1>7. OneMoves(i, "notify", 0)
    BY <1>1, <1>2, ThreadMoves DEF WorkerPcs
  <1>8. Aside /\ co \notin {"idle", "load", "spawn"}
    BY <1>1, <1>2, <1>6, ThreadsAreRunning DEF Aside, PoolIs
  <1>9. /\ pending' = pending /\ handled' = handled /\ co' = co /\ Active' = Active
        /\ Passed' = Passed \cup {t} /\ Task' = Task
    BY <1>2, <1>5, <1>6 DEF Active, Passed, Task, PoolIs
  <1>10. MemoryTypes'
    BY <1>2, <1>6, <1>7 DEF MemoryTypes, OneMoves, PoolIs
  <1>11. ClaimsOK'
    <2>1. ASSUME NEW j \in Workers, wk'[j].pc = "scan"
          PROVE  j # i /\ wk[j].pc = "scan" /\ wk'[j].task = wk[j].task /\ wk[j].task # t
      BY <1>1, <1>7, <2>1 DEF OneMoves, ClaimsOK, Scans, t
    <2>2. \A j \in Workers : wk'[j].pc = "scan" =>
            wk'[j].task \in 1..pool.next - 1 /\ wk'[j].task \notin Passed \cup {t}
      BY <2>1 DEF ClaimsOK
    <2>3. \A j, k \in Workers : wk'[j].pc = "scan" /\ wk'[k].pc = "scan" /\ wk'[k].task = wk'[j].task => j = k
      BY <2>1 DEF ClaimsOK, Scans
    <2>4. ASSUME ~pool.refused, ~pool.threw, NEW u \in 1..pool.next - 1, u \notin Passed, u # t
          PROVE  \E j \in Workers : wk'[j].pc = "scan" /\ wk'[j].task = u
      <3>1. PICK j \in Workers : Scans(j, u)
        BY <2>4 DEF ClaimsOK
      <3>2. j # i
        BY <2>4, <3>1 DEF Scans, t
      <3> QED BY <1>7, <3>1, <3>2 DEF Scans, OneMoves
    <2>5. Passed \cup {t} \subseteq 1..pool.next - 1
      BY <1>3 DEF ClaimsOK
    <2>6. pool.next \in 1..Len(pending) + 1
      BY DEF ClaimsOK
    <2>7. pool'.next = pool.next /\ pool'.refused = pool.refused /\ pool'.threw = pool.threw
      BY <1>6 DEF PoolIs
    <2> QED BY <1>9, <2>2, <2>3, <2>4, <2>5, <2>6, <2>7 DEF ClaimsOK, Scans
  <1>12. QueueOK'
    <2>1. pool'.queue = q /\ pool'.ready = pool.ready /\ pool'.refused = pool.refused
      BY <1>6 DEF PoolIs
    <2>2. t \notin handled /\ t \notin Range(pool.ready)
      BY <1>3 DEF Passed
    <2> QED BY <1>5, <1>9, <2>1, <2>2 DEF QueueOK
  <1>13. EndOK'
    <2>1. Finished' = Finished
      BY <1>1, <1>7, <1>9 DEF Finished, OneMoves
    <2>2. ~pool.all
      BY <1>1 DEF EndOK
    <2>3. \A j \in Workers : j \notin Active => wk'[j].pc = "none"
      BY <1>1, <1>7 DEF EndOK, OneMoves
    <2>4. ~pool.refused /\ ~pool.threw =>
            \A j \in Workers : wk'[j].pc \in {"alarm", "finish", "bye", "gone"} => pool.next > Len(pending)
      BY <1>1, <1>7 DEF EndOK, OneMoves
    <2> QED BY <1>6, <1>9, <2>1, <2>2, <2>3, <2>4 DEF EndOK, PoolIs
  <1> QED BY <1>8, <1>10, <1>11, <1>12, <1>13, AsideKeeps

(* A scan that throws loses its task, which only a pool without exceptions accounts for. *)
LEMMA ThrowKeeps ==
  ASSUME TrajectoryInv, NEW i \in Active, Throw(i)
  PROVE  TrajectoryInv'
  <1> USE DEF TrajectoryInv
  <1>1. /\ pending \in Seq(Blocks) /\ pool \in Pool /\ Active \subseteq Workers /\ i \in Workers
        /\ wk \in [Workers -> Thread] /\ wk[i].pc = "scan"
    BY ActiveAreWorkers DEF MemoryTypes, Throw, At
  <1> DEFINE yes == TRUE
             p == [pool EXCEPT !.threw = yes]
  <1>2. /\ pool' = [p EXCEPT !.stop = yes] /\ yes \in BOOLEAN /\ yes
        /\ wk' = [wk EXCEPT ![i] = [pc |-> "alarm", task |-> 0]]
        /\ UNCHANGED <<disk, co, completed, pending, handled, exit>>
    BY <1>1 DEF Throw, pooled
  <1> HIDE DEF yes
  <1>3. PoolIs(p, pool.next, pool.stop, pool.queue, pool.finished, pool.ready, pool.all, pool.refused, yes)
    BY <1>1, <1>2, PoolSetThrew
  <1> HIDE DEF p
  <1>4. PoolIs(pool', p.next, yes, p.queue, p.finished, p.ready, p.all, p.refused, p.threw)
    BY <1>2, <1>3, PoolSetStop DEF PoolIs
  <1>5. PoolIs(pool', pool.next, yes, pool.queue, pool.finished, pool.ready, pool.all, pool.refused, yes)
    BY <1>3, <1>4 DEF PoolIs
  <1>6. OneMoves(i, "alarm", 0)
    BY <1>1, <1>2, ThreadMoves DEF WorkerPcs
  <1>7. Aside /\ co \notin {"idle", "load", "spawn"}
    BY <1>1, <1>2, <1>5, ThreadsAreRunning DEF Aside, PoolIs
  <1>8. /\ pending' = pending /\ handled' = handled /\ co' = co /\ Active' = Active
        /\ Passed' = Passed /\ Task' = Task
    BY <1>2, <1>5 DEF Active, Passed, Task, PoolIs
  <1>9. MemoryTypes'
    BY <1>2, <1>5, <1>6 DEF MemoryTypes, OneMoves, PoolIs
  <1>10. ClaimsOK'
    <2>1. ASSUME NEW j \in Workers, wk'[j].pc = "scan"
          PROVE  wk[j].pc = "scan" /\ wk'[j].task = wk[j].task
      BY <1>1, <1>6, <2>1 DEF OneMoves
    <2>2. pool'.next = pool.next /\ pool'.threw
      BY <1>2, <1>5 DEF PoolIs
    <2>3. \A j, k \in Workers : wk'[j].pc = "scan" /\ wk'[k].pc = "scan" /\ wk'[k].task = wk'[j].task => j = k
      BY <2>1 DEF ClaimsOK, Scans
    <2>4. \A j \in Workers : wk'[j].pc = "scan" =>
            wk'[j].task \in 1..pool.next - 1 /\ wk'[j].task \notin Passed
      BY <2>1 DEF ClaimsOK
    <2> QED BY <1>8, <2>2, <2>3, <2>4 DEF ClaimsOK, Scans
  <1>11. QueueOK'
    BY <1>5, <1>8 DEF QueueOK, PoolIs
  <1>12. EndOK'
    <2>1. Finished' = Finished
      BY <1>1, <1>6, <1>8 DEF Finished, OneMoves
    <2>2. ~pool.all
      BY <1>1 DEF EndOK
    <2>3. \A j \in Workers : j \notin Active => wk'[j].pc = "none"
      BY <1>1, <1>6 DEF EndOK, OneMoves
    <2> QED BY <1>2, <1>5, <1>8, <2>1, <2>2, <2>3 DEF EndOK, PoolIs
  <1> QED BY <1>7, <1>9, <1>10, <1>11, <1>12, AsideKeeps

(* notify_one changes no account of the pool. *)
LEMMA NotifyKeeps ==
  ASSUME TrajectoryInv, NEW i \in Active, Notify(i)
  PROVE  TrajectoryInv'
  <1> USE DEF TrajectoryInv
  <1> DEFINE p == AfterNotify[wk[i].pc]
  <1>1. /\ pending \in Seq(Blocks) /\ pool \in Pool /\ Active \subseteq Workers /\ i \in Workers
        /\ wk \in [Workers -> Thread]
    BY ActiveAreWorkers DEF MemoryTypes
  <1>2. \/ wk[i].pc = "notify" /\ p = "claim"
        \/ wk[i].pc = "alarm" /\ p = "finish"
        \/ wk[i].pc = "bye" /\ p = "gone"
    BY DEF Notify, AfterNotify
  <1>3. Go(i, p) /\ pool' = pool /\ Aside
    BY DEF Notify, Aside
  <1> HIDE DEF p
  <1>4. OneMoves(i, p, wk[i].task) /\ wk[i].task \in Nat /\ p \in WorkerPcs
    BY <1>1, <1>2, <1>3, ThreadGoes DEF WorkerPcs
  <1> QED BY <1>2, <1>3, <1>4, QuietMove

(* A worker that is done is counted. *)
LEMMA FinishWorkerKeeps ==
  ASSUME TrajectoryInv, NEW i \in Active, FinishWorker(i)
  PROVE  TrajectoryInv'
  <1> USE DEF TrajectoryInv
  <1> DEFINE f == pool.finished + 1
  <1>1. /\ pending \in Seq(Blocks) /\ pool \in Pool /\ Active \subseteq Workers /\ i \in Workers
        /\ wk \in [Workers -> Thread] /\ wk[i].pc = "finish" /\ IsFiniteSet(Active)
    BY ActiveAreWorkers DEF MemoryTypes, FinishWorker, At
  <1>2. /\ pool' = [pool EXCEPT !.finished = f] /\ f \in Nat
        /\ Go(i, "bye") /\ UNCHANGED <<disk, co, completed, pending, handled, exit>>
    BY <1>1 DEF FinishWorker, pooled, Pool
  <1> HIDE DEF f
  <1>3. PoolIs(pool', pool.next, pool.stop, pool.queue, f, pool.ready, pool.all, pool.refused, pool.threw)
    BY <1>1, <1>2, PoolSetFinished, Zenon
  <1>4. OneMoves(i, "bye", wk[i].task)
    BY <1>1, <1>2, ThreadGoes DEF WorkerPcs
  <1>5. Aside /\ co \notin {"idle", "load", "spawn"}
    BY <1>1, <1>2, <1>3, ThreadsAreRunning DEF Aside, PoolIs
  <1>6. /\ pending' = pending /\ handled' = handled /\ co' = co /\ Active' = Active
        /\ Passed' = Passed /\ Task' = Task
    BY <1>2, <1>3 DEF Active, Passed, Task, PoolIs
  <1>7. MemoryTypes'
    BY <1>2, <1>3, <1>4 DEF MemoryTypes, OneMoves, PoolIs
  <1>8. ClaimsOK'
    <2>1. \A j \in Workers : wk'[j].pc = "scan" <=> wk[j].pc = "scan"
      BY <1>1, <1>4 DEF OneMoves
    <2>2. \A j \in Workers : wk'[j].pc = "scan" => wk'[j].task = wk[j].task
      BY <1>1, <1>4 DEF OneMoves
    <2>3. pool'.next = pool.next /\ pool'.refused = pool.refused /\ pool'.threw = pool.threw
      BY <1>3 DEF PoolIs
    <2> QED BY <1>6, <2>1, <2>2, <2>3 DEF ClaimsOK, Scans
  <1>9. QueueOK'
    BY <1>3, <1>6 DEF QueueOK, PoolIs
  <1>10. EndOK'
    <2>1. Finished' = Finished \cup {i} /\ i \notin Finished
      BY <1>1, <1>4, <1>6 DEF Finished, OneMoves
    <2>2. IsFiniteSet(Finished)
      BY <1>1, FS_Subset DEF Finished
    <2>3. f = Cardinality(Finished')
      BY <2>1, <2>2, FS_AddElement DEF EndOK, f
    <2>4. ~pool.all
      BY <1>1 DEF EndOK
    <2>5. \A j \in Workers : j \notin Active => wk'[j].pc = "none"
      BY <1>1, <1>4 DEF EndOK, OneMoves
    <2>6. ~pool.refused /\ ~pool.threw =>
            \A j \in Workers : wk'[j].pc \in {"alarm", "finish", "bye", "gone"} => pool.next > Len(pending)
      BY <1>1, <1>4 DEF EndOK, OneMoves
    <2>7. co = "join" => pool.all
      BY DEF EndOK
    <2>8. pool.stop => pool.threw \/ pool.refused
      BY DEF EndOK
    <2> QED BY <1>3, <1>6, <2>3, <2>4, <2>5, <2>6, <2>7, <2>8 DEF EndOK, PoolIs
  <1> QED BY <1>5, <1>7, <1>8, <1>9, <1>10, AsideKeeps

-----------------------------------------------------------------------------
(* A pool that has done nothing yet. *)

(* The shared state as run_bounded_workers makes it. *)
LEMMA NewPoolIs == PoolIs(NoPool, 1, FALSE, <<>>, 0, <<>>, FALSE, FALSE, FALSE)
  <1>1. <<>> \in Seq(Nat)
    BY NoTasks
  <1> QED BY <1>1 DEF PoolIs, NoPool, Pool

Fresh ==
  /\ pool = NoPool /\ handled = {} /\ pending \in Seq(Blocks) /\ co # "join"
  /\ \A i \in Workers : wk[i].pc \in {"none", "claim"} /\ (i \notin Active => wk[i].pc = "none")

(* Its accounts are empty, and balance. *)
LEMMA FreshHolds == Fresh => ClaimsOK /\ QueueOK /\ EndOK
  <1> SUFFICES ASSUME Fresh PROVE ClaimsOK /\ QueueOK /\ EndOK
    OBVIOUS
  <1>1. /\ pool.next = 1 /\ pool.queue = <<>> /\ pool.ready = <<>> /\ pool.finished = 0
        /\ pool.stop = FALSE /\ pool.all = FALSE /\ pool.refused = FALSE /\ pool.threw = FALSE
    BY NewPoolIs DEF Fresh, PoolIs
  <1>2. Passed = {}
    BY <1>1, NoTasks DEF Passed, Fresh
  <1>3. Len(pending) \in Nat /\ 1..pool.next - 1 = {}
    BY <1>1 DEF Fresh
  <1>4. ClaimsOK
    BY <1>1, <1>2, <1>3 DEF ClaimsOK, Fresh
  <1>5. QueueOK
    BY <1>1, NoTasks DEF QueueOK
  <1>6. Active \subseteq Workers
    BY ActiveAreWorkers DEF Fresh
  <1>7. Finished = {}
    BY <1>6 DEF Finished, Fresh
  <1>8. EndOK
    BY <1>1, <1>7, FS_EmptySet DEF EndOK, Fresh
  <1> QED BY <1>4, <1>5, <1>8

(* No command: the memory of the program is gone. *)
Exits == {"none", "ok", "partial", "failed", "killed"}

AtRest ==
  /\ co = "idle" /\ completed = 0 /\ pending = <<>> /\ pool = NoPool /\ handled = {}
  /\ wk = [i \in 1..GpuWorkers |-> NoThread] /\ exit \in Exits

(* Everything about the memory holds when there is none. *)
LEMMA RestHolds ==
  AtRest => /\ MemoryTypes /\ ClaimsOK /\ QueueOK /\ EndOK /\ PlaceOK /\ CapturesOK /\ WritingOK
  <1> SUFFICES ASSUME AtRest
               PROVE  MemoryTypes /\ ClaimsOK /\ QueueOK /\ EndOK /\ PlaceOK /\ CapturesOK /\ WritingOK
    OBVIOUS
  <1>1. pool \in Pool
    BY NewPoolIs DEF AtRest, PoolIs
  <1>2. NoThread \in Thread /\ NoThread.pc = "none"
    BY DEF NoThread, Thread, WorkerPcs
  <1>3. wk \in [Workers -> Thread] /\ \A i \in Workers : wk[i] = NoThread
    BY <1>2 DEF AtRest, Workers
  <1>4. <<>> \in Seq(Blocks) /\ Len(<<>>) = 0 /\ 0 \in 0..NBlocks
    BY TrajectoryAssumption
  <1>5. MemoryTypes
    BY <1>1, <1>3, <1>4 DEF AtRest, MemoryTypes, Places, Exits
  <1>6. Fresh
    BY <1>2, <1>3, <1>4 DEF AtRest, Fresh
  <1>7. PlaceOK /\ CapturesOK /\ WritingOK
    BY <1>3 DEF AtRest, PlaceOK, CapturesOK, WritingOK, Pooled, Handling
  <1> QED BY <1>5, <1>6, <1>7, FreshHolds

-----------------------------------------------------------------------------
(* What the files lose: nothing but by damage. *)

Grows == Captured \ damaged' \subseteq Captured' /\ damaged \subseteq damaged'

(* What was ever captured is counted, and the count never falls. *)
LEMMA GrowsCounts ==
  ASSUME DiskTypes', Grows
  PROVE  /\ Captured \cup damaged \subseteq (Captured \cup damaged)'
         /\ Cardinality(Captured \cup damaged) <= Cardinality((Captured \cup damaged)')
         /\ Cardinality(Captured \cup damaged) \in Nat /\ Cardinality((Captured \cup damaged)') \in Nat
         /\ Captured \cup damaged = Blocks => (Captured \cup damaged)' = Blocks
  <1>1. Captured \cup damaged \subseteq (Captured \cup damaged)'
    BY DEF Grows
  <1>2. (Captured \cup damaged)' \subseteq Blocks
    BY DEF DiskTypes, Captured
  <1>3. IsFiniteSet(Blocks)
    BY TrajectoryAssumption, FS_Interval DEF Blocks
  <1>4. IsFiniteSet((Captured \cup damaged)')
    BY <1>2, <1>3, FS_Subset
  <1>5. /\ IsFiniteSet(Captured \cup damaged)
        /\ Cardinality(Captured \cup damaged) <= Cardinality((Captured \cup damaged)')
    BY <1>1, <1>4, FS_Subset
  <1> QED BY <1>1, <1>2, <1>4, <1>5, FS_CardinalityType

(* The records stay true when nothing but the captures changes. *)
LEMMA RecordsStay ==
  ASSUME TrajectoryInv, DiskTypes', Grows, checkpoint' = checkpoint, analysis' = analysis,
         co # "idle" \/ checkpoint # None \/ co' = "idle",
         co' = "captures" => co = "captures",
         co' = "conclude" => co = "conclude" /\ Captured' = Captured
  PROVE  RecordsOK'
  <1> DEFINE U == Captured \cup damaged
  <1>1. /\ Cardinality(U) <= Cardinality(U') /\ Cardinality(U) \in Nat /\ Cardinality(U') \in Nat
        /\ U = Blocks => U' = Blocks
    BY GrowsCounts
  <1>2. checkpoint # None \/ co' # "idle" =>
          /\ checkpoint \in Checkpoint /\ checkpoint.completed <= Cardinality(U)
          /\ checkpoint.status = "COMPLETE" => U = Blocks
    BY DEF TrajectoryInv, RecordsOK
  <1>3. analysis # None \/ co' \in {"captures", "conclude"} =>
          analysis \in Analysis /\ analysis.read \in {{}, Discovery} /\ U = Blocks
    BY DEF TrajectoryInv, RecordsOK
  <1>4. co' = "conclude" => Discovery \subseteq Captured'
    BY DEF TrajectoryInv, RecordsOK
  <1>5. checkpoint \in Checkpoint => checkpoint.completed \in Nat
    BY TrajectoryAssumption DEF Checkpoint
  <1> DEFINE V == (Captured \cup damaged)'
  <1>6. Cardinality(U) <= Cardinality(V) /\ Cardinality(V) \in Nat /\ (U = Blocks => V = Blocks)
    BY <1>1
  <1> HIDE DEF U
  <1>7. checkpoint # None \/ co' # "idle" =>
          /\ checkpoint \in Checkpoint /\ checkpoint.completed <= Cardinality(V)
          /\ checkpoint.status = "COMPLETE" => V = Blocks
    BY <1>1, <1>2, <1>5, <1>6
  <1>8. analysis # None \/ co' \in {"captures", "conclude"} =>
          analysis \in Analysis /\ analysis.read \in {{}, Discovery} /\ V = Blocks
    BY <1>3, <1>6
  <1> QED BY <1>4, <1>7, <1>8 DEF RecordsOK

(* A command that ends leaves the captures as they are. *)
LEMMA FinishKeeps ==
  ASSUME TrajectoryInv, NEW how \in Exits, Finish(how), temporary' \in [Blocks -> {"none", "part", "whole"}],
         UNCHANGED <<checkpoint, binary, metadata, invalid, analysis, damaged>>
  PROVE  TrajectoryInv'
  <1>1. AtRest'
    BY DEF Finish, AtRest
  <1>2. (AtRest => MemoryTypes /\ ClaimsOK /\ QueueOK /\ EndOK /\ PlaceOK /\ CapturesOK /\ WritingOK)'
    BY RestHolds, PTL
  <1>3. DiskTypes'
    BY DEF TrajectoryInv, DiskTypes
  <1>4. Grows /\ Captured' = Captured
    BY DEF Grows, Captured, CaptureIsComplete
  <1>5. RecordsOK'
    BY <1>1, <1>3, <1>4, RecordsStay DEF AtRest
  <1> QED BY <1>1, <1>2, <1>3, <1>5 DEF TrajectoryInv

(* The coordinator moves outside the pool; its memory stays. *)
LEMMA MemoryStays ==
  ASSUME TrajectoryInv, UNCHANGED memory, exit' \in Exits, co \notin Handling,
         co' \in {"load", "refresh", "analyze", "captures", "conclude"},
         co' = "load" => co = "idle"
  PROVE  /\ MemoryTypes' /\ ClaimsOK' /\ QueueOK' /\ EndOK' /\ PlaceOK' /\ WritingOK'
         /\ co' # "refresh" => CapturesOK'
  <1> USE DEF TrajectoryInv
  <1>1. /\ completed' = completed /\ pending' = pending /\ pool' = pool /\ wk' = wk
        /\ handled' = handled
    BY DEF memory
  <1>2. Active' = Active /\ Passed' = Passed /\ Task' = Task
    BY <1>1 DEF Active, Passed, Task
  <1>3. Finished' = Finished
    BY <1>1, <1>2 DEF Finished
  <1>4. MemoryTypes'
    BY <1>1 DEF MemoryTypes, Places, Exits
  <1>5. ClaimsOK'
    BY <1>1, <1>2 DEF ClaimsOK, Scans
  <1>6. QueueOK'
    BY <1>1, <1>2 DEF QueueOK
  <1>7. EndOK'
    BY <1>1, <1>2, <1>3 DEF EndOK
  <1>8. PlaceOK'
    BY <1>1 DEF PlaceOK, Pooled, Handling
  <1>9. WritingOK'
    BY DEF WritingOK, Handling
  <1>10. co' # "refresh" => CapturesOK'
    BY DEF CapturesOK, Pooled, Handling
  <1> QED BY <1>4, <1>5, <1>6, <1>7, <1>8, <1>9, <1>10

-----------------------------------------------------------------------------
(* The commands. *)

(* create_campaign saves a checkpoint that counts nothing. *)
LEMMA NewKeeps ==
  ASSUME TrajectoryInv, New
  PROVE  TrajectoryInv'
  <1>1. /\ co = "idle" /\ co' = "load" /\ exit' = "none" /\ UNCHANGED memory
        /\ checkpoint' = [status |-> "PLANNED", completed |-> 0]
        /\ UNCHANGED <<binary, temporary, metadata, invalid, analysis, damaged>>
    BY DEF New, Start
  <1>2. MemoryTypes' /\ ClaimsOK' /\ QueueOK' /\ EndOK' /\ PlaceOK' /\ WritingOK' /\ CapturesOK'
    BY <1>1, MemoryStays DEF Handling, Exits
  <1>3. DiskTypes' /\ Grows
    BY <1>1 DEF TrajectoryInv, DiskTypes, Grows, Captured, CaptureIsComplete
  <1>4. Captured' = Captured /\ damaged' = damaged /\ analysis' = analysis
    BY <1>1 DEF Captured, CaptureIsComplete
  <1>5. Cardinality((Captured \cup damaged)') \in Nat
    BY <1>3, GrowsCounts
  <1>6. /\ checkpoint' \in Checkpoint /\ checkpoint'.completed = 0 /\ checkpoint'.status = "PLANNED"
    BY <1>1, TrajectoryAssumption DEF Checkpoint
  <1>7. checkpoint'.completed <= Cardinality((Captured \cup damaged)')
    BY <1>5, <1>6
  <1>8. RecordsOK'
    BY <1>1, <1>4, <1>6, <1>7 DEF TrajectoryInv, RecordsOK
  <1> QED BY <1>2, <1>3, <1>8 DEF TrajectoryInv

(* trajectory-resume and trajectory-analyze start with the files as they are. *)
LEMMA StartKeeps ==
  ASSUME TrajectoryInv, Resume \/ Analyze
  PROVE  TrajectoryInv'
  <1>1. /\ co = "idle" /\ co' \in {"load", "analyze"} /\ exit' = "none" /\ UNCHANGED memory
        /\ checkpoint # None
        /\ UNCHANGED <<checkpoint, binary, temporary, metadata, invalid, analysis, damaged>>
    BY DEF Resume, Analyze, Start, disk
  <1>2. MemoryTypes' /\ ClaimsOK' /\ QueueOK' /\ EndOK' /\ PlaceOK' /\ WritingOK' /\ CapturesOK'
    BY <1>1, MemoryStays DEF Handling, Exits
  <1>3. DiskTypes' /\ Grows
    BY <1>1 DEF TrajectoryInv, DiskTypes, Grows, Captured, CaptureIsComplete
  <1>4. RecordsOK'
    BY <1>1, <1>3, RecordsStay
  <1> QED BY <1>2, <1>3, <1>4 DEF TrajectoryInv

(* Every block is captured or a task of this command, once. *)
LEMMA LoadKeeps ==
  ASSUME TrajectoryInv, Load
  PROVE  TrajectoryInv'
  <1> USE DEF TrajectoryInv
  <1> DEFINE S == {b \in Blocks : ~CaptureIsComplete(b)}
             s == InManifestOrder(S)
  <1>1. /\ co = "load" /\ pool = NoPool /\ handled = {} /\ \A i \in Workers : wk[i] = NoThread
    BY DEF Load, PlaceOK
  <1>2. /\ completed' = Cardinality(Captured) /\ pending' = s
        /\ co' = IF \A b \in Blocks : CaptureIsComplete(b) THEN "refresh" ELSE "spawn"
        /\ UNCHANGED <<pool, wk, handled, exit>>
        /\ UNCHANGED <<checkpoint, binary, temporary, metadata, invalid, analysis, damaged>>
    BY DEF Load, disk, Captured
  <1>3. S = Blocks \ Captured /\ Captured \subseteq Blocks /\ (S = {} <=> co' = "refresh")
        /\ co' \in {"refresh", "spawn"}
    BY <1>2 DEF Captured
  <1>4. Captured' = Captured
    BY <1>2 DEF Captured, CaptureIsComplete
  <1>5. IsFiniteSet(Blocks) /\ Cardinality(Blocks) = NBlocks /\ Blocks \subseteq Nat /\ NBlocks \in Nat
    BY BlocksAreFinite
  <1>6. IsFiniteSet(S) /\ Cardinality(Captured) \in 0..NBlocks
    <2>1. IsFiniteSet(S) /\ IsFiniteSet(Captured) /\ Cardinality(Captured) <= NBlocks
      BY <1>3, <1>5, FS_Subset
    <2> QED BY <1>5, <2>1, FS_CardinalityType
  <1>7. s \in Seq(S) /\ IsInjective(s) /\ Range(s) = S /\ (S # {} => Len(s) > 0)
    BY <1>5, <1>6, OrderIsExact
  <1> HIDE DEF S, s
  <1>8. s \in Seq(Blocks)
    BY <1>3, <1>7, SeqMonotonic
  <1>9. MemoryTypes'
    BY <1>1, <1>2, <1>3, <1>6, <1>8 DEF MemoryTypes, Places, Pooled
  <1>10. ClaimsOK' /\ QueueOK' /\ EndOK'
    <2>1. Fresh'
      BY <1>1, <1>2, <1>3, <1>8 DEF Fresh, NoThread
    <2>2. (Fresh => ClaimsOK /\ QueueOK /\ EndOK)'
      BY FreshHolds, PTL
    <2> QED BY <2>1, <2>2
  <1>11. PlaceOK'
    BY <1>1, <1>2, <1>3, <1>7 DEF PlaceOK, Pooled, Handling
  <1>12. CapturesOK'
    <2>1. \A t \in 1..Len(s) : s[t] \in S
      BY <1>8, <1>7
    <2> QED BY <1>1, <1>2, <1>3, <1>4, <1>7, <2>1 DEF CapturesOK, Pooled, Handling
  <1>13. WritingOK'
    BY <1>3 DEF WritingOK, Handling
  <1>14. DiskTypes' /\ Grows
    BY <1>2 DEF DiskTypes, Grows, Captured, CaptureIsComplete
  <1>15. RecordsOK'
    BY <1>1, <1>2, <1>3, <1>14, RecordsStay
  <1> QED BY <1>9, <1>10, <1>11, <1>12, <1>13, <1>14, <1>15

(* The threads start with everything to claim. *)
LEMMA SpawnKeeps ==
  ASSUME TrajectoryInv, Spawn
  PROVE  TrajectoryInv'
  <1> USE DEF TrajectoryInv
  <1>1. /\ co = "spawn" /\ co' = "wait" /\ pool = NoPool /\ handled = {} /\ pending \in Seq(Blocks)
        /\ UNCHANGED <<completed, pending, pool, handled, exit>>
        /\ UNCHANGED <<checkpoint, binary, temporary, metadata, invalid, analysis, damaged>>
        /\ wk' = [i \in Workers |-> IF i \in Active THEN [pc |-> "claim", task |-> 0] ELSE NoThread]
    BY DEF Spawn, PlaceOK, MemoryTypes, disk, Workers
  <1>2. /\ wk' \in [Workers -> Thread]
        /\ \A i \in Workers : wk'[i].pc \in {"none", "claim"} /\ (i \notin Active => wk'[i].pc = "none")
    BY <1>1 DEF Thread, NoThread, WorkerPcs
  <1>3. Active' = Active /\ Captured' = Captured
    BY <1>1 DEF Active, Captured, CaptureIsComplete
  <1>4. MemoryTypes'
    BY <1>1, <1>2 DEF MemoryTypes, Places, Pooled
  <1>5. ClaimsOK' /\ QueueOK' /\ EndOK'
    <2>1. Fresh'
      BY <1>1, <1>2, <1>3 DEF Fresh
    <2>2. (Fresh => ClaimsOK /\ QueueOK /\ EndOK)'
      BY FreshHolds, PTL
    <2> QED BY <2>1, <2>2
  <1>6. pool.ready = <<>>
    BY <1>1, NewPoolIs DEF PoolIs
  <1>7. PlaceOK'
    BY <1>1, <1>6 DEF PlaceOK, Pooled, Handling
  <1>8. CapturesOK'
    BY <1>1, <1>3 DEF CapturesOK, Pooled, Handling
  <1>9. WritingOK'
    BY <1>1 DEF WritingOK, Handling
  <1>10. DiskTypes' /\ Grows
    BY <1>1 DEF DiskTypes, Grows, Captured, CaptureIsComplete
  <1>11. RecordsOK'
    BY <1>1, <1>10, RecordsStay
  <1> QED BY <1>4, <1>5, <1>7, <1>8, <1>9, <1>10, <1>11

(* A command that cannot start its scanners, or is killed, leaves what it found. *)
LEMMA StopKeeps ==
  ASSUME TrajectoryInv, SpawnFails \/ Kill
  PROVE  TrajectoryInv'
  <1>1. CASE SpawnFails
    <2>1. /\ Finish("failed") /\ "failed" \in Exits
          /\ UNCHANGED <<checkpoint, binary, temporary, metadata, invalid, analysis, damaged>>
      BY <1>1 DEF SpawnFails, disk, Exits
    <2>2. temporary' \in [Blocks -> {"none", "part", "whole"}]
      BY <2>1 DEF TrajectoryInv, DiskTypes
    <2> QED BY <2>1, <2>2, FinishKeeps
  <1>2. CASE Kill
    <2>1. /\ Finish("killed") /\ "killed" \in Exits
          /\ UNCHANGED <<checkpoint, binary, metadata, invalid, analysis, damaged>>
      BY <1>2 DEF Kill, Exits
    <2>2. temporary' \in [Blocks -> {"none", "part", "whole"}]
      BY <1>2 DEF Kill, TrajectoryInv, DiskTypes
    <2> QED BY <2>1, <2>2, FinishKeeps
  <1> QED BY <1>1, <1>2

-----------------------------------------------------------------------------
(* The coordinator in the pool. *)

(* It moves, the threads and their lists do not. *)
LEMMA PoolStays ==
  ASSUME TrajectoryInv, UNCHANGED <<pending, pool, wk, handled, exit>>, completed' \in 0..NBlocks,
         (co \in Handling /\ co' \in Handling) \/ (co = "wait" /\ co' = "asleep")
  PROVE  MemoryTypes' /\ ClaimsOK' /\ QueueOK' /\ EndOK' /\ PlaceOK'
  <1> USE DEF TrajectoryInv
  <1>1. Active' = Active /\ Passed' = Passed /\ Task' = Task
    BY DEF Active, Passed, Task
  <1>2. Finished' = Finished
    BY <1>1 DEF Finished
  <1>3. MemoryTypes'
    BY DEF MemoryTypes, Places, Pooled
  <1>4. ClaimsOK'
    BY <1>1 DEF ClaimsOK, Scans
  <1>5. QueueOK'
    BY <1>1 DEF QueueOK, Handling
  <1>6. EndOK'
    BY <1>1, <1>2 DEF EndOK, Handling
  <1>7. PlaceOK'
    BY <1>1 DEF PlaceOK, Pooled, Handling
  <1> QED BY <1>3, <1>4, <1>5, <1>6, <1>7

(* The files do not change while the coordinator is not writing. *)
LEMMA FilesStay ==
  ASSUME TrajectoryInv, UNCHANGED disk, co \in Pooled, co' \in Pooled
  PROVE  DiskTypes' /\ RecordsOK' /\ Captured' = Captured
  <1>1. UNCHANGED <<checkpoint, binary, temporary, metadata, invalid, analysis, damaged>>
    BY DEF disk
  <1>2. DiskTypes' /\ Grows /\ Captured' = Captured
    BY <1>1 DEF TrajectoryInv, DiskTypes, Grows, Captured, CaptureIsComplete
  <1>3. RecordsOK'
    BY <1>1, <1>2, RecordsStay DEF Pooled, Handling
  <1> QED BY <1>2, <1>3

(* The predicate of the condition variable: sleep, or take the whole queue. *)
LEMMA WaitKeeps ==
  ASSUME TrajectoryInv, Wait
  PROVE  TrajectoryInv'
  <1> USE DEF TrajectoryInv
  <1>1. /\ co = "wait" /\ co' \in {"asleep", "handle"} /\ pool \in Pool /\ pending \in Seq(Blocks)
        /\ UNCHANGED disk /\ UNCHANGED <<completed, pending, wk, handled, exit>>
        /\ pool.ready = <<>> /\ wk \in [Workers -> Thread]
    BY DEF Wait, MemoryTypes, PlaceOK
  <1>2. DiskTypes' /\ RecordsOK' /\ Captured' = Captured
    BY <1>1, FilesStay DEF Pooled
  <1>3. WritingOK'
    BY <1>1 DEF WritingOK, Handling
  <1>4. CASE pool.queue = <<>> /\ ~AllFinished
    <2>1. co' = "asleep" /\ pool' = pool
      BY <1>4 DEF Wait
    <2>2. MemoryTypes' /\ ClaimsOK' /\ QueueOK' /\ EndOK' /\ PlaceOK'
      BY <1>1, <2>1, PoolStays DEF MemoryTypes
    <2>3. CapturesOK'
      BY <1>1, <1>2, <2>1 DEF CapturesOK, Pooled, Handling
    <2> QED BY <1>2, <1>3, <2>2, <2>3
  <1>5. CASE ~(pool.queue = <<>> /\ ~AllFinished)
    <2> DEFINE q == pool.queue
               e == <<>>
               a == AllFinished
               p == [pool EXCEPT !.ready = q]
               r == [p EXCEPT !.queue = e]
    <2>1. co' = "handle" /\ pool' = [r EXCEPT !.all = a]
      BY <1>5 DEF Wait
    <2>2. q \in Seq(Nat) /\ e \in Seq(Nat)
      BY <1>1, NoTasks DEF Pool
    <2>3. a \in BOOLEAN
      BY DEF AllFinished
    <2>4. PoolIs(p, pool.next, pool.stop, pool.queue, pool.finished, q, pool.all, pool.refused, pool.threw)
      <3> HIDE DEF q
      <3> QED BY <1>1, <2>2, PoolSetReady
    <2> HIDE DEF p, e, a
    <2>5. PoolIs(r, p.next, p.stop, e, p.finished, p.ready, p.all, p.refused, p.threw)
      BY <2>2, <2>4, PoolSetQueue DEF PoolIs
    <2> HIDE DEF r
    <2>6. PoolIs(pool', r.next, r.stop, r.queue, r.finished, r.ready, a, r.refused, r.threw)
      BY <2>1, <2>3, <2>5, PoolSetAll DEF PoolIs
    <2>7. PoolIs(pool', pool.next, pool.stop, <<>>, pool.finished, q, a, pool.refused, pool.threw)
      BY <2>4, <2>5, <2>6 DEF PoolIs, e
    <2> HIDE DEF q
    <2>8. /\ pool' \in Pool /\ pool'.next = pool.next /\ pool'.stop = pool.stop /\ pool'.queue = <<>>
          /\ pool'.finished = pool.finished /\ pool'.ready = q /\ pool'.all = a
          /\ pool'.refused = pool.refused /\ pool'.threw = pool.threw
      BY <2>7 DEF PoolIs
    <2>9. Passed' = Passed /\ Active' = Active
      BY <1>1, <2>8, NoTasks DEF Passed, Active, q
    <2>10. Finished' = Finished
      BY <1>1, <2>9 DEF Finished
    <2>11. MemoryTypes'
      BY <1>1, <2>1, <2>8 DEF MemoryTypes, Places, Pooled
    <2>12. ClaimsOK'
      BY <1>1, <2>8, <2>9 DEF ClaimsOK, Scans
    <2>13. QueueOK'
      <3>1. IsInjective(q) /\ (~pool.refused => Range(q) \cap handled = {})
        BY DEF QueueOK, q
      <3> QED BY <1>1, <2>8, <3>1, NoTasks DEF QueueOK
    <2>14. EndOK'
      <3>1. a => Finished = Active
        <4>1. Finished \subseteq Active /\ IsFiniteSet(Active)
          BY <1>1, ActiveAreWorkers DEF Finished
        <4>2. a => Cardinality(Active) = Cardinality(Finished)
          BY DEF a, AllFinished, EndOK
        <4> QED BY <4>1, <4>2, FS_Subset
      <3>2. a => \A i \in Active : wk[i].pc \in {"bye", "gone"}
        BY <3>1 DEF Finished
      <3> QED BY <1>1, <2>1, <2>8, <2>9, <2>10, <3>2 DEF EndOK
    <2>15. PlaceOK'
      BY <1>1, <2>1 DEF PlaceOK, Pooled, Handling
    <2>16. CapturesOK'
      BY <1>1, <1>2, <2>1, <2>8 DEF CapturesOK, Pooled, Handling
    <2> QED BY <1>2, <1>3, <2>11, <2>12, <2>13, <2>14, <2>15, <2>16
  <1> QED BY <1>4, <1>5

(* The ready list is empty, or dropped after an exception. *)
LEMMA DrainedKeeps ==
  ASSUME TrajectoryInv, Drained
  PROVE  TrajectoryInv'
  <1> USE DEF TrajectoryInv
  <1> DEFINE e == <<>>
  <1>1. /\ co = "handle" /\ pool \in Pool /\ pending \in Seq(Blocks)
        /\ co' = IF pool.all /\ pool.queue = <<>> THEN "join" ELSE "wait"
        /\ UNCHANGED disk /\ UNCHANGED <<completed, pending, wk, handled, exit>>
        /\ wk \in [Workers -> Thread]
        /\ pool.refused \/ pool.ready = <<>>
        /\ pool' = [pool EXCEPT !.ready = e] /\ e \in Seq(Nat)
    BY NoTasks DEF Drained, MemoryTypes
  <1> HIDE DEF e
  <1>2. PoolIs(pool', pool.next, pool.stop, pool.queue, pool.finished, e, pool.all, pool.refused, pool.threw)
    BY <1>1, PoolSetReady, Zenon
  <1>3. /\ pool' \in Pool /\ pool'.next = pool.next /\ pool'.stop = pool.stop /\ pool'.queue = pool.queue
        /\ pool'.finished = pool.finished /\ pool'.ready = <<>> /\ pool'.all = pool.all
        /\ pool'.refused = pool.refused /\ pool'.threw = pool.threw
    BY <1>2 DEF PoolIs, e
  <1>4. co' \in {"join", "wait"} /\ (co' = "join" => pool.all)
    BY <1>1
  <1>5. DiskTypes' /\ RecordsOK' /\ Captured' = Captured
    BY <1>1, <1>4, FilesStay DEF Pooled
  <1>6. Active' = Active /\ Passed' \subseteq Passed /\ (~pool.refused => Passed' = Passed)
    BY <1>1, <1>3, NoTasks DEF Passed, Active
  <1>7. Finished' = Finished
    BY <1>1, <1>6 DEF Finished
  <1>8. MemoryTypes'
    BY <1>1, <1>3, <1>4 DEF MemoryTypes, Places, Pooled
  <1>9. ClaimsOK'
    BY <1>1, <1>3, <1>6 DEF ClaimsOK, Scans
  <1>10. QueueOK'
    BY <1>1, <1>3, NoTasks DEF QueueOK
  <1>11. EndOK'
    BY <1>1, <1>3, <1>4, <1>6, <1>7 DEF EndOK
  <1>12. PlaceOK'
    BY <1>1, <1>3, <1>4 DEF PlaceOK, Pooled, Handling
  <1>13. CapturesOK'
    BY <1>1, <1>3, <1>4, <1>5 DEF CapturesOK, Pooled, Handling
  <1>14. WritingOK'
    BY <1>4 DEF WritingOK, Handling
  <1> QED BY <1>5, <1>8, <1>9, <1>10, <1>11, <1>12, <1>13, <1>14

(* The first ready task is one of the command's, and nobody has handled it. *)
LEMMA TaskIsNew ==
  ASSUME TrajectoryInv, co = "handle", pool.ready # <<>>, ~pool.refused
  PROVE  /\ Task \in 1..Len(pending) /\ Task \in Range(pool.ready) /\ Len(pool.ready) > 0
         /\ Task \notin Range(pool.queue) /\ Task \notin handled /\ Range(pool.ready) \cap handled = {}
  <1> USE DEF TrajectoryInv
  <1>1. pool.ready \in Seq(Nat) /\ IsInjective(pool.ready) /\ Len(pending) \in Nat /\ pool.next \in Nat
    BY DEF MemoryTypes, Pool, QueueOK
  <1>2. Len(pool.ready) > 0
    BY <1>1, NoTasks
  <1>3. Task \in Range(pool.ready)
    BY <1>1, <1>2, TaskTaken DEF Task
  <1>4. Task \in 1..pool.next - 1 /\ pool.next \in 1..Len(pending) + 1
    BY <1>3 DEF ClaimsOK, Passed
  <1>5. Task \in 1..Len(pending)
    BY <1>1, <1>4
  <1>6. Range(pool.ready) \cap handled = {}
    BY DEF QueueOK, Handling
  <1> QED BY <1>2, <1>3, <1>5, <1>6 DEF QueueOK

(* The handler verifies a result; its block has no capture yet. *)
LEMMA VerifyKeeps ==
  ASSUME TrajectoryInv, Verify
  PROVE  TrajectoryInv'
  <1> USE DEF TrajectoryInv
  <1>1. /\ co = "handle" /\ co' = "quarantine" /\ pool.ready # <<>> /\ ~pool.refused
        /\ handled' = handled \cup {Task}
        /\ UNCHANGED disk /\ UNCHANGED <<completed, pending, pool, wk, exit>>
    BY DEF Verify
  <1>2. /\ Task \in 1..Len(pending) /\ Task \in Range(pool.ready) /\ Len(pool.ready) > 0
        /\ Task \notin Range(pool.queue) /\ Task \notin handled /\ Range(pool.ready) \cap handled = {}
    BY <1>1, TaskIsNew
  <1>3. DiskTypes' /\ RecordsOK' /\ Captured' = Captured
    BY <1>1, FilesStay DEF Pooled, Handling
  <1>4. Active' = Active /\ Passed' = Passed /\ Task' = Task /\ Block' = Block
    BY <1>1, <1>2 DEF Active, Passed, Task, Block
  <1>5. Finished' = Finished
    BY <1>1, <1>4 DEF Finished
  <1>6. MemoryTypes'
    BY <1>1, <1>2 DEF MemoryTypes, Places, Pooled, Handling
  <1>7. ClaimsOK'
    BY <1>1, <1>4 DEF ClaimsOK, Scans
  <1>8. QueueOK'
    BY <1>1, <1>2, <1>4 DEF QueueOK, Handling
  <1>9. EndOK'
    BY <1>1, <1>4, <1>5 DEF EndOK
  <1>10. PlaceOK'
    BY <1>1, <1>2, <1>4 DEF PlaceOK, Pooled, Handling
  <1>11. CapturesOK'
    BY <1>1, <1>3, <1>4 DEF CapturesOK, Pooled, Handling
  <1>12. Block \notin Captured
    BY <1>1, <1>2 DEF CapturesOK, Pooled, Block
  <1>13. WritingOK'
    BY <1>1, <1>3, <1>4, <1>12 DEF WritingOK
  <1> QED BY <1>3, <1>6, <1>7, <1>8, <1>9, <1>10, <1>11, <1>13

(* A result that is refused ends the accounts of this pool. *)
LEMMA RefuseKeeps ==
  ASSUME TrajectoryInv, Refuse
  PROVE  TrajectoryInv'
  <1> USE DEF TrajectoryInv
  <1> DEFINE yes == TRUE
             p == [pool EXCEPT !.refused = yes]
  <1>1. /\ co = "handle" /\ co' = co /\ pool.ready # <<>> /\ ~pool.refused /\ pool \in Pool
        /\ handled' = handled \cup {Task}
        /\ UNCHANGED disk /\ UNCHANGED <<completed, pending, wk, exit>>
        /\ pool' = [p EXCEPT !.stop = yes] /\ yes \in BOOLEAN /\ yes
    BY DEF Refuse, MemoryTypes
  <1> HIDE DEF yes
  <1>2. PoolIs(p, pool.next, pool.stop, pool.queue, pool.finished, pool.ready, pool.all, yes, pool.threw)
    BY <1>1, PoolSetRefused
  <1> HIDE DEF p
  <1>3. PoolIs(pool', p.next, yes, p.queue, p.finished, p.ready, p.all, p.refused, p.threw)
    BY <1>1, <1>2, PoolSetStop DEF PoolIs
  <1>4. /\ pool' \in Pool /\ pool'.next = pool.next /\ pool'.queue = pool.queue
        /\ pool'.finished = pool.finished /\ pool'.ready = pool.ready /\ pool'.all = pool.all
        /\ pool'.refused /\ pool'.threw = pool.threw
    BY <1>1, <1>2, <1>3 DEF PoolIs
  <1>5. Task \in 1..Len(pending) /\ Task \in Range(pool.ready)
    BY <1>1, TaskIsNew
  <1>6. DiskTypes' /\ RecordsOK' /\ Captured' = Captured
    BY <1>1, FilesStay DEF Pooled, Handling
  <1>7. Active' = Active /\ Passed' = Passed
    BY <1>1, <1>4, <1>5 DEF Active, Passed
  <1>8. Finished' = Finished
    BY <1>1, <1>7 DEF Finished
  <1>9. MemoryTypes'
    BY <1>1, <1>4, <1>5 DEF MemoryTypes
  <1>10. ClaimsOK'
    BY <1>1, <1>4, <1>7 DEF ClaimsOK, Scans
  <1>11. QueueOK'
    BY <1>4 DEF QueueOK
  <1>12. EndOK'
    BY <1>1, <1>4, <1>7, <1>8 DEF EndOK
  <1>13. PlaceOK'
    BY <1>1, <1>4 DEF PlaceOK, Pooled, Handling
  <1>14. CapturesOK'
    BY <1>1, <1>4, <1>6 DEF CapturesOK, Pooled, Handling
  <1>15. WritingOK'
    BY <1>1 DEF WritingOK, Handling
  <1> QED BY <1>6, <1>9, <1>10, <1>11, <1>12, <1>13, <1>14, <1>15

-----------------------------------------------------------------------------
(* The files of one capture. *)

(* The block that is handled is one of the manifest. *)
LEMMA BlockIsKnown ==
  ASSUME TrajectoryInv, co \in Handling
  PROVE  Task \in 1..Len(pending) /\ Block \in Blocks /\ Task \in handled
  <1>1. Task \in handled
    BY DEF TrajectoryInv, PlaceOK
  <1>2. pending \in Seq(Blocks) /\ handled \subseteq 1..Len(pending)
    BY DEF TrajectoryInv, MemoryTypes
  <1>3. Task \in 1..Len(pending)
    BY <1>1, <1>2
  <1>4. Block \in Blocks
    BY <1>2, <1>3, ElementOfSeq DEF Block
  <1> QED BY <1>1, <1>3, <1>4

(* A step on the files of an incomplete capture that leaves it incomplete. *)
LEMMA WritingKeeps ==
  ASSUME TrajectoryInv, co \in Handling \ {"checkpoint"}, co' \in Handling \ {"checkpoint"}, DiskTypes',
         Captured' = Captured, UNCHANGED <<checkpoint, analysis, damaged>>,
         UNCHANGED <<completed, pending, pool, wk, handled, exit>>, WritingOK'
  PROVE  TrajectoryInv'
  <1>1. MemoryTypes' /\ ClaimsOK' /\ QueueOK' /\ EndOK' /\ PlaceOK'
    BY PoolStays DEF TrajectoryInv, MemoryTypes
  <1>2. Task' = Task
    BY DEF Task
  <1>3. CapturesOK'
    BY <1>2 DEF TrajectoryInv, CapturesOK, Pooled, Handling
  <1>4. Grows
    BY DEF Grows
  <1>5. RecordsOK'
    BY <1>4, RecordsStay DEF Handling
  <1> QED BY <1>1, <1>3, <1>5 DEF TrajectoryInv

(* quarantine_if_present sets files of an incomplete capture aside. *)
LEMMA QuarantineKeeps ==
  ASSUME TrajectoryInv, Quarantine
  PROVE  TrajectoryInv'
  <1> DEFINE b == Block
  <1>1. /\ co = "quarantine" /\ UNCHANGED <<checkpoint, analysis, damaged>>
        /\ UNCHANGED <<completed, pending, pool, wk, handled, exit>>
    BY DEF Quarantine
  <1>2. b \in Blocks /\ b \notin Captured /\ Block' = b
    BY <1>1, BlockIsKnown DEF TrajectoryInv, WritingOK, Handling, Block, Task
  <1>3. \/ /\ binary' = [binary EXCEPT ![b] = "none"] /\ invalid' = invalid + 1
           /\ UNCHANGED <<metadata, temporary, co>>
        \/ /\ metadata' = [metadata EXCEPT ![b] = "none"] /\ invalid' = invalid + 1
           /\ UNCHANGED <<binary, temporary, co>>
        \/ /\ temporary' = [temporary EXCEPT ![b] = "none"] /\ invalid' \in {invalid, invalid + 1}
           /\ metadata[b] = "none" /\ co' = "write" /\ UNCHANGED <<binary, metadata>>
    BY DEF Quarantine
  <1> HIDE DEF b
  <1>4. DiskTypes'
    BY <1>1, <1>2, <1>3 DEF TrajectoryInv, DiskTypes
  <1>5. Captured' = Captured
    BY <1>2, <1>3 DEF TrajectoryInv, DiskTypes, Captured, CaptureIsComplete
  <1>6. co' \in Handling \ {"checkpoint"}
    BY <1>1, <1>3 DEF Handling
  <1>7. WritingOK'
    BY <1>1, <1>2, <1>3, <1>5 DEF WritingOK
  <1> QED BY <1>1, <1>4, <1>5, <1>6, <1>7, WritingKeeps DEF Handling

(* The temporary, then its rename: the capture has no metadata yet. *)
LEMMA WriteKeeps ==
  ASSUME TrajectoryInv, WriteTemporary
  PROVE  TrajectoryInv'
  <1> DEFINE b == Block
  <1>1. /\ co = "write" /\ co' = "rename"
        /\ UNCHANGED <<checkpoint, binary, metadata, invalid, analysis, damaged>>
        /\ UNCHANGED <<completed, pending, pool, wk, handled, exit>>
        /\ temporary' = [temporary EXCEPT ![b] = "whole"]
    BY DEF WriteTemporary
  <1>2. b \in Blocks /\ b \notin Captured /\ metadata[b] = "none" /\ Block' = b
    BY <1>1, BlockIsKnown DEF TrajectoryInv, WritingOK, Handling, Block, Task
  <1> HIDE DEF b
  <1>3. DiskTypes' /\ temporary'[b] = "whole"
    BY <1>1, <1>2 DEF TrajectoryInv, DiskTypes
  <1>4. Captured' = Captured
    BY <1>1 DEF Captured, CaptureIsComplete
  <1>5. WritingOK'
    BY <1>1, <1>2, <1>3, <1>4 DEF WritingOK
  <1> QED BY <1>1, <1>3, <1>4, <1>5, WritingKeeps DEF Handling

(* The rename replaces nothing: the old capture was set aside. *)
LEMMA RenameKeeps ==
  ASSUME TrajectoryInv, Rename
  PROVE  TrajectoryInv'
  <1> DEFINE b == Block
  <1>1. /\ co = "rename" /\ co' = "metadata" /\ UNCHANGED <<checkpoint, metadata, invalid, analysis, damaged>>
        /\ UNCHANGED <<completed, pending, pool, wk, handled, exit>>
        /\ binary' = [binary EXCEPT ![b] = temporary[b]]
        /\ temporary' = [temporary EXCEPT ![b] = "none"]
    BY DEF Rename
  <1>2. b \in Blocks /\ b \notin Captured /\ metadata[b] = "none" /\ temporary[b] = "whole" /\ Block' = b
    BY <1>1, BlockIsKnown DEF TrajectoryInv, WritingOK, Handling, Block, Task
  <1> HIDE DEF b
  <1>3. DiskTypes' /\ binary'[b] = "whole"
    BY <1>1, <1>2 DEF TrajectoryInv, DiskTypes
  <1>4. Captured' = Captured
    BY <1>1, <1>2 DEF TrajectoryInv, DiskTypes, Captured, CaptureIsComplete
  <1>5. WritingOK'
    BY <1>1, <1>2, <1>3, <1>4 DEF WritingOK
  <1> QED BY <1>1, <1>3, <1>4, <1>5, WritingKeeps DEF Handling

(* The metadata completes the capture, and only this one. *)
LEMMA MetadataCompletes ==
  ASSUME TrajectoryInv, SaveMetadata
  PROVE  /\ co = "metadata" /\ DiskTypes' /\ Captured' = Captured \cup {Block} /\ Block \notin Captured
         /\ Grows /\ completed' = Cardinality(Captured') /\ completed' \in 0..NBlocks
  <1> DEFINE b == Block
  <1>1. /\ co = "metadata" /\ UNCHANGED <<checkpoint, binary, temporary, invalid, analysis, damaged>>
        /\ metadata' = [metadata EXCEPT ![b] = "COMPLETE"] /\ completed' = completed + 1
    BY DEF SaveMetadata
  <1>2. b \in Blocks /\ b \notin Captured /\ binary[b] = "whole"
    BY <1>1, BlockIsKnown DEF TrajectoryInv, WritingOK, Handling
  <1> HIDE DEF b
  <1>3. DiskTypes'
    BY <1>1, <1>2 DEF TrajectoryInv, DiskTypes
  <1>4. Captured' = Captured \cup {b}
    BY <1>1, <1>2 DEF TrajectoryInv, DiskTypes, Captured, CaptureIsComplete
  <1>5. Grows
    BY <1>1, <1>4 DEF Grows
  <1>6. Captured \subseteq Blocks /\ Captured' \subseteq Blocks
    BY DEF Captured
  <1>7. IsFiniteSet(Captured) /\ IsFiniteSet(Captured') /\ Cardinality(Captured') <= NBlocks
    BY <1>6, BlocksAreFinite, FS_Subset
  <1>8. Cardinality(Captured') = Cardinality(Captured) + 1
    BY <1>2, <1>4, <1>7, FS_AddElement
  <1>9. completed = Cardinality(Captured)
    BY <1>1 DEF TrajectoryInv, CapturesOK, Pooled, Handling
  <1>10. Cardinality(Captured') \in 0..NBlocks
    BY <1>7, BlocksAreFinite, FS_CardinalityType
  <1> QED BY <1>1, <1>2, <1>3, <1>4, <1>5, <1>8, <1>9, <1>10 DEF b

(* With the metadata the block is handled and captured. *)
LEMMA SaveMetadataKeeps ==
  ASSUME TrajectoryInv, SaveMetadata
  PROVE  TrajectoryInv'
  <1>1. /\ co = "metadata" /\ co' = "checkpoint" /\ UNCHANGED <<checkpoint, analysis, damaged>>
        /\ UNCHANGED <<pending, pool, wk, handled, exit>>
    BY DEF SaveMetadata
  <1>2. /\ DiskTypes' /\ Captured' = Captured \cup {Block} /\ Block \notin Captured
        /\ Grows /\ completed' = Cardinality(Captured') /\ completed' \in 0..NBlocks
    BY MetadataCompletes
  <1>3. MemoryTypes' /\ ClaimsOK' /\ QueueOK' /\ EndOK' /\ PlaceOK'
    BY <1>1, <1>2, PoolStays DEF Handling
  <1>4. RecordsOK'
    BY <1>1, <1>2, RecordsStay
  <1>5. WritingOK'
    BY <1>1 DEF WritingOK, Handling
  <1>6. CapturesOK'
    <2>1. /\ IsInjective(pending) /\ Blocks \ Range(pending) \subseteq Captured
          /\ \A t \in 1..Len(pending) : t \notin handled => pending[t] \notin Captured
          /\ ~pool.refused => \A t \in handled : pending[t] \in Captured \/ t = Task
      BY <1>1 DEF TrajectoryInv, CapturesOK, Pooled, Handling
    <2>2. Task \in 1..Len(pending) /\ Task \in handled /\ DOMAIN pending = 1..Len(pending)
      BY <1>1, BlockIsKnown DEF Handling, TrajectoryInv, MemoryTypes
    <2>3. \A t \in 1..Len(pending) : t \notin handled => pending[t] # Block
      BY <2>1, <2>2 DEF IsInjective, Block
    <2>4. \A t \in 1..Len(pending) : t \notin handled => pending[t] \notin Captured'
      BY <1>2, <2>1, <2>3
    <2>5. ~pool.refused => \A t \in handled : pending[t] \in Captured'
      BY <1>2, <2>1 DEF Block
    <2>6. Blocks \ Range(pending) \subseteq Captured'
      BY <1>2, <2>1
    <2> QED BY <1>1, <1>2, <2>1, <2>4, <2>5, <2>6 DEF CapturesOK
  <1> QED BY <1>2, <1>3, <1>4, <1>5, <1>6 DEF TrajectoryInv

(* The checkpoint counts what is captured; the task is done with. *)
LEMMA SaveCheckpointKeeps ==
  ASSUME TrajectoryInv, SaveCheckpoint
  PROVE  TrajectoryInv'
  <1> USE DEF TrajectoryInv
  <1> DEFINE r == Tail(pool.ready)
  <1>1. /\ co = "checkpoint" /\ co' = "handle" /\ pool \in Pool /\ pool' = [pool EXCEPT !.ready = r]
        /\ checkpoint' = [status |-> IF completed = NBlocks THEN "COMPLETE" ELSE "RUNNING",
                          completed |-> completed]
        /\ UNCHANGED <<binary, temporary, metadata, invalid, analysis, damaged>>
        /\ UNCHANGED <<completed, pending, wk, handled, exit>>
    BY DEF SaveCheckpoint, MemoryTypes
  <1>2. pool.ready \in Seq(Nat) /\ Len(pool.ready) > 0 /\ IsInjective(pool.ready) /\ Task \in handled
    BY <1>1 DEF Pool, PlaceOK, QueueOK, Handling
  <1>3. r \in Seq(Nat) /\ IsInjective(r) /\ Range(r) = Range(pool.ready) \ {Task}
    BY <1>2, TaskTaken DEF Task
  <1> HIDE DEF r
  <1>4. PoolIs(pool', pool.next, pool.stop, pool.queue, pool.finished, r, pool.all, pool.refused, pool.threw)
    BY <1>1, <1>3, PoolSetReady, Zenon
  <1>5. /\ pool' \in Pool /\ pool'.next = pool.next /\ pool'.stop = pool.stop /\ pool'.queue = pool.queue
        /\ pool'.finished = pool.finished /\ pool'.ready = r /\ pool'.all = pool.all
        /\ pool'.refused = pool.refused /\ pool'.threw = pool.threw
    BY <1>4 DEF PoolIs
  <1>6. DiskTypes' /\ Captured' = Captured /\ Grows
    BY <1>1 DEF DiskTypes, Captured, CaptureIsComplete, Grows
  <1>7. Active' = Active /\ Passed' = Passed
    BY <1>1, <1>2, <1>3, <1>5 DEF Active, Passed
  <1>8. Finished' = Finished
    BY <1>1, <1>7 DEF Finished
  <1>9. MemoryTypes'
    BY <1>1, <1>5 DEF MemoryTypes, Places, Pooled
  <1>10. ClaimsOK'
    BY <1>1, <1>5, <1>7 DEF ClaimsOK, Scans
  <1>11. QueueOK'
    BY <1>1, <1>3, <1>5 DEF QueueOK
  <1>12. EndOK'
    BY <1>1, <1>5, <1>7, <1>8 DEF EndOK
  <1>13. PlaceOK'
    BY <1>1 DEF PlaceOK, Pooled, Handling
  <1>14. CapturesOK'
    BY <1>1, <1>5, <1>6 DEF CapturesOK, Pooled, Handling
  <1>15. WritingOK'
    BY <1>1 DEF WritingOK, Handling
  <1>16. RecordsOK'
    <2>1. completed = Cardinality(Captured) /\ completed \in 0..NBlocks
      BY <1>1 DEF CapturesOK, Pooled, Handling, MemoryTypes
    <2>2. /\ checkpoint' \in Checkpoint /\ checkpoint'.completed = completed
          /\ checkpoint'.status = "COMPLETE" => completed = NBlocks
      BY <1>1, <2>1 DEF Checkpoint
    <2>3. /\ Captured \subseteq Captured \cup damaged /\ Captured \subseteq Blocks
          /\ Captured \cup damaged \subseteq Blocks
      BY DEF Captured, DiskTypes
    <2>4. IsFiniteSet(Captured \cup damaged)
      BY <2>3, BlocksAreFinite, FS_Subset
    <2>5. completed <= Cardinality(Captured \cup damaged)
      BY <2>1, <2>3, <2>4, FS_Subset
    <2>6. completed = NBlocks => Captured \cup damaged = Blocks
      BY <2>1, <2>3, BlocksAreFinite, FS_Subset
    <2>7. analysis # None =>
            analysis \in Analysis /\ analysis.read \in {{}, Discovery} /\ Captured \cup damaged = Blocks
      BY DEF RecordsOK
    <2>8. (Captured \cup damaged)' = Captured \cup damaged
      BY <1>1, <1>6
    <2> QED BY <1>1, <2>2, <2>5, <2>6, <2>7, <2>8 DEF RecordsOK
  <1> QED BY <1>6, <1>9, <1>10, <1>11, <1>12, <1>13, <1>14, <1>15, <1>16

-----------------------------------------------------------------------------
(* The end of a capture, and the analysis. *)

(* When the pool ends without an exception every task has been handled. *)
LEMMA PoolIsDone ==
  ASSUME TrajectoryInv, co = "join", ~pool.refused, ~pool.threw
  PROVE  handled = 1..Len(pending)
  <1> USE DEF TrajectoryInv
  <1>1. /\ pending \in Seq(Blocks) /\ Len(pending) \in Nat /\ Len(pending) > 0 /\ pool.ready = <<>>
        /\ pool.queue = <<>> /\ handled \subseteq 1..Len(pending)
        /\ \A i \in Active : wk[i].pc \in {"bye", "gone"}
    BY DEF MemoryTypes, PlaceOK, EndOK, Pooled
  <1>2. 1 \in Active /\ Active \subseteq Workers
    BY <1>1, ActiveAreWorkers
  <1>3. pool.next > Len(pending) /\ pool.next \in 1..Len(pending) + 1
    BY <1>1, <1>2 DEF EndOK, ClaimsOK
  <1>4. 1..pool.next - 1 = 1..Len(pending)
    BY <1>1, <1>3
  <1>5. \A i \in Workers : wk[i].pc # "scan"
    BY <1>1, <1>2 DEF EndOK
  <1>6. \A t \in 1..pool.next - 1 : t \in Passed
    BY <1>5 DEF ClaimsOK, Scans
  <1>7. Passed = handled
    BY <1>1, NoTasks DEF Passed
  <1> QED BY <1>1, <1>4, <1>6, <1>7

(* The threads are joined: everything is captured, or the command fails. *)
LEMMA JoinKeeps ==
  ASSUME TrajectoryInv, Join
  PROVE  TrajectoryInv'
  <1>1. co = "join" /\ UNCHANGED <<checkpoint, binary, temporary, metadata, invalid, analysis, damaged>>
    BY DEF Join, disk
  <1>2. DiskTypes' /\ Grows /\ Captured' = Captured
    BY <1>1 DEF TrajectoryInv, DiskTypes, Grows, Captured, CaptureIsComplete
  <1>3. CASE pool.refused \/ pool.threw
    <2>1. Finish("failed") /\ "failed" \in Exits
      BY <1>3 DEF Join, Exits
    <2>2. temporary' \in [Blocks -> {"none", "part", "whole"}]
      BY <1>2 DEF DiskTypes
    <2> QED BY <1>1, <2>1, <2>2, FinishKeeps
  <1>4. CASE ~(pool.refused \/ pool.threw)
    <2>1. co' = "refresh" /\ UNCHANGED memory /\ exit' = exit
      BY <1>4 DEF Join
    <2>2. exit \in Exits
      BY DEF TrajectoryInv, MemoryTypes, Exits
    <2>3. MemoryTypes' /\ ClaimsOK' /\ QueueOK' /\ EndOK' /\ PlaceOK' /\ WritingOK'
      BY <1>1, <2>1, <2>2, MemoryStays DEF Handling
    <2>4. handled = 1..Len(pending)
      BY <1>1, <1>4, PoolIsDone
    <2>5. \A t \in 1..Len(pending) : pending[t] \in Captured
      BY <1>1, <1>4, <2>4 DEF TrajectoryInv, CapturesOK, Pooled, Handling
    <2>6. DOMAIN pending = 1..Len(pending) /\ Blocks \ Range(pending) \subseteq Captured
      BY <1>1 DEF TrajectoryInv, MemoryTypes, CapturesOK, Pooled
    <2>7. Captured = Blocks
      BY <2>5, <2>6 DEF Range, Captured
    <2>8. CapturesOK'
      BY <1>2, <2>1, <2>7 DEF CapturesOK, Pooled, Handling
    <2>9. RecordsOK'
      BY <1>1, <1>2, <2>1, RecordsStay
    <2> QED BY <1>2, <2>3, <2>8, <2>9 DEF TrajectoryInv
  <1> QED BY <1>3, <1>4

(* capture_summary.json is refreshed; the campaign is analysed unless it was. *)
LEMMA RefreshKeeps ==
  ASSUME TrajectoryInv, Refresh
  PROVE  TrajectoryInv'
  <1>1. co = "refresh" /\ UNCHANGED <<checkpoint, binary, temporary, metadata, invalid, analysis, damaged>>
    BY DEF Refresh
  <1>2. DiskTypes' /\ Grows /\ exit \in Exits
    BY <1>1 DEF TrajectoryInv, DiskTypes, Grows, Captured, CaptureIsComplete, MemoryTypes, Exits
  <1>3. CASE analysis = None
    <2>1. co' = "analyze" /\ UNCHANGED memory /\ exit' = exit
      BY <1>3 DEF Refresh
    <2>2. MemoryTypes' /\ ClaimsOK' /\ QueueOK' /\ EndOK' /\ PlaceOK' /\ WritingOK' /\ CapturesOK'
      BY <1>1, <1>2, <2>1, MemoryStays DEF Handling
    <2>3. RecordsOK'
      BY <1>1, <1>2, <2>1, RecordsStay
    <2> QED BY <1>2, <2>2, <2>3 DEF TrajectoryInv
  <1>4. CASE analysis # None
    <2> DEFINE how == IF completed = NBlocks THEN "ok" ELSE "partial"
    <2>1. Finish(how) /\ how \in Exits
      BY <1>4 DEF Refresh, Exits
    <2>2. temporary' \in [Blocks -> {"none", "part", "whole"}]
      BY <1>2 DEF DiskTypes
    <2> HIDE DEF how
    <2> QED BY <1>1, <2>1, <2>2, FinishKeeps
  <1> QED BY <1>3, <1>4

(* A step of the analysis that ends the command leaves everything. *)
LEMMA AnalysisFails ==
  ASSUME TrajectoryInv, Finish("failed"),
         UNCHANGED <<checkpoint, binary, temporary, metadata, invalid, analysis, damaged>>
  PROVE  TrajectoryInv'
  <1>1. temporary' \in [Blocks -> {"none", "part", "whole"}] /\ "failed" \in Exits
    BY DEF TrajectoryInv, DiskTypes, Exits
  <1> QED BY <1>1, FinishKeeps

(* A step of the analysis that goes on, over all captures. *)
LEMMA AnalysisGoesOn ==
  ASSUME TrajectoryInv, co \in {"analyze", "captures"}, co' \in {"captures", "conclude"}, UNCHANGED memory,
         exit' = exit, UNCHANGED <<checkpoint, binary, temporary, metadata, invalid, damaged>>,
         analysis' \in Analysis, analysis'.read \in {{}, Discovery}, Captured \cup damaged = Blocks,
         co' = "conclude" => Discovery \subseteq Captured
  PROVE  TrajectoryInv'
  <1>1. exit \in Exits
    BY DEF TrajectoryInv, MemoryTypes, Exits
  <1>2. DiskTypes' /\ Captured' = Captured
    BY DEF TrajectoryInv, DiskTypes, Captured, CaptureIsComplete
  <1>3. MemoryTypes' /\ ClaimsOK' /\ QueueOK' /\ EndOK' /\ PlaceOK' /\ WritingOK' /\ CapturesOK'
    BY <1>1, MemoryStays DEF Handling
  <1>4. (Captured \cup damaged)' = Captured \cup damaged
    BY <1>2
  <1>5. RecordsOK'
    BY <1>2, <1>4 DEF TrajectoryInv, RecordsOK
  <1> QED BY <1>2, <1>3, <1>5 DEF TrajectoryInv

(* The directory is made only over a COMPLETE checkpoint. *)
LEMMA CreateAnalysisKeeps ==
  ASSUME TrajectoryInv, CreateAnalysis
  PROVE  TrajectoryInv'
  <1>1. co = "analyze" /\ UNCHANGED <<checkpoint, binary, temporary, metadata, invalid, damaged>>
    BY DEF CreateAnalysis
  <1>2. CASE checkpoint.status = "COMPLETE" /\ analysis = None
    <2>1. /\ analysis' = [read |-> {}, done |-> FALSE] /\ co' = "captures"
          /\ UNCHANGED memory /\ exit' = exit
      BY <1>2 DEF CreateAnalysis
    <2>2. analysis' \in Analysis /\ analysis'.read = {}
      BY <2>1 DEF Analysis
    <2>3. Captured \cup damaged = Blocks
      BY <1>1, <1>2 DEF TrajectoryInv, RecordsOK
    <2> QED BY <1>1, <2>1, <2>2, <2>3, AnalysisGoesOn
  <1>3. CASE ~(checkpoint.status = "COMPLETE" /\ analysis = None)
    BY <1>1, <1>3, AnalysisFails DEF CreateAnalysis
  <1> QED BY <1>2, <1>3

(* The discovery captures are read when all of them are whole. *)
LEMMA ReadCapturesKeeps ==
  ASSUME TrajectoryInv, ReadCaptures
  PROVE  TrajectoryInv'
  <1>1. /\ co = "captures" /\ UNCHANGED <<checkpoint, binary, temporary, metadata, invalid, damaged>>
        /\ analysis \in Analysis /\ Captured \cup damaged = Blocks
    BY DEF ReadCaptures, TrajectoryInv, RecordsOK
  <1>2. CASE \A b \in Discovery : CaptureIsComplete(b)
    <2>1. /\ analysis' = [analysis EXCEPT !.read = Discovery] /\ co' = "conclude"
          /\ UNCHANGED memory /\ exit' = exit
      BY <1>2 DEF ReadCaptures
    <2>2. Discovery \subseteq Blocks /\ Discovery \subseteq Captured
      BY <1>2, TrajectoryAssumption DEF Captured
    <2>3. analysis' \in Analysis /\ analysis'.read = Discovery
      BY <1>1, <2>1, <2>2 DEF Analysis
    <2> QED BY <1>1, <2>1, <2>2, <2>3, AnalysisGoesOn
  <1>3. CASE ~(\A b \in Discovery : CaptureIsComplete(b))
    BY <1>1, <1>3, AnalysisFails DEF ReadCaptures
  <1> QED BY <1>2, <1>3

(* The analysis is closed. *)
LEMMA SaveAnalysisKeeps ==
  ASSUME TrajectoryInv, SaveAnalysis
  PROVE  TrajectoryInv'
  <1>1. /\ co = "conclude" /\ Finish("ok") /\ "ok" \in Exits
        /\ UNCHANGED <<checkpoint, binary, temporary, metadata, invalid, damaged>>
        /\ analysis' = [analysis EXCEPT !.done = TRUE]
    BY DEF SaveAnalysis, Exits
  <1>2. AtRest'
    BY <1>1 DEF Finish, AtRest
  <1>3. (AtRest => MemoryTypes /\ ClaimsOK /\ QueueOK /\ EndOK /\ PlaceOK /\ CapturesOK /\ WritingOK)'
    BY RestHolds, PTL
  <1>4. DiskTypes' /\ Captured' = Captured
    BY <1>1 DEF TrajectoryInv, DiskTypes, Captured, CaptureIsComplete
  <1>5. analysis \in Analysis /\ analysis.read \in {{}, Discovery} /\ Captured \cup damaged = Blocks
    BY <1>1 DEF TrajectoryInv, RecordsOK
  <1>6. analysis' \in Analysis /\ analysis'.read = analysis.read
    BY <1>1, <1>5 DEF Analysis
  <1>7. (Captured \cup damaged)' = Captured \cup damaged
    BY <1>1, <1>4
  <1>8. RecordsOK'
    BY <1>1, <1>2, <1>5, <1>6, <1>7 DEF TrajectoryInv, RecordsOK, AtRest
  <1> QED BY <1>2, <1>3, <1>4, <1>8 DEF TrajectoryInv

(* Damage takes one capture, and is remembered. *)
LEMMA DamageKeeps ==
  ASSUME TrajectoryInv, NEW b \in Blocks, Damage(b)
  PROVE  TrajectoryInv' /\ Grows
  <1>1. /\ co = "idle" /\ co' = co /\ UNCHANGED memory /\ exit' = exit
        /\ binary' = [binary EXCEPT ![b] = "bad"] /\ damaged' = damaged \cup {b}
        /\ UNCHANGED <<checkpoint, temporary, metadata, invalid, analysis>>
    BY DEF Damage
  <1>2. DiskTypes' /\ Grows
    BY <1>1 DEF TrajectoryInv, DiskTypes, Grows, Captured, CaptureIsComplete
  <1>3. RecordsOK'
    BY <1>1, <1>2, RecordsStay
  <1>4. /\ completed' = completed /\ pending' = pending /\ pool' = pool /\ wk' = wk /\ handled' = handled
    BY <1>1 DEF memory
  <1>5. Active' = Active /\ Passed' = Passed /\ Task' = Task
    BY <1>4 DEF Active, Passed, Task
  <1>6. Finished' = Finished
    BY <1>4, <1>5 DEF Finished
  <1>7. MemoryTypes'
    BY <1>1, <1>4 DEF TrajectoryInv, MemoryTypes
  <1>8. ClaimsOK'
    BY <1>4, <1>5 DEF TrajectoryInv, ClaimsOK, Scans
  <1>9. QueueOK'
    BY <1>1, <1>4, <1>5 DEF TrajectoryInv, QueueOK
  <1>10. EndOK'
    BY <1>1, <1>4, <1>5, <1>6 DEF TrajectoryInv, EndOK
  <1>11. PlaceOK'
    BY <1>1, <1>4, <1>5 DEF TrajectoryInv, PlaceOK
  <1>12. CapturesOK' /\ WritingOK'
    BY <1>1 DEF CapturesOK, WritingOK, Pooled, Handling
  <1> QED BY <1>2, <1>3, <1>7, <1>8, <1>9, <1>10, <1>11, <1>12 DEF TrajectoryInv

-----------------------------------------------------------------------------
(* All steps. *)

(* No campaign, no command. *)
LEMMA InitHolds == Init => TrajectoryInv
  <1> SUFFICES ASSUME Init PROVE TrajectoryInv
    OBVIOUS
  <1>1. AtRest
    BY DEF Init, AtRest, Exits
  <1>2. DiskTypes
    BY DEF Init, DiskTypes
  <1>3. RecordsOK
    BY DEF Init, RecordsOK
  <1> QED BY <1>1, <1>2, <1>3, RestHolds DEF TrajectoryInv

(* Nothing changes. *)
LEMMA StutterKeeps ==
  ASSUME TrajectoryInv, UNCHANGED vars
  PROVE  TrajectoryInv'
  <1> USE DEF TrajectoryInv
  <1>1. /\ UNCHANGED <<checkpoint, binary, temporary, metadata, invalid, analysis, damaged>>
        /\ UNCHANGED <<co, completed, pending, pool, wk, handled, exit>>
    BY DEF vars, disk
  <1>2. Active' = Active /\ Passed' = Passed /\ Task' = Task /\ Block' = Block /\ Captured' = Captured
    BY <1>1 DEF Active, Passed, Task, Block, Captured, CaptureIsComplete
  <1>3. Finished' = Finished
    BY <1>1, <1>2 DEF Finished
  <1>4. DiskTypes' /\ MemoryTypes'
    BY <1>1 DEF DiskTypes, MemoryTypes
  <1>5. ClaimsOK' /\ QueueOK'
    BY <1>1, <1>2 DEF ClaimsOK, QueueOK, Scans
  <1>6. EndOK' /\ PlaceOK'
    BY <1>1, <1>2, <1>3 DEF EndOK, PlaceOK
  <1>7. CapturesOK' /\ WritingOK' /\ RecordsOK'
    BY <1>1, <1>2 DEF CapturesOK, WritingOK, RecordsOK
  <1> QED BY <1>4, <1>5, <1>6, <1>7

(* The steps of the coordinator. *)
LEMMA CoordinatorKeeps ==
  ASSUME TrajectoryInv, Coordinator
  PROVE  TrajectoryInv'
BY LoadKeeps, SpawnKeeps, WaitKeeps, DrainedKeeps, VerifyKeeps, QuarantineKeeps, WriteKeeps, RenameKeeps,
   SaveMetadataKeeps, SaveCheckpointKeeps, JoinKeeps, RefreshKeeps, CreateAnalysisKeeps, ReadCapturesKeeps,
   SaveAnalysisKeeps DEF Coordinator

(* Every step keeps the invariant. *)
LEMMA StepKeeps == TrajectoryInv /\ [Next]_vars => TrajectoryInv'
  <1> SUFFICES ASSUME TrajectoryInv, [Next]_vars PROVE TrajectoryInv'
    OBVIOUS
  <1>1. CASE New
    BY <1>1, NewKeeps
  <1>2. CASE Resume \/ Analyze
    BY <1>2, StartKeeps
  <1>3. CASE Coordinator
    BY <1>3, CoordinatorKeeps
  <1>4. CASE SpawnFails \/ Kill
    BY <1>4, StopKeeps
  <1>5. CASE Refuse
    BY <1>5, RefuseKeeps
  <1>6. ASSUME NEW b \in Blocks, Damage(b)
        PROVE  TrajectoryInv'
    BY <1>6, DamageKeeps
  <1>7. ASSUME NEW i \in Active, Worker(i) \/ Throw(i)
        PROVE  TrajectoryInv'
    BY <1>7, ClaimKeeps, PushKeeps, NotifyKeeps, FinishWorkerKeeps, ThrowKeeps DEF Worker
  <1>8. CASE UNCHANGED vars
    BY <1>8, StutterKeeps
  <1> QED BY <1>1, <1>2, <1>3, <1>4, <1>5, <1>6, <1>7, <1>8 DEF Next

-----------------------------------------------------------------------------
(* The invariant of a trajectory campaign: the accounts of the pool, its end, the
   captures it makes and the records of them hold whatever is killed, damaged,
   refused or thrown. *)
THEOREM TrajectoryInvariant == Spec => []TrajectoryInv
  <1>1. Init => TrajectoryInv
    BY InitHolds
  <1>2. TrajectoryInv /\ [Next]_vars => TrajectoryInv'
    BY StepKeeps
  <1> QED BY <1>1, <1>2, PTL DEF Spec

(* run_bounded_workers hands every task to one worker and to the completion handler
   once, loses none, and a pool that ends without an exception has every pending
   block captured; checkpoint.json never counts a capture that was never complete. *)
THEOREM PoolInvHolds == Spec => []PoolInv
  <1>1. TrajectoryInv => PoolInv
    <2> SUFFICES ASSUME TrajectoryInv PROVE PoolInv
      OBVIOUS
    <2> USE DEF TrajectoryInv
    <2>1. /\ pending \in Seq(Blocks) /\ Len(pending) \in Nat /\ pool \in Pool
          /\ Finished \subseteq Active /\ IsFiniteSet(Active)
          /\ Cardinality(Active) \in Nat /\ Cardinality(Active) <= GpuWorkers
      BY ActiveAreWorkers DEF MemoryTypes, Finished
    <2>2. TypeOK
      <3>1. checkpoint \in Checkpoint \cup {None}
        BY DEF RecordsOK
      <3>2. pool.finished \in 0..GpuWorkers
        <4>1. IsFiniteSet(Finished) /\ Cardinality(Finished) <= Cardinality(Active)
          BY <2>1, FS_Subset
        <4>2. Cardinality(Finished) \in Nat /\ GpuWorkers \in Nat
          BY <4>1, FS_CardinalityType, TrajectoryAssumption
        <4> QED BY <2>1, <4>1, <4>2 DEF EndOK
      <3> QED BY <3>1, <3>2 DEF TypeOK, DiskTypes, MemoryTypes, ClaimsOK, Checkpoint
    <2>3. NothingLost
      <3>1. IsInjective(pool.queue \o pool.ready)
        BY <2>1, TasksJoined DEF QueueOK, Pool
      <3>2. co = "handle" /\ ~pool.refused => Queued \cap handled = {}
        BY DEF QueueOK, Queued, Handling
      <3>3. InHand \cap (Queued \cup handled) = {}
        BY DEF ClaimsOK, Passed, InHand, Queued, Workers
      <3>4. \A i, j \in 1..GpuWorkers :
              wk[i].pc = "scan" /\ wk[j].pc = "scan" /\ wk[i].task = wk[j].task => i = j
        BY DEF ClaimsOK, Scans, Workers
      <3>5. (co = "join" /\ ~pool.refused /\ ~pool.threw) => Cardinality(handled) = Len(pending)
        <4>1. Cardinality(1..Len(pending)) = Len(pending)
          <5> DEFINE n == Len(pending)
          <5>1. n \in Int /\ n >= 0 /\ 1 \in Int
            BY <2>1
          <5> HIDE DEF n
          <5>2. Cardinality(1..n) = IF 1 > n THEN 0 ELSE n - 1 + 1
            BY <5>1, FS_Interval
          <5> QED BY <5>1, <5>2 DEF n
        <4> QED BY <4>1, PoolIsDone
      <3>6. co = "refresh" => \A b \in Blocks : CaptureIsComplete(b)
        BY DEF CapturesOK, Captured
      <3> QED BY <3>1, <3>2, <3>3, <3>4, <3>5, <3>6 DEF NothingLost
    <2>4. CheckpointNotAhead
      BY DEF RecordsOK, CheckpointNotAhead, Captured
    <2> QED BY <2>2, <2>3, <2>4 DEF PoolInv
  <1> QED BY <1>1, TrajectoryInvariant, PTL

(* analyze_campaign makes its directory only of a campaign whose captures were all
   there, and reads all discovery captures, whole, or none. *)
THEOREM AnalysisIsWholeHolds == Spec => []AnalysisIsWhole
  <1>1. TrajectoryInv => AnalysisIsWhole
    <2> SUFFICES ASSUME TrajectoryInv PROVE AnalysisIsWhole
      OBVIOUS
    <2>1. analysis # None => \A b \in Blocks : CaptureIsComplete(b) \/ b \in damaged
      BY DEF TrajectoryInv, RecordsOK, Captured
    <2>2. analysis # None => analysis.read \in {{}, Discovery}
      BY DEF TrajectoryInv, RecordsOK
    <2>3. co = "conclude" => \A b \in analysis.read : CaptureIsComplete(b)
      BY DEF TrajectoryInv, RecordsOK, Captured
    <2> QED BY <2>1, <2>2, <2>3 DEF AnalysisIsWhole
  <1> QED BY <1>1, TrajectoryInvariant, PTL

(* No step of a command, of a worker or of a kill makes a complete capture
   incomplete: only damage does. *)
LEMMA CapturesOnlyGrow == TrajectoryInv /\ [Next]_vars => Grows
  <1> SUFFICES ASSUME TrajectoryInv, [Next]_vars PROVE Grows
    OBVIOUS
  <1>1. UNCHANGED <<binary, metadata, damaged>> => Grows
    BY DEF Grows, Captured, CaptureIsComplete
  <1>2. CASE New \/ Resume \/ Analyze \/ SpawnFails \/ Refuse \/ Kill \/ UNCHANGED vars
    BY <1>1, <1>2 DEF New, Resume, Analyze, SpawnFails, Refuse, Kill, vars, disk
  <1>3. CASE Load \/ Spawn \/ Wait \/ Drained \/ Verify \/ Join
    BY <1>1, <1>3 DEF Load, Spawn, Wait, Drained, Verify, Join, disk
  <1>4. CASE WriteTemporary \/ SaveCheckpoint \/ Refresh \/ CreateAnalysis \/ ReadCaptures \/ SaveAnalysis
    BY <1>1, <1>4 DEF WriteTemporary, SaveCheckpoint, Refresh, CreateAnalysis, ReadCaptures, SaveAnalysis
  <1>5. ASSUME co \in {"quarantine", "rename"}, UNCHANGED damaged,
               \A b \in Blocks : b # Block => binary'[b] = binary[b] /\ metadata'[b] = metadata[b]
        PROVE  Grows
    <2>1. Block \notin Captured
      BY <1>5 DEF TrajectoryInv, WritingOK, Handling
    <2> QED BY <1>5, <2>1 DEF Grows, Captured, CaptureIsComplete
  <1>6. CASE Quarantine
    <2>1. co = "quarantine" /\ UNCHANGED damaged
      BY <1>6 DEF Quarantine
    <2>2. ASSUME NEW b \in Blocks, b # Block
          PROVE  binary'[b] = binary[b] /\ metadata'[b] = metadata[b]
      BY <1>6, <2>2 DEF Quarantine, TrajectoryInv, DiskTypes
    <2> QED BY <1>5, <2>1, <2>2
  <1>7. CASE Rename
    <2>1. co = "rename" /\ UNCHANGED damaged
      BY <1>7 DEF Rename
    <2>2. ASSUME NEW b \in Blocks, b # Block
          PROVE  binary'[b] = binary[b] /\ metadata'[b] = metadata[b]
      BY <1>7, <2>2 DEF Rename, TrajectoryInv, DiskTypes
    <2> QED BY <1>5, <2>1, <2>2
  <1>8. CASE SaveMetadata
    BY <1>8, MetadataCompletes
  <1>9. ASSUME NEW b \in Blocks, Damage(b)
        PROVE  Grows
    BY <1>9, DamageKeeps
  <1>10. ASSUME NEW i \in Active, Worker(i) \/ Throw(i)
         PROVE  Grows
    BY <1>1, <1>10 DEF Worker, Claim, Push, Notify, FinishWorker, Throw, pooled, disk
  <1> QED BY <1>2, <1>3, <1>4, <1>6, <1>7, <1>8, <1>9, <1>10 DEF Next, Coordinator

(* A capture verified complete stays complete through every resume, quarantine, kill
   and exception until the file itself is damaged. *)
THEOREM CompleteStaysHolds == Spec => CompleteStays
  <1>1. TrajectoryInv /\ [Next]_vars
          => [\A b \in Blocks : CaptureIsComplete(b) /\ b \notin damaged' => CaptureIsComplete(b)']_vars
    <2> SUFFICES ASSUME TrajectoryInv, [Next]_vars
                 PROVE  \A b \in Blocks : CaptureIsComplete(b) /\ b \notin damaged' => CaptureIsComplete(b)'
      OBVIOUS
    <2> QED BY CapturesOnlyGrow DEF Grows, Captured
  <1> QED BY <1>1, TrajectoryInvariant, PTL DEF Spec, CompleteStays
=============================================================================
