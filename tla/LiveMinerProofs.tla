--------------------------- MODULE LiveMinerProofs ---------------------------
(***************************************************************************)
(* The invariants of the live miner, for every number of workers, every     *)
(* nonce space and extranonce2 size, any number of jobs, disconnections and *)
(* crashes.  TypeOK and MinerInv are inductive together.  At the end, the   *)
(* store their records are saved with.                                     *)
(***************************************************************************)
EXTENDS LiveMiner, StateStore, TLAPS

-----------------------------------------------------------------------------
(***************************************************************************)
(* What each method of the allocator does to a well-formed record.  Core is *)
(* the part of WellFormed that speaks of the units alone; a method that     *)
(* only moves cursors and statuses keeps it (CoreMap), and so does one that *)
(* adds a group on a new extranonce2 (CoreUnion).                          *)
(***************************************************************************)
(* Integer division rounds down. *)
LEMMA DivBounds ==
  ASSUME NEW a \in Nat, NEW p \in Nat \ {0}
  PROVE  /\ a \div p \in Nat
         /\ p * (a \div p) <= a
         /\ a < p * ((a \div p) + 1)
  BY SMTT(30)

(* Multiplication by a positive number keeps a strict order, one step apart. *)
LEMMA MulMono ==
  ASSUME NEW p \in Nat \ {0}, NEW a \in Int, NEW b \in Int, a < b
  PROVE  p * (a + 1) <= p * b
  BY SMTT(30)

(* Integer division is monotonic. *)
LEMMA DivMono ==
  ASSUME NEW a \in Nat, NEW b \in Nat, NEW p \in Nat \ {0}, a <= b
  PROVE  a \div p <= b \div p
  <1>1. SUFFICES ASSUME b \div p < a \div p PROVE FALSE
    BY DivBounds
  <1>2. p * ((b \div p) + 1) <= p * (a \div p)
    BY <1>1, DivBounds, MulMono
  <1>. DEFINE q == p * ((b \div p) + 1)
              r == p * (a \div p)
  <1>3. b < q /\ q <= r /\ r <= a /\ q \in Int /\ r \in Int
    BY <1>2, DivBounds
  <1> HIDE DEF q, r
  <1> QED BY <1>3

(* The bounds of the partitions are in order. *)
LEMMA CutMono ==
  ASSUME NEW p \in Nat \ {0}, NEW i \in Nat, NEW j \in Nat, i <= j
  PROVE  Cut(i, p) <= Cut(j, p)
  <1>1. NonceSpace * i \in Nat /\ NonceSpace * j \in Nat /\ NonceSpace * i <= NonceSpace * j
    BY AllocatorAssumption
  <1> QED BY <1>1, DivMono DEF Cut

(* The bounds of the partitions lie in the nonce space. *)
LEMMA CutRange ==
  ASSUME NEW p \in Nat \ {0}, NEW i \in Nat, i <= p
  PROVE  Cut(i, p) \in 0..NonceSpace
  <1>1. NonceSpace * p \in Nat /\ NonceSpace * i \in Nat
    BY AllocatorAssumption
  <1>2. Cut(p, p) = NonceSpace
    BY AllocatorAssumption, <1>1, DivBounds DEF Cut
  <1>3. Cut(i, p) \in Nat
    BY <1>1, DivBounds DEF Cut
  <1>4. Cut(i, p) <= Cut(p, p)
    BY CutMono
  <1> QED BY <1>2, <1>3, <1>4, AllocatorAssumption

-----------------------------------------------------------------------------
(* What WellFormed says of the set of units alone. *)
Core(U) ==
  /\ \A u, v \in U : Id(u) = Id(v) => u = v
  /\ \A u, v \in U : u # v /\ u.x = v.x => u.end <= v.start \/ v.end <= u.start
  /\ \A u \in U : u.start <= u.next /\ u.next <= u.end

(* v is u with another cursor, status or generation. *)
SameRange(u, v) ==
  /\ v \in Unit /\ v.kind = u.kind /\ v.x = u.x /\ v.part = u.part /\ v.born = u.born
  /\ v.start = u.start /\ v.end = u.end /\ v.start <= v.next /\ v.next <= v.end

(* Moving cursors, statuses and generations keeps ids unique and ranges disjoint. *)
LEMMA CoreMap ==
  ASSUME NEW U \in SUBSET Unit, Core(U), NEW W \in SUBSET U, NEW f,
         \A u \in W : SameRange(u, f[u]), NEW V, \A v \in V : \E u \in W : v = f[u]
  PROVE  V \in SUBSET Unit /\ Core(V)
  <1>1. V \in SUBSET Unit
    BY DEF SameRange
  <1>2. ASSUME NEW a \in V, NEW b \in V, Id(a) = Id(b) PROVE a = b
    <2>1. PICK u \in W : a = f[u]
      OBVIOUS
    <2>2. PICK v \in W : b = f[v]
      OBVIOUS
    <2>3. Id(u) = Id(v)
      BY <1>2, <2>1, <2>2 DEF SameRange, Id
    <2> QED BY <2>1, <2>2, <2>3 DEF Core
  <1>3. ASSUME NEW a \in V, NEW b \in V, a # b, a.x = b.x
        PROVE  a.end <= b.start \/ b.end <= a.start
    <2>1. PICK u \in W : a = f[u]
      OBVIOUS
    <2>2. PICK v \in W : b = f[v]
      OBVIOUS
    <2>3. u # v /\ u.x = v.x
      BY <1>3, <2>1, <2>2 DEF SameRange
    <2>4. u.end <= v.start \/ v.end <= u.start
      BY <2>3 DEF Core
    <2> QED BY <2>1, <2>2, <2>4 DEF SameRange
  <1>4. \A a \in V : a.start <= a.next /\ a.next <= a.end
    BY DEF SameRange
  <1> QED BY <1>1, <1>2, <1>3, <1>4 DEF Core

(* So does adding a group on an extranonce2 that is not in use. *)
LEMMA CoreUnion ==
  ASSUME NEW U \in SUBSET Unit, NEW G \in SUBSET Unit, Core(U), Core(G),
         \A u \in U, g \in G : u.x # g.x
  PROVE  U \cup G \in SUBSET Unit /\ Core(U \cup G)
  BY DEF Core, Id

(* The partitions of create_units and append_live_group are disjoint units. *)
LEMMA CpuGroupFacts ==
  ASSUME NEW x \in Nat, NEW p \in Nat \ {0}, p >= CpuCount, NEW gen \in Nat
  PROVE  /\ CpuGroup(x, p, gen) \in SUBSET Unit
         /\ CpuGroup(x, p, gen) # {}
         /\ \A u \in CpuGroup(x, p, gen) :
              u.kind = "cpu" /\ u.x = x /\ u.status = "pending" /\ u.end <= Cut(CpuCount, p)
         /\ Core(CpuGroup(x, p, gen))
  <1> DEFINE G == CpuGroup(x, p, gen)
             U(i) == NewUnit("cpu", x, i, Cut(i, p), Cut(i + 1, p), gen)
  <1>1. CpuCount \in Nat \ {0}
    BY AllocatorAssumption
  <1>2. ASSUME NEW i \in 0..(CpuCount - 1)
        PROVE  /\ Cut(i, p) \in 0..NonceSpace /\ Cut(i + 1, p) \in 0..NonceSpace
               /\ Cut(i, p) <= Cut(i + 1, p) /\ Cut(i + 1, p) <= Cut(CpuCount, p)
    BY <1>1, CutRange, CutMono
  <1>3. ASSUME NEW i \in 0..(CpuCount - 1)
        PROVE  /\ U(i) \in Unit /\ U(i).kind = "cpu" /\ U(i).x = x /\ U(i).status = "pending"
               /\ U(i).part = i /\ U(i).start = Cut(i, p) /\ U(i).end = Cut(i + 1, p)
               /\ U(i).next = Cut(i, p)
    BY <1>2 DEF NewUnit, Unit, Kinds, Statuses
  <1>4. G = {U(i) : i \in 0..(CpuCount - 1)}
    BY DEF CpuGroup
  <1>5. U(0) \in G
    BY <1>1, <1>4
  <1>6. ASSUME NEW a \in G, NEW b \in G, Id(a) = Id(b) PROVE a = b
    <2>1. PICK i \in 0..(CpuCount - 1) : a = U(i)
      BY <1>4
    <2>2. PICK j \in 0..(CpuCount - 1) : b = U(j)
      BY <1>4
    <2>3. i = j
      BY <1>3, <1>6, <2>1, <2>2 DEF Id
    <2> QED BY <2>1, <2>2, <2>3
  <1>7. ASSUME NEW a \in G, NEW b \in G, a # b
        PROVE  a.end <= b.start \/ b.end <= a.start
    <2>1. PICK i \in 0..(CpuCount - 1) : a = U(i)
      BY <1>4
    <2>2. PICK j \in 0..(CpuCount - 1) : b = U(j)
      BY <1>4
    <2>3. i + 1 <= j \/ j + 1 <= i
      BY <1>7, <2>1, <2>2
    <2>4. Cut(i + 1, p) <= Cut(j, p) \/ Cut(j + 1, p) <= Cut(i, p)
      BY <2>3, CutMono
    <2>5. a.end = Cut(i + 1, p) /\ a.start = Cut(i, p)
      BY <1>3, <2>1
    <2>6. b.end = Cut(j + 1, p) /\ b.start = Cut(j, p)
      BY <1>3, <2>2
    <2> QED BY <2>4, <2>5, <2>6
  <1>8. \A a \in G : /\ a \in Unit /\ a.kind = "cpu" /\ a.x = x /\ a.status = "pending"
                     /\ a.end <= Cut(CpuCount, p) /\ a.start <= a.next /\ a.next <= a.end
    <2> HIDE DEF U
    <2>1. SUFFICES ASSUME NEW i \in 0..(CpuCount - 1)
                   PROVE  /\ U(i) \in Unit /\ U(i).kind = "cpu" /\ U(i).x = x
                          /\ U(i).status = "pending" /\ U(i).end <= Cut(CpuCount, p)
                          /\ U(i).start <= U(i).next /\ U(i).next <= U(i).end
      BY <1>4
    <2>2. Cut(i, p) \in Int
      BY <1>2
    <2> QED BY <1>2, <1>3, <2>2
  <1> QED BY <1>5, <1>6, <1>7, <1>8 DEF Core

-----------------------------------------------------------------------------
(* A record of the right type in which WellFormed holds. *)
Good(a) == a \in Allocator /\ WellFormed(a)

(* The fields of a good record. *)
LEMMA GoodParts ==
  ASSUME NEW a, Good(a)
  PROVE  /\ a.units \in SUBSET Unit /\ a.work \in Work \cup {NoWork} /\ a.counter \in Nat
         /\ a.done \in SUBSET (Nat \X Nat) /\ a.tenure \in Nat
         /\ Core(a.units)
  BY DEF Good, Allocator, WellFormed, UniqueIds, DisjointUnits, CursorsInRange, Core

(* A call that only moves cursors and statuses, and opens or closes nothing. *)
LEMMA MapGood ==
  ASSUME NEW a, Good(a), NEW b \in Allocator, NEW f,
         b.work = a.work, b.counter = a.counter, b.units = {f[u] : u \in a.units},
         \A u \in a.units : /\ SameRange(u, f[u])
                            /\ f[u].status = "complete" => u.status = "complete"
                            /\ Open(u) => Open(f[u])
                            /\ u.status = "stale" => f[u].status = "stale"
  PROVE  Good(b)
  <1>1. a \in Allocator /\ a.units \in SUBSET Unit /\ a.counter \in Nat /\ Core(a.units)
    BY GoodParts DEF Good
  <1>2. b.units \in SUBSET Unit /\ Core(b.units)
    <2> DEFINE U == a.units
               V == b.units
    <2>1. /\ U \in SUBSET Unit /\ Core(U) /\ U \in SUBSET U
          /\ \A u \in U : SameRange(u, f[u])
          /\ \A v \in V : \E u \in U : v = f[u]
      BY <1>1
    <2> HIDE DEF U, V
    <2>2. V \in SUBSET Unit /\ Core(V)
      BY <2>1, CoreMap
    <2> QED BY <2>2 DEF V
  <1>4. UniqueIds(b) /\ DisjointUnits(b) /\ CursorsInRange(b)
    BY <1>2 DEF Core, UniqueIds, DisjointUnits, CursorsInRange
  <1>5. b.work = NoWork => b.units = {}
    BY DEF Good, WellFormed
  <1>6. CounterAhead(b)
    BY <1>1 DEF Good, WellFormed, CounterAhead, UsesExtranonce2, SameRange
  <1>7. CompleteErased(b)
    BY <1>1 DEF Good, WellFormed, CompleteErased, UsesExtranonce2, SameRange
  <1>8. CpuHasOpen(b)
    <2>1. HasOpen(a.units, "cpu") => HasOpen(b.units, "cpu")
      BY DEF HasOpen, SameRange
    <2>2. (\A u \in a.units : u.status = "stale") => \A u \in b.units : u.status = "stale"
      OBVIOUS
    <2> QED BY <2>1, <2>2 DEF Good, WellFormed, CpuHasOpen, UsesExtranonce2
  <1> QED BY <1>4, <1>5, <1>6, <1>7, <1>8 DEF Good, WellFormed

(* acquire keeps the record good. *)
LEMMA AcquiredGood ==
  ASSUME NEW a, Good(a), NEW u \in a.units, u.status = "pending"
  PROVE  /\ Good(Acquired(a, u))
         /\ Acquired(a, u).work = a.work
         /\ Acquired(a, u).units = (a.units \ {u}) \cup {[u EXCEPT !.status = "in_progress"]}
  <1> DEFINE b == Acquired(a, u)
             f == [v \in a.units |-> IF v = u THEN [u EXCEPT !.status = "in_progress"] ELSE v]
  <1>1. a \in Allocator /\ a.units \in SUBSET Unit
    BY GoodParts DEF Good
  <1>2. /\ b \in Allocator /\ b.work = a.work /\ b.counter = a.counter
        /\ b.units = (a.units \ {u}) \cup {[u EXCEPT !.status = "in_progress"]}
    BY <1>1 DEF Acquired, Allocator, Unit, Statuses
  <1>3. b.units = {f[v] : v \in a.units}
    BY <1>2
  <1>4. \A v \in a.units : /\ SameRange(v, f[v])
                           /\ f[v].status = "complete" => v.status = "complete"
                           /\ Open(v) => Open(f[v])
                           /\ v.status = "stale" => f[v].status = "stale"
    BY <1>1 DEF SameRange, Open, Unit, Statuses, Good, WellFormed, CursorsInRange
  <1>5. Good(b)
    <2> HIDE DEF b, f
    <2> QED BY <1>2, <1>3, <1>4, MapGood
  <1> QED BY <1>2, <1>5

(* What a unit has left is a set of pairs of extranonce2 and nonce. *)
LEMMA RestType ==
  ASSUME NEW u \in Unit
  PROVE  Rest(u) \in SUBSET (Nat \X Nat)
  BY DEF Rest, Unit

(* update_progress keeps the record good. *)
LEMMA UpdateGood ==
  ASSUME NEW a, Good(a), NEW id, NEW n \in Nat
  PROVE  /\ Good(UpdateProgress(a, id, n))
         /\ UpdateProgress(a, id, n).work = a.work
         /\ UpdateProgress(a, id, n).units =
              {IF Id(u) = id /\ Open(u) THEN Advance(u, n) ELSE u : u \in a.units}
  <1> DEFINE b == UpdateProgress(a, id, n)
             hit == {u \in a.units : Id(u) = id /\ Open(u)}
             f == [u \in a.units |-> IF Id(u) = id /\ Open(u) THEN Advance(u, n) ELSE u]
  <1>1. a \in Allocator /\ a.units \in SUBSET Unit
    BY GoodParts DEF Good
  <1>2. \A u \in a.units : /\ Advance(u, n) \in Unit /\ SameRange(u, Advance(u, n))
                           /\ Advance(u, n).status = u.status
    BY <1>1, AllocatorAssumption
       DEF Advance, Clamp, SameRange, Unit, Good, WellFormed, CursorsInRange
  <1>3. /\ (a.units \ hit) \cup {Advance(u, n) : u \in hit} \in SUBSET Unit
        /\ a.done \cup UNION {Rest(u) \ Rest(Advance(u, n)) : u \in hit} \in SUBSET (Nat \X Nat)
    BY <1>1, <1>2, RestType DEF Allocator
  <1>4. /\ b \in Allocator /\ b.work = a.work /\ b.counter = a.counter
        /\ b.units = (a.units \ hit) \cup {Advance(u, n) : u \in hit}
    BY <1>1, <1>3 DEF UpdateProgress, Allocator
  <1>5. b.units = {IF Id(u) = id /\ Open(u) THEN Advance(u, n) ELSE u : u \in a.units}
    <2> HIDE DEF b
    <2> QED BY <1>4
  <1>6. b.units = {f[u] : u \in a.units}
    <2> HIDE DEF b
    <2> QED BY <1>5
  <1>7. \A u \in a.units : /\ SameRange(u, f[u])
                           /\ f[u].status = "complete" => u.status = "complete"
                           /\ Open(u) => Open(f[u])
                           /\ u.status = "stale" => f[u].status = "stale"
    <2>1. \A u \in a.units : SameRange(u, u)
      BY <1>1 DEF SameRange, Good, WellFormed, CursorsInRange
    <2> QED BY <1>2, <2>1 DEF Open
  <1>8. Good(b)
    <2> HIDE DEF b, f
    <2> QED BY <1>4, <1>6, <1>7, MapGood
  <1> QED BY <1>4, <1>5, <1>8

(* release keeps the record good. *)
LEMMA ReleaseGood ==
  ASSUME NEW a, Good(a), NEW id
  PROVE  /\ Good(Release(a, id))
         /\ Release(a, id).work = a.work
         /\ Release(a, id).units = {IF Id(u) = id /\ u.status = "in_progress"
                                   THEN [u EXCEPT !.status = "pending"] ELSE u : u \in a.units}
  <1> DEFINE b == Release(a, id)
             f == [u \in a.units |-> IF Id(u) = id /\ u.status = "in_progress"
                                    THEN [u EXCEPT !.status = "pending"] ELSE u]
  <1>1. a \in Allocator /\ a.units \in SUBSET Unit
    BY GoodParts DEF Good
  <1>2. \A u \in a.units : /\ SameRange(u, f[u])
                           /\ f[u].status = "complete" => u.status = "complete"
                           /\ Open(u) => Open(f[u])
                           /\ u.status = "stale" => f[u].status = "stale"
    BY <1>1 DEF SameRange, Open, Unit, Statuses, Good, WellFormed, CursorsInRange
  <1>3. b.units = {f[u] : u \in a.units}
    BY <1>1 DEF Release, Allocator
  <1>4. {f[u] : u \in a.units} \in SUBSET Unit
    <2> HIDE DEF f
    <2> QED BY <1>2 DEF SameRange
  <1>5. b \in Allocator /\ b.work = a.work /\ b.counter = a.counter
    BY <1>1, <1>4 DEF Release, Allocator
  <1>6. Good(b)
    <2> HIDE DEF b, f
    <2> QED BY <1>2, <1>3, <1>5, MapGood
  <1> QED BY <1>3, <1>5, <1>6

(* load_existing makes a good record of a good one. *)
LEMMA LoadGood ==
  ASSUME NEW a, Good(a)
  PROVE  Good(LoadExisting(a))
  <1> DEFINE b == LoadExisting(a)
             f == [u \in a.units |-> IF u.status = "in_progress"
                                    THEN [u EXCEPT !.status = "pending"] ELSE u]
  <1>1. a \in Allocator /\ a.units \in SUBSET Unit
    BY GoodParts DEF Good
  <1>2. \A u \in a.units : /\ SameRange(u, f[u])
                           /\ f[u].status = "complete" => u.status = "complete"
                           /\ Open(u) => Open(f[u])
                           /\ u.status = "stale" => f[u].status = "stale"
    BY <1>1 DEF SameRange, Open, Unit, Statuses, Good, WellFormed, CursorsInRange
  <1>3. b.units = {f[u] : u \in a.units}
    BY <1>1 DEF LoadExisting, Allocator
  <1>4. {f[u] : u \in a.units} \in SUBSET Unit
    <2> HIDE DEF f
    <2> QED BY <1>2 DEF SameRange
  <1>5. b \in Allocator /\ b.work = a.work /\ b.counter = a.counter
    BY <1>1, <1>4 DEF LoadExisting, Allocator
  <1>6. Good(b)
    <2> HIDE DEF b, f
    <2> QED BY <1>2, <1>3, <1>5, MapGood
  <1> QED BY <1>6

(* The parts from which a new record is seen to be good. *)
LEMMA MakeGood ==
  ASSUME NEW b \in Allocator, Core(b.units), b.work # NoWork,
         CounterAhead(b), CompleteErased(b), CpuHasOpen(b)
  PROVE  Good(b)
  BY DEF Good, WellFormed, Core, UniqueIds, DisjointUnits, CursorsInRange

(* mark_all_stale keeps the record good. *)
LEMMA StaleGood ==
  ASSUME NEW a, Good(a)
  PROVE  Good(MarkAllStale(a)) /\ MarkAllStale(a).work = a.work
  <1> DEFINE b == MarkAllStale(a)
             f == [u \in a.units |-> IF u.status = "complete" THEN u
                                    ELSE [u EXCEPT !.status = "stale"]]
  <1>1. a \in Allocator /\ a.units \in SUBSET Unit /\ a.counter \in Nat /\ Core(a.units)
    BY GoodParts DEF Good
  <1>2. \A u \in a.units : /\ SameRange(u, f[u])
                           /\ f[u].status = "complete" => u.status = "complete"
                           /\ u.status # "complete" => f[u].status = "stale"
    BY <1>1 DEF SameRange, Unit, Statuses, Good, WellFormed, CursorsInRange
  <1>3. b.units = {f[u] : u \in a.units}
    BY <1>1 DEF MarkAllStale, Allocator
  <1>4. {f[u] : u \in a.units} \in SUBSET Unit
    <2> HIDE DEF f
    <2> QED BY <1>2 DEF SameRange
  <1>5. b \in Allocator /\ b.work = a.work /\ b.counter = a.counter
    BY <1>1, <1>4 DEF MarkAllStale, Allocator
  <1>6. \A v \in b.units : \E u \in a.units : v = f[u]
    BY <1>3
  <1> HIDE DEF b, f
  <1>7. Core(b.units)
    <2> DEFINE U == a.units
               V == b.units
    <2>1. /\ U \in SUBSET Unit /\ Core(U) /\ U \in SUBSET U
          /\ \A u \in U : SameRange(u, f[u])
          /\ \A v \in V : \E u \in U : v = f[u]
      BY <1>1, <1>2, <1>6
    <2> HIDE DEF U, V
    <2>2. Core(V)
      BY <2>1, CoreMap
    <2> QED BY <2>2 DEF V
  <1>8. CounterAhead(b)
    BY <1>1, <1>2, <1>5, <1>6 DEF Good, WellFormed, CounterAhead, UsesExtranonce2, SameRange
  <1>9. CompleteErased(b)
    BY <1>2, <1>5, <1>6 DEF Good, WellFormed, CompleteErased, UsesExtranonce2
  <1>10. CpuHasOpen(b)
    BY <1>2, <1>5, <1>6 DEF Good, WellFormed, CompleteErased, CpuHasOpen, UsesExtranonce2
  <1>11. a.work = NoWork => b.units = {}
    BY <1>6 DEF Good, WellFormed
  <1>12. Good(b)
    BY <1>5, <1>7, <1>8, <1>9, <1>10, <1>11
       DEF Good, WellFormed, Core, UniqueIds, DisjointUnits, CursorsInRange
  <1> QED BY <1>5, <1>12 DEF b

(* complete without a new group, or interrupted by its exception. *)
LEMMA HalfCompletedGood ==
  ASSUME NEW a, Good(a), NEW id, Capacity(a.work) = 0 \/ CompleteThrows(a, id)
  PROVE  /\ Good(HalfCompleted(a, id))
         /\ HalfCompleted(a, id).work = a.work
         /\ \A u \in a.units : Id(u) # id => u \in HalfCompleted(a, id).units
  <1> DEFINE b == HalfCompleted(a, id)
             f == [u \in a.units |-> IF Id(u) = id THEN Finish(u) ELSE u]
  <1>1. /\ a \in Allocator /\ a.units \in SUBSET Unit /\ a.counter \in Nat /\ Core(a.units)
        /\ a.done \in SUBSET (Nat \X Nat)
    BY GoodParts DEF Good
  <1>2. \A u \in a.units : SameRange(u, f[u])
    <2>1. \A u \in a.units : SameRange(u, u)
      BY <1>1 DEF SameRange, Core
    <2>2. ASSUME NEW u \in a.units PROVE SameRange(u, Finish(u))
      <3>1. u \in Unit /\ u.start <= u.next /\ u.next <= u.end
        BY <1>1 DEF Core
      <3>2. /\ Finish(u) \in Unit /\ Finish(u).kind = u.kind /\ Finish(u).x = u.x
            /\ Finish(u).part = u.part /\ Finish(u).born = u.born
            /\ Finish(u).start = u.start /\ Finish(u).end = u.end /\ Finish(u).next = u.end
        BY <3>1 DEF Unit, Statuses, Finish
      <3>3. u.start \in Int /\ u.next \in Int /\ u.end \in Int
        BY <3>1 DEF Unit
      <3> QED BY <3>1, <3>2, <3>3 DEF SameRange
    <2> QED BY <2>1, <2>2
  <1>3. {f[u] : u \in a.units} \in SUBSET Unit
    <2> HIDE DEF f
    <2> QED BY <1>2 DEF SameRange
  <1>4. FinishedDone(a, id) \in SUBSET (Nat \X Nat)
    BY <1>1, RestType DEF FinishedDone
  <1>5. FinishedUnits(a, id) = {f[u] : u \in a.units}
    BY DEF FinishedUnits
  <1>6. /\ b \in Allocator /\ b.work = a.work /\ b.counter = a.counter
        /\ b.units = FinishedUnits(a, id)
    BY <1>1, <1>3, <1>4, <1>5 DEF HalfCompleted, Allocator
  <1>7. \A u \in a.units : Id(u) # id => u \in FinishedUnits(a, id)
    BY DEF FinishedUnits
  <1> HIDE DEF b, f
  <1>8. \A v \in b.units : \E u \in a.units : v = f[u]
    BY <1>5, <1>6
  <1>9. Core(b.units)
    <2> DEFINE U == a.units
               V == b.units
    <2>1. /\ U \in SUBSET Unit /\ Core(U) /\ U \in SUBSET U
          /\ \A u \in U : SameRange(u, f[u])
          /\ \A v \in V : \E u \in U : v = f[u]
      BY <1>1, <1>2, <1>8
    <2> HIDE DEF U, V
    <2>2. Core(V)
      BY <2>1, CoreMap
    <2> QED BY <2>2 DEF V
  <1>10. CounterAhead(b)
    BY <1>1, <1>2, <1>6, <1>8 DEF Good, WellFormed, CounterAhead, UsesExtranonce2, SameRange
  <1>11. ~(UsesExtranonce2(b) /\ Encodable(b.work, b.counter))
    BY <1>6 DEF UsesExtranonce2, CompleteThrows
  <1>12. a.work = NoWork => b.units = {}
    BY <1>8 DEF Good, WellFormed
  <1>13. Good(b)
    BY <1>6, <1>9, <1>10, <1>11, <1>12
       DEF Good, WellFormed, CompleteErased, CpuHasOpen,
           Core, UniqueIds, DisjointUnits, CursorsInRange
  <1> QED BY <1>6, <1>7, <1>13 DEF b

(* A new group: well-formed units, all pending, on one extranonce2. *)
LEMMA LiveGroupFacts ==
  ASSUME NEW kind \in Kinds, NEW x \in Nat, NEW gen \in Nat
  PROVE  /\ LiveGroup(kind, x, gen) \in SUBSET Unit
         /\ LiveGroup(kind, x, gen) # {}
         /\ \A u \in LiveGroup(kind, x, gen) : u.kind = kind /\ u.x = x /\ u.status = "pending"
         /\ Core(LiveGroup(kind, x, gen))
  <1>1. CASE kind = "gpu"
    <2> DEFINE g == NewUnit("gpu", x, 0, 0, NonceSpace, gen)
    <2>1. /\ g \in Unit /\ g.kind = "gpu" /\ g.x = x /\ g.status = "pending"
          /\ g.start <= g.next /\ g.next <= g.end
      BY AllocatorAssumption DEF NewUnit, Unit, Kinds, Statuses
    <2>2. LiveGroup(kind, x, gen) = {g}
      BY <1>1 DEF LiveGroup
    <2> HIDE DEF g
    <2> QED BY <1>1, <2>1, <2>2 DEF Core
  <1>2. CASE kind = "cpu"
    <2>1. LiveGroup(kind, x, gen) = CpuGroup(x, CpuCount, gen)
      BY <1>2 DEF LiveGroup
    <2>2. CpuCount \in Nat \ {0} /\ CpuCount >= CpuCount
      BY AllocatorAssumption
    <2> QED BY <1>2, <2>1, <2>2, CpuGroupFacts
  <1> QED BY <1>1, <1>2 DEF Kinds

(* complete keeps the record good, the counter ahead and the CPU supplied. *)
LEMMA CompleteGood ==
  ASSUME NEW a, Good(a), NEW id, NEW w \in a.units, Id(w) = id, Open(w),
         ~CompleteThrows(a, id)
  PROVE  /\ Good(Complete(a, id))
         /\ Complete(a, id).work = a.work
         /\ \A u \in a.units : Id(u) # id /\ u.status # "complete" => u \in Complete(a, id).units
  <1> DEFINE b == Complete(a, id)
             R == {u \in a.units : Id(u) # id /\ u.status # "complete"}
  <1>1. /\ a \in Allocator /\ a.units \in SUBSET Unit /\ a.counter \in Nat /\ Core(a.units)
        /\ a.done \in SUBSET (Nat \X Nat) /\ a.work \in Work
    BY GoodParts DEF Good, WellFormed
  <1>2. Capacity(a.work) \in Nat
    BY <1>1, AllocatorAssumption DEF Capacity, Work
  <1>3. CASE Capacity(a.work) = 0
    <2>1. b = HalfCompleted(a, id)
      BY <1>3 DEF Complete
    <2> QED BY <1>3, <2>1, HalfCompletedGood
  <1>4. CASE Capacity(a.work) > 0
    <2>1. w \in Unit /\ w.kind \in Kinds /\ w.gen \in Nat
      BY <1>1 DEF Unit
    <2>2. \A u \in a.units : Id(u) = id => u = w
      BY <1>1 DEF Core
    <2>3. {u \in FinishedUnits(a, id) : u.status # "complete"} = R
      <3>1. \A u \in a.units : Finish(u).status = "complete"
        BY <1>1 DEF Finish, Unit
      <3> QED BY <3>1 DEF FinishedUnits
    <2>4. FinishedDone(a, id) \in SUBSET (Nat \X Nat)
      BY <1>1, RestType DEF FinishedDone
    <2>5. R \in SUBSET Unit /\ Core(R)
      BY <1>1 DEF Core
    <2>6. \A u \in R : u.x < a.counter
      BY <1>1, <1>4, AllocatorAssumption DEF Good, WellFormed, CounterAhead, UsesExtranonce2
    <2>7. a.work # NoWork /\ UsesExtranonce2(a)
      BY <1>1, <1>4, AllocatorAssumption DEF UsesExtranonce2
    <2>10. /\ b.units = R \cup NextGroup(a, id) /\ b.work = a.work /\ b.tenure = a.tenure
           /\ b.counter = (IF BringsGroup(a, id) THEN a.counter + 1 ELSE a.counter)
           /\ b.done = FinishedDone(a, id)
           /\ b = [units |-> b.units, work |-> b.work, counter |-> b.counter,
                   done |-> b.done, tenure |-> b.tenure]
      <3> DEFINE N == R \cup NextGroup(a, id)
                 c == IF BringsGroup(a, id) THEN a.counter + 1 ELSE a.counter
                 D == FinishedDone(a, id)
      <3>1. Capacity(a.work) # 0
        BY <1>2, <1>4
      <3>2. b = [a EXCEPT !.units = N, !.counter = c, !.done = D]
        <4> HIDE DEF R
        <4> QED BY <2>3, <3>1, Zenon DEF Complete
      <3>3. a = [units |-> a.units, work |-> a.work, counter |-> a.counter,
                 done |-> a.done, tenure |-> a.tenure]
        BY <1>1 DEF Allocator
      <3> HIDE DEF b, N, c, D
      <3>4. /\ b.units = N /\ b.work = a.work /\ b.tenure = a.tenure /\ b.counter = c /\ b.done = D
            /\ b = [units |-> b.units, work |-> b.work, counter |-> b.counter,
                    done |-> b.done, tenure |-> b.tenure]
        BY <3>2, <3>3
      <3> QED BY <3>4 DEF N, c, D
    <2>8. CASE BringsGroup(a, id)
      <3> DEFINE G == LiveGroup(w.kind, a.counter, w.gen)
      <3>1. Encodable(a.work, a.counter)
        BY <2>8 DEF CompleteThrows
      <3>2. {v \in a.units : Id(v) = id} = {w}
        BY <2>2
      <3>3. NextGroup(a, id) = G
        BY <2>8, <3>2 DEF NextGroup
      <3>4. /\ G \in SUBSET Unit /\ G # {} /\ Core(G)
            /\ \A u \in G : u.kind = w.kind /\ u.x = a.counter /\ u.status = "pending"
        BY <1>1, <2>1, LiveGroupFacts
      <3> HIDE DEF G, R
      <3>5. R \cup G \in SUBSET Unit /\ Core(R \cup G)
        <4>1. \A u \in R, g \in G : u.x # g.x
          BY <1>1, <2>6, <3>4
        <4> QED BY <2>5, <3>4, <4>1, CoreUnion
      <3> HIDE DEF b
      <3>6. /\ b \in Allocator /\ b.work = a.work /\ b.counter = a.counter + 1
            /\ b.units = R \cup G
        BY <1>1, <2>4, <2>8, <2>10, <3>3, <3>5 DEF Allocator
      <3>7. CounterAhead(b)
        <4>1. \A u \in R : u.x \in Nat
          BY <2>5 DEF Unit
        <4> QED BY <1>1, <2>6, <3>4, <3>6, <4>1 DEF CounterAhead
      <3>8. \A u \in b.units : u.status # "complete"
        BY <3>4, <3>6 DEF R
      <3>9. HasOpen(b.units, "cpu")
        <4>1. CASE w.kind = "cpu"
          BY <3>4, <3>6, <4>1 DEF HasOpen, Open
        <4>2. CASE w.kind = "gpu"
          <5>1. HasOpen(a.units, "cpu") \/ \A u \in a.units : u.status = "stale"
            BY <2>7, <3>1 DEF Good, WellFormed, CpuHasOpen
          <5>2. PICK u \in a.units : u.kind = "cpu" /\ Open(u)
            BY <5>1 DEF HasOpen, Open
          <5>3. u # w
            BY <4>2, <5>2
          <5>4. u \in R
            BY <2>2, <5>2, <5>3 DEF R, Open
          <5> QED BY <3>6, <5>2, <5>4 DEF HasOpen
        <4> QED BY <2>1, <4>1, <4>2 DEF Kinds
      <3>10. Good(b)
        BY <2>7, <3>5, <3>6, <3>7, <3>8, <3>9, MakeGood DEF CompleteErased, CpuHasOpen
      <3> QED BY <3>6, <3>10 DEF b, R
    <2>9. CASE ~BringsGroup(a, id)
      <3>1. NextGroup(a, id) = {}
        BY <2>9 DEF NextGroup
      <3>2. PICK v \in FinishedUnits(a, id) : v.kind = w.kind /\ Open(v)
        BY <1>4, <2>9 DEF BringsGroup, LastOfGroup
      <3>3. v \in R
        BY <2>3, <3>2 DEF Open
      <3> HIDE DEF b, R
      <3>4. /\ b \in Allocator /\ b.work = a.work /\ b.counter = a.counter /\ b.units = R
        BY <1>1, <2>4, <2>5, <2>9, <2>10, <3>1 DEF Allocator
      <3>5. CounterAhead(b)
        BY <2>6, <3>4 DEF CounterAhead
      <3>6. \A u \in b.units : u.status # "complete"
        BY <3>4 DEF R
      <3>7. CpuHasOpen(b)
        <4>1. SUFFICES ASSUME Encodable(a.work, a.counter) PROVE HasOpen(b.units, "cpu")
          BY <3>4 DEF CpuHasOpen
        <4>2. HasOpen(a.units, "cpu") \/ \A u \in a.units : u.status = "stale"
          BY <2>7, <4>1 DEF Good, WellFormed, CpuHasOpen
        <4>3. PICK u \in a.units : u.kind = "cpu" /\ Open(u)
          BY <4>2 DEF HasOpen, Open
        <4>4. CASE u = w
          BY <3>2, <3>3, <3>4, <4>3, <4>4 DEF HasOpen
        <4>5. CASE u # w
          <5>1. u \in R
            BY <2>2, <4>3, <4>5 DEF R, Open
          <5> QED BY <3>4, <4>3, <5>1 DEF HasOpen
        <4> QED BY <4>4, <4>5
      <3>8. Good(b)
        BY <2>5, <2>7, <3>4, <3>5, <3>6, <3>7, MakeGood DEF CompleteErased
      <3> QED BY <3>4, <3>8 DEF b, R
    <2> QED BY <2>8, <2>9
  <1> QED BY <1>2, <1>3, <1>4

-----------------------------------------------------------------------------
(* The units that prepare_live_job keeps, renewed. *)
LEMMA RenewedFacts ==
  ASSUME NEW a, Good(a), NEW w \in Work, NEW gen \in Nat
  PROVE  /\ Renewed(a, w, gen) \in SUBSET Unit /\ Core(Renewed(a, w, gen))
         /\ \A v \in Renewed(a, w, gen) :
              /\ v.status # "stale"
              /\ \E u \in a.units : v.x = u.x
              /\ Capacity(w) > 0 => v.status # "complete"
         /\ HasOpen(a.units, "cpu") => HasOpen(Renewed(a, w, gen), "cpu")
  <1> DEFINE U == a.units
             W == Kept(a, w)
             V == Renewed(a, w, gen)
             f == [u \in U |-> Renew(u, gen)]
  <1>1. U \in SUBSET Unit /\ Core(U)
    BY GoodParts
  <1>2. W \in SUBSET U
    BY DEF Kept
  <1>3. ASSUME NEW u \in U
        PROVE  /\ SameRange(u, Renew(u, gen))
               /\ Open(u) => Renew(u, gen).status = "pending"
               /\ ~Open(u) => Renew(u, gen).status = u.status
    <2>1. u \in Unit /\ u.start <= u.next /\ u.next <= u.end
      BY <1>1 DEF Core
    <2>2. CASE Open(u)
      <3>1. Renew(u, gen) = [u EXCEPT !.status = "pending", !.gen = gen]
        BY <2>2 DEF Renew
      <3> QED BY <2>1, <2>2, <3>1 DEF Unit, Statuses, SameRange
    <2>3. CASE ~Open(u)
      BY <2>1, <2>3 DEF Renew, SameRange
    <2> QED BY <2>2, <2>3
  <1>4. \A v \in V : \E u \in W : v = f[u]
    BY <1>2 DEF Renewed
  <1>5. \A u \in W : SameRange(u, f[u])
    BY <1>2, <1>3
  <1>6. V \in SUBSET Unit /\ Core(V)
    <2> HIDE DEF U, V, W, f
    <2> QED BY <1>1, <1>2, <1>4, <1>5, CoreMap
  <1>7. ASSUME NEW v \in V
        PROVE  /\ v.status # "stale"
               /\ \E u \in U : v.x = u.x
               /\ Capacity(w) > 0 => v.status # "complete"
    <2>1. PICK u \in W : v = Renew(u, gen)
      BY DEF Renewed
    <2>2. u \in U /\ u.status # "stale" /\ (Capacity(w) > 0 => u.status # "complete")
      BY <2>1 DEF Kept
    <2>3. v.x = u.x
      BY <1>3, <2>1, <2>2 DEF SameRange
    <2>4. v.status = u.status \/ v.status = "pending"
      BY <1>3, <2>1, <2>2
    <2> QED BY <2>2, <2>3, <2>4
  <1>8. ASSUME HasOpen(U, "cpu") PROVE HasOpen(V, "cpu")
    <2>1. PICK u \in U : u.kind = "cpu" /\ Open(u)
      BY <1>8 DEF HasOpen
    <2>2. u \in W
      BY <2>1 DEF Kept, Open
    <2>3. Renew(u, gen) \in V
      BY <2>2 DEF Renewed
    <2>4. Renew(u, gen).kind = "cpu" /\ Open(Renew(u, gen))
      BY <1>3, <2>1 DEF SameRange, Open
    <2> QED BY <2>3, <2>4 DEF HasOpen
  <1> QED BY <1>6, <1>7, <1>8

(* prepare_live_job never adds a CPU group to a state it resumes: the CPU has *)
(* an open unit, unless the extranonce2 values have run out.                  *)
LEMMA ResumedCpu ==
  ASSUME NEW a, Good(a), NEW w \in Work, NEW gen \in Nat,
         Compatible(a, w), NeedsCpu(a, w, gen)
  PROVE  ~Encodable(w, a.counter)
  <1>1. SUFFICES ASSUME Encodable(w, a.counter) PROVE FALSE
    OBVIOUS
  <1>2. UsesExtranonce2(a) /\ a.work = w
    BY AllocatorAssumption DEF Compatible, NeedsCpu, UsesExtranonce2
  <1>3. HasOpen(a.units, "cpu")
    BY <1>1, <1>2 DEF Good, WellFormed, CpuHasOpen, Compatible
  <1> QED BY <1>3, RenewedFacts DEF NeedsCpu

(* prepare_live_job interrupted by its exception leaves a good record. *)
LEMMA HalfPreparedGood ==
  ASSUME NEW a, Good(a), NEW w \in Work, NEW gen \in Nat, PrepareThrows(a, w, gen)
  PROVE  Good(HalfPrepared(a, w, gen)) /\ HalfPrepared(a, w, gen).work = a.work
  <1> DEFINE b == HalfPrepared(a, w, gen)
             V == Renewed(a, w, gen)
  <1>1. Compatible(a, w) /\ a.work = w /\ Capacity(w) > 0 /\ w # NoWork
    BY AllocatorAssumption DEF PrepareThrows, Compatible, NeedsCpu, NeedsGpu
  <1>2. ~(NeedsCpu(a, w, gen) /\ Encodable(w, a.counter))
    BY <1>1, ResumedCpu
  <1>3. a \in Allocator /\ a.counter \in Nat /\ a.units \in SUBSET Unit
    BY GoodParts DEF Good
  <1>4. V \in SUBSET Unit /\ Core(V)
    BY RenewedFacts
  <1>5. b \in Allocator /\ b.units = V /\ b.work = a.work /\ b.counter = a.counter
    <2>1. b = [a EXCEPT !.units = V]
      BY <1>2 DEF HalfPrepared
    <2> HIDE DEF b, V
    <2> QED BY <1>3, <1>4, <2>1 DEF Allocator
  <1>6. CounterAhead(b)
    <2>1. \A u \in a.units : u.x < a.counter
      BY <1>1 DEF Good, WellFormed, CounterAhead, UsesExtranonce2
    <2>2. \A v \in V : v.x < a.counter
      BY <2>1, RenewedFacts
    <2> HIDE DEF b, V
    <2> QED BY <1>5, <2>2 DEF CounterAhead
  <1>7. CompleteErased(b)
    <2>1. \A v \in V : v.status # "complete"
      BY <1>1, RenewedFacts
    <2> HIDE DEF b, V
    <2> QED BY <1>5, <2>1 DEF CompleteErased
  <1>8. CpuHasOpen(b)
    <2>1. Encodable(w, a.counter) => HasOpen(V, "cpu")
      BY <1>1, <1>2 DEF NeedsCpu
    <2> HIDE DEF b, V
    <2> QED BY <1>1, <1>5, <2>1 DEF CpuHasOpen
  <1>9. Good(b)
    <2> HIDE DEF b, V
    <2> QED BY <1>1, <1>4, <1>5, <1>6, <1>7, <1>8, MakeGood
  <1> QED BY <1>5, <1>9

(* Resuming a compatible work keeps the record good. *)
LEMMA ResumedGood ==
  ASSUME NEW a, Good(a), NEW w \in Work, NEW gen \in Nat,
         Compatible(a, w), ~PrepareThrows(a, w, gen)
  PROVE  Good(Resumed(a, w, gen)) /\ Resumed(a, w, gen).work = w
  <1> DEFINE b == Resumed(a, w, gen)
             V == Renewed(a, w, gen)
             G == LiveGroup("gpu", a.counter, gen)
             gpu == NeedsGpu(a, w, gen)
  <1>1. a.work = w /\ w # NoWork
    BY AllocatorAssumption DEF Compatible
  <1>2. ~NeedsCpu(a, w, gen)
    BY ResumedCpu DEF PrepareThrows
  <1>3. a \in Allocator /\ a.counter \in Nat /\ a.units \in SUBSET Unit
    BY GoodParts DEF Good
  <1>4. V \in SUBSET Unit /\ Core(V)
    BY RenewedFacts
  <1>5. /\ G \in SUBSET Unit /\ Core(G)
        /\ \A g \in G : g.x = a.counter /\ g.status = "pending"
    BY <1>3, LiveGroupFacts DEF Kinds
  <1>6. b = [a EXCEPT !.units = IF gpu THEN V \cup G ELSE V,
                      !.counter = IF gpu THEN a.counter + 1 ELSE a.counter]
    <2>1. GpuCounter(a, w, gen) = a.counter
      BY <1>2 DEF GpuCounter
    <2>2. V \cup {} \cup (IF gpu THEN G ELSE {}) = IF gpu THEN V \cup G ELSE V
      OBVIOUS
    <2>3. b = [a EXCEPT !.units = V \cup {} \cup (IF gpu THEN G ELSE {}),
                        !.counter = IF gpu THEN a.counter + 1 ELSE a.counter]
      BY <1>2, <2>1, Zenon DEF Resumed
    <2> HIDE DEF b, V, G, gpu
    <2> QED BY <2>2, <2>3
  <1>7. Capacity(w) \in Nat
    BY AllocatorAssumption DEF Capacity, Work
  <1>8. Capacity(w) > 0 => \A v \in V : v.x < a.counter /\ v.status # "complete"
    <2>1. Capacity(w) > 0 => \A u \in a.units : u.x < a.counter
      BY <1>1 DEF Good, WellFormed, CounterAhead, UsesExtranonce2
    <2> QED BY <2>1, RenewedFacts
  <1>9. gpu => Capacity(w) > 0
    BY DEF NeedsGpu
  <1>10. Capacity(w) > 0 => HasOpen(V, "cpu")
    BY <1>2 DEF NeedsCpu
  <1> HIDE DEF b, V, G, gpu
  <1>11. Core(V \cup G) \/ ~gpu
    <2>1. ASSUME gpu PROVE \A v \in V, g \in G : v.x # g.x
      BY <1>3, <1>5, <1>8, <1>9, <2>1
    <2> QED BY <1>4, <1>5, <2>1, CoreUnion
  <1>12. /\ b.units = (IF gpu THEN V \cup G ELSE V) /\ b.work = w
         /\ b.counter = (IF gpu THEN a.counter + 1 ELSE a.counter)
         /\ b \in Allocator
    <2> DEFINE N == IF gpu THEN V \cup G ELSE V
               c == IF gpu THEN a.counter + 1 ELSE a.counter
    <2>1. N \in SUBSET Unit /\ c \in Nat
      BY <1>3, <1>4, <1>5
    <2>2. b = [a EXCEPT !.units = N, !.counter = c]
      BY <1>6
    <2> HIDE DEF N, c
    <2>3. b.units = N /\ b.work = w /\ b.counter = c /\ b \in Allocator
      BY <1>1, <1>3, <2>1, <2>2 DEF Allocator
    <2> QED BY <2>3 DEF N, c
  <1>13. CounterAhead(b)
    <2>1. \A v \in V : v.x \in Nat
      BY <1>4 DEF Unit
    <2>2. Capacity(w) > 0 => \A v \in b.units : v.x < b.counter
      <3>1. CASE gpu
        BY <1>3, <1>5, <1>8, <1>12, <2>1, <3>1
      <3>2. CASE ~gpu
        BY <1>8, <1>12, <3>2
      <3> QED BY <3>1, <3>2
    <2> QED BY <1>12, <2>2 DEF CounterAhead, UsesExtranonce2
  <1>14. CompleteErased(b)
    <2>1. Capacity(w) > 0 => \A v \in b.units : v.status # "complete"
      BY <1>5, <1>8, <1>12
    <2> QED BY <1>12, <2>1 DEF CompleteErased, UsesExtranonce2
  <1>15. CpuHasOpen(b)
    <2>1. Capacity(w) > 0 => HasOpen(b.units, "cpu")
      BY <1>10, <1>12 DEF HasOpen
    <2> QED BY <1>12, <2>1 DEF CpuHasOpen, UsesExtranonce2
  <1>16. Good(b)
    BY <1>1, <1>4, <1>11, <1>12, <1>13, <1>14, <1>15, MakeGood
  <1> QED BY <1>12, <1>16 DEF b

(* Starting a work from its first extranonce2 makes a good record. *)
LEMMA RecreatedGood ==
  ASSUME NEW a, Good(a), NEW w \in Work, NEW gen \in Nat
  PROVE  Good(Recreated(a, w, gen)) /\ Recreated(a, w, gen).work = w
  <1> DEFINE b == Recreated(a, w, gen)
             p == Partitions(w)
             C == CpuGroup(0, p, gen)
             g == NewUnit("gpu", IF Capacity(w) = 0 THEN 0 ELSE 1, 0,
                          IF SharedNonceSpace(w) THEN Cut(CpuCount, p) ELSE 0, NonceSpace, gen)
  <1>1. Capacity(w) \in Nat /\ w # NoWork /\ CpuCount \in Nat \ {0}
    BY AllocatorAssumption DEF Capacity, Work
  <1>2. p \in Nat \ {0} /\ p >= CpuCount
    BY <1>1 DEF Partitions
  <1>3. /\ C \in SUBSET Unit /\ C # {} /\ Core(C)
        /\ \A u \in C : /\ u.kind = "cpu" /\ u.x = 0 /\ u.status = "pending"
                        /\ u.end <= Cut(CpuCount, p)
    BY <1>2, CpuGroupFacts
  <1>4. Cut(CpuCount, p) \in 0..NonceSpace
    BY <1>1, <1>2, CutRange
  <1>5. /\ g \in Unit /\ g.kind = "gpu" /\ g.status = "pending"
        /\ g.x = (IF Capacity(w) = 0 THEN 0 ELSE 1)
        /\ g.start = (IF SharedNonceSpace(w) THEN Cut(CpuCount, p) ELSE 0)
        /\ g.next = g.start /\ g.end = NonceSpace
    <2> HIDE DEF p
    <2> QED BY <1>4, AllocatorAssumption DEF NewUnit, Unit, Kinds, Statuses
  <1>6. CreatedUnits(w, gen) = IF GpuEnabled THEN C \cup {g} ELSE C
    BY DEF CreatedUnits
  <1> HIDE DEF p, C, g
  <1>7. ASSUME GpuEnabled PROVE C \cup {g} \in SUBSET Unit /\ Core(C \cup {g})
    <2>1. g.start <= g.next /\ g.next <= g.end
      BY <1>4, <1>5, AllocatorAssumption
    <2>2. CASE Capacity(w) = 0
      <3>1. \A u \in C : u.end <= g.start /\ Id(u) # Id(g)
        BY <1>3, <1>5, <1>7, <2>2 DEF SharedNonceSpace, Id
      <3> QED BY <1>3, <1>5, <2>1, <3>1 DEF Core
    <2>3. CASE Capacity(w) # 0
      <3>1. {g} \in SUBSET Unit /\ Core({g})
        BY <1>5, <2>1 DEF Core
      <3>2. \A u \in C, v \in {g} : u.x # v.x
        BY <1>3, <1>5, <2>3
      <3> QED BY <1>3, <3>1, <3>2, CoreUnion
    <2> QED BY <2>2, <2>3
  <1>8. CreatedUnits(w, gen) \in SUBSET Unit /\ Core(CreatedUnits(w, gen))
    BY <1>3, <1>6, <1>7
  <1>9. /\ a.done \in SUBSET (Nat \X Nat) /\ a.tenure \in Nat
    BY GoodParts
  <1>10. /\ b \in Allocator /\ b.units = CreatedUnits(w, gen) /\ b.work = w
         /\ b.counter = CreatedCounter(w)
    <2>1. CreatedCounter(w) \in Nat
      BY DEF CreatedCounter
    <2> QED BY <1>8, <1>9, <2>1 DEF Recreated, Allocator
  <1> HIDE DEF b
  <1>11. CounterAhead(b)
    <2>1. Capacity(w) > 0 => \A u \in CreatedUnits(w, gen) : u.x < CreatedCounter(w)
      BY <1>1, <1>3, <1>5, <1>6 DEF CreatedCounter
    <2> QED BY <1>10, <2>1 DEF CounterAhead, UsesExtranonce2
  <1>12. \A u \in CreatedUnits(w, gen) : u.status # "complete"
    BY <1>3, <1>5, <1>6
  <1>13. HasOpen(CreatedUnits(w, gen), "cpu")
    BY <1>3, <1>6 DEF HasOpen, Open
  <1>14. Good(b)
    BY <1>1, <1>8, <1>10, <1>11, <1>12, <1>13, MakeGood DEF CompleteErased, CpuHasOpen
  <1> QED BY <1>10, <1>14 DEF b

(* prepare_live_job keeps the record good and makes the work the current one. *)
LEMMA PrepareGood ==
  ASSUME NEW a, Good(a), NEW w \in Work, NEW gen \in Nat, ~PrepareThrows(a, w, gen)
  PROVE  Good(PrepareLiveJob(a, w, gen)) /\ PrepareLiveJob(a, w, gen).work = w
  <1>1. CASE Compatible(a, w)
    BY <1>1, ResumedGood DEF PrepareLiveJob
  <1>2. CASE ~Compatible(a, w)
    BY <1>2, RecreatedGood DEF PrepareLiveJob
  <1> QED BY <1>1, <1>2

(* The record of a first start is good. *)
LEMMA EmptyGood ==
  Good(EmptyAllocator)
  BY DEF Good, EmptyAllocator, Allocator, WellFormed, UniqueIds, DisjointUnits,
         CursorsInRange, CounterAhead, UsesExtranonce2, CompleteErased, CpuHasOpen

-----------------------------------------------------------------------------
(***************************************************************************)
(* The accounting invariant of one record (in memory, on its way to the     *)
(* file, or in it): what is recorded is not given out again, nothing lies   *)
(* outside the reserved extranonce2 values, and nothing reserved is lost.   *)
(* That a record of a work has units, and an open CPU unit when it counts   *)
(* extranonce2 values, is what makes prepare_live_job keep it.              *)
(***************************************************************************)
NoStale(r) == \A u \in r.units : u.status # "stale"

WithinReserved(r) ==
  /\ \A z \in r.done : z[1] \in Reserved(r)
  /\ \A u \in r.units : u.x \in Reserved(r)

Supplied(r) ==
  /\ r.work # NoWork => r.units # {}
  /\ UsesExtranonce2(r) /\ NoStale(r) => HasOpen(r.units, "cpu")

Accounted(r) == NothingReallocated(r) /\ WithinReserved(r) /\ NothingForgotten(r)

Exact(r) == Accounted(r) /\ Supplied(r)

(* The units of two records hold the same nonces, and those of b wait in b    *)
(* if they waited in a.                                                      *)
SameRest(u, v) ==
  /\ v.kind = u.kind /\ v.x = u.x /\ v.next = u.next /\ v.end = u.end
  /\ Open(v) <=> Open(u)
  /\ v.status = "complete" <=> u.status = "complete"
  /\ v.status = "stale" <=> u.status = "stale"

(* A change of status that keeps every unit's nonces keeps the account. *)
LEMMA MapExact ==
  ASSUME NEW a, Exact(a), NEW b, NEW f,
         b.work = a.work, b.counter = a.counter, b.done = a.done,
         b.units = {f[u] : u \in a.units},
         \A u \in a.units : SameRest(u, f[u])
  PROVE  Exact(b)
  <1>1. Reserved(b) = Reserved(a) /\ (UsesExtranonce2(b) <=> UsesExtranonce2(a))
    BY DEF Reserved, UsesExtranonce2
  <1>2. \A u \in a.units : Rest(f[u]) = Rest(u) /\ f[u] \in b.units
    BY DEF SameRest, Rest
  <1>3. \A v \in b.units : \E u \in a.units : v = f[u]
    OBVIOUS
  <1>4. NothingReallocated(b)
    <2>1. SUFFICES ASSUME NEW v \in b.units, Open(v) PROVE Rest(v) \cap a.done = {}
      BY DEF NothingReallocated
    <2>2. PICK u \in a.units : v = f[u]
      BY <1>3
    <2>3. Open(u) /\ Rest(v) = Rest(u)
      BY <1>2, <2>1, <2>2 DEF SameRest
    <2> QED BY <2>3 DEF Exact, Accounted, NothingReallocated
  <1>5. WithinReserved(b)
    BY <1>1, <1>3 DEF Exact, Accounted, WithinReserved, SameRest
  <1>6. NothingForgotten(b)
    <2>1. SUFFICES ASSUME NEW x \in Reserved(a), NEW n \in 0..(NonceSpace - 1), <<x, n>> \notin a.done
                   PROVE  \E v \in b.units : v.status # "complete" /\ <<x, n>> \in Rest(v)
      BY <1>1 DEF NothingForgotten
    <2>2. PICK u \in a.units : u.status # "complete" /\ <<x, n>> \in Rest(u)
      BY <2>1 DEF Exact, Accounted, NothingForgotten
    <2>3. f[u] \in b.units /\ f[u].status # "complete" /\ <<x, n>> \in Rest(f[u])
      BY <1>2, <2>2 DEF SameRest
    <2> QED BY <2>3
  <1>7. Supplied(b)
    <2>1. (a.units # {} => b.units # {}) /\ (NoStale(b) => NoStale(a))
      BY <1>2 DEF NoStale, SameRest
    <2>2. HasOpen(a.units, "cpu") => HasOpen(b.units, "cpu")
      BY <1>2 DEF HasOpen, SameRest
    <2> QED BY <1>1, <2>1, <2>2 DEF Exact, Accounted, Supplied
  <1> QED BY <1>4, <1>5, <1>6, <1>7 DEF Exact, Accounted

(* acquire moves a pending unit to in_progress: its nonces still wait. *)
LEMMA AcquiredExact ==
  ASSUME NEW a, Good(a), Exact(a), NEW u \in a.units, u.status = "pending"
  PROVE  Exact(Acquired(a, u))
  <1> DEFINE b == Acquired(a, u)
             f == [v \in a.units |-> IF v = u THEN [u EXCEPT !.status = "in_progress"] ELSE v]
  <1>1. a \in Allocator /\ a.units \in SUBSET Unit
    BY GoodParts DEF Good
  <1>2. /\ b.work = a.work /\ b.counter = a.counter /\ b.done = a.done
        /\ b.units = (a.units \ {u}) \cup {[u EXCEPT !.status = "in_progress"]}
    BY <1>1 DEF Acquired, Allocator
  <1>3. b.units = {f[v] : v \in a.units}
    BY <1>2
  <1>4. \A v \in a.units : SameRest(v, f[v])
    BY <1>1 DEF SameRest, Open, Unit, Statuses
  <1> HIDE DEF b, f
  <1>5. Exact(b)
    BY <1>2, <1>3, <1>4, MapExact
  <1> QED BY <1>5 DEF b

(* release moves it back, and leaves every other unit alone. *)
LEMMA ReleaseExact ==
  ASSUME NEW a, Good(a), Exact(a), NEW id
  PROVE  Exact(Release(a, id))
  <1> DEFINE b == Release(a, id)
             f == [u \in a.units |-> IF Id(u) = id /\ u.status = "in_progress"
                                    THEN [u EXCEPT !.status = "pending"] ELSE u]
  <1>1. a \in Allocator /\ a.units \in SUBSET Unit
    BY GoodParts DEF Good
  <1>2. \A u \in a.units : SameRest(u, f[u])
    BY <1>1 DEF SameRest, Open, Unit, Statuses
  <1>3. b.units = {f[u] : u \in a.units} /\ b.work = a.work /\ b.counter = a.counter /\ b.done = a.done
    BY <1>1 DEF Release, Allocator
  <1> HIDE DEF b, f
  <1>4. Exact(b)
    BY <1>2, <1>3, MapExact
  <1> QED BY <1>4 DEF b

(* load_existing makes the units in progress pending again. *)
LEMMA LoadExact ==
  ASSUME NEW a, Good(a), Exact(a)
  PROVE  Exact(LoadExisting(a))
  <1> DEFINE b == LoadExisting(a)
             f == [u \in a.units |-> IF u.status = "in_progress"
                                    THEN [u EXCEPT !.status = "pending"] ELSE u]
  <1>1. a \in Allocator /\ a.units \in SUBSET Unit
    BY GoodParts DEF Good
  <1>2. \A u \in a.units : SameRest(u, f[u])
    BY <1>1 DEF SameRest, Open, Unit, Statuses
  <1>3. b.units = {f[u] : u \in a.units} /\ b.work = a.work /\ b.counter = a.counter /\ b.done = a.done
    BY <1>1 DEF LoadExisting, Allocator
  <1> HIDE DEF b, f
  <1>4. Exact(b)
    BY <1>2, <1>3, MapExact
  <1> QED BY <1>4 DEF b

(* mark_all_stale abandons the open units; what is recorded stays so. *)
LEMMA StaleExact ==
  ASSUME NEW a, Good(a), Exact(a)
  PROVE  Exact(MarkAllStale(a))
  <1> DEFINE b == MarkAllStale(a)
             f == [u \in a.units |-> IF u.status = "complete" THEN u
                                    ELSE [u EXCEPT !.status = "stale"]]
  <1>1. a \in Allocator /\ a.units \in SUBSET Unit
    BY GoodParts DEF Good
  <1>2. \A u \in a.units : /\ f[u].kind = u.kind /\ f[u].x = u.x /\ f[u].next = u.next
                           /\ f[u].end = u.end
                           /\ f[u].status = (IF u.status = "complete" THEN "complete" ELSE "stale")
    BY <1>1 DEF Unit, Statuses
  <1>3. b.units = {f[u] : u \in a.units} /\ b.work = a.work /\ b.counter = a.counter /\ b.done = a.done
    BY <1>1 DEF MarkAllStale, Allocator
  <1> HIDE DEF b, f
  <1>4. \A v \in b.units : \E u \in a.units : v = f[u]
    BY <1>3
  <1>5. \A u \in a.units : f[u] \in b.units /\ Rest(f[u]) = Rest(u)
    BY <1>2, <1>3 DEF Rest
  <1>6. Reserved(b) = Reserved(a) /\ (UsesExtranonce2(b) <=> UsesExtranonce2(a))
    BY <1>3 DEF Reserved, UsesExtranonce2
  <1>7. NothingReallocated(b)
    BY <1>2, <1>4 DEF NothingReallocated, Open
  <1>8. WithinReserved(b)
    BY <1>2, <1>3, <1>4, <1>6 DEF Exact, Accounted, WithinReserved
  <1>9. NothingForgotten(b)
    <2>1. SUFFICES ASSUME NEW x \in Reserved(a), NEW n \in 0..(NonceSpace - 1), <<x, n>> \notin a.done
                   PROVE  \E v \in b.units : v.status # "complete" /\ <<x, n>> \in Rest(v)
      BY <1>3, <1>6 DEF NothingForgotten
    <2>2. PICK u \in a.units : u.status # "complete" /\ <<x, n>> \in Rest(u)
      BY <2>1 DEF Exact, Accounted, NothingForgotten
    <2>3. f[u] \in b.units /\ f[u].status # "complete" /\ <<x, n>> \in Rest(f[u])
      BY <1>2, <1>5, <2>2
    <2> QED BY <2>3
  <1>10. Supplied(b)
    <2>1. a.units # {} => b.units # {}
      BY <1>5
    <2>2. ASSUME NoStale(b) PROVE NoStale(a) /\ ~HasOpen(a.units, "cpu")
      BY <1>2, <1>5, <2>2 DEF NoStale, HasOpen, Open
    <2> QED BY <1>3, <1>6, <2>1, <2>2 DEF Exact, Accounted, Supplied
  <1> QED BY <1>7, <1>8, <1>9, <1>10 DEF Exact, Accounted, b

(* Two units of a good record share no nonce. *)
LEMMA RestDisjoint ==
  ASSUME NEW a, Good(a), NEW u \in a.units, NEW v \in a.units, u # v
  PROVE  Rest(u) \cap Rest(v) = {}
  <1>1. u \in Unit /\ v \in Unit /\ Core(a.units)
    BY GoodParts
  <1>2. u.x = v.x => u.end <= v.start \/ v.end <= u.start
    BY <1>1 DEF Core
  <1>3. u.start <= u.next /\ v.start <= v.next
    BY <1>1 DEF Core
  <1>4. /\ u.start \in Int /\ u.next \in Int /\ u.end \in Int
        /\ v.start \in Int /\ v.next \in Int /\ v.end \in Int
    BY <1>1 DEF Unit
  <1> QED BY <1>2, <1>3, <1>4 DEF Rest

(* update_progress of an open unit moves nonces from the unit to the record. *)
LEMMA UpdateExact ==
  ASSUME NEW a, Good(a), Exact(a), NEW id, NEW n \in Nat, NEW w \in a.units, Id(w) = id, Open(w),
         w.next <= n, n <= w.end
  PROVE  /\ Exact(UpdateProgress(a, id, n))
         /\ UpdateProgress(a, id, n).done = a.done \cup ({w.x} \X (w.next .. (n - 1)))
         /\ UpdateProgress(a, id, n).tenure = a.tenure
  <1> DEFINE b == UpdateProgress(a, id, n)
             v == Advance(w, n)
             D == {w.x} \X (w.next .. (n - 1))
  <1>1. /\ a \in Allocator /\ a.units \in SUBSET Unit /\ w \in Unit /\ Core(a.units)
    BY GoodParts DEF Good
  <1>2. \A u \in a.units : Id(u) = id /\ Open(u) <=> u = w
    BY <1>1 DEF Core
  <1>3. /\ w.start \in Int /\ w.next \in Int /\ w.end \in Int /\ w.start <= w.next
    BY <1>1 DEF Core, Unit
  <1>4. /\ v.kind = w.kind /\ v.x = w.x /\ v.next = n /\ v.end = w.end /\ v.status = w.status
    <2>1. Clamp(n, w.start, w.end) = n
      BY <1>3 DEF Clamp
    <2> QED BY <1>1, <2>1 DEF Advance, Unit
  <1>5. Rest(w) \ Rest(v) = D /\ Rest(v) \subseteq Rest(w) /\ D \cap Rest(v) = {} /\ D \subseteq Rest(w)
    <2>1. Rest(w) = {w.x} \X (w.next .. (w.end - 1)) /\ Rest(v) = {w.x} \X (n .. (w.end - 1))
      BY <1>4 DEF Rest
    <2> HIDE DEF v
    <2> QED BY <1>3, <2>1
  <1>6. Rest(w) = D \cup Rest(v)
    BY <1>5
  <1>7. {u \in a.units : Id(u) = id /\ Open(u)} = {w}
    BY <1>2
  <1>8. /\ b.work = a.work /\ b.counter = a.counter /\ b.tenure = a.tenure
        /\ b.units = (a.units \ {w}) \cup {v}
        /\ b.done = a.done \cup D
    <2>1. b = [a EXCEPT !.units = (a.units \ {w}) \cup {Advance(u, n) : u \in {w}},
                        !.done = a.done \cup UNION {Rest(u) \ Rest(Advance(u, n)) : u \in {w}}]
      BY <1>7, Zenon DEF UpdateProgress
    <2>2. {Advance(u, n) : u \in {w}} = {v} /\ UNION {Rest(u) \ Rest(Advance(u, n)) : u \in {w}} = D
      BY <1>5
    <2>3. a = [units |-> a.units, work |-> a.work, counter |-> a.counter,
                 done |-> a.done, tenure |-> a.tenure]
      BY <1>1 DEF Allocator
    <2> HIDE DEF b, v, D
    <2>4. b = [a EXCEPT !.units = (a.units \ {w}) \cup {v}, !.done = a.done \cup D]
      BY <2>1, <2>2
    <2> QED BY <2>3, <2>4
  <1>9. \A u \in a.units \ {w} : Rest(u) \cap Rest(w) = {}
    BY RestDisjoint
  <1>10. \A z \in D : z[1] = w.x
    OBVIOUS
  <1> HIDE DEF b, v, D
  <1>11. Reserved(b) = Reserved(a) /\ (UsesExtranonce2(b) <=> UsesExtranonce2(a))
    BY <1>8 DEF Reserved, UsesExtranonce2
  <1>12. NothingReallocated(b)
    <2>1. \A u \in a.units : Open(u) => Rest(u) \cap a.done = {}
      BY DEF Exact, Accounted, NothingReallocated
    <2>2. Rest(v) \cap a.done = {}
      BY <1>5, <2>1
    <2> QED BY <1>5, <1>8, <1>9, <2>1, <2>2 DEF NothingReallocated
  <1>13. WithinReserved(b)
    BY <1>4, <1>8, <1>10, <1>11 DEF Exact, Accounted, WithinReserved
  <1>14. NothingForgotten(b)
    <2>1. SUFFICES ASSUME NEW x \in Reserved(a), NEW m \in 0..(NonceSpace - 1),
                          <<x, m>> \notin a.done, <<x, m>> \notin D
                   PROVE  \E u \in b.units : u.status # "complete" /\ <<x, m>> \in Rest(u)
      BY <1>8, <1>11 DEF NothingForgotten
    <2>2. PICK u \in a.units : u.status # "complete" /\ <<x, m>> \in Rest(u)
      BY <2>1 DEF Exact, Accounted, NothingForgotten
    <2>3. CASE u = w
      BY <1>4, <1>6, <1>8, <2>1, <2>2, <2>3
    <2>4. CASE u # w
      BY <1>8, <2>2, <2>4
    <2> QED BY <2>3, <2>4
  <1>15. Supplied(b)
    <2>1. NoStale(b) => NoStale(a)
      BY <1>4, <1>8 DEF NoStale
    <2>2. HasOpen(a.units, "cpu") => HasOpen(b.units, "cpu")
      BY <1>4, <1>8 DEF HasOpen, Open
    <2> QED BY <1>8, <1>11, <2>1, <2>2 DEF Exact, Accounted, Supplied
  <1>16. Exact(b)
    BY <1>12, <1>13, <1>14, <1>15 DEF Exact, Accounted
  <1> QED BY <1>8, <1>16 DEF b, D

(* complete without a new group: what the unit had left is recorded. *)
LEMMA HalfCompletedExact ==
  ASSUME NEW a, Good(a), Exact(a), NEW id, NEW w \in a.units, Id(w) = id, Open(w),
         Capacity(a.work) = 0 \/ w.kind = "gpu"
  PROVE  /\ Exact(HalfCompleted(a, id))
         /\ HalfCompleted(a, id).done = a.done \cup Rest(w)
         /\ HalfCompleted(a, id).tenure = a.tenure
  <1> DEFINE b == HalfCompleted(a, id)
             v == Finish(w)
  <1>1. /\ a \in Allocator /\ a.units \in SUBSET Unit /\ w \in Unit /\ Core(a.units)
    BY GoodParts DEF Good
  <1>2. \A u \in a.units : Id(u) = id <=> u = w
    BY <1>1 DEF Core
  <1>3. v.kind = w.kind /\ v.x = w.x /\ v.status = "complete"
    BY <1>1 DEF Finish, Unit
  <1>4. {u \in a.units : Id(u) = id} = {w}
    BY <1>2
  <1>5. /\ b.work = a.work /\ b.counter = a.counter /\ b.tenure = a.tenure
        /\ b.units = (a.units \ {w}) \cup {v}
        /\ b.done = a.done \cup Rest(w)
    <2>1. FinishedDone(a, id) = a.done \cup Rest(w)
      BY <1>4 DEF FinishedDone
    <2>2. FinishedUnits(a, id) = (a.units \ {w}) \cup {v}
      BY <1>2 DEF FinishedUnits
    <2>3. a = [units |-> a.units, work |-> a.work, counter |-> a.counter,
                 done |-> a.done, tenure |-> a.tenure]
      BY <1>1 DEF Allocator
    <2>4. b = [a EXCEPT !.units = (a.units \ {w}) \cup {v}, !.done = a.done \cup Rest(w)]
      BY <2>1, <2>2, Zenon DEF HalfCompleted
    <2> HIDE DEF b, v
    <2> QED BY <2>3, <2>4
  <1>6. \A u \in a.units \ {w} : Rest(u) \cap Rest(w) = {}
    BY RestDisjoint
  <1>7. \A z \in Rest(w) : z[1] = w.x
    BY DEF Rest
  <1> HIDE DEF b, v
  <1>8. Reserved(b) = Reserved(a) /\ (UsesExtranonce2(b) <=> UsesExtranonce2(a))
    BY <1>5 DEF Reserved, UsesExtranonce2
  <1>9. NothingReallocated(b)
    BY <1>3, <1>5, <1>6 DEF NothingReallocated, Exact, Accounted, Open
  <1>10. WithinReserved(b)
    BY <1>3, <1>5, <1>7, <1>8 DEF Exact, Accounted, WithinReserved
  <1>11. NothingForgotten(b)
    <2>1. SUFFICES ASSUME NEW x \in Reserved(a), NEW m \in 0..(NonceSpace - 1),
                          <<x, m>> \notin a.done, <<x, m>> \notin Rest(w)
                   PROVE  \E u \in b.units : u.status # "complete" /\ <<x, m>> \in Rest(u)
      BY <1>5, <1>8 DEF NothingForgotten
    <2>2. PICK u \in a.units : u.status # "complete" /\ <<x, m>> \in Rest(u)
      BY <2>1 DEF Exact, Accounted, NothingForgotten
    <2> QED BY <1>5, <2>1, <2>2
  <1>12. Supplied(b)
    <2>1. NoStale(b) => NoStale(a)
      BY <1>5 DEF NoStale, Open
    <2>2. w.kind = "gpu" /\ HasOpen(a.units, "cpu") => HasOpen(b.units, "cpu")
      BY <1>5 DEF HasOpen
    <2>3. UsesExtranonce2(a) => w.kind = "gpu"
      BY DEF UsesExtranonce2
    <2> QED BY <1>5, <1>8, <2>1, <2>2, <2>3 DEF Exact, Accounted, Supplied
  <1>13. Exact(b)
    BY <1>9, <1>10, <1>11, <1>12 DEF Exact, Accounted
  <1> QED BY <1>5, <1>13 DEF b

-----------------------------------------------------------------------------
(* The partitions leave no nonce out. *)
LEMMA CutCover ==
  ASSUME NEW p \in Nat \ {0}, NEW n \in 0..(NonceSpace - 1)
  PROVE  \E i \in 0..(p - 1) : Cut(i, p) <= n /\ n < Cut(i + 1, p)
  <1> DEFINE N == NonceSpace
             k == (n + 1) * p - 1
             i == k \div N
  <1>1. N \in Nat \ {0} /\ n \in Nat /\ n + 1 \in Nat \ {0} /\ n + 1 <= N
    BY AllocatorAssumption
  <1>2. k \in Nat /\ k < N * p /\ k = n * p + p - 1
    BY <1>1
  <1>3. i \in Nat /\ N * i <= k /\ k < N * (i + 1)
    <2> HIDE DEF k
    <2> QED BY <1>1, <1>2, DivBounds
  <1>4. i < p
    <2>1. SUFFICES ASSUME p <= i PROVE FALSE
      BY <1>3
    <2>2. N * p <= N * i
      <3> HIDE DEF i
      <3> QED BY <1>1, <1>3, <2>1
    <2> HIDE DEF k, i
    <2> QED BY <1>1, <1>2, <1>3, <2>2
  <1> HIDE DEF i
  <1>5. Cut(i, p) <= n
    <2> DEFINE q == N * i
               c == q \div p
    <2>1. q \in Nat /\ q <= k
      BY <1>1, <1>3
    <2>2. c \in Nat /\ p * c <= q
      <3> HIDE DEF q
      <3> QED BY <2>1, DivBounds
    <2> HIDE DEF c
    <2>3. SUFFICES ASSUME n < c PROVE FALSE
      BY <1>1, <2>2 DEF Cut, c
    <2>4. p * (n + 1) <= p * c
      BY <1>1, <2>2, <2>3, MulMono
    <2>5. p * (n + 1) = k + 1
      BY <1>1
    <2> HIDE DEF q, k
    <2> QED BY <1>2, <2>1, <2>2, <2>4, <2>5
  <1>6. n < Cut(i + 1, p)
    <2> DEFINE q == N * (i + 1)
               c == q \div p
    <2>1. q \in Nat /\ k + 1 <= q
      BY <1>1, <1>2, <1>3
    <2>2. c \in Nat /\ q < p * (c + 1)
      <3> HIDE DEF q
      <3> QED BY <2>1, DivBounds
    <2>3. p * (n + 1) = k + 1
      BY <1>1
    <2> HIDE DEF c
    <2>4. SUFFICES ASSUME c < n + 1 PROVE FALSE
      BY <1>1, <2>2 DEF Cut, c
    <2>5. p * (c + 1) <= p * (n + 1)
      BY <1>1, <2>2, <2>4, MulMono
    <2> HIDE DEF q, k
    <2> QED BY <1>2, <2>1, <2>2, <2>3, <2>5
  <1> QED BY <1>3, <1>4, <1>5, <1>6

(* The CPU units of a group hold every nonce below the last cut. *)
LEMMA CpuGroupCover ==
  ASSUME NEW x \in Nat, NEW p \in Nat \ {0}, NEW gen \in Nat,
         NEW n \in 0..(NonceSpace - 1), p = CpuCount \/ (p = CpuCount + 1 /\ n < Cut(CpuCount, p))
  PROVE  \E u \in CpuGroup(x, p, gen) : <<x, n>> \in Rest(u)
  <1>1. CpuCount \in Nat \ {0}
    BY AllocatorAssumption
  <1>2. PICK i \in 0..(p - 1) : Cut(i, p) <= n /\ n < Cut(i + 1, p)
    BY CutCover
  <1>3. Cut(i, p) \in Int /\ Cut(i + 1, p) \in Int /\ Cut(CpuCount, p) \in Int
    BY <1>1, CutRange
  <1>4. i # CpuCount
    BY <1>1, <1>2, <1>3
  <1>5. i \in 0..(CpuCount - 1)
    BY <1>1, <1>4
  <1> DEFINE u == NewUnit("cpu", x, i, Cut(i, p), Cut(i + 1, p), gen)
  <1>6. u \in CpuGroup(x, p, gen)
    BY <1>5 DEF CpuGroup
  <1>7. u.x = x /\ u.next = Cut(i, p) /\ u.end = Cut(i + 1, p)
    BY DEF NewUnit
  <1>8. n \in u.next .. (u.end - 1)
    <2> HIDE DEF u
    <2> QED BY <1>2, <1>3, <1>7
  <1> HIDE DEF u
  <1> QED BY <1>6, <1>7, <1>8 DEF Rest

(* A new group holds every nonce of its extranonce2. *)
LEMMA LiveGroupCover ==
  ASSUME NEW kind \in Kinds, NEW x \in Nat, NEW gen \in Nat, NEW n \in 0..(NonceSpace - 1)
  PROVE  \E u \in LiveGroup(kind, x, gen) : <<x, n>> \in Rest(u)
  <1>1. CASE kind = "gpu"
    <2> DEFINE g == NewUnit("gpu", x, 0, 0, NonceSpace, gen)
    <2>1. g.x = x /\ g.next = 0 /\ g.end = NonceSpace
      BY DEF NewUnit
    <2>2. LiveGroup(kind, x, gen) = {g}
      BY <1>1 DEF LiveGroup
    <2> HIDE DEF g
    <2> QED BY <2>1, <2>2 DEF Rest
  <1>2. CASE kind = "cpu"
    BY <1>2, CpuGroupCover, AllocatorAssumption DEF LiveGroup
  <1> QED BY <1>1, <1>2 DEF Kinds

(* Adding a group on the next extranonce2 leaves nothing out. *)
LEMMA GroupAccounted ==
  ASSUME NEW a, Accounted(a), a.counter \in Nat, UsesExtranonce2(a), NEW kind \in Kinds, NEW gen \in Nat,
         NEW b, b.work = a.work, b.counter = a.counter + 1, b.done = a.done,
         b.units = a.units \cup LiveGroup(kind, a.counter, gen)
  PROVE  Accounted(b)
  <1> DEFINE G == LiveGroup(kind, a.counter, gen)
  <1>1. /\ G # {} /\ \A u \in G : u.kind = kind /\ u.x = a.counter /\ u.status = "pending"
        /\ \A n \in 0..(NonceSpace - 1) : \E u \in G : <<a.counter, n>> \in Rest(u)
    BY LiveGroupFacts, LiveGroupCover
  <1>2. b.units = a.units \cup G
    OBVIOUS
  <1> HIDE DEF G
  <1>3. Capacity(a.work) # 0
    BY DEF UsesExtranonce2
  <1>4. Reserved(a) = 0..(a.counter - 1) /\ Reserved(b) = 0..a.counter
    BY <1>3 DEF Reserved, UsesExtranonce2
  <1>5. NothingReallocated(b)
    <2>1. ASSUME NEW u \in G PROVE Rest(u) \cap a.done = {}
      <3>1. \A z \in Rest(u) : z[1] = a.counter
        BY <1>1 DEF Rest
      <3>2. \A z \in a.done : z[1] # a.counter
        BY <1>4 DEF Accounted, WithinReserved
      <3> QED BY <3>1, <3>2
    <2> QED BY <1>2, <2>1 DEF NothingReallocated, Accounted
  <1>6. WithinReserved(b)
    BY <1>1, <1>2, <1>4 DEF Accounted, WithinReserved
  <1>7. NothingForgotten(b)
    <2>1. SUFFICES ASSUME NEW x \in 0..a.counter, NEW n \in 0..(NonceSpace - 1), <<x, n>> \notin a.done
                   PROVE  \E u \in b.units : u.status # "complete" /\ <<x, n>> \in Rest(u)
      BY <1>4 DEF NothingForgotten
    <2>2. CASE x = a.counter
      BY <1>1, <1>2, <2>2
    <2>3. CASE x # a.counter
      <3>1. x \in Reserved(a)
        BY <1>4, <2>1, <2>3
      <3> QED BY <1>2, <2>1, <3>1 DEF Accounted, NothingForgotten
    <2> QED BY <2>2, <2>3
  <1> QED BY <1>5, <1>6, <1>7 DEF Accounted

(* complete records what the unit had left and brings the next extranonce2. *)
LEMMA CompleteExact ==
  ASSUME NEW a, Good(a), Exact(a), NEW id, NEW w \in a.units, Id(w) = id, Open(w)
  PROVE  /\ Exact(Complete(a, id))
         /\ Complete(a, id).done = a.done \cup Rest(w)
         /\ Complete(a, id).tenure = a.tenure
  <1> DEFINE b == Complete(a, id)
             R == {u \in a.units : Id(u) # id /\ u.status # "complete"}
             G == LiveGroup(w.kind, a.counter, w.gen)
             brings == BringsGroup(a, id)
  <1>1. /\ a \in Allocator /\ a.units \in SUBSET Unit /\ w \in Unit /\ Core(a.units)
        /\ a.counter \in Nat /\ a.work \in Work /\ a.work # NoWork
    BY GoodParts, AllocatorAssumption DEF Good, WellFormed
  <1>2. Capacity(a.work) \in Nat
    BY <1>1, AllocatorAssumption DEF Capacity, Work
  <1>3. CASE Capacity(a.work) = 0
    <2>1. b = HalfCompleted(a, id)
      BY <1>3 DEF Complete
    <2> QED BY <1>3, <2>1, HalfCompletedExact
  <1>4. CASE Capacity(a.work) # 0
    <2>1. w.kind \in Kinds /\ w.gen \in Nat
      BY <1>1 DEF Unit
    <2>2. \A u \in a.units : Id(u) = id <=> u = w
      BY <1>1 DEF Core
    <2>3. {u \in FinishedUnits(a, id) : u.status # "complete"} = R
      <3>1. \A u \in a.units : Finish(u).status = "complete"
        BY <1>1 DEF Finish, Unit
      <3> QED BY <3>1 DEF FinishedUnits
    <2>4. FinishedDone(a, id) = a.done \cup Rest(w)
      <3>1. {u \in a.units : Id(u) = id} = {w}
        BY <2>2
      <3> QED BY <3>1 DEF FinishedDone
    <2>5. NextGroup(a, id) = IF brings THEN G ELSE {}
      <3>1. {u \in a.units : Id(u) = id} = {w}
        BY <2>2
      <3> QED BY <3>1 DEF NextGroup
    <2>6. /\ b.units = R \cup (IF brings THEN G ELSE {}) /\ b.work = a.work
          /\ b.tenure = a.tenure /\ b.done = a.done \cup Rest(w)
          /\ b.counter = IF brings THEN a.counter + 1 ELSE a.counter
      <3> DEFINE N == R \cup (IF brings THEN G ELSE {})
                 c == IF brings THEN a.counter + 1 ELSE a.counter
                 D == a.done \cup Rest(w)
      <3>1. b = [a EXCEPT !.units = N, !.counter = c, !.done = D]
        <4> HIDE DEF R, G
        <4> QED BY <1>4, <2>3, <2>4, <2>5, Zenon DEF Complete
      <3>2. a = [units |-> a.units, work |-> a.work, counter |-> a.counter,
                 done |-> a.done, tenure |-> a.tenure]
        BY <1>1 DEF Allocator
      <3> HIDE DEF b, N, c, D
      <3>3. b.units = N /\ b.work = a.work /\ b.tenure = a.tenure /\ b.counter = c /\ b.done = D
        BY <3>1, <3>2
      <3> QED BY <3>3 DEF N, c, D
    <2> DEFINE m == [units |-> R, work |-> a.work, counter |-> a.counter,
                     done |-> a.done \cup Rest(w), tenure |-> a.tenure]
    <2>7. /\ m.units = R /\ m.work = a.work /\ m.counter = a.counter
          /\ m.done = a.done \cup Rest(w)
      OBVIOUS
    <2> HIDE DEF m, b
    <2>8. Reserved(m) = Reserved(a) /\ UsesExtranonce2(a) /\ UsesExtranonce2(m)
      BY <1>1, <1>2, <1>4, <2>7 DEF Reserved, UsesExtranonce2
    <2>9. \A u \in R : u \in a.units /\ u # w /\ Rest(u) \cap Rest(w) = {}
      BY RestDisjoint
    <2>10. NothingReallocated(m)
      BY <2>7, <2>9 DEF NothingReallocated, Exact, Accounted
    <2>11. WithinReserved(m)
      <3>1. \A z \in Rest(w) : z[1] = w.x
        BY DEF Rest
      <3> QED BY <2>7, <2>8, <2>9, <3>1 DEF Exact, Accounted, WithinReserved
    <2>12. NothingForgotten(m)
      <3>1. SUFFICES ASSUME NEW x \in Reserved(a), NEW n \in 0..(NonceSpace - 1),
                            <<x, n>> \notin a.done, <<x, n>> \notin Rest(w)
                     PROVE  \E u \in R : u.status # "complete" /\ <<x, n>> \in Rest(u)
        BY <2>7, <2>8 DEF NothingForgotten
      <3>2. PICK u \in a.units : u.status # "complete" /\ <<x, n>> \in Rest(u)
        BY <3>1 DEF Exact, Accounted, NothingForgotten
      <3>3. u # w
        BY <3>1, <3>2
      <3>4. u \in R
        BY <2>2, <3>2, <3>3
      <3> QED BY <3>2, <3>4
    <2>13. NoStale(m) => NoStale(a)
      BY <2>2, <2>7 DEF NoStale, Open
    <2>14. ASSUME HasOpen(a.units, "cpu")
           PROVE  HasOpen(R, "cpu") \/ (w.kind = "cpu" /\ brings)
      <3>1. PICK u \in a.units : u.kind = "cpu" /\ Open(u)
        BY <2>14 DEF HasOpen
      <3>2. CASE u # w
        <4>1. u \in R
          BY <2>2, <3>1, <3>2 DEF Open
        <4> QED BY <3>1, <4>1 DEF HasOpen
      <3>3. CASE u = w /\ ~brings
        <4>1. PICK v \in FinishedUnits(a, id) : v.kind = w.kind /\ Open(v)
          BY <1>2, <1>4, <3>3 DEF BringsGroup, LastOfGroup
        <4>2. v \in R
          BY <2>3, <4>1 DEF Open
        <4> QED BY <3>1, <3>3, <4>1, <4>2 DEF HasOpen
      <3> QED BY <3>1, <3>2, <3>3
    <2>15. ~brings => R # {}
      <3>1. ASSUME ~brings PROVE \E v \in FinishedUnits(a, id) : Open(v)
        BY <1>2, <1>4, <3>1 DEF BringsGroup, LastOfGroup
      <3> QED BY <2>3, <3>1 DEF Open
    <2>16. Accounted(m)
      BY <2>10, <2>11, <2>12 DEF Accounted
    <2>17. CASE ~brings
      <3>1. b.units = m.units /\ b.work = m.work /\ b.counter = m.counter /\ b.done = m.done
        BY <2>6, <2>7, <2>17
      <3>2. Accounted(b)
        BY <2>16, <3>1
           DEF Accounted, NothingReallocated, WithinReserved, NothingForgotten, Reserved
      <3>3. Supplied(b)
        BY <2>7, <2>8, <2>13, <2>14, <2>15, <2>17, <3>1
           DEF Exact, Supplied, UsesExtranonce2, NoStale
      <3> QED BY <2>6, <3>2, <3>3 DEF Exact, b
    <2>18. CASE brings
      <3>1. b.units = m.units \cup G /\ b.counter = m.counter + 1 /\ b.work = m.work
            /\ b.done = m.done /\ G = LiveGroup(w.kind, m.counter, w.gen)
        BY <2>6, <2>7, <2>18
      <3>2. Accounted(b)
        BY <1>1, <2>1, <2>7, <2>8, <2>16, <3>1, GroupAccounted
      <3>3. G # {} /\ \A u \in G : u.kind = w.kind /\ u.status = "pending"
        BY <1>1, <2>1, LiveGroupFacts
      <3> HIDE DEF G, R
      <3>4. Supplied(b)
        <4>1. NoStale(b) => NoStale(a)
          BY <2>13, <3>1 DEF NoStale
        <4>2. HasOpen(a.units, "cpu") => HasOpen(b.units, "cpu")
          BY <2>7, <2>14, <3>1, <3>3 DEF HasOpen, Open
        <4> QED BY <2>7, <2>8, <3>1, <3>3, <4>1, <4>2 DEF Exact, Supplied, UsesExtranonce2
      <3> QED BY <2>6, <3>2, <3>4 DEF Exact, b
    <2> QED BY <2>17, <2>18
  <1> QED BY <1>3, <1>4

-----------------------------------------------------------------------------
(* What prepare_live_job keeps of a record without stale units is all that    *)
(* waits in it.                                                              *)
LEMMA RenewedAccounted ==
  ASSUME NEW a, Good(a), Accounted(a), NoStale(a), NEW w \in Work, NEW gen \in Nat,
         NEW b, b.units = Renewed(a, w, gen), b.work = a.work, b.counter = a.counter,
         b.done = a.done
  PROVE  Accounted(b)
  <1>1. a.units \in SUBSET Unit
    BY GoodParts
  <1>2. ASSUME NEW u \in a.units
        PROVE  /\ Rest(Renew(u, gen)) = Rest(u) /\ Renew(u, gen).x = u.x
               /\ Open(u) => Renew(u, gen).status = "pending"
               /\ ~Open(u) => Renew(u, gen) = u
    BY <1>1, <1>2 DEF Renew, Rest, Unit
  <1>3. \A v \in b.units : \E u \in a.units : v = Renew(u, gen)
    BY DEF Renewed, Kept
  <1>4. \A u \in a.units : u.status # "complete" => Open(u) /\ Renew(u, gen) \in b.units
    BY <1>1 DEF NoStale, Open, Unit, Statuses, Renewed, Kept
  <1>5. Reserved(b) = Reserved(a)
    BY DEF Reserved
  <1>6. NothingReallocated(b)
    <2>1. SUFFICES ASSUME NEW v \in b.units, Open(v) PROVE Rest(v) \cap a.done = {}
      BY DEF NothingReallocated
    <2>2. PICK u \in a.units : v = Renew(u, gen)
      BY <1>3
    <2>3. Open(u) /\ Rest(v) = Rest(u)
      BY <1>2, <2>1, <2>2
    <2> QED BY <2>3 DEF Accounted, NothingReallocated
  <1>7. WithinReserved(b)
    BY <1>2, <1>3, <1>5 DEF Accounted, WithinReserved
  <1>8. NothingForgotten(b)
    <2>1. SUFFICES ASSUME NEW x \in Reserved(a), NEW n \in 0..(NonceSpace - 1), <<x, n>> \notin a.done
                   PROVE  \E v \in b.units : v.status # "complete" /\ <<x, n>> \in Rest(v)
      BY <1>5 DEF NothingForgotten
    <2>2. PICK u \in a.units : u.status # "complete" /\ <<x, n>> \in Rest(u)
      BY <2>1 DEF Accounted, NothingForgotten
    <2>3. /\ Renew(u, gen) \in b.units /\ Renew(u, gen).status # "complete"
          /\ <<x, n>> \in Rest(Renew(u, gen))
      BY <1>2, <1>4, <2>2
    <2> QED BY <2>3
  <1> QED BY <1>6, <1>7, <1>8 DEF Accounted

(* A kind that lacks an open unit is never the CPU. *)
LEMMA CpuSupplied ==
  ASSUME NEW a, Good(a), Exact(a), NoStale(a), NEW w \in Work, a.work = w, NEW gen \in Nat
  PROVE  ~NeedsCpu(a, w, gen)
  <1>1. SUFFICES ASSUME Capacity(w) > 0 PROVE HasOpen(Renewed(a, w, gen), "cpu")
    BY DEF NeedsCpu
  <1>2. HasOpen(a.units, "cpu")
    BY <1>1, AllocatorAssumption DEF Exact, Supplied, UsesExtranonce2
  <1> QED BY <1>2, RenewedFacts

(* prepare_live_job interrupted by its exception, on a record without stale units. *)
LEMMA HalfPreparedExact ==
  ASSUME NEW a, Good(a), Exact(a), NoStale(a), NEW w \in Work, a.work = w, NEW gen \in Nat
  PROVE  Exact(HalfPrepared(a, w, gen))
  <1> DEFINE b == HalfPrepared(a, w, gen)
             V == Renewed(a, w, gen)
  <1>1. ~NeedsCpu(a, w, gen)
    BY CpuSupplied
  <1>2. a \in Allocator /\ w # NoWork
    BY AllocatorAssumption DEF Good
  <1>3. b.units = V /\ b.work = a.work /\ b.counter = a.counter /\ b.done = a.done
    <2>1. b = [a EXCEPT !.units = V]
      BY <1>1 DEF HalfPrepared
    <2> HIDE DEF b, V
    <2> QED BY <1>2, <2>1 DEF Allocator
  <1>4. Capacity(w) > 0 => HasOpen(V, "cpu")
    BY <1>1 DEF NeedsCpu
  <1>5. Capacity(w) \in Nat
    BY AllocatorAssumption DEF Capacity, Work
  <1>6. V # {}
    <2>1. PICK u \in a.units : u.status # "stale"
      BY <1>2 DEF Exact, Supplied, NoStale
    <2>2. Capacity(w) = 0 => Renew(u, gen) \in V
      BY <2>1 DEF Renewed, Kept
    <2> QED BY <1>4, <1>5, <2>2 DEF HasOpen
  <1> HIDE DEF b
  <1>7. Accounted(b)
    BY <1>3, RenewedAccounted DEF Exact
  <1> HIDE DEF V
  <1>8. Supplied(b)
    BY <1>3, <1>4, <1>6 DEF Supplied, UsesExtranonce2
  <1> QED BY <1>7, <1>8 DEF Exact, b

(* Resuming a work: what waits goes on waiting, and the GPU gets a new          *)
(* extranonce2 when it has none left.                                           *)
LEMMA ResumedExact ==
  ASSUME NEW a, Good(a), Exact(a), NoStale(a), NEW w \in Work, a.work = w, NEW gen \in Nat
  PROVE  Exact(Resumed(a, w, gen))
  <1> DEFINE b == Resumed(a, w, gen)
             V == Renewed(a, w, gen)
             G == LiveGroup("gpu", a.counter, gen)
             gpu == NeedsGpu(a, w, gen)
             m == [units |-> V, work |-> a.work, counter |-> a.counter, done |-> a.done]
  <1>1. ~NeedsCpu(a, w, gen)
    BY CpuSupplied
  <1>2. a \in Allocator /\ w # NoWork /\ a.counter \in Nat
    BY AllocatorAssumption, GoodParts DEF Good
  <1>3. /\ b.units = (IF gpu THEN V \cup G ELSE V) /\ b.work = a.work /\ b.done = a.done
        /\ b.counter = (IF gpu THEN a.counter + 1 ELSE a.counter)
    <2>1. GpuCounter(a, w, gen) = a.counter
      BY <1>1 DEF GpuCounter
    <2> DEFINE N == V \cup {} \cup (IF gpu THEN G ELSE {})
               c == IF gpu THEN a.counter + 1 ELSE a.counter
    <2>2. b = [a EXCEPT !.units = N, !.counter = c]
      BY <1>1, <2>1, Zenon DEF Resumed
    <2>3. N = IF gpu THEN V \cup G ELSE V
      OBVIOUS
    <2> HIDE DEF b, N, c
    <2>4. b.units = N /\ b.work = a.work /\ b.counter = c /\ b.done = a.done
      BY <1>2, <2>2 DEF Allocator
    <2> QED BY <2>3, <2>4 DEF c
  <1>4. Capacity(w) > 0 => HasOpen(V, "cpu")
    BY <1>1 DEF NeedsCpu
  <1>5. Capacity(w) \in Nat
    BY AllocatorAssumption DEF Capacity, Work
  <1>6. V # {}
    <2>1. PICK u \in a.units : u.status # "stale"
      BY <1>2 DEF Exact, Supplied, NoStale
    <2>2. Capacity(w) = 0 => Renew(u, gen) \in V
      BY <2>1 DEF Renewed, Kept
    <2> QED BY <1>4, <1>5, <2>2 DEF HasOpen
  <1>7. m.units = V /\ m.work = a.work /\ m.counter = a.counter /\ m.done = a.done
    OBVIOUS
  <1> HIDE DEF b, m
  <1>8. Accounted(m)
    BY <1>7, RenewedAccounted DEF Exact
  <1>9. Accounted(b)
    <2>1. CASE gpu
      <3>1. UsesExtranonce2(m)
        BY <1>2, <1>7, <2>1 DEF UsesExtranonce2, NeedsGpu
      <3> HIDE DEF V
      <3>2. /\ b.units = m.units \cup LiveGroup("gpu", m.counter, gen) /\ b.work = m.work
            /\ b.counter = m.counter + 1 /\ b.done = m.done /\ m.counter \in Nat
        BY <1>2, <1>3, <1>7, <2>1
      <3> QED BY <1>8, <3>1, <3>2, GroupAccounted DEF Kinds
    <2>2. CASE ~gpu
      <3> HIDE DEF V, G, gpu
      <3>1. b.units = m.units /\ b.work = m.work /\ b.counter = m.counter /\ b.done = m.done
        BY <1>3, <1>7, <2>2
      <3> QED BY <1>8, <3>1
              DEF Accounted, NothingReallocated, WithinReserved, NothingForgotten, Reserved
    <2> QED BY <2>1, <2>2
  <1> HIDE DEF V, G, gpu
  <1>10. Supplied(b)
    BY <1>3, <1>4, <1>6 DEF Supplied, UsesExtranonce2, HasOpen
  <1> QED BY <1>9, <1>10 DEF Exact, b

(* A work begun from nothing: all of its first extranonce2 values wait. *)
LEMMA RecreatedExact ==
  ASSUME NEW a, NEW w \in Work, a.work # w, NEW gen \in Nat
  PROVE  Exact(Recreated(a, w, gen))
  <1> DEFINE b == Recreated(a, w, gen)
             p == Partitions(w)
             C == CpuGroup(0, p, gen)
             g == NewUnit("gpu", IF Capacity(w) = 0 THEN 0 ELSE 1, 0,
                          IF SharedNonceSpace(w) THEN Cut(CpuCount, p) ELSE 0, NonceSpace, gen)
  <1>1. Capacity(w) \in Nat /\ w # NoWork /\ CpuCount \in Nat \ {0}
    BY AllocatorAssumption DEF Capacity, Work
  <1>2. p \in Nat \ {0} /\ p >= CpuCount
    BY <1>1 DEF Partitions
  <1>3. C # {} /\ \A u \in C : u.kind = "cpu" /\ u.x = 0 /\ u.status = "pending"
    BY <1>2, CpuGroupFacts
  <1>4. Cut(CpuCount, p) \in 0..NonceSpace
    BY <1>1, <1>2, CutRange
  <1>5. /\ g.status = "pending" /\ g.x = (IF Capacity(w) = 0 THEN 0 ELSE 1)
        /\ g.next = (IF SharedNonceSpace(w) THEN Cut(CpuCount, p) ELSE 0) /\ g.end = NonceSpace
    BY DEF NewUnit
  <1>6. b.units = (IF GpuEnabled THEN C \cup {g} ELSE C) /\ b.work = w
        /\ b.counter = CreatedCounter(w) /\ b.done = {}
    BY DEF Recreated, CreatedUnits
  <1>7. ASSUME NEW n \in 0..(NonceSpace - 1), ~SharedNonceSpace(w) \/ n < Cut(CpuCount, p)
        PROVE  \E u \in C : <<0, n>> \in Rest(u)
    BY <1>2, <1>7, CpuGroupCover DEF Partitions
  <1> HIDE DEF b, C, g, p
  <1>8. NothingReallocated(b)
    BY <1>6 DEF NothingReallocated
  <1>9. WithinReserved(b)
    BY <1>1, <1>3, <1>5, <1>6 DEF WithinReserved, Reserved, CreatedCounter
  <1>10. NothingForgotten(b)
    <2>1. SUFFICES ASSUME NEW x \in Reserved(b), NEW n \in 0..(NonceSpace - 1)
                   PROVE  \E u \in b.units : u.status # "complete" /\ <<x, n>> \in Rest(u)
      BY DEF NothingForgotten
    <2>2. x = 0 \/ (x = 1 /\ GpuEnabled /\ Capacity(w) # 0)
      BY <1>1, <1>6 DEF Reserved, CreatedCounter
    <2>3. CASE x = 0 /\ (~SharedNonceSpace(w) \/ n < Cut(CpuCount, p))
      BY <1>3, <1>6, <1>7, <2>3
    <2>4. CASE x = 0 /\ SharedNonceSpace(w) /\ ~(n < Cut(CpuCount, p))
      <3>1. n \in g.next .. (g.end - 1) /\ g.x = 0 /\ g \in b.units
        BY <1>4, <1>5, <1>6, <2>4, AllocatorAssumption DEF SharedNonceSpace
      <3> QED BY <1>5, <2>4, <3>1 DEF Rest
    <2>5. CASE x = 1 /\ GpuEnabled /\ Capacity(w) # 0
      <3>1. n \in g.next .. (g.end - 1) /\ g.x = 1 /\ g \in b.units
        BY <1>5, <1>6, <2>5, AllocatorAssumption DEF SharedNonceSpace
      <3> QED BY <1>5, <2>5, <3>1 DEF Rest
    <2> QED BY <2>2, <2>3, <2>4, <2>5
  <1>11. Supplied(b)
    BY <1>3, <1>6 DEF Supplied, HasOpen, Open
  <1> QED BY <1>8, <1>9, <1>10, <1>11 DEF Exact, Accounted, b

(* prepare_live_job leaves nothing stale. *)
LEMMA PrepareNoStale ==
  ASSUME NEW a, Good(a), NEW w \in Work, NEW gen \in Nat
  PROVE  NoStale(PrepareLiveJob(a, w, gen)) /\ NoStale(HalfPrepared(a, w, gen))
  <1> DEFINE V == Renewed(a, w, gen)
             C == LiveGroup("cpu", a.counter, gen)
             G == LiveGroup("gpu", GpuCounter(a, w, gen), gen)
  <1>1. a \in Allocator /\ a.counter \in Nat
    BY GoodParts DEF Good
  <1>2. GpuCounter(a, w, gen) \in Nat
    BY <1>1 DEF GpuCounter
  <1>3. /\ \A v \in V : v.status # "stale"
        /\ \A v \in C \cup G : v.status # "stale"
    BY <1>1, <1>2, RenewedFacts, LiveGroupFacts DEF Kinds
  <1>4. NoStale(HalfPrepared(a, w, gen))
    <2>1. HalfPrepared(a, w, gen).units \subseteq V \cup C
      BY <1>1 DEF HalfPrepared, Allocator
    <2> QED BY <1>3, <2>1 DEF NoStale
  <1>5. NoStale(Resumed(a, w, gen))
    <2>1. Resumed(a, w, gen).units \subseteq V \cup C \cup G
      BY <1>1 DEF Resumed, Allocator
    <2> QED BY <1>3, <2>1 DEF NoStale
  <1>6. NoStale(Recreated(a, w, gen))
    <2> DEFINE g == NewUnit("gpu", IF Capacity(w) = 0 THEN 0 ELSE 1, 0,
                            IF SharedNonceSpace(w) THEN Cut(CpuCount, Partitions(w)) ELSE 0,
                            NonceSpace, gen)
    <2>1. g.status = "pending"
      BY DEF NewUnit
    <2>2. Partitions(w) \in Nat \ {0} /\ Partitions(w) >= CpuCount
      BY AllocatorAssumption DEF Partitions
    <2>3. \A u \in CpuGroup(0, Partitions(w), gen) : u.status = "pending"
      BY <2>2, CpuGroupFacts
    <2>4. Recreated(a, w, gen).units \subseteq CpuGroup(0, Partitions(w), gen) \cup {g}
      BY DEF Recreated, CreatedUnits
    <2> HIDE DEF g
    <2> QED BY <2>1, <2>3, <2>4 DEF NoStale
  <1> QED BY <1>4, <1>5, <1>6 DEF PrepareLiveJob

(* prepare_live_job accounts for every nonce of the work it makes current,    *)
(* provided it is not asked for one it has abandoned.                         *)
LEMMA PrepareExact ==
  ASSUME NEW a, Good(a), Exact(a), NEW w \in Work, NEW gen \in Nat, a.work = w => NoStale(a)
  PROVE  Exact(PrepareLiveJob(a, w, gen))
  <1>1. CASE a.work = w
    <2>1. w # NoWork
      BY AllocatorAssumption
    <2>2. Compatible(a, w)
      BY <1>1, <2>1 DEF Compatible, Exact, Supplied, NoStale
    <2> QED BY <1>1, <2>2, ResumedExact DEF PrepareLiveJob
  <1>2. CASE a.work # w
    BY <1>2, RecreatedExact DEF PrepareLiveJob, Compatible
  <1> QED BY <1>1, <1>2

(* The record of a first start accounts for nothing. *)
LEMMA EmptyExact ==
  Exact(EmptyAllocator)
  BY DEF Exact, Accounted, Supplied, EmptyAllocator, NothingReallocated, WithinReserved,
         NothingForgotten, Reserved, UsesExtranonce2

-----------------------------------------------------------------------------
(***************************************************************************)
(* The threads around the record.                                          *)
(***************************************************************************)

(* The inductive invariant. *)
IInv == TypeOK /\ MinerInv

(* The invariant makes the records in memory, on disk and in a snapshot good. *)
LEMMA IInvGood ==
  ASSUME IInv
  PROVE  /\ Good(al) /\ Good(disk)
         /\ \A p \in Savers : snap[p] # None => Good(snap[p])
  BY DEF IInv, TypeOK, MinerInv, RecordsWellFormed, Good

(* The record fields of the threads. *)
LEMMA ThreadFields ==
  ASSUME IInv, NEW t \in Threads
  PROVE  /\ thr[t] \in Thread
         /\ thr[t] = [pc |-> thr[t].pc, work |-> thr[t].work, gen |-> thr[t].gen,
                      id |-> thr[t].id, x |-> thr[t].x, next |-> thr[t].next,
                      end |-> thr[t].end, pending |-> thr[t].pending, stop |-> thr[t].stop]
  BY DEF IInv, TypeOK, Thread

(* request_stop on a thread leaves everything but its stop flag. *)
LEMMA StoppedFields ==
  ASSUME NEW th \in Thread
  PROVE  /\ Stopped(th) \in Thread
         /\ Stopped(th).pc = th.pc /\ Stopped(th).work = th.work /\ Stopped(th).id = th.id
         /\ Stopped(th).x = th.x /\ Stopped(th).next = th.next /\ Stopped(th).end = th.end
         /\ Stopped(th).pending = th.pending
  BY DEF Stopped, Thread

(* A joined thread is a thread record. *)
LEMMA NoThreadType ==
  NoThread \in Thread /\ NoThread.pc = "none"
  BY AllocatorAssumption DEF NoThread, Thread, ThreadPcs, NoId, Ids, Kinds

(* So is one whose function has returned. *)
LEMMA ReturnedType ==
  ASSUME NEW th \in Thread
  PROVE  Returned(th) \in Thread /\ Returned(th).pc = "done"
  BY NoThreadType DEF Returned, Thread, ThreadPcs

-----------------------------------------------------------------------------
(* A step that leaves the units alone, and every worker as it was, stopped,   *)
(* or without a unit.                                                        *)
LEMMA HeldFrame ==
  ASSUME IInv, UNCHANGED al,
         \A t \in Threads : \/ thr'[t] \in {thr[t], Stopped(thr[t])}
                            \/ ~Holds(t)' /\ (Idle(t)' \/ thr'[t].work = al.work)
  PROVE  /\ HeldUnitsKnown' /\ DistinctHeld'
         /\ (\A t \in Threads : ~Idle(t) => thr[t].work = al.work)'
  <1>1. ASSUME NEW t \in Threads, thr'[t] \in {thr[t], Stopped(thr[t])}
        PROVE  /\ thr'[t].pc = thr[t].pc /\ thr'[t].work = thr[t].work /\ thr'[t].id = thr[t].id
               /\ thr'[t].x = thr[t].x /\ thr'[t].next = thr[t].next /\ thr'[t].end = thr[t].end
               /\ thr'[t].pending = thr[t].pending
    <2>1. thr[t] \in Thread
      BY ThreadFields
    <2> DEFINE th == thr[t]
               st == Stopped(th)
    <2>2. /\ st.pc = th.pc /\ st.work = th.work /\ st.id = th.id /\ st.x = th.x
          /\ st.next = th.next /\ st.end = th.end /\ st.pending = th.pending
      BY <2>1, StoppedFields
    <2> HIDE DEF st
    <2>3. thr'[t] = thr[t] \/ thr'[t] = st
      BY <1>1 DEF st
    <2> QED BY <2>2, <2>3
  <1>2. ASSUME NEW t \in Threads, Holds(t)'
        PROVE  /\ Holds(t) /\ thr'[t].id = thr[t].id
               /\ \A u : HeldUnit(t, u) => HeldUnit(t, u)'
    <2>1. thr'[t] \in {thr[t], Stopped(thr[t])}
      BY <1>2
    <2> QED BY <1>1, <1>2, <2>1 DEF Holds, HeldUnit
  <1>3. HeldUnitsKnown'
    BY <1>2 DEF IInv, MinerInv, HeldUnitsKnown
  <1>4. DistinctHeld'
    BY <1>2 DEF IInv, MinerInv, DistinctHeld
  <1>5. ASSUME NEW t \in Threads, ~Idle(t)' PROVE thr'[t].work = al'.work
    BY <1>1, <1>5 DEF IInv, MinerInv, JoinedBeforePrepare, Idle
  <1> QED BY <1>3, <1>4, <1>5

(* A step after which no worker is left. *)
LEMMA NoneLeftFrame ==
  ASSUME \A t \in Threads : Idle(t)'
  PROVE  /\ HeldUnitsKnown' /\ DistinctHeld'
         /\ (\A t \in Threads : ~Idle(t) => thr[t].work = al.work)'
  BY DEF Idle, Holds, HeldUnitsKnown, DistinctHeld

(* A step of worker t: the other workers keep the units they hold. *)
LEMMA WorkerFrame ==
  ASSUME IInv, NEW t \in Threads, thr[t].pc # "none",
         NEW th \in Thread, thr' = [thr EXCEPT ![t] = th],
         th.pc \in {"none", "done"} \/ th.work = thr[t].work,
         ~Idle(t),
         Good(al'), al'.work = al.work,
         \A u \in al.units : u.status = "in_progress" /\ (Holds(t) => Id(u) # thr[t].id)
                               => u \in al'.units,
         Holds(t)' => \E u \in al'.units : HeldUnit(t, u)',
         Holds(t)' => \A s \in Threads \ {t} : Holds(s) => thr[s].id # th.id,
         hashed' \subseteq Nat \X Nat,
         UNCHANGED <<disk, snap, generation, net, session, main, crashes, ticks>>
  PROVE  IInv'
  <1>1. /\ thr'[t] = th /\ \A s \in Threads \ {t} : thr'[s] = thr[s]
        /\ thr' \in [Threads -> Thread]
    BY DEF IInv, TypeOK
  <1>2. TypeOK'
    BY <1>1 DEF IInv, TypeOK, Good
  <1>3. RecordsWellFormed'
    BY DEF IInv, MinerInv, RecordsWellFormed, Good
  <1>4. LaunchHasWork'
    BY DEF IInv, MinerInv, LaunchHasWork, Launching, LaunchedWork
  <1>5. JoinedBeforePrepare'
    <2>1. net'.pc \in {"join_gpu", "prepare", "start_cpu"} => \A s \in CpuThreads : thr'[s].pc = "none"
      BY <1>1 DEF IInv, MinerInv, JoinedBeforePrepare, Threads
    <2>2. net'.pc \in {"prepare", "start_cpu", "start_gpu"} => thr'[Gpu].pc = "none"
      BY <1>1 DEF IInv, MinerInv, JoinedBeforePrepare, Threads
    <2>3. ASSUME NEW s \in Threads, ~Idle(s)' PROVE thr'[s].work = al'.work
      BY <1>1, <2>3 DEF IInv, MinerInv, JoinedBeforePrepare, Idle
    <2> QED BY <2>1, <2>2, <2>3 DEF JoinedBeforePrepare
  <1>6. ASSUME NEW s \in Threads \ {t}, Holds(s)'
        PROVE  Holds(s) /\ \E u \in al'.units : HeldUnit(s, u)'
    <2>1. Holds(s) /\ thr'[s] = thr[s]
      BY <1>1, <1>6 DEF Holds
    <2>2. PICK u \in al.units : HeldUnit(s, u)
      BY <2>1 DEF IInv, MinerInv, HeldUnitsKnown
    <2>3. Holds(t) => Id(u) # thr[t].id
      BY <2>1, <2>2 DEF IInv, MinerInv, DistinctHeld, HeldUnit
    <2>4. u \in al'.units
      BY <2>2, <2>3 DEF HeldUnit
    <2>5. HeldUnit(s, u)'
      BY <2>1, <2>2 DEF HeldUnit
    <2> QED BY <2>1, <2>4, <2>5
  <1>7. HeldUnitsKnown'
    BY <1>6 DEF HeldUnitsKnown
  <1>8. DistinctHeld'
    BY <1>1, <1>6 DEF IInv, MinerInv, DistinctHeld
  <1> QED BY <1>2, <1>3, <1>4, <1>5, <1>7, <1>8 DEF IInv, MinerInv

-----------------------------------------------------------------------------
(* What the invariant says of the unit a worker holds. *)
LEMMA HeldFacts ==
  ASSUME IInv, NEW t \in Threads, Holds(t)
  PROVE  \E u \in al.units :
           /\ HeldUnit(t, u) /\ u \in Unit /\ Open(u)
           /\ u.start <= u.next /\ u.next <= u.end
           /\ \A v \in al.units : Id(v) = Id(u) => v = u
  <1>1. PICK u \in al.units : HeldUnit(t, u)
    BY DEF IInv, MinerInv, HeldUnitsKnown
  <1>2. al.units \in SUBSET Unit /\ Core(al.units)
    BY IInvGood, GoodParts
  <1> QED BY <1>1, <1>2 DEF HeldUnit, Open, Core

(* The head of the while loop: a GPU thread keeps its unit or returns. *)
LEMMA CheckStep ==
  ASSUME IInv, NEW t \in Threads, Check(t)
  PROVE  IInv'
  <1>1. thr[t] \in Thread /\ Good(al) /\ thr[t].pc = "check" /\ hashed \subseteq Nat \X Nat
    BY ThreadFields, IInvGood DEF Check, IInv, TypeOK
  <1>2. CASE Halted(t)
    <2> DEFINE th == Returned(thr[t])
    <2>1. thr' = [thr EXCEPT ![t] = th] /\ thr'[t] = th
      BY <1>2 DEF Check, Return, IInv, TypeOK
    <2>2. th \in Thread /\ th.pc = "done"
      BY <1>1, ReturnedType
    <2> HIDE DEF th
    <2>3. ~Holds(t)'
      BY <2>1, <2>2 DEF Holds
    <2> QED BY <1>1, <2>1, <2>2, <2>3, WorkerFrame DEF Check, Idle
  <1>3. CASE ~Halted(t)
    <2> DEFINE th == [thr[t] EXCEPT !.pc = IF t = Gpu THEN "scan" ELSE "acquire"]
    <2>1. thr' = [thr EXCEPT ![t] = th] /\ thr'[t] = th
      BY <1>3 DEF Check, Go, IInv, TypeOK
    <2>2. /\ th \in Thread /\ th.work = thr[t].work /\ th.id = thr[t].id /\ th.x = thr[t].x
          /\ th.next = thr[t].next /\ th.end = thr[t].end /\ th.pending = thr[t].pending
          /\ th.pc = IF t = Gpu THEN "scan" ELSE "acquire"
      BY <1>1 DEF Thread, ThreadPcs
    <2> HIDE DEF th
    <2>3. Holds(t)' => Holds(t)
      BY <1>1, <2>1, <2>2 DEF Holds
    <2>4. UNCHANGED al
      BY DEF Check
    <2>5. \A u : HeldUnit(t, u) => HeldUnit(t, u)'
      BY <2>1, <2>2, <2>4 DEF HeldUnit
    <2>6. Holds(t)' => \E u \in al'.units : HeldUnit(t, u)'
      BY <2>3, <2>4, <2>5 DEF IInv, MinerInv, HeldUnitsKnown
    <2>7. Holds(t)' => \A s \in Threads \ {t} : Holds(s) => thr[s].id # th.id
      BY <2>2, <2>3 DEF IInv, MinerInv, DistinctHeld
    <2> QED BY <1>1, <2>1, <2>2, <2>4, <2>6, <2>7, WorkerFrame DEF Check, Idle
  <1> QED BY <1>2, <1>3

(* acquire gives out a pending unit, which nobody else holds. *)
LEMMA AcquireUnitStep ==
  ASSUME IInv, NEW t \in Threads, AcquireUnit(t)
  PROVE  IInv'
  <1>1. thr[t] \in Thread /\ Good(al) /\ thr[t].pc = "acquire" /\ hashed \subseteq Nat \X Nat
    BY ThreadFields, IInvGood DEF AcquireUnit, IInv, TypeOK
  <1>2. PICK u \in FirstAcquirable(al, KindOf(t)) :
          /\ al' = Acquired(al, u)
          /\ thr' = [thr EXCEPT ![t].pc = IF t = Gpu THEN "check" ELSE "scan",
                                ![t].id = Id(u), ![t].x = u.x, ![t].next = u.next,
                                ![t].end = u.end, ![t].pending = 0]
    BY DEF AcquireUnit
  <1>3. u \in al.units /\ u.kind = KindOf(t) /\ u.status = "pending" /\ u.next < u.end
    BY <1>2 DEF FirstAcquirable, Acquirable
  <1>4. al.units \in SUBSET Unit /\ Core(al.units) /\ u \in Unit
    BY <1>1, <1>3, GoodParts
  <1> DEFINE v == [u EXCEPT !.status = "in_progress"]
             th == [thr[t] EXCEPT !.pc = IF t = Gpu THEN "check" ELSE "scan",
                                  !.id = Id(u), !.x = u.x, !.next = u.next,
                                  !.end = u.end, !.pending = 0]
  <1>5. Good(al') /\ al'.work = al.work /\ al'.units = (al.units \ {u}) \cup {v}
    BY <1>1, <1>2, <1>3, AcquiredGood
  <1>6. /\ v.status = "in_progress" /\ v.kind = u.kind /\ v.x = u.x /\ v.end = u.end
        /\ v.next = u.next /\ Id(v) = Id(u)
    BY <1>4 DEF Unit, Id
  <1>7. thr' = [thr EXCEPT ![t] = th] /\ thr'[t] = th
    BY <1>2 DEF IInv, TypeOK
  <1>8. Id(u) \in Ids /\ u.x \in Nat /\ u.next \in 0..NonceSpace /\ u.end \in 0..NonceSpace
    BY <1>4 DEF Unit, Id, Ids
  <1>9. /\ th \in Thread /\ th.work = thr[t].work /\ th.id = Id(u) /\ th.x = u.x
        /\ th.next = u.next /\ th.end = u.end /\ th.pending = 0
        /\ th.pc \in {"check", "scan"}
    BY <1>1, <1>8 DEF Thread, ThreadPcs
  <1> HIDE DEF v, th
  <1>10. thr[t].work = al.work
    BY <1>1 DEF IInv, MinerInv, JoinedBeforePrepare, Idle
  <1>11. HeldUnit(t, v)'
    BY <1>3, <1>5, <1>6, <1>7, <1>8, <1>9, <1>10 DEF HeldUnit
  <1>12. \A w \in al.units : w.status = "in_progress" => w \in al'.units
    BY <1>3, <1>5
  <1>13. ASSUME NEW s \in Threads \ {t}, Holds(s) PROVE thr[s].id # th.id
    <2>1. PICK w \in al.units : HeldUnit(s, w)
      BY <1>13 DEF IInv, MinerInv, HeldUnitsKnown
    <2>2. w # u
      BY <1>3, <2>1 DEF HeldUnit
    <2> QED BY <1>3, <1>4, <1>9, <2>1, <2>2 DEF HeldUnit, Core
  <1>14. v \in al'.units
    BY <1>5
  <1>15. ~Idle(t) /\ thr[t].pc # "none"
    BY <1>1 DEF Idle
  <1> QED BY <1>1, <1>5, <1>7, <1>9, <1>11, <1>12, <1>13, <1>14, <1>15, WorkerFrame DEF AcquireUnit

(* acquire gives out nothing and the thread function returns. *)
LEMMA AcquireNoneStep ==
  ASSUME IInv, NEW t \in Threads, AcquireNone(t)
  PROVE  IInv'
  <1> DEFINE th == Returned(thr[t])
  <1>1. /\ thr[t] \in Thread /\ Good(al) /\ thr[t].pc = "acquire" /\ hashed \subseteq Nat \X Nat
        /\ UNCHANGED al
    BY ThreadFields, IInvGood DEF AcquireNone, IInv, TypeOK
  <1>2. thr' = [thr EXCEPT ![t] = th] /\ thr'[t] = th
    BY DEF AcquireNone, Return, IInv, TypeOK
  <1>3. th \in Thread /\ th.pc = "done"
    BY <1>1, ReturnedType
  <1> HIDE DEF th
  <1>4. ~Holds(t)' /\ ~Idle(t) /\ thr[t].pc # "none"
    BY <1>1, <1>2, <1>3 DEF Holds, Idle
  <1> QED BY <1>1, <1>2, <1>3, <1>4, WorkerFrame DEF AcquireNone

(* update_progress on the unit a worker holds. *)
LEMMA UpdateHeld ==
  ASSUME IInv, NEW t \in Threads, Holds(t), NEW n \in Nat,
         thr[t].next - thr[t].pending <= n, n <= thr[t].end,
         NEW a, a = UpdateProgress(al, thr[t].id, n)
  PROVE  /\ Good(a) /\ a.work = al.work
         /\ \A u \in al.units : Id(u) # thr[t].id => u \in a.units
         /\ \E v \in a.units : /\ Id(v) = thr[t].id /\ v.status = "in_progress"
                               /\ v.kind = KindOf(t) /\ v.x = thr[t].x
                               /\ v.end = thr[t].end /\ v.next = n
  <1>1. Good(al)
    BY IInvGood
  <1>2. /\ Good(a) /\ a.work = al.work
        /\ a.units = {IF Id(u) = thr[t].id /\ Open(u) THEN Advance(u, n) ELSE u : u \in al.units}
    BY <1>1, UpdateGood
  <1>3. PICK u \in al.units : /\ HeldUnit(t, u) /\ u \in Unit /\ Open(u)
                              /\ u.start <= u.next /\ u.next <= u.end
    BY HeldFacts
  <1>4. /\ Advance(u, n).next = n /\ Id(Advance(u, n)) = Id(u)
        /\ Advance(u, n).status = u.status /\ Advance(u, n).kind = u.kind
        /\ Advance(u, n).x = u.x /\ Advance(u, n).end = u.end
    <2>1. Clamp(n, u.start, u.end) = n
      BY <1>3 DEF HeldUnit, Clamp, Unit
    <2> QED BY <1>3, <2>1 DEF Advance, Id, Unit
  <1>5. Advance(u, n) \in a.units
    BY <1>2, <1>3 DEF HeldUnit
  <1>6. \A v \in al.units : Id(v) # thr[t].id => v \in a.units
    BY <1>2
  <1> QED BY <1>2, <1>3, <1>4, <1>5, <1>6 DEF HeldUnit

(* A block of nonces, with or without the publication of the cursor. *)
LEMMA HashStep ==
  ASSUME IInv, NEW t \in Threads, Hash(t)
  PROVE  IInv'
  <1>1. /\ thr[t] \in Thread /\ Good(al) /\ thr[t].pc = "scan" /\ thr[t].next < thr[t].end
        /\ Holds(t) /\ ~Idle(t) /\ thr[t].pc # "none" /\ hashed \subseteq Nat \X Nat
    BY ThreadFields, IInvGood DEF Hash, IInv, TypeOK, Holds, Idle
  <1>2. /\ thr[t].next \in Nat /\ thr[t].end \in Nat /\ thr[t].pending \in Nat /\ thr[t].x \in Nat
        /\ thr[t].next + 1 \in 0..NonceSpace
    BY <1>1, AllocatorAssumption DEF Thread
  <1>3. hashed' \subseteq Nat \X Nat
    BY <1>1, <1>2 DEF Hash
  <1> DEFINE q == IF thr[t].pending + 1 = Batch THEN 0 ELSE thr[t].pending + 1
             th == [thr[t] EXCEPT !.next = thr[t].next + 1, !.pending = q]
  <1>4. /\ thr' = [thr EXCEPT ![t] = th] /\ thr'[t] = th
        /\ UNCHANGED <<disk, snap, generation, net, session, main, crashes, ticks>>
    <2>1. UNCHANGED <<disk, snap, generation, net, session, main, crashes, ticks>>
      BY DEF Hash
    <2>2. CASE thr[t].pending + 1 = Batch
      <3>1. thr' = [thr EXCEPT ![t].next = @ + 1, ![t].pending = 0] /\ q = 0
        BY <2>2 DEF Hash
      <3> HIDE DEF q
      <3> QED BY <2>1, <3>1 DEF IInv, TypeOK
    <2>3. CASE thr[t].pending + 1 # Batch
      <3>1. /\ thr' = [thr EXCEPT ![t].next = @ + 1, ![t].pending = @ + 1]
            /\ q = thr[t].pending + 1
        BY <2>3 DEF Hash
      <3> HIDE DEF q
      <3> QED BY <2>1, <3>1 DEF IInv, TypeOK
    <2> QED BY <2>2, <2>3
  <1>9. /\ th \in Thread /\ th.pc = "scan" /\ th.work = thr[t].work /\ th.id = thr[t].id
        /\ th.x = thr[t].x /\ th.next = thr[t].next + 1 /\ th.end = thr[t].end /\ th.pending = q
    <2>1. q \in Nat
      BY <1>2
    <2> HIDE DEF q
    <2> QED BY <1>1, <1>2, <2>1 DEF Thread
  <1> HIDE DEF th
  <1>5. \A s \in Threads \ {t} : Holds(s) => thr[s].id # thr[t].id
    BY <1>1 DEF IInv, MinerInv, DistinctHeld
  <1>6. thr[t].work = al.work
    BY <1>1 DEF IInv, MinerInv, JoinedBeforePrepare
  <1>7. CASE thr[t].pending + 1 = Batch
    <2> DEFINE n == thr[t].next + 1
    <2>1. al' = UpdateProgress(al, thr[t].id, n) /\ n \in Nat /\ n <= thr[t].end
          /\ thr[t].next - thr[t].pending <= n
      BY <1>1, <1>2, <1>7 DEF Hash
    <2>2. /\ Good(al') /\ al'.work = al.work
          /\ \A u \in al.units : Id(u) # thr[t].id => u \in al'.units
          /\ \E v \in al'.units : /\ Id(v) = thr[t].id /\ v.status = "in_progress"
                                  /\ v.kind = KindOf(t) /\ v.x = thr[t].x
                                  /\ v.end = thr[t].end /\ v.next = n
      <3> HIDE DEF n
      <3> QED BY <1>1, <2>1, UpdateHeld
    <2>3. \E v \in al'.units : HeldUnit(t, v)'
      BY <1>2, <1>4, <1>6, <1>7, <1>9, <2>1, <2>2 DEF HeldUnit
    <2> QED BY <1>1, <1>3, <1>4, <1>5, <1>9, <2>2, <2>3, WorkerFrame
  <1>8. CASE thr[t].pending + 1 # Batch
    <2>1. UNCHANGED al
      BY <1>8 DEF Hash
    <2>2. PICK u \in al.units : HeldUnit(t, u)
      BY <1>1 DEF IInv, MinerInv, HeldUnitsKnown
    <2>3. HeldUnit(t, u)'
      BY <1>1, <1>2, <1>4, <1>8, <1>9, <2>1, <2>2 DEF HeldUnit
    <2> QED BY <1>1, <1>3, <1>4, <1>5, <1>9, <2>1, <2>2, <2>3, WorkerFrame
  <1> QED BY <1>7, <1>8

(* The flush after the loop makes the cursor the one of the worker. *)
LEMMA LeaveLoopStep ==
  ASSUME IInv, NEW t \in Threads, LeaveLoop(t)
  PROVE  IInv'
  <1> DEFINE th == [thr[t] EXCEPT !.pc = "settle", !.pending = 0]
  <1>1. /\ thr[t] \in Thread /\ Good(al) /\ thr[t].pc = "scan"
        /\ Holds(t) /\ ~Idle(t) /\ thr[t].pc # "none" /\ hashed \subseteq Nat \X Nat
    BY ThreadFields, IInvGood DEF LeaveLoop, IInv, TypeOK, Holds, Idle
  <1>2. thr[t].next \in Nat /\ thr[t].end \in Nat /\ thr[t].pending \in Nat
    BY <1>1 DEF Thread
  <1>3. thr' = [thr EXCEPT ![t] = th] /\ thr'[t] = th
    BY DEF LeaveLoop, IInv, TypeOK
  <1>4. /\ th \in Thread /\ th.pc = "settle" /\ th.work = thr[t].work /\ th.id = thr[t].id
        /\ th.x = thr[t].x /\ th.next = thr[t].next /\ th.end = thr[t].end /\ th.pending = 0
    BY <1>1 DEF Thread, ThreadPcs
  <1> HIDE DEF th
  <1>5. \A s \in Threads \ {t} : Holds(s) => thr[s].id # th.id
    BY <1>1, <1>4 DEF IInv, MinerInv, DistinctHeld
  <1>6. PICK u \in al.units : HeldUnit(t, u)
    BY <1>1 DEF IInv, MinerInv, HeldUnitsKnown
  <1>7. CASE thr[t].pending = 0
    <2>1. UNCHANGED al
      BY <1>7 DEF LeaveLoop
    <2>2. HeldUnit(t, u)'
      BY <1>3, <1>4, <1>6, <1>7, <2>1 DEF HeldUnit
    <2> QED BY <1>1, <1>3, <1>4, <1>5, <1>6, <2>1, <2>2, WorkerFrame DEF LeaveLoop
  <1>8. CASE thr[t].pending # 0
    <2>1. al' = UpdateProgress(al, thr[t].id, thr[t].next)
      BY <1>8 DEF LeaveLoop
    <2>2. thr[t].next - thr[t].pending <= thr[t].next /\ thr[t].next <= thr[t].end
      BY <1>2, <1>6 DEF HeldUnit
    <2>3. /\ Good(al') /\ al'.work = al.work
          /\ \A v \in al.units : Id(v) # thr[t].id => v \in al'.units
          /\ \E v \in al'.units : /\ Id(v) = thr[t].id /\ v.status = "in_progress"
                                  /\ v.kind = KindOf(t) /\ v.x = thr[t].x
                                  /\ v.end = thr[t].end /\ v.next = thr[t].next
      BY <1>1, <1>2, <2>1, <2>2, UpdateHeld
    <2>4. PICK v \in al'.units : /\ Id(v) = thr[t].id /\ v.status = "in_progress"
                                 /\ v.kind = KindOf(t) /\ v.x = thr[t].x
                                 /\ v.end = thr[t].end /\ v.next = thr[t].next
      BY <2>3
    <2>5. HeldUnit(t, v)'
      BY <1>2, <1>3, <1>4, <1>6, <2>2, <2>3, <2>4 DEF HeldUnit
    <2> QED BY <1>1, <1>3, <1>4, <1>5, <2>3, <2>4, <2>5, WorkerFrame DEF LeaveLoop
  <1> QED BY <1>7, <1>8

(* A worker that gives its unit back, or is done with it, holds none. *)
LEMMA DropUnit ==
  ASSUME IInv, NEW t \in Threads, Holds(t), NEW th \in Thread,
         thr' = [thr EXCEPT ![t] = th],
         th.pc = "done" \/ (th.pc = "acquire" /\ th.work = thr[t].work)
           \/ (th.pc = "check" /\ t # Gpu /\ th.work = thr[t].work),
         Good(al'), al'.work = al.work,
         \A u \in al.units : u.status = "in_progress" /\ Id(u) # thr[t].id => u \in al'.units,
         hashed' \subseteq Nat \X Nat,
         UNCHANGED <<disk, snap, generation, net, session, main, crashes, ticks>>
  PROVE  IInv'
  <1>1. thr'[t] = th
    BY DEF IInv, TypeOK
  <1>2. ~Holds(t)'
    BY <1>1 DEF Holds
  <1>3. ~Idle(t) /\ thr[t].pc # "none"
    BY DEF Holds, Idle
  <1> QED BY <1>2, <1>3, WorkerFrame

(* The three ways on from "settle": acquire, check, or return. *)
LEMMA GoOrReturn ==
  ASSUME IInv, NEW t \in Threads, NEW pc \in ThreadPcs, Go(t, pc) \/ Return(t)
  PROVE  \E th \in Thread :
           /\ thr' = [thr EXCEPT ![t] = th]
           /\ (Go(t, pc) /\ th.pc = pc /\ th.work = thr[t].work) \/ (Return(t) /\ th.pc = "done")
  <1>1. thr[t] \in Thread
    BY ThreadFields
  <1>2. CASE Return(t)
    <2> DEFINE th == Returned(thr[t])
    <2>1. thr' = [thr EXCEPT ![t] = th]
      BY <1>2 DEF Return
    <2>2. th \in Thread /\ th.pc = "done"
      BY <1>1, ReturnedType
    <2> HIDE DEF th
    <2> QED BY <1>2, <2>1, <2>2
  <1>3. CASE Go(t, pc)
    <2> DEFINE th == [thr[t] EXCEPT !.pc = pc]
    <2>1. thr' = [thr EXCEPT ![t] = th]
      BY <1>3 DEF Go, IInv, TypeOK
    <2>2. th \in Thread /\ th.pc = pc /\ th.work = thr[t].work
      BY <1>1 DEF Thread
    <2> HIDE DEF th
    <2> QED BY <1>3, <2>1, <2>2
  <1> QED BY <1>2, <1>3

(* complete on a held unit keeps the units the others hold. *)
LEMMA CompleteUnitStep ==
  ASSUME IInv, NEW t \in Threads, CompleteUnit(t)
  PROVE  IInv'
  <1>1. Good(al) /\ Holds(t) /\ hashed' \subseteq Nat \X Nat
    BY IInvGood DEF CompleteUnit, Holds, IInv, TypeOK
  <1>2. PICK u \in al.units : HeldUnit(t, u) /\ Open(u)
    BY <1>1, HeldFacts
  <1>3. Id(u) = thr[t].id /\ al' = Complete(al, thr[t].id) /\ ~CompleteThrows(al, thr[t].id)
    BY <1>2 DEF HeldUnit, CompleteUnit
  <1>4. /\ Good(al') /\ al'.work = al.work
        /\ \A v \in al.units : Id(v) # thr[t].id /\ v.status # "complete" => v \in al'.units
    BY <1>1, <1>2, <1>3, CompleteGood
  <1>5. UNCHANGED <<disk, snap, generation, net, session, main, crashes, ticks>>
    BY DEF CompleteUnit
  <1>6. CASE t # Gpu
    <2>1. Go(t, "check") /\ "check" \in ThreadPcs
      BY <1>6 DEF CompleteUnit, ThreadPcs
    <2>2. PICK th \in Thread :
            /\ thr' = [thr EXCEPT ![t] = th]
            /\ (th.pc = "check" /\ th.work = thr[t].work) \/ th.pc = "done"
      BY <2>1, GoOrReturn
    <2> QED BY <1>1, <1>4, <1>5, <1>6, <2>2, DropUnit
  <1>7. CASE t = Gpu
    <2>1. (Go(t, "acquire") \/ Return(t)) /\ "acquire" \in ThreadPcs
      BY <1>7 DEF CompleteUnit, ThreadPcs
    <2>2. PICK th \in Thread :
            /\ thr' = [thr EXCEPT ![t] = th]
            /\ (th.pc = "acquire" /\ th.work = thr[t].work) \/ th.pc = "done"
      BY <2>1, GoOrReturn
    <2> QED BY <1>1, <1>4, <1>5, <1>7, <2>2, DropUnit
  <1> QED BY <1>6, <1>7

(* release leaves the units of the others alone. *)
LEMMA ReleaseOthers ==
  ASSUME NEW a, Good(a), NEW id
  PROVE  /\ Good(Release(a, id)) /\ Release(a, id).work = a.work
         /\ \A u \in a.units : Id(u) # id => u \in Release(a, id).units
  <1>1. /\ Good(Release(a, id)) /\ Release(a, id).work = a.work
        /\ Release(a, id).units = {IF Id(u) = id /\ u.status = "in_progress"
                                   THEN [u EXCEPT !.status = "pending"] ELSE u : u \in a.units}
    BY ReleaseGood
  <1> DEFINE R == Release(a, id).units
  <1>2. \A u \in a.units : Id(u) # id => u \in R
    <2> HIDE DEF R
    <2>1. R = {IF Id(u) = id /\ u.status = "in_progress"
               THEN [u EXCEPT !.status = "pending"] ELSE u : u \in a.units}
      BY <1>1 DEF R
    <2> QED BY <2>1
  <1> QED BY <1>1, <1>2

(* release on a held unit keeps the units the others hold. *)
LEMMA ReleaseUnitStep ==
  ASSUME IInv, NEW t \in Threads, ReleaseUnit(t)
  PROVE  IInv'
  <1>1. /\ Good(al) /\ Holds(t) /\ hashed' \subseteq Nat \X Nat
        /\ al' = Release(al, thr[t].id)
        /\ UNCHANGED <<disk, snap, generation, net, session, main, crashes, ticks>>
    BY IInvGood DEF ReleaseUnit, Holds, IInv, TypeOK
  <1>2. /\ Good(al') /\ al'.work = al.work
        /\ \A v \in al.units : Id(v) # thr[t].id => v \in al'.units
    BY <1>1, ReleaseOthers
  <1>3. (IF t = Gpu THEN Return(t) ELSE Go(t, "check")) /\ "check" \in ThreadPcs
    BY DEF ReleaseUnit, ThreadPcs
  <1>4. PICK th \in Thread :
          /\ thr' = [thr EXCEPT ![t] = th]
          /\ (t # Gpu /\ th.pc = "check" /\ th.work = thr[t].work) \/ th.pc = "done"
    <2>1. CASE t = Gpu
      <3>1. Returned(thr[t]) \in Thread /\ Returned(thr[t]).pc = "done"
        BY ThreadFields, ReturnedType
      <3> QED BY <1>3, <2>1, <3>1 DEF Return
    <2>2. CASE t # Gpu
      BY <1>3, <2>2, GoOrReturn
    <2> QED BY <2>1, <2>2
  <1> QED BY <1>1, <1>2, <1>4, DropUnit

(* The exception of complete on the GPU thread, caught there. *)
LEMMA GpuExhaustedStep ==
  ASSUME IInv, GpuExhausted
  PROVE  IInv'
  <1> DEFINE id == thr[Gpu].id
             a == HalfCompleted(al, id)
             th == Returned(thr[Gpu])
  <1>1. /\ Good(al) /\ Holds(Gpu) /\ hashed' \subseteq Nat \X Nat /\ Gpu \in Threads
        /\ al' = Release(a, id) /\ CompleteThrows(al, id)
        /\ thr' = [thr EXCEPT ![Gpu] = th]
        /\ UNCHANGED <<disk, snap, generation, net, session, main, crashes, ticks>>
    BY IInvGood DEF GpuExhausted, Holds, IInv, TypeOK, Threads, Return
  <1>2. Good(a) /\ a.work = al.work /\ \A u \in al.units : Id(u) # id => u \in a.units
    BY <1>1, HalfCompletedGood
  <1>3. th \in Thread /\ th.pc = "done"
    BY <1>1, ThreadFields, ReturnedType
  <1> HIDE DEF a, th
  <1>4. Good(al') /\ al'.work = al.work /\ \A u \in al.units : Id(u) # id => u \in al'.units
    BY <1>1, <1>2, ReleaseOthers
  <1> QED BY <1>1, <1>3, <1>4, DropUnit

(* A failed OpenCL call gives the unit back. *)
LEMMA GpuFailStep ==
  ASSUME IInv, GpuFail
  PROVE  IInv'
  <1> DEFINE id == thr[Gpu].id
             th == Returned(thr[Gpu])
  <1>1. /\ Good(al) /\ Holds(Gpu) /\ hashed' \subseteq Nat \X Nat /\ Gpu \in Threads
        /\ al' = Release(al, id)
        /\ thr' = [thr EXCEPT ![Gpu] = th]
        /\ UNCHANGED <<disk, snap, generation, net, session, main, crashes, ticks>>
    BY IInvGood DEF GpuFail, Holds, IInv, TypeOK, Threads, Return
  <1>2. Good(al') /\ al'.work = al.work /\ \A u \in al.units : Id(u) # id => u \in al'.units
    BY <1>1, ReleaseOthers
  <1>3. th \in Thread /\ th.pc = "done"
    BY <1>1, ThreadFields, ReturnedType
  <1> HIDE DEF th
  <1> QED BY <1>1, <1>2, <1>3, DropUnit

-----------------------------------------------------------------------------
(* The network thread and the main thread. *)

(* request_stop changes nothing but the stop flag. *)
LEMMA RequestStopFacts ==
  ASSUME IInv, NEW S, thr' = RequestStop(S)
  PROVE  /\ thr' \in [Threads -> Thread]
         /\ \A t \in Threads : thr'[t] \in {thr[t], Stopped(thr[t])} /\ thr'[t].pc = thr[t].pc
  <1>1. \A t \in Threads : /\ thr[t] \in Thread /\ Stopped(thr[t]) \in Thread
                           /\ Stopped(thr[t]).pc = thr[t].pc
    BY ThreadFields, StoppedFields
  <1> QED BY <1>1 DEF RequestStop

(* After the join of the CPU threads none of them is left. *)
LEMMA CpuJoinedFacts ==
  ASSUME IInv, thr' = CpuJoined
  PROVE  /\ thr' \in [Threads -> Thread]
         /\ thr'[Gpu] = Stopped(thr[Gpu]) /\ thr'[Gpu].pc = thr[Gpu].pc
         /\ \A t \in CpuThreads : thr'[t] = NoThread /\ thr'[t].pc = "none"
  <1>1. \A t \in Threads : /\ thr[t] \in Thread /\ Stopped(thr[t]) \in Thread
                           /\ Stopped(thr[t]).pc = thr[t].pc
    BY ThreadFields, StoppedFields
  <1>2. NoThread \in Thread /\ NoThread.pc = "none" /\ Gpu \in Threads /\ Gpu \notin CpuThreads
    BY NoThreadType DEF Threads, Gpu, CpuThreads
  <1>3. CpuThreads \subseteq Threads
    BY DEF Threads
  <1> HIDE DEF NoThread
  <1> QED BY <1>1, <1>2, <1>3 DEF CpuJoined

(* stop_workers, or the join of the CPU threads, by any thread. *)
LEMMA StopFrame ==
  ASSUME IInv, UNCHANGED al,
         \/ \E S : thr' = RequestStop(S)
         \/ thr' = CpuJoined
         \/ thr' = [thr EXCEPT ![Gpu] = NoThread]
         \/ UNCHANGED thr
  PROVE  /\ thr' \in [Threads -> Thread]
         /\ \A t \in Threads : thr[t].pc = "none" => thr'[t].pc = "none"
         /\ HeldUnitsKnown' /\ DistinctHeld'
         /\ (\A t \in Threads : ~Idle(t) => thr[t].work = al.work)'
  <1>1. thr \in [Threads -> Thread] /\ NoThread \in Thread /\ NoThread.pc = "none"
    BY NoThreadType DEF IInv, TypeOK
  <1>2. Gpu \in Threads /\ Gpu \notin CpuThreads /\ Threads = CpuThreads \cup {Gpu}
    BY DEF Threads, Gpu, CpuThreads
  <1> DEFINE Same(t) == thr'[t] \in {thr[t], Stopped(thr[t])} /\ thr'[t].pc = thr[t].pc
             Gone(t) == thr'[t] = NoThread
  <1> HIDE DEF NoThread
  <1>3. thr' \in [Threads -> Thread] /\ \A t \in Threads : Same(t) \/ Gone(t)
    <2>1. CASE \E S : thr' = RequestStop(S)
      BY <2>1, RequestStopFacts
    <2>2. CASE thr' = CpuJoined
      BY <1>2, <2>2, CpuJoinedFacts
    <2>3. CASE thr' = [thr EXCEPT ![Gpu] = NoThread]
      BY <1>1, <2>3
    <2>4. CASE UNCHANGED thr
      BY <1>1, <2>4
    <2> QED BY <2>1, <2>2, <2>3, <2>4
  <1>4. \A t \in Threads : Gone(t) => ~Holds(t)' /\ Idle(t)'
    BY <1>1 DEF Holds, Idle
  <1>5. \A t \in Threads : \/ thr'[t] \in {thr[t], Stopped(thr[t])}
                           \/ ~Holds(t)' /\ (Idle(t)' \/ thr'[t].work = al.work)
    BY <1>3, <1>4
  <1>6. \A t \in Threads : thr[t].pc = "none" => thr'[t].pc = "none"
    BY <1>1, <1>3
  <1> QED BY <1>3, <1>5, <1>6, HeldFrame

(* A process that starts: no thread, and the records of the file. *)
LEMMA BootStep ==
  ASSUME IInv, Boot(disk), main' \in MainPcs, crashes' \in Nat, UNCHANGED disk
  PROVE  IInv'
  <1>1. Good(disk)
    BY IInvGood
  <1>2. Good(al') /\ hashed' \subseteq Nat \X Nat
    BY <1>1, LoadGood, GoodParts DEF Boot
  <1>3. /\ snap' = [p \in Savers |-> None] /\ generation' = 0 /\ ticks' = 0
        /\ thr' = [t \in Threads |-> NoThread]
        /\ net' = [pc |-> "sleep", job |-> None, op |-> "launch", gen |-> 0]
        /\ session' = [subscribed |-> FALSE, authorized |-> FALSE, ex1 |-> None, pending |-> None]
    BY DEF Boot
  <1>4. NoThread \in Thread /\ NoThread.pc = "none"
    BY NoThreadType
  <1> HIDE DEF NoThread
  <1>5. TypeOK'
    BY <1>1, <1>2, <1>3, <1>4 DEF TypeOK, Good, NetPcs
  <1>6. RecordsWellFormed'
    BY <1>1, <1>2, <1>3 DEF RecordsWellFormed, Good
  <1>7. LaunchHasWork'
    BY <1>3 DEF LaunchHasWork, Launching
  <1>8. \A t \in Threads : Idle(t)'
    BY <1>3, <1>4 DEF Idle
  <1>9. JoinedBeforePrepare'
    BY <1>3, <1>8, NoneLeftFrame DEF JoinedBeforePrepare
  <1> QED BY <1>5, <1>6, <1>7, <1>8, <1>9, NoneLeftFrame DEF IInv, MinerInv

(* Steps that only move the network thread or the session, and stop workers. *)
LEMMA ControlFrame ==
  ASSUME IInv, UNCHANGED <<al, disk, snap>>,
         \/ \E S : thr' = RequestStop(S)
         \/ thr' = CpuJoined
         \/ thr' = [thr EXCEPT ![Gpu] = NoThread]
         \/ UNCHANGED thr,
         generation' \in Nat, main' \in MainPcs, crashes' \in Nat, ticks' \in Nat,
         hashed' \subseteq Nat \X Nat,
         net' \in [pc : NetPcs, job : (Jobs \X BOOLEAN) \cup {None}, op : {"launch", "drop"}, gen : Nat],
         session' \in [subscribed : BOOLEAN, authorized : BOOLEAN, ex1 : Ex1s \cup {None},
                       pending : (Jobs \X BOOLEAN) \cup {None}],
         LaunchHasWork',
         \/ net'.pc \notin {"join_gpu", "prepare", "start_cpu"}
         \/ net.pc \in {"join_gpu", "prepare", "start_cpu"}
         \/ \A t \in CpuThreads : thr'[t].pc = "none",
         \/ net'.pc \notin {"prepare", "start_cpu", "start_gpu"}
         \/ net.pc \in {"prepare", "start_cpu", "start_gpu"}
         \/ thr'[Gpu].pc = "none"
  PROVE  IInv'
  <1>1. /\ thr' \in [Threads -> Thread]
        /\ \A t \in Threads : thr[t].pc = "none" => thr'[t].pc = "none"
        /\ HeldUnitsKnown' /\ DistinctHeld'
        /\ (\A t \in Threads : ~Idle(t) => thr[t].work = al.work)'
    BY StopFrame
  <1>2. TypeOK'
    BY <1>1 DEF IInv, TypeOK
  <1>3. RecordsWellFormed'
    BY DEF IInv, MinerInv, RecordsWellFormed
  <1>4. JoinedBeforePrepare'
    BY <1>1 DEF IInv, MinerInv, JoinedBeforePrepare, Threads
  <1> QED BY <1>1, <1>2, <1>3, <1>4 DEF IInv, MinerInv

(* What the type invariant says of the variables other than the records. *)
LEMMA NetFields ==
  ASSUME IInv
  PROVE  /\ net \in [pc : NetPcs, job : (Jobs \X BOOLEAN) \cup {None}, op : {"launch", "drop"}, gen : Nat]
         /\ session \in [subscribed : BOOLEAN, authorized : BOOLEAN, ex1 : Ex1s \cup {None},
                         pending : (Jobs \X BOOLEAN) \cup {None}]
         /\ generation \in Nat /\ main \in MainPcs /\ crashes \in Nat /\ ticks \in Nat
         /\ hashed \subseteq Nat \X Nat /\ LaunchHasWork
         /\ generation + 1 \in Nat
  BY DEF IInv, TypeOK, MinerInv

(* A connection touches no worker and no record. *)
LEMMA ConnectStep ==
  ASSUME IInv, Connect
  PROVE  IInv'
  <1>1. /\ net' = [net EXCEPT !.pc = "idle"]
        /\ UNCHANGED <<al, disk, snap, generation, thr, session, main, hashed, crashes, ticks>>
    BY DEF Connect
  <1>2. net'.pc = "idle" /\ net'.job = net.job /\ net'.op = net.op
        /\ net' \in [pc : NetPcs, job : (Jobs \X BOOLEAN) \cup {None}, op : {"launch", "drop"}, gen : Nat]
    BY <1>1, NetFields DEF NetPcs
  <1>3. LaunchHasWork'
    BY <1>1, <1>2, NetFields DEF LaunchHasWork, Launching
  <1> QED BY <1>1, <1>2, <1>3, NetFields, ControlFrame

(* BeginStop for a disconnection. *)
LEMMA DropStep ==
  ASSUME IInv, BeginStop("join_cpu", None, "drop"), UNCHANGED <<al, disk, snap, session, main, hashed, crashes, ticks>>
  PROVE  IInv'
  <1>1. /\ generation' = generation + 1 /\ thr' = RequestStop(CpuThreads)
        /\ net' = [pc |-> "join_cpu", job |-> None, op |-> "drop", gen |-> 0]
    BY DEF BeginStop
  <1>2. net' \in [pc : NetPcs, job : (Jobs \X BOOLEAN) \cup {None}, op : {"launch", "drop"}, gen : Nat]
        /\ net'.pc = "join_cpu" /\ net'.op = "drop"
    BY <1>1 DEF NetPcs
  <1>3. LaunchHasWork'
    BY <1>2, NetFields DEF LaunchHasWork, Launching
  <1> QED BY <1>1, <1>2, <1>3, NetFields, ControlFrame

(* The callbacks that may launch a job. *)
LEMMA LaunchStep ==
  ASSUME IInv, NEW job \in (Jobs \X BOOLEAN) \cup {None}, NEW sub \in BOOLEAN,
         NEW auth \in BOOLEAN, net.pc = "idle",
         LaunchOrIdle(job, sub, auth),
         session' \in [subscribed : BOOLEAN, authorized : BOOLEAN, ex1 : Ex1s \cup {None},
                       pending : (Jobs \X BOOLEAN) \cup {None}],
         session'.subscribed = sub, sub => session'.ex1 \in Ex1s,
         UNCHANGED <<al, disk, snap, main, hashed, crashes, ticks>>
  PROVE  IInv'
  <1>1. CASE job # None /\ sub /\ auth
    <2>1. /\ generation' = generation + 1 /\ thr' = RequestStop(CpuThreads)
          /\ net' = [pc |-> "join_cpu", job |-> job, op |-> "launch", gen |-> 0]
      BY <1>1 DEF LaunchOrIdle, BeginStop
    <2>2. net' \in [pc : NetPcs, job : (Jobs \X BOOLEAN) \cup {None}, op : {"launch", "drop"}, gen : Nat]
          /\ net'.pc = "join_cpu" /\ net'.op = "launch" /\ net'.job = job
      BY <2>1 DEF NetPcs
    <2>3. LaunchHasWork'
      BY <1>1, <2>2 DEF LaunchHasWork, Launching
    <2> QED BY <2>1, <2>2, <2>3, NetFields, ControlFrame
  <1>2. CASE ~(job # None /\ sub /\ auth)
    <2>1. UNCHANGED <<generation, thr, net>>
      BY <1>2 DEF LaunchOrIdle
    <2>2. LaunchHasWork'
      BY <2>1 DEF LaunchHasWork, Launching
    <2> QED BY <2>1, <2>2, NetFields, ControlFrame
  <1> QED BY <1>1, <1>2

(* mining.subscribe is answered; a job that waited is launched. *)
LEMMA OnSubscribedStep ==
  ASSUME IInv, NEW e \in Ex1s, OnSubscribed(e)
  PROVE  IInv'
  <1>1. /\ net.pc = "idle" /\ LaunchOrIdle(session.pending, TRUE, session.authorized)
        /\ session' = [session EXCEPT !.subscribed = TRUE, !.ex1 = e,
                         !.pending = IF session.authorized THEN None ELSE @]
        /\ UNCHANGED <<al, disk, snap, main, hashed, crashes, ticks>>
    BY DEF OnSubscribed, Listening
  <1>2. /\ session.pending \in (Jobs \X BOOLEAN) \cup {None} /\ session.authorized \in BOOLEAN
    BY NetFields
  <1>3. /\ session' \in [subscribed : BOOLEAN, authorized : BOOLEAN, ex1 : Ex1s \cup {None},
                         pending : (Jobs \X BOOLEAN) \cup {None}]
        /\ session'.subscribed = TRUE /\ session'.ex1 \in Ex1s
    BY <1>1, NetFields
  <1> QED BY <1>1, <1>2, <1>3, LaunchStep

(* mining.authorize is answered; a job that waited is launched. *)
LEMMA OnAuthorizedStep ==
  ASSUME IInv, OnAuthorized
  PROVE  IInv'
  <1>1. /\ net.pc = "idle" /\ LaunchOrIdle(session.pending, session.subscribed, TRUE)
        /\ session' = [session EXCEPT !.authorized = TRUE,
                         !.pending = IF session.subscribed THEN None ELSE @]
        /\ UNCHANGED <<al, disk, snap, main, hashed, crashes, ticks>>
    BY DEF OnAuthorized, Listening
  <1>2. /\ session.pending \in (Jobs \X BOOLEAN) \cup {None} /\ session.subscribed \in BOOLEAN
    BY NetFields
  <1>3. /\ session' \in [subscribed : BOOLEAN, authorized : BOOLEAN, ex1 : Ex1s \cup {None},
                         pending : (Jobs \X BOOLEAN) \cup {None}]
        /\ session'.subscribed = session.subscribed
        /\ session.subscribed => session'.ex1 \in Ex1s
    BY <1>1, NetFields DEF LaunchHasWork
  <1> QED BY <1>1, <1>2, <1>3, LaunchStep

(* mining.notify launches the job or leaves it waiting. *)
LEMMA OnJobStep ==
  ASSUME IInv, NEW j \in Jobs, NEW clean \in CleanFlags, OnJob(j, clean)
  PROVE  IInv'
  <1> DEFINE job == <<j, clean>>
  <1>1. /\ net.pc = "idle" /\ LaunchOrIdle(job, session.subscribed, session.authorized)
        /\ session' = IF session.subscribed /\ session.authorized THEN session
                      ELSE [session EXCEPT !.pending = job]
        /\ UNCHANGED <<al, disk, snap, main, hashed, crashes, ticks>>
    BY DEF OnJob, Listening
  <1>2. job \in (Jobs \X BOOLEAN) \cup {None}
    BY MinerAssumption
  <1> HIDE DEF job
  <1>3. session.authorized \in BOOLEAN /\ session.subscribed \in BOOLEAN
    BY NetFields
  <1>4. /\ session' \in [subscribed : BOOLEAN, authorized : BOOLEAN, ex1 : Ex1s \cup {None},
                         pending : (Jobs \X BOOLEAN) \cup {None}]
        /\ session'.subscribed = session.subscribed
        /\ session.subscribed => session'.ex1 \in Ex1s
    BY <1>1, <1>2, NetFields DEF LaunchHasWork
  <1> QED BY <1>1, <1>2, <1>3, <1>4, LaunchStep

(* cpu->stop() has returned. *)
LEMMA NetJoinCpuStep ==
  ASSUME IInv, NetJoinCpu
  PROVE  IInv'
  <1>1. /\ net.pc = "join_cpu" /\ net' = [net EXCEPT !.pc = "join_gpu"] /\ thr' = CpuJoined
        /\ UNCHANGED <<al, disk, snap, generation, session, main, hashed, crashes, ticks>>
    BY DEF NetJoinCpu
  <1>2. net'.pc = "join_gpu" /\ net'.job = net.job /\ net'.op = net.op
        /\ net' \in [pc : NetPcs, job : (Jobs \X BOOLEAN) \cup {None}, op : {"launch", "drop"}, gen : Nat]
    BY <1>1, NetFields DEF NetPcs
  <1>3. LaunchHasWork'
    BY <1>1, <1>2, NetFields DEF LaunchHasWork, Launching
  <1>4. \A t \in CpuThreads : thr'[t].pc = "none"
    BY <1>1, CpuJoinedFacts
  <1> QED BY <1>1, <1>2, <1>3, <1>4, NetFields, ControlFrame

(* gpu->stop() has returned; a launch goes on to mark_all_stale. *)
LEMMA NetJoinGpuStep ==
  ASSUME IInv, NetJoinGpu
  PROVE  IInv'
  <1>1. /\ net.pc = "join_gpu" /\ Idle(Gpu) /\ thr' = [thr EXCEPT ![Gpu] = NoThread]
        /\ UNCHANGED <<disk, snap, generation, main, hashed, crashes, ticks>>
    BY DEF NetJoinGpu
  <1>2. thr \in [Threads -> Thread] /\ NoThread \in Thread /\ NoThread.pc = "none"
        /\ Gpu \in Threads /\ Threads = CpuThreads \cup {Gpu}
    BY NoThreadType DEF IInv, TypeOK, Threads
  <1>3. \A t \in CpuThreads : thr[t].pc = "none"
    BY <1>1 DEF IInv, MinerInv, JoinedBeforePrepare
  <1> HIDE DEF NoThread
  <1>4. thr' \in [Threads -> Thread] /\ \A t \in Threads : thr'[t].pc = "none"
    BY <1>1, <1>2, <1>3
  <1>5. CASE net.op = "drop"
    <2>1. /\ net' = [net EXCEPT !.pc = "snap"] /\ UNCHANGED al
          /\ session' = [session EXCEPT !.subscribed = FALSE, !.authorized = FALSE]
      BY <1>5 DEF NetJoinGpu
    <2>2. net'.pc = "snap" /\ net'.job = net.job /\ net'.op = net.op
          /\ net' \in [pc : NetPcs, job : (Jobs \X BOOLEAN) \cup {None}, op : {"launch", "drop"}, gen : Nat]
      BY <2>1, NetFields DEF NetPcs
    <2>3. /\ session' \in [subscribed : BOOLEAN, authorized : BOOLEAN, ex1 : Ex1s \cup {None},
                           pending : (Jobs \X BOOLEAN) \cup {None}]
          /\ session'.subscribed = FALSE
      BY <2>1, NetFields
    <2>4. LaunchHasWork'
      BY <2>2, <2>3 DEF LaunchHasWork, Launching
    <2> QED BY <1>1, <2>1, <2>2, <2>3, <2>4, NetFields, ControlFrame
  <1>6. CASE net.op = "launch"
    <2>1. /\ net' = [net EXCEPT !.pc = "prepare"] /\ UNCHANGED session
          /\ al' = IF net.job[2] THEN MarkAllStale(al) ELSE al
      BY <1>6 DEF NetJoinGpu
    <2>2. net'.pc = "prepare" /\ net'.job = net.job /\ net'.op = net.op
          /\ net' \in [pc : NetPcs, job : (Jobs \X BOOLEAN) \cup {None}, op : {"launch", "drop"}, gen : Nat]
      BY <2>1, NetFields DEF NetPcs
    <2>3. Good(al')
      BY <2>1, IInvGood, StaleGood
    <2>4. LaunchHasWork'
      BY <1>1, <1>6, <2>1, <2>2, NetFields DEF LaunchHasWork, Launching
    <2>5. TypeOK'
      BY <1>1, <1>4, <2>1, <2>2, <2>3 DEF IInv, TypeOK, Good
    <2>6. RecordsWellFormed'
      BY <1>1, <2>3 DEF IInv, MinerInv, RecordsWellFormed, Good
    <2>7. \A t \in Threads : Idle(t)'
      BY <1>4 DEF Idle
    <2>8. JoinedBeforePrepare'
      BY <1>2, <1>4, <2>7, NoneLeftFrame DEF JoinedBeforePrepare
    <2> QED BY <2>4, <2>5, <2>6, <2>7, <2>8, NoneLeftFrame DEF IInv, MinerInv
  <1> QED BY <1>5, <1>6, NetFields

(* At "prepare" no thread is left and the work to launch is known. *)
LEMMA AtPrepare ==
  ASSUME IInv, net.pc = "prepare"
  PROVE  /\ LaunchedWork \in Work /\ net.op = "launch" /\ session.subscribed
         /\ \A t \in Threads : thr[t].pc = "none"
  <1>1. net.op = "launch" /\ Launching
    BY NetFields DEF LaunchHasWork, Launching
  <1>2. net.job # None /\ session.subscribed /\ session.ex1 \in Ex1s
    BY <1>1, NetFields DEF LaunchHasWork
  <1>3. net.job \in Jobs \X BOOLEAN
    BY <1>2, NetFields
  <1> QED BY <1>1, <1>2, <1>3 DEF LaunchedWork, Work, IInv, MinerInv, JoinedBeforePrepare, Threads

(* What the network thread is at after prepare_live_job. *)
LEMMA PrepareNet ==
  ASSUME IInv, Prepare \/ PrepareOverflow
  PROVE  /\ UNCHANGED <<disk, snap, session, main>> /\ net.pc = "prepare"
         /\ \/ net'.pc \in {"idle", "start_cpu"} /\ net'.job = net.job
            \/ net'.pc = "join_cpu" /\ net'.job = None /\ net'.op = "drop"
  <1>1. CASE Prepare
    <2>1. net' = [net EXCEPT !.pc = IF net.job[1] \in BadJobs THEN "idle" ELSE "start_cpu",
                             !.gen = generation]
      BY <1>1 DEF Prepare
    <2>2. net'.pc \in {"idle", "start_cpu"} /\ net'.job = net.job
      BY <2>1, NetFields
    <2> QED BY <1>1, <2>2 DEF Prepare
  <1>2. CASE PrepareOverflow
    <2>1. net' = [pc |-> "join_cpu", job |-> None, op |-> "drop", gen |-> 0]
      BY <1>2 DEF PrepareOverflow, BeginStop
    <2> QED BY <1>2, <2>1 DEF PrepareOverflow
  <1> QED BY <1>1, <1>2

(* prepare_live_job runs when no thread is left. *)
LEMMA PrepareStep ==
  ASSUME IInv, Prepare
  PROVE  IInv'
  <1> DEFINE w == LaunchedWork
  <1>1. /\ net.pc = "prepare" /\ ~PrepareThrows(al, w, generation)
        /\ al' = PrepareLiveJob(al, w, generation)
        /\ hashed' = IF al.work = w THEN hashed ELSE {}
        /\ net' = [net EXCEPT !.pc = IF net.job[1] \in BadJobs THEN "idle" ELSE "start_cpu",
                              !.gen = generation]
        /\ UNCHANGED <<disk, snap, generation, thr, session, main, crashes, ticks>>
    BY DEF Prepare
  <1>2. w \in Work /\ net.op = "launch" /\ \A t \in Threads : thr[t].pc = "none"
    BY <1>1, AtPrepare
  <1> HIDE DEF w
  <1>3. Good(al') /\ al'.work = w
    BY <1>1, <1>2, IInvGood, NetFields, PrepareGood
  <1>4. net'.pc \in {"idle", "start_cpu"} /\ net'.job = net.job /\ net'.op = net.op
        /\ net' \in [pc : NetPcs, job : (Jobs \X BOOLEAN) \cup {None}, op : {"launch", "drop"}, gen : Nat]
    BY <1>1, NetFields DEF NetPcs
  <1>5. LaunchHasWork'
    <2>1. LaunchedWork' = w
      BY <1>1, <1>4 DEF LaunchedWork, w
    <2> QED BY <1>1, <1>2, <1>3, <1>4, <2>1, NetFields DEF LaunchHasWork, Launching
  <1>6. TypeOK'
    <2>1. hashed' \subseteq Nat \X Nat
      BY <1>1, NetFields
    <2> QED BY <1>1, <1>3, <1>4, <2>1 DEF IInv, TypeOK, Good
  <1>7. RecordsWellFormed'
    BY <1>1, <1>3 DEF IInv, MinerInv, RecordsWellFormed, Good
  <1>8. \A t \in Threads : Idle(t)' /\ thr'[t].pc = "none"
    BY <1>1, <1>2 DEF Idle
  <1>9. JoinedBeforePrepare'
    BY <1>8, NoneLeftFrame DEF JoinedBeforePrepare, Threads
  <1> QED BY <1>5, <1>6, <1>7, <1>8, <1>9, NoneLeftFrame DEF IInv, MinerInv

(* prepare_live_job throws and the connection is dropped. *)
LEMMA PrepareOverflowStep ==
  ASSUME IInv, PrepareOverflow
  PROVE  IInv'
  <1> DEFINE w == LaunchedWork
  <1>1. /\ net.pc = "prepare" /\ PrepareThrows(al, w, generation)
        /\ al' = HalfPrepared(al, w, generation)
        /\ generation' = generation + 1 /\ thr' = RequestStop(CpuThreads)
        /\ net' = [pc |-> "join_cpu", job |-> None, op |-> "drop", gen |-> 0]
        /\ UNCHANGED <<disk, snap, session, main, hashed, crashes, ticks>>
    BY DEF PrepareOverflow, BeginStop
  <1>2. w \in Work /\ \A t \in Threads : thr[t].pc = "none"
    BY <1>1, AtPrepare
  <1> HIDE DEF w
  <1>3. Good(al') /\ al'.work = al.work
    BY <1>1, <1>2, IInvGood, NetFields, HalfPreparedGood
  <1>4. net'.pc = "join_cpu" /\ net'.op = "drop"
        /\ net' \in [pc : NetPcs, job : (Jobs \X BOOLEAN) \cup {None}, op : {"launch", "drop"}, gen : Nat]
    BY <1>1 DEF NetPcs
  <1>5. LaunchHasWork'
    BY <1>1, <1>4, NetFields DEF LaunchHasWork, Launching
  <1>6. thr' \in [Threads -> Thread] /\ \A t \in Threads : thr'[t].pc = "none"
    BY <1>1, <1>2, RequestStopFacts
  <1>7. TypeOK'
    BY <1>1, <1>3, <1>4, <1>6, NetFields DEF IInv, TypeOK, Good
  <1>8. RecordsWellFormed'
    BY <1>1, <1>3 DEF IInv, MinerInv, RecordsWellFormed, Good
  <1>9. \A t \in Threads : Idle(t)'
    BY <1>6 DEF Idle
  <1>10. JoinedBeforePrepare'
    BY <1>4, <1>9, NoneLeftFrame DEF JoinedBeforePrepare
  <1> QED BY <1>5, <1>7, <1>8, <1>9, <1>10, NoneLeftFrame DEF IInv, MinerInv

(* A thread that starts carries the work and the generation of its job. *)
LEMMA NewThreadType ==
  ASSUME IInv, NEW pc \in ThreadPcs, NEW w \in Work
  PROVE  /\ NewThread(pc, w) \in Thread
         /\ NewThread(pc, w).pc = pc /\ NewThread(pc, w).work = w
  BY NoThreadType, NetFields DEF NewThread, Thread

(* When threads are started the allocator is prepared for their work. *)
LEMMA AtStart ==
  ASSUME IInv, net.pc \in {"start_cpu", "start_gpu"}
  PROVE  /\ LaunchedWork \in Work /\ al.work = LaunchedWork
         /\ net.op = "launch" /\ session.subscribed /\ thr[Gpu].pc = "none"
  <1>1. net.op = "launch" /\ Launching
    BY NetFields DEF LaunchHasWork, Launching
  <1>2. net.job # None /\ session.subscribed /\ session.ex1 \in Ex1s
    BY <1>1, NetFields DEF LaunchHasWork
  <1>3. net.job \in Jobs \X BOOLEAN
    BY <1>2, NetFields
  <1> QED BY <1>1, <1>2, <1>3, NetFields
          DEF LaunchedWork, Work, LaunchHasWork, IInv, MinerInv, JoinedBeforePrepare

(* CpuMiner::start: the new workers hold no unit yet. *)
LEMMA StartCpuStep ==
  ASSUME IInv, StartCpu
  PROVE  IInv'
  <1> DEFINE w == LaunchedWork
             new == NewThread("check", w)
  <1>1. /\ net.pc = "start_cpu" /\ net' = [net EXCEPT !.pc = "start_gpu"]
        /\ thr' = [t \in Threads |-> IF t = Gpu THEN thr[t]
                                     ELSE IF CpuEnabled THEN new ELSE NoThread]
        /\ UNCHANGED <<al, disk, snap, generation, session, main, hashed, crashes, ticks>>
    BY DEF StartCpu
  <1>2. w \in Work /\ al.work = w /\ net.op = "launch" /\ session.subscribed /\ thr[Gpu].pc = "none"
    BY <1>1, AtStart
  <1>3. new \in Thread /\ new.pc = "check" /\ new.work = w
    BY <1>2, NewThreadType DEF ThreadPcs
  <1>4. NoThread \in Thread /\ NoThread.pc = "none" /\ Gpu \in Threads
        /\ thr \in [Threads -> Thread]
    BY NoThreadType DEF Threads, IInv, TypeOK
  <1>5. net'.pc = "start_gpu" /\ net'.job = net.job /\ net'.op = net.op
        /\ net' \in [pc : NetPcs, job : (Jobs \X BOOLEAN) \cup {None}, op : {"launch", "drop"}, gen : Nat]
    BY <1>1, NetFields DEF NetPcs
  <1>6. LaunchedWork' = w
    BY <1>1, <1>5 DEF LaunchedWork
  <1> HIDE DEF w, new, NoThread
  <1>7. LaunchHasWork'
    BY <1>1, <1>2, <1>5, <1>6, NetFields DEF LaunchHasWork, Launching
  <1>8. thr' \in [Threads -> Thread] /\ thr'[Gpu] = thr[Gpu]
        /\ \A t \in Threads \ {Gpu} : thr'[t] \in {new, NoThread}
    BY <1>1, <1>3, <1>4
  <1>9. ASSUME NEW t \in Threads
        PROVE  ~Holds(t)' /\ (Idle(t)' \/ thr'[t].work = al.work)
    BY <1>2, <1>3, <1>4, <1>8 DEF Holds, Idle
  <1>10. HeldUnitsKnown' /\ DistinctHeld'
         /\ (\A t \in Threads : ~Idle(t) => thr[t].work = al.work)'
    BY <1>1, <1>9, HeldFrame
  <1>11. TypeOK'
    BY <1>1, <1>5, <1>8 DEF IInv, TypeOK
  <1>12. RecordsWellFormed'
    BY <1>1 DEF IInv, MinerInv, RecordsWellFormed
  <1>13. JoinedBeforePrepare'
    BY <1>2, <1>5, <1>8, <1>10 DEF JoinedBeforePrepare
  <1> QED BY <1>7, <1>10, <1>11, <1>12, <1>13 DEF IInv, MinerInv

(* GpuMiner::start: the new thread holds no unit yet. *)
LEMMA StartGpuStep ==
  ASSUME IInv, StartGpu
  PROVE  IInv'
  <1> DEFINE w == LaunchedWork
             new == NewThread("acquire", w)
  <1>1. /\ net.pc = "start_gpu" /\ net' = [net EXCEPT !.pc = "snap"]
        /\ thr' = [thr EXCEPT ![Gpu] = new] \/ UNCHANGED thr
        /\ UNCHANGED <<al, disk, snap, generation, session, main, hashed, crashes, ticks>>
    BY DEF StartGpu
  <1>2. w \in Work /\ al.work = w
    BY <1>1, AtStart
  <1>3. new \in Thread /\ new.pc = "acquire" /\ new.work = w
    BY <1>2, NewThreadType DEF ThreadPcs
  <1>4. Gpu \in Threads /\ thr \in [Threads -> Thread]
    BY DEF Threads, IInv, TypeOK
  <1>5. net'.pc = "snap" /\ net'.job = net.job /\ net'.op = net.op
        /\ net' \in [pc : NetPcs, job : (Jobs \X BOOLEAN) \cup {None}, op : {"launch", "drop"}, gen : Nat]
    BY <1>1, NetFields DEF NetPcs
  <1> HIDE DEF w, new
  <1>6. LaunchHasWork'
    BY <1>1, <1>5, NetFields DEF LaunchHasWork, Launching
  <1>7. thr' \in [Threads -> Thread]
        /\ \A t \in Threads : thr'[t] = thr[t] \/ (t = Gpu /\ thr'[t] = new)
    BY <1>1, <1>3, <1>4
  <1>8. \A t \in Threads : \/ thr'[t] \in {thr[t], Stopped(thr[t])}
                           \/ ~Holds(t)' /\ (Idle(t)' \/ thr'[t].work = al.work)
    BY <1>2, <1>3, <1>7 DEF Holds
  <1>9. HeldUnitsKnown' /\ DistinctHeld'
        /\ (\A t \in Threads : ~Idle(t) => thr[t].work = al.work)'
    BY <1>1, <1>8, HeldFrame
  <1>10. TypeOK'
    BY <1>1, <1>5, <1>7 DEF IInv, TypeOK
  <1>11. RecordsWellFormed'
    BY <1>1 DEF IInv, MinerInv, RecordsWellFormed
  <1>12. JoinedBeforePrepare'
    BY <1>5, <1>9 DEF JoinedBeforePrepare
  <1> QED BY <1>6, <1>9, <1>10, <1>11, <1>12 DEF IInv, MinerInv

(* A checkpoint step: the record copied is the allocator's, the one written  *)
(* is the one copied.                                                        *)
LEMMA SaveFrame ==
  ASSUME IInv, NEW p \in Savers,
         (TakeSnapshot(p) /\ UNCHANGED disk) \/ WriteSnapshot(p),
         UNCHANGED <<al, generation, thr, session, hashed, crashes>>,
         ticks' \in Nat, main' \in MainPcs,
         \/ UNCHANGED net
         \/ /\ net'.pc \in {"save", "idle", "sleep", "exited"}
            /\ net' \in [pc : NetPcs, job : (Jobs \X BOOLEAN) \cup {None}, op : {"launch", "drop"}, gen : Nat]
  PROVE  IInv'
  <1>1. Good(al) /\ Good(disk) /\ \A q \in Savers : snap[q] # None => Good(snap[q])
    BY IInvGood
  <1>2. snap \in [Savers -> Allocator \cup {None}]
    BY DEF IInv, TypeOK
  <1>3. /\ Good(disk') /\ snap' \in [Savers -> Allocator \cup {None}]
        /\ \A q \in Savers : snap'[q] # None => Good(snap'[q])
    <2>1. CASE TakeSnapshot(p) /\ UNCHANGED disk
      <3>1. snap' = [snap EXCEPT ![p] = al]
        BY <2>1 DEF TakeSnapshot
      <3> QED BY <1>1, <1>2, <2>1, <3>1 DEF Good
    <2>2. CASE WriteSnapshot(p)
      <3>1. snap' = [snap EXCEPT ![p] = None] /\ snap[p] # None /\ disk' \in {disk, snap[p]}
        BY <2>2 DEF WriteSnapshot
      <3> QED BY <1>1, <1>2, <3>1
    <2> QED BY <2>1, <2>2
  <1>4. net' \in [pc : NetPcs, job : (Jobs \X BOOLEAN) \cup {None}, op : {"launch", "drop"}, gen : Nat]
    BY NetFields
  <1>5. TypeOK'
    BY <1>3, <1>4 DEF IInv, TypeOK, Good
  <1>6. RecordsWellFormed'
    BY <1>1, <1>3 DEF RecordsWellFormed, Good
  <1>7. LaunchHasWork'
    BY NetFields DEF LaunchHasWork, Launching, LaunchedWork
  <1>8. HeldUnitsKnown' /\ DistinctHeld'
        /\ (\A t \in Threads : ~Idle(t) => thr[t].work = al.work)'
    BY HeldFrame
  <1>9. JoinedBeforePrepare'
    BY <1>8 DEF IInv, MinerInv, JoinedBeforePrepare
  <1> QED BY <1>5, <1>6, <1>7, <1>8, <1>9 DEF IInv, MinerInv

(* The checkpoint of the network thread. *)
LEMMA NetSaveStep ==
  ASSUME IInv, NetSnapshot \/ NetSave
  PROVE  IInv'
  <1>1. CASE NetSnapshot
    <2>1. net' = [net EXCEPT !.pc = "save"]
      BY <1>1 DEF NetSnapshot
    <2>2. /\ net'.pc = "save"
          /\ net' \in [pc : NetPcs, job : (Jobs \X BOOLEAN) \cup {None}, op : {"launch", "drop"}, gen : Nat]
      BY <2>1, NetFields DEF NetPcs
    <2> QED BY <1>1, <2>2, NetFields, SaveFrame DEF NetSnapshot, Savers
  <1>2. CASE NetSave
    <2> DEFINE pc == IF net.op = "launch" THEN "idle"
                     ELSE IF Reconnect /\ ~Stopping THEN "sleep" ELSE "exited"
    <2>1. net' = [net EXCEPT !.pc = pc] /\ pc \in {"idle", "sleep", "exited"}
      BY <1>2 DEF NetSave
    <2> HIDE DEF pc
    <2>2. /\ net'.pc \in {"idle", "sleep", "exited"}
          /\ net' \in [pc : NetPcs, job : (Jobs \X BOOLEAN) \cup {None}, op : {"launch", "drop"}, gen : Nat]
      BY <2>1, NetFields DEF NetPcs
    <2>3. WriteSnapshot("net")
          /\ UNCHANGED <<al, generation, thr, session, main, hashed, crashes, ticks>>
      BY <1>2 DEF NetSave
    <2> QED BY <2>2, <2>3, NetFields, SaveFrame DEF Savers
  <1> QED BY <1>1, <1>2

(* The network thread ends during the reconnection delay. *)
LEMMA NetExitStep ==
  ASSUME IInv, NetExit
  PROVE  IInv'
  <1>1. /\ net' = [net EXCEPT !.pc = "exited"]
        /\ UNCHANGED <<al, disk, snap, generation, thr, session, main, hashed, crashes, ticks>>
    BY DEF NetExit
  <1>2. net'.pc = "exited"
        /\ net' \in [pc : NetPcs, job : (Jobs \X BOOLEAN) \cup {None}, op : {"launch", "drop"}, gen : Nat]
    BY <1>1, NetFields DEF NetPcs
  <1>3. LaunchHasWork'
    BY <1>1, <1>2, NetFields DEF LaunchHasWork, Launching
  <1> QED BY <1>1, <1>2, <1>3, NetFields, ControlFrame

(* The periodic and the final checkpoint. *)
LEMMA MainSaveStep ==
  ASSUME IInv, PeriodicSnapshot \/ PeriodicSave \/ FinalSnapshot \/ FinalSave
  PROVE  IInv'
  <1>1. "main" \in Savers /\ ticks \in Nat /\ ticks + 1 \in Nat
    BY NetFields DEF Savers
  <1>2. CASE PeriodicSnapshot
    BY <1>1, <1>2, SaveFrame DEF PeriodicSnapshot, MainPcs
  <1>3. CASE PeriodicSave
    BY <1>1, <1>3, SaveFrame DEF PeriodicSave, MainPcs
  <1>4. CASE FinalSnapshot
    BY <1>1, <1>4, SaveFrame DEF FinalSnapshot, MainPcs
  <1>5. CASE FinalSave
    BY <1>1, <1>5, SaveFrame DEF FinalSave, MainPcs
  <1> QED BY <1>2, <1>3, <1>4, <1>5

(* The shutdown runs beside the network thread: whatever that one is doing,  *)
(* the joins of the main thread only take workers away.                      *)
LEMMA MainStopStep ==
  ASSUME IInv, Shutdown \/ MainStopLate \/ MainJoinCpu \/ MainJoinGpu \/ MainJoinNet
  PROVE  IInv'
  <1>1. /\ UNCHANGED <<al, disk, snap, net, session, hashed, crashes, ticks>>
        /\ generation' \in Nat /\ main' \in MainPcs
    BY NetFields DEF Shutdown, MainStopLate, MainJoinCpu, MainJoinGpu, MainJoinNet, MainPcs
  <1>2. \/ \E S : thr' = RequestStop(S)
        \/ thr' = CpuJoined
        \/ thr' = [thr EXCEPT ![Gpu] = NoThread]
        \/ UNCHANGED thr
    BY DEF Shutdown, MainStopLate, MainJoinCpu, MainJoinGpu, MainJoinNet
  <1>3. LaunchHasWork'
    BY <1>1, NetFields DEF LaunchHasWork, Launching, LaunchedWork
  <1> QED BY <1>1, <1>2, <1>3, NetFields, ControlFrame

(* A step that changes nothing. *)
LEMMA StutterStep ==
  ASSUME IInv, UNCHANGED vars
  PROVE  IInv'
  <1>1. LaunchHasWork'
    BY NetFields DEF vars, LaunchHasWork, Launching, LaunchedWork
  <1> QED BY <1>1, NetFields, ControlFrame DEF vars

-----------------------------------------------------------------------------
(* The first state satisfies the invariant. *)
LEMMA InitIInv ==
  ASSUME Init
  PROVE  IInv
  <1>1. Good(EmptyAllocator)
    BY EmptyGood
  <1>2. NoThread \in Thread /\ NoThread.pc = "none"
    BY NoThreadType
  <1> HIDE DEF NoThread
  <1>3. TypeOK
    BY <1>1, <1>2 DEF Init, TypeOK, Good, NetPcs, MainPcs
  <1>4. RecordsWellFormed
    BY <1>1 DEF Init, RecordsWellFormed, Good
  <1>5. \A t \in Threads : thr[t].pc = "none"
    BY <1>2 DEF Init
  <1>6. LaunchHasWork /\ JoinedBeforePrepare /\ HeldUnitsKnown /\ DistinctHeld
    BY <1>5 DEF Init, LaunchHasWork, Launching, JoinedBeforePrepare, Idle, Holds,
                HeldUnitsKnown, DistinctHeld
  <1> QED BY <1>3, <1>4, <1>6 DEF IInv, MinerInv

(* Every step keeps the invariant. *)
LEMMA NextIInv ==
  ASSUME IInv, [Next]_vars
  PROVE  IInv'
  <1>1. ASSUME NEW t \in Threads, Worker(t) PROVE IInv'
    <2>1. CASE CpuExhausted(t)
      <3>1. Boot(disk) /\ main' = "dead" /\ UNCHANGED <<disk, crashes>>
        BY <2>1 DEF CpuExhausted
      <3> QED BY <3>1, NetFields, BootStep DEF MainPcs
    <2> QED BY <1>1, <2>1, CheckStep, AcquireUnitStep, AcquireNoneStep, HashStep,
               LeaveLoopStep, CompleteUnitStep, ReleaseUnitStep DEF Worker
  <1>2. CASE Disconnect
    BY <1>2, DropStep DEF Disconnect
  <1>3. CASE NetThread
    BY <1>2, <1>3, ConnectStep, NetJoinCpuStep, NetJoinGpuStep, PrepareStep,
       PrepareOverflowStep, StartCpuStep, StartGpuStep, NetSaveStep, NetExitStep DEF NetThread
  <1>4. CASE MainThread \/ PeriodicSnapshot \/ Shutdown
    BY <1>4, MainSaveStep, MainStopStep DEF MainThread
  <1>5. CASE Crash
    <2>1. Boot(disk) /\ main' = "run" /\ crashes' = crashes + 1 /\ UNCHANGED disk
      BY <1>5 DEF Crash
    <2>2. crashes' \in Nat
      BY <2>1 DEF IInv, TypeOK
    <2> QED BY <2>1, <2>2, BootStep DEF MainPcs
  <1>6. CASE UNCHANGED vars
    BY <1>6, StutterStep
  <1>7. CASE Idling
    BY <1>7, StutterStep DEF Idling
  <1>8. CASE GpuExhausted \/ GpuFail
    BY <1>8, GpuExhaustedStep, GpuFailStep
  <1>9. CASE \E e \in Ex1s : OnSubscribed(e)
    BY <1>9, OnSubscribedStep
  <1>10. CASE OnAuthorized \/ \E j \in Jobs, clean \in CleanFlags : OnJob(j, clean)
    BY <1>10, OnAuthorizedStep, OnJobStep
  <1> QED BY <1>1, <1>2, <1>3, <1>4, <1>5, <1>6, <1>7, <1>8, <1>9, <1>10 DEF Next

(* TypeOK and MinerInv hold in every state the live miner reaches. *)
THEOREM InvariantHolds ==
  Spec => []IInv
  <1>1. Init => IInv
    BY InitIInv
  <1>2. IInv /\ [Next]_vars => IInv'
    BY NextIInv
  <1> QED BY <1>1, <1>2, PTL DEF Spec

(* Every variable of the live miner keeps its type: no cursor leaves the      *)
(* nonce space and no unit leaves its range, for any number of workers.       *)
THEOREM TypesHold ==
  Spec => []TypeOK
  <1>1. IInv => TypeOK
    BY DEF IInv
  <1> QED BY <1>1, InvariantHolds, PTL

(* The allocator is only prepared when no thread is left, a launch always has *)
(* its extranonce1, and the counter is past every extranonce2 in use, in      *)
(* memory, in a snapshot and in the file.                                     *)
THEOREM MinerInvHolds ==
  Spec => []MinerInv
  <1>1. IInv => MinerInv
    BY DEF IInv
  <1> QED BY <1>1, InvariantHolds, PTL

(* update_progress and complete never meet an unknown unit: a worker's unit   *)
(* is in the allocator, in progress, until the worker lets go of it.          *)
THEOREM HeldUnitsAreKnown ==
  Spec => []HeldUnitsKnown
  <1>1. IInv => HeldUnitsKnown
    BY DEF IInv, MinerInv
  <1> QED BY <1>1, InvariantHolds, PTL

(* Two threads hold different units, and different units share no nonce.      *)
LEMMA ScansDisjoint ==
  ASSUME IInv
  PROVE  ExclusiveScan
  <1>1. SUFFICES ASSUME NEW s \in Threads, NEW t \in Threads, s # t, Holds(s), Holds(t),
                        thr[s].x = thr[t].x
                 PROVE  (thr[s].next .. (thr[s].end - 1)) \cap (thr[t].next .. (thr[t].end - 1)) = {}
    BY DEF ExclusiveScan
  <1>2. PICK u \in al.units : HeldUnit(s, u) /\ u \in Unit /\ u.start <= u.next
    BY <1>1, HeldFacts
  <1>3. PICK v \in al.units : HeldUnit(t, v) /\ v \in Unit /\ v.start <= v.next
    BY <1>1, HeldFacts
  <1>4. u # v /\ u.x = v.x
    BY <1>1, <1>2, <1>3 DEF IInv, MinerInv, DistinctHeld, HeldUnit
  <1>5. u.end <= v.start \/ v.end <= u.start
    BY <1>4 DEF IInv, MinerInv, RecordsWellFormed, WellFormed, DisjointUnits
  <1>6. /\ thr[s].next \in Int /\ thr[s].end \in Int /\ thr[s].pending \in Nat
        /\ thr[t].next \in Int /\ thr[t].end \in Int /\ thr[t].pending \in Nat
    <2>1. thr[s] \in Thread /\ thr[t] \in Thread
      BY <1>1, ThreadFields
    <2> QED BY <2>1 DEF Thread
  <1>7. /\ u.start \in Int /\ u.end = thr[s].end /\ u.start <= thr[s].next
    BY <1>2, <1>6 DEF HeldUnit, Unit
  <1>8. /\ v.start \in Int /\ v.end = thr[t].end /\ v.start <= thr[t].next
    BY <1>3, <1>6 DEF HeldUnit, Unit
  <1> QED BY <1>1, <1>5, <1>6, <1>7, <1>8

(* No two threads ever hash the same nonce of the same extranonce2, whatever  *)
(* the order of jobs, disconnections, GPU failures, crashes and the shutdown. *)
THEOREM ScansAreExclusive ==
  Spec => []ExclusiveScan
  <1>1. IInv => ExclusiveScan
    BY ScansDisjoint
  <1> QED BY <1>1, InvariantHolds, PTL

-----------------------------------------------------------------------------
(* The records of the live miner, and what happens to them. *)

(* b is about the same work as a, and has taken back nothing of it. *)
Continues(a, b) == b.work = a.work /\ b.tenure = a.tenure /\ a.done \subseteq b.done

(* b records exactly what a records. *)
SameHistory(a, b) == b.work = a.work /\ b.tenure = a.tenure /\ b.done = a.done

(* acquire, release, mark_all_stale, load_existing record nothing. *)
LEMMA StatusHistory ==
  ASSUME NEW a \in Allocator
  PROVE  /\ \A u : SameHistory(a, Acquired(a, u))
         /\ \A id : SameHistory(a, Release(a, id))
         /\ SameHistory(a, MarkAllStale(a))
         /\ SameHistory(a, LoadExisting(a))
         /\ \A w, gen : SameHistory(a, HalfPrepared(a, w, gen)) /\ SameHistory(a, Resumed(a, w, gen))
  <1>1. a = [units |-> a.units, work |-> a.work, counter |-> a.counter,
             done |-> a.done, tenure |-> a.tenure]
    BY DEF Allocator
  <1>2. \A u : SameHistory(a, Acquired(a, u))
    BY <1>1 DEF Acquired, SameHistory
  <1>3. \A id : SameHistory(a, Release(a, id))
    BY <1>1 DEF Release, SameHistory
  <1>4. SameHistory(a, MarkAllStale(a)) /\ SameHistory(a, LoadExisting(a))
    BY <1>1 DEF MarkAllStale, LoadExisting, SameHistory
  <1>5. \A w, gen : SameHistory(a, HalfPrepared(a, w, gen))
    BY <1>1 DEF HalfPrepared, SameHistory
  <1>6. \A w, gen : SameHistory(a, Resumed(a, w, gen))
    BY <1>1 DEF Resumed, SameHistory
  <1> QED BY <1>2, <1>3, <1>4, <1>5, <1>6

(* update_progress and complete only add to what is recorded. *)
LEMMA ProgressHistory ==
  ASSUME NEW a \in Allocator, NEW id, NEW n
  PROVE  /\ Continues(a, UpdateProgress(a, id, n))
         /\ Continues(a, HalfCompleted(a, id))
         /\ Continues(a, Complete(a, id))
  <1>1. a = [units |-> a.units, work |-> a.work, counter |-> a.counter,
             done |-> a.done, tenure |-> a.tenure]
    BY DEF Allocator
  <1>2. Continues(a, UpdateProgress(a, id, n))
    BY <1>1 DEF UpdateProgress, Continues
  <1>3. Continues(a, HalfCompleted(a, id))
    BY <1>1 DEF HalfCompleted, FinishedDone, Continues
  <1>4. Continues(a, Complete(a, id))
    <2>1. CASE Capacity(a.work) = 0
      BY <1>3, <2>1 DEF Complete
    <2>2. CASE Capacity(a.work) # 0
      BY <1>1, <2>2 DEF Complete, FinishedDone, Continues
    <2> QED BY <2>1, <2>2
  <1> QED BY <1>2, <1>3, <1>4

(* What one step does to the allocator while the process lives. *)
AllocatorStep ==
  \/ UNCHANGED al
  \/ \E u \in al.units : u.status = "pending" /\ al' = Acquired(al, u)
  \/ \E u \in al.units, n \in Nat :
       Open(u) /\ u.next <= n /\ n <= u.end /\ al' = UpdateProgress(al, Id(u), n)
  \/ \E u \in al.units : Open(u) /\ al' = Complete(al, Id(u))
  \/ \E id : al' = Release(al, id)
  \/ \E u \in al.units : /\ Open(u) /\ u.kind = "gpu" /\ CompleteThrows(al, Id(u))
                         /\ al' = Release(HalfCompleted(al, Id(u)), Id(u))
  \/ al' = MarkAllStale(al)
  \/ net.pc = "prepare" /\ al' = PrepareLiveJob(al, LaunchedWork, generation)
  \/ /\ net.pc = "prepare" /\ PrepareThrows(al, LaunchedWork, generation)
     /\ al' = HalfPrepared(al, LaunchedWork, generation)

(* What one step does to the allocator, the snapshots and the file. *)
RecordsStep ==
  \/ AllocatorStep /\ UNCHANGED <<disk, snap>>
  \/ (\E p \in Savers : TakeSnapshot(p)) /\ UNCHANGED <<al, disk>>
  \/ (\E p \in Savers : WriteSnapshot(p)) /\ UNCHANGED al
  \/ al' = LoadExisting(disk) /\ snap' = [p \in Savers |-> None] /\ UNCHANGED disk

(* A worker's calls, on the unit it holds. *)
LEMMA WorkerRecords ==
  ASSUME IInv, NEW t \in Threads, Worker(t)
  PROVE  RecordsStep
  <1>1. CASE Check(t) \/ AcquireNone(t)
    BY <1>1 DEF Check, AcquireNone, RecordsStep, AllocatorStep
  <1>2. CASE AcquireUnit(t)
    <2>1. PICK u \in FirstAcquirable(al, KindOf(t)) : al' = Acquired(al, u)
      BY <1>2 DEF AcquireUnit
    <2>2. u \in al.units /\ u.status = "pending"
      BY <2>1 DEF FirstAcquirable, Acquirable
    <2> QED BY <1>2, <2>1, <2>2 DEF AcquireUnit, RecordsStep, AllocatorStep
  <1>3. CASE CpuExhausted(t)
    BY <1>3 DEF CpuExhausted, Boot, RecordsStep
  <1>4. ASSUME Holds(t), UNCHANGED <<disk, snap>>
        PROVE  /\ \A n \in Nat : thr[t].next <= n /\ n <= thr[t].end
                                   /\ al' = UpdateProgress(al, thr[t].id, n) => RecordsStep
               /\ al' = Complete(al, thr[t].id) => RecordsStep
               /\ thr[t].next <= thr[t].end /\ thr[t].next \in Nat /\ thr[t].end \in Nat
    <2>1. PICK u \in al.units : HeldUnit(t, u) /\ u \in Unit /\ Open(u)
      BY <1>4, HeldFacts
    <2>2. thr[t] \in Thread
      BY ThreadFields
    <2>3. thr[t].next \in Nat /\ thr[t].pending \in Nat /\ thr[t].end \in Nat
      BY <2>2 DEF Thread
    <2>4. Id(u) = thr[t].id /\ u.next <= thr[t].next /\ u.end = thr[t].end
          /\ thr[t].next <= thr[t].end /\ u.next \in Nat
      BY <2>1, <2>3 DEF HeldUnit, Unit
    <2>5. ASSUME NEW n \in Nat, thr[t].next <= n, n <= thr[t].end,
                 al' = UpdateProgress(al, thr[t].id, n)
          PROVE  RecordsStep
      BY <1>4, <2>1, <2>3, <2>4, <2>5 DEF RecordsStep, AllocatorStep
    <2> QED BY <1>4, <2>1, <2>3, <2>4, <2>5 DEF RecordsStep, AllocatorStep
  <1>5. CASE Hash(t)
    <2>1. Holds(t) /\ UNCHANGED <<disk, snap>> /\ thr[t].next < thr[t].end
      BY <1>5 DEF Hash, Holds
    <2>2. al' = UpdateProgress(al, thr[t].id, thr[t].next + 1) \/ UNCHANGED al
      BY <1>5 DEF Hash
    <2>3. UNCHANGED al => RecordsStep
      BY <2>1 DEF RecordsStep, AllocatorStep
    <2> QED BY <1>4, <2>1, <2>2, <2>3
  <1>6. CASE LeaveLoop(t)
    <2>1. Holds(t) /\ UNCHANGED <<disk, snap>>
      BY <1>6 DEF LeaveLoop, Holds
    <2>2. al' = UpdateProgress(al, thr[t].id, thr[t].next) \/ UNCHANGED al
      BY <1>6 DEF LeaveLoop
    <2>3. UNCHANGED al => RecordsStep
      BY <2>1 DEF RecordsStep, AllocatorStep
    <2> QED BY <1>4, <2>1, <2>2, <2>3
  <1>7. CASE CompleteUnit(t)
    BY <1>4, <1>7 DEF CompleteUnit, Holds
  <1>8. CASE ReleaseUnit(t)
    BY <1>8 DEF ReleaseUnit, RecordsStep, AllocatorStep
  <1> QED BY <1>1, <1>2, <1>3, <1>5, <1>6, <1>7, <1>8 DEF Worker

(* Every step of the live miner is one of these. *)
LEMMA NextRecords ==
  ASSUME IInv, [Next]_vars
  PROVE  RecordsStep
  <1>1. CASE GpuExhausted
    <2>1. /\ Holds(Gpu) /\ Gpu \in Threads /\ UNCHANGED <<disk, snap>>
          /\ al' = Release(HalfCompleted(al, thr[Gpu].id), thr[Gpu].id)
          /\ CompleteThrows(al, thr[Gpu].id)
      BY <1>1 DEF GpuExhausted, Holds, Threads
    <2>2. PICK u \in al.units : HeldUnit(Gpu, u) /\ Open(u)
      BY <2>1, HeldFacts
    <2>3. Id(u) = thr[Gpu].id /\ u.kind = "gpu"
      BY <2>2 DEF HeldUnit, KindOf
    <2> QED BY <2>1, <2>2, <2>3 DEF RecordsStep, AllocatorStep
  <1>2. CASE GpuFail
    BY <1>2 DEF GpuFail, RecordsStep, AllocatorStep
  <1>3. CASE Connect \/ NetJoinCpu \/ StartCpu \/ StartGpu \/ NetExit \/ Disconnect
    BY <1>3 DEF Connect, NetJoinCpu, StartCpu, StartGpu, NetExit, Disconnect, RecordsStep, AllocatorStep
  <1>4. CASE NetJoinGpu
    BY <1>4 DEF NetJoinGpu, RecordsStep, AllocatorStep
  <1>5. CASE Prepare \/ PrepareOverflow
    BY <1>5 DEF Prepare, PrepareOverflow, RecordsStep, AllocatorStep
  <1>6. CASE NetSnapshot \/ NetSave
    BY <1>6 DEF NetSnapshot, NetSave, RecordsStep, Savers
  <1>7. CASE OnAuthorized \/ (\E e \in Ex1s : OnSubscribed(e))
               \/ \E j \in Jobs, clean \in CleanFlags : OnJob(j, clean)
    BY <1>7 DEF OnAuthorized, OnSubscribed, OnJob, RecordsStep, AllocatorStep
  <1>8. CASE PeriodicSnapshot \/ PeriodicSave \/ FinalSnapshot \/ FinalSave
    BY <1>8 DEF PeriodicSnapshot, PeriodicSave, FinalSnapshot, FinalSave, RecordsStep, Savers
  <1>9. CASE Shutdown \/ MainStopLate \/ MainJoinCpu \/ MainJoinGpu \/ MainJoinNet
    BY <1>9 DEF Shutdown, MainStopLate, MainJoinCpu, MainJoinGpu, MainJoinNet, RecordsStep, AllocatorStep
  <1>10. CASE Crash
    BY <1>10 DEF Crash, Boot, RecordsStep
  <1>11. CASE Idling \/ UNCHANGED vars
    BY <1>11 DEF Idling, vars, RecordsStep, AllocatorStep
  <1> QED BY <1>1, <1>2, <1>3, <1>4, <1>5, <1>6, <1>7, <1>8, <1>9, <1>10, <1>11, WorkerRecords
          DEF Next, NetThread, MainThread

-----------------------------------------------------------------------------
(* The file is never ahead of the snapshot, nor the snapshot of the allocator. *)
Precedes(a, b) ==
  \/ a.tenure < b.tenure
  \/ a.tenure = b.tenure /\ a.work = b.work /\ a.done \subseteq b.done

OrderInv ==
  /\ Precedes(disk, al)
  /\ \A p \in Savers : snap[p] # None => Precedes(disk, snap[p]) /\ Precedes(snap[p], al)
  /\ \A p, q \in Savers : snap[p] # None /\ snap[q] # None => p = q

(* A method either goes on with the work or begins another. *)
LEMMA AllocatorPrecedes ==
  ASSUME IInv, AllocatorStep
  PROVE  Precedes(al, al')
  <1>1. al \in Allocator /\ Good(al) /\ al.tenure \in Nat
    BY IInvGood, GoodParts DEF Good
  <1>2. SameHistory(al, al') => Precedes(al, al')
    BY DEF SameHistory, Precedes
  <1>3. Continues(al, al') => Precedes(al, al')
    BY DEF Continues, Precedes
  <1>4. CASE al' = PrepareLiveJob(al, LaunchedWork, generation)
    <2>1. CASE al' = Resumed(al, LaunchedWork, generation)
      BY <1>1, <1>2, <2>1, StatusHistory
    <2>2. CASE al' = Recreated(al, LaunchedWork, generation)
      <3>1. /\ al'.work = LaunchedWork
            /\ al'.done = IF al.work = LaunchedWork THEN al.done ELSE {}
            /\ al'.tenure = IF al.work = LaunchedWork THEN al.tenure ELSE al.tenure + 1
        BY <2>2 DEF Recreated
      <3> QED BY <1>1, <3>1 DEF Precedes
    <2> QED BY <1>4, <2>1, <2>2 DEF PrepareLiveJob
  <1>5. CASE \E u \in al.units : /\ CompleteThrows(al, Id(u))
                                 /\ al' = Release(HalfCompleted(al, Id(u)), Id(u))
    <2>1. PICK u \in al.units : /\ CompleteThrows(al, Id(u))
                                /\ al' = Release(HalfCompleted(al, Id(u)), Id(u))
      BY <1>5
    <2> DEFINE m == HalfCompleted(al, Id(u))
    <2>2. m \in Allocator /\ Continues(al, m) /\ al' = Release(m, Id(u))
      BY <1>1, <2>1, HalfCompletedGood, ProgressHistory DEF Good
    <2> HIDE DEF m
    <2>3. SameHistory(m, al')
      BY <2>2, StatusHistory
    <2> QED BY <1>3, <2>2, <2>3 DEF Continues, SameHistory
  <1>6. CASE UNCHANGED al
    BY <1>6 DEF Precedes
  <1>7. CASE \/ \E u \in al.units : al' = Acquired(al, u)
             \/ \E id : al' = Release(al, id)
             \/ al' = MarkAllStale(al) \/ al' = HalfPrepared(al, LaunchedWork, generation)
    BY <1>1, <1>2, <1>7, StatusHistory
  <1>8. CASE \E u \in al.units, n \in Nat : al' = UpdateProgress(al, Id(u), n)
    BY <1>1, <1>3, <1>8, ProgressHistory
  <1>9. CASE \E u \in al.units : al' = Complete(al, Id(u))
    BY <1>1, <1>3, <1>9, ProgressHistory
  <1> QED BY <1>4, <1>5, <1>6, <1>7, <1>8, <1>9 DEF AllocatorStep

(* Checkpoints follow the order in which the records were taken. *)
LEMMA NextOrder ==
  ASSUME IInv, OrderInv, [Next]_vars
  PROVE  OrderInv' /\ Precedes(disk, disk')
  <1>1. Good(al) /\ Good(disk) /\ \A p \in Savers : snap[p] # None => Good(snap[p])
    BY IInvGood
  <1>2. /\ al.tenure \in Nat /\ disk.tenure \in Nat
        /\ \A p \in Savers : snap[p] # None => snap[p].tenure \in Nat
    BY <1>1, GoodParts
  <1>3. Good(al')
    <2>1. IInv'
      BY NextIInv
    <2> QED BY <2>1 DEF IInv, TypeOK, MinerInv, RecordsWellFormed, Good
  <1>4. al'.tenure \in Nat
    BY <1>3, GoodParts
  <1>5. Precedes(disk, disk) /\ Precedes(al, al)
    BY DEF Precedes
  <1>6. snap \in [Savers -> Allocator \cup {None}]
    BY DEF IInv, TypeOK
  <1>7. CASE AllocatorStep /\ UNCHANGED <<disk, snap>>
    <2>1. Precedes(al, al')
      BY <1>7, AllocatorPrecedes
    <2>2. Precedes(disk, al')
      BY <1>2, <1>4, <2>1 DEF OrderInv, Precedes
    <2>3. \A p \in Savers : snap[p] # None => Precedes(snap[p], al')
      BY <1>2, <1>4, <2>1 DEF OrderInv, Precedes
    <2> QED BY <1>5, <1>7, <2>2, <2>3 DEF OrderInv
  <1>8. CASE (\E p \in Savers : TakeSnapshot(p)) /\ UNCHANGED <<al, disk>>
    <2>1. PICK p \in Savers : TakeSnapshot(p)
      BY <1>8
    <2>2. /\ \A q \in Savers : snap[q] = None
          /\ snap' = [snap EXCEPT ![p] = al]
      BY <2>1 DEF TakeSnapshot
    <2>3. \A q \in Savers : snap'[q] = IF q = p THEN al ELSE None
      BY <1>6, <2>2
    <2> QED BY <1>5, <1>8, <2>3 DEF OrderInv
  <1>9. CASE (\E p \in Savers : WriteSnapshot(p)) /\ UNCHANGED al
    <2>1. PICK p \in Savers : WriteSnapshot(p)
      BY <1>9
    <2>2. /\ snap[p] # None /\ (disk' = disk \/ disk' = snap[p])
          /\ snap' = [snap EXCEPT ![p] = None]
      BY <2>1 DEF WriteSnapshot
    <2>3. \A q \in Savers : snap'[q] = None
      BY <1>6, <2>2 DEF OrderInv
    <2> QED BY <1>5, <1>9, <2>2, <2>3 DEF OrderInv
  <1>10. CASE al' = LoadExisting(disk) /\ snap' = [p \in Savers |-> None] /\ UNCHANGED disk
    <2>1. al'.done = disk.done /\ al'.tenure = disk.tenure /\ al'.work = disk.work
      BY <1>1, <1>10, StatusHistory DEF Good, SameHistory
    <2>2. Precedes(disk, al')
      BY <2>1 DEF Precedes
    <2> QED BY <1>5, <1>10, <2>2 DEF OrderInv
  <1> QED BY <1>7, <1>8, <1>9, <1>10, NextRecords DEF RecordsStep

(* Checkpoints are serialised: the file never goes back to an older state of  *)
(* the work it is about, whatever saves fail and whenever the process dies.   *)
THEOREM FileNeverRegresses ==
  Spec => DiskNeverRegresses
  <1>1. Init => OrderInv
    BY DEF Init, OrderInv, Precedes
  <1>2. IInv /\ OrderInv /\ [Next]_vars => OrderInv'
    BY NextOrder
  <1>3. IInv /\ OrderInv /\ [Next]_vars
          => [(disk'.work = disk.work /\ disk'.tenure = disk.tenure)
                => disk.done \subseteq disk'.done]_vars
    <2>1. SUFFICES ASSUME IInv, OrderInv, [Next]_vars, disk'.tenure = disk.tenure
                   PROVE  disk.done \subseteq disk'.done
      OBVIOUS
    <2>2. Precedes(disk, disk')
      BY <2>1, NextOrder
    <2>3. disk.tenure \in Nat
      BY <2>1, IInvGood, GoodParts
    <2> QED BY <2>1, <2>2, <2>3 DEF Precedes
  <1> QED BY <1>1, <1>2, <1>3, InvariantHolds, PTL DEF Spec, DiskNeverRegresses

-----------------------------------------------------------------------------
(* The pool does not send a work again after it was abandoned: when            *)
(* prepare_live_job is called for the work the record is about, no unit of the *)
(* record is stale.                                                            *)
NoReturn == net.pc = "prepare" /\ al.work = LaunchedWork => NoStale(al)

(* The allocator, the snapshots and the file account for every nonce. *)
ExactInv ==
  /\ Exact(al) /\ Exact(disk)
  /\ \A p \in Savers : snap[p] # None => Exact(snap[p])

(* Every method keeps the account. *)
LEMMA AllocatorExact ==
  ASSUME IInv, Exact(al), NoReturn, AllocatorStep
  PROVE  Exact(al')
  <1>1. Good(al) /\ generation \in Nat /\ al.units \in SUBSET Unit
    BY IInvGood, NetFields, GoodParts
  <1>2. CASE UNCHANGED al
    BY <1>2
  <1>3. CASE \E u \in al.units : u.status = "pending" /\ al' = Acquired(al, u)
    BY <1>1, <1>3, AcquiredExact
  <1>4. CASE \E u \in al.units, n \in Nat :
               Open(u) /\ u.next <= n /\ n <= u.end /\ al' = UpdateProgress(al, Id(u), n)
    BY <1>1, <1>4, UpdateExact
  <1>5. CASE \E u \in al.units : Open(u) /\ al' = Complete(al, Id(u))
    BY <1>1, <1>5, CompleteExact
  <1>6. CASE \E id : al' = Release(al, id)
    BY <1>1, <1>6, ReleaseExact
  <1>7. CASE \E u \in al.units : /\ Open(u) /\ u.kind = "gpu" /\ CompleteThrows(al, Id(u))
                                 /\ al' = Release(HalfCompleted(al, Id(u)), Id(u))
    <2>1. PICK u \in al.units : /\ Open(u) /\ u.kind = "gpu" /\ CompleteThrows(al, Id(u))
                                /\ al' = Release(HalfCompleted(al, Id(u)), Id(u))
      BY <1>7
    <2>2. Good(HalfCompleted(al, Id(u))) /\ Exact(HalfCompleted(al, Id(u)))
      BY <1>1, <2>1, HalfCompletedGood, HalfCompletedExact
    <2> QED BY <2>1, <2>2, ReleaseExact
  <1>8. CASE al' = MarkAllStale(al)
    BY <1>1, <1>8, StaleExact
  <1>9. CASE net.pc = "prepare" /\ al' = PrepareLiveJob(al, LaunchedWork, generation)
    <2>1. LaunchedWork \in Work /\ (al.work = LaunchedWork => NoStale(al))
      BY <1>9, AtPrepare DEF NoReturn
    <2> QED BY <1>1, <1>9, <2>1, PrepareExact
  <1>10. CASE /\ net.pc = "prepare" /\ PrepareThrows(al, LaunchedWork, generation)
              /\ al' = HalfPrepared(al, LaunchedWork, generation)
    <2>1. LaunchedWork \in Work /\ al.work = LaunchedWork /\ NoStale(al)
      BY <1>10, AtPrepare DEF NoReturn, PrepareThrows, Compatible
    <2> QED BY <1>1, <1>10, <2>1, HalfPreparedExact
  <1> QED BY <1>2, <1>3, <1>4, <1>5, <1>6, <1>7, <1>8, <1>9, <1>10 DEF AllocatorStep

(* Every step keeps the account, in memory and in the file. *)
LEMMA NextExact ==
  ASSUME IInv, ExactInv, NoReturn, [Next]_vars
  PROVE  ExactInv'
  <1>1. snap \in [Savers -> Allocator \cup {None}] /\ Good(disk)
    BY IInvGood DEF IInv, TypeOK
  <1>2. CASE AllocatorStep /\ UNCHANGED <<disk, snap>>
    BY <1>2, AllocatorExact DEF ExactInv
  <1>3. CASE (\E p \in Savers : TakeSnapshot(p)) /\ UNCHANGED <<al, disk>>
    BY <1>1, <1>3 DEF TakeSnapshot, ExactInv
  <1>4. CASE (\E p \in Savers : WriteSnapshot(p)) /\ UNCHANGED al
    BY <1>1, <1>4 DEF WriteSnapshot, ExactInv
  <1>5. CASE al' = LoadExisting(disk) /\ snap' = [p \in Savers |-> None] /\ UNCHANGED disk
    BY <1>1, <1>5, LoadExact DEF ExactInv
  <1> QED BY <1>2, <1>3, <1>4, <1>5, NextRecords DEF RecordsStep

(* With a pool that does not return to an abandoned work, the records account  *)
(* for every nonce of every reserved extranonce2 exactly once.                 *)
THEOREM RecordsAreExact ==
  Spec /\ []NoReturn => []ExactInv
  <1>1. Init => ExactInv
    BY EmptyExact DEF Init, ExactInv
  <1>2. IInv /\ NoReturn /\ ExactInv /\ [Next]_vars => ExactInv'
    BY NextExact
  <1> QED BY <1>1, <1>2, InvariantHolds, PTL DEF Spec

-----------------------------------------------------------------------------
(* What the network thread and the main thread do to the workers, other than   *)
(* starting them: a request to stop, or the join of one that has ended.        *)
Control ==
  \/ Connect \/ NetJoinCpu \/ NetJoinGpu \/ Prepare \/ PrepareOverflow
  \/ NetSnapshot \/ NetSave \/ NetExit \/ Disconnect
  \/ OnAuthorized \/ (\E e \in Ex1s : OnSubscribed(e))
  \/ \E j \in Jobs, clean \in CleanFlags : OnJob(j, clean)
  \/ PeriodicSnapshot \/ PeriodicSave \/ FinalSnapshot \/ FinalSave
  \/ Shutdown \/ MainStopLate \/ MainJoinCpu \/ MainJoinGpu \/ MainJoinNet
  \/ UNCHANGED vars

(* Every step is one of a worker, of a start, of a process that begins, or     *)
(* leaves the workers to themselves.                                           *)
LEMMA NextCases ==
  ASSUME [Next]_vars
  PROVE  \/ \E t \in Threads : Worker(t) /\ ~CpuExhausted(t)
         \/ GpuExhausted \/ GpuFail \/ StartCpu \/ StartGpu
         \/ Boot(disk) /\ UNCHANGED disk /\ main' \in {"run", "dead"}
         \/ Control
  <1>1. CASE \E t \in Threads : CpuExhausted(t)
    BY <1>1 DEF CpuExhausted
  <1>2. CASE Crash
    BY <1>2 DEF Crash
  <1> QED BY <1>1, <1>2 DEF Next, NetThread, MainThread, Idling, Control

(* A callback of the connection begins a launch or changes the session only. *)
LEMMA CallbackNet ==
  ASSUME OnAuthorized \/ (\E e \in Ex1s : OnSubscribed(e))
           \/ \E j \in Jobs, clean \in CleanFlags : OnJob(j, clean)
  PROVE  /\ net.pc = "idle" /\ (net'.pc = "join_cpu" \/ net' = net)
         /\ UNCHANGED <<al, disk, snap, main, hashed, crashes, ticks>>
  <1>1. ASSUME NEW job, NEW sub, NEW auth, LaunchOrIdle(job, sub, auth)
        PROVE  net'.pc = "join_cpu" \/ net' = net
    BY <1>1 DEF LaunchOrIdle, BeginStop
  <1>2. CASE OnAuthorized
    BY <1>1, <1>2 DEF OnAuthorized, Listening
  <1>3. CASE \E e \in Ex1s : OnSubscribed(e)
    BY <1>1, <1>3 DEF OnSubscribed, Listening
  <1>4. CASE \E j \in Jobs, clean \in CleanFlags : OnJob(j, clean)
    BY <1>1, <1>4 DEF OnJob, Listening
  <1> QED BY <1>2, <1>3, <1>4

(* The worker is where it was, or has been joined after it had ended. *)
KeptOrJoined(t) ==
  \/ thr'[t] \in {thr[t], Stopped(thr[t])}
  \/ Idle(t) /\ thr'[t] = NoThread

(* The network thread and the main thread never move a running worker. *)
LEMMA ControlThreads ==
  ASSUME IInv, Control, NEW t \in Threads
  PROVE  KeptOrJoined(t)
  <1>1. thr \in [Threads -> Thread] /\ Gpu \in Threads
    BY DEF IInv, TypeOK, Threads
  <1>2. \A S : thr' = RequestStop(S) => KeptOrJoined(t)
    BY DEF RequestStop, KeptOrJoined
  <1>3. thr' = CpuJoined /\ (\A s \in CpuThreads : Idle(s)) => KeptOrJoined(t)
    BY DEF CpuJoined, KeptOrJoined, Threads
  <1>4. thr' = [thr EXCEPT ![Gpu] = NoThread] /\ Idle(Gpu) => KeptOrJoined(t)
    BY <1>1 DEF KeptOrJoined
  <1>5. UNCHANGED thr => KeptOrJoined(t)
    BY DEF KeptOrJoined
  <1>6. CASE Connect \/ Prepare \/ NetSnapshot \/ NetSave \/ NetExit
    BY <1>5, <1>6 DEF Connect, Prepare, NetSnapshot, NetSave, NetExit
  <1>7. CASE NetJoinCpu \/ MainJoinCpu
    BY <1>3, <1>7 DEF NetJoinCpu, MainJoinCpu
  <1>8. CASE NetJoinGpu \/ MainJoinGpu
    BY <1>4, <1>8 DEF NetJoinGpu, MainJoinGpu
  <1>9. CASE PrepareOverflow \/ Disconnect
    BY <1>2, <1>9 DEF PrepareOverflow, Disconnect, BeginStop
  <1>10. CASE OnAuthorized \/ (\E e \in Ex1s : OnSubscribed(e))
                \/ \E j \in Jobs, clean \in CleanFlags : OnJob(j, clean)
    BY <1>2, <1>5, <1>10 DEF OnAuthorized, OnSubscribed, OnJob, LaunchOrIdle, BeginStop
  <1>11. CASE PeriodicSnapshot \/ PeriodicSave \/ FinalSnapshot \/ FinalSave \/ MainJoinNet
    BY <1>5, <1>11 DEF PeriodicSnapshot, PeriodicSave, FinalSnapshot, FinalSave, MainJoinNet
  <1>12. CASE Shutdown \/ MainStopLate
    BY <1>2, <1>12 DEF Shutdown, MainStopLate
  <1>13. CASE UNCHANGED vars
    BY <1>5, <1>13 DEF vars
  <1> QED BY <1>6, <1>7, <1>8, <1>9, <1>10, <1>11, <1>12, <1>13 DEF Control

(* Such a worker holds the same unit as before, at the same place. *)
LEMMA KeptFacts ==
  ASSUME IInv, NEW t \in Threads, KeptOrJoined(t)
  PROVE  /\ Holds(t)' <=> Holds(t)
         /\ Idle(t)' <=> Idle(t)
         /\ thr[t].pc = "none" => thr'[t].pc = "none"
         /\ Holds(t) => /\ thr'[t].pc = thr[t].pc /\ thr'[t].x = thr[t].x
                        /\ thr'[t].next = thr[t].next /\ thr'[t].pending = thr[t].pending
  <1>1. /\ Stopped(thr[t]).pc = thr[t].pc /\ Stopped(thr[t]).x = thr[t].x
        /\ Stopped(thr[t]).next = thr[t].next /\ Stopped(thr[t]).pending = thr[t].pending
    BY ThreadFields, StoppedFields
  <1>2. NoThread.pc = "none"
    BY NoThreadType
  <1> HIDE DEF NoThread
  <1> QED BY <1>1, <1>2 DEF KeptOrJoined, Holds, Idle

(* The workers that are started hold no unit yet. *)
LEMMA StartThreads ==
  ASSUME IInv, StartCpu \/ StartGpu, NEW t \in Threads
  PROVE  /\ thr'[t] = thr[t] \/ (Idle(t) /\ ~Holds(t)')
         /\ net.pc \in {"start_cpu", "start_gpu"} /\ net'.pc \in {"start_gpu", "snap"}
         /\ UNCHANGED <<al, snap, hashed, main>> /\ net'.op = net.op /\ net.op = "launch"
  <1>1. LaunchedWork \in Work /\ net.op = "launch" /\ Gpu \in Threads /\ thr \in [Threads -> Thread]
    BY AtStart DEF StartCpu, StartGpu, Threads, IInv, TypeOK
  <1>2. /\ NewThread("check", LaunchedWork).pc = "check"
        /\ NewThread("acquire", LaunchedWork).pc = "acquire"
        /\ NoThread.pc = "none"
    BY <1>1, NewThreadType, NoThreadType DEF ThreadPcs
  <1>3. net'.op = net.op /\ net'.pc \in {"start_gpu", "snap"}
    BY NetFields DEF StartCpu, StartGpu
  <1> HIDE DEF NewThread, NoThread
  <1>4. CASE StartCpu
    <2>1. thr'[t] = IF t = Gpu THEN thr[t]
                    ELSE IF CpuEnabled THEN NewThread("check", LaunchedWork) ELSE NoThread
      BY <1>4 DEF StartCpu
    <2>2. t # Gpu => Idle(t)
      BY <1>4 DEF StartCpu, Threads
    <2> QED BY <1>1, <1>2, <1>3, <1>4, <2>1, <2>2 DEF StartCpu, Holds
  <1>5. CASE StartGpu
    <2>1. thr'[t] = thr[t] \/ (t = Gpu /\ thr'[t] = NewThread("acquire", LaunchedWork))
      BY <1>1, <1>5 DEF StartGpu
    <2>2. Idle(Gpu)
      BY <1>5 DEF StartGpu
    <2> QED BY <1>1, <1>2, <1>3, <1>5, <2>1, <2>2 DEF StartGpu, Holds
  <1> QED BY <1>4, <1>5

-----------------------------------------------------------------------------
(* While a worker runs, or is about to be started, nothing is stale. *)
StaleInv ==
  net.pc \in {"start_cpu", "start_gpu"} \/ (\E t \in Threads : ~Idle(t)) => NoStale(al)

(* The calls of a worker make nothing stale. *)
LEMMA WorkerNoStale ==
  ASSUME IInv, NoStale(al),
         (\E t \in Threads : Worker(t) /\ ~CpuExhausted(t)) \/ GpuExhausted \/ GpuFail
  PROVE  NoStale(al')
  <1>1. al \in Allocator /\ al.units \in SUBSET Unit /\ al.counter \in Nat
    BY IInvGood, GoodParts DEF Good
  <1>2. \A id : NoStale(Release(al, id))
    BY <1>1 DEF Release, NoStale, Allocator, Unit
  <1>3. \A id, n : NoStale(UpdateProgress(al, id, n))
    BY <1>1 DEF UpdateProgress, Advance, NoStale, Allocator, Unit
  <1>4. \A u \in al.units : NoStale(Acquired(al, u))
    BY <1>1 DEF Acquired, NoStale, Allocator, Unit
  <1>5. \A id : \A v \in FinishedUnits(al, id) : v.status # "stale"
    BY <1>1 DEF FinishedUnits, Finish, NoStale, Unit
  <1>6. ASSUME NEW id PROVE NoStale(Complete(al, id))
    <2>1. NoStale(HalfCompleted(al, id))
      BY <1>1, <1>5 DEF HalfCompleted, NoStale, Allocator
    <2>2. ASSUME NEW v \in NextGroup(al, id) PROVE v.status # "stale"
      <3>1. PICK u \in al.units : v \in LiveGroup(u.kind, al.counter, u.gen)
        BY <2>2 DEF NextGroup
      <3>2. u.kind \in Kinds /\ u.gen \in Nat
        BY <1>1, <3>1 DEF Unit
      <3> QED BY <1>1, <3>1, <3>2, LiveGroupFacts
    <2>3. CASE Capacity(al.work) # 0
      <3>1. Complete(al, id).units \subseteq FinishedUnits(al, id) \cup NextGroup(al, id)
        BY <1>1, <2>3 DEF Complete, Allocator
      <3> QED BY <1>5, <2>2, <3>1 DEF NoStale
    <2> QED BY <2>1, <2>3 DEF Complete
  <1>7. CASE GpuExhausted
    <2> DEFINE m == HalfCompleted(al, thr[Gpu].id)
    <2>1. al' = Release(m, thr[Gpu].id) /\ CompleteThrows(al, thr[Gpu].id)
      BY <1>7 DEF GpuExhausted
    <2>2. Good(m)
      BY <2>1, IInvGood, HalfCompletedGood
    <2>3. NoStale(m)
      BY <1>1, <1>5 DEF HalfCompleted, NoStale, Allocator
    <2>4. m \in Allocator /\ m.units \in SUBSET Unit
      BY <2>2, GoodParts DEF Good
    <2> HIDE DEF m
    <2> QED BY <2>1, <2>3, <2>4 DEF Release, NoStale, Allocator, Unit
  <1>8. CASE GpuFail
    BY <1>2, <1>8 DEF GpuFail
  <1>9. ASSUME NEW t \in Threads, Worker(t), ~CpuExhausted(t) PROVE NoStale(al')
    <2>1. CASE Check(t) \/ AcquireNone(t)
      BY <2>1 DEF Check, AcquireNone, NoStale
    <2>2. CASE AcquireUnit(t)
      BY <1>4, <2>2 DEF AcquireUnit, FirstAcquirable, Acquirable
    <2>3. CASE Hash(t) \/ LeaveLoop(t)
      BY <1>3, <2>3 DEF Hash, LeaveLoop
    <2>4. CASE CompleteUnit(t) \/ ReleaseUnit(t)
      BY <1>2, <1>6, <2>4 DEF CompleteUnit, ReleaseUnit
    <2> QED BY <1>9, <2>1, <2>2, <2>3, <2>4 DEF Worker
  <1> QED BY <1>7, <1>8, <1>9

(* A worker that takes a step is running; it changes no control variable. *)
LEMMA WorkerRuns ==
  ASSUME (\E t \in Threads : Worker(t) /\ ~CpuExhausted(t)) \/ GpuExhausted \/ GpuFail
  PROVE  /\ \E t \in Threads : ~Idle(t) /\ thr[t].pc # "none"
         /\ UNCHANGED <<disk, snap, net, main, session>>
  BY DEF Worker, Check, AcquireUnit, AcquireNone, Hash, LeaveLoop, CompleteUnit, ReleaseUnit,
         GpuExhausted, GpuFail, Idle, Threads

(* A process that begins has no thread. *)
LEMMA BootThreads ==
  ASSUME Boot(disk)
  PROVE  /\ \A t \in Threads : thr'[t].pc = "none" /\ Idle(t)' /\ ~Holds(t)'
         /\ net'.pc = "sleep" /\ net'.job = None /\ net'.op = "launch"
  <1>1. NoThread.pc = "none"
    BY NoThreadType
  <1> HIDE DEF NoThread
  <1> QED BY <1>1 DEF Boot, Idle, Holds

(* Joins leave no thread behind. *)
LEMMA JoinGpuThreads ==
  ASSUME IInv, NetJoinGpu
  PROVE  \A t \in Threads : thr'[t].pc = "none" /\ Idle(t)'
  <1>1. /\ net.pc = "join_gpu" /\ thr' = [thr EXCEPT ![Gpu] = NoThread]
        /\ thr \in [Threads -> Thread]
    BY DEF NetJoinGpu, IInv, TypeOK
  <1>2. NoThread.pc = "none"
    BY NoThreadType
  <1>3. \A t \in CpuThreads : thr[t].pc = "none"
    BY <1>1 DEF IInv, MinerInv, JoinedBeforePrepare
  <1> HIDE DEF NoThread
  <1> QED BY <1>1, <1>2, <1>3 DEF Threads, Idle

(* Units are abandoned only between the last join and prepare_live_job. *)
LEMMA NextStale ==
  ASSUME IInv, StaleInv, [Next]_vars
  PROVE  StaleInv'
  <1>1. CASE (\E t \in Threads : Worker(t) /\ ~CpuExhausted(t)) \/ GpuExhausted \/ GpuFail
    <2>1. NoStale(al)
      BY <1>1, WorkerRuns DEF StaleInv
    <2> QED BY <1>1, <2>1, WorkerNoStale DEF StaleInv
  <1>2. CASE StartCpu \/ StartGpu
    <2>1. Gpu \in Threads
      BY DEF Threads
    <2> QED BY <1>2, <2>1, StartThreads DEF StaleInv, NoStale
  <1>3. CASE Boot(disk)
    BY <1>3, BootThreads DEF StaleInv
  <1>4. CASE NetJoinGpu
    <2>1. net'.pc \in {"snap", "prepare"}
      BY <1>4, NetFields DEF NetJoinGpu
    <2> QED BY <1>4, <2>1, JoinGpuThreads DEF StaleInv
  <1>5. CASE Prepare \/ PrepareOverflow
    <2>1. net.pc = "prepare" /\ LaunchedWork \in Work /\ Good(al) /\ generation \in Nat
      BY <1>5, AtPrepare, IInvGood, NetFields DEF Prepare, PrepareOverflow
    <2>2. NoStale(al')
      BY <1>5, <2>1, PrepareNoStale DEF Prepare, PrepareOverflow
    <2> QED BY <2>2 DEF StaleInv
  <1>6. CASE Control /\ ~NetJoinGpu /\ ~Prepare /\ ~PrepareOverflow
    <2>1. \A t \in Threads : Idle(t)' <=> Idle(t)
      BY <1>6, ControlThreads, KeptFacts
    <2>2. CASE Connect \/ NetJoinCpu \/ NetSnapshot \/ NetSave \/ NetExit \/ Disconnect
      <3>1. UNCHANGED al /\ net'.pc \in {"idle", "join_gpu", "save", "sleep", "exited", "join_cpu"}
        BY <2>2, NetFields
           DEF Connect, NetJoinCpu, NetSnapshot, NetSave, NetExit, Disconnect, BeginStop
      <3> QED BY <2>1, <3>1 DEF StaleInv, NoStale
    <2>3. CASE OnAuthorized \/ (\E e \in Ex1s : OnSubscribed(e))
                 \/ \E j \in Jobs, clean \in CleanFlags : OnJob(j, clean)
      <3>1. UNCHANGED al /\ (net'.pc = "join_cpu" \/ net' = net)
        BY <2>3, CallbackNet
      <3> QED BY <2>1, <3>1 DEF StaleInv, NoStale
    <2>4. CASE \/ PeriodicSnapshot \/ PeriodicSave \/ FinalSnapshot \/ FinalSave \/ Shutdown
               \/ MainStopLate \/ MainJoinCpu \/ MainJoinGpu \/ MainJoinNet \/ UNCHANGED vars
      <3>1. UNCHANGED <<al, net>>
        BY <2>4 DEF PeriodicSnapshot, PeriodicSave, FinalSnapshot, FinalSave, Shutdown,
                    MainStopLate, MainJoinCpu, MainJoinGpu, MainJoinNet, vars
      <3> QED BY <2>1, <3>1 DEF StaleInv, NoStale
    <2> QED BY <1>6, <2>2, <2>3, <2>4 DEF Control
  <1> QED BY <1>1, <1>2, <1>3, <1>4, <1>5, <1>6, NextCases

-----------------------------------------------------------------------------
(* The order of the shutdown: the final checkpoint is taken after the network  *)
(* thread has ended, and that one ends with no worker left.                    *)
ShutdownInv ==
  /\ main \in {"snap", "save", "exited"} => net.pc = "exited"
  /\ net.pc \in {"sleep", "exited"} \/ (net.op = "drop" /\ net.pc \in {"snap", "save"})
       => \A t \in Threads : thr[t].pc = "none"
  /\ main = "save" => snap["main"] = al

(* The order of the shutdown is kept by every step of every thread. *)
LEMMA NextShutdown ==
  ASSUME IInv, ShutdownInv, [Next]_vars
  PROVE  ShutdownInv'
  <1>1. CASE (\E t \in Threads : Worker(t) /\ ~CpuExhausted(t)) \/ GpuExhausted \/ GpuFail
    BY <1>1, WorkerRuns DEF ShutdownInv
  <1>2. CASE StartCpu \/ StartGpu
    <2>1. Gpu \in Threads
      BY DEF Threads
    <2> QED BY <1>2, <2>1, StartThreads DEF ShutdownInv
  <1>3. CASE Boot(disk) /\ main' \in {"run", "dead"}
    BY <1>3, BootThreads DEF ShutdownInv
  <1>4. CASE NetJoinGpu
    BY <1>4, JoinGpuThreads, NetFields DEF NetJoinGpu, ShutdownInv
  <1>5. CASE Control /\ ~NetJoinGpu
    <2>1. \A t \in Threads : thr[t].pc = "none" => thr'[t].pc = "none"
      BY <1>5, ControlThreads, KeptFacts
    <2>2. CASE Connect \/ NetJoinCpu \/ Disconnect \/ Prepare \/ PrepareOverflow
      <3>1. UNCHANGED main /\ net.pc # "exited"
            /\ net'.pc \in {"idle", "join_gpu", "join_cpu", "start_cpu"}
        <4>1. CASE Prepare \/ PrepareOverflow
          BY <4>1, PrepareNet
        <4>2. CASE Connect \/ NetJoinCpu \/ Disconnect
          BY <4>2, NetFields DEF Connect, NetJoinCpu, Disconnect, BeginStop
        <4> QED BY <2>2, <4>1, <4>2
      <3>2. net'.pc \notin {"sleep", "exited", "snap", "save"}
        BY <3>1
      <3>3. main \notin {"snap", "save", "exited"}
        BY <3>1 DEF ShutdownInv
      <3> QED BY <3>1, <3>2, <3>3 DEF ShutdownInv
    <2>9. CASE NetExit
      <3>1. UNCHANGED <<main, al, snap>> /\ net.pc = "sleep" /\ net'.pc = "exited"
        BY <2>9, NetFields DEF NetExit
      <3> QED BY <2>1, <3>1 DEF ShutdownInv
    <2>3. CASE OnAuthorized \/ (\E e \in Ex1s : OnSubscribed(e))
                 \/ \E j \in Jobs, clean \in CleanFlags : OnJob(j, clean)
      <3>1. net.pc = "idle" /\ (net'.pc = "join_cpu" \/ net' = net) /\ UNCHANGED main
        BY <2>3, CallbackNet
      <3> QED BY <3>1 DEF ShutdownInv
    <2>4. CASE NetSnapshot \/ NetSave
      <3>1. net.pc \in {"snap", "save"} /\ UNCHANGED main /\ net'.op = net.op
            /\ (net'.pc \in {"save", "sleep", "exited"} => net'.pc = "save" \/ net.op = "drop")
        BY <2>4, NetFields DEF NetSnapshot, NetSave
      <3>2. net'.pc \in {"save", "idle", "sleep", "exited"}
        BY <2>4, NetFields DEF NetSnapshot, NetSave
      <3> QED BY <2>1, <3>1, <3>2 DEF ShutdownInv
    <2>5. CASE PeriodicSnapshot \/ PeriodicSave \/ FinalSave
      BY <2>1, <2>5 DEF PeriodicSnapshot, PeriodicSave, FinalSave, ShutdownInv
    <2>6. CASE FinalSnapshot
      <3>1. snap'["main"] = al
        BY <2>6 DEF FinalSnapshot, TakeSnapshot, IInv, TypeOK, Savers
      <3> QED BY <2>1, <2>6, <3>1 DEF FinalSnapshot, ShutdownInv
    <2>7. CASE Shutdown \/ MainStopLate \/ MainJoinCpu \/ MainJoinGpu \/ MainJoinNet
      BY <2>1, <2>7
         DEF Shutdown, MainStopLate, MainJoinCpu, MainJoinGpu, MainJoinNet, ShutdownInv
    <2>8. CASE UNCHANGED vars
      BY <2>8 DEF vars, ShutdownInv
    <2> QED BY <1>5, <2>2, <2>3, <2>4, <2>5, <2>6, <2>7, <2>8, <2>9 DEF Control
  <1> QED BY <1>1, <1>2, <1>3, <1>4, <1>5, NextCases

-----------------------------------------------------------------------------
(* The nonces a worker has hashed in its unit and not yet published. *)
InFlight(t) ==
  IF Holds(t) THEN {thr[t].x} \X ((thr[t].next - thr[t].pending) .. (thr[t].next - 1)) ELSE {}

(* What was hashed for the work is recorded, or a worker is about to record it. *)
HashInv ==
  /\ al.done \subseteq hashed
  /\ \A t \in Threads : InFlight(t) \subseteq hashed
  /\ \A z \in hashed : z \in al.done \/ \E t \in Threads : z \in InFlight(t)
  /\ \A t \in Threads : Holds(t) /\ thr[t].pc # "scan" => thr[t].pending = 0

(* A worker without pending blocks has nothing in flight. *)
LEMMA NothingInFlight ==
  ASSUME IInv, NEW t \in Threads, Holds(t) => thr[t].pending = 0
  PROVE  InFlight(t) = {}
  <1>0. thr[t] \in Thread
    BY ThreadFields
  <1>1. thr[t].next \in Nat
    BY <1>0 DEF Thread
  <1>2. \A n \in Nat : (n - 0) .. (n - 1) = {}
    OBVIOUS
  <1> QED BY <1>1, <1>2 DEF InFlight

(* A step of one worker: what it records, holds and has hashed add up. *)
LEMMA HashFrame ==
  ASSUME HashInv, NEW t \in Threads,
         \A s \in Threads : s # t => thr'[s] = thr[s],
         NEW new, hashed' = hashed \cup new,
         al'.done \cup InFlight(t)' = al.done \cup InFlight(t) \cup new,
         Holds(t)' /\ thr'[t].pc # "scan" => thr'[t].pending = 0
  PROVE  HashInv'
  <1>1. \A s \in Threads : s # t => InFlight(s)' = InFlight(s) /\ (Holds(s)' <=> Holds(s))
    BY DEF InFlight, Holds
  <1> DEFINE F == [s \in Threads |-> InFlight(s)]
             G == [s \in Threads |-> InFlight(s)']
  <1>2. /\ \A s \in Threads : s # t => G[s] = F[s]
        /\ al'.done \cup G[t] = al.done \cup F[t] \cup new
        /\ \A s \in Threads : F[s] \subseteq hashed
        /\ \A z \in hashed : z \in al.done \/ \E s \in Threads : z \in F[s]
    BY <1>1 DEF HashInv
  <1> HIDE DEF F, G
  <1>3. /\ al'.done \subseteq hashed'
        /\ \A s \in Threads : G[s] \subseteq hashed'
        /\ \A z \in hashed' : z \in al'.done \/ \E s \in Threads : z \in G[s]
    <2>1. al'.done \cup G[t] \subseteq hashed'
      BY <1>2 DEF HashInv
    <2>2. ASSUME NEW z \in hashed' PROVE z \in al'.done \/ \E s \in Threads : z \in G[s]
      <3>1. CASE z \in al.done \/ z \in new \/ z \in F[t]
        BY <1>2, <3>1
      <3>2. CASE \E s \in Threads : s # t /\ z \in F[s]
        BY <1>2, <3>2
      <3> QED BY <1>2, <3>1, <3>2
    <2> QED BY <1>2, <2>1, <2>2
  <1>4. \A s \in Threads : Holds(s)' /\ thr'[s].pc # "scan" => thr'[s].pending = 0
    BY <1>1 DEF HashInv
  <1> QED BY <1>3, <1>4 DEF HashInv, G

(* Every call of a worker keeps the account of what was hashed. *)
LEMMA WorkerHash ==
  ASSUME IInv, Exact(al), HashInv, NEW t \in Threads, Worker(t), ~CpuExhausted(t)
  PROVE  HashInv'
  <1>1. thr[t] \in Thread /\ thr \in [Threads -> Thread] /\ Good(al) /\ al \in Allocator
    BY ThreadFields, IInvGood DEF IInv, TypeOK, Good
  <1>2. thr[t].next \in Nat /\ thr[t].pending \in Nat /\ thr[t].end \in Nat
    BY <1>1 DEF Thread
  <1>3. Holds(t) /\ thr[t].pc # "scan" => InFlight(t) = {}
    BY NothingInFlight DEF HashInv
  <1>4. /\ ~Holds(t) => InFlight(t) = {}
        /\ ~Holds(t)' => InFlight(t)' = {}
    BY DEF InFlight
  <1>5. ASSUME NEW n \in Nat, thr'[t].next = n, thr'[t].pending = 0
        PROVE  InFlight(t)' = {}
    <2>1. (n - 0) .. (n - 1) = {}
      OBVIOUS
    <2> QED BY <1>5, <2>1 DEF InFlight
  \* Between two units nothing is in flight.
  <1>6. ASSUME NEW pc \in ThreadPcs, Go(t, pc) \/ Return(t), thr[t].pc # "scan",
               Holds(t) \/ pc = "acquire",
               al'.done = al.done, UNCHANGED hashed
        PROVE  HashInv'
    <2>1. PICK th \in Thread : /\ thr' = [thr EXCEPT ![t] = th]
                               /\ (Go(t, pc) /\ th.pc = pc) \/ th.pc = "done"
      BY <1>6, GoOrReturn
    <2>2. thr'[t] = th /\ \A s \in Threads : s # t => thr'[s] = thr[s]
      BY <1>1, <2>1
    <2>3. Holds(t)' => Go(t, pc) /\ Holds(t)
      BY <1>6, <2>1, <2>2 DEF Holds
    <2>4. Go(t, pc) => thr'[t].next = thr[t].next /\ thr'[t].pending = thr[t].pending
      BY <1>1 DEF Go, Thread
    <2>5. Holds(t)' => thr'[t].pending = 0 /\ thr'[t].next \in Nat
      BY <1>2, <1>6, <2>3, <2>4 DEF HashInv
    <2>6. InFlight(t) = {} /\ InFlight(t)' = {}
      BY <1>3, <1>4, <1>5, <1>6, <2>5
    <2>7. al'.done \cup InFlight(t)' = al.done \cup InFlight(t) \cup {}
      BY <1>6, <2>6
    <2>8. hashed' = hashed \cup {}
      BY <1>6
    <2> QED BY <2>2, <2>5, <2>7, <2>8, HashFrame
  <1>7. CASE Check(t) \/ AcquireNone(t)
    <2>1. al'.done = al.done /\ UNCHANGED hashed /\ thr[t].pc # "scan"
      BY <1>7 DEF Check, AcquireNone
    <2>2. CASE Check(t)
      <3>1. CASE t = Gpu
        <4>1. Holds(t) /\ "scan" \in ThreadPcs /\ (Go(t, "scan") \/ Return(t))
          BY <2>2, <3>1 DEF Check, Holds, ThreadPcs
        <4> QED BY <1>6, <2>1, <4>1
      <3>2. CASE t # Gpu
        <4>1. "acquire" \in ThreadPcs /\ (Go(t, "acquire") \/ Return(t))
          BY <2>2, <3>2 DEF Check, ThreadPcs
        <4> QED BY <1>6, <2>1, <4>1
      <3> QED BY <3>1, <3>2
    <2>3. CASE AcquireNone(t)
      <3>1. "acquire" \in ThreadPcs /\ Return(t)
        BY <2>3 DEF AcquireNone, ThreadPcs
      <3> QED BY <1>6, <2>1, <3>1
    <2> QED BY <1>7, <2>2, <2>3
  <1>8. CASE ReleaseUnit(t)
    <2>1. al'.done = al.done
      BY <1>1, <1>8, StatusHistory DEF ReleaseUnit, SameHistory
    <2>2. Go(t, "check") \/ Return(t)
      BY <1>8 DEF ReleaseUnit
    <2>3. "check" \in ThreadPcs /\ Holds(t) /\ thr[t].pc # "scan" /\ UNCHANGED hashed
      BY <1>8 DEF ReleaseUnit, Holds, ThreadPcs
    <2> QED BY <1>6, <2>1, <2>2, <2>3
  <1>9. CASE CompleteUnit(t)
    <2>1. /\ Holds(t) /\ thr[t].pc # "scan" /\ UNCHANGED hashed
          /\ thr[t].next >= thr[t].end /\ al' = Complete(al, thr[t].id)
      BY <1>9 DEF CompleteUnit, Holds
    <2>2. PICK w \in al.units : HeldUnit(t, w) /\ w \in Unit /\ Open(w)
      BY <2>1, HeldFacts
    <2>3. thr[t].pending = 0
      BY <2>1 DEF HashInv
    <2>4. Id(w) = thr[t].id /\ w.next = w.end
      BY <1>2, <2>1, <2>2, <2>3 DEF HeldUnit
    <2>5. Rest(w) = {}
      BY <2>2, <2>4 DEF Rest, Unit
    <2>6. al'.done = al.done
      <3>1. Complete(al, Id(w)).done = al.done \cup Rest(w)
        BY <1>1, <2>2, CompleteExact
      <3> QED BY <2>1, <2>4, <2>5, <3>1
    <2>7. PICK pc \in {"check", "acquire"} : Go(t, pc) \/ Return(t)
      BY <1>9 DEF CompleteUnit
    <2>8. pc \in ThreadPcs
      BY <2>7 DEF ThreadPcs
    <2> QED BY <1>6, <2>1, <2>6, <2>7, <2>8
  <1>10. CASE AcquireUnit(t)
    <2>1. PICK u \in FirstAcquirable(al, KindOf(t)) :
            /\ al' = Acquired(al, u)
            /\ thr' = [thr EXCEPT ![t].pc = IF t = Gpu THEN "check" ELSE "scan",
                                  ![t].id = Id(u), ![t].x = u.x, ![t].next = u.next,
                                  ![t].end = u.end, ![t].pending = 0]
      BY <1>10 DEF AcquireUnit
    <2>2. thr'[t].pending = 0 /\ thr'[t].next = u.next /\ \A s \in Threads : s # t => thr'[s] = thr[s]
      BY <1>1, <2>1, Zenon DEF Thread
    <2>3. u.next \in Nat
      BY <1>1, <2>1, GoodParts DEF FirstAcquirable, Acquirable, Unit
    <2>4. ~Holds(t) /\ UNCHANGED hashed
      BY <1>10 DEF AcquireUnit, Holds
    <2>5. al'.done = al.done
      BY <1>1, <2>1, StatusHistory DEF SameHistory
    <2>6. InFlight(t) = {} /\ InFlight(t)' = {}
      BY <1>4, <1>5, <2>2, <2>3, <2>4
    <2>7. al'.done \cup InFlight(t)' = al.done \cup InFlight(t) \cup {}
      BY <2>5, <2>6
    <2>8. hashed' = hashed \cup {}
      BY <2>4
    <2> QED BY <2>2, <2>7, <2>8, HashFrame
  <1>11. CASE Hash(t)
    <2>1. /\ thr[t].pc = "scan" /\ Holds(t) /\ thr[t].next < thr[t].end
          /\ hashed' = hashed \cup {<<thr[t].x, thr[t].next>>}
      BY <1>11 DEF Hash, Holds
    <2>2. PICK w \in al.units : HeldUnit(t, w) /\ w \in Unit /\ Open(w)
      BY <2>1, HeldFacts
    <2>3. Id(w) = thr[t].id /\ w.next = thr[t].next - thr[t].pending /\ w.x = thr[t].x
          /\ w.end = thr[t].end /\ w.next \in Nat
      BY <2>2 DEF HeldUnit, Unit
    <2>4. InFlight(t) = {w.x} \X (w.next .. (thr[t].next - 1))
      BY <2>1, <2>3 DEF InFlight
    <2>5. (w.next .. (thr[t].next - 1)) \cup {thr[t].next} = w.next .. thr[t].next
      BY <1>2, <2>3
    <2>6. CASE thr[t].pending + 1 = Batch
      <3>1. /\ al' = UpdateProgress(al, thr[t].id, thr[t].next + 1)
            /\ thr' = [thr EXCEPT ![t].next = @ + 1, ![t].pending = 0]
        BY <1>11, <2>6 DEF Hash
      <3>2. thr'[t].pending = 0 /\ thr'[t].next = thr[t].next + 1 /\ thr'[t].pc = thr[t].pc
            /\ \A s \in Threads : s # t => thr'[s] = thr[s]
        BY <1>1, <3>1 DEF Thread
      <3>3. al'.done = al.done \cup ({w.x} \X (w.next .. thr[t].next))
        <4>1. thr[t].next + 1 \in Nat /\ w.next <= thr[t].next + 1 /\ thr[t].next + 1 <= w.end
          BY <1>2, <2>1, <2>3
        <4>2. ASSUME NEW n \in Nat, w.next <= n, n <= w.end
              PROVE  UpdateProgress(al, Id(w), n).done = al.done \cup ({w.x} \X (w.next .. (n - 1)))
          BY <1>1, <2>2, <4>2, UpdateExact
        <4> DEFINE m == thr[t].next + 1
        <4>3. m \in Nat /\ w.next <= m /\ m <= w.end /\ m - 1 = thr[t].next
              /\ al' = UpdateProgress(al, Id(w), m)
          BY <1>2, <2>3, <3>1, <4>1
        <4> HIDE DEF m
        <4>4. al'.done = al.done \cup ({w.x} \X (w.next .. (m - 1)))
          BY <4>2, <4>3
        <4> QED BY <4>3, <4>4
      <3>4. thr[t].next + 1 \in Nat
        BY <1>2
      <3>5. InFlight(t)' = {}
        BY <1>5, <3>2, <3>4
      <3>6. al'.done \cup InFlight(t)' = al.done \cup InFlight(t) \cup {<<thr[t].x, thr[t].next>>}
        BY <2>3, <2>4, <2>5, <3>3, <3>5
      <3> QED BY <2>1, <3>2, <3>6, HashFrame
    <2>7. CASE thr[t].pending + 1 # Batch
      <3>1. /\ UNCHANGED al
            /\ thr' = [thr EXCEPT ![t].next = @ + 1, ![t].pending = @ + 1]
        BY <1>11, <2>7 DEF Hash
      <3>2. thr'[t].pending = thr[t].pending + 1 /\ thr'[t].next = thr[t].next + 1
            /\ thr'[t].pc = thr[t].pc /\ thr'[t].x = thr[t].x
            /\ \A s \in Threads : s # t => thr'[s] = thr[s]
        BY <1>1, <3>1 DEF Thread
      <3>3. Holds(t)'
        BY <2>1, <3>2 DEF Holds
      <3>4. /\ (thr[t].next + 1) - (thr[t].pending + 1) = w.next
            /\ (thr[t].next + 1) - 1 = thr[t].next
        BY <1>2, <2>3
      <3>5. InFlight(t)' = {w.x} \X (w.next .. thr[t].next)
        BY <2>3, <3>2, <3>3, <3>4 DEF InFlight
      <3>6. al'.done \cup InFlight(t)' = al.done \cup InFlight(t) \cup {<<thr[t].x, thr[t].next>>}
        BY <2>3, <2>4, <2>5, <3>1, <3>5
      <3> QED BY <2>1, <3>2, <3>6, HashFrame
    <2> QED BY <2>6, <2>7
  <1>12. CASE LeaveLoop(t)
    <2>1. /\ Holds(t) /\ hashed' = hashed \cup {}
          /\ al' = IF thr[t].pending = 0 THEN al ELSE UpdateProgress(al, thr[t].id, thr[t].next)
          /\ thr' = [thr EXCEPT ![t].pc = "settle", ![t].pending = 0]
      BY <1>12 DEF LeaveLoop, Holds
    <2>2. PICK w \in al.units : HeldUnit(t, w) /\ w \in Unit /\ Open(w)
      BY <2>1, HeldFacts
    <2>3. Id(w) = thr[t].id /\ w.next = thr[t].next - thr[t].pending /\ w.x = thr[t].x
          /\ w.end = thr[t].end /\ w.next \in Nat /\ thr[t].next <= w.end
      BY <2>2 DEF HeldUnit, Unit
    <2>4. InFlight(t) = {w.x} \X (w.next .. (thr[t].next - 1))
      BY <2>1, <2>3 DEF InFlight
    <2>5. thr'[t].pending = 0 /\ thr'[t].next = thr[t].next
          /\ \A s \in Threads : s # t => thr'[s] = thr[s]
      BY <1>1, <2>1 DEF Thread
    <2>6. InFlight(t)' = {}
      BY <1>2, <1>5, <2>5
    <2>7. al'.done = al.done \cup InFlight(t)
      <3>1. CASE thr[t].pending = 0
        BY <2>1, <3>1, NothingInFlight
      <3>2. CASE thr[t].pending # 0
        <4>1. w.next <= thr[t].next
          BY <1>2, <2>3
        <4> QED BY <1>1, <1>2, <2>1, <2>2, <2>3, <2>4, <3>2, <4>1, UpdateExact
      <3> QED BY <3>1, <3>2
    <2>8. al'.done \cup InFlight(t)' = al.done \cup InFlight(t) \cup {}
      BY <2>6, <2>7
    <2> QED BY <2>1, <2>5, <2>8, HashFrame
  <1> QED BY <1>7, <1>8, <1>9, <1>10, <1>11, <1>12 DEF Worker

(* With no unit held, what was hashed is what is recorded. *)
LEMMA QuietHash ==
  ASSUME \A t \in Threads : ~Holds(t)', hashed' = al'.done
  PROVE  HashInv'
  BY DEF HashInv, InFlight

(* A step that neither records nor hashes, and leaves the units with those that *)
(* hold them.                                                                  *)
LEMMA SameHash ==
  ASSUME HashInv, hashed' = hashed, al'.done = al.done,
         \A t \in Threads :
           /\ Holds(t)' <=> Holds(t)
           /\ Holds(t) => /\ thr'[t].pc = thr[t].pc /\ thr'[t].x = thr[t].x
                          /\ thr'[t].next = thr[t].next /\ thr'[t].pending = thr[t].pending
  PROVE  HashInv'
  <1>1. \A t \in Threads : InFlight(t)' = InFlight(t)
    BY DEF InFlight
  <1> QED BY <1>1 DEF HashInv

(* What two workers have in flight is disjoint, and none of it is recorded yet. *)
LEMMA InFlightApart ==
  ASSUME IInv, Exact(al), NEW s \in Threads, NEW t \in Threads, s # t
  PROVE  InFlight(s) \cap InFlight(t) = {} /\ InFlight(t) \cap al.done = {}
  <1>1. ASSUME NEW r \in Threads, Holds(r)
        PROVE  \E u \in al.units : Id(u) = thr[r].id /\ Open(u) /\ InFlight(r) \subseteq Rest(u)
    <2>1. PICK u \in al.units : HeldUnit(r, u) /\ u \in Unit /\ Open(u)
      BY <1>1, HeldFacts
    <2>2. thr[r] \in Thread
      BY ThreadFields
    <2>3. thr[r].next \in Int /\ u.end \in Int /\ u.next \in Int
      BY <2>1, <2>2 DEF Thread, Unit
    <2>4. /\ Id(u) = thr[r].id /\ u.x = thr[r].x /\ u.next = thr[r].next - thr[r].pending
          /\ thr[r].next <= u.end
      BY <2>1 DEF HeldUnit
    <2>5. InFlight(r) = {u.x} \X (u.next .. (thr[r].next - 1))
      BY <1>1, <2>4 DEF InFlight
    <2>6. (u.next .. (thr[r].next - 1)) \subseteq u.next .. (u.end - 1)
      BY <2>3, <2>4
    <2> QED BY <2>1, <2>4, <2>5, <2>6 DEF Rest
  <1>2. \A r \in Threads : ~Holds(r) => InFlight(r) = {}
    BY DEF InFlight
  <1>3. InFlight(t) \cap al.done = {}
    BY <1>1, <1>2 DEF Exact, Accounted, NothingReallocated
  <1>4. CASE Holds(s) /\ Holds(t)
    <2>1. PICK u \in al.units : Id(u) = thr[s].id /\ InFlight(s) \subseteq Rest(u)
      BY <1>1, <1>4
    <2>2. PICK v \in al.units : Id(v) = thr[t].id /\ InFlight(t) \subseteq Rest(v)
      BY <1>1, <1>4
    <2>3. thr[s].id # thr[t].id
      BY <1>4 DEF IInv, MinerInv, DistinctHeld
    <2>4. Rest(u) \cap Rest(v) = {}
      BY <2>1, <2>2, <2>3, IInvGood, RestDisjoint
    <2> QED BY <1>3, <2>1, <2>2, <2>4
  <1> QED BY <1>2, <1>3, <1>4

(* The GPU thread gives up: its batch is neither recorded nor counted. *)
LEMMA GpuHash ==
  ASSUME IInv, Exact(al), HashInv, GpuExhausted \/ GpuFail
  PROVE  HashInv'
  <1>1. Gpu \in Threads /\ thr \in [Threads -> Thread] /\ Good(al) /\ al \in Allocator
    BY IInvGood DEF IInv, TypeOK, Good, Threads
  <1>2. thr[Gpu] \in Thread
    BY <1>1, ThreadFields
  <1>3. Return(Gpu)
    BY DEF GpuExhausted, GpuFail
  <1>4. thr'[Gpu].pc = "done" /\ \A s \in Threads : s # Gpu => thr'[s] = thr[s]
    <2>1. thr' = [thr EXCEPT ![Gpu] = Returned(thr[Gpu])]
      BY <1>3 DEF Return
    <2>2. Returned(thr[Gpu]).pc = "done"
      BY <1>2, ReturnedType
    <2> HIDE DEF Returned
    <2> QED BY <1>1, <2>1, <2>2
  <1>5. ~Holds(Gpu)' /\ InFlight(Gpu)' = {}
    BY <1>4 DEF Holds, InFlight
  <1>6. CASE GpuExhausted
    <2>1. /\ Holds(Gpu) /\ thr[Gpu].pc # "scan" /\ UNCHANGED hashed
          /\ thr[Gpu].next >= thr[Gpu].end /\ CompleteThrows(al, thr[Gpu].id)
          /\ al' = Release(HalfCompleted(al, thr[Gpu].id), thr[Gpu].id)
      BY <1>6 DEF GpuExhausted, Holds
    <2>2. PICK w \in al.units : HeldUnit(Gpu, w) /\ w \in Unit /\ Open(w)
      BY <1>1, <2>1, HeldFacts
    <2>3. thr[Gpu].pending = 0 /\ thr[Gpu].next \in Nat /\ thr[Gpu].end \in Nat
      BY <1>1, <1>2, <2>1 DEF HashInv, Thread
    <2>4. Id(w) = thr[Gpu].id /\ w.next = w.end /\ w.kind = "gpu"
      BY <2>1, <2>2, <2>3 DEF HeldUnit, KindOf
    <2>5. Rest(w) = {}
      BY <2>2, <2>4 DEF Rest, Unit
    <2> DEFINE m == HalfCompleted(al, thr[Gpu].id)
    <2>6. m \in Allocator
      BY <1>1, <2>1, HalfCompletedGood DEF Good
    <2>7. HalfCompleted(al, Id(w)).done = al.done \cup Rest(w)
      BY <1>1, <2>2, <2>4, HalfCompletedExact
    <2>8. m.done = al.done /\ al' = Release(m, thr[Gpu].id)
      BY <2>1, <2>4, <2>5, <2>7
    <2> HIDE DEF m
    <2>9. al'.done = al.done
      BY <2>6, <2>8, StatusHistory DEF SameHistory
    <2>10. InFlight(Gpu) = {}
      BY <1>1, <2>3, NothingInFlight
    <2>11. al'.done \cup InFlight(Gpu)' = al.done \cup InFlight(Gpu) \cup {} /\ hashed' = hashed \cup {}
      BY <1>5, <2>1, <2>9, <2>10
    <2> QED BY <1>1, <1>4, <1>5, <2>11, HashFrame
  <1>7. CASE GpuFail
    <2>1. Holds(Gpu) /\ al' = Release(al, thr[Gpu].id)
      BY <1>7 DEF GpuFail, Holds
    <2>2. hashed' = hashed \ InFlight(Gpu)
      BY <1>7, <2>1 DEF GpuFail, InFlight
    <2>3. al'.done = al.done
      BY <1>1, <2>1, StatusHistory DEF SameHistory
    <2>4. \A s \in Threads : s # Gpu => /\ InFlight(s)' = InFlight(s) /\ (Holds(s)' <=> Holds(s))
                                       /\ InFlight(s) \cap InFlight(Gpu) = {}
      BY <1>1, <1>4, InFlightApart DEF InFlight, Holds
    <2>5. InFlight(Gpu) \cap al.done = {}
      <3>1. 1 \in Threads /\ 1 # Gpu
        BY AllocatorAssumption DEF Threads, CpuThreads, Gpu
      <3> QED BY <1>1, <3>1, InFlightApart
    <2>6. al'.done \subseteq hashed'
      BY <2>2, <2>3, <2>5 DEF HashInv
    <2>7. \A s \in Threads : InFlight(s)' \subseteq hashed'
      BY <1>5, <2>2, <2>4 DEF HashInv
    <2>8. ASSUME NEW z \in hashed' PROVE z \in al'.done \/ \E s \in Threads : z \in InFlight(s)'
      BY <2>2, <2>3, <2>4 DEF HashInv
    <2>9. \A s \in Threads : Holds(s)' /\ thr'[s].pc # "scan" => thr'[s].pending = 0
      BY <1>4, <1>5, <2>4 DEF HashInv
    <2> QED BY <2>6, <2>7, <2>8, <2>9 DEF HashInv
  <1> QED BY <1>6, <1>7

(* Every step keeps the account of what was hashed. *)
LEMMA NextHash ==
  ASSUME IInv, Exact(al), HashInv, [Next]_vars
  PROVE  HashInv'
  <1>1. al \in Allocator /\ disk \in Allocator
    BY DEF IInv, TypeOK
  <1>2. CASE \E t \in Threads : Worker(t) /\ ~CpuExhausted(t)
    BY <1>2, WorkerHash
  <1>3. CASE GpuExhausted \/ GpuFail
    BY <1>3, GpuHash
  <1>4. CASE StartCpu \/ StartGpu
    <2>1. Gpu \in Threads
      BY DEF Threads
    <2>2. UNCHANGED <<al, hashed>>
      BY <1>4, <2>1, StartThreads
    <2>3. ASSUME NEW t \in Threads
          PROVE  /\ Holds(t)' <=> Holds(t)
                 /\ Holds(t) => thr'[t] = thr[t]
      BY <1>4, StartThreads DEF Holds, Idle
    <2> QED BY <2>2, <2>3, SameHash
  <1>5. CASE Boot(disk)
    <2>1. hashed' = disk.done /\ al' = LoadExisting(disk)
      BY <1>5 DEF Boot
    <2>2. al'.done = disk.done
      BY <1>1, <2>1, StatusHistory DEF SameHistory
    <2> QED BY <1>5, <2>1, <2>2, BootThreads, QuietHash
  <1>6. CASE Prepare
    <2>1. /\ net.pc = "prepare" /\ UNCHANGED thr
          /\ al' = PrepareLiveJob(al, LaunchedWork, generation)
          /\ hashed' = IF al.work = LaunchedWork THEN hashed ELSE {}
      BY <1>6 DEF Prepare
    <2>2. \A t \in Threads : ~Holds(t) /\ ~Holds(t)'
      BY <2>1, AtPrepare DEF Holds
    <2>3. hashed = al.done
      BY <2>2 DEF HashInv, InFlight
    <2>4. al'.done = IF al.work = LaunchedWork THEN al.done ELSE {}
      <3>1. Resumed(al, LaunchedWork, generation).done = al.done
        BY <1>1, StatusHistory DEF SameHistory
      <3>2. Recreated(al, LaunchedWork, generation).done
              = IF al.work = LaunchedWork THEN al.done ELSE {}
        BY DEF Recreated
      <3> QED BY <2>1, <3>1, <3>2 DEF PrepareLiveJob, Compatible
    <2> QED BY <2>1, <2>2, <2>3, <2>4, QuietHash
  <1>7. CASE Control /\ ~Prepare
    <2>1. ASSUME NEW t \in Threads
          PROVE  /\ Holds(t)' <=> Holds(t)
                 /\ Holds(t) => /\ thr'[t].pc = thr[t].pc /\ thr'[t].x = thr[t].x
                                /\ thr'[t].next = thr[t].next /\ thr'[t].pending = thr[t].pending
      BY <1>7, ControlThreads, KeptFacts
    <2>2. hashed' = hashed /\ al'.done = al.done
      <3>1. CASE NetJoinGpu \/ PrepareOverflow
        <4>1. UNCHANGED hashed /\ (\/ al' = al \/ al' = MarkAllStale(al)
                                  \/ al' = HalfPrepared(al, LaunchedWork, generation))
          BY <3>1 DEF NetJoinGpu, PrepareOverflow
        <4> QED BY <1>1, <4>1, StatusHistory DEF SameHistory
      <3>2. CASE OnAuthorized \/ (\E e \in Ex1s : OnSubscribed(e))
                   \/ \E j \in Jobs, clean \in CleanFlags : OnJob(j, clean)
        BY <3>2, CallbackNet
      <3>3. CASE Connect \/ NetJoinCpu \/ NetSnapshot \/ NetSave \/ NetExit \/ Disconnect
        BY <3>3 DEF Connect, NetJoinCpu, NetSnapshot, NetSave, NetExit, Disconnect
      <3>4. CASE \/ PeriodicSnapshot \/ PeriodicSave \/ FinalSnapshot \/ FinalSave \/ Shutdown
                 \/ MainStopLate \/ MainJoinCpu \/ MainJoinGpu \/ MainJoinNet \/ UNCHANGED vars
        BY <3>4 DEF PeriodicSnapshot, PeriodicSave, FinalSnapshot, FinalSave, Shutdown,
                    MainStopLate, MainJoinCpu, MainJoinGpu, MainJoinNet, vars
      <3> QED BY <1>7, <3>1, <3>2, <3>3, <3>4 DEF Control
    <2> QED BY <2>1, <2>2, SameHash
  <1> QED BY <1>2, <1>3, <1>4, <1>5, <1>6, <1>7, NextCases

-----------------------------------------------------------------------------
(* With a pool that does not return to an abandoned work, no nonce recorded as *)
(* scanned is given out again, in memory or after a restart from the file.     *)
THEOREM NeverReallocatedHolds ==
  Spec /\ []NoReturn => []NeverReallocated
  <1>1. ExactInv => NeverReallocated
    BY DEF ExactInv, Exact, Accounted, NeverReallocated
  <1> QED BY <1>1, RecordsAreExact, PTL

(* ... nothing reserved is lost, and while a worker runs nothing is abandoned. *)
THEOREM NeverForgottenHolds ==
  Spec /\ []NoReturn => []NeverForgotten
  <1>1. ExactInv /\ StaleInv => NeverForgotten
    BY DEF ExactInv, Exact, Accounted, StaleInv, NoStale, NeverForgotten
  <1>2. Init => StaleInv
    BY NoThreadType DEF Init, StaleInv, NoStale, EmptyAllocator
  <1>3. IInv /\ StaleInv /\ [Next]_vars => StaleInv'
    BY NextStale
  <1> QED BY <1>1, <1>2, <1>3, RecordsAreExact, InvariantHolds, PTL DEF Spec

(* What was hashed and what is recorded agree up to the batches in flight. *)
THEOREM HashedIsRecorded ==
  Spec /\ []NoReturn => []HashInv
  <1>1. Init => HashInv
    <2>1. NoThread.pc = "none"
      BY NoThreadType
    <2> HIDE DEF NoThread
    <2> QED BY <2>1 DEF Init, HashInv, InFlight, Holds, EmptyAllocator
  <1>2. IInv /\ ExactInv /\ HashInv /\ [Next]_vars => HashInv'
    BY NextHash DEF ExactInv
  <1> QED BY <1>1, <1>2, RecordsAreExact, InvariantHolds, PTL DEF Spec

(* A checkpoint never skips a nonce nobody tried. *)
THEOREM RecordedWasHashedHolds ==
  Spec /\ []NoReturn => []RecordedWasHashed
  <1>1. HashInv => RecordedWasHashed
    BY DEF HashInv, RecordedWasHashed
  <1> QED BY <1>1, HashedIsRecorded, PTL

(* The final checkpoint of a clean stop is taken when no worker is left, and   *)
(* records all that was hashed.                                                *)
THEOREM CleanStopIsExactHolds ==
  Spec /\ []NoReturn => []CleanStopIsExact
  <1>1. Init => ShutdownInv
    BY NoThreadType DEF Init, ShutdownInv
  <1>2. IInv /\ ShutdownInv /\ [Next]_vars => ShutdownInv'
    BY NextShutdown
  <1>3. HashInv /\ ShutdownInv => CleanStopIsExact
    <2>1. SUFFICES ASSUME HashInv, ShutdownInv, main = "save" PROVE CleanStopIsExact
      BY DEF CleanStopIsExact
    <2>2. snap["main"] = al /\ \A t \in Threads : thr[t].pc = "none"
      BY <2>1 DEF ShutdownInv
    <2>3. \A t \in Threads : InFlight(t) = {}
      BY <2>2 DEF InFlight, Holds
    <2>4. hashed = al.done
      BY <2>1, <2>3 DEF HashInv
    <2> QED BY <2>2, <2>4 DEF CleanStopIsExact
  <1> QED BY <1>1, <1>2, <1>3, HashedIsRecorded, InvariantHolds, PTL DEF Spec

-----------------------------------------------------------------------------
(* When the pool cannot bring an abandoned work back: it never sends clean_jobs, *)
(* or it sends it with a new job only and the process is not restarted in the   *)
(* middle of a launch.                                                         *)
QuietPool == CleanFlags \subseteq {FALSE} \/ (~CleanRenotify /\ MaxCrashes = 0)

(* Nothing is abandoned at all. *)
KeepsAll ==
  /\ NoStale(al) /\ NoStale(disk)
  /\ \A p \in Savers : snap[p] # None => NoStale(snap[p])
  /\ net.job # None => net.job[2] = FALSE
  /\ session.pending # None => session.pending[2] = FALSE

(* A clean job is about another work than the one it abandons. *)
Another(job) == job # None /\ job[2] => \A e \in Ex1s : al.work # <<job[1], e>>

(* What is abandoned is replaced at once. *)
Replaces ==
  /\ Launching => session.authorized
  /\ session.pending # None => ~(session.subscribed /\ session.authorized)
  /\ net.pc \in {"join_cpu", "join_gpu", "prepare"} => Another(net.job)
  /\ Another(session.pending)
  /\ main = "dead" => net.pc \in {"sleep", "exited"}
  /\ NoStale(al) \/ main = "dead" \/ (net.pc = "prepare" /\ net.job[2])

(* A job the pool has just sent. *)
Sent(job) ==
  \E j \in Jobs, clean \in CleanFlags :
    job = <<j, clean>> /\ (clean /\ ~CleanRenotify => \A e \in Ex1s : al.work # <<j, e>>)

(* What a callback launches was sent now or kept until the session was ready. *)
LEMMA CallbackJobs ==
  ASSUME IInv,
         OnAuthorized \/ (\E e \in Ex1s : OnSubscribed(e))
           \/ \E j \in Jobs, clean \in CleanFlags : OnJob(j, clean)
  PROVE  /\ \/ net' = net
            \/ /\ net'.pc = "join_cpu" /\ net'.op = "launch" /\ session'.authorized
               /\ net'.job = session.pending \/ Sent(net'.job)
         /\ session'.pending \in {session.pending, None} \/ Sent(session'.pending)
         /\ (session.pending # None => ~(session.subscribed /\ session.authorized))
              => (session'.pending # None => ~(session'.subscribed /\ session'.authorized))
  <1>1. /\ session \in [subscribed : BOOLEAN, authorized : BOOLEAN, ex1 : Ex1s \cup {None},
                         pending : (Jobs \X BOOLEAN) \cup {None}]
        /\ net.pc = "idle"
    BY NetFields, CallbackNet
  <1>2. ASSUME NEW job, NEW sub, NEW auth, LaunchOrIdle(job, sub, auth)
        PROVE  \/ net' = net
               \/ sub /\ auth /\ net'.pc = "join_cpu" /\ net'.op = "launch" /\ net'.job = job
    BY <1>2 DEF LaunchOrIdle, BeginStop
  <1>3. CASE OnAuthorized
    <2>1. /\ session'.authorized /\ session'.subscribed = session.subscribed
          /\ session'.pending = IF session.subscribed THEN None ELSE session.pending
      BY <1>1, <1>3 DEF OnAuthorized
    <2>2. LaunchOrIdle(session.pending, session.subscribed, TRUE)
      BY <1>3 DEF OnAuthorized
    <2> QED BY <1>2, <2>1, <2>2
  <1>4. CASE \E e \in Ex1s : OnSubscribed(e)
    <2>1. /\ session'.authorized = session.authorized /\ session'.subscribed
          /\ session'.pending = IF session.authorized THEN None ELSE session.pending
      BY <1>1, <1>4 DEF OnSubscribed
    <2>2. LaunchOrIdle(session.pending, TRUE, session.authorized)
      BY <1>4 DEF OnSubscribed
    <2> QED BY <1>2, <2>1, <2>2
  <1>5. CASE \E j \in Jobs, clean \in CleanFlags : OnJob(j, clean)
    <2>1. PICK j \in Jobs, clean \in CleanFlags : OnJob(j, clean)
      BY <1>5
    <2>2. Sent(<<j, clean>>)
      BY <2>1 DEF OnJob, Sent
    <2>3. /\ session'.authorized = session.authorized /\ session'.subscribed = session.subscribed
          /\ session'.pending = IF session.subscribed /\ session.authorized THEN session.pending
                                ELSE <<j, clean>>
      BY <1>1, <2>1 DEF OnJob
    <2>4. LaunchOrIdle(<<j, clean>>, session.subscribed, session.authorized)
      BY <2>1 DEF OnJob
    <2> DEFINE job == <<j, clean>>
    <2> HIDE DEF job
    <2> QED BY <1>2, <2>2, <2>3, <2>4 DEF job
  <1> QED BY <1>3, <1>4, <1>5

(* A worker stays within the work it was started for. *)
LEMMA WorkerWork ==
  ASSUME IInv, (\E t \in Threads : Worker(t) /\ ~CpuExhausted(t)) \/ GpuExhausted \/ GpuFail
  PROVE  al'.work = al.work
  <1>1. al \in Allocator /\ Good(al)
    BY IInvGood DEF Good
  <1>2. CASE GpuExhausted
    <2> DEFINE m == HalfCompleted(al, thr[Gpu].id)
    <2>1. m \in Allocator /\ Continues(al, m) /\ al' = Release(m, thr[Gpu].id)
      BY <1>1, <1>2, HalfCompletedGood, ProgressHistory DEF Good, GpuExhausted
    <2> HIDE DEF m
    <2>2. SameHistory(m, al')
      BY <2>1, StatusHistory
    <2> QED BY <2>1, <2>2 DEF Continues, SameHistory
  <1>3. CASE GpuFail
    BY <1>1, <1>3, StatusHistory DEF GpuFail, SameHistory
  <1>4. ASSUME NEW t \in Threads, Worker(t), ~CpuExhausted(t) PROVE al'.work = al.work
    <2>1. CASE Check(t) \/ AcquireNone(t)
      BY <2>1 DEF Check, AcquireNone
    <2>2. CASE AcquireUnit(t) \/ ReleaseUnit(t)
      <3>1. SameHistory(al, al')
        BY <1>1, <2>2, StatusHistory DEF AcquireUnit, ReleaseUnit
      <3> QED BY <3>1 DEF SameHistory
    <2>3. CASE Hash(t) \/ LeaveLoop(t) \/ CompleteUnit(t)
      <3>1. UNCHANGED al \/ Continues(al, al')
        BY <1>1, <2>3, ProgressHistory DEF Hash, LeaveLoop, CompleteUnit
      <3> QED BY <3>1 DEF Continues
    <2> QED BY <1>4, <2>1, <2>2, <2>3 DEF Worker
  <1> QED BY <1>2, <1>3, <1>4

(* No clean_jobs: every step keeps every unit. *)
LEMMA NextKeepsAll ==
  ASSUME IInv, CleanFlags \subseteq {FALSE}, KeepsAll, [Next]_vars
  PROVE  KeepsAll'
  <1>1. /\ snap \in [Savers -> Allocator \cup {None}] /\ al \in Allocator /\ disk \in Allocator
        /\ disk.units \in SUBSET Unit
    BY IInvGood, GoodParts DEF IInv, TypeOK
  <1>2. CASE (\E t \in Threads : Worker(t) /\ ~CpuExhausted(t)) \/ GpuExhausted \/ GpuFail
    <2>1. NoStale(al') /\ UNCHANGED <<disk, snap, net, session>>
      BY <1>2, WorkerNoStale, WorkerRuns DEF KeepsAll
    <2> QED BY <2>1 DEF KeepsAll, NoStale
  <1>3. CASE Boot(disk) /\ UNCHANGED disk
    <2>1. al' = LoadExisting(disk) /\ snap' = [p \in Savers |-> None] /\ net'.job = None
          /\ session'.pending = None
      BY <1>3 DEF Boot
    <2>2. NoStale(al')
      BY <1>1, <2>1 DEF KeepsAll, NoStale, LoadExisting, Allocator, Unit
    <2> QED BY <1>3, <2>1, <2>2 DEF KeepsAll, NoStale
  <1>4. CASE NetJoinGpu
    <2>1. /\ net'.job = net.job /\ session'.pending = session.pending /\ net.pc = "join_gpu"
          /\ UNCHANGED <<disk, snap>> /\ (al' = al \/ (net.op = "launch" /\ net.job[2]))
      BY <1>4, NetFields DEF NetJoinGpu
    <2>2. net.op = "launch" => net.job # None
      BY <2>1, NetFields DEF LaunchHasWork, Launching
    <2>3. UNCHANGED al
      BY <2>1, <2>2 DEF KeepsAll
    <2> QED BY <2>1, <2>3 DEF KeepsAll, NoStale
  <1>5. CASE Prepare \/ PrepareOverflow
    <2>1. net.pc = "prepare" /\ LaunchedWork \in Work /\ Good(al) /\ generation \in Nat
      BY <1>5, AtPrepare, IInvGood, NetFields DEF Prepare, PrepareOverflow
    <2>2. NoStale(al')
      BY <1>5, <2>1, PrepareNoStale DEF Prepare, PrepareOverflow
    <2>3. UNCHANGED <<disk, snap, session>> /\ net'.job \in {net.job, None}
      BY <1>5, PrepareNet
    <2> QED BY <2>2, <2>3 DEF KeepsAll, NoStale
  <1>6. CASE OnAuthorized \/ (\E e \in Ex1s : OnSubscribed(e))
               \/ \E j \in Jobs, clean \in CleanFlags : OnJob(j, clean)
    <2>1. ASSUME NEW job, Sent(job) PROVE job[2] = FALSE
      <3>1. PICK j \in Jobs, clean \in CleanFlags : job = <<j, clean>>
        BY <2>1 DEF Sent
      <3>2. clean = FALSE
        BY <3>1
      <3> QED BY <3>1, <3>2
    <2>2. net'.job \in {net.job, session.pending} \/ Sent(net'.job)
      BY <1>6, CallbackJobs
    <2>3. session'.pending \in {session.pending, None} \/ Sent(session'.pending)
      BY <1>6, CallbackJobs
    <2>4. UNCHANGED <<al, disk, snap>>
      BY <1>6, CallbackNet
    <2> QED BY <2>1, <2>2, <2>3, <2>4 DEF KeepsAll, NoStale
  <1>7. CASE Connect \/ NetJoinCpu \/ NetExit \/ Disconnect \/ StartCpu \/ StartGpu
    <2>1. UNCHANGED <<al, disk, snap, session>> /\ net'.job \in {net.job, None}
      BY <1>7, NetFields
         DEF Connect, NetJoinCpu, NetExit, Disconnect, StartCpu, StartGpu, BeginStop
    <2> QED BY <2>1 DEF KeepsAll, NoStale
  <1>8. CASE NetSnapshot \/ PeriodicSnapshot \/ FinalSnapshot
    <2>1. PICK p \in Savers : snap' = [snap EXCEPT ![p] = al]
      BY <1>8 DEF NetSnapshot, PeriodicSnapshot, FinalSnapshot, TakeSnapshot, Savers
    <2>2. \A q \in Savers : snap'[q] \in {al, snap[q]}
      BY <1>1, <2>1
    <2>3. UNCHANGED <<al, disk, session>> /\ net'.job = net.job
      BY <1>8, NetFields DEF NetSnapshot, PeriodicSnapshot, FinalSnapshot
    <2> QED BY <2>2, <2>3 DEF KeepsAll, NoStale
  <1>9. CASE NetSave \/ PeriodicSave \/ FinalSave
    <2>1. PICK p \in Savers : WriteSnapshot(p)
      BY <1>9 DEF NetSave, PeriodicSave, FinalSave, Savers
    <2>2. disk' \in {disk, snap[p]} /\ snap[p] # None /\ \A q \in Savers : snap'[q] \in {None, snap[q]}
      BY <1>1, <2>1 DEF WriteSnapshot
    <2>3. UNCHANGED <<al, session>> /\ net'.job = net.job
      BY <1>9, NetFields DEF NetSave, PeriodicSave, FinalSave
    <2> QED BY <2>1, <2>2, <2>3 DEF KeepsAll, NoStale
  <1>10. CASE Shutdown \/ MainStopLate \/ MainJoinCpu \/ MainJoinGpu \/ MainJoinNet \/ UNCHANGED vars
    BY <1>10 DEF Shutdown, MainStopLate, MainJoinCpu, MainJoinGpu, MainJoinNet, vars, KeepsAll, NoStale
  <1> QED BY <1>2, <1>3, <1>4, <1>5, <1>6, <1>7, <1>8, <1>9, <1>10, NextCases DEF Control

(* Clean jobs are new jobs, and no restart: what is abandoned is replaced. *)
LEMMA NextReplaces ==
  ASSUME IInv, ~CleanRenotify, MaxCrashes = 0, StaleInv, Replaces, [Next]_vars
  PROVE  Replaces'
  <1>1. ~Crash
    BY NetFields DEF Crash
  <1>2. CASE (\E t \in Threads : Worker(t) /\ ~CpuExhausted(t)) \/ GpuExhausted \/ GpuFail
    <2>1. NoStale(al)
      BY <1>2, WorkerRuns DEF StaleInv
    <2>2. NoStale(al') /\ UNCHANGED <<main, net, session>> /\ al'.work = al.work
      BY <1>2, <2>1, WorkerNoStale, WorkerRuns, WorkerWork
    <2> QED BY <2>2 DEF Replaces, Another, Launching
  <1>3. CASE \E t \in Threads : CpuExhausted(t)
    <2>1. net'.pc = "sleep" /\ session'.pending = None /\ main' = "dead"
      BY <1>3 DEF CpuExhausted, Boot
    <2> QED BY <2>1 DEF Replaces, Another, Launching
  <1>4. CASE NetJoinGpu
    <2>1. /\ net.pc = "join_gpu" /\ net'.job = net.job /\ net'.op = net.op /\ UNCHANGED main
          /\ session'.pending = session.pending /\ net.op \in {"launch", "drop"}
      BY <1>4, NetFields DEF NetJoinGpu
    <2>2. CASE net.op = "drop"
      <3>1. net'.pc = "snap" /\ UNCHANGED al /\ ~session'.authorized
        BY <1>4, <2>2, NetFields DEF NetJoinGpu
      <3> QED BY <2>1, <3>1 DEF Replaces, Another, Launching, NoStale
    <2>3. CASE net.op = "launch"
      <3>1. /\ net'.pc = "prepare" /\ UNCHANGED session /\ al' = IF net.job[2] THEN MarkAllStale(al) ELSE al
        BY <1>4, <2>1, <2>3, NetFields DEF NetJoinGpu
      <3>2. al'.work = al.work
        BY <3>1, IInvGood, StatusHistory DEF Good, SameHistory
      <3>3. main # "dead"
        BY <2>1 DEF Replaces
      <3>4. NoStale(al') \/ net'.job[2]
        BY <2>1, <3>1, <3>3 DEF Replaces
      <3> QED BY <2>1, <2>3, <3>1, <3>2, <3>3, <3>4 DEF Replaces, Another, Launching
    <2> QED BY <2>1, <2>2, <2>3
  <1>5. CASE Prepare \/ PrepareOverflow
    <2>1. net.pc = "prepare" /\ LaunchedWork \in Work /\ Good(al) /\ generation \in Nat
          /\ net.op = "launch" /\ session.subscribed
      BY <1>5, AtPrepare, IInvGood, NetFields DEF Prepare, PrepareOverflow
    <2>2. NoStale(al')
      BY <1>5, <2>1, PrepareNoStale DEF Prepare, PrepareOverflow
    <2>3. session.authorized /\ session.pending = None /\ main # "dead"
      BY <2>1 DEF Replaces, Launching
    <2>4. /\ UNCHANGED <<session, main>>
          /\ \/ net'.pc \in {"idle", "start_cpu"}
             \/ net'.pc = "join_cpu" /\ net'.job = None /\ net'.op = "drop"
      BY <1>5, PrepareNet
    <2> QED BY <2>2, <2>3, <2>4 DEF Replaces, Another, Launching
  <1>6. CASE OnAuthorized \/ (\E e \in Ex1s : OnSubscribed(e))
               \/ \E j \in Jobs, clean \in CleanFlags : OnJob(j, clean)
    <2>1. \A job : Sent(job) => Another(job)
      BY DEF Sent, Another
    <2>2. UNCHANGED <<al, main>> /\ net.pc = "idle"
      BY <1>6, CallbackNet
    <2>3. main # "dead" /\ NoStale(al)
      BY <2>2 DEF Replaces
    <2>4. Another(session'.pending) /\ Another(session.pending)
      <3>1. session'.pending \in {session.pending, None} \/ Sent(session'.pending)
        BY <1>6, CallbackJobs
      <3> QED BY <2>1, <3>1 DEF Replaces, Another
    <2>5. session'.pending # None => ~(session'.subscribed /\ session'.authorized)
      BY <1>6, CallbackJobs DEF Replaces
    <2>6. \/ net' = net
          \/ net'.pc = "join_cpu" /\ session'.authorized /\ Another(net'.job)
      BY <1>6, <2>1, <2>4, CallbackJobs
    <2>7. Launching' => session'.authorized
      BY <2>2, <2>6 DEF Launching
    <2> QED BY <2>2, <2>3, <2>4, <2>5, <2>6, <2>7 DEF Replaces, Another, NoStale
  <1>7. CASE Connect \/ NetJoinCpu \/ NetExit \/ Disconnect
    <2>1. /\ UNCHANGED <<al, session, main>>
          /\ \/ Connect /\ net'.pc = "idle" /\ net.pc = "sleep"
             \/ net.pc = "join_cpu" /\ net'.pc = "join_gpu" /\ net'.job = net.job /\ net'.op = net.op
             \/ net'.pc = "exited" /\ net.pc = "sleep"
             \/ Disconnect /\ net'.pc = "join_cpu" /\ net'.job = None /\ net'.op = "drop"
      BY <1>7, NetFields DEF Connect, NetJoinCpu, NetExit, Disconnect, BeginStop
    <2>2. main = "dead" => net'.pc = "exited" /\ net.pc = "sleep"
      BY <2>1 DEF Replaces, Connect, Disconnect, Stopping
    <2>3. net.pc # "prepare"
      BY <2>1 DEF Disconnect
    <2> QED BY <2>1, <2>2, <2>3 DEF Replaces, Another, Launching, NoStale
  <1>8. CASE NetSnapshot \/ NetSave \/ StartCpu \/ StartGpu
    <2>1. /\ UNCHANGED <<al, session, main>> /\ net'.op = net.op
          /\ \/ net.pc \in {"snap", "save"} /\ net'.pc \in {"save", "idle", "sleep", "exited"}
             \/ net.pc \in {"start_cpu", "start_gpu"} /\ net'.pc \in {"start_gpu", "snap"}
      BY <1>8, NetFields DEF NetSnapshot, NetSave, StartCpu, StartGpu
    <2>2. main # "dead" /\ NoStale(al)
      BY <2>1 DEF Replaces
    <2> QED BY <2>1, <2>2 DEF Replaces, Another, Launching, NoStale
  <1>9. CASE \/ PeriodicSnapshot \/ PeriodicSave \/ FinalSnapshot \/ FinalSave \/ Shutdown
             \/ MainStopLate \/ MainJoinCpu \/ MainJoinGpu \/ MainJoinNet \/ UNCHANGED vars
    <2>1. UNCHANGED <<al, net, session>> /\ (main' # main => main # "dead" /\ main' # "dead")
      BY <1>9 DEF PeriodicSnapshot, PeriodicSave, FinalSnapshot, FinalSave, Shutdown,
                  MainStopLate, MainJoinCpu, MainJoinGpu, MainJoinNet, vars
    <2> QED BY <2>1 DEF Replaces, Another, Launching, NoStale
  <1> QED BY <1>1, <1>2, <1>3, <1>4, <1>5, <1>6, <1>7, <1>8, <1>9
          DEF Next, NetThread, MainThread, Idling

(* A pool that keeps to its work never returns to an abandoned one. *)
THEOREM QuietPoolNeverReturns ==
  ASSUME QuietPool
  PROVE  Spec => []NoReturn
  <1>1. CASE CleanFlags \subseteq {FALSE}
    <2>1. Init => KeepsAll
      BY DEF Init, KeepsAll, NoStale, EmptyAllocator
    <2>2. IInv /\ KeepsAll /\ [Next]_vars => KeepsAll'
      BY <1>1, NextKeepsAll
    <2>3. KeepsAll => NoReturn
      BY DEF KeepsAll, NoReturn
    <2> QED BY <2>1, <2>2, <2>3, InvariantHolds, PTL DEF Spec
  <1>2. CASE ~CleanRenotify /\ MaxCrashes = 0
    <2>1. Init => Replaces /\ StaleInv
      BY NoThreadType DEF Init, Replaces, Another, Launching, StaleInv, NoStale, EmptyAllocator
    <2>2. IInv /\ StaleInv /\ Replaces /\ [Next]_vars => Replaces' /\ StaleInv'
      BY <1>2, NextReplaces, NextStale
    <2>3. IInv /\ Replaces => NoReturn
      <3>1. SUFFICES ASSUME IInv, Replaces, net.pc = "prepare", al.work = LaunchedWork
                     PROVE  NoStale(al)
        BY DEF NoReturn
      <3>2. session.ex1 \in Ex1s /\ net.job # None
        BY <3>1, AtPrepare, NetFields DEF LaunchHasWork, Launching
      <3>3. ~net.job[2] /\ main # "dead"
        BY <3>1, <3>2 DEF Replaces, Another, LaunchedWork
      <3> QED BY <3>1, <3>3 DEF Replaces
    <2> QED BY <2>1, <2>2, <2>3, InvariantHolds, PTL DEF Spec
  <1> QED BY <1>1, <1>2 DEF QuietPool

(* The promises of the README for a pool that keeps to its work: no recorded     *)
(* nonce is given out again, none is lost, the record and what was hashed agree, *)
(* and a clean stop resumes where it stopped.                                    *)
THEOREM LiveMinerIsExact ==
  ASSUME QuietPool
  PROVE  Spec => [](NeverReallocated /\ NeverForgotten /\ RecordedWasHashed /\ CleanStopIsExact)
  <1>1. Spec => []NoReturn
    BY QuietPoolNeverReturns
  <1> QED BY <1>1, NeverReallocatedHolds, NeverForgottenHolds, RecordedWasHashedHolds,
             CleanStopIsExactHolds, PTL

-----------------------------------------------------------------------------
(***************************************************************************)
(* The file the miner's state is saved to: StateStore implements AtomicFile, *)
(* for every set of states and every number of parts and attempts, on        *)
(* Windows through power failures and elsewhere when only the process can be *)
(* killed.                                                                 *)
(***************************************************************************)
StoreIndInv == StoreTypeOK /\ StoreInv

Supported == ~StreamPower

(* A content of Parts parts, all of the same state, is that state seen. *)
LEMMA WholeSeen ==
  ASSUME NEW c \in Seq(States), NEW s \in States,
         Len(c) = Parts, \A i \in 1..Len(c) : c[i] = s
  PROVE  c # NoFile /\ Whole(c) /\ c[1] = s
<1>1. 1 \in 1..Parts
  BY StoreAssumption
<1>2. c[1] = s
  BY <1>1
<1>3. c # NoFile
  BY StoreAssumption
<1>. QED
  BY <1>1, <1>2, <1>3 DEF Whole

(* StoreIndInv holds initially. *)
LEMMA StoreInitInv == StoreInit => StoreIndInv
<1>. SUFFICES ASSUME StoreInit PROVE StoreIndInv
  OBVIOUS
<1>1. attempt \in 0..(Attempts - 1)
  BY StoreAssumption DEF StoreInit
<1>2. flushed \in BOOLEAN
  BY DEF StoreInit
<1>3. StoreTypeOK
  BY <1>1, <1>2 DEF StoreInit, StoreTypeOK, Contents
<1>4. StoreInv
  BY DEF StoreInit, StoreInv
<1>. QED
  BY <1>3, <1>4 DEF StoreIndInv

(* The steps of save that leave the file alone keep StoreIndInv. *)
LEMMA SavingInv ==
  ASSUME StoreIndInv,
         Load \/ (\E s \in States : BeginSave(s)) \/ OpenTemporary \/ Write \/ Flush \/ Retry \/ Throw
  PROVE  StoreIndInv'
<1>. USE StoreAssumption DEF StoreIndInv, StoreTypeOK, StoreInv, Contents
<1>1. CASE Load
  BY <1>1 DEF Load, Whole
<1>2. ASSUME NEW s \in States, BeginSave(s) PROVE StoreIndInv'
  BY <1>2 DEF BeginSave, Whole
<1>3. CASE OpenTemporary
  <2>1. flushed' \in BOOLEAN
    BY <1>3 DEF OpenTemporary
  <2>2. tmp' = <<>>
    BY <1>3 DEF OpenTemporary
  <2>3. <<>> \in Seq(States) /\ Len(<<>>) = 0
    OBVIOUS
  <2>4. tmp' \in Seq(States) /\ tmp' # NoFile /\ Len(tmp') = 0
    BY <2>2, <2>3
  <2>5. StoreTypeOK'
    BY <1>3, <2>1, <2>4 DEF OpenTemporary
  <2>6. StoreInv'
    BY <1>3, <2>4 DEF OpenTemporary, Whole
  <2>. QED
    BY <2>5, <2>6
<1>4. CASE Write
  <2>1. tmp \in Seq(States) /\ req \in States /\ tmp # NoFile
    BY <1>4 DEF Write
  <2>2. tmp' \in Seq(States) /\ Len(tmp') = Len(tmp) + 1
    BY <1>4, <2>1 DEF Write
  <2>3. \A i \in 1..Len(tmp') : tmp'[i] = req
    BY <1>4, <2>1, <2>2 DEF Write
  <2>4. tmp' # NoFile /\ Len(tmp') <= Parts
    BY <1>4, <2>1, <2>2 DEF Write
  <2>. QED
    BY <1>4, <2>2, <2>3, <2>4 DEF Write, Whole
<1>5. CASE Flush
  BY <1>5 DEF Flush, Whole
<1>6. CASE Retry
  <2>1. attempt' \in 0..(Attempts - 1)
    BY <1>6 DEF Retry
  <2>2. StoreTypeOK'
    BY <1>6, <2>1 DEF Retry
  <2>3. StoreInv'
    BY <1>6 DEF Retry, Whole
  <2>. QED
    BY <2>2, <2>3
<1>7. CASE Throw
  BY <1>7 DEF Throw, Whole
<1>. QED
  BY <1>1, <1>2, <1>3, <1>4, <1>5, <1>6, <1>7

(* The rename keeps StoreIndInv: it shows all the parts of the state being saved. *)
LEMMA ReplaceInv ==
  ASSUME StoreIndInv, Replace
  PROVE  StoreIndInv' /\ Whole(tmp) /\ tmp[1] = req /\ req \in States /\ tmp # NoFile
<1>. USE DEF StoreIndInv, StoreTypeOK, StoreInv
<1>1. /\ tmp \in Seq(States) /\ req \in States /\ Len(tmp) = Parts
      /\ \A i \in 1..Len(tmp) : tmp[i] = req
  BY DEF Replace, Contents
<1>2. tmp # NoFile /\ Whole(tmp) /\ tmp[1] = req
  BY <1>1, WholeSeen
<1>3. windows => flushed
  BY DEF Replace
<1>4. (file = NoFile \/ Whole(file))'
  BY <1>2 DEF Replace, Whole
<1>. QED
  BY <1>1, <1>2, <1>3, <1>4, StoreAssumption DEF Replace, Contents

(* What the environment does keeps StoreIndInv where the build supports it. *)
LEMMA EnvironmentInv ==
  ASSUME StoreIndInv, Supported, WriteBack \/ Kill \/ PowerFailure
  PROVE  StoreIndInv' /\ file' = file
<1>. USE StoreAssumption DEF StoreIndInv, StoreTypeOK, StoreInv, Contents
<1>1. CASE WriteBack
  BY <1>1 DEF WriteBack, Whole
<1>2. CASE Kill
  BY <1>2 DEF Kill, Whole
<1>3. CASE PowerFailure
  <2>1. file = dur
    BY <1>3 DEF Supported, PowerFailure
  <2>2. file' = file /\ dur' = dur
    BY <1>3, <2>1 DEF PowerFailure, Survivors
  <2>3. attempt' = 0 /\ flushed' = FALSE /\ windows' = windows
    BY <1>3 DEF PowerFailure
  <2>4. attempt' \in 0..(Attempts - 1)
    BY <2>3
  <2>5. tmp' \in Contents /\ req' \in States \cup {NoFile} /\ stage' = "boot"
    BY <1>3 DEF PowerFailure
  <2>6. StoreTypeOK'
    BY <2>2, <2>3, <2>4, <2>5
  <2>7. StoreInv'
    BY <1>3, <2>2 DEF PowerFailure, Whole
  <2>. QED
    BY <2>2, <2>6, <2>7
<1>. QED
  BY <1>1, <1>2, <1>3

(***************************************************************************)
(* The invariant of the store: the file is always absent or one whole       *)
(* state, whatever save, its errors, a kill or a power failure do.         *)
(***************************************************************************)
THEOREM StoreInvHolds ==
  ASSUME Supported
  PROVE  StoreSpec => [](StoreTypeOK /\ StoreInv)
<1>1. StoreIndInv /\ [StoreNext]_storeVars => StoreIndInv'
  <2>1. CASE UNCHANGED storeVars
    BY <2>1 DEF storeVars, StoreIndInv, StoreTypeOK, StoreInv, Whole
  <2>2. ASSUME StoreIndInv, StoreNext PROVE StoreIndInv'
    BY <2>2, SavingInv, ReplaceInv, EnvironmentInv DEF StoreNext
  <2>. QED
    BY <2>1, <2>2
<1>. QED
  BY <1>1, StoreInitInv, PTL DEF StoreSpec, StoreIndInv

(***************************************************************************)
(* load_or never meets a file it cannot parse.                             *)
(***************************************************************************)
THEOREM NeverRefusedHolds ==
  ASSUME Supported
  PROVE  StoreSpec => []NeverRefused
<1>1. StoreTypeOK /\ StoreInv => NeverRefused
  BY DEF StoreInv, NeverRefused
<1>. QED
  BY <1>1, StoreInvHolds, PTL

(***************************************************************************)
(* Every step of the store is a step of AtomicFile or changes nothing its   *)
(* users see: the rename is the commit, an error or a crash gives up.       *)
(***************************************************************************)
LEMMA StepRefines ==
  ASSUME StoreIndInv, Supported, [StoreNext]_storeVars
  PROVE  [Abstract!Next]_(Abstract!vars)
<1>. USE DEF Abstract!Next, Abstract!vars
<1>1. CASE UNCHANGED storeVars
  BY <1>1 DEF storeVars, Seen, Whole
<1>2. CASE Load \/ OpenTemporary \/ Write \/ Flush \/ Retry
  <2>1. file' = file /\ req' = req
    BY <1>2 DEF Load, OpenTemporary, Write, Flush, Retry
  <2>. QED
    BY <2>1 DEF Seen, Whole
<1>3. ASSUME NEW s \in States, BeginSave(s) PROVE Abstract!Begin(s)
  <2>1. req = NoFile
    BY <1>3 DEF BeginSave, StoreIndInv, StoreInv
  <2>2. file' = file /\ req' = s
    BY <1>3 DEF BeginSave
  <2>. QED
    BY <2>1, <2>2 DEF Abstract!Begin, Seen, Whole
<1>4. CASE Throw
  <2>1. req # NoFile /\ req' = NoFile /\ file' = file
    BY <1>4 DEF Throw, StoreIndInv, StoreInv
  <2>. QED
    BY <2>1 DEF Abstract!GiveUp, Seen, Whole
<1>5. CASE Replace
  <2>1. Whole(tmp) /\ tmp[1] = req /\ req \in States /\ tmp # NoFile
    BY <1>5, ReplaceInv
  <2>2. file' = tmp /\ req' = NoFile
    BY <1>5 DEF Replace
  <2>3. Seen' = req
    BY <2>1, <2>2 DEF Seen, Whole
  <2>. QED
    BY <2>1, <2>2, <2>3, StoreAssumption DEF Abstract!Commit
<1>6. CASE WriteBack \/ Kill \/ PowerFailure
  <2>1. file' = file
    BY <1>6, EnvironmentInv
  <2>2. req' = req \/ req' = NoFile
    BY <1>6 DEF WriteBack, Kill, PowerFailure
  <2>. QED
    BY <2>1, <2>2 DEF Abstract!GiveUp, Seen, Whole
<1>. QED
  BY <1>1, <1>2, <1>3, <1>4, <1>5, <1>6 DEF StoreNext

(***************************************************************************)
(* StateStore implements the atomic file its users rely on, on Windows      *)
(* through power failures and elsewhere through kills.                     *)
(***************************************************************************)
THEOREM ImplementsAtomicFileHolds ==
  ASSUME Supported
  PROVE  StoreSpec => ImplementsAtomicFile
<1>1. StoreInit => Abstract!Init
  BY DEF StoreInit, Abstract!Init, Seen
<1>2. StoreIndInv /\ [StoreNext]_storeVars => [Abstract!Next]_(Abstract!vars)
  BY StepRefines
<1>3. StoreSpec => []StoreIndInv
  BY StoreInvHolds DEF StoreIndInv
<1>. QED
  BY <1>1, <1>2, <1>3, PTL DEF StoreSpec, ImplementsAtomicFile, Abstract!Spec
=============================================================================
