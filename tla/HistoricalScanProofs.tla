------------------------- MODULE HistoricalScanProofs -------------------------
(***************************************************************************)
(* Theorems about HistoricalScan, for any number of threads, headers,       *)
(* ranges, hits and processes: no hit of a range is lost between two        *)
(* processes, and a clean stop resumes exactly where it stopped when the    *)
(* ids of the units tell them apart.                                       *)
(***************************************************************************)
EXTENDS HistoricalScan, TLAPS, WellFoundedInduction

-----------------------------------------------------------------------------
(* The division of the range among the threads. *)

(* Integer division is monotonic, and undoes a product. *)
LEMMA Division ==
  ASSUME NEW c \in Nat \ {0}
  PROVE  /\ \A a \in Nat : a \div c \in Nat
         /\ \A a, b \in Nat : a <= b => a \div c <= b \div c
         /\ \A d \in Nat : (d * c) \div c = d /\ (d * 0) \div c = 0
OBVIOUS

(* The bounds of the units are in order, from the start of the range to its end. *)
LEMMA CutsInOrder ==
  ASSUME NEW r \in Ranges
  PROVE  /\ r[1] \in Nat /\ r[2] \in Nat /\ r[1] < r[2]
         /\ \A i \in Nat : Cut(r, i) \in Nat
         /\ Cut(r, 0) = r[1] /\ Cut(r, Count) = r[2]
         /\ \A i, j \in Nat : i <= j => Cut(r, i) <= Cut(r, j)
  <1>1. r[1] \in Nat /\ r[2] \in Nat /\ r[1] < r[2] /\ Count \in Nat \ {0}
    BY ScanAssumption
  <1> DEFINE d == r[2] - r[1]
  <1>2. d \in Nat /\ r[1] + d = r[2]
    BY <1>1
  <1>3. \A i \in Nat : d * i \in Nat
    BY <1>2
  <1>4. \A i, j \in Nat : i <= j => d * i <= d * j
    BY <1>2
  <1>5. \A i \in Nat : Cut(r, i) = r[1] + (d * i) \div Count
    BY DEF Cut
  <1> HIDE DEF d
  <1>6. \A i \in Nat : Cut(r, i) \in Nat
    <2>1. \A i \in Nat : (d * i) \div Count \in Nat
      BY <1>1, <1>3, Division
    <2> QED BY <1>1, <1>5, <2>1
  <1>7. Cut(r, 0) = r[1] /\ Cut(r, Count) = r[2]
    <2>1. (d * 0) \div Count = 0 /\ (d * Count) \div Count = d
      BY <1>1, <1>2, Division
    <2>2. Cut(r, 0) = r[1] + (d * 0) \div Count /\ Cut(r, Count) = r[1] + (d * Count) \div Count
      BY <1>1, <1>5, Zenon
    <2> QED BY <1>1, <1>2, <2>1, <2>2
  <1>8. ASSUME NEW i \in Nat, NEW j \in Nat, i <= j
        PROVE  Cut(r, i) <= Cut(r, j)
    <2>1. (d * i) \div Count <= (d * j) \div Count
      BY <1>1, <1>3, <1>4, <1>8, Division
    <2>2. (d * i) \div Count \in Nat /\ (d * j) \div Count \in Nat
      BY <1>1, <1>3, Division
    <2> QED BY <1>1, <1>5, <2>1, <2>2
  <1> QED BY <1>1, <1>6, <1>7, <1>8

(* Every nonce of the range is in one of the pieces. *)
LEMMA CutsCover ==
  ASSUME NEW r \in Ranges, NEW n \in Nonces(r)
  PROVE  \E i \in Threads : Cut(r, i - 1) <= n /\ n < Cut(r, i)
  <1>1. n \in Nat /\ r[1] <= n /\ n < r[2] /\ Count \in Nat \ {0}
    BY CutsInOrder, ScanAssumption DEF Nonces
  <1> DEFINE S == {i \in Nat : n < Cut(r, i)}
  <1>2. Count \in S
    BY <1>1, CutsInOrder
  <1>3. PICK i \in S : \A j \in S : ~(<<j, i>> \in OpToRel(<, Nat))
    BY <1>2, NatLessThanWellFounded, WFMin
  <1>4. \A j \in S : ~(j < i)
    BY <1>3 DEF OpToRel
  <1>5. i # 0
    BY <1>1, CutsInOrder
  <1>6. i - 1 \in Nat /\ i - 1 \notin S /\ i <= Count
    BY <1>1, <1>2, <1>4, <1>5
  <1>7. Cut(r, i - 1) \in Nat
    BY <1>6, CutsInOrder
  <1> QED BY <1>1, <1>5, <1>6, <1>7 DEF Threads

-----------------------------------------------------------------------------
(* The invariant. *)

Pcs == {"check", "acquire", "scan", "hash", "save", "settle", "done"}
Holding == {"scan", "hash", "save", "settle"}

ThreadState == [pc : Pcs, id : (Headers \X Threads) \cup {<<>>}, next : Nat, end : Nat,
                pending : Nat, stop : BOOLEAN]

GoodUnits(us) == us \in Seq(Unit) /\ \A i \in DOMAIN us : UnitOK(us[i])

(* The types of all variables. *)
Types ==
  /\ GoodUnits(units) /\ meta \in Metas
  /\ disk \in [units : Seq(Unit), meta : Metas] /\ GoodUnits(disk.units)
  /\ thr \in [Threads -> ThreadState]
  /\ \A t \in Threads : thr[t].next <= thr[t].end /\ thr[t].pending < Batch
  /\ found \in BOOLEAN /\ stopped \in BOOLEAN
  /\ main \in Running \cup {"off", "exited", "failed"}
  /\ saved \subseteq Headers \X Nat /\ hashed \subseteq Nat /\ runs \in Nat

(* Two open units have different ids and no nonce in common. *)
Apart(us) ==
  \A i, j \in DOMAIN us : Open(us[i]) /\ Open(us[j]) /\ i # j =>
    us[i].id # us[j].id /\ (us[i].end <= us[j].start \/ us[j].end <= us[i].start)

(* The open units are parts of the range. *)
Inside(us, m) ==
  \A i \in DOMAIN us : Open(us[i]) => m[2][1] <= us[i].start /\ us[i].end <= m[2][2]

HitsOf(m) == Hits[m[1]] \cap Nonces(m[2])

(* A hit of the range is still to be scanned, or saved, if there is one. *)
Kept(us, m) ==
  HitsOf(m) # {} => \/ HitsOf(m) \cap Waiting(us) # {}
                    \/ \E n \in HitsOf(m) : <<m[1], n>> \in saved

(* What the memory and the file say of the range they were prepared for. *)
Sound(us, m) == m # NoMeta => Apart(us) /\ Inside(us, m) /\ Kept(us, m)

Holds(t) == thr[t].pc \in Holding

(* Unit i is the one thread t scans; its cursor is at or behind the thread's. *)
Mine(t, i) ==
  /\ i \in DOMAIN units /\ units[i].status = "in_progress"
  /\ units[i].id = thr[t].id /\ units[i].end = thr[t].end /\ units[i].next <= thr[t].next

(* The thread went past a hit of unit i only after one was found. *)
NoHitBehind(t, i) ==
  \A n \in units[i].next..(thr[t].next - 1) : n \in Hits[Header] => found

HasUnit(t) == Holds(t) => \E i \in DOMAIN units : Mine(t, i) /\ NoHitBehind(t, i)

Alone == \A t, u \in Threads : Holds(t) /\ Holds(u) /\ thr[t].id = thr[u].id => t = u

AtNonce(t) ==
  /\ thr[t].pc \in {"hash", "save"} => thr[t].next < thr[t].end
  /\ thr[t].pc = "save" => IsHit(t) /\ found

ThreadsOK == Alone /\ \A t \in Threads : HasUnit(t) /\ AtNonce(t)

(* Of a solution that was found, one is on disk or being saved. *)
FoundIsSaved ==
  found => \/ \E t \in Threads : thr[t].pc = "save"
           \/ \E n \in HitsOf(meta) : <<Header, n>> \in saved

(* Where the main thread is tells what the others do. *)
MainOK ==
  /\ main # "off" => meta # NoMeta /\ FoundIsSaved
  /\ main \in {"save", "exited", "failed", "off"} => AllDone
  /\ main = "exited" => disk = [units |-> units, meta |-> meta]

SoundInv == Types /\ Sound(disk.units, disk.meta) /\ Sound(units, meta) /\ ThreadsOK /\ MainOK

-----------------------------------------------------------------------------
(* The units a process starts with. *)

(* What is waiting is what an open unit has left. *)
LEMMA WaitingIs ==
  ASSUME NEW us, NEW n
  PROVE  n \in Waiting(us) <=>
           \E i \in DOMAIN us : Open(us[i]) /\ n \in us[i].next..(us[i].end - 1)
BY DEF Waiting

(* The fields of a unit. *)
LEMMA UnitFields ==
  ASSUME NEW us, GoodUnits(us), NEW i \in DOMAIN us
  PROVE  /\ us[i] \in Unit /\ us[i].id \in Headers \X Threads
         /\ us[i].start \in Nat /\ us[i].end \in Nat /\ us[i].next \in Nat
         /\ us[i].status \in {"pending", "in_progress", "complete", "stale"}
         /\ us[i].start <= us[i].next /\ us[i].next <= us[i].end
BY DEF GoodUnits, UnitOK, Unit

(* load_existing gives a unit that was in progress back, and nothing else. *)
LEMMA LoadKeeps ==
  ASSUME NEW us, GoodUnits(us)
  PROVE  /\ GoodUnits(LoadExisting(us)) /\ DOMAIN LoadExisting(us) = DOMAIN us
         /\ \A i \in DOMAIN us :
              LET u == LoadExisting(us)[i]
              IN  /\ u.id = us[i].id /\ u.start = us[i].start /\ u.end = us[i].end
                  /\ u.next = us[i].next /\ (Open(u) <=> Open(us[i])) /\ u.status # "in_progress"
                  /\ u.status = "stale" <=> us[i].status = "stale"
         /\ Waiting(LoadExisting(us)) = Waiting(us)
  <1> DEFINE L == LoadExisting(us)
  <1>1. us \in Seq(Unit) /\ DOMAIN us = 1..Len(us) /\ Len(us) \in Nat
    BY DEF GoodUnits
  <1>2. DOMAIN L = DOMAIN us
    BY DEF LoadExisting
  <1>3. ASSUME NEW i \in DOMAIN us
        PROVE  /\ L[i] \in Unit /\ L[i].id = us[i].id /\ L[i].start = us[i].start
               /\ L[i].end = us[i].end /\ L[i].next = us[i].next
               /\ (Open(L[i]) <=> Open(us[i])) /\ L[i].status # "in_progress"
               /\ L[i].status = "stale" <=> us[i].status = "stale"
    <2>1. us[i] \in Unit
      BY <1>3, UnitFields
    <2>2. L[i] = IF us[i].status = "in_progress" THEN [us[i] EXCEPT !.status = "pending"] ELSE us[i]
      BY <1>3 DEF LoadExisting
    <2>3. CASE us[i].status = "in_progress"
      BY <2>1, <2>2, <2>3 DEF Unit, Open
    <2>4. CASE us[i].status # "in_progress"
      BY <2>1, <2>2, <2>4 DEF Unit, Open
    <2> QED BY <2>3, <2>4
  <1>4. L \in Seq(Unit)
    <2>1. L \in [1..Len(us) -> Unit]
      BY <1>1, <1>3 DEF LoadExisting
    <2> QED BY <1>1, <2>1
  <1>5. GoodUnits(L)
    BY <1>2, <1>3, <1>4, UnitFields DEF GoodUnits, UnitOK
  <1> HIDE DEF L
  <1>6. Waiting(L) = Waiting(us)
    <2>1. \A n : n \in Waiting(L) <=> n \in Waiting(us)
      BY <1>2, <1>3, WaitingIs
    <2> QED BY <2>1
  <1> QED BY <1>2, <1>3, <1>5, <1>6 DEF L

(* A range that is prepared anew: its units are the only open ones, and they
   have all of it to scan. *)
Fresh(P, us, h, r) ==
  /\ GoodUnits(P) /\ Apart(P) /\ Inside(P, <<h, r>>) /\ Waiting(P) = Nonces(r)
  /\ \A i \in DOMAIN P : P[i].status # "in_progress"
  /\ us = <<>> => \A i, j \in DOMAIN P : P[i].id = P[j].id => i = j
  /\ us = <<>> => \A i \in DOMAIN P : P[i].status = "pending" /\ P[i].id[1] = h
  /\ DOMAIN P # {}

(* prepare_historical divides the range among the threads. *)
LEMMA RangeIsCut ==
  ASSUME NEW us, GoodUnits(us), NEW h \in Headers, NEW r \in Ranges
  PROVE  Fresh(MarkStale(us) \o ScanUnits(h, r), us, h, r)
  <1> DEFINE M == MarkStale(us)
             S == ScanUnits(h, r)
             P == M \o S
             k == Len(us)
  <1>1. us \in Seq(Unit) /\ DOMAIN us = 1..k /\ k \in Nat /\ Count \in Nat \ {0}
    BY ScanAssumption DEF GoodUnits
  <1>2. ASSUME NEW i \in 1..k
        PROVE  M[i] \in Unit /\ UnitOK(M[i]) /\ ~Open(M[i]) /\ M[i].status # "in_progress"
    <2>1. us[i] \in Unit /\ UnitOK(us[i])
      BY <1>1, <1>2, UnitFields DEF GoodUnits
    <2>2. M[i] = IF us[i].status = "complete" THEN us[i] ELSE [us[i] EXCEPT !.status = "stale"]
      BY <1>1, <1>2 DEF MarkStale
    <2>3. CASE us[i].status = "complete"
      BY <2>1, <2>2, <2>3 DEF Unit, Open, UnitOK
    <2>4. CASE us[i].status # "complete"
      BY <2>1, <2>2, <2>4 DEF Unit, Open, UnitOK
    <2> QED BY <2>3, <2>4
  <1>3. M \in Seq(Unit) /\ Len(M) = k
    <2>1. M \in [1..k -> Unit]
      BY <1>1, <1>2 DEF MarkStale
    <2> QED BY <1>1, <2>1
  <1>4. ASSUME NEW i \in 1..Count
        PROVE  /\ i - 1 \in Nat /\ i \in Nat /\ S[i] \in Unit /\ UnitOK(S[i]) /\ S[i].id = <<h, i>>
               /\ S[i].start = Cut(r, i - 1) /\ S[i].next = Cut(r, i - 1) /\ S[i].end = Cut(r, i)
               /\ S[i].status = "pending"
    <2>1. i - 1 \in Nat /\ i \in Nat /\ i \in Threads
      BY <1>1, <1>4 DEF Threads
    <2>2. S[i] = [id |-> <<h, i>>, start |-> Cut(r, i - 1), end |-> Cut(r, i),
                  next |-> Cut(r, i - 1), status |-> "pending"]
      BY <2>1 DEF ScanUnits
    <2>3. Cut(r, i - 1) \in Nat /\ Cut(r, i) \in Nat /\ Cut(r, i - 1) <= Cut(r, i)
      BY <2>1, CutsInOrder
    <2> QED BY <2>1, <2>2, <2>3 DEF Unit, UnitOK
  <1>5. S \in Seq(Unit) /\ Len(S) = Count
    <2>1. S \in [1..Count -> Unit]
      BY <1>4 DEF ScanUnits, Threads
    <2> QED BY <1>1, <2>1
  <1> HIDE DEF M, S, k
  <1>6. /\ P \in Seq(Unit) /\ DOMAIN P = 1..(k + Count)
        /\ \A i \in 1..k : P[i] = M[i]
        /\ \A i \in (k + 1)..(k + Count) : i - k \in 1..Count /\ P[i] = S[i - k]
        /\ \A i \in 1..Count : i + k \in DOMAIN P /\ P[i + k] = S[i]
    BY <1>1, <1>3, <1>5
  <1> HIDE DEF P
  <1>7. \A i \in DOMAIN P : i \in 1..k \/ i \in (k + 1)..(k + Count)
    BY <1>1, <1>6
  <1>8. \A i \in DOMAIN P : UnitOK(P[i]) /\ P[i].status # "in_progress"
    <2> TAKE i \in DOMAIN P
    <2>1. CASE i \in 1..k
      BY <1>2, <1>6, <2>1
    <2>2. CASE i \in (k + 1)..(k + Count)
      BY <1>4, <1>6, <2>2
    <2> QED BY <1>7, <2>1, <2>2
  <1>9. \A i \in DOMAIN P : Open(P[i]) => i \in (k + 1)..(k + Count)
    BY <1>2, <1>6, <1>7
  <1>10. ASSUME NEW i \in (k + 1)..(k + Count)
         PROVE  /\ i - k \in 1..Count /\ i - k \in Nat /\ i - k - 1 \in Nat /\ i \in Nat
                /\ P[i].id = <<h, i - k>> /\ P[i].status = "pending"
                /\ P[i].start = Cut(r, i - k - 1) /\ P[i].end = Cut(r, i - k)
                /\ P[i].next = Cut(r, i - k - 1)
    <2>1. i - k \in 1..Count /\ P[i] = S[i - k] /\ i \in Nat
      BY <1>1, <1>6, <1>10
    <2> DEFINE j == i - k
    <2>2. j \in 1..Count /\ P[i] = S[j]
      BY <2>1
    <2> HIDE DEF j
    <2>3. /\ j \in Nat /\ j - 1 \in Nat /\ P[i].id = <<h, j>> /\ P[i].status = "pending"
          /\ P[i].start = Cut(r, j - 1) /\ P[i].end = Cut(r, j) /\ P[i].next = Cut(r, j - 1)
      BY <1>4, <2>2
    <2> QED BY <2>1, <2>3 DEF j
  <1>11. Inside(P, <<h, r>>)
    <2> SUFFICES ASSUME NEW i \in DOMAIN P, Open(P[i])
                 PROVE  r[1] <= P[i].start /\ P[i].end <= r[2]
      BY DEF Inside
    <2>1. i \in (k + 1)..(k + Count)
      BY <1>9
    <2>2. i - k - 1 \in Nat /\ i - k \in Nat /\ 0 <= i - k - 1 /\ i - k <= Count
      BY <1>1, <1>10, <2>1
    <2>3. Cut(r, 0) <= Cut(r, i - k - 1) /\ Cut(r, i - k) <= Cut(r, Count)
      BY <1>1, <2>2, CutsInOrder
    <2> QED BY <1>10, <2>1, <2>3, CutsInOrder
  <1>12. Apart(P)
    <2>1. ASSUME NEW i \in DOMAIN P, NEW j \in DOMAIN P, Open(P[i]), Open(P[j]), i < j
          PROVE  P[i].id # P[j].id /\ P[i].end <= P[j].start
      <3>1. i \in (k + 1)..(k + Count) /\ j \in (k + 1)..(k + Count)
        BY <1>9, <2>1
      <3>2. i - k \in Nat /\ j - k - 1 \in Nat /\ i - k <= j - k - 1
        BY <1>1, <1>10, <2>1, <3>1
      <3>3. Cut(r, i - k) <= Cut(r, j - k - 1)
        BY <3>2, CutsInOrder
      <3>4. P[i].id[2] # P[j].id[2]
        BY <1>1, <1>10, <2>1, <3>1
      <3> QED BY <1>10, <3>1, <3>3, <3>4
    <2>2. \A i, j \in DOMAIN P : i # j => i < j \/ j < i
      BY <1>1, <1>6
    <2> QED BY <2>1, <2>2 DEF Apart
  <1>13. Waiting(P) = Nonces(r)
    <2>1. ASSUME NEW n \in Nonces(r)
          PROVE  n \in Waiting(P)
      <3>1. PICK i \in Threads : Cut(r, i - 1) <= n /\ n < Cut(r, i)
        BY <2>1, CutsCover
      <3>2. i \in 1..Count /\ i - 1 \in Nat /\ i \in Nat
        BY <1>1 DEF Threads
      <3>3. i + k \in DOMAIN P /\ P[i + k] = S[i]
        BY <1>6, <3>2
      <3>4. Open(P[i + k]) /\ P[i + k].next = Cut(r, i - 1) /\ P[i + k].end = Cut(r, i)
        BY <1>4, <3>2, <3>3 DEF Open
      <3>5. n \in Nat /\ Cut(r, i - 1) \in Nat /\ Cut(r, i) \in Nat
        BY <2>1, <3>2, CutsInOrder DEF Nonces
      <3>6. n \in P[i + k].next..(P[i + k].end - 1)
        BY <3>1, <3>4, <3>5
      <3> QED BY <3>3, <3>4, <3>6, WaitingIs
    <2>2. ASSUME NEW n \in Waiting(P)
          PROVE  n \in Nonces(r)
      <3>1. PICK i \in DOMAIN P : Open(P[i]) /\ n \in P[i].next..(P[i].end - 1)
        BY <2>2, WaitingIs
      <3>2. P[i].next = P[i].start /\ P[i].next \in Nat /\ P[i].end \in Nat
        BY <1>6, <1>8, <1>9, <1>10, <3>1 DEF UnitOK, Unit
      <3>3. r[1] <= P[i].start /\ P[i].end <= r[2]
        BY <1>11, <3>1 DEF Inside
      <3> QED BY <3>1, <3>2, <3>3, CutsInOrder DEF Nonces
    <2> QED BY <2>1, <2>2
  <1>14. ASSUME us = <<>>
         PROVE  /\ \A i, j \in DOMAIN P : P[i].id = P[j].id => i = j
                /\ \A i \in DOMAIN P : P[i].status = "pending" /\ P[i].id[1] = h
    <2>1. k = 0
      BY <1>14 DEF k
    <2>2. \A i \in DOMAIN P : i \in (k + 1)..(k + Count)
      BY <1>6, <2>1
    <2>3. \A i \in DOMAIN P : P[i].id[2] = i - k /\ P[i].id[1] = h /\ P[i].status = "pending"
      BY <1>10, <2>2
    <2>4. \A i, j \in DOMAIN P : i - k = j - k => i = j
      BY <2>1, <1>6
    <2> QED BY <2>3, <2>4
  <1>15. GoodUnits(P) /\ DOMAIN P # {}
    <2>1. 1 \in DOMAIN P
      BY <1>1, <1>6
    <2>2. GoodUnits(P)
      BY <1>6, <1>8 DEF GoodUnits
    <2> QED BY <2>1, <2>2
  <1>16. Fresh(P, us, h, r)
    BY <1>8, <1>11, <1>12, <1>13, <1>14, <1>15 DEF Fresh
  <1> QED BY <1>16 DEF P, M, S

-----------------------------------------------------------------------------
(* What the methods of the allocator do for a thread that scans unit i. *)

(* The ids of the open units are those of the headers and the threads. *)
LEMMA ThreadFields ==
  ASSUME Types, NEW t \in Threads
  PROVE  /\ thr[t] \in ThreadState /\ thr[t].pc \in Pcs /\ thr[t].next \in Nat
         /\ thr[t].end \in Nat /\ thr[t].pending \in Nat
         /\ thr[t].next <= thr[t].end /\ thr[t].pending < Batch
         /\ DOMAIN units = 1..Len(units) /\ Len(units) \in Nat /\ units \in [DOMAIN units -> Unit]
BY DEF Types, ThreadState, GoodUnits

(* A thread's unit is open, and no other open unit has its id. *)
LEMMA OnlyMine ==
  ASSUME Apart(units), NEW t \in Threads, NEW i, Mine(t, i), NEW j \in DOMAIN units,
         Open(units[j]), units[j].id = thr[t].id
  PROVE  j = i
BY DEF Apart, Mine, Open

(* update_progress moves the cursor of the thread's unit, or of none: the first
   unit with the id may be one that is over. *)
LEMMA UpdateMovesMine ==
  ASSUME Types, Apart(units), NEW t \in Threads, NEW i, Mine(t, i), NEW n \in Nat,
         thr[t].next <= n, n <= thr[t].end
  PROVE  LET us == UpdateProgress(thr[t].id, n)
         IN  /\ us = units \/ us = [units EXCEPT ![i].next = n]
             /\ WithId(thr[t].id) = {i} => us = [units EXCEPT ![i].next = n]
  <1> DEFINE id == thr[t].id
             us == UpdateProgress(id, n)
             first(j) == IsFirst(WithId(id), j) /\ Open(units[j])
  <1>1. i \in DOMAIN units /\ Open(units[i]) /\ DOMAIN us = DOMAIN units
    BY DEF Mine, Open, UpdateProgress
  <1>2. \A j \in DOMAIN units : first(j) => j = i
    BY OnlyMine DEF IsFirst, WithId
  <1>3. Clamp(n, units[i]) = n
    <2>1. units[i].start \in Nat /\ units[i].end \in Nat /\ units[i].next \in Nat
          /\ units[i].start <= units[i].next
      BY <1>1, UnitFields DEF Types
    <2>2. units[i].next <= thr[t].next /\ thr[t].end = units[i].end /\ thr[t].next \in Nat
      BY ThreadFields DEF Mine
    <2> QED BY <2>1, <2>2 DEF Clamp
  <1>4. \A j \in DOMAIN units :
          us[j] = IF first(j) THEN [units[j] EXCEPT !.next = Clamp(n, units[j])] ELSE units[j]
    BY DEF UpdateProgress
  <1>5. units \in [DOMAIN units -> Unit]
    BY ThreadFields
  <1>a. us = [j \in DOMAIN units |-> us[j]]
    BY DEF UpdateProgress
  <1> HIDE DEF us, first
  <1>6. CASE first(i)
    <2>1. \A j \in DOMAIN units : us[j] = IF j = i THEN [units[i] EXCEPT !.next = n] ELSE units[j]
      BY <1>2, <1>3, <1>4, <1>6
    <2>2. us = [units EXCEPT ![i].next = n]
      BY <1>a, <1>1, <1>5, <2>1
    <2> QED BY <2>2 DEF us
  <1>7. CASE ~first(i)
    <2>1. \A j \in DOMAIN units : us[j] = units[j]
      BY <1>2, <1>4, <1>7
    <2>2. us = units
      BY <1>a, <1>5, <2>1
    <2>3. ~(WithId(id) = {i})
      <3>1. i \in Nat
        BY <1>1, ThreadFields
      <3> QED BY <1>1, <1>7, <3>1 DEF first, IsFirst
    <2> QED BY <2>2, <2>3 DEF us
  <1> QED BY <1>6, <1>7

(* complete ends the thread's unit, or one that is over already. *)
LEMMA CompleteEndsMine ==
  ASSUME Types, Apart(units), NEW t \in Threads, NEW i, Mine(t, i)
  PROVE  LET us == Complete(thr[t].id)
             over(j) == [units EXCEPT ![j].next = units[j].end, ![j].status = "complete"]
         IN  /\ \/ us = units \/ us = over(i)
                \/ \E j \in DOMAIN units : ~Open(units[j]) /\ us = over(j)
             /\ WithId(thr[t].id) = {i} => us = over(i)
  <1> DEFINE id == thr[t].id
             us == Complete(id)
             first(j) == IsFirst(WithId(id), j)
             over(j) == [units EXCEPT ![j].next = units[j].end, ![j].status = "complete"]
             ended(j) == [units[j] EXCEPT !.next = units[j].end, !.status = "complete"]
  <1>1. i \in DOMAIN units /\ units[i].id = id
    BY DEF Mine
  <1>2. us = [j \in DOMAIN units |-> us[j]]
        /\ \A j \in DOMAIN units : us[j] = IF first(j) THEN ended(j) ELSE units[j]
    BY DEF Complete
  <1>3. units \in [DOMAIN units -> Unit] /\ DOMAIN units \subseteq Nat
    BY ThreadFields
  <1>4. \A j, k \in DOMAIN units : first(j) /\ first(k) => j = k
    BY <1>3 DEF IsFirst
  <1>5. \A j \in DOMAIN units : over(j) = [units EXCEPT ![j] = ended(j)]
    BY <1>3
  <1>b. \A j \in DOMAIN units : first(j) => units[j].id = id
    BY DEF IsFirst, WithId
  <1>c. WithId(id) = {i} => first(i)
    BY <1>1, <1>3 DEF IsFirst
  <1> HIDE DEF us, first, ended, over
  <1>6. ASSUME NEW j \in DOMAIN units, first(j)
        PROVE  us = over(j)
    <2>1. \A k \in DOMAIN units : us[k] = IF k = j THEN ended(j) ELSE units[k]
      BY <1>2, <1>4, <1>6
    <2>2. us = [units EXCEPT ![j] = ended(j)]
      BY <1>2, <1>3, <2>1
    <2> QED BY <1>5, <2>2
  <1>7. CASE \E j \in DOMAIN units : first(j)
    <2>1. PICK j \in DOMAIN units : first(j)
      BY <1>7
    <2>2. us = over(j) /\ (Open(units[j]) => j = i)
      BY <1>6, <1>b, <2>1, OnlyMine
    <2>3. WithId(id) = {i} => us = over(i)
      BY <1>1, <1>6, <1>c
    <2> QED BY <2>2, <2>3 DEF us, over
  <1>8. CASE ~\E j \in DOMAIN units : first(j)
    <2>1. us = units
      BY <1>2, <1>3, <1>8
    <2> QED BY <1>1, <1>8, <1>c, <2>1 DEF us
  <1> QED BY <1>7, <1>8

(* release_for_retry gives the thread's unit back. *)
LEMMA ReleaseGivesMine ==
  ASSUME Types, Apart(units), NEW t \in Threads, NEW i, Mine(t, i)
  PROVE  Release(thr[t].id) = [units EXCEPT ![i].status = "pending"]
  <1> DEFINE id == thr[t].id
             K == {k \in WithId(id) : units[k].status = "in_progress"}
             us == Release(id)
  <1>1. i \in DOMAIN units /\ units \in [DOMAIN units -> Unit] /\ i \in Nat
    BY ThreadFields DEF Mine
  <1>2. K = {i}
    <2>1. i \in K
      BY DEF Mine, WithId
    <2>2. \A j \in K : j = i
      BY OnlyMine DEF WithId, Open
    <2> QED BY <2>1, <2>2
  <1>3. \A j \in DOMAIN units : IsFirst(K, j) <=> j = i
    BY <1>1, <1>2 DEF IsFirst
  <1>4. us = [j \in DOMAIN units |->
                IF IsFirst(K, j) THEN [units[j] EXCEPT !.status = "pending"] ELSE units[j]]
    BY DEF Release
  <1> HIDE DEF us, K
  <1>5. us = [j \in DOMAIN units |->
                IF j = i THEN [units[j] EXCEPT !.status = "pending"] ELSE units[j]]
    BY <1>3, <1>4
  <1>6. us = [units EXCEPT ![i].status = "pending"]
    BY <1>1, <1>5
  <1> QED BY <1>6 DEF us

-----------------------------------------------------------------------------
(* What a step of a thread does, and why that is enough. *)

(* Unit j becomes u, which covers the same nonces; no other thread scans j. *)
Touch(t, j, u) ==
  /\ units' = [units EXCEPT ![j] = u]
  /\ u \in Unit /\ UnitOK(u)
  /\ u.id = units[j].id /\ u.start = units[j].start /\ u.end = units[j].end
  /\ Open(u) => Open(units[j])
  /\ units[j].status = "in_progress" => Holds(t) /\ units[j].id = thr[t].id

(* At most one unit is touched, and no hit of it is passed before one is found. *)
Touched(t) ==
  \/ units' = units
  \/ \E j \in DOMAIN units, u \in Unit :
       /\ Touch(t, j, u)
       /\ \A n \in Hits[Header] :
            Open(units[j]) /\ n \in units[j].next..(units[j].end - 1) =>
              found' \/ (Open(u) /\ n \in u.next..(u.end - 1))

(* The units keep their places and bounds, and none is opened again. *)
Shaped ==
  /\ GoodUnits(units)' /\ DOMAIN units' = DOMAIN units
  /\ \A i \in DOMAIN units :
       /\ units'[i].id = units[i].id /\ units'[i].start = units[i].start
       /\ units'[i].end = units[i].end /\ (Open(units'[i]) => Open(units[i]))

(* A unit that another thread scans is left alone. *)
LeavesOthers(t) ==
  \A s \in Threads \ {t}, i \in DOMAIN units : Holds(s) /\ Mine(s, i) => units'[i] = units[i]

HitsWait ==
  \A n \in Hits[Header] : n \in Waiting(units) => found' \/ n \in Waiting(units')

(* A touched unit changes nothing for the others. *)
LEMMA TouchedIsLocal ==
  ASSUME Types, ThreadsOK, NEW t \in Threads, Touched(t)
  PROVE  Shaped /\ LeavesOthers(t) /\ HitsWait
  <1>0. GoodUnits(units) /\ units \in Seq(Unit) /\ units \in [DOMAIN units -> Unit]
        /\ DOMAIN units = 1..Len(units) /\ Len(units) \in Nat
    BY ThreadFields DEF Types, GoodUnits
  <1>1. CASE units' = units
    BY <1>0, <1>1 DEF Shaped, LeavesOthers, HitsWait
  <1>2. CASE units' # units
    <2>1. PICK j \in DOMAIN units, u \in Unit :
            /\ Touch(t, j, u)
            /\ \A n \in Hits[Header] :
                 Open(units[j]) /\ n \in units[j].next..(units[j].end - 1) =>
                   found' \/ (Open(u) /\ n \in u.next..(u.end - 1))
      BY <1>2 DEF Touched
    <2>2. DOMAIN units' = DOMAIN units /\ units'[j] = u
          /\ \A i \in DOMAIN units : i # j => units'[i] = units[i]
      BY <1>0, <2>1 DEF Touch
    <2>3. units' \in Seq(Unit)
      BY <1>0, <2>1 DEF Touch
    <2>4. \A i \in DOMAIN units' : UnitOK(units'[i])
      BY <1>0, <2>1, <2>2 DEF Touch, GoodUnits
    <2>5. Shaped
      <3>1. GoodUnits(units)'
        BY <2>3, <2>4 DEF GoodUnits
      <3> QED BY <3>1, <2>1, <2>2 DEF Shaped, Touch
    <2>6. LeavesOthers(t)
      <3> SUFFICES ASSUME NEW s \in Threads \ {t}, NEW i \in DOMAIN units, Holds(s), Mine(s, i),
                          i = j
                   PROVE  FALSE
        BY <2>2 DEF LeavesOthers
      <3>1. units[j].status = "in_progress" /\ units[j].id = thr[s].id
        BY DEF Mine
      <3>2. Holds(t) /\ thr[t].id = thr[s].id
        BY <2>1, <3>1 DEF Touch
      <3> QED BY <3>2 DEF ThreadsOK, Alone
    <2>7. HitsWait
      <3> SUFFICES ASSUME NEW n \in Hits[Header], n \in Waiting(units), ~found'
                   PROVE  n \in Waiting(units')
        BY DEF HitsWait
      <3>1. PICK i \in DOMAIN units : Open(units[i]) /\ n \in units[i].next..(units[i].end - 1)
        BY WaitingIs
      <3>2. Open(units'[i]) /\ n \in units'[i].next..(units'[i].end - 1)
        BY <2>1, <2>2, <3>1
      <3>3. n \in Waiting(units)'
        BY <2>2, <3>2 DEF Waiting
      <3> QED BY <3>3
    <2> QED BY <2>5, <2>6, <2>7
  <1> QED BY <1>1, <1>2

(* What every step of a thread obeys. *)
StepOK(t) ==
  /\ Types' /\ thr[t].pc # "done" /\ Touched(t)
  /\ \A s \in Threads \ {t} : thr'[s] = thr[s]
  /\ meta' = meta /\ disk' = disk /\ main' = main
  /\ (found => found') /\ saved \subseteq saved'
  /\ HasUnit(t)' /\ AtNonce(t)'
  /\ Holds(t)' => \/ Holds(t) /\ thr'[t].id = thr[t].id
                  \/ \A s \in Threads \ {t} : Holds(s) => thr'[t].id # thr[s].id
  /\ found' => \/ found /\ (thr[t].pc = "save" => thr'[t].pc = "save")
               \/ thr'[t].pc = "save"
               \/ \E n \in HitsOf(meta) : <<Header, n>> \in saved'

(* The bounds of the open units are those of the units they come from. *)
LEMMA ShapedIsGood ==
  ASSUME Shaped, Apart(units), Inside(units, meta), meta' = meta
  PROVE  Apart(units)' /\ Inside(units, meta)'
  <1>1. Apart(units)'
    <2> SUFFICES ASSUME NEW i \in DOMAIN units', NEW j \in DOMAIN units',
                        Open(units'[i]), Open(units'[j]), i # j
                 PROVE  /\ units'[i].id # units'[j].id
                        /\ units'[i].end <= units'[j].start \/ units'[j].end <= units'[i].start
      BY DEF Apart, Open
    <2>1. /\ i \in DOMAIN units /\ j \in DOMAIN units /\ Open(units[i]) /\ Open(units[j])
          /\ units'[i].id = units[i].id /\ units'[j].id = units[j].id
          /\ units'[i].start = units[i].start /\ units'[j].start = units[j].start
          /\ units'[i].end = units[i].end /\ units'[j].end = units[j].end
      BY DEF Shaped
    <2>2. /\ units[i].id # units[j].id
          /\ units[i].end <= units[j].start \/ units[j].end <= units[i].start
      BY <2>1 DEF Apart
    <2> QED BY <2>1, <2>2
  <1>2. Inside(units, meta)'
    BY DEF Inside, Shaped, Open
  <1> QED BY <1>1, <1>2

(* As long as the found solution is saved or being saved, a hit is kept. *)
LEMMA FoundIsKept ==
  ASSUME Types, ThreadsOK, meta # NoMeta, Inside(units, meta), found, FoundIsSaved
  PROVE  Kept(units, meta)
  <1>1. CASE \E n \in HitsOf(meta) : <<Header, n>> \in saved
    BY <1>1 DEF Kept, Header
  <1>2. CASE \E t \in Threads : thr[t].pc = "save"
    <2>1. PICK t \in Threads : thr[t].pc = "save"
      BY <1>2
    <2>2. thr[t].next < thr[t].end /\ thr[t].next \in Hits[Header] /\ Holds(t)
      BY <2>1 DEF ThreadsOK, AtNonce, IsHit, Holds, Holding
    <2>3. PICK i \in DOMAIN units : Mine(t, i)
      BY <2>2 DEF ThreadsOK, HasUnit
    <2>4. /\ Open(units[i]) /\ units[i].next <= thr[t].next /\ units[i].end = thr[t].end
          /\ units[i].next \in Nat /\ units[i].end \in Nat /\ thr[t].next \in Nat
          /\ units[i].start \in Nat /\ units[i].start <= units[i].next
      BY <2>3, ThreadFields, UnitFields DEF Mine, Open, Types
    <2>5. thr[t].next \in units[i].next..(units[i].end - 1)
      BY <2>2, <2>4
    <2>6. thr[t].next \in Waiting(units)
      BY <2>4, <2>5, WaitingIs
    <2>7. meta[2] \in Ranges
      BY DEF Types, Metas
    <2>8. meta[2][1] \in Nat /\ meta[2][2] \in Nat /\ meta[2][1] <= units[i].start
          /\ units[i].end <= meta[2][2]
      BY <2>4, <2>7, CutsInOrder DEF Inside
    <2>9. thr[t].next \in Nonces(meta[2])
      BY <2>4, <2>5, <2>8 DEF Nonces
    <2> QED BY <2>2, <2>6, <2>9 DEF Kept, HitsOf, Header
  <1> QED BY <1>1, <1>2 DEF FoundIsSaved

(* A step that obeys the rules keeps the invariant. *)
LEMMA StepKeepsInv ==
  ASSUME SoundInv, NEW t \in Threads, StepOK(t)
  PROVE  SoundInv'
  <1>0. /\ Types /\ Types' /\ Sound(disk.units, disk.meta) /\ Sound(units, meta)
        /\ ThreadsOK /\ MainOK
    BY DEF SoundInv, StepOK
  <1>1. main \notin {"save", "exited", "failed", "off"}
    BY <1>0 DEF MainOK, AllDone, StepOK
  <1>2. meta # NoMeta /\ FoundIsSaved /\ Apart(units) /\ Inside(units, meta) /\ Kept(units, meta)
    BY <1>0, <1>1 DEF MainOK, Sound
  <1>3. Shaped /\ LeavesOthers(t) /\ HitsWait
    BY <1>0, TouchedIsLocal DEF StepOK
  <1>4. Apart(units)' /\ Inside(units, meta)'
    BY <1>2, <1>3, ShapedIsGood DEF StepOK
  <1>5. ASSUME NEW s \in Threads
        PROVE  HasUnit(s)' /\ AtNonce(s)'
    <2>1. CASE s = t
      BY <2>1 DEF StepOK
    <2>2. CASE s # t
      <3>1. thr'[s] = thr[s] /\ (found => found') /\ meta' = meta
        BY <2>2 DEF StepOK
      <3>2. AtNonce(s)'
        BY <1>0, <3>1 DEF ThreadsOK, AtNonce, IsHit, Header
      <3>3. HasUnit(s)'
        <4> SUFFICES ASSUME Holds(s)
                     PROVE  \E i \in DOMAIN units' : Mine(s, i)' /\ NoHitBehind(s, i)'
          BY <3>1 DEF HasUnit, Holds
        <4>1. PICK i \in DOMAIN units : Mine(s, i) /\ NoHitBehind(s, i)
          BY <1>0 DEF ThreadsOK, HasUnit
        <4>2. units'[i] = units[i] /\ i \in DOMAIN units'
          BY <1>3, <2>2, <4>1 DEF LeavesOthers, Shaped
        <4>3. Mine(s, i)'
          BY <3>1, <4>1, <4>2 DEF Mine
        <4>4. NoHitBehind(s, i)'
          BY <3>1, <4>1, <4>2 DEF NoHitBehind, Header
        <4> QED BY <4>2, <4>3, <4>4
      <3> QED BY <3>2, <3>3
    <2> QED BY <2>1, <2>2
  <1>6. Alone'
    <2>1. \A a, b \in Threads : Holds(a) /\ Holds(b) /\ thr[a].id = thr[b].id => a = b
      BY <1>0 DEF ThreadsOK, Alone
    <2>2. \A s \in Threads \ {t} : thr'[s] = thr[s]
      BY DEF StepOK
    <2>3. ASSUME NEW s \in Threads \ {t}, Holds(t)', Holds(s)
          PROVE  thr'[t].id # thr[s].id
      BY <2>1, <2>3 DEF StepOK
    <2>4. \A s \in Threads \ {t} : Holds(s)' => Holds(s)
      BY <2>2 DEF Holds
    <2>5. \A a, b \in Threads : Holds(a)' /\ Holds(b)' /\ thr'[a].id = thr'[b].id => a = b
      BY <2>1, <2>2, <2>3, <2>4
    <2> QED BY <2>5 DEF Alone, Holds
  <1>7. ThreadsOK'
    BY <1>5, <1>6 DEF ThreadsOK
  <1>8. FoundIsSaved'
    <2> SUFFICES ASSUME found'
                 PROVE  \/ \E s \in Threads : thr'[s].pc = "save"
                        \/ \E n \in HitsOf(meta) : <<Header, n>> \in saved'
      BY DEF FoundIsSaved, StepOK, HitsOf, Header, Nonces
    <2>1. CASE thr'[t].pc = "save" \/ \E n \in HitsOf(meta) : <<Header, n>> \in saved'
      BY <2>1
    <2>2. CASE found /\ (thr[t].pc = "save" => thr'[t].pc = "save")
      <3>1. CASE \E n \in HitsOf(meta) : <<Header, n>> \in saved
        BY <3>1 DEF StepOK
      <3>2. CASE \E s \in Threads : thr[s].pc = "save"
        BY <2>2, <3>2 DEF StepOK
      <3> QED BY <1>2, <2>2, <3>1, <3>2 DEF FoundIsSaved
    <2> QED BY <2>1, <2>2 DEF StepOK
  <1>9. Kept(units, meta)'
    <2>1. CASE found'
      <3>1. (Types /\ ThreadsOK /\ meta # NoMeta /\ Inside(units, meta) /\ found /\ FoundIsSaved)'
        BY <1>0, <1>2, <1>4, <1>7, <1>8, <2>1 DEF StepOK
      <3> QED BY <3>1, FoundIsKept, PTL
    <2>2. CASE ~found'
      <3>1. HitsOf(meta)' = HitsOf(meta) /\ meta' = meta /\ saved \subseteq saved'
        BY DEF HitsOf, StepOK
      <3>2. \A n \in HitsOf(meta) : n \in Waiting(units) => n \in Waiting(units')
        BY <1>3, <2>2 DEF HitsWait, HitsOf, Header
      <3>3. HitsOf(meta) # {} => \/ HitsOf(meta) \cap Waiting(units') # {}
                                 \/ \E n \in HitsOf(meta) : <<meta[1], n>> \in saved'
        BY <1>2, <3>1, <3>2 DEF Kept
      <3> QED BY <3>1, <3>3 DEF Kept, Waiting, Open
    <2> QED BY <2>1, <2>2
  <1>10. Sound(units, meta)'
    BY <1>4, <1>9 DEF Sound
  <1>11. Sound(disk.units, disk.meta)'
    <2>1. disk' = disk /\ saved \subseteq saved'
      BY DEF StepOK
    <2>2. disk.meta # NoMeta => Kept(disk.units, disk.meta)'
      BY <1>0, <2>1 DEF Sound, Kept, HitsOf, Waiting
    <2>3. disk.meta # NoMeta => Apart(disk.units)' /\ Inside(disk.units, disk.meta)'
      BY <1>0, <2>1 DEF Sound, Apart, Inside
    <2> QED BY <2>1, <2>2, <2>3 DEF Sound
  <1>12. MainOK'
    BY <1>1, <1>2, <1>8 DEF MainOK, StepOK
  <1> QED BY <1>0, <1>7, <1>10, <1>11, <1>12 DEF SoundInv

-----------------------------------------------------------------------------
(* The steps of the threads. *)

(* The new state of thread t is x. *)
Turn(t, x) ==
  /\ thr' = [thr EXCEPT ![t] = x] /\ x \in ThreadState
  /\ x.next <= x.end /\ x.pending < Batch

(* The types after a step of a thread. *)
LEMMA TurnKeepsTypes ==
  ASSUME Types, ThreadsOK, NEW t \in Threads, NEW x, Turn(t, x), Touched(t),
         found' \in BOOLEAN, saved' \subseteq Headers \X Nat, hashed' \subseteq Nat,
         UNCHANGED <<meta, disk, stopped, main, runs>>
  PROVE  Types' /\ thr'[t] = x /\ \A s \in Threads \ {t} : thr'[s] = thr[s]
  <1>1. thr \in [Threads -> ThreadState]
    BY DEF Types
  <1>2. thr' \in [Threads -> ThreadState] /\ thr'[t] = x /\ \A s \in Threads \ {t} : thr'[s] = thr[s]
    BY <1>1 DEF Turn
  <1>3. \A s \in Threads : thr'[s].next <= thr'[s].end /\ thr'[s].pending < Batch
    BY <1>2 DEF Types, Turn
  <1>4. GoodUnits(units)'
    BY TouchedIsLocal DEF Shaped
  <1>5. GoodUnits(disk.units)'
    BY DEF Types, GoodUnits
  <1> QED BY <1>2, <1>3, <1>4, <1>5 DEF Types

(* Where a thread that works finds the main thread and its unit. *)
LEMMA AtWork ==
  ASSUME SoundInv, NEW t \in Threads, thr[t].pc # "done"
  PROVE  /\ Types /\ ThreadsOK /\ meta # NoMeta /\ Apart(units) /\ Inside(units, meta)
         /\ FoundIsSaved /\ HasUnit(t) /\ AtNonce(t) /\ Header \in Headers /\ meta[2] \in Ranges
         /\ Hits[Header] \subseteq Nat
  <1>1. Types /\ ThreadsOK /\ MainOK /\ Sound(units, meta)
    BY DEF SoundInv
  <1>2. main # "off"
    BY <1>1 DEF MainOK, AllDone
  <1>3. meta # NoMeta /\ FoundIsSaved
    BY <1>1, <1>2 DEF MainOK
  <1>4. meta \in Headers \X Ranges
    BY <1>1, <1>3 DEF Types, Metas
  <1>5. Header \in Headers /\ meta[2] \in Ranges
    BY <1>4 DEF Header
  <1>6. Hits[Header] \subseteq Nat
    BY <1>5, ScanAssumption
  <1> QED BY <1>1, <1>3, <1>5, <1>6 DEF Sound, ThreadsOK

(* A step that only moves the thread on in its code. *)
LEMMA QuietStep ==
  ASSUME SoundInv, NEW t \in Threads, thr[t].pc \notin {"done", "save"}, NEW pc \in Pcs,
         pc # "save", pc \in Holding => Holds(t), pc = "hash" => thr[t].next < thr[t].end,
         thr' = [thr EXCEPT ![t].pc = pc],
         UNCHANGED <<units, meta, disk, found, stopped, main, saved, runs, hashed>>
  PROVE  StepOK(t)
  <1> DEFINE x == [thr[t] EXCEPT !.pc = pc]
  <1>0. Types /\ ThreadsOK /\ HasUnit(t) /\ AtNonce(t)
    BY AtWork
  <1>1. thr[t] \in ThreadState /\ thr[t].next <= thr[t].end /\ thr[t].pending < Batch
    BY <1>0, ThreadFields
  <1>2. x \in ThreadState
    BY <1>1 DEF ThreadState
  <1>3. /\ x.pc = pc /\ x.next = thr[t].next /\ x.end = thr[t].end /\ x.pending = thr[t].pending
        /\ x.id = thr[t].id
    BY <1>1 DEF ThreadState
  <1>4. thr' = [thr EXCEPT ![t] = x]
    BY <1>0 DEF Types
  <1> HIDE DEF x
  <1>5. Turn(t, x) /\ Touched(t)
    BY <1>1, <1>2, <1>3, <1>4 DEF Turn, Touched
  <1>6. Types' /\ thr'[t] = x /\ \A s \in Threads \ {t} : thr'[s] = thr[s]
    <2>1. found' \in BOOLEAN /\ saved' \subseteq Headers \X Nat /\ hashed' \subseteq Nat
      BY <1>0 DEF Types
    <2> QED BY <1>0, <1>5, <2>1, TurnKeepsTypes
  <1>7. HasUnit(t)'
    <2> SUFFICES ASSUME Holds(t)'
                 PROVE  \E i \in DOMAIN units' : Mine(t, i)' /\ NoHitBehind(t, i)'
      BY DEF HasUnit
    <2>1. Holds(t)
      BY <1>3, <1>6 DEF Holds
    <2>2. PICK i \in DOMAIN units : Mine(t, i) /\ NoHitBehind(t, i)
      BY <1>0, <2>1 DEF HasUnit
    <2>3. Mine(t, i)' /\ NoHitBehind(t, i)'
      BY <1>3, <1>6, <2>2 DEF Mine, NoHitBehind, Header
    <2> QED BY <2>2, <2>3
  <1>8. AtNonce(t)'
    BY <1>3, <1>6 DEF AtNonce
  <1>9. Holds(t)' => Holds(t) /\ thr'[t].id = thr[t].id
    BY <1>3, <1>6 DEF Holds
  <1> QED BY <1>5, <1>6, <1>7, <1>8, <1>9 DEF StepOK

(* acquire_next: the thread takes a pending unit that no one scans. *)
LEMMA AcquireStep ==
  ASSUME SoundInv, NEW t \in Threads, Acquire(t)
  PROVE  StepOK(t)
  <1>0. Types /\ ThreadsOK /\ Apart(units) /\ thr[t].pc = "acquire"
    BY AtWork DEF Acquire
  <1>1. PICK i \in DOMAIN units :
          /\ IsFirst(Acquirable, i)
          /\ units' = [units EXCEPT ![i].status = "in_progress"]
          /\ thr' = [thr EXCEPT ![t].pc = "scan", ![t].id = units[i].id,
                       ![t].next = units[i].next, ![t].end = units[i].end, ![t].pending = 0]
    BY DEF Acquire
  <1> DEFINE u == [units[i] EXCEPT !.status = "in_progress"]
             x == [thr[t] EXCEPT !.pc = "scan", !.id = units[i].id, !.next = units[i].next,
                                 !.end = units[i].end, !.pending = 0]
  <1>2. /\ units[i] \in Unit /\ UnitOK(units[i]) /\ units[i].id \in Headers \X Threads
        /\ units[i].next \in Nat /\ units[i].end \in Nat /\ units[i].next <= units[i].end
        /\ thr[t] \in ThreadState /\ 0 < Batch
    <2>1. Batch \in Nat \ {0}
      BY ScanAssumption
    <2> QED BY <1>0, <2>1, UnitFields, ThreadFields DEF Types, GoodUnits
  <1>3. units[i].status = "pending" /\ Open(units[i])
    BY <1>1 DEF IsFirst, Acquirable, Open
  <1>4. /\ u \in Unit /\ u.id = units[i].id /\ u.start = units[i].start /\ u.end = units[i].end
        /\ u.next = units[i].next /\ u.status = "in_progress" /\ Open(u)
    BY <1>2 DEF Unit, Open
  <1>5. UnitOK(u)
    BY <1>2, <1>4 DEF UnitOK
  <1>6. /\ x.pc = "scan" /\ x.id = units[i].id /\ x.next = units[i].next /\ x.end = units[i].end
        /\ x.pending = 0
    BY <1>2 DEF ThreadState
  <1>7. x \in ThreadState
    BY <1>2 DEF ThreadState, Pcs
  <1>8. thr' = [thr EXCEPT ![t] = x] /\ units' = [units EXCEPT ![i] = u]
    BY <1>1, <1>0, ThreadFields DEF Types
  <1> HIDE DEF u, x
  <1>9. Turn(t, x)
    BY <1>2, <1>6, <1>7, <1>8 DEF Turn
  <1>10. Touched(t)
    <2>1. Touch(t, i, u)
      BY <1>3, <1>4, <1>5, <1>8 DEF Touch
    <2> QED BY <1>4, <2>1 DEF Touched
  <1>11. /\ UNCHANGED <<meta, disk, found, stopped, main, saved, hashed, runs>>
         /\ found' \in BOOLEAN /\ saved' \subseteq Headers \X Nat /\ hashed' \subseteq Nat
    BY <1>0 DEF Acquire, Types
  <1>12. Types' /\ thr'[t] = x /\ \A s \in Threads \ {t} : thr'[s] = thr[s]
    BY <1>0, <1>9, <1>10, <1>11, TurnKeepsTypes
  <1>13. HasUnit(t)'
    <2>1. i \in DOMAIN units' /\ units'[i] = u
      BY <1>8, <1>0, ThreadFields
    <2>2. Mine(t, i)'
      BY <1>2, <1>4, <1>6, <1>12, <2>1 DEF Mine
    <2>3. NoHitBehind(t, i)'
      BY <1>2, <1>4, <1>6, <1>12, <2>1 DEF NoHitBehind
    <2> QED BY <2>1, <2>2, <2>3 DEF HasUnit
  <1>14. AtNonce(t)'
    BY <1>6, <1>12 DEF AtNonce
  <1>15. ASSUME NEW s \in Threads \ {t}, Holds(s)
         PROVE  thr'[t].id # thr[s].id
    <2>1. PICK j \in DOMAIN units : Mine(s, j)
      BY <1>0, <1>15 DEF ThreadsOK, HasUnit
    <2>2. j # i /\ Open(units[j]) /\ units[j].id = thr[s].id
      BY <1>3, <2>1 DEF Mine, Open
    <2> QED BY <1>0, <1>3, <1>6, <1>12, <2>2 DEF Apart
  <1> QED BY <1>0, <1>10, <1>11, <1>12, <1>13, <1>14, <1>15 DEF StepOK

(* The thread's unit i stays open with its cursor at m or where it was, while
   the thread goes on to m. *)
LEMMA ProgressStep ==
  ASSUME SoundInv, NEW t \in Threads, Holds(t), NEW i, Mine(t, i), NoHitBehind(t, i),
         NEW m \in Nat, thr[t].next <= m, m <= thr[t].end,
         units' = units \/ units' = [units EXCEPT ![i].next = m],
         \A n \in thr[t].next..(m - 1) : n \in Hits[Header] => found',
         found => found', found' \in BOOLEAN, saved' \subseteq Headers \X Nat, hashed' \subseteq Nat,
         NEW pc \in {"scan", "settle"}, NEW p \in Nat, p < Batch,
         thr' = [thr EXCEPT ![t].pc = pc, ![t].next = m, ![t].pending = p],
         UNCHANGED <<meta, disk, stopped, main, runs>>
  PROVE  /\ Types' /\ Touched(t) /\ \A s \in Threads \ {t} : thr'[s] = thr[s]
         /\ HasUnit(t)' /\ AtNonce(t)' /\ thr'[t].id = thr[t].id
         /\ thr'[t].pc = pc /\ thr'[t].next = m /\ thr'[t].pending = p /\ thr'[t].end = thr[t].end
         /\ Holds(t)'
  <1>0. Types /\ ThreadsOK /\ Hits[Header] \subseteq Nat
    BY AtWork DEF Holds, Holding
  <1> DEFINE u == [units[i] EXCEPT !.next = m]
             x == [thr[t] EXCEPT !.pc = pc, !.next = m, !.pending = p]
  <1>1. /\ i \in DOMAIN units /\ units[i] \in Unit /\ units[i].start \in Nat
        /\ units[i].next \in Nat /\ units[i].end \in Nat /\ units[i].start <= units[i].next
        /\ units[i].next <= thr[t].next /\ units[i].end = thr[t].end
        /\ units[i].status = "in_progress" /\ units[i].id = thr[t].id
        /\ thr[t] \in ThreadState /\ thr[t].next \in Nat /\ thr[t].end \in Nat
    BY <1>0, UnitFields, ThreadFields DEF Types, Mine
  <1>2. /\ u \in Unit /\ u.id = units[i].id /\ u.start = units[i].start /\ u.end = units[i].end
        /\ u.next = m /\ u.status = "in_progress" /\ Open(u)
    BY <1>1 DEF Unit, Open
  <1>3. UnitOK(u)
    BY <1>1, <1>2 DEF UnitOK
  <1>4. x.pc = pc /\ x.id = thr[t].id /\ x.next = m /\ x.end = thr[t].end /\ x.pending = p
    BY <1>1 DEF ThreadState
  <1>5. x \in ThreadState
    BY <1>1 DEF ThreadState, Pcs
  <1>6. thr' = [thr EXCEPT ![t] = x] /\ (units' = units \/ units' = [units EXCEPT ![i] = u])
    BY <1>0, <1>1, ThreadFields DEF Types
  <1> HIDE DEF u, x
  <1>7. Turn(t, x)
    BY <1>4, <1>5, <1>6 DEF Turn
  <1>8. \A n \in units[i].next..(m - 1) : n \in Hits[Header] => found'
    <2> SUFFICES ASSUME NEW n \in units[i].next..(m - 1), n \in Hits[Header]
                 PROVE  found'
      OBVIOUS
    <2>1. n \in Nat
      BY <1>1
    <2>2. CASE n < thr[t].next
      <3>1. n \in units[i].next..(thr[t].next - 1)
        BY <1>1, <2>1, <2>2
      <3> QED BY <3>1 DEF NoHitBehind
    <2>3. CASE ~(n < thr[t].next)
      <3>1. n \in thr[t].next..(m - 1)
        BY <1>1, <2>1, <2>3
      <3> QED BY <3>1
    <2> QED BY <2>2, <2>3
  <1>9. Touched(t)
    <2>1. CASE units' = units
      BY <2>1 DEF Touched
    <2>2. CASE units' = [units EXCEPT ![i] = u]
      <3>1. Touch(t, i, u)
        BY <1>1, <1>2, <1>3, <2>2 DEF Touch, Open
      <3>2. ASSUME NEW n \in Hits[Header], n \in units[i].next..(units[i].end - 1), ~found'
            PROVE  n \in u.next..(u.end - 1)
        <4>1. n \notin units[i].next..(m - 1)
          BY <1>8, <3>2
        <4> QED BY <1>0, <1>1, <1>2, <3>2, <4>1
      <3> QED BY <1>1, <1>2, <3>1, <3>2 DEF Touched
    <2> QED BY <1>6, <2>1, <2>2
  <1>10. Types' /\ thr'[t] = x /\ \A s \in Threads \ {t} : thr'[s] = thr[s]
    BY <1>0, <1>7, <1>9, TurnKeepsTypes
  <1>11. HasUnit(t)'
    <2>1. i \in DOMAIN units' /\ (units'[i] = u \/ units'[i] = units[i])
      BY <1>0, <1>1, <1>6, ThreadFields
    <2>2. Mine(t, i)'
      BY <1>1, <1>2, <1>4, <1>10, <2>1 DEF Mine
    <2>3. \A n \in units'[i].next..(m - 1) : n \in Hits[Header] => found'
      <3>1. CASE units'[i] = units[i]
        BY <1>8, <3>1
      <3>2. CASE units'[i] = u
        BY <1>2, <3>2
      <3> QED BY <2>1, <3>1, <3>2
    <2>4. NoHitBehind(t, i)'
      BY <1>4, <1>10, <2>3 DEF NoHitBehind, Header
    <2> QED BY <2>1, <2>2, <2>4 DEF HasUnit
  <1>12. AtNonce(t)' /\ Holds(t)'
    BY <1>4, <1>10 DEF AtNonce, Holds, Holding
  <1> QED BY <1>4, <1>9, <1>10, <1>11, <1>12

(* The flush after the nonce loop. *)
LEMMA LeaveLoopStep ==
  ASSUME SoundInv, NEW t \in Threads, LeaveLoop(t)
  PROVE  StepOK(t)
  <1>0. Types /\ ThreadsOK /\ Apart(units) /\ HasUnit(t) /\ thr[t].pc = "scan" /\ Holds(t)
    BY AtWork DEF LeaveLoop, Holds, Holding
  <1>1. PICK i \in DOMAIN units : Mine(t, i) /\ NoHitBehind(t, i)
    BY <1>0 DEF HasUnit
  <1> DEFINE m == thr[t].next
             p == 0
  <1>2. m \in Nat /\ m <= thr[t].end /\ thr[t] \in ThreadState /\ thr \in [Threads -> ThreadState]
    BY <1>0, ThreadFields DEF Types
  <1>3. thr' = [thr EXCEPT ![t].pc = "settle", ![t].next = m, ![t].pending = p]
    <2>1. [thr[t] EXCEPT !.pc = "settle", !.pending = 0]
            = [thr[t] EXCEPT !.pc = "settle", !.next = m, !.pending = 0]
      BY <1>2 DEF ThreadState
    <2>2. thr' = [thr EXCEPT ![t] = [thr[t] EXCEPT !.pc = "settle", !.pending = 0]]
      BY <1>2 DEF LeaveLoop
    <2> QED BY <1>2, <2>1, <2>2
  <1>4. units' = units \/ units' = [units EXCEPT ![i].next = m]
    <2>1. CASE thr[t].pending = 0
      BY <2>1 DEF LeaveLoop
    <2>2. CASE thr[t].pending # 0
      <3>1. units' = UpdateProgress(thr[t].id, m)
        BY <2>2 DEF LeaveLoop
      <3>2. m <= m
        BY <1>2
      <3> QED BY <1>0, <1>1, <1>2, <3>1, <3>2, UpdateMovesMine
    <2> QED BY <2>1, <2>2
  <1>5. /\ UNCHANGED <<meta, disk, found, stopped, main, saved, hashed, runs>>
        /\ found' \in BOOLEAN /\ saved' \subseteq Headers \X Nat /\ hashed' \subseteq Nat
        /\ found => found'
    BY <1>0 DEF LeaveLoop, Types
  <1>6. \A n \in thr[t].next..(m - 1) : n \in Hits[Header] => found'
    BY <1>2
  <1>7. p \in Nat /\ p < Batch /\ "settle" \in {"scan", "settle"} /\ thr[t].next <= m
        /\ m \in Nat /\ m <= thr[t].end
    BY <1>2, ScanAssumption
  <1> HIDE DEF m, p
  <1>8. /\ Types' /\ Touched(t) /\ \A s \in Threads \ {t} : thr'[s] = thr[s]
        /\ HasUnit(t)' /\ AtNonce(t)' /\ thr'[t].id = thr[t].id /\ thr'[t].pc = "settle"
    <2>1. /\ UNCHANGED <<meta, disk, stopped, main, runs>> /\ (found => found')
          /\ found' \in BOOLEAN /\ saved' \subseteq Headers \X Nat /\ hashed' \subseteq Nat
      BY <1>5
    <2> QED BY <1>0, <1>1, <1>3, <1>4, <1>6, <1>7, <2>1, ProgressStep
  <1> QED BY <1>0, <1>5, <1>8 DEF StepOK

(* The rest of the loop body, after a nonce was hashed and, if it was the first
   hit, saved. *)
LEMMA PublishStep ==
  ASSUME SoundInv, NEW t \in Threads, thr[t].pc \in {"hash", "save"}, Publish(t),
         IsHit(t) => found', found => found', found' \in BOOLEAN,
         saved' \subseteq Headers \X Nat, hashed' \subseteq Nat,
         UNCHANGED <<meta, disk, stopped, main, runs>>
  PROVE  /\ Types' /\ Touched(t) /\ \A s \in Threads \ {t} : thr'[s] = thr[s]
         /\ HasUnit(t)' /\ AtNonce(t)' /\ thr'[t].id = thr[t].id /\ thr'[t].pc = "scan"
         /\ Holds(t)
  <1>0. Types /\ ThreadsOK /\ Apart(units) /\ HasUnit(t) /\ Holds(t) /\ AtNonce(t)
    BY AtWork DEF Holds, Holding
  <1>1. PICK i \in DOMAIN units : Mine(t, i) /\ NoHitBehind(t, i)
    BY <1>0 DEF HasUnit
  <1> DEFINE m == thr[t].next + 1
             p == IF thr[t].pending + 1 = Batch THEN 0 ELSE thr[t].pending + 1
  <1>2. /\ thr[t].next \in Nat /\ thr[t].end \in Nat /\ thr[t].next < thr[t].end
        /\ thr[t].pending \in Nat /\ thr[t].pending < Batch /\ Batch \in Nat \ {0}
        /\ thr[t] \in ThreadState /\ thr \in [Threads -> ThreadState]
    BY <1>0, ThreadFields, ScanAssumption DEF Types, AtNonce
  <1>3. m \in Nat /\ thr[t].next <= m /\ m <= thr[t].end /\ p \in Nat /\ p < Batch
    BY <1>2
  <1>4. thr' = [thr EXCEPT ![t].pc = "scan", ![t].next = m, ![t].pending = p]
    <2>1. thr' = [thr EXCEPT ![t] = [thr[t] EXCEPT !.pc = "scan", !.next = m, !.pending = p]]
      BY <1>2 DEF Publish, ThreadState
    <2> QED BY <1>2, <2>1
  <1>5. units' = units \/ units' = [units EXCEPT ![i].next = m]
    <2>1. CASE thr[t].pending + 1 = Batch
      <3>1. units' = UpdateProgress(thr[t].id, m)
        BY <2>1 DEF Publish
      <3> QED BY <1>0, <1>1, <1>3, <3>1, UpdateMovesMine
    <2>2. CASE thr[t].pending + 1 # Batch
      BY <2>2 DEF Publish
    <2> QED BY <2>1, <2>2
  <1>6. \A n \in thr[t].next..(m - 1) : n \in Hits[Header] => found'
    <2>1. \A n \in thr[t].next..(m - 1) : n = thr[t].next
      BY <1>2
    <2> QED BY <2>1 DEF IsHit
  <1> HIDE DEF m, p
  <1>7. "scan" \in {"scan", "settle"}
    OBVIOUS
  <1> QED BY <1>0, <1>1, <1>3, <1>4, <1>5, <1>6, <1>7, ProgressStep

(* A nonce is hashed: a first hit waits to be saved, the rest moves on. *)
LEMMA HashStep ==
  ASSUME SoundInv, NEW t \in Threads, Hash(t)
  PROVE  StepOK(t)
  <1>0. Types /\ ThreadsOK /\ HasUnit(t) /\ AtNonce(t) /\ thr[t].pc = "hash"
    BY AtWork DEF Hash
  <1>1. /\ UNCHANGED <<meta, disk, stopped, main, saved, runs>>
        /\ found' = (found \/ IsHit(t)) /\ hashed' = hashed \cup {thr[t].next}
    BY DEF Hash
  <1>2. found' \in BOOLEAN /\ saved' \subseteq Headers \X Nat /\ hashed' \subseteq Nat
    <2>1. thr[t].next \in Nat /\ hashed \subseteq Nat /\ saved \subseteq Headers \X Nat
      BY <1>0, ThreadFields DEF Types
    <2>2. (found \/ IsHit(t)) \in BOOLEAN
      OBVIOUS
    <2> QED BY <1>1, <2>1, <2>2
  <1>3. CASE IsHit(t) /\ ~found
    <2> DEFINE x == [thr[t] EXCEPT !.pc = "save"]
    <2>1. thr[t] \in ThreadState /\ thr[t].next <= thr[t].end /\ thr[t].pending < Batch
      BY <1>0, ThreadFields
    <2>2. /\ x \in ThreadState /\ x.pc = "save" /\ x.next = thr[t].next /\ x.end = thr[t].end
          /\ x.pending = thr[t].pending /\ x.id = thr[t].id
      BY <2>1 DEF ThreadState, Pcs
    <2>3. thr' = [thr EXCEPT ![t] = x] /\ units' = units
      BY <1>0, <1>3 DEF Hash, Types
    <2> HIDE DEF x
    <2>4. Turn(t, x) /\ Touched(t)
      BY <2>1, <2>2, <2>3 DEF Turn, Touched
    <2>5. Types' /\ thr'[t] = x /\ \A s \in Threads \ {t} : thr'[s] = thr[s]
      BY <1>0, <1>1, <1>2, <2>4, TurnKeepsTypes
    <2>6. PICK i \in DOMAIN units : Mine(t, i)
      BY <1>0 DEF HasUnit, Holds, Holding
    <2>7. Mine(t, i)' /\ i \in DOMAIN units'
      BY <2>2, <2>3, <2>5, <2>6 DEF Mine
    <2>8. found'
      BY <1>1, <1>3
    <2>9. HasUnit(t)'
      BY <2>7, <2>8 DEF HasUnit, NoHitBehind
    <2>10. AtNonce(t)'
      BY <1>0, <1>1, <1>3, <2>2, <2>5, <2>8 DEF AtNonce, IsHit, Header
    <2> QED BY <1>0, <1>1, <2>2, <2>4, <2>5, <2>9, <2>10 DEF StepOK, Holds, Holding
  <1>4. CASE ~(IsHit(t) /\ ~found)
    <2>1. Publish(t)
      BY <1>4 DEF Hash
    <2>2. (IsHit(t) => found') /\ (found => found') /\ (found' => found)
      BY <1>1, <1>4
    <2>3. /\ Types' /\ Touched(t) /\ \A s \in Threads \ {t} : thr'[s] = thr[s]
          /\ HasUnit(t)' /\ AtNonce(t)' /\ thr'[t].id = thr[t].id /\ thr'[t].pc = "scan" /\ Holds(t)
      BY <1>0, <1>1, <1>2, <2>1, <2>2, PublishStep
    <2> QED BY <1>0, <1>1, <2>2, <2>3 DEF StepOK
  <1> QED BY <1>3, <1>4

(* The candidate is on disk before the cursor moves past it. *)
LEMMA SaveStep ==
  ASSUME SoundInv, NEW t \in Threads, SaveCandidate(t)
  PROVE  StepOK(t)
  <1>0. /\ Types /\ ThreadsOK /\ HasUnit(t) /\ AtNonce(t) /\ thr[t].pc = "save"
        /\ Inside(units, meta) /\ Header \in Headers /\ meta[2] \in Ranges
    BY AtWork DEF SaveCandidate
  <1>1. /\ UNCHANGED <<meta, disk, found, stopped, main, hashed, runs>> /\ Publish(t)
        /\ saved' = saved \cup {<<Header, thr[t].next>>}
    BY DEF SaveCandidate
  <1>2. found /\ IsHit(t) /\ thr[t].next < thr[t].end
    BY <1>0 DEF AtNonce
  <1>3. PICK i \in DOMAIN units : Mine(t, i)
    BY <1>0 DEF HasUnit, Holds, Holding
  <1>4. /\ units[i].start \in Nat /\ units[i].start <= units[i].next /\ units[i].next \in Nat
        /\ units[i].next <= thr[t].next /\ thr[t].next \in Nat /\ units[i].end = thr[t].end
        /\ thr[t].end \in Nat /\ meta[2][1] <= units[i].start /\ units[i].end <= meta[2][2]
    BY <1>0, <1>3, UnitFields, ThreadFields DEF Types, Mine, Inside, Open
  <1>5. thr[t].next \in HitsOf(meta)
    <2>1. meta[2][1] \in Nat /\ meta[2][2] \in Nat
      BY <1>0, CutsInOrder
    <2>2. thr[t].next \in Nonces(meta[2])
      BY <1>2, <1>4, <2>1 DEF Nonces
    <2> QED BY <1>2, <2>2 DEF HitsOf, IsHit, Header
  <1>6. found' \in BOOLEAN /\ saved' \subseteq Headers \X Nat /\ hashed' \subseteq Nat
    BY <1>0, <1>1, <1>4 DEF Types
  <1>7. (IsHit(t) => found') /\ (found => found')
    BY <1>1, <1>2
  <1>8. /\ Types' /\ Touched(t) /\ \A s \in Threads \ {t} : thr'[s] = thr[s]
        /\ HasUnit(t)' /\ AtNonce(t)' /\ thr'[t].id = thr[t].id /\ thr'[t].pc = "scan" /\ Holds(t)
    BY <1>0, <1>1, <1>6, <1>7, PublishStep
  <1> QED BY <1>0, <1>1, <1>5, <1>7, <1>8 DEF StepOK

(* The thread lets go of its unit. *)
LEMMA SettleStep ==
  ASSUME SoundInv, NEW t \in Threads, thr[t].pc = "settle", Touched(t),
         thr' = [thr EXCEPT ![t].pc = "check"],
         UNCHANGED <<meta, disk, found, stopped, main, saved, hashed, runs>>
  PROVE  StepOK(t)
  <1>0. Types /\ ThreadsOK
    BY AtWork
  <1> DEFINE x == [thr[t] EXCEPT !.pc = "check"]
  <1>1. thr[t] \in ThreadState /\ thr[t].next <= thr[t].end /\ thr[t].pending < Batch
    BY <1>0, ThreadFields
  <1>2. /\ x \in ThreadState /\ x.pc = "check" /\ x.next = thr[t].next /\ x.end = thr[t].end
        /\ x.pending = thr[t].pending
    BY <1>1 DEF ThreadState, Pcs
  <1>3. thr' = [thr EXCEPT ![t] = x]
    BY <1>0 DEF Types
  <1> HIDE DEF x
  <1>4. Turn(t, x)
    BY <1>1, <1>2, <1>3 DEF Turn
  <1>5. found' \in BOOLEAN /\ saved' \subseteq Headers \X Nat /\ hashed' \subseteq Nat
    BY <1>0 DEF Types
  <1>6. Types' /\ thr'[t] = x /\ \A s \in Threads \ {t} : thr'[s] = thr[s]
    BY <1>0, <1>4, <1>5, TurnKeepsTypes
  <1>7. ~Holds(t)' /\ HasUnit(t)' /\ AtNonce(t)'
    BY <1>2, <1>6 DEF Holds, Holding, HasUnit, AtNonce
  <1> QED BY <1>6, <1>7 DEF StepOK

(* A unit that was scanned to its end is complete: of its hits, one was found. *)
LEMMA CompleteStep ==
  ASSUME SoundInv, NEW t \in Threads, CompleteUnit(t)
  PROVE  StepOK(t)
  <1>0. /\ Types /\ ThreadsOK /\ Apart(units) /\ HasUnit(t) /\ thr[t].pc = "settle" /\ Holds(t)
        /\ thr[t].next >= thr[t].end
    BY AtWork DEF CompleteUnit, Holds, Holding
  <1>1. /\ UNCHANGED <<meta, disk, found, stopped, main, saved, hashed, runs>>
        /\ thr' = [thr EXCEPT ![t].pc = "check"] /\ units' = Complete(thr[t].id)
    BY DEF CompleteUnit
  <1>2. PICK i \in DOMAIN units : Mine(t, i) /\ NoHitBehind(t, i)
    BY <1>0 DEF HasUnit
  <1> DEFINE over(j) == [units EXCEPT ![j].next = units[j].end, ![j].status = "complete"]
             ended(j) == [units[j] EXCEPT !.next = units[j].end, !.status = "complete"]
  <1>3. \/ units' = units \/ units' = over(i)
        \/ \E j \in DOMAIN units : ~Open(units[j]) /\ units' = over(j)
    BY <1>0, <1>1, <1>2, CompleteEndsMine
  <1>4. ASSUME NEW j \in DOMAIN units, units' = over(j), ~Open(units[j]) \/ j = i
        PROVE  Touched(t)
    <2>1. /\ units[j] \in Unit /\ units[j].start \in Nat /\ units[j].end \in Nat
          /\ units[j].next \in Nat /\ units[j].start <= units[j].next
          /\ units[j].next <= units[j].end
      BY <1>0, <1>4, UnitFields DEF Types
    <2>2. units' = [units EXCEPT ![j] = ended(j)]
      BY <1>0, <1>4, ThreadFields
    <2>3. /\ ended(j) \in Unit /\ ended(j).id = units[j].id /\ ended(j).start = units[j].start
          /\ ended(j).end = units[j].end /\ ended(j).next = units[j].end /\ ~Open(ended(j))
      BY <2>1 DEF Unit, Open
    <2> HIDE DEF ended
    <2>4. UnitOK(ended(j))
      BY <2>1, <2>3 DEF UnitOK
    <2>5. units[j].status = "in_progress" => units[j].id = thr[t].id
      BY <1>2, <1>4 DEF Mine, Open
    <2>6. Touch(t, j, ended(j))
      BY <1>0, <2>2, <2>3, <2>4, <2>5 DEF Touch
    <2>7. ASSUME NEW n \in Hits[Header], Open(units[j]), n \in units[j].next..(units[j].end - 1)
          PROVE  found'
      <3>1. j = i
        BY <1>4, <2>7
      <3>2. thr[t].next = units[i].end /\ units[i].end \in Nat
        BY <1>0, <1>2, <2>1, <3>1, ThreadFields DEF Mine
      <3>3. n \in units[i].next..(thr[t].next - 1)
        BY <2>7, <3>1, <3>2
      <3> QED BY <1>1, <1>2, <3>3 DEF NoHitBehind
    <2> QED BY <2>3, <2>6, <2>7 DEF Touched
  <1> HIDE DEF over
  <1>5. Touched(t)
    <2>1. CASE units' = units
      BY <2>1 DEF Touched
    <2>2. CASE units' = over(i)
      BY <1>4, <2>2
    <2>3. CASE \E j \in DOMAIN units : ~Open(units[j]) /\ units' = over(j)
      BY <1>4, <2>3
    <2> QED BY <1>3, <2>1, <2>2, <2>3
  <1> QED BY <1>0, <1>1, <1>5, SettleStep

(* A unit that is given back keeps its cursor. *)
LEMMA ReleaseStep ==
  ASSUME SoundInv, NEW t \in Threads, ReleaseUnit(t)
  PROVE  StepOK(t)
  <1>0. Types /\ ThreadsOK /\ Apart(units) /\ HasUnit(t) /\ thr[t].pc = "settle" /\ Holds(t)
    BY AtWork DEF ReleaseUnit, Holds, Holding
  <1>1. /\ UNCHANGED <<meta, disk, found, stopped, main, saved, hashed, runs>>
        /\ thr' = [thr EXCEPT ![t].pc = "check"] /\ units' = Release(thr[t].id)
    BY DEF ReleaseUnit
  <1>2. PICK i \in DOMAIN units : Mine(t, i)
    BY <1>0 DEF HasUnit
  <1> DEFINE u == [units[i] EXCEPT !.status = "pending"]
  <1>3. units[i] \in Unit /\ UnitOK(units[i]) /\ units[i].id = thr[t].id /\ Open(units[i])
    BY <1>0, <1>2, UnitFields DEF Types, GoodUnits, Mine, Open
  <1>4. units' = [units EXCEPT ![i] = u]
    BY <1>0, <1>1, <1>2, ReleaseGivesMine, ThreadFields
  <1>5. /\ u \in Unit /\ u.id = units[i].id /\ u.start = units[i].start /\ u.end = units[i].end
        /\ u.next = units[i].next /\ Open(u)
    BY <1>3 DEF Unit, Open
  <1> HIDE DEF u
  <1>6. Touch(t, i, u)
    BY <1>0, <1>3, <1>4, <1>5 DEF Touch, UnitOK
  <1>7. Touched(t)
    BY <1>5, <1>6 DEF Touched
  <1> QED BY <1>0, <1>1, <1>7, SettleStep

(* A worker's step is one of the steps the rules allow. *)
LEMMA WorkerIsOK ==
  ASSUME SoundInv, NEW t \in Threads, Worker(t)
  PROVE  StepOK(t)
  <1>1. CASE Check(t)
    BY <1>1, QuietStep DEF Check, Pcs, Holding
  <1>2. CASE AcquireNone(t)
    BY <1>2, QuietStep DEF AcquireNone, Pcs, Holding
  <1>3. CASE EnterLoop(t)
    BY <1>3, QuietStep DEF EnterLoop, Pcs, Holds, Holding
  <1> QED BY <1>1, <1>2, <1>3, AcquireStep, LeaveLoopStep, HashStep, SaveStep, CompleteStep,
             ReleaseStep DEF Worker

(* The steps of the threads keep the invariant. *)
LEMMA WorkerKeepsInv ==
  ASSUME SoundInv, NEW t \in Threads, Worker(t)
  PROVE  SoundInv'
BY WorkerIsOK, StepKeepsInv

-----------------------------------------------------------------------------
(* The steps of the main thread, and the start and the end of a process. *)

(* The threads are where they were; they may have been asked to stop. *)
SameThreads ==
  \A t \in Threads : /\ thr'[t].pc = thr[t].pc /\ thr'[t].id = thr[t].id
                     /\ thr'[t].next = thr[t].next /\ thr'[t].end = thr[t].end
                     /\ thr'[t].pending = thr[t].pending

(* Asking the threads to stop does not move them. *)
LEMMA AskStopSameThreads ==
  ASSUME Types, AskStop
  PROVE  SameThreads /\ thr' \in [Threads -> ThreadState]
  <1>1. ASSUME NEW t \in Threads
        PROVE  /\ thr'[t] = [thr[t] EXCEPT !.stop = TRUE] /\ thr'[t] \in ThreadState
               /\ thr'[t].pc = thr[t].pc /\ thr'[t].id = thr[t].id
               /\ thr'[t].next = thr[t].next /\ thr'[t].end = thr[t].end
               /\ thr'[t].pending = thr[t].pending
    <2>1. thr[t] \in ThreadState
      BY <1>1, ThreadFields
    <2>2. thr'[t] = [thr[t] EXCEPT !.stop = TRUE]
      BY <1>1 DEF AskStop
    <2>3. [thr[t] EXCEPT !.stop = TRUE] \in ThreadState
      BY <2>1 DEF ThreadState
    <2> QED BY <2>1, <2>2, <2>3 DEF ThreadState
  <1>2. thr' = [t \in Threads |-> thr'[t]]
    BY DEF AskStop
  <1> QED BY <1>1, <1>2 DEF SameThreads

(* As long as the threads and the units are the same, the rules hold for them;
   what the main thread writes to the file is what is in memory. *)
LEMMA MainKeepsInv ==
  ASSUME SoundInv, SameThreads, thr' \in [Threads -> ThreadState],
         UNCHANGED <<units, meta, found, saved, hashed, runs>>, stopped' \in BOOLEAN,
         main' \in Running \cup {"off", "exited", "failed"},
         disk' = disk \/ disk' = [units |-> units, meta |-> meta],
         MainOK'
  PROVE  SoundInv'
  <1>0. /\ Types /\ Sound(disk.units, disk.meta) /\ Sound(units, meta) /\ ThreadsOK
    BY DEF SoundInv
  <1>1. disk' \in [units : Seq(Unit), meta : Metas] /\ GoodUnits(disk'.units)
        /\ Sound(disk'.units, disk'.meta)
    <2>1. CASE disk' = disk
      BY <1>0, <2>1 DEF Types
    <2>2. CASE disk' = [units |-> units, meta |-> meta]
      BY <1>0, <2>2 DEF Types, GoodUnits
    <2> QED BY <2>1, <2>2
  <1>2. Sound(disk.units, disk.meta)' /\ Sound(units, meta)' /\ GoodUnits(disk.units)'
    BY <1>0, <1>1 DEF Sound, Apart, Inside, Kept, GoodUnits
  <1>3. Types'
    <2>1. \A t \in Threads : thr'[t].next <= thr'[t].end /\ thr'[t].pending < Batch
      BY <1>0 DEF Types, SameThreads
    <2> QED BY <1>0, <1>1, <1>2, <2>1 DEF Types, GoodUnits
  <1>4. \A t \in Threads : Holds(t)' <=> Holds(t)
    BY DEF Holds, SameThreads
  <1>5. Alone'
    <2>1. \A a, b \in Threads : Holds(a)' /\ Holds(b)' /\ thr'[a].id = thr'[b].id => a = b
      BY <1>0, <1>4 DEF ThreadsOK, Alone, SameThreads
    <2> QED BY <2>1 DEF Alone, Holds
  <1>6. ASSUME NEW t \in Threads
        PROVE  HasUnit(t)' /\ AtNonce(t)'
    <2>1. AtNonce(t)'
      BY <1>0 DEF ThreadsOK, AtNonce, IsHit, Header, SameThreads
    <2>2. HasUnit(t)'
      <3> SUFFICES ASSUME Holds(t)
                   PROVE  \E i \in DOMAIN units' : Mine(t, i)' /\ NoHitBehind(t, i)'
        BY <1>4 DEF HasUnit
      <3>1. PICK i \in DOMAIN units : Mine(t, i) /\ NoHitBehind(t, i)
        BY <1>0 DEF ThreadsOK, HasUnit
      <3>2. Mine(t, i)'
        BY <3>1 DEF Mine, SameThreads
      <3>3. NoHitBehind(t, i)'
        BY <3>1 DEF NoHitBehind, Header, SameThreads
      <3> QED BY <3>1, <3>2, <3>3
    <2> QED BY <2>1, <2>2
  <1>7. ThreadsOK'
    BY <1>5, <1>6 DEF ThreadsOK
  <1> QED BY <1>2, <1>3, <1>7 DEF SoundInv

(* The main thread, Ctrl+C and the errors of the saves. *)
LEMMA MainThreadKeepsInv ==
  ASSUME SoundInv, MainThread \/ PeriodicSaveFails \/ CtrlC
  PROVE  SoundInv'
  <1>0. Types /\ MainOK
    BY DEF SoundInv
  <1>1. main # "off" /\ UNCHANGED <<units, meta, found, saved, hashed, runs>>
    BY DEF MainThread, Sleep, Wake, EndWatch, Joined, FinalSave, PeriodicSaveFails, CtrlC, Running
  <1>2. meta # NoMeta /\ FoundIsSaved
    BY <1>0, <1>1 DEF MainOK
  <1>3. SameThreads /\ thr' \in [Threads -> ThreadState]
    <2>1. CASE AskStop
      BY <1>0, <2>1, AskStopSameThreads
    <2>2. CASE thr' = thr
      BY <1>0, <2>2 DEF SameThreads, Types
    <2> QED BY <2>1, <2>2
         DEF MainThread, Sleep, Wake, EndWatch, Joined, FinalSave, PeriodicSaveFails, CtrlC
  <1>4. stopped' \in BOOLEAN
    BY <1>0 DEF MainThread, Sleep, Wake, EndWatch, Joined, FinalSave, PeriodicSaveFails, CtrlC, Types
  <1>5. FoundIsSaved'
    BY <1>1, <1>2, <1>3 DEF FoundIsSaved, SameThreads, HitsOf, Header
  <1>6. AllDone => AllDone'
    BY <1>3 DEF AllDone, SameThreads
  <1>7. /\ disk' = disk \/ disk' = [units |-> units, meta |-> meta]
        /\ main' \in Running \cup {"off", "exited", "failed"}
        /\ main' \in {"save", "exited", "failed", "off"} => AllDone'
        /\ main' = "exited" => disk' = [units |-> units, meta |-> meta]
    <2>1. CASE Sleep
      BY <2>1 DEF Sleep, Running
    <2>2. CASE Wake
      BY <2>2 DEF Wake, Running
    <2>3. CASE EndWatch
      BY <2>3 DEF EndWatch, Running
    <2>4. CASE Joined
      BY <1>6, <2>4 DEF Joined, Running
    <2>5. CASE FinalSave
      BY <1>0, <1>6, <2>5 DEF FinalSave, Running, MainOK
    <2>6. CASE PeriodicSaveFails
      BY <2>6 DEF PeriodicSaveFails, Running
    <2>7. CASE CtrlC
      BY <1>0, <1>6, <2>7 DEF CtrlC, Running, MainOK
    <2> QED BY <2>1, <2>2, <2>3, <2>4, <2>5, <2>6, <2>7 DEF MainThread
  <1>8. MainOK'
    BY <1>1, <1>2, <1>5, <1>7 DEF MainOK
  <1> QED BY <1>1, <1>3, <1>4, <1>7, <1>8, MainKeepsInv

(* A thread that is not there. *)
LEMMA NoThreadFields ==
  ASSUME NEW pc \in Pcs
  PROVE  /\ NoThread(pc) \in ThreadState /\ NoThread(pc).pc = pc
         /\ NoThread(pc).next = 0 /\ NoThread(pc).end = 0 /\ NoThread(pc).pending = 0
         /\ NoThread(pc).next <= NoThread(pc).end /\ NoThread(pc).pending < Batch
BY ScanAssumption DEF NoThread, ThreadState

(* Threads that have no unit yet, or none any more. *)
LEMMA IdleThreads ==
  ASSUME NEW pc \in {"check", "done"}, NEW th, th = [t \in Threads |-> NoThread(pc)]
  PROVE  /\ th \in [Threads -> ThreadState]
         /\ \A t \in Threads : th[t].next <= th[t].end /\ th[t].pending < Batch
         /\ \A t \in Threads : th[t].pc = pc
  <1>1. pc \in Pcs
    BY DEF Pcs
  <1>2. \A t \in Threads : th[t] = NoThread(pc)
    OBVIOUS
  <1> QED BY <1>1, <1>2, NoThreadFields

(* Threads without a unit obey the rules. *)
LEMMA IdleIsOK ==
  ASSUME NEW pc \in {"check", "done"}, \A t \in Threads : thr'[t].pc = pc
  PROVE  ThreadsOK'
  <1>1. \A t \in Threads : ~Holds(t)' /\ AtNonce(t)'
    BY DEF Holds, Holding, AtNonce
  <1>2. Alone' /\ \A t \in Threads : HasUnit(t)'
    BY <1>1 DEF Alone, HasUnit
  <1> QED BY <1>1, <1>2 DEF ThreadsOK

(* The power fails: the file and the candidates are as they were. *)
LEMMA CrashKeepsInv ==
  ASSUME SoundInv, Crash
  PROVE  SoundInv'
  <1>0. Types /\ Sound(disk.units, disk.meta) /\ Sound(units, meta)
    BY DEF SoundInv
  <1>1. /\ UNCHANGED <<units, meta, disk, found, stopped, saved, hashed, runs>>
        /\ thr' = [t \in Threads |-> NoThread("done")] /\ main' = "off"
    BY DEF Crash
  <1>2. /\ thr' \in [Threads -> ThreadState]
        /\ \A t \in Threads : thr'[t].next <= thr'[t].end /\ thr'[t].pending < Batch
        /\ \A t \in Threads : thr'[t].pc = "done"
        /\ ThreadsOK'
    <2>1. "done" \in {"check", "done"}
      OBVIOUS
    <2>2. /\ thr' \in [Threads -> ThreadState]
          /\ \A t \in Threads : thr'[t].next <= thr'[t].end /\ thr'[t].pending < Batch
          /\ \A t \in Threads : thr'[t].pc = "done"
      BY <1>1, <2>1, IdleThreads
    <2> QED BY <2>1, <2>2, IdleIsOK
  <1>3. Types'
    BY <1>0, <1>1, <1>2 DEF Types, GoodUnits
  <1>4. Sound(disk.units, disk.meta)' /\ Sound(units, meta)'
    BY <1>0, <1>1 DEF Sound, Apart, Inside, Kept
  <1>5. MainOK'
    BY <1>1, <1>2 DEF MainOK, AllDone
  <1> QED BY <1>2, <1>3, <1>4, <1>5 DEF SoundInv

(* A process starts: the units come from the file, or have the whole range. *)
LEMMA StartKeepsInv ==
  ASSUME SoundInv, NEW h \in Headers, NEW r \in Ranges, Start(h, r)
  PROVE  SoundInv'
  <1>0. Types /\ Sound(disk.units, disk.meta)
    BY DEF SoundInv
  <1>1. /\ UNCHANGED <<disk, saved>> /\ runs' = runs + 1 /\ meta' = <<h, r>>
        /\ found' = FALSE /\ stopped' = FALSE /\ main' = "watch"
        /\ thr' = [t \in Threads |-> NoThread("check")]
    BY DEF Start
  <1> DEFINE us == disk.units
             L == LoadExisting(us)
             st == [disk EXCEPT !.units = L]
  <1>2. /\ disk \in [units : Seq(Unit), meta : Metas] /\ GoodUnits(us)
        /\ hashed' = IF Compatible(st, h, r) THEN Nonces(r) \ Waiting(us) ELSE {}
        /\ units' = PrepareHistorical(st, h, r)
    BY <1>0 DEF Types, Start
  <1>3. GoodUnits(L) /\ DOMAIN L = DOMAIN us /\ Waiting(L) = Waiting(us)
        /\ \A i \in DOMAIN us : /\ L[i].id = us[i].id /\ L[i].start = us[i].start
                                /\ L[i].end = us[i].end /\ (Open(L[i]) <=> Open(us[i]))
    BY <1>2, LoadKeeps
  <1>4. st.units = L /\ st.meta = disk.meta
    BY <1>2
  <1>5. <<h, r>> # NoMeta /\ <<h, r>> \in Metas
    BY ScanAssumption DEF Metas
  <1> HIDE DEF us, L, st
  <1>6. /\ GoodUnits(units') /\ Apart(units') /\ Inside(units', <<h, r>>)
        /\ HitsOf(<<h, r>>) # {} => \/ HitsOf(<<h, r>>) \cap Waiting(units') # {}
                                    \/ \E n \in HitsOf(<<h, r>>) : <<h, n>> \in saved
    <2>1. CASE Compatible(st, h, r)
      <3>1. disk.meta = <<h, r>> /\ units' = L
        BY <1>2, <1>4, <2>1 DEF Compatible, PrepareHistorical
      <3>2. Apart(us) /\ Inside(us, <<h, r>>) /\ Kept(us, <<h, r>>)
        BY <1>0, <1>5, <3>1 DEF Sound, us
      <3>3. Apart(L)
        BY <1>3, <3>2 DEF Apart
      <3>4. Inside(L, <<h, r>>)
        BY <1>3, <3>2 DEF Inside
      <3>5. <<h, r>>[1] = h
        OBVIOUS
      <3> QED BY <1>3, <3>1, <3>2, <3>3, <3>4, <3>5 DEF Kept
    <2>2. CASE ~Compatible(st, h, r)
      <3>1. units' = MarkStale(L) \o ScanUnits(h, r)
        BY <1>2, <1>4, <2>2 DEF PrepareHistorical
      <3>2. GoodUnits(units') /\ Apart(units') /\ Inside(units', <<h, r>>)
            /\ Waiting(units') = Nonces(r)
        <4>1. Fresh(units', L, h, r)
          BY <1>3, <3>1, RangeIsCut
        <4> QED BY <4>1 DEF Fresh
      <3>3. HitsOf(<<h, r>>) \subseteq Nonces(r)
        BY DEF HitsOf
      <3> QED BY <3>2, <3>3
    <2> QED BY <2>1, <2>2
  <1>7. /\ thr' \in [Threads -> ThreadState]
        /\ \A t \in Threads : thr'[t].next <= thr'[t].end /\ thr'[t].pending < Batch
        /\ \A t \in Threads : thr'[t].pc = "check"
    BY <1>1, IdleThreads
  <1>8. ThreadsOK'
    BY <1>7, IdleIsOK
  <1>9. hashed' \subseteq Nat
    <2>1. Nonces(r) \subseteq Nat
      BY CutsInOrder DEF Nonces
    <2> QED BY <1>2, <2>1
  <1>10. Types'
    <2>1. GoodUnits(units)' /\ GoodUnits(disk.units)'
      BY <1>1, <1>2, <1>6 DEF GoodUnits, us
    <2>2. runs' \in Nat /\ saved' \subseteq Headers \X Nat /\ disk' \in [units : Seq(Unit), meta : Metas]
      BY <1>0, <1>1 DEF Types
    <2>3. found' \in BOOLEAN /\ stopped' \in BOOLEAN /\ meta' \in Metas
          /\ main' \in Running \cup {"off", "exited", "failed"}
      BY <1>1, <1>5 DEF Running
    <2> QED BY <1>7, <1>9, <2>1, <2>2, <2>3 DEF Types
  <1>11. Sound(disk.units, disk.meta)'
    BY <1>0, <1>1 DEF Sound, Apart, Inside, Kept
  <1>12. Sound(units, meta)'
    <2>1. Kept(units, meta)'
      <3>1. meta'[1] = h
        BY <1>1
      <3>2. HitsOf(meta') # {} => \/ HitsOf(meta') \cap Waiting(units') # {}
                                  \/ \E n \in HitsOf(meta') : <<meta'[1], n>> \in saved'
        BY <1>1, <1>6, <3>1
      <3> QED BY <3>2 DEF Kept, HitsOf, Waiting, Open
    <2>2. Apart(units)' /\ Inside(units, meta)'
      BY <1>1, <1>6 DEF Apart, Inside, Open
    <2> QED BY <2>1, <2>2 DEF Sound
  <1>13. MainOK'
    BY <1>1, <1>5 DEF MainOK, FoundIsSaved
  <1> QED BY <1>8, <1>10, <1>11, <1>12, <1>13 DEF SoundInv

(* Before the first process there is nothing. *)
LEMMA InitIsSound ==
  ASSUME Init
  PROVE  SoundInv
  <1>1. /\ units = <<>> /\ meta = NoMeta /\ disk = [units |-> <<>>, meta |-> NoMeta]
        /\ thr = [t \in Threads |-> NoThread("done")] /\ found = FALSE /\ stopped = FALSE
        /\ main = "off" /\ saved = {} /\ hashed = {} /\ runs = 0
    BY DEF Init
  <1>2. /\ thr \in [Threads -> ThreadState]
        /\ \A t \in Threads : thr[t].next <= thr[t].end /\ thr[t].pending < Batch
        /\ \A t \in Threads : thr[t].pc = "done"
    BY <1>1, IdleThreads
  <1>3. GoodUnits(<<>>)
    BY DEF GoodUnits
  <1>4. disk.units = <<>> /\ disk.meta = NoMeta
    BY <1>1
  <1>5. Types
    <2>1. disk \in [units : Seq(Unit), meta : Metas] /\ meta \in Metas
      BY <1>1 DEF Metas
    <2>2. GoodUnits(units) /\ GoodUnits(disk.units)
      BY <1>1, <1>3, <1>4
    <2> QED BY <1>1, <1>2, <2>1, <2>2 DEF Types
  <1>6. Sound(disk.units, disk.meta) /\ Sound(units, meta)
    BY <1>1, <1>4 DEF Sound
  <1>7. ThreadsOK
    BY <1>2 DEF ThreadsOK, Alone, HasUnit, AtNonce, Holds, Holding
  <1>8. MainOK
    BY <1>1, <1>2 DEF MainOK, AllDone
  <1> QED BY <1>5, <1>6, <1>7, <1>8 DEF SoundInv

(* The invariant holds in every reachable state. *)
LEMMA NextKeepsSound ==
  ASSUME SoundInv, [Next]_vars
  PROVE  SoundInv'
  <1>1. CASE UNCHANGED vars
    <2>1. /\ units' = units /\ meta' = meta /\ disk' = disk /\ thr' = thr /\ found' = found
          /\ stopped' = stopped /\ main' = main /\ saved' = saved /\ hashed' = hashed /\ runs' = runs
      BY <1>1 DEF vars
    <2>2. Types /\ MainOK
      BY DEF SoundInv
    <2>3. SameThreads /\ thr' \in [Threads -> ThreadState] /\ stopped' \in BOOLEAN
          /\ main' \in Running \cup {"off", "exited", "failed"}
      BY <2>1, <2>2 DEF SameThreads, Types
    <2>4. MainOK'
      BY <2>1, <2>2 DEF MainOK, FoundIsSaved, AllDone, HitsOf, Header
    <2> QED BY <2>1, <2>3, <2>4, MainKeepsInv
  <1>2. CASE \E h \in Headers, r \in Ranges : Start(h, r)
    BY <1>2, StartKeepsInv
  <1>3. CASE \E t \in Threads : Worker(t)
    BY <1>3, WorkerKeepsInv
  <1>4. CASE MainThread \/ PeriodicSaveFails \/ CtrlC
    BY <1>4, MainThreadKeepsInv
  <1>5. CASE Crash
    BY <1>5, CrashKeepsInv
  <1> QED BY <1>1, <1>2, <1>3, <1>4, <1>5 DEF Next, Ended

(* The inductive invariant: the file and the memory keep a hit of the range or
   know that one is saved, and every thread scans a unit of its own. *)
THEOREM ScanIsSound == Spec => []SoundInv
  <1>1. Init => SoundInv
    BY InitIsSound
  <1>2. SoundInv /\ [Next]_vars => SoundInv'
    BY NextKeepsSound
  <1> QED BY <1>1, <1>2, PTL DEF Spec

(* No hit is lost (run_historical): whatever crashes, failed saves and second
   preparations happen, while no candidate of a range is saved the checkpoint
   still has a hit of it to scan. *)
THEOREM ScanInvHolds == Spec => []ScanInv
  <1>1. SoundInv => ScanInv
    <2> SUFFICES ASSUME SoundInv
                 PROVE  TypeOK /\ HitNeverLost
      BY DEF ScanInv
    <2>1. Types /\ Sound(disk.units, disk.meta)
      BY DEF SoundInv
    <2>2. TypeOK
      BY <2>1 DEF Types, TypeOK, GoodUnits, ThreadState, Pcs
    <2>3. HitNeverLost
      BY <2>1 DEF HitNeverLost, Sound, Kept, HitsOf
    <2> QED BY <2>2, <2>3
  <1> QED BY <1>1, ScanIsSound, PTL

-----------------------------------------------------------------------------
(***************************************************************************)
(* A clean stop is exact.  prepare_historical names a unit by its header    *)
(* and its index only, so that a header prepared a second time (for another *)
(* range, or after another header) gives two units one id, and a thread     *)
(* reports its progress to the one that is over.  What follows is about     *)
(* executions in which the ids tell the units apart.                       *)
(***************************************************************************)
UniqueIds == \A i, j \in DOMAIN units : units[i].id = units[j].id => i = j

(* Thread t has nonce n behind it. *)
Past(t, n) == n < thr[t].next \/ (thr[t].pc = "save" /\ n = thr[t].next)

Passed(id, n) == \E t \in Threads : Holds(t) /\ thr[t].id = id /\ Past(t, n)

(* Unit i still has nonce n to scan, and the thread that scans it has too. *)
LeftAt(i, n) ==
  /\ Open(units[i]) /\ n \in units[i].next..(units[i].end - 1)
  /\ ~Passed(units[i].id, n)

Left(n) == \E i \in DOMAIN units : LeftAt(i, n)

(* The cursor of a unit is behind its thread's by what is not published. *)
InPace(t, i) ==
  /\ units[i].next + thr[t].pending = thr[t].next
  /\ thr[t].pc = "settle" => thr[t].pending = 0

Pace == \A t \in Threads, i \in DOMAIN units :
          Holds(t) /\ units[i].id = thr[t].id => InPace(t, i)

(* A nonce of the range was hashed, or is left to scan, and never both. *)
Accounted == \A n \in Nonces(meta[2]) : n \in hashed <=> ~Left(n)

ExactInv == main # "off" => Pace /\ Accounted

(* What is left of the unit a thread scans is what the thread has before it. *)
HeldIs ==
  \A t \in Threads : \A i \in DOMAIN units : Holds(t) /\ Mine(t, i) =>
    \A n \in Nat : LeftAt(i, n) <=> n < thr[t].end /\ ~Past(t, n)

(* For any thread that scans a unit; nobody else scans it. *)
LEMMA HeldIsLeft == Types /\ ThreadsOK => HeldIs
  <1> SUFFICES ASSUME Types, ThreadsOK, NEW t \in Threads, NEW i \in DOMAIN units, Holds(t),
                      Mine(t, i), NEW n \in Nat
               PROVE  LeftAt(i, n) <=> n < thr[t].end /\ ~Past(t, n)
    BY DEF HeldIs
  <1>1. Passed(units[i].id, n) <=> Past(t, n)
    BY DEF Passed, Mine, ThreadsOK, Alone
  <1>2. /\ units[i].next \in Nat /\ units[i].end = thr[t].end /\ units[i].next <= thr[t].next
        /\ thr[t].next \in Nat /\ thr[t].end \in Nat /\ Open(units[i])
    BY UnitFields, ThreadFields DEF Types, Mine, Open
  <1>3. ~Past(t, n) => units[i].next <= n
    BY <1>2 DEF Past
  <1>4. n \in units[i].next..(units[i].end - 1) <=> units[i].next <= n /\ n < thr[t].end
    BY <1>2
  <1> QED BY <1>1, <1>2, <1>3, <1>4 DEF LeftAt

(* A step that changes neither a unit nor what a thread has behind it. *)
LEMMA SameProgress ==
  ASSUME Pace, Accounted, UNCHANGED <<units, meta, hashed>>,
         \A t \in Threads :
           /\ Holds(t)' <=> Holds(t)
           /\ thr'[t].id = thr[t].id /\ thr'[t].next = thr[t].next
           /\ thr'[t].pending = thr[t].pending
           /\ thr'[t].pc = "save" <=> thr[t].pc = "save"
           /\ thr'[t].pc = "settle" => thr[t].pc = "settle"
  PROVE  Pace' /\ Accounted'
  <1>1. Pace'
    <2> SUFFICES ASSUME NEW t \in Threads, NEW i \in DOMAIN units', Holds(t)',
                        units'[i].id = thr'[t].id
                 PROVE  InPace(t, i)'
      BY DEF Pace, Holds
    <2>1. InPace(t, i)
      BY DEF Pace
    <2> QED BY <2>1 DEF InPace
  <1>2. \A n : Left(n)' <=> Left(n)
    <2>1. ASSUME NEW t \in Threads, NEW n
          PROVE  Past(t, n)' <=> Past(t, n)
      BY <2>1 DEF Past
    <2>2. ASSUME NEW id, NEW n
          PROVE  Passed(id, n)' <=> Passed(id, n)
      BY <2>1 DEF Passed
    <2>3. ASSUME NEW i, NEW n
          PROVE  LeftAt(i, n)' <=> LeftAt(i, n)
      <3>1. PICK id : id = units[i].id
        OBVIOUS
      <3>2. Passed(id, n)' <=> Passed(id, n)
        BY <2>2
      <3> QED BY <3>1, <3>2 DEF LeftAt, Passed
    <2> QED BY <2>3 DEF Left
  <1> QED BY <1>2, <1>1 DEF Accounted

(* A unit that the step and its thread have nothing to do with. *)
LEMMA OtherIsLeft ==
  ASSUME NEW t \in Threads, NEW j \in DOMAIN units, units'[j] = units[j], NEW n,
         \A s \in Threads \ {t} : thr'[s] = thr[s],
         Holds(t) => thr[t].id # units[j].id, Holds(t)' => thr'[t].id # units[j].id
  PROVE  LeftAt(j, n)' <=> LeftAt(j, n)
  <1>1. PICK id : id = units[j].id
    OBVIOUS
  <1>2. \A s \in Threads \ {t} : (Holds(s)' <=> Holds(s)) /\ (Past(s, n)' <=> Past(s, n))
    BY DEF Holds, Past
  <1>3. Passed(id, n)' <=> Passed(id, n)
    BY <1>1, <1>2 DEF Passed
  <1> QED BY <1>1, <1>3 DEF LeftAt, Passed

(* A step of a thread that touches at most unit i, its own, and hashes H. *)
LEMMA ExactStep ==
  ASSUME SoundInv, NEW t \in Threads, StepOK(t), UniqueIds, Pace, Accounted,
         NEW i \in DOMAIN units, \A j \in DOMAIN units : j # i => units'[j] = units[j],
         Holds(t) => thr[t].id = units[i].id, Holds(t)' => thr'[t].id = units[i].id,
         Holds(t)' => InPace(t, i)',
         NEW H, hashed' = hashed \cup H,
         \A n \in Nonces(meta[2]) : LeftAt(i, n)' <=> LeftAt(i, n) /\ n \notin H,
         \A n \in H, j \in DOMAIN units : j # i => ~LeftAt(j, n)
  PROVE  Pace' /\ Accounted'
  <1>0. /\ Types /\ ThreadsOK /\ DOMAIN units' = DOMAIN units
        /\ \A j \in DOMAIN units : units'[j].id = units[j].id
        /\ LeavesOthers(t) /\ \A s \in Threads \ {t} : thr'[s] = thr[s]
    BY TouchedIsLocal DEF SoundInv, StepOK, Shaped
  <1>1. Pace'
    <2> SUFFICES ASSUME NEW s \in Threads, NEW j \in DOMAIN units', Holds(s)',
                        units'[j].id = thr'[s].id
                 PROVE  InPace(s, j)'
      BY DEF Pace, Holds
    <2>1. CASE s = t
      <3>1. j = i
        BY <1>0, <2>1 DEF UniqueIds
      <3> QED BY <2>1, <3>1
    <2>2. CASE s # t
      <3>1. thr'[s] = thr[s] /\ Holds(s) /\ units[j].id = thr[s].id /\ j \in DOMAIN units
        BY <1>0, <2>2 DEF Holds
      <3>2. PICK k \in DOMAIN units : Mine(s, k)
        BY <1>0, <3>1 DEF ThreadsOK, HasUnit
      <3>3. k = j
        BY <3>1, <3>2 DEF Mine, UniqueIds
      <3>4. units'[j] = units[j]
        BY <1>0, <2>2, <3>1, <3>2, <3>3 DEF LeavesOthers
      <3>5. InPace(s, j)
        BY <3>1 DEF Pace
      <3> QED BY <3>1, <3>4, <3>5 DEF InPace
    <2> QED BY <2>1, <2>2
  <1>2. ASSUME NEW j \in DOMAIN units, j # i, NEW n
        PROVE  LeftAt(j, n)' <=> LeftAt(j, n)
    <2>1. units[j].id # units[i].id
      BY <1>2 DEF UniqueIds
    <2> QED BY <1>0, <1>2, <2>1, OtherIsLeft
  <1>3. ASSUME NEW n \in Nonces(meta[2])
        PROVE  n \in hashed' <=> ~Left(n)'
    <2>1. Left(n)' <=> \E j \in DOMAIN units : LeftAt(j, n)'
      BY <1>0 DEF Left
    <2>2. Left(n) <=> \E j \in DOMAIN units : LeftAt(j, n)
      BY DEF Left
    <2>3. n \in hashed <=> ~Left(n)
      BY <1>3 DEF Accounted
    <2>4. LeftAt(i, n)' <=> LeftAt(i, n) /\ n \notin H
      BY <1>3
    <2>5. Left(n)' <=> Left(n) /\ n \notin H
      BY <1>2, <2>1, <2>2, <2>4
    <2> QED BY <2>3, <2>5
  <1>4. meta' = meta
    BY DEF StepOK
  <1> QED BY <1>1, <1>3, <1>4 DEF Accounted

(* A step in which a thread goes on with its unit. *)
LEMMA HeldStep ==
  ASSUME SoundInv, SoundInv', NEW t \in Threads, StepOK(t), UniqueIds, Pace, Accounted,
         NEW i \in DOMAIN units, Mine(t, i), Holds(t), Holds(t)',
         \A j \in DOMAIN units : j # i => units'[j] = units[j],
         thr'[t].id = thr[t].id, thr'[t].end = thr[t].end, InPace(t, i)',
         NEW H \in SUBSET Nat, hashed' = hashed \cup H,
         \A n \in H : units[i].start <= n /\ n < units[i].end,
         \A n \in Nat : Past(t, n)' <=> Past(t, n) \/ n \in H
  PROVE  Pace' /\ Accounted'
  <1>0. /\ Types /\ ThreadsOK /\ Apart(units) /\ meta[2] \in Ranges /\ DOMAIN units' = DOMAIN units
        /\ \A j \in DOMAIN units : units'[j].id = units[j].id
    BY AtWork, TouchedIsLocal DEF SoundInv, StepOK, Shaped
  <1>1. HeldIs /\ HeldIs'
    <2>1. Types' /\ ThreadsOK'
      BY DEF SoundInv
    <2>2. HeldIs
      BY <1>0, HeldIsLeft
    <2>3. Types /\ ThreadsOK => HeldIs
      BY HeldIsLeft
    <2>4. (Types /\ ThreadsOK => HeldIs)'
      BY HeldIsLeft, PTL
    <2> QED BY <2>1, <2>2, <2>4
  <1>2. Mine(t, i)'
    <2>1. PICK k \in DOMAIN units' : Mine(t, k)'
      BY DEF StepOK, HasUnit
    <2>2. k \in DOMAIN units /\ units[k].id = thr[t].id
      BY <1>0, <2>1 DEF Mine
    <2>3. k = i
      BY <2>2 DEF Mine, UniqueIds
    <2> QED BY <2>1, <2>3
  <1>3. ASSUME NEW n \in Nat
        PROVE  LeftAt(i, n)' <=> LeftAt(i, n) /\ n \notin H
    <2>1. LeftAt(i, n) <=> n < thr[t].end /\ ~Past(t, n)
      BY <1>1 DEF HeldIs
    <2>2. LeftAt(i, n)' <=> n < thr'[t].end /\ ~Past(t, n)'
      BY <1>0, <1>1, <1>2 DEF HeldIs
    <2> QED BY <2>1, <2>2
  <1>4. Nonces(meta[2]) \subseteq Nat
    BY <1>0, CutsInOrder DEF Nonces
  <1>5. ASSUME NEW n \in H, NEW j \in DOMAIN units, j # i, LeftAt(j, n)
        PROVE  FALSE
    <2>1. Open(units[i]) /\ Open(units[j])
      BY <1>5 DEF Mine, Open, LeftAt
    <2>2. units[i].end <= units[j].start \/ units[j].end <= units[i].start
      BY <1>0, <1>5, <2>1 DEF Apart
    <2>3. /\ units[i].start \in Nat /\ units[i].end \in Nat /\ units[j].start \in Nat
          /\ units[j].end \in Nat /\ units[j].next \in Nat /\ units[j].start <= units[j].next
      BY <1>0, UnitFields DEF Types
    <2>4. n \in Nat /\ units[j].next <= n /\ n < units[j].end
      BY <1>5, <2>3 DEF LeftAt
    <2> QED BY <1>5, <2>2, <2>3, <2>4
  <1>6. thr[t].id = units[i].id
    BY DEF Mine
  <1> QED BY <1>3, <1>4, <1>5, <1>6, ExactStep

(* The unit with the id of the thread is the one it scans. *)
LEMMA IdIsMine ==
  ASSUME UniqueIds, NEW t \in Threads, NEW i \in DOMAIN units, Mine(t, i)
  PROVE  WithId(thr[t].id) = {i}
BY DEF UniqueIds, Mine, WithId

(* After the flush the cursor of the unit is where the thread is. *)
LEMMA LeaveLoopIsExact ==
  ASSUME SoundInv, SoundInv', NEW t \in Threads, LeaveLoop(t), UniqueIds, Pace, Accounted
  PROVE  Pace' /\ Accounted'
  <1>0. Types /\ ThreadsOK /\ Apart(units) /\ HasUnit(t) /\ thr[t].pc = "scan" /\ Holds(t)
    BY AtWork DEF LeaveLoop, Holds, Holding
  <1>1. StepOK(t)
    BY LeaveLoopStep
  <1>2. PICK i \in DOMAIN units : Mine(t, i)
    BY <1>0 DEF HasUnit
  <1>3. /\ thr[t] \in ThreadState /\ thr \in [Threads -> ThreadState]
        /\ thr[t].next \in Nat /\ thr[t].next <= thr[t].end
        /\ units \in [DOMAIN units -> Unit] /\ units[i] \in Unit /\ units[i].next \in Nat
        /\ thr[t].pending \in Nat /\ thr[t].next <= thr[t].next
    BY <1>0, ThreadFields, UnitFields DEF Types
  <1>4. /\ thr'[t].pc = "settle" /\ thr'[t].pending = 0 /\ thr'[t].next = thr[t].next
        /\ thr'[t].id = thr[t].id /\ thr'[t].end = thr[t].end
    BY <1>3 DEF LeaveLoop, ThreadState
  <1>5. units[i].next + thr[t].pending = thr[t].next
    BY <1>0, <1>2 DEF Pace, Mine, InPace
  <1>6. /\ units'[i].next = thr[t].next
        /\ \A j \in DOMAIN units : j # i => units'[j] = units[j]
    <2>1. CASE thr[t].pending = 0
      <3>1. units' = units /\ units[i].next = thr[t].next
        BY <1>3, <1>5, <2>1 DEF LeaveLoop
      <3> QED BY <3>1
    <2>2. CASE thr[t].pending # 0
      <3> DEFINE m == thr[t].next
      <3>1. /\ units' = UpdateProgress(thr[t].id, m)
            /\ m \in Nat /\ thr[t].next <= m /\ m <= thr[t].end
        BY <1>3, <2>2 DEF LeaveLoop
      <3> HIDE DEF m
      <3>2. units' = [units EXCEPT ![i].next = m]
        BY <1>0, <1>2, <3>1, IdIsMine, UpdateMovesMine
      <3> QED BY <1>3, <3>2 DEF Unit, m
    <2> QED BY <2>1, <2>2
  <1>7. Holds(t)' /\ InPace(t, i)'
    BY <1>3, <1>4, <1>6 DEF Holds, Holding, InPace
  <1> DEFINE H == {}
  <1>8. \A n \in Nat : Past(t, n)' <=> Past(t, n) \/ n \in H
    BY <1>0, <1>4 DEF Past
  <1>9. /\ hashed' = hashed \cup H /\ H \in SUBSET Nat
        /\ \A n \in H : units[i].start <= n /\ n < units[i].end
    BY DEF LeaveLoop
  <1> HIDE DEF H
  <1> QED BY <1>0, <1>1, <1>2, <1>4, <1>6, <1>7, <1>8, <1>9, HeldStep

(* The cursor moves past the nonce that was hashed, and is published when the
   batch is full. *)
LEMMA PublishIsExact ==
  ASSUME SoundInv, SoundInv', NEW t \in Threads, thr[t].pc \in {"hash", "save"}, Publish(t),
         StepOK(t), UniqueIds, Pace, Accounted,
         hashed' = hashed \cup (IF thr[t].pc = "hash" THEN {thr[t].next} ELSE {})
  PROVE  Pace' /\ Accounted'
  <1>0. Types /\ ThreadsOK /\ Apart(units) /\ HasUnit(t) /\ Holds(t) /\ AtNonce(t)
    BY AtWork DEF Holds, Holding
  <1>2. PICK i \in DOMAIN units : Mine(t, i)
    BY <1>0 DEF HasUnit
  <1> DEFINE m == thr[t].next + 1
             p == IF thr[t].pending + 1 = Batch THEN 0 ELSE thr[t].pending + 1
             H == IF thr[t].pc = "hash" THEN {thr[t].next} ELSE {}
  <1>3. /\ thr[t] \in ThreadState /\ thr \in [Threads -> ThreadState]
        /\ thr[t].next \in Nat /\ thr[t].end \in Nat /\ thr[t].next < thr[t].end
        /\ units \in [DOMAIN units -> Unit] /\ units[i] \in Unit
        /\ thr[t].pending \in Nat
    BY <1>0, ThreadFields, UnitFields DEF Types, AtNonce
  <1>a. /\ units[i].next \in Nat /\ units[i].start \in Nat /\ units[i].start <= units[i].next
        /\ units[i].next <= thr[t].next /\ units[i].end = thr[t].end
    BY <1>0, <1>2, UnitFields DEF Types, Mine
  <1>b. m \in Nat /\ thr[t].next <= m /\ m <= thr[t].end /\ p \in Nat
    BY <1>3
  <1>4. /\ thr'[t].pc = "scan" /\ thr'[t].pending = p /\ thr'[t].next = m
        /\ thr'[t].id = thr[t].id /\ thr'[t].end = thr[t].end
    BY <1>3 DEF Publish, ThreadState
  <1>5. units[i].next + thr[t].pending = thr[t].next
    BY <1>0, <1>2 DEF Pace, Mine, InPace
  <1>6. /\ units'[i].next + p = m
        /\ \A j \in DOMAIN units : j # i => units'[j] = units[j]
    <2>1. CASE thr[t].pending + 1 # Batch
      <3>1. units' = units /\ p = thr[t].pending + 1
        BY <2>1 DEF Publish
      <3>2. units[i].next + (thr[t].pending + 1) = m
        BY <1>3, <1>a, <1>5
      <3> QED BY <3>1, <3>2
    <2>2. CASE thr[t].pending + 1 = Batch
      <3>1. units' = UpdateProgress(thr[t].id, m) /\ p = 0
        BY <2>2 DEF Publish
      <3>2. units' = [units EXCEPT ![i].next = m]
        BY <1>0, <1>2, <1>b, <3>1, IdIsMine, UpdateMovesMine
      <3>3. units'[i].next = m /\ \A j \in DOMAIN units : j # i => units'[j] = units[j]
        BY <1>3, <3>2 DEF Unit
      <3> QED BY <1>b, <3>1, <3>3
    <2> QED BY <2>1, <2>2
  <1>7. Holds(t)' /\ InPace(t, i)'
    BY <1>4, <1>6 DEF Holds, Holding, InPace
  <1>8. \A n \in Nat : Past(t, n)' <=> Past(t, n) \/ n \in H
    <2>1. \A n \in Nat : Past(t, n)' <=> n < thr[t].next \/ n = thr[t].next
      BY <1>3, <1>4 DEF Past
    <2>2. CASE thr[t].pc = "hash"
      BY <2>1, <2>2 DEF Past
    <2>3. CASE thr[t].pc = "save"
      BY <2>1, <2>3 DEF Past
    <2> QED BY <2>2, <2>3
  <1>9. H \in SUBSET Nat /\ \A n \in H : units[i].start <= n /\ n < units[i].end
    BY <1>3, <1>a
  <1> HIDE DEF m, p
  <1>10. hashed' = hashed \cup H
    OBVIOUS
  <1> HIDE DEF H
  <1> QED BY <1>0, <1>2, <1>4, <1>6, <1>7, <1>8, <1>9, <1>10, HeldStep

(* A nonce is behind the thread when it was hashed, and no other one is. *)
LEMMA HashIsExact ==
  ASSUME SoundInv, SoundInv', NEW t \in Threads, Hash(t), UniqueIds, Pace, Accounted
  PROVE  Pace' /\ Accounted'
  <1>0. /\ Types /\ ThreadsOK /\ HasUnit(t) /\ AtNonce(t) /\ thr[t].pc = "hash" /\ Holds(t)
        /\ hashed' = hashed \cup {thr[t].next}
    BY AtWork DEF Hash, Holds, Holding
  <1>1. StepOK(t)
    BY HashStep
  <1>2. CASE ~(IsHit(t) /\ ~found)
    BY <1>0, <1>1, <1>2, PublishIsExact DEF Hash
  <1>3. CASE IsHit(t) /\ ~found
    <2>1. PICK i \in DOMAIN units : Mine(t, i)
      BY <1>0 DEF HasUnit
    <2>2. /\ thr[t] \in ThreadState /\ thr \in [Threads -> ThreadState] /\ thr[t].next \in Nat
          /\ thr[t].next < thr[t].end /\ thr[t].end \in Nat
      BY <1>0, ThreadFields DEF Types, AtNonce
    <2>a. /\ units[i].next \in Nat /\ units[i].start \in Nat /\ units[i].start <= units[i].next
          /\ units[i].next <= thr[t].next /\ units[i].end = thr[t].end
      BY <1>0, <2>1, UnitFields DEF Types, Mine
    <2>3. units' = units /\ thr' = [thr EXCEPT ![t].pc = "save"]
      BY <1>3 DEF Hash
    <2>4. /\ thr'[t].pc = "save" /\ thr'[t].pending = thr[t].pending /\ thr'[t].next = thr[t].next
          /\ thr'[t].id = thr[t].id /\ thr'[t].end = thr[t].end
      BY <2>2, <2>3 DEF ThreadState
    <2>5. InPace(t, i)
      BY <1>0, <2>1 DEF Pace, Mine
    <2>6. Holds(t)' /\ InPace(t, i)'
      BY <2>3, <2>4, <2>5 DEF Holds, Holding, InPace
    <2>7. \A n \in Nat : Past(t, n)' <=> Past(t, n) \/ n \in {thr[t].next}
      BY <1>0, <2>4 DEF Past
    <2>8. {thr[t].next} \in SUBSET Nat /\ \A n \in {thr[t].next} : units[i].start <= n /\ n < units[i].end
      BY <2>2, <2>a
    <2>9. \A j \in DOMAIN units : j # i => units'[j] = units[j]
      BY <2>3
    <2> DEFINE H == {thr[t].next}
    <2>10. /\ H \in SUBSET Nat /\ \A n \in H : units[i].start <= n /\ n < units[i].end
           /\ hashed' = hashed \cup H /\ \A n \in Nat : Past(t, n)' <=> Past(t, n) \/ n \in H
      BY <1>0, <2>7, <2>8
    <2> HIDE DEF H
    <2> QED BY <1>0, <1>1, <2>1, <2>4, <2>6, <2>9, <2>10, HeldStep
  <1> QED BY <1>2, <1>3

(* The unit that is completed has nothing left. *)
LEMMA CompleteIsExact ==
  ASSUME SoundInv, NEW t \in Threads, CompleteUnit(t), UniqueIds, Pace, Accounted
  PROVE  Pace' /\ Accounted'
  <1>0. /\ Types /\ ThreadsOK /\ Apart(units) /\ HasUnit(t) /\ thr[t].pc = "settle" /\ Holds(t)
        /\ thr[t].next >= thr[t].end /\ meta[2] \in Ranges
    BY AtWork DEF CompleteUnit, Holds, Holding
  <1>1. StepOK(t)
    BY CompleteStep
  <1>2. PICK i \in DOMAIN units : Mine(t, i)
    BY <1>0 DEF HasUnit
  <1>3. /\ thr[t] \in ThreadState /\ thr \in [Threads -> ThreadState]
        /\ units \in [DOMAIN units -> Unit] /\ units[i] \in Unit
        /\ thr[t].next \in Nat /\ thr[t].end \in Nat
    BY <1>0, ThreadFields, UnitFields DEF Types
  <1>4. units' = [units EXCEPT ![i].next = units[i].end, ![i].status = "complete"]
    BY <1>0, <1>2, IdIsMine, CompleteEndsMine DEF CompleteUnit
  <1>5. units'[i].status = "complete" /\ \A j \in DOMAIN units : j # i => units'[j] = units[j]
    BY <1>3, <1>4 DEF Unit
  <1>6. thr'[t].pc = "check"
    BY <1>3 DEF CompleteUnit, ThreadState
  <1>7. ~Holds(t)' /\ thr[t].id = units[i].id
    BY <1>2, <1>6 DEF Holds, Holding, Mine
  <1>8. Nonces(meta[2]) \subseteq Nat
    BY <1>0, CutsInOrder DEF Nonces
  <1>9. ASSUME NEW n \in Nat
        PROVE  ~LeftAt(i, n) /\ ~LeftAt(i, n)'
    <2>1. LeftAt(i, n) <=> n < thr[t].end /\ ~Past(t, n)
      BY <1>0, <1>2, HeldIsLeft DEF HeldIs
    <2>2. n < thr[t].end => n < thr[t].next
      BY <1>0, <1>3
    <2>3. ~LeftAt(i, n)
      BY <2>1, <2>2 DEF Past
    <2>4. ~LeftAt(i, n)'
      BY <1>5 DEF LeftAt, Open
    <2> QED BY <2>3, <2>4
  <1> DEFINE H == {}
  <1>10. /\ hashed' = hashed \cup H
         /\ \A n \in Nonces(meta[2]) : LeftAt(i, n)' <=> LeftAt(i, n) /\ n \notin H
         /\ \A n \in H, j \in DOMAIN units : j # i => ~LeftAt(j, n)
    BY <1>8, <1>9 DEF CompleteUnit
  <1> HIDE DEF H
  <1> QED BY <1>1, <1>5, <1>7, <1>10, ExactStep

(* What a thread gives back is what it did not hash. *)
LEMMA ReleaseIsExact ==
  ASSUME SoundInv, NEW t \in Threads, ReleaseUnit(t), UniqueIds, Pace, Accounted
  PROVE  Pace' /\ Accounted'
  <1>0. /\ Types /\ ThreadsOK /\ Apart(units) /\ HasUnit(t) /\ thr[t].pc = "settle" /\ Holds(t)
        /\ meta[2] \in Ranges
    BY AtWork DEF ReleaseUnit, Holds, Holding
  <1>1. StepOK(t)
    BY ReleaseStep
  <1>2. PICK i \in DOMAIN units : Mine(t, i)
    BY <1>0 DEF HasUnit
  <1>3. /\ thr[t] \in ThreadState /\ thr \in [Threads -> ThreadState]
        /\ units \in [DOMAIN units -> Unit] /\ units[i] \in Unit
        /\ thr[t].next \in Nat /\ thr[t].end \in Nat /\ units[i].next \in Nat
    BY <1>0, ThreadFields, UnitFields DEF Types
  <1>4. units' = [units EXCEPT ![i].status = "pending"]
    BY <1>0, <1>2, ReleaseGivesMine DEF ReleaseUnit
  <1>5. /\ units'[i].status = "pending" /\ units'[i].next = units[i].next
        /\ units'[i].end = units[i].end /\ units'[i].id = units[i].id
        /\ \A j \in DOMAIN units : j # i => units'[j] = units[j]
    BY <1>3, <1>4 DEF Unit
  <1>6. thr'[t].pc = "check" /\ \A s \in Threads \ {t} : thr'[s] = thr[s]
    BY <1>3 DEF ReleaseUnit, ThreadState
  <1>7. ~Holds(t)' /\ thr[t].id = units[i].id
    BY <1>2, <1>6 DEF Holds, Holding, Mine
  <1>8. Nonces(meta[2]) \subseteq Nat
    BY <1>0, CutsInOrder DEF Nonces
  <1>9. units[i].next = thr[t].next /\ units[i].end = thr[t].end
    <2>1. units[i].next + thr[t].pending = thr[t].next /\ thr[t].pending = 0
      BY <1>0, <1>7 DEF Pace, InPace
    <2> QED BY <1>2, <1>3, <2>1 DEF Mine
  <1>10. ASSUME NEW n \in Nat
         PROVE  LeftAt(i, n)' <=> LeftAt(i, n)
    <2>1. LeftAt(i, n) <=> n < thr[t].end /\ ~Past(t, n)
      BY <1>0, <1>2, HeldIsLeft DEF HeldIs
    <2>2. LeftAt(i, n) <=> n < units[i].end /\ units[i].next <= n
      BY <1>0, <1>3, <1>9, <2>1 DEF Past
    <2>3. \A s \in Threads : Holds(s)' => thr'[s].id # units[i].id
      BY <1>0, <1>6, <1>7 DEF Holds, ThreadsOK, Alone
    <2>4. ~Passed(units[i].id, n)'
      BY <1>5, <2>3 DEF Passed
    <2>5. LeftAt(i, n)' <=> n \in units[i].next..(units[i].end - 1)
      BY <1>5, <2>4 DEF LeftAt, Open
    <2> QED BY <1>3, <1>9, <2>2, <2>5
  <1> DEFINE H == {}
  <1>11. /\ hashed' = hashed \cup H
         /\ \A n \in Nonces(meta[2]) : LeftAt(i, n)' <=> LeftAt(i, n) /\ n \notin H
         /\ \A n \in H, j \in DOMAIN units : j # i => ~LeftAt(j, n)
    BY <1>8, <1>10 DEF ReleaseUnit
  <1> HIDE DEF H
  <1> QED BY <1>1, <1>5, <1>7, <1>11, ExactStep

(* The thread starts where the cursor of the unit is. *)
LEMMA AcquireIsExact ==
  ASSUME SoundInv, SoundInv', NEW t \in Threads, Acquire(t), UniqueIds, Pace, Accounted
  PROVE  Pace' /\ Accounted'
  <1>0. Types /\ ThreadsOK /\ thr[t].pc = "acquire" /\ ~Holds(t) /\ meta[2] \in Ranges
    BY AtWork DEF Acquire, Holds, Holding
  <1>1. StepOK(t)
    BY AcquireStep
  <1>2. PICK i \in DOMAIN units :
          /\ IsFirst(Acquirable, i)
          /\ units' = [units EXCEPT ![i].status = "in_progress"]
          /\ thr' = [thr EXCEPT ![t].pc = "scan", ![t].id = units[i].id,
                       ![t].next = units[i].next, ![t].end = units[i].end, ![t].pending = 0]
    BY DEF Acquire
  <1>3. /\ thr[t] \in ThreadState /\ thr \in [Threads -> ThreadState]
        /\ units \in [DOMAIN units -> Unit] /\ units[i] \in Unit
        /\ units[i].next \in Nat /\ units[i].end \in Nat
    BY <1>0, ThreadFields, UnitFields DEF Types
  <1>4. /\ units'[i].status = "in_progress" /\ units'[i].next = units[i].next
        /\ units'[i].end = units[i].end /\ units'[i].id = units[i].id /\ i \in DOMAIN units'
        /\ \A j \in DOMAIN units : j # i => units'[j] = units[j]
    BY <1>2, <1>3 DEF Unit
  <1>5. /\ thr'[t].pc = "scan" /\ thr'[t].id = units[i].id /\ thr'[t].next = units[i].next
        /\ thr'[t].end = units[i].end /\ thr'[t].pending = 0
    BY <1>2, <1>3 DEF ThreadState
  <1>6. Holds(t)' /\ InPace(t, i)' /\ Mine(t, i)'
    BY <1>3, <1>4, <1>5 DEF Holds, Holding, InPace, Mine
  <1>7. units[i].status = "pending"
    BY <1>2 DEF IsFirst, Acquirable
  <1>8. Nonces(meta[2]) \subseteq Nat
    BY <1>0, CutsInOrder DEF Nonces
  <1>9. HeldIs'
    <2>1. Types' /\ ThreadsOK'
      BY DEF SoundInv
    <2>2. Types /\ ThreadsOK => HeldIs
      BY HeldIsLeft
    <2>3. (Types /\ ThreadsOK => HeldIs)'
      BY HeldIsLeft, PTL
    <2> QED BY <2>1, <2>3
  <1>10. ASSUME NEW n \in Nat
         PROVE  LeftAt(i, n)' <=> LeftAt(i, n)
    <2>1. LeftAt(i, n)' <=> n < thr'[t].end /\ ~Past(t, n)'
      BY <1>4, <1>6, <1>9 DEF HeldIs
    <2>2. LeftAt(i, n)' <=> n < units[i].end /\ units[i].next <= n
      BY <1>3, <1>5, <2>1 DEF Past
    <2>3. ASSUME NEW s \in Threads, Holds(s), thr[s].id = units[i].id
          PROVE  FALSE
      <3>1. PICK k \in DOMAIN units : Mine(s, k)
        BY <1>0, <2>3 DEF ThreadsOK, HasUnit
      <3>2. k = i
        BY <2>3, <3>1 DEF Mine, UniqueIds
      <3> QED BY <1>7, <3>1, <3>2 DEF Mine
    <2>4. ~Passed(units[i].id, n)
      BY <2>3 DEF Passed
    <2>5. LeftAt(i, n) <=> n \in units[i].next..(units[i].end - 1)
      BY <1>7, <2>4 DEF LeftAt, Open
    <2> QED BY <1>3, <2>2, <2>5
  <1> DEFINE H == {}
  <1>11. /\ hashed' = hashed \cup H
         /\ \A n \in Nonces(meta[2]) : LeftAt(i, n)' <=> LeftAt(i, n) /\ n \notin H
         /\ \A n \in H, j \in DOMAIN units : j # i => ~LeftAt(j, n)
    BY <1>8, <1>10 DEF Acquire
  <1> HIDE DEF H
  <1> QED BY <1>0, <1>1, <1>4, <1>5, <1>6, <1>11, ExactStep

(* A process starts with what the file says is left, or with everything. *)
LEMMA StartIsExact ==
  ASSUME SoundInv, SoundInv', NEW h \in Headers, NEW r \in Ranges, Start(h, r)
  PROVE  Pace' /\ Accounted'
  <1> DEFINE us == disk.units
             L == LoadExisting(us)
             st == [disk EXCEPT !.units = L]
  <1>1. /\ meta' = <<h, r>> /\ thr' = [t \in Threads |-> NoThread("check")]
        /\ hashed' = IF Compatible(st, h, r) THEN Nonces(r) \ Waiting(us) ELSE {}
        /\ units' = PrepareHistorical(st, h, r)
    BY DEF Start
  <1>2. disk \in [units : Seq(Unit), meta : Metas] /\ GoodUnits(us)
    BY DEF SoundInv, Types
  <1>3. GoodUnits(L) /\ Waiting(L) = Waiting(us) /\ st.units = L
    BY <1>2, LoadKeeps
  <1> HIDE DEF us, L, st
  <1>4. \A t \in Threads : thr'[t].pc = "check"
    BY <1>1, IdleThreads
  <1>5. \A t \in Threads : ~Holds(t)'
    BY <1>4 DEF Holds, Holding
  <1>6. Pace'
    BY <1>5 DEF Pace
  <1>7. ASSUME NEW n
        PROVE  Left(n)' <=> n \in Waiting(units')
    <2>1. \A i \in DOMAIN units' : ~Passed(units[i].id, n)'
      BY <1>5 DEF Passed
    <2>2. Left(n)' <=> \E i \in DOMAIN units' :
                         Open(units'[i]) /\ n \in units'[i].next..(units'[i].end - 1)
      BY <2>1 DEF Left, LeftAt, Open
    <2> QED BY <2>2, WaitingIs
  <1>8. \A n \in Nonces(r) : n \in hashed' <=> n \notin Waiting(units')
    <2>1. CASE Compatible(st, h, r)
      BY <1>1, <1>3, <2>1 DEF PrepareHistorical
    <2>2. CASE ~Compatible(st, h, r)
      <3>1. units' = MarkStale(L) \o ScanUnits(h, r) /\ hashed' = {}
        BY <1>1, <1>3, <2>2 DEF PrepareHistorical
      <3>2. Waiting(units') = Nonces(r)
        <4>1. Fresh(units', L, h, r)
          BY <1>3, <3>1, RangeIsCut
        <4> QED BY <4>1 DEF Fresh
      <3> QED BY <3>1, <3>2
    <2> QED BY <2>1, <2>2
  <1>9. meta'[2] = r
    BY <1>1
  <1>10. Accounted'
    BY <1>7, <1>8, <1>9 DEF Accounted
  <1> QED BY <1>6, <1>10

(* As long as the ids tell the units apart, every nonce stays accounted for. *)
LEMMA NextKeepsExact ==
  ASSUME SoundInv, SoundInv', UniqueIds, ExactInv, [Next]_vars
  PROVE  ExactInv'
  <1> SUFFICES ASSUME main' # "off"
               PROVE  Pace' /\ Accounted'
    BY DEF ExactInv
  <1>1. CASE \E h \in Headers, r \in Ranges : Start(h, r)
    BY <1>1, StartIsExact
  <1>2. CASE \E t \in Threads : Worker(t)
    <2>1. PICK t \in Threads : Worker(t)
      BY <1>2
    <2>2. thr[t].pc # "done"
      BY <2>1 DEF Worker, Check, Acquire, AcquireNone, EnterLoop, LeaveLoop, Hash, SaveCandidate,
                  CompleteUnit, ReleaseUnit
    <2>3. Pace /\ Accounted
      <3>1. main # "off"
        BY <2>2 DEF SoundInv, MainOK, AllDone
      <3> QED BY <3>1 DEF ExactInv
    <2>4. CASE Check(t) \/ AcquireNone(t) \/ EnterLoop(t)
      <3>1. UNCHANGED <<units, meta, hashed>>
        BY <2>4 DEF Check, AcquireNone, EnterLoop
      <3>2. PICK pc : /\ thr' = [thr EXCEPT ![t].pc = pc]
                      /\ (pc \in Holding <=> thr[t].pc \in Holding)
                      /\ pc \notin {"save", "settle"} /\ thr[t].pc \notin {"save", "settle"}
        <4>1. \/ /\ thr' = [thr EXCEPT ![t].pc = "done"] /\ thr[t].pc \in {"check", "acquire"}
              \/ /\ thr' = [thr EXCEPT ![t].pc = "acquire"] /\ thr[t].pc = "check"
              \/ /\ thr' = [thr EXCEPT ![t].pc = "hash"] /\ thr[t].pc = "scan"
          <5>1. CASE Check(t)
            <6>1. CASE thr[t].stop \/ Interrupted
              BY <5>1, <6>1 DEF Check
            <6>2. CASE ~(thr[t].stop \/ Interrupted)
              BY <5>1, <6>2 DEF Check
            <6> QED BY <6>1, <6>2
          <5>2. CASE AcquireNone(t)
            BY <5>2 DEF AcquireNone
          <5>3. CASE EnterLoop(t)
            BY <5>3 DEF EnterLoop
          <5> QED BY <2>4, <5>1, <5>2, <5>3
        <4>2. CASE thr' = [thr EXCEPT ![t].pc = "done"] /\ thr[t].pc \in {"check", "acquire"}
          <5>1. /\ "done" \in Holding <=> thr[t].pc \in Holding
                /\ "done" \notin {"save", "settle"} /\ thr[t].pc \notin {"save", "settle"}
            BY <4>2 DEF Holding
          <5> QED BY <4>2, <5>1, Zenon
        <4>3. CASE thr' = [thr EXCEPT ![t].pc = "acquire"] /\ thr[t].pc = "check"
          <5>1. /\ "acquire" \in Holding <=> thr[t].pc \in Holding
                /\ "acquire" \notin {"save", "settle"} /\ thr[t].pc \notin {"save", "settle"}
            BY <4>3 DEF Holding
          <5> QED BY <4>3, <5>1, Zenon
        <4>4. CASE thr' = [thr EXCEPT ![t].pc = "hash"] /\ thr[t].pc = "scan"
          <5>1. /\ "hash" \in Holding <=> thr[t].pc \in Holding
                /\ "hash" \notin {"save", "settle"} /\ thr[t].pc \notin {"save", "settle"}
            BY <4>4 DEF Holding
          <5> QED BY <4>4, <5>1, Zenon
        <4> QED BY <4>1, <4>2, <4>3, <4>4
      <3>3. thr \in [Threads -> ThreadState] /\ thr[t] \in ThreadState
        BY DEF SoundInv, Types
      <3>4. /\ thr'[t].pc = pc /\ thr'[t].id = thr[t].id /\ thr'[t].next = thr[t].next
            /\ thr'[t].pending = thr[t].pending /\ \A s \in Threads \ {t} : thr'[s] = thr[s]
        BY <3>2, <3>3 DEF ThreadState
      <3>5. \A s \in Threads :
              /\ Holds(s)' <=> Holds(s)
              /\ thr'[s].id = thr[s].id /\ thr'[s].next = thr[s].next
              /\ thr'[s].pending = thr[s].pending
              /\ thr'[s].pc = "save" <=> thr[s].pc = "save"
              /\ thr'[s].pc = "settle" => thr[s].pc = "settle"
        BY <3>2, <3>4 DEF Holds
      <3> QED BY <2>3, <3>1, <3>5, SameProgress
    <2>5. CASE Acquire(t)
      BY <2>3, <2>5, AcquireIsExact
    <2>6. CASE LeaveLoop(t)
      BY <2>3, <2>6, LeaveLoopIsExact
    <2>7. CASE Hash(t)
      BY <2>3, <2>7, HashIsExact
    <2>8. CASE SaveCandidate(t)
      <3>1. StepOK(t) /\ Publish(t) /\ thr[t].pc = "save" /\ hashed' = hashed
        BY <2>8, SaveStep DEF SaveCandidate
      <3>2. hashed' = hashed \cup (IF thr[t].pc = "hash" THEN {thr[t].next} ELSE {})
        BY <3>1
      <3> QED BY <2>3, <3>1, <3>2, PublishIsExact
    <2>9. CASE CompleteUnit(t)
      BY <2>3, <2>9, CompleteIsExact
    <2>10. CASE ReleaseUnit(t)
      BY <2>3, <2>10, ReleaseIsExact
    <2> QED BY <2>1, <2>4, <2>5, <2>6, <2>7, <2>8, <2>9, <2>10 DEF Worker
  <1>3. CASE MainThread \/ PeriodicSaveFails \/ CtrlC \/ UNCHANGED vars
    <2>1. UNCHANGED <<units, meta, hashed>>
      BY <1>3 DEF MainThread, Sleep, Wake, EndWatch, Joined, FinalSave, PeriodicSaveFails, CtrlC, vars
    <2>2. main # "off"
      BY <1>3 DEF MainThread, Sleep, Wake, EndWatch, Joined, FinalSave, PeriodicSaveFails, CtrlC,
                  Running, vars
    <2>3. SameThreads
      <3>1. CASE AskStop
        BY <3>1, AskStopSameThreads DEF SoundInv
      <3>2. CASE thr' = thr
        BY <3>2 DEF SameThreads
      <3> QED BY <1>3, <3>1, <3>2
           DEF MainThread, Sleep, Wake, EndWatch, Joined, FinalSave, PeriodicSaveFails, CtrlC, vars
    <2>4. \A s \in Threads :
            /\ Holds(s)' <=> Holds(s)
            /\ thr'[s].id = thr[s].id /\ thr'[s].next = thr[s].next
            /\ thr'[s].pending = thr[s].pending
            /\ thr'[s].pc = "save" <=> thr[s].pc = "save"
            /\ thr'[s].pc = "settle" => thr[s].pc = "settle"
      BY <2>3 DEF SameThreads, Holds
    <2>5. Pace /\ Accounted
      BY <2>2 DEF ExactInv
    <2> QED BY <2>1, <2>4, <2>5, SameProgress
  <1>4. CASE Crash
    BY <1>4 DEF Crash
  <1> QED BY <1>1, <1>2, <1>3, <1>4 DEF Next, Ended

(* In the last checkpoint what waits is exactly what was not hashed. *)
LEMMA ExactAtExit ==
  ASSUME SoundInv, ExactInv
  PROVE  CleanStopIsExact
  <1> SUFFICES ASSUME main = "exited"
               PROVE  Waiting(disk.units) = Nonces(meta[2]) \ hashed
    BY DEF CleanStopIsExact
  <1>1. /\ Types /\ AllDone /\ disk = [units |-> units, meta |-> meta] /\ meta # NoMeta
        /\ Inside(units, meta) /\ Accounted
    BY DEF SoundInv, MainOK, Sound, ExactInv
  <1>2. \A t \in Threads : ~Holds(t)
    BY <1>1 DEF AllDone, Holds, Holding
  <1>3. \A n : Left(n) <=> n \in Waiting(units)
    BY <1>2, WaitingIs DEF Left, LeftAt, Passed
  <1>4. ASSUME NEW n \in Waiting(units)
        PROVE  n \in Nonces(meta[2])
    <2>1. PICK i \in DOMAIN units : Open(units[i]) /\ n \in units[i].next..(units[i].end - 1)
      BY <1>4, WaitingIs
    <2>2. /\ units[i].start \in Nat /\ units[i].next \in Nat /\ units[i].end \in Nat
          /\ units[i].start <= units[i].next
      BY <1>1, UnitFields DEF Types
    <2>3. meta[2] \in Ranges
      BY <1>1 DEF Types, Metas
    <2>4. /\ meta[2][1] \in Nat /\ meta[2][2] \in Nat /\ meta[2][1] <= units[i].start
          /\ units[i].end <= meta[2][2]
      BY <1>1, <2>1, <2>3, CutsInOrder DEF Inside
    <2> QED BY <2>1, <2>2, <2>4 DEF Nonces
  <1>5. \A n \in Nonces(meta[2]) : n \in hashed <=> n \notin Waiting(units)
    BY <1>1, <1>3 DEF Accounted
  <1>6. disk.units = units
    BY <1>1
  <1> QED BY <1>4, <1>5, <1>6

(* README, "a clean stop resumes exactly": in every execution in which no two
   units share an id, the last checkpoint of run_historical leaves exactly the
   nonces that were not hashed. *)
THEOREM CleanStopIsExactHolds == Spec /\ []UniqueIds => []CleanStopIsExact
  <1>1. Init => ExactInv
    BY DEF Init, ExactInv
  <1>2. SoundInv /\ SoundInv' /\ UniqueIds /\ ExactInv /\ [Next]_vars => ExactInv'
    BY NextKeepsExact
  <1>3. SoundInv /\ ExactInv => CleanStopIsExact
    BY ExactAtExit
  <1> QED BY <1>1, <1>2, <1>3, ScanIsSound, PTL DEF Spec

-----------------------------------------------------------------------------
(* One header and one range: the ids do tell the units apart. *)

OneSearch == \A g, h \in Headers, q, r \in Ranges : g = h /\ q = r

(* What the memory and the file hold when there is one search only. *)
OneRecord(us, m) ==
  /\ m = NoMeta <=> DOMAIN us = {}
  /\ \A i, j \in DOMAIN us : us[i].id = us[j].id => i = j
  /\ \A i \in DOMAIN us : us[i].status # "stale"

OneInv == OneRecord(disk.units, disk.meta) /\ OneRecord(units, meta)

(* A thread never makes a unit stale. *)
LEMMA WorkerNeverStale ==
  ASSUME Types, NEW t \in Threads, Worker(t), NEW i \in DOMAIN units, units[i].status # "stale"
  PROVE  units'[i].status # "stale"
  <1>1. units[i] \in Unit /\ units \in [DOMAIN units -> Unit]
    BY ThreadFields, UnitFields DEF Types
  <1>2. \A id, n : UpdateProgress(id, n)[i].status # "stale"
    BY <1>1 DEF UpdateProgress, Unit
  <1>3. \A id : Complete(id)[i].status # "stale" /\ Release(id)[i].status # "stale"
    BY <1>1 DEF Complete, Release, Unit
  <1>4. CASE Acquire(t)
    BY <1>1, <1>4 DEF Acquire, Unit
  <1>5. CASE LeaveLoop(t)
    BY <1>2, <1>5 DEF LeaveLoop
  <1>6. CASE Hash(t) \/ SaveCandidate(t)
    BY <1>2, <1>6 DEF Hash, SaveCandidate, Publish
  <1>7. CASE CompleteUnit(t) \/ ReleaseUnit(t)
    BY <1>3, <1>7 DEF CompleteUnit, ReleaseUnit
  <1>8. CASE Check(t) \/ AcquireNone(t) \/ EnterLoop(t)
    BY <1>8 DEF Check, AcquireNone, EnterLoop
  <1> QED BY <1>4, <1>5, <1>6, <1>7, <1>8 DEF Worker

(* With one search a process that starts finds its own units, or none. *)
LEMMA StartKeepsOne ==
  ASSUME OneSearch, SoundInv, OneInv, NEW h \in Headers, NEW r \in Ranges, Start(h, r)
  PROVE  OneInv'
  <1> DEFINE us == disk.units
             L == LoadExisting(us)
             st == [disk EXCEPT !.units = L]
  <1>1. meta' = <<h, r>> /\ units' = PrepareHistorical(st, h, r) /\ disk' = disk
    BY DEF Start
  <1>2. disk \in [units : Seq(Unit), meta : Metas] /\ GoodUnits(us)
    BY DEF SoundInv, Types
  <1>3. /\ GoodUnits(L) /\ st.units = L /\ st.meta = disk.meta /\ DOMAIN L = DOMAIN us
        /\ \A i \in DOMAIN us : L[i].id = us[i].id /\ (L[i].status = "stale" <=> us[i].status = "stale")
    BY <1>2, LoadKeeps
  <1>4. OneRecord(us, disk.meta)
    BY DEF OneInv
  <1> HIDE DEF us, L, st
  <1>5. <<h, r>> # NoMeta
    BY ScanAssumption
  <1>6. OneRecord(units', <<h, r>>)
    <2>1. CASE disk.meta # NoMeta
      <3>1. disk.meta = <<h, r>>
        <4>1. disk.meta \in Headers \X Ranges
          BY <1>2, <2>1 DEF Metas
        <4>2. PICK g \in Headers, q \in Ranges : disk.meta = <<g, q>>
          BY <4>1
        <4> QED BY <4>2 DEF OneSearch
      <3>2. PICK i \in DOMAIN us : TRUE
        BY <1>4, <2>1 DEF OneRecord
      <3>3. L[i].id[1] = h /\ L[i].status # "stale"
        <4>1. L[i].id \in Headers \X Threads
          BY <1>3, <3>2, UnitFields
        <4>2. L[i].id[1] \in Headers
          BY <4>1
        <4> QED BY <1>3, <1>4, <3>2, <4>2 DEF OneSearch, OneRecord
      <3>4. Compatible(st, h, r)
        BY <1>3, <3>1, <3>2, <3>3 DEF Compatible
      <3>5. units' = L
        BY <1>1, <1>3, <3>4 DEF PrepareHistorical
      <3> QED BY <1>3, <1>4, <1>5, <2>1, <3>5 DEF OneRecord
    <2>2. CASE disk.meta = NoMeta
      <3>1. DOMAIN L = {}
        BY <1>3, <1>4, <2>2 DEF OneRecord
      <3>2. L = <<>>
        <4>1. L \in Seq(Unit)
          BY <1>3 DEF GoodUnits
        <4>2. DOMAIN L = 1..Len(L) /\ Len(L) \in Nat
          BY <4>1
        <4>3. Len(L) = 0
          BY <3>1, <4>2
        <4> QED BY <4>1, <4>3
      <3>3. ~Compatible(st, h, r)
        BY <1>3, <1>5, <2>2 DEF Compatible
      <3>4. units' = MarkStale(L) \o ScanUnits(h, r)
        BY <1>1, <1>3, <3>3 DEF PrepareHistorical
      <3>5. /\ DOMAIN units' # {} /\ \A i \in DOMAIN units' : units'[i].status = "pending"
            /\ \A i, j \in DOMAIN units' : units'[i].id = units'[j].id => i = j
        <4>1. Fresh(units', L, h, r)
          BY <1>3, <3>4, RangeIsCut
        <4> QED BY <3>2, <4>1 DEF Fresh
      <3> QED BY <1>5, <3>5 DEF OneRecord
    <2> QED BY <2>1, <2>2
  <1>7. OneRecord(units, meta)'
    BY <1>1, <1>6 DEF OneRecord
  <1>8. OneRecord(disk.units, disk.meta)'
    BY <1>1, <1>4 DEF OneRecord, us
  <1> QED BY <1>7, <1>8 DEF OneInv

(* And nothing else adds a unit. *)
LEMMA NextKeepsOne ==
  ASSUME OneSearch, SoundInv, OneInv, [Next]_vars
  PROVE  OneInv'
  <1>1. CASE \E h \in Headers, r \in Ranges : Start(h, r)
    BY <1>1, StartKeepsOne
  <1>2. CASE \E t \in Threads : Worker(t)
    <2>1. PICK t \in Threads : Worker(t)
      BY <1>2
    <2>2. StepOK(t) /\ Types /\ ThreadsOK
      BY <2>1, WorkerIsOK DEF SoundInv
    <2>3. Shaped /\ disk' = disk /\ meta' = meta
      BY <2>2, TouchedIsLocal DEF StepOK
    <2>4. OneRecord(units, meta)'
      BY <2>1, <2>2, <2>3, WorkerNeverStale DEF OneInv, OneRecord, Shaped
    <2>5. OneRecord(disk.units, disk.meta)'
      BY <2>3 DEF OneInv, OneRecord
    <2> QED BY <2>4, <2>5 DEF OneInv
  <1>3. CASE MainThread \/ PeriodicSaveFails \/ CtrlC \/ Crash \/ UNCHANGED vars
    <2>1. /\ units' = units /\ meta' = meta
          /\ disk' = disk \/ disk' = [units |-> units, meta |-> meta]
      BY <1>3 DEF MainThread, Sleep, Wake, EndWatch, Joined, FinalSave, PeriodicSaveFails, CtrlC,
                  Crash, vars
    <2>2. OneRecord(units, meta) /\ OneRecord(disk.units, disk.meta)
      BY DEF OneInv
    <2>3. OneRecord(units', meta') /\ OneRecord(disk'.units, disk'.meta)
      BY <2>1, <2>2
    <2> QED BY <2>3 DEF OneInv, OneRecord
  <1> QED BY <1>1, <1>2, <1>3 DEF Next, Ended

(* When one range of one header is all that is ever searched, however often it
   is interrupted, fails or is resumed, every clean stop is exact. *)
THEOREM OneSearchIsExact ==
  ASSUME OneSearch
  PROVE  Spec => []CleanStopIsExact
  <1>1. Init => OneInv
    BY DEF Init, OneInv, OneRecord
  <1>2. SoundInv /\ OneInv /\ [Next]_vars => OneInv'
    BY NextKeepsOne
  <1>3. OneInv => UniqueIds
    BY DEF OneInv, OneRecord, UniqueIds
  <1> QED BY <1>1, <1>2, <1>3, ScanIsSound, CleanStopIsExactHolds, PTL DEF Spec
=============================================================================
