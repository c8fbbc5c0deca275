------------------------- MODULE HeaderSpaceProofs -------------------------
(***************************************************************************)
(* Proofs about the header-space scanner, for every header, range, zone    *)
(* and batch size, and every power of two of work-items.                   *)
(*                                                                         *)
(* CaptureIsExact.  While a launch runs (LaunchInv), the counter is the    *)
(* number of hits that have drawn a slot; a slot is held by one work-item  *)
(* or, below the capacity, filled with a hit of its own.                   *)
(*                                                                         *)
(* MapIsExact.  A work-item at a stride has the figures of its class of    *)
(* nonces modulo the width of that step (Accumulated); one step of the     *)
(* tree joins two classes, and the last one leaves the zone.  The figures  *)
(* of a set of nonces are unique, so the GPU's are the CPU's; the          *)
(* recursions of the scan and of the aggregation are solved by least       *)
(* counterexample.                                                         *)
(***************************************************************************)
EXTENDS HeaderSpace, TLAPS, FiniteSetTheorems, SequenceTheorems, WellFoundedInduction

(***************************************************************************)
(* The sparse capture.  What the invariant says of a launch under way.     *)
(***************************************************************************)
\* The nonces that the launch is to capture.
Hits == {n \in NonceRange \cap Nonces : pow[n] < Hit}

\* The work-item that probes a nonce, and whether it has gone past it.
ItemOf(n) == (n - request.start) % GlobalSize
Passed(n) == n - request.start < items[ItemOf(n)].offset

\* The work-item holds a slot that it has drawn and not filled yet.
Holds(i) == items[i].slot # NoSlot
Held(s) == \E i \in 0 .. GlobalSize - 1 : items[i].slot = s

\* The hits that have drawn a slot.
Drawn == {n \in Hits : Passed(n) \/ \E i \in 0 .. GlobalSize - 1 :
                                        Holds(i) /\ request.start + items[i].offset = n}

\* The slots of the buffer that are drawn and filled.
Filled == {s \in 0 .. capture.total - 1 : s < capture.capacity /\ ~Held(s)}

SparseType ==
    /\ ValidRange(request.start, request.count, request.count)
    /\ items \in [0 .. GlobalSize - 1 -> [offset : Nat, slot : Int]]
    /\ capture \in [capacity : 1 .. NonceSpace - 1, total : Nat, nonces : Seq(Int)]
    /\ Len(capture.nonces) = capture.capacity

\* Each item keeps to its own offsets.
OwnOffsets == \A i \in 0 .. GlobalSize - 1 : items[i].offset % GlobalSize = i

\* The counter counts the hits that have drawn a slot.
CounterIsExact == capture.total = Cardinality(Drawn)

\* A slot is drawn by a hit, and by one only.
SlotsAreOwn ==
    \A i \in 0 .. GlobalSize - 1 :
        Holds(i) => /\ items[i].slot \in 0 .. capture.total - 1
                    /\ request.start + items[i].offset \in Hits
                    /\ \A j \in 0 .. GlobalSize - 1 : j # i => items[j].slot # items[i].slot

\* A filled slot has a hit that was passed, and no other slot has the same.
FilledAreHits == \A s \in Filled : capture.nonces[s + 1] \in Hits /\ Passed(capture.nonces[s + 1])
FilledDiffer == \A s, u \in Filled : s # u => capture.nonces[s + 1] # capture.nonces[u + 1]

LaunchInv ==
    /\ SparseType /\ OwnOffsets /\ CounterIsExact
    /\ SlotsAreOwn /\ FilledAreHits /\ FilledDiffer

SparseInv ==
    /\ pow \in Worlds /\ request \in Requests
    /\ request.kind = "sparse" => /\ host \in {"idle", "sparse"}
                                  /\ host = "sparse" => exit = None /\ LaunchInv
    /\ CaptureIsExact

-----------------------------------------------------------------------------
(***************************************************************************)
(* Arithmetic.                                                             *)
(***************************************************************************)
\* Quotient and remainder.
LEMMA ModDef ==
    ASSUME NEW a \in Nat, NEW g \in Nat \ {0}
    PROVE  (a % g) \in 0 .. g - 1 /\ a \div g \in Nat /\ a = g * (a \div g) + (a % g)
OBVIOUS

\* A remainder in range is the remainder.
LEMMA ModUnique ==
    ASSUME NEW a \in Nat, NEW q \in Nat, NEW g \in Nat \ {0}, NEW r \in 0 .. g - 1, a = g * q + r
    PROVE  a % g = r
OBVIOUS

\* An item that goes on by the number of items keeps its class.
LEMMA ModPlus ==
    ASSUME NEW a \in Nat, NEW g \in Nat \ {0}
    PROVE  (a + g) % g = a % g
<1> DEFINE q == a \div g
           r == a % g
<1>1. r \in 0 .. g - 1 /\ q \in Nat /\ a = g * q + r
  BY ModDef
<1> HIDE DEF q, r
<1>2. a + g \in Nat /\ q + 1 \in Nat /\ a + g = g * (q + 1) + r
  BY <1>1
<1>3. (a + g) % g = r
  BY <1>1, <1>2, ModUnique
<1> QED BY <1>3 DEF r

\* Two numbers of one class are at least the number of items apart.
LEMMA ModGap ==
    ASSUME NEW a \in Nat, NEW b \in Nat, NEW g \in Nat \ {0}, a % g = b % g, a < b
    PROVE  a + g <= b
<1> DEFINE q == a \div g
           p == b \div g
           r == a % g
<1>1. r \in 0 .. g - 1 /\ q \in Nat /\ a = g * q + r /\ p \in Nat /\ b = g * p + r
  BY ModDef
<1> HIDE DEF q, r, p
<1>2. q < p
  BY <1>1
<1>3. PICK d \in Nat : p = q + 1 + d
  <2>1. p - q - 1 \in Nat /\ p = q + 1 + (p - q - 1)
    BY <1>1, <1>2
  <2> QED BY <2>1
<1>4. g * p = g * q + g + g * d /\ g * d \in Nat
  BY <1>1, <1>3
<1> QED BY <1>1, <1>4

\* A number below the divisor is its own remainder.
LEMMA ModSmall ==
    ASSUME NEW a \in Nat, NEW g \in Nat \ {0}, a < g
    PROVE  a % g = a
OBVIOUS

-----------------------------------------------------------------------------
(***************************************************************************)
(* Lemmas on the sparse capture.                                           *)
(***************************************************************************)
\* What a request that passed the check of the range asks for.
LEMMA AskedFacts ==
    ASSUME pow \in Worlds, request \in Requests,
           ValidRange(request.start, request.count, request.count)
    PROVE  /\ request.start \in Nat /\ request.count \in Nat \ {0}
           /\ request.start + request.count <= NonceSpace
           /\ pow \in [Nonces -> Int] /\ Hit \in Int /\ NonceSpace \in Nat \ {0}
<1>1. request.start \in Nat /\ request.count \in Nat /\ NonceSpace \in Nat \ {0}
  BY HeaderSpaceAssumption
<1>2. pow \in [Nonces -> 0 .. MaxPow] /\ MaxPow \in Nat /\ Hit \in Int
  BY HeaderSpaceAssumption
<1>3. pow \in [Nonces -> Int]
  BY <1>2
<1> QED BY <1>1, <1>2, <1>3 DEF ValidRange

\* A launch has at least one work-item.
LEMMA GlobalSizeIsPositive ==
    ASSUME request.count \in Nat \ {0}
    PROVE  GlobalSize \in Nat \ {0}
<1> DEFINE n == Smaller(request.count, PreferredItems)
           k == (n + LocalSize - 1) \div LocalSize
<1>1. n \in Nat \ {0} /\ LocalSize \in Nat \ {0}
  BY HeaderSpaceAssumption DEF Smaller
<1> HIDE DEF n
<1>2. k \in Nat \ {0}
  BY <1>1
<1> HIDE DEF k
<1>3. k * LocalSize \in Nat \ {0}
  BY <1>1, <1>2
<1> QED BY <1>3 DEF GlobalSize, k, n

\* The nonces of a header, and those of the range among them.
LEMMA NoncesAreFinite ==
    /\ IsFiniteSet(Nonces) /\ Cardinality(Nonces) = NonceSpace
    /\ \A a, b \in Int : IsFiniteSet(a .. b)
<1>1. NonceSpace \in Nat \ {0}
  BY HeaderSpaceAssumption
<1>2. \A a, b \in Int : IsFiniteSet(a .. b)
  BY FS_Interval
<1>3. Cardinality(0 .. NonceSpace - 1) = IF 0 > NonceSpace - 1 THEN 0 ELSE (NonceSpace - 1) - 0 + 1
  BY <1>1, FS_Interval
<1> QED BY <1>1, <1>2, <1>3 DEF Nonces

\* Not every nonce is a hit: the counter of hits cannot wrap around.
LEMMA HitsAreFewer ==
    ASSUME pow \in Worlds
    PROVE  IsFiniteSet(Hits) /\ Cardinality(Hits) \in Nat /\ Cardinality(Hits) < NonceSpace
<1>1. PICK n \in Nonces : pow[n] >= Hit
  BY HeaderSpaceAssumption
<1>2. pow[n] \in Int /\ Hit \in Int /\ NonceSpace \in Nat
  BY HeaderSpaceAssumption
<1>3. Hits \subseteq Nonces \ {n}
  BY <1>1, <1>2 DEF Hits
<1>4. IsFiniteSet(Nonces \ {n}) /\ Cardinality(Nonces \ {n}) = NonceSpace - 1
  BY <1>1, NoncesAreFinite, FS_RemoveElement
<1>5. IsFiniteSet(Hits) /\ Cardinality(Hits) <= Cardinality(Nonces \ {n})
  BY <1>3, <1>4, FS_Subset
<1>6. Cardinality(Hits) \in Nat
  BY <1>5, FS_CardinalityType
<1> QED BY <1>2, <1>4, <1>5, <1>6

\* The nonce at an offset inside the range does not wrap around.
LEMMA NonceInRange ==
    ASSUME pow \in Worlds, request \in Requests,
           ValidRange(request.start, request.count, request.count),
           NEW o \in Nat, o < request.count
    PROVE  /\ NonceAt(o) = request.start + o
           /\ request.start + o \in NonceRange \cap Nonces
<1>1. /\ request.start \in Nat /\ request.count \in Nat \ {0}
      /\ request.start + request.count <= NonceSpace /\ NonceSpace \in Nat \ {0}
  BY AskedFacts
<1> DEFINE a == request.start + o
<1>2. a \in Nat /\ a < NonceSpace /\ a <= request.start + request.count - 1 /\ request.start <= a
  BY <1>1
<1>3. a % NonceSpace = a
  BY <1>1, <1>2, ModSmall
<1>4. a \in NonceRange /\ a \in Nonces
  BY <1>1, <1>2 DEF NonceRange, Nonces
<1> QED BY <1>3, <1>4 DEF NonceAt

\* The item of a hit, and what it is to be at it.
LEMMA HitFacts ==
    ASSUME pow \in Worlds, request \in Requests,
           ValidRange(request.start, request.count, request.count), NEW n \in Hits
    PROVE  /\ n - request.start \in Nat /\ n - request.start < request.count
           /\ ItemOf(n) \in 0 .. GlobalSize - 1
           /\ n \in Int
<1>1. /\ request.start \in Nat /\ request.count \in Nat \ {0}
  BY AskedFacts
<1>2. n - request.start \in Nat /\ n - request.start < request.count /\ n \in Int
  BY <1>1 DEF Hits, NonceRange
<1>3. GlobalSize \in Nat \ {0}
  BY <1>1, GlobalSizeIsPositive
<1>4. ItemOf(n) \in 0 .. GlobalSize - 1
  BY <1>2, <1>3, ModDef DEF ItemOf
<1> QED BY <1>2, <1>4

\* A launch as it starts: every item at its own offset, nothing drawn.
FreshLaunch ==
    /\ pow \in Worlds /\ request \in Requests
    /\ ValidRange(request.start, request.count, request.count)
    /\ capture.capacity \in 1 .. NonceSpace - 1
    /\ capture = [capacity |-> capture.capacity, total |-> 0,
                  nonces |-> [s \in 1 .. capture.capacity |-> NoNonce]]
    /\ items = [i \in 0 .. GlobalSize - 1 |-> [offset |-> i, slot |-> NoSlot]]

\* The invariant holds of a launch as it starts.
LEMMA LaunchStarts == FreshLaunch => LaunchInv
<1> SUFFICES ASSUME FreshLaunch PROVE LaunchInv
  OBVIOUS
<1> DEFINE G == GlobalSize
           st == request.start
           cap == capture.capacity
<1>1. /\ st \in Nat /\ request.count \in Nat \ {0} /\ NonceSpace \in Nat \ {0}
      /\ G \in Nat \ {0}
  BY AskedFacts, GlobalSizeIsPositive DEF FreshLaunch
<1>2. /\ cap \in 1 .. NonceSpace - 1 /\ capture.total = 0
      /\ capture.nonces = [s \in 1 .. cap |-> NoNonce]
  BY DEF FreshLaunch
<1>b. capture = [capacity |-> cap, total |-> 0, nonces |-> capture.nonces]
  BY <1>2, Zenon DEF FreshLaunch
<1>3. items = [i \in 0 .. G - 1 |-> [offset |-> i, slot |-> NoSlot]]
  BY DEF FreshLaunch
<1> HIDE DEF G, cap
<1>4. \A i \in 0 .. G - 1 : items[i].offset = i /\ items[i].slot = NoSlot
  BY <1>3
<1>5. items \in [0 .. G - 1 -> [offset : Nat, slot : Int]]
  BY <1>1, <1>3 DEF NoSlot
<1>6. capture.nonces \in Seq(Int) /\ Len(capture.nonces) = cap
  <2>1. cap \in Nat
    BY <1>1, <1>2
  <2> QED BY <1>2, <2>1 DEF NoNonce
<1>7. SparseType
  <2>1. capture \in [capacity : 1 .. NonceSpace - 1, total : Nat, nonces : Seq(Int)]
    BY <1>b, <1>2, <1>6
  <2> QED BY <1>5, <1>6, <2>1 DEF SparseType, G, cap, FreshLaunch
<1>8. OwnOffsets
  <2>1. \A i \in 0 .. G - 1 : i % G = i
    BY <1>1, ModSmall
  <2> QED BY <1>4, <2>1 DEF OwnOffsets, G
<1>9. \A i \in 0 .. G - 1 : ~Holds(i)
  BY <1>4 DEF Holds
<1>10. CounterIsExact
  <2>1. \A n \in Hits : ~Passed(n)
    <3> SUFFICES ASSUME NEW n \in Hits PROVE ~Passed(n)
      OBVIOUS
    <3> DEFINE a == n - st
    <3>1. a \in Nat /\ ItemOf(n) = a % G
      BY HitFacts DEF FreshLaunch, ItemOf, G
    <3> HIDE DEF a
    <3>2. a % G \in 0 .. G - 1 /\ a % G <= a
      BY <1>1, <3>1
    <3>3. items[ItemOf(n)].offset = a % G
      BY <3>1, <3>2, <1>4
    <3>4. ~(a < items[ItemOf(n)].offset)
      BY <3>1, <3>2, <3>3, <1>1
    <3> QED BY <3>4 DEF Passed, a
  <2>2. Drawn = {}
    BY <2>1, <1>9 DEF Drawn, G
  <2> QED BY <2>2, <1>2, FS_EmptySet DEF CounterIsExact
<1>11. SlotsAreOwn
  BY <1>9 DEF SlotsAreOwn, G
<1>12. Filled = {}
  BY <1>2 DEF Filled
<1> QED BY <1>7, <1>8, <1>10, <1>11, <1>12 DEF LaunchInv, FilledAreHits, FilledDiffer

\* A step of a work-item: the header, the request and so the hits are the same.
LEMMA ItemStep ==
    ASSUME UNCHANGED <<pow, request>>
    PROVE  /\ Hits' = Hits /\ GlobalSize' = GlobalSize /\ NonceRange' = NonceRange
           /\ \A n : (ItemOf(n))' = ItemOf(n)
           /\ ValidRange(request.start, request.count, request.count)' =
                  ValidRange(request.start, request.count, request.count)
BY DEF Hits, GlobalSize, NonceRange, ItemOf, ValidRange

\* An item is at an offset of its class, and only its own item is there.
LEMMA AtOffset ==
    ASSUME pow \in Worlds, request \in Requests, LaunchInv, NEW i \in 0 .. GlobalSize - 1
    PROVE  /\ ItemOf(request.start + items[i].offset) = i
           /\ ~Passed(request.start + items[i].offset)
           /\ \A j \in 0 .. GlobalSize - 1 : items[j].offset = items[i].offset => j = i
           /\ items[i].offset \in Nat /\ items[i].slot \in Int
           /\ request.start \in Nat /\ GlobalSize \in Nat \ {0}
<1>1. /\ request.start \in Nat /\ request.count \in Nat \ {0} /\ GlobalSize \in Nat \ {0}
  BY AskedFacts, GlobalSizeIsPositive DEF LaunchInv, SparseType
<1>2. \A j \in 0 .. GlobalSize - 1 : items[j].offset \in Nat /\ items[j].slot \in Int
  BY DEF LaunchInv, SparseType
<1>3. \A j \in 0 .. GlobalSize - 1 : items[j].offset % GlobalSize = j
  BY DEF LaunchInv, OwnOffsets
<1> DEFINE o == items[i].offset
<1>4. o \in Nat
  BY <1>2
<1>5. (request.start + o) - request.start = o
  BY <1>1, <1>4
<1>6. ItemOf(request.start + o) = i
  BY <1>3, <1>5 DEF ItemOf
<1>7. ~Passed(request.start + o)
  BY <1>4, <1>5, <1>6 DEF Passed
<1> QED BY <1>1, <1>2, <1>3, <1>6, <1>7

\* An item that goes on by the number of items passes the one nonce it was at.
LEMMA Advance ==
    ASSUME pow \in Worlds, request \in Requests, LaunchInv, UNCHANGED <<pow, request>>,
           NEW i \in 0 .. GlobalSize - 1,
           items'[i].offset = items[i].offset + GlobalSize,
           \A j \in 0 .. GlobalSize - 1 : j # i => items'[j].offset = items[j].offset
    PROVE  /\ \A n \in Hits : Passed(n)' <=> (Passed(n) \/ n = request.start + items[i].offset)
           /\ OwnOffsets'
<1> DEFINE G == GlobalSize
           st == request.start
           o == items[i].offset
<1>1. /\ ItemOf(st + o) = i /\ o \in Nat /\ st \in Nat /\ G \in Nat \ {0}
  BY AtOffset
<1>2. /\ Hits' = Hits /\ GlobalSize' = GlobalSize /\ \A n : (ItemOf(n))' = ItemOf(n)
  BY ItemStep
<1>3. o % G = i
  BY DEF LaunchInv, OwnOffsets
<1>4. OwnOffsets'
  <2>1. (o + G) % G = i
    BY <1>1, <1>3, ModPlus
  <2> QED BY <2>1, <1>2 DEF OwnOffsets, LaunchInv
<1>5. ASSUME NEW n \in Hits
      PROVE  Passed(n)' <=> (Passed(n) \/ n = st + o)
  <2> DEFINE a == n - st
  <2>1. a \in Nat /\ ItemOf(n) \in 0 .. G - 1 /\ n \in Int
    BY HitFacts DEF LaunchInv, SparseType
  <2>2. Passed(n)' <=> a < items'[ItemOf(n)].offset
    BY <1>2 DEF Passed
  <2>3. Passed(n) <=> a < items[ItemOf(n)].offset
    BY DEF Passed
  <2>4. CASE ItemOf(n) # i
    <3>1. n # st + o
      BY <1>1, <2>4
    <3> QED BY <2>1, <2>2, <2>3, <2>4, <3>1
  <2>5. CASE ItemOf(n) = i
    <3>1. a % G = o % G
      BY <1>3, <2>5 DEF ItemOf
    <3>2. n = st + o <=> a = o
      BY <1>1, <2>1
    <3> HIDE DEF a, G, o
    <3>3. o < a => o + G <= a
      BY <1>1, <2>1, <3>1, ModGap
    <3>4. a < o + G <=> (a < o \/ a = o)
      BY <1>1, <2>1, <3>3
    <3> QED BY <2>2, <2>3, <2>5, <3>2, <3>4 DEF o, G
  <2> QED BY <2>4, <2>5
<1> QED BY <1>4, <1>5

\* Probe: a hit draws the next slot, anything else is passed.
LEMMA ProbeKeeps ==
    ASSUME pow \in Worlds, request \in Requests, LaunchInv,
           NEW i \in 0 .. GlobalSize - 1, Probe(i)
    PROVE  LaunchInv'
<1> DEFINE G == GlobalSize
           st == request.start
           o == items[i].offset
           n == st + o
<1>1. /\ ItemOf(n) = i /\ ~Passed(n) /\ o \in Nat /\ st \in Nat /\ G \in Nat \ {0}
      /\ \A j \in 0 .. G - 1 : items[j].offset = o => j = i
  BY AtOffset
<1>2. /\ Hits' = Hits /\ GlobalSize' = GlobalSize /\ \A m : (ItemOf(m))' = ItemOf(m)
      /\ ValidRange(request.start, request.count, request.count)' =
             ValidRange(request.start, request.count, request.count)
      /\ request' = request
  BY ItemStep DEF Probe
<1>3. /\ ValidRange(request.start, request.count, request.count)
      /\ items \in [0 .. G - 1 -> [offset : Nat, slot : Int]]
      /\ capture \in [capacity : 1 .. NonceSpace - 1, total : Nat, nonces : Seq(Int)]
      /\ Len(capture.nonces) = capture.capacity
  BY DEF LaunchInv, SparseType
<1>4. /\ o < request.count /\ items[i].slot = NoSlot
      /\ NonceAt(o) = n /\ n \in NonceRange \cap Nonces
  <2>1. o < request.count /\ items[i].slot = NoSlot
    BY DEF Probe
  <2> QED BY <2>1, <1>1, <1>3, NonceInRange
<1>5. \A j \in 0 .. G - 1 : items[j].offset \in Nat /\ items[j].slot \in Int
  BY <1>3
<1>6. CASE pow[NonceAt(o)] < Hit
  <2>1. /\ items' = [items EXCEPT ![i].slot = capture.total]
        /\ capture' = [capture EXCEPT !.total = Counted(@, capture.capacity)]
    BY <1>6 DEF Probe
  <2>2. n \in Hits
    BY <1>4, <1>6 DEF Hits
  <2> HIDE DEF n, o, G
  <2>3. /\ items' \in [0 .. G - 1 -> [offset : Nat, slot : Int]]
        /\ items'[i].slot = capture.total
        /\ \A j \in 0 .. G - 1 : items'[j].offset = items[j].offset
        /\ \A j \in 0 .. G - 1 : j # i => items'[j].slot = items[j].slot
    <3>1. i \in 0 .. G - 1 /\ capture.total \in Int
      BY <1>3 DEF G
    <3> QED BY <2>1, <1>3, <3>1
  <2>4. capture'.capacity = capture.capacity /\ capture'.nonces = capture.nonces
    BY <2>1, <1>3
  <2>5. \A m \in Hits : Passed(m)' <=> Passed(m)
    <3> SUFFICES ASSUME NEW m \in Hits PROVE Passed(m)' <=> Passed(m)
      OBVIOUS
    <3>1. ItemOf(m) \in 0 .. G - 1
      BY <1>3, HitFacts DEF G
    <3> QED BY <1>2, <2>3, <3>1 DEF Passed
  <2>6. n \notin Drawn
    <3>1. \A j \in 0 .. G - 1 : Holds(j) => st + items[j].offset # n
      BY <1>1, <1>4, <1>5 DEF Holds, n, o
    <3> QED BY <3>1, <1>1 DEF Drawn, G
  <2>7. Drawn' = Drawn \cup {n}
    <3>1. \A j \in 0 .. G - 1 : Holds(j)' <=> (Holds(j) \/ j = i)
      <4>1. capture.total # NoSlot
        BY <1>3 DEF NoSlot
      <4> QED BY <2>3, <4>1 DEF Holds
    <3>2. st + items[i].offset = n /\ i \in 0 .. G - 1
      BY DEF n, o, G
    <3>3. \A m \in Hits : (\E j \in 0 .. G - 1 : Holds(j)' /\ st + items'[j].offset = m) <=>
                          ((\E j \in 0 .. G - 1 : Holds(j) /\ st + items[j].offset = m) \/ m = n)
      BY <2>3, <3>1, <3>2
    <3>4. Drawn' = {m \in Hits : Passed(m)' \/ \E j \in 0 .. G - 1 :
                                      Holds(j)' /\ st + items'[j].offset = m}
      BY <1>2 DEF Drawn, G
    <3>5. Drawn = {m \in Hits : Passed(m) \/ \E j \in 0 .. G - 1 :
                                      Holds(j) /\ st + items[j].offset = m}
      BY DEF Drawn, G
    <3> QED BY <2>2, <2>5, <3>3, <3>4, <3>5
  <2>8. capture'.total = capture.total + 1 /\ capture'.total = Cardinality(Drawn')
    <3>1. IsFiniteSet(Hits) /\ Cardinality(Hits) \in Nat /\ Cardinality(Hits) < NonceSpace
      BY HitsAreFewer
    <3>2. Drawn \subseteq Hits /\ Drawn' \subseteq Hits
      BY <2>2, <2>7 DEF Drawn
    <3>3. IsFiniteSet(Drawn) /\ IsFiniteSet(Drawn') /\ Cardinality(Drawn') <= Cardinality(Hits)
      BY <3>1, <3>2, FS_Subset
    <3>4. Cardinality(Drawn') = Cardinality(Drawn) + 1
      BY <2>6, <2>7, <3>3, FS_AddElement
    <3>5. capture.total = Cardinality(Drawn) /\ capture.total \in Nat
      BY <1>3 DEF LaunchInv, CounterIsExact
    <3>6. capture.total + 1 \in Nat /\ capture.total + 1 < NonceSpace
      BY <3>1, <3>3, <3>4, <3>5, HeaderSpaceAssumption
    <3>7. (capture.total + 1) % NonceSpace = capture.total + 1
      BY <3>6, ModSmall, HeaderSpaceAssumption
    <3>8. capture'.total = (capture.total + 1) % NonceSpace
      BY <2>1, <1>3 DEF Counted
    <3> QED BY <3>4, <3>5, <3>7, <3>8
  <2>9. SparseType'
    <3>1. capture' \in [capacity : 1 .. NonceSpace - 1, total : Nat, nonces : Seq(Int)]
      <4>1. capture.total + 1 \in Nat
        BY <1>3
      <4>2. capture' = [capture EXCEPT !.total = capture.total + 1]
        BY <2>1, <2>8, <1>3
      <4> QED BY <4>1, <4>2, <1>3
    <3> QED BY <3>1, <1>2, <1>3, <2>3, <2>4 DEF SparseType, G
  <2>10. OwnOffsets'
    BY <1>2, <2>3 DEF OwnOffsets, LaunchInv, G
  <2>11. CounterIsExact'
    BY <2>8 DEF CounterIsExact
  <2>a. capture.total \in Nat
    BY <1>3
  <2>b. \A j \in 0 .. G - 1 :
            Holds(j) => /\ items[j].slot \in 0 .. capture.total - 1
                        /\ st + items[j].offset \in Hits
                        /\ \A k \in 0 .. G - 1 : k # j => items[k].slot # items[j].slot
    BY DEF LaunchInv, SlotsAreOwn, G
  <2>12. SlotsAreOwn'
    <3> SUFFICES ASSUME NEW j \in 0 .. G - 1, Holds(j)'
                 PROVE  /\ items'[j].slot \in 0 .. capture'.total - 1
                        /\ st + items'[j].offset \in Hits
                        /\ \A k \in 0 .. G - 1 : k # j => items'[k].slot # items'[j].slot
      BY <1>2 DEF SlotsAreOwn, G
    <3>1. CASE j = i
      <4>1. st + items'[j].offset = n /\ items'[j].slot = capture.total
        BY <2>3, <3>1 DEF n, o
      <4>2. \A k \in 0 .. G - 1 : k # j => items'[k].slot # capture.total
        BY <1>5, <2>3, <2>a, <2>b, <3>1 DEF Holds, NoSlot
      <4> QED BY <4>1, <4>2, <2>2, <2>8, <2>a
    <3>2. CASE j # i
      <4>1. Holds(j) /\ items'[j].slot = items[j].slot
        BY <2>3, <3>2 DEF Holds
      <4>2. \A k \in 0 .. G - 1 : k # j => items'[k].slot # items'[j].slot
        BY <2>3, <2>a, <2>b, <4>1
      <4> QED BY <4>1, <4>2, <2>3, <2>8, <2>a, <2>b
    <3> QED BY <3>1, <3>2
  <2>13. Filled' = Filled
    <3>1. \A s \in 0 .. capture.total - 1 : Held(s)' <=> Held(s)
      <4> SUFFICES ASSUME NEW s \in 0 .. capture.total - 1
                   PROVE  (\E j \in 0 .. G - 1 : items'[j].slot = s) <=> (\E j \in 0 .. G - 1 : items[j].slot = s)
        BY <1>2 DEF Held, G
      <4>1. s # capture.total /\ s # NoSlot
        BY <2>a DEF NoSlot
      <4> QED BY <4>1, <2>3, <1>4
    <3>a. PICK last \in Nat : last = capture.total
      BY <2>a
    <3>2. Held(last)'
      BY <1>2, <2>3, <3>a DEF Held, G
    <3>3. Filled' = {s \in 0 .. capture.total : s < capture.capacity /\ ~Held(s)'}
      BY <2>4, <2>8, <2>a DEF Filled
    <3>4. \A s \in 0 .. capture.total : s = capture.total \/ s \in 0 .. capture.total - 1
      BY <2>a
    <3>5. \A s \in 0 .. capture.total - 1 : s \in 0 .. capture.total
      BY <2>a
    <3> QED BY <3>1, <3>2, <3>3, <3>4, <3>5, <3>a DEF Filled
  <2>14. FilledAreHits' /\ FilledDiffer'
    BY <1>2, <2>4, <2>5, <2>13 DEF LaunchInv, FilledAreHits, FilledDiffer
  <2> QED BY <2>9, <2>10, <2>11, <2>12, <2>14 DEF LaunchInv
<1>7. CASE ~(pow[NonceAt(o)] < Hit)
  <2>1. /\ items' = [items EXCEPT ![i].offset = o + GlobalSize] /\ UNCHANGED <<pow, request>>
        /\ capture' = capture
    BY <1>7 DEF Probe
  <2>2. n \notin Hits
    BY <1>4, <1>7 DEF Hits
  <2>3. /\ items'[i].offset = o + G
        /\ \A j \in 0 .. G - 1 : j # i => items'[j].offset = items[j].offset
        /\ \A j \in 0 .. G - 1 : items'[j].slot = items[j].slot
    BY <2>1, <1>3
  <2>4. /\ \A m \in Hits : Passed(m)' <=> (Passed(m) \/ m = n)
        /\ OwnOffsets'
    BY <2>1, <2>3, Advance
  <2>5. \A m \in Hits : Passed(m)' <=> Passed(m)
    BY <2>2, <2>4
  <2>6. items' \in [0 .. G - 1 -> [offset : Nat, slot : Int]]
    <3> HIDE DEF o, G
    <3>1. items' = [items EXCEPT ![i].offset = o + G] /\ i \in 0 .. G - 1 /\ o + G \in Nat
      BY <2>1, <1>1 DEF G
    <3> QED BY <3>1, <1>3
  <2>7. \A j \in 0 .. G - 1 : Holds(j)' <=> Holds(j)
    BY <2>3 DEF Holds
  <2>8. \A j \in 0 .. G - 1 : Holds(j) => items'[j].offset = items[j].offset
    BY <2>3, <1>4 DEF Holds
  <2>9. Drawn' = Drawn
    <3>1. Drawn' = {m \in Hits : Passed(m)' \/ \E j \in 0 .. G - 1 :
                                      Holds(j)' /\ st + items'[j].offset = m}
      BY <1>2 DEF Drawn
    <3> QED BY <2>5, <2>7, <2>8, <3>1 DEF Drawn
  <2>10. SparseType' /\ CounterIsExact'
    BY <1>2, <1>3, <2>1, <2>6, <2>9 DEF SparseType, LaunchInv, CounterIsExact
  <2>11. SlotsAreOwn'
    BY <1>2, <2>1, <2>3, <2>7, <2>8 DEF SlotsAreOwn, LaunchInv
  <2>12. Filled' = Filled
    BY <1>2, <2>1, <2>3 DEF Filled, Held
  <2>13. FilledAreHits' /\ FilledDiffer'
    BY <1>2, <2>1, <2>5, <2>12 DEF LaunchInv, FilledAreHits, FilledDiffer
  <2> QED BY <2>4, <2>10, <2>11, <2>13 DEF LaunchInv
<1> QED BY <1>6, <1>7

\* Store: the slot drawn is filled with the nonce of the item, if it is in the
\* buffer, and the item goes on.
LEMMA StoreKeeps ==
    ASSUME pow \in Worlds, request \in Requests, LaunchInv,
           NEW i \in 0 .. GlobalSize - 1, Store(i)
    PROVE  LaunchInv'
<1> DEFINE G == GlobalSize
           st == request.start
           o == items[i].offset
           n == st + o
           slot == items[i].slot
           cap == capture.capacity
<1>1. /\ ItemOf(n) = i /\ ~Passed(n) /\ o \in Nat /\ st \in Nat /\ G \in Nat \ {0}
  BY AtOffset
<1>2. /\ Hits' = Hits /\ GlobalSize' = GlobalSize /\ \A m : (ItemOf(m))' = ItemOf(m)
      /\ ValidRange(request.start, request.count, request.count)' =
             ValidRange(request.start, request.count, request.count)
      /\ request' = request
  BY ItemStep DEF Store
<1>3. /\ ValidRange(request.start, request.count, request.count)
      /\ items \in [0 .. G - 1 -> [offset : Nat, slot : Int]]
      /\ capture \in [capacity : 1 .. NonceSpace - 1, total : Nat, nonces : Seq(Int)]
      /\ Len(capture.nonces) = cap
  BY DEF LaunchInv, SparseType
<1>4. \A j \in 0 .. G - 1 : items[j].offset \in Nat /\ items[j].slot \in Int
  BY <1>3
<1>5. \A j \in 0 .. G - 1 :
          Holds(j) => /\ items[j].slot \in 0 .. capture.total - 1
                      /\ st + items[j].offset \in Hits
                      /\ \A k \in 0 .. G - 1 : k # j => items[k].slot # items[j].slot
  BY DEF LaunchInv, SlotsAreOwn
<1>6. Holds(i) /\ slot # NoSlot /\ n \in Hits /\ slot \in 0 .. capture.total - 1
  <2>1. Holds(i)
    BY DEF Store, Holds
  <2> QED BY <2>1, <1>5 DEF Holds
<1>7. NonceAt(o) = n /\ n \in Int
  <2>1. o < request.count
    <3>1. n - st < request.count /\ n \in Int
      BY <1>3, <1>6, HitFacts
    <3> QED BY <3>1, <1>1
  <2> QED BY <2>1, <1>1, <1>3, NonceInRange
<1>8. /\ items' = [items EXCEPT ![i] = [offset |-> o + GlobalSize, slot |-> NoSlot]]
      /\ UNCHANGED <<pow, request>>
  BY DEF Store
<1> HIDE DEF o, G, n, slot, cap
<1>9. /\ items' \in [0 .. G - 1 -> [offset : Nat, slot : Int]]
      /\ items'[i].offset = o + G /\ items'[i].slot = NoSlot
      /\ \A j \in 0 .. G - 1 : j # i => items'[j].offset = items[j].offset /\ items'[j].slot = items[j].slot
  <2> DEFINE r == [offset |-> o + G, slot |-> NoSlot]
  <2>1. r \in [offset : Nat, slot : Int] /\ r.offset = o + G /\ r.slot = NoSlot
    BY <1>1 DEF NoSlot
  <2>2. items' = [items EXCEPT ![i] = r] /\ i \in 0 .. G - 1
    BY <1>8 DEF G
  <2> HIDE DEF r
  <2> QED BY <2>1, <2>2, <1>3
<1>10. /\ \A m \in Hits : Passed(m)' <=> (Passed(m) \/ m = n)
       /\ OwnOffsets'
  <2>1. /\ items'[i].offset = items[i].offset + GlobalSize
        /\ \A j \in 0 .. GlobalSize - 1 : j # i => items'[j].offset = items[j].offset
    BY <1>9 DEF o, G
  <2> QED BY <2>1, <1>8, Advance DEF n, o
<1>11. \A j \in 0 .. G - 1 : Holds(j)' <=> (Holds(j) /\ j # i)
  BY <1>9 DEF Holds
<1>12. Drawn' = Drawn
  <2>1. Drawn' = {m \in Hits : Passed(m)' \/ \E j \in 0 .. G - 1 :
                                    Holds(j)' /\ st + items'[j].offset = m}
    BY <1>2 DEF Drawn, G
  <2>2. Drawn = {m \in Hits : Passed(m) \/ \E j \in 0 .. G - 1 :
                                    Holds(j) /\ st + items[j].offset = m}
    BY DEF Drawn, G
  <2>3. \A m \in Hits : (\E j \in 0 .. G - 1 : Holds(j) /\ st + items[j].offset = m) <=>
                        (m = n \/ \E j \in 0 .. G - 1 : Holds(j)' /\ st + items'[j].offset = m)
    <3>1. i \in 0 .. G - 1 /\ st + items[i].offset = n
      BY DEF G, n, o
    <3> QED BY <3>1, <1>6, <1>9, <1>11
  <2> QED BY <2>1, <2>2, <2>3, <1>10
<1>13. /\ capture' \in [capacity : 1 .. NonceSpace - 1, total : Nat, nonces : Seq(Int)]
       /\ capture'.total = capture.total /\ capture'.capacity = cap /\ Len(capture'.nonces) = cap
       /\ slot < cap => capture'.nonces[slot + 1] = n
       /\ \A s \in 0 .. capture.total - 1 :
              s < cap /\ s # slot => capture'.nonces[s + 1] = capture.nonces[s + 1]
  <2>0. capture.total \in Nat /\ cap \in Nat /\ capture.nonces \in Seq(Int) /\ slot \in Nat
    BY <1>3, <1>6, HeaderSpaceAssumption DEF cap
  <2>1. CASE slot < cap
    <3>1. capture' = [capture EXCEPT !.nonces[slot + 1] = n]
      BY <2>1, <1>7 DEF Store, slot, cap, o
    <3>2. slot + 1 \in 1 .. Len(capture.nonces)
      BY <2>0, <2>1, <1>3
    <3> DEFINE ns == [capture.nonces EXCEPT ![slot + 1] = n]
    <3>3. /\ ns \in Seq(Int) /\ Len(ns) = Len(capture.nonces) /\ ns[slot + 1] = n
          /\ \A k \in 1 .. Len(capture.nonces) : k # slot + 1 => ns[k] = capture.nonces[k]
      BY <2>0, <3>2, <1>7
    <3>4. capture' = [capture EXCEPT !.nonces = ns]
      BY <3>1, <1>3
    <3> HIDE DEF ns
    <3>5. /\ capture' \in [capacity : 1 .. NonceSpace - 1, total : Nat, nonces : Seq(Int)]
          /\ capture'.total = capture.total /\ capture'.capacity = cap /\ capture'.nonces = ns
      BY <3>3, <3>4, <1>3 DEF cap
    <3>6. \A s \in 0 .. capture.total - 1 : s < cap /\ s # slot => ns[s + 1] = capture.nonces[s + 1]
      <4> SUFFICES ASSUME NEW s \in 0 .. capture.total - 1, s < cap, s # slot
                   PROVE  ns[s + 1] = capture.nonces[s + 1]
        OBVIOUS
      <4>1. s + 1 \in 1 .. Len(capture.nonces) /\ s + 1 # slot + 1
        BY <2>0, <1>3
      <4> QED BY <4>1, <3>3
    <3> QED BY <3>3, <3>5, <3>6, <1>3
  <2>2. CASE ~(slot < cap)
    <3>1. capture' = capture
      BY <2>2 DEF Store, slot, cap
    <3> QED BY <3>1, <2>2, <1>3 DEF cap
  <2> QED BY <2>1, <2>2
<1>14. SparseType'
  BY <1>2, <1>3, <1>9, <1>13 DEF SparseType, G
<1>15. CounterIsExact'
  BY <1>12, <1>13 DEF CounterIsExact, LaunchInv
<1>16. SlotsAreOwn'
  <2> SUFFICES ASSUME NEW j \in 0 .. G - 1, Holds(j)'
               PROVE  /\ items'[j].slot \in 0 .. capture'.total - 1
                      /\ st + items'[j].offset \in Hits
                      /\ \A k \in 0 .. G - 1 : k # j => items'[k].slot # items'[j].slot
    BY <1>2 DEF SlotsAreOwn, G
  <2>1. Holds(j) /\ j # i /\ items'[j].slot = items[j].slot /\ items'[j].offset = items[j].offset
    BY <1>9, <1>11
  <2>2. \A k \in 0 .. G - 1 : k # j => items'[k].slot # items'[j].slot
    BY <2>1, <1>5, <1>9 DEF Holds
  <2> QED BY <2>1, <2>2, <1>5, <1>13
<1>17. \A s \in 0 .. capture.total - 1 : Held(s)' <=> (Held(s) /\ s # slot)
  <2> SUFFICES ASSUME NEW s \in 0 .. capture.total - 1
               PROVE  (\E j \in 0 .. G - 1 : items'[j].slot = s) <=>
                      ((\E j \in 0 .. G - 1 : items[j].slot = s) /\ s # slot)
    BY <1>2 DEF Held, G
  <2>1. s # NoSlot
    BY DEF NoSlot
  <2>2. i \in 0 .. G - 1 /\ items[i].slot = slot
    BY DEF G, slot
  <2>3. \A j \in 0 .. G - 1 : j # i => items[j].slot # slot
    BY <1>5, <1>6, <2>2
  <2> QED BY <2>1, <2>2, <2>3, <1>9
<1>18. \A s \in Filled' : s \in 0 .. capture.total - 1 /\ s < cap /\ (s = slot \/ s \in Filled)
  BY <1>13, <1>17 DEF Filled, cap
<1>19. \A s \in Filled : capture.nonces[s + 1] \in Hits /\ Passed(capture.nonces[s + 1]) /\ s # slot
  <2>1. Held(slot)
    BY DEF Held, G, slot
  <2> QED BY <2>1 DEF LaunchInv, FilledAreHits, Filled
<1>20. \A s \in Filled' : \/ s = slot /\ capture'.nonces[s + 1] = n
                          \/ /\ s # slot /\ s \in Filled
                             /\ capture'.nonces[s + 1] = capture.nonces[s + 1]
  BY <1>13, <1>18
<1>21. FilledAreHits'
  <2> SUFFICES ASSUME NEW s \in Filled', NEW v, v = capture'.nonces[s + 1]
               PROVE  v \in Hits /\ Passed(v)'
    BY <1>2 DEF FilledAreHits
  <2> QED BY <1>6, <1>10, <1>19, <1>20
<1>22. FilledDiffer'
  <2>1. \A s, u \in Filled : s # u => capture.nonces[s + 1] # capture.nonces[u + 1]
    BY DEF LaunchInv, FilledDiffer
  <2>2. \A s \in Filled : capture.nonces[s + 1] # n
    BY <1>1, <1>19
  <2> QED BY <1>20, <2>1, <2>2 DEF FilledDiffer
<1> QED BY <1>10, <1>14, <1>15, <1>16, <1>21, <1>22 DEF LaunchInv

\* When every item is past the end of the range, every hit has drawn a slot.
LEMMA LaunchOver ==
    ASSUME pow \in Worlds, request \in Requests, LaunchInv,
           \A i \in DOMAIN items : items[i].offset >= request.count
    PROVE  /\ capture.total = Cardinality(Hits)
           /\ Filled = {s \in 0 .. capture.total - 1 : s < capture.capacity}
           /\ capture.total \in Nat /\ capture.capacity \in Nat /\ capture.nonces \in Seq(Int)
           /\ Len(capture.nonces) = capture.capacity /\ capture.capacity \in 1 .. NonceSpace - 1
<1>1. /\ ValidRange(request.start, request.count, request.count)
      /\ items \in [0 .. GlobalSize - 1 -> [offset : Nat, slot : Int]]
      /\ capture \in [capacity : 1 .. NonceSpace - 1, total : Nat, nonces : Seq(Int)]
      /\ Len(capture.nonces) = capture.capacity
  BY DEF LaunchInv, SparseType
<1>2. \A i \in 0 .. GlobalSize - 1 : items[i].offset \in Nat /\ items[i].offset >= request.count
  BY <1>1
<1>3. request.start \in Nat /\ request.count \in Nat
  BY <1>1, AskedFacts
<1>4. \A n \in Hits : Passed(n)
  <2> SUFFICES ASSUME NEW n \in Hits PROVE Passed(n)
    OBVIOUS
  <2>1. /\ n - request.start \in Nat /\ n - request.start < request.count
        /\ ItemOf(n) \in 0 .. GlobalSize - 1
    BY <1>1, HitFacts
  <2> QED BY <2>1, <1>2, <1>3 DEF Passed
<1>5. Drawn = Hits
  BY <1>4 DEF Drawn
<1>6. \A i \in 0 .. GlobalSize - 1 : ~Holds(i)
  <2> SUFFICES ASSUME NEW i \in 0 .. GlobalSize - 1, Holds(i) PROVE FALSE
    OBVIOUS
  <2>1. request.start + items[i].offset \in Hits
    BY DEF LaunchInv, SlotsAreOwn
  <2>2. (request.start + items[i].offset) - request.start < request.count
    BY <2>1, <1>1, HitFacts
  <2> QED BY <2>2, <1>2, <1>3
<1>7. \A s \in 0 .. capture.total - 1 : ~Held(s)
  BY <1>6 DEF Held, Holds, NoSlot
<1>8. capture.total = Cardinality(Hits)
  BY <1>5 DEF LaunchInv, CounterIsExact
<1>9. capture.total \in Nat /\ capture.capacity \in Nat /\ capture.nonces \in Seq(Int)
  BY <1>1, HeaderSpaceAssumption
<1> QED BY <1>1, <1>7, <1>8, <1>9 DEF Filled

\* A buffer that was large enough holds the hits, each of them once.
LEMMA BufferIsExact ==
    ASSUME pow \in Worlds, request \in Requests, LaunchInv,
           \A i \in DOMAIN items : items[i].offset >= request.count,
           capture.total <= capture.capacity,
           NEW ns, ns = SubSeq(capture.nonces, 1, capture.total)
    PROVE  {ns[s] : s \in DOMAIN ns} = Hits /\ Len(ns) = Cardinality(Hits)
<1> DEFINE k == capture.total
<1>1. /\ k = Cardinality(Hits)
      /\ Filled = {s \in 0 .. k - 1 : s < capture.capacity}
      /\ k \in Nat /\ capture.capacity \in Nat /\ capture.nonces \in Seq(Int)
      /\ Len(capture.nonces) = capture.capacity
  BY LaunchOver
<1> HIDE DEF k
<1>2. \A s \in 1 .. k : s - 1 \in Filled /\ (s - 1) + 1 = s
  BY <1>1 DEF k
<1>3. /\ \A s \in Filled : capture.nonces[s + 1] \in Hits
      /\ \A s, u \in Filled : s # u => capture.nonces[s + 1] # capture.nonces[u + 1]
  BY DEF LaunchInv, FilledAreHits, FilledDiffer
<1>4. Len(ns) = k /\ DOMAIN ns = 1 .. k /\ \A s \in 1 .. k : ns[s] = capture.nonces[s]
  BY <1>1 DEF k
<1>5. \A s \in 1 .. k : ns[s] \in Hits
  BY <1>2, <1>3, <1>4
<1>6. \A s, u \in 1 .. k : s # u => ns[s] # ns[u]
  <2> SUFFICES ASSUME NEW s \in 1 .. k, NEW u \in 1 .. k, s # u PROVE ns[s] # ns[u]
    OBVIOUS
  <2>1. s - 1 # u - 1
    BY <1>1
  <2>2. capture.nonces[(s - 1) + 1] # capture.nonces[(u - 1) + 1]
    BY <2>1, <1>2, <1>3
  <2> QED BY <2>2, <1>2, <1>4
<1> DEFINE R == {ns[s] : s \in DOMAIN ns}
           f == [s \in 1 .. k |-> ns[s]]
<1>7. R \subseteq Hits
  BY <1>4, <1>5
<1>8. f \in Bijection(1 .. k, R)
  <2>1. f \in [1 .. k -> R] /\ \A y \in R : \E s \in 1 .. k : f[s] = y
    BY <1>4
  <2>2. \A s, u \in 1 .. k : f[s] = f[u] => s = u
    BY <1>6
  <2> QED BY <2>1, <2>2 DEF Bijection, Injection, Surjection, IsInjective
<1>9. IsFiniteSet(1 .. k) /\ Cardinality(1 .. k) = k
  <2> DEFINE one == 1
  <2>1. one \in Int /\ k \in Int
    BY <1>1
  <2> HIDE DEF one
  <2>2. /\ IsFiniteSet(one .. k)
        /\ Cardinality(one .. k) = IF one > k THEN 0 ELSE k - one + 1
    BY <2>1, FS_Interval
  <2> QED BY <2>2, <1>1 DEF one
<1>10. ExistsBijection(1 .. k, R)
  BY <1>8 DEF ExistsBijection
<1>11. IsFiniteSet(R) /\ Cardinality(R) = k
  BY <1>9, <1>10, FS_Bijection
<1>12. IsFiniteSet(Hits)
  BY HitsAreFewer
<1>13. R = Hits
  BY <1>1, <1>7, <1>11, <1>12, FS_Subset
<1> QED BY <1>1, <1>4, <1>13

\* ReadHits ends the command or launches anew.
LEMMA ReadHitsKeeps ==
    ASSUME SparseInv, request.kind = "sparse", ReadHits
    PROVE  SparseInv'
<1>1. /\ pow \in Worlds /\ request \in Requests /\ LaunchInv /\ host = "sparse"
      /\ \A i \in DOMAIN items : items[i].offset >= request.count
  BY DEF SparseInv, ReadHits
<1>2. pow' = pow /\ request' = request /\ Hits' = Hits /\ NonceRange' = NonceRange /\ GlobalSize' = GlobalSize
  BY ItemStep DEF ReadHits
<1>3. /\ capture.total = Cardinality(Hits)
      /\ capture.total \in Nat /\ capture.capacity \in Nat /\ capture.capacity \in 1 .. NonceSpace - 1
      /\ capture \in [capacity : 1 .. NonceSpace - 1, total : Nat, nonces : Seq(Int)]
  BY <1>1, LaunchOver DEF LaunchInv, SparseType
<1>4. CaptureIsExact' <=>
          /\ exit' = "done" => /\ {capture'.nonces[s] : s \in DOMAIN capture'.nonces} = Hits
                               /\ Len(capture'.nonces) = Cardinality(Hits)
          /\ (exit' = "refused" /\ request.capacity \in 1 .. NonceSpace - 1
                  /\ NonceRange \subseteq Nonces /\ NonceRange # {}) =>
                     2 * Cardinality(Hits) > NonceSpace - 1
  BY <1>2 DEF CaptureIsExact, Hits
<1>5. CASE capture.total > capture.capacity /\ Grown(capture.capacity) \in 1 .. NonceSpace - 1
  <2> DEFINE cap == Grown(capture.capacity)
  <2>1. /\ capture' = [capacity |-> cap, total |-> 0, nonces |-> [s \in 1 .. cap |-> NoNonce]]
        /\ items' = [i \in 0 .. GlobalSize - 1 |-> [offset |-> i, slot |-> NoSlot]]
        /\ host' = "sparse" /\ exit' = None
    BY <1>5 DEF ReadHits, Launch
  <2> HIDE DEF cap
  <2>2. FreshLaunch'
    <3>1. capture'.capacity = cap
      BY <2>1
    <3>2. ValidRange(request.start, request.count, request.count)'
      BY <1>1, <1>2 DEF LaunchInv, SparseType
    <3> QED BY <1>1, <1>2, <1>5, <2>1, <3>1, <3>2 DEF FreshLaunch, cap
  <2>3. LaunchInv'
    BY <2>2, LaunchStarts, PTL
  <2> QED BY <1>1, <1>2, <1>4, <2>1, <2>3 DEF SparseInv, None
<1>6. CASE capture.total > capture.capacity /\ ~(Grown(capture.capacity) \in 1 .. NonceSpace - 1)
  <2>1. host' = "idle" /\ exit' = "refused"
    BY <1>6 DEF ReadHits, Launch, End
  <2>2. 2 * Cardinality(Hits) > NonceSpace - 1
    BY <1>3, <1>6, HeaderSpaceAssumption DEF Grown
  <2> QED BY <1>1, <1>2, <1>4, <2>1, <2>2 DEF SparseInv
<1>7. CASE ~(capture.total > capture.capacity)
  <2>1. /\ host' = "idle" /\ exit' = "done"
        /\ capture' = [capture EXCEPT !.nonces = SubSeq(capture.nonces, 1, capture.total)]
    BY <1>7 DEF ReadHits, End
  <2>2. capture'.nonces = SubSeq(capture.nonces, 1, capture.total)
    BY <1>3, <2>1
  <2>3. /\ {capture'.nonces[s] : s \in DOMAIN capture'.nonces} = Hits
        /\ Len(capture'.nonces) = Cardinality(Hits)
    <3>1. PICK ns : ns = capture'.nonces
      OBVIOUS
    <3>2. capture.total <= capture.capacity
      BY <1>3, <1>7
    <3>3. ns = SubSeq(capture.nonces, 1, capture.total)
      BY <2>2, <3>1
    <3>4. {ns[s] : s \in DOMAIN ns} = Hits /\ Len(ns) = Cardinality(Hits)
      BY <1>1, <3>2, <3>3, BufferIsExact, Zenon
    <3> QED BY <3>1, <3>4
  <2> QED BY <1>1, <1>2, <1>4, <2>1, <2>3 DEF SparseInv
<1> QED BY <1>5, <1>6, <1>7

\* BeginSparse launches, or refuses the arguments.
LEMMA BeginSparseKeeps ==
    ASSUME SparseInv, request.kind = "sparse", BeginSparse
    PROVE  SparseInv'
<1>1. pow \in Worlds /\ request \in Requests /\ host = "idle"
  BY DEF SparseInv, BeginSparse
<1>2. pow' = pow /\ request' = request /\ Hits' = Hits /\ NonceRange' = NonceRange /\ GlobalSize' = GlobalSize
  BY ItemStep DEF BeginSparse
<1>3. CASE /\ ValidRange(request.start, request.count, request.count)
           /\ request.capacity \in 1 .. NonceSpace - 1
  <2> DEFINE cap == request.capacity
  <2>1. /\ capture' = [capacity |-> cap, total |-> 0, nonces |-> [s \in 1 .. cap |-> NoNonce]]
        /\ items' = [i \in 0 .. GlobalSize - 1 |-> [offset |-> i, slot |-> NoSlot]]
        /\ host' = "sparse" /\ exit' = None
    BY <1>3 DEF BeginSparse, Launch
  <2> HIDE DEF cap
  <2>2. FreshLaunch'
    <3>1. capture'.capacity = cap
      BY <2>1
    <3>2. ValidRange(request.start, request.count, request.count)'
      BY <1>2, <1>3
    <3> QED BY <1>1, <1>2, <1>3, <2>1, <3>1, <3>2 DEF FreshLaunch, cap
  <2>3. LaunchInv'
    BY <2>2, LaunchStarts, PTL
  <2> QED BY <1>1, <1>2, <2>1, <2>3 DEF SparseInv, None, CaptureIsExact
<1>4. CASE ~(/\ ValidRange(request.start, request.count, request.count)
             /\ request.capacity \in 1 .. NonceSpace - 1)
  <2>1. host' = "idle" /\ exit' = "refused"
    BY <1>1, <1>4 DEF BeginSparse, Launch, End
  <2>2. ~(request.capacity \in 1 .. NonceSpace - 1 /\ NonceRange \subseteq Nonces /\ NonceRange # {})
    <3> SUFFICES ASSUME NonceRange \subseteq Nonces, NonceRange # {}
                 PROVE  ValidRange(request.start, request.count, request.count)
      BY <1>4
    <3>1. request.start \in Nat /\ request.count \in Nat /\ NonceSpace \in Nat
      BY <1>1, HeaderSpaceAssumption
    <3>2. request.count > 0
      BY <3>1 DEF NonceRange
    <3>3. request.start \in NonceRange /\ request.start + request.count - 1 \in NonceRange
      BY <3>1, <3>2 DEF NonceRange
    <3>4. request.start + request.count - 1 < NonceSpace
      BY <3>1, <3>3 DEF Nonces
    <3> QED BY <3>1, <3>2, <3>4 DEF ValidRange
  <2> QED BY <1>1, <1>2, <2>1, <2>2 DEF SparseInv, CaptureIsExact
<1> QED BY <1>3, <1>4

\* Every step keeps the invariant of the sparse capture.
LEMMA SparseInvStep == SparseInv /\ [Next]_vars => SparseInv'
<1> SUFFICES ASSUME SparseInv, [Next]_vars PROVE SparseInv'
  OBVIOUS
<1>1. pow' = pow /\ request' = request
  BY DEF Next, vars, BeginMap, BeginSparse, Command, Upload, Kernel, WorkItem, Download, Verify,
         Conclude, Remove, RenameZones, RenameSummary, Sparse, Probe, Store, ReadHits, Abort
<1>2. CASE request.kind # "sparse"
  BY <1>1, <1>2 DEF SparseInv, CaptureIsExact
<1>3. CASE request.kind = "sparse"
  <2>0. host \in {"idle", "sparse"} /\ pow \in Worlds /\ request \in Requests
    BY <1>3 DEF SparseInv
  <2>1. CASE BeginSparse
    BY <1>3, <2>1, BeginSparseKeeps
  <2>2. CASE ReadHits
    BY <1>3, <2>2, ReadHitsKeeps
  <2>3. CASE Sparse
    <3>1. host = "sparse" /\ exit = None /\ LaunchInv
      BY <1>3, <2>3 DEF Sparse, Probe, Store, SparseInv
    <3>2. DOMAIN items = 0 .. GlobalSize - 1
      BY <3>1 DEF LaunchInv, SparseType
    <3>3. PICK i \in 0 .. GlobalSize - 1 : Probe(i) \/ Store(i)
      BY <2>3, <3>2 DEF Sparse
    <3>4. LaunchInv'
      BY <2>0, <3>1, <3>3, ProbeKeeps, StoreKeeps
    <3>5. host' = host /\ exit' = exit
      BY <3>3 DEF Probe, Store
    <3> QED BY <1>1, <2>0, <3>1, <3>4, <3>5 DEF SparseInv, CaptureIsExact, None
  <2>4. CASE Abort
    <3>1. host' = "idle" /\ exit' = "failed"
      BY <2>4 DEF Abort, End
    <3> QED BY <1>1, <2>0, <3>1 DEF SparseInv, CaptureIsExact
  <2>5. CASE UNCHANGED vars
    <3>1. /\ host' = host /\ exit' = exit /\ items' = items /\ capture' = capture
      BY <2>5 DEF vars
    <3>2. LaunchInv' <=> LaunchInv
      BY <1>1, <3>1 DEF LaunchInv, SparseType, OwnOffsets, CounterIsExact, SlotsAreOwn, FilledAreHits,
         FilledDiffer, Filled, Drawn, Held, Holds, Passed, ItemOf, Hits, GlobalSize, NonceRange, ValidRange
    <3> QED BY <1>1, <3>1, <3>2 DEF SparseInv, CaptureIsExact, NonceRange
  <2>6. ~((\E w \in BOOLEAN : BeginMap(w)) \/ Upload \/ Kernel \/ Download \/ Verify \/ Conclude
          \/ (\E file \in {"zones", "summary"} : Remove(file)) \/ RenameZones \/ RenameSummary)
    BY <1>3, <2>0 DEF BeginMap, Upload, Kernel, Download, Verify, Conclude, Remove, RenameZones, RenameSummary
  <2> QED BY <2>1, <2>2, <2>3, <2>4, <2>5, <2>6 DEF Next, Command
<1> QED BY <1>2, <1>3

\* What a sparse capture returns is exactly the hits of its range, for every
\* header, range, capacity and number of work-items.
THEOREM CaptureIsExactHolds == Spec => []CaptureIsExact
<1>1. Init => SparseInv
  BY DEF Init, SparseInv, CaptureIsExact, None
<1>2. SparseInv => CaptureIsExact
  BY DEF SparseInv
<1> QED BY <1>1, <1>2, SparseInvStep, PTL DEF Spec

-----------------------------------------------------------------------------
(***************************************************************************)
(* The map of zones.  More arithmetic.                                     *)
(***************************************************************************)
\* The class of a remainder splits in two when the divisor doubles.
LEMMA ModDouble ==
    ASSUME NEW a \in Nat, NEW s \in Nat \ {0}, NEW l \in 0 .. s - 1
    PROVE  a % s = l <=> (a % (2 * s) = l \/ a % (2 * s) = l + s)
<1> DEFINE r == a % (2 * s)
           q == a \div (2 * s)
<1>1. r \in 0 .. 2 * s - 1 /\ q \in Nat /\ a = (2 * s) * q + r
  <2> DEFINE w == 2 * s
  <2>1. w \in Nat \ {0}
    OBVIOUS
  <2> HIDE DEF w
  <2>2. (a % w) \in 0 .. w - 1 /\ a \div w \in Nat /\ a = w * (a \div w) + (a % w)
    BY <2>1, ModDef
  <2> QED BY <2>2 DEF w
<1> HIDE DEF r, q
<1>2. CASE r < s
  <2>1. a = s * (2 * q) + r /\ 2 * q \in Nat /\ r \in 0 .. s - 1
    BY <1>1, <1>2
  <2>2. a % s = r
    BY <2>1, ModUnique
  <2> QED BY <2>2, <1>1, <1>2 DEF r
<1>3. CASE r >= s
  <2>1. a = s * (2 * q + 1) + (r - s) /\ 2 * q + 1 \in Nat /\ r - s \in 0 .. s - 1
    BY <1>1, <1>3
  <2>2. a % s = r - s
    BY <2>1, ModUnique
  <2> QED BY <2>2, <1>1, <1>3 DEF r
<1> QED BY <1>1, <1>2, <1>3

\* Which zone a nonce is in.
LEMMA DivDef ==
    ASSUME NEW n \in Nat, NEW z \in Nat \ {0}, NEW q \in Nat
    PROVE  /\ n \div z \in Nat
           /\ n \div z = q <=> (q * z <= n /\ n < (q + 1) * z)
<1>1. n \div z \in Nat /\ (n \div z) * z <= n /\ n < (n \div z + 1) * z
  OBVIOUS
<1>2. (q * z <= n /\ n < (q + 1) * z) => n \div z = q
  OBVIOUS
<1> QED BY <1>1, <1>2

\* The zones do not overlap.
LEMMA MulMono ==
    ASSUME NEW a \in Int, NEW b \in Int, NEW z \in Nat \ {0}, a < b
    PROVE  (a + 1) * z <= b * z
OBVIOUS

\* A larger nonce is in the same or a later zone.
LEMMA DivMono ==
    ASSUME NEW a \in Nat, NEW b \in Nat, NEW z \in Nat \ {0}, a <= b
    PROVE  a \div z <= b \div z
<1> DEFINE p == a \div z
           q == b \div z
<1>1. p \in Nat /\ q \in Nat /\ p * z <= a /\ b < (q + 1) * z
  BY DivDef
<1> HIDE DEF p, q
<1>2. ASSUME q < p PROVE FALSE
  BY <1>1, <1>2, MulMono
<1> QED BY <1>1, <1>2 DEF p, q

\* Every number leaves nothing modulo one.
LEMMA ModOne == ASSUME NEW a \in Nat PROVE a % 1 = 0
OBVIOUS

-----------------------------------------------------------------------------
(***************************************************************************)
(* The figures of a set of nonces, the empty set included.                 *)
(***************************************************************************)
\* A minimum before any nonce.
Last == << MaxPow, NonceSpace - 1 >>

\* The least of the nonces of S by value and nonce, or Last if there is none.
IsMinimum(m, S) ==
    /\ m = Last \/ \E n \in S : m = << pow[n], n >>
    /\ ~MinimumPrecedes(Last, m)
    /\ \A n \in S : ~MinimumPrecedes(<< pow[n], n >>, m)

StatsFor(stats, S) ==
    /\ stats = [minimum |-> stats.minimum, counts |-> stats.counts, network |-> stats.network]
    /\ IsMinimum(stats.minimum, S)
    /\ stats.counts = [i \in DOMAIN Bounds |-> Cardinality({n \in S : pow[n] < Bounds[i]})]
    /\ stats.network = Cardinality({n \in S : pow[n] <= Target})

\* What the header gives a nonce.
LEMMA PowFacts ==
    ASSUME pow \in Worlds
    PROVE  /\ \A n \in Nonces : pow[n] \in Int /\ pow[n] <= MaxPow /\ n \in Int /\ n <= NonceSpace - 1
           /\ MaxPow \in Int /\ NonceSpace \in Nat \ {0}
<1>1. pow \in [Nonces -> 0 .. MaxPow] /\ MaxPow \in Nat /\ NonceSpace \in Nat \ {0}
  BY HeaderSpaceAssumption
<1>2. \A n \in Nonces : pow[n] \in 0 .. MaxPow
  BY <1>1
<1>3. \A n \in Nonces : n \in Int /\ n <= NonceSpace - 1
  BY <1>1 DEF Nonces
<1> QED BY <1>1, <1>2, <1>3

\* A minimum is a pair of integers.
LEMMA MinimumPair ==
    ASSUME pow \in Worlds, NEW S \in SUBSET Nonces, NEW m, IsMinimum(m, S)
    PROVE  m = << m[1], m[2] >> /\ m[1] \in Int /\ m[2] \in Int
<1>1. CASE m = Last
  BY <1>1, PowFacts DEF Last
<1>2. CASE m # Last
  <2>1. PICK n \in S : m = << pow[n], n >>
    BY <1>2 DEF IsMinimum
  <2>2. pow[n] \in Int /\ n \in Int
    BY PowFacts
  <2> QED BY <2>1, <2>2
<1> QED BY <1>1, <1>2

\* There is one minimum.
LEMMA MinimumUnique ==
    ASSUME pow \in Worlds, NEW S \in SUBSET Nonces,
           NEW m, NEW k, IsMinimum(m, S), IsMinimum(k, S)
    PROVE  m = k
<1>1. /\ m = << m[1], m[2] >> /\ m[1] \in Int /\ m[2] \in Int
      /\ k = << k[1], k[2] >> /\ k[1] \in Int /\ k[2] \in Int
  BY MinimumPair
<1>2. ~MinimumPrecedes(m, k) /\ ~MinimumPrecedes(k, m)
  BY DEF IsMinimum
<1>3. ~(m[1] < k[1]) /\ ~(k[1] < m[1])
  BY <1>2 DEF MinimumPrecedes
<1>4. m[1] = k[1]
  BY <1>1, <1>3
<1>5. ~(m[2] < k[2]) /\ ~(k[2] < m[2])
  BY <1>2, <1>4 DEF MinimumPrecedes
<1>6. m[2] = k[2]
  BY <1>1, <1>5
<1> QED BY <1>1, <1>4, <1>6

\* A set of nonces has one record of figures.
LEMMA StatsUnique ==
    ASSUME pow \in Worlds, NEW S \in SUBSET Nonces,
           NEW a, NEW b, StatsFor(a, S), StatsFor(b, S)
    PROVE  a = b
<1>1. a.minimum = b.minimum
  BY MinimumUnique DEF StatsFor
<1>2. a.counts = b.counts /\ a.network = b.network
  BY DEF StatsFor
<1> QED BY <1>1, <1>2 DEF StatsFor

\* Not to precede is transitive.
LEMMA PrecedesTransitive ==
    ASSUME NEW x, NEW y, NEW z,
           x[1] \in Int, x[2] \in Int, y[1] \in Int, y[2] \in Int, z[1] \in Int, z[2] \in Int
    PROVE  /\ ~MinimumPrecedes(x, y) /\ MinimumPrecedes(z, y) => ~MinimumPrecedes(x, z)
           /\ ~MinimumPrecedes(x, y) /\ ~MinimumPrecedes(y, z) => ~MinimumPrecedes(x, z)
BY DEF MinimumPrecedes

\* The least of two sets of nonces is the lesser of the two.
LEMMA MinimumUnion ==
    ASSUME pow \in Worlds, NEW S \in SUBSET Nonces, NEW T \in SUBSET Nonces,
           NEW m, NEW k, IsMinimum(m, S), IsMinimum(k, T)
    PROVE  IsMinimum(IF MinimumPrecedes(k, m) THEN k ELSE m, S \cup T)
<1>1. /\ m[1] \in Int /\ m[2] \in Int /\ k[1] \in Int /\ k[2] \in Int
  BY MinimumPair
<1>2. \A n \in S \cup T : << pow[n], n >>[1] \in Int /\ << pow[n], n >>[2] \in Int
  BY PowFacts
<1>3. CASE MinimumPrecedes(k, m)
  <2>1. \A n \in S : ~MinimumPrecedes(<< pow[n], n >>, k)
    <3> SUFFICES ASSUME NEW n \in S PROVE ~MinimumPrecedes(<< pow[n], n >>, k)
      OBVIOUS
    <3>1. ~MinimumPrecedes(<< pow[n], n >>, m)
      BY DEF IsMinimum
    <3> QED BY <1>1, <1>2, <1>3, <3>1, PrecedesTransitive
  <2> QED BY <1>3, <2>1 DEF IsMinimum
<1>4. CASE ~MinimumPrecedes(k, m)
  <2>1. \A n \in T : ~MinimumPrecedes(<< pow[n], n >>, m)
    <3> SUFFICES ASSUME NEW n \in T PROVE ~MinimumPrecedes(<< pow[n], n >>, m)
      OBVIOUS
    <3>1. ~MinimumPrecedes(<< pow[n], n >>, k)
      BY DEF IsMinimum
    <3> QED BY <1>1, <1>2, <1>4, <3>1, PrecedesTransitive
  <2> QED BY <1>4, <2>1 DEF IsMinimum
<1> QED BY <1>3, <1>4

\* The least of one nonce.
LEMMA MinimumOfOne ==
    ASSUME pow \in Worlds, NEW n \in Nonces
    PROVE  IsMinimum(<< pow[n], n >>, {n})
<1>1. pow[n] \in Int /\ pow[n] <= MaxPow /\ n \in Int /\ n <= NonceSpace - 1 /\ MaxPow \in Int
      /\ NonceSpace \in Int
  BY PowFacts
<1> QED BY <1>1 DEF IsMinimum, MinimumPrecedes, Last

\* What is counted of two sets that have nothing in common adds up.
LEMMA CountUnion ==
    ASSUME NEW S \in SUBSET Nonces, NEW T \in SUBSET Nonces, S \cap T = {}
    PROVE  Cardinality(S \cup T) = Cardinality(S) + Cardinality(T)
<1>1. IsFiniteSet(S) /\ IsFiniteSet(T)
  BY NoncesAreFinite, FS_Subset
<1>2. Cardinality(S) \in Nat /\ Cardinality(T) \in Nat
  BY <1>1, FS_CardinalityType
<1>3. Cardinality(S \cup T) = Cardinality(S) + Cardinality(T) - Cardinality(S \cap T)
  BY <1>1, FS_Union
<1>4. Cardinality(S \cap T) = 0
  BY FS_EmptySet
<1> QED BY <1>2, <1>3, <1>4

\* The figures of no nonce.
LEMMA EmptyStatsFor == pow \in Worlds => StatsFor(EmptyStats, {})
<1> SUFFICES ASSUME pow \in Worlds PROVE StatsFor(EmptyStats, {})
  OBVIOUS
<1>1. EmptyStats.minimum = Last /\ EmptyStats.network = 0
  BY DEF EmptyStats, Last
<1>2. EmptyStats.counts = [i \in DOMAIN Bounds |-> 0]
  BY DEF EmptyStats
<1>3. \A i : {n \in {} : pow[n] < Bounds[i]} = {}
  OBVIOUS
<1>4. {n \in {} : pow[n] <= Target} = {}
  OBVIOUS
<1>5. ~MinimumPrecedes(Last, Last)
  BY PowFacts DEF MinimumPrecedes, Last
<1>6. IsMinimum(EmptyStats.minimum, {})
  BY <1>1, <1>5 DEF IsMinimum
<1>7. EmptyStats.counts = [i \in DOMAIN Bounds |-> Cardinality({n \in {} : pow[n] < Bounds[i]})]
  BY <1>2, <1>3, FS_EmptySet
<1>8. EmptyStats = [minimum |-> EmptyStats.minimum, counts |-> EmptyStats.counts, network |-> EmptyStats.network]
  BY DEF EmptyStats
<1> QED BY <1>1, <1>4, <1>6, <1>7, <1>8, FS_EmptySet DEF StatsFor

\* The figures of two sets that have nothing in common.
LEMMA CombineStats ==
    ASSUME pow \in Worlds, NEW S \in SUBSET Nonces, NEW T \in SUBSET Nonces, S \cap T = {},
           NEW a, NEW b, StatsFor(a, S), StatsFor(b, T)
    PROVE  StatsFor(Combine(a, b), S \cup T)
<1> DEFINE c == Combine(a, b)
<1>1. /\ c = [minimum |-> c.minimum, counts |-> c.counts, network |-> c.network]
      /\ c.minimum = IF MinimumPrecedes(b.minimum, a.minimum) THEN b.minimum ELSE a.minimum
      /\ c.counts = [i \in DOMAIN Bounds |-> a.counts[i] + b.counts[i]]
      /\ c.network = a.network + b.network
  BY DEF Combine
<1> HIDE DEF c
<1>2. IsMinimum(c.minimum, S \cup T)
  BY <1>1, MinimumUnion DEF StatsFor
<1>3. \A i \in DOMAIN Bounds : a.counts[i] + b.counts[i] = Cardinality({n \in S \cup T : pow[n] < Bounds[i]})
  <2> SUFFICES ASSUME NEW i \in DOMAIN Bounds
               PROVE  a.counts[i] + b.counts[i] = Cardinality({n \in S \cup T : pow[n] < Bounds[i]})
    OBVIOUS
  <2> DEFINE X == {n \in S : pow[n] < Bounds[i]}
             Y == {n \in T : pow[n] < Bounds[i]}
  <2>1. a.counts[i] = Cardinality(X) /\ b.counts[i] = Cardinality(Y)
    BY DEF StatsFor
  <2>2. X \in SUBSET Nonces /\ Y \in SUBSET Nonces /\ X \cap Y = {}
    OBVIOUS
  <2>3. X \cup Y = {n \in S \cup T : pow[n] < Bounds[i]}
    OBVIOUS
  <2> HIDE DEF X, Y
  <2> QED BY <2>1, <2>2, <2>3, CountUnion
<1>4. a.network + b.network = Cardinality({n \in S \cup T : pow[n] <= Target})
  <2> DEFINE X == {n \in S : pow[n] <= Target}
             Y == {n \in T : pow[n] <= Target}
  <2>1. a.network = Cardinality(X) /\ b.network = Cardinality(Y)
    BY DEF StatsFor
  <2>2. X \in SUBSET Nonces /\ Y \in SUBSET Nonces /\ X \cap Y = {}
    OBVIOUS
  <2>3. X \cup Y = {n \in S \cup T : pow[n] <= Target}
    OBVIOUS
  <2> HIDE DEF X, Y
  <2> QED BY <2>1, <2>2, <2>3, CountUnion
<1>5. c.counts = [i \in DOMAIN Bounds |-> Cardinality({n \in S \cup T : pow[n] < Bounds[i]})]
  BY <1>1, <1>3
<1> QED BY <1>1, <1>2, <1>4, <1>5 DEF StatsFor, c

\* The figures of one nonce.
OneStats(n) == [minimum |-> << pow[n], n >>, counts |-> ClassifyTail(pow[n]),
                network |-> IF pow[n] <= Target THEN 1 ELSE 0]

\* To observe a nonce is to combine with its figures.
LEMMA ObserveOne ==
    ASSUME pow \in Worlds, NEW n \in Nonces, NEW stats
    PROVE  /\ StatsFor(OneStats(n), {n})
           /\ Observe(stats, n) = Combine(stats, OneStats(n))
<1>1. IsMinimum(<< pow[n], n >>, {n})
  BY MinimumOfOne
<1>2. \A i \in DOMAIN Bounds : ClassifyTail(pow[n])[i] = Cardinality({k \in {n} : pow[k] < Bounds[i]})
  <2> SUFFICES ASSUME NEW i \in DOMAIN Bounds
               PROVE  ClassifyTail(pow[n])[i] = Cardinality({k \in {n} : pow[k] < Bounds[i]})
    OBVIOUS
  <2>1. CASE pow[n] < Bounds[i]
    <3>1. {k \in {n} : pow[k] < Bounds[i]} = {n}
      BY <2>1
    <3> QED BY <2>1, <3>1, FS_Singleton DEF ClassifyTail
  <2>2. CASE ~(pow[n] < Bounds[i])
    <3>1. {k \in {n} : pow[k] < Bounds[i]} = {}
      BY <2>2
    <3> QED BY <2>2, <3>1, FS_EmptySet DEF ClassifyTail
  <2> QED BY <2>1, <2>2
<1>3. (IF pow[n] <= Target THEN 1 ELSE 0) = Cardinality({k \in {n} : pow[k] <= Target})
  <2>1. CASE pow[n] <= Target
    <3>1. {k \in {n} : pow[k] <= Target} = {n}
      BY <2>1
    <3> QED BY <2>1, <3>1, FS_Singleton
  <2>2. CASE ~(pow[n] <= Target)
    <3>1. {k \in {n} : pow[k] <= Target} = {}
      BY <2>2
    <3> QED BY <2>2, <3>1, FS_EmptySet
  <2> QED BY <2>1, <2>2
<1>4. ClassifyTail(pow[n]) = [i \in DOMAIN Bounds |-> Cardinality({k \in {n} : pow[k] < Bounds[i]})]
  BY <1>2 DEF ClassifyTail
<1>5. StatsFor(OneStats(n), {n})
  BY <1>1, <1>3, <1>4 DEF StatsFor, OneStats
<1>6. Observe(stats, n) = Combine(stats, OneStats(n))
  BY DEF Observe, Combine, OneStats
<1> QED BY <1>5, <1>6

-----------------------------------------------------------------------------
(***************************************************************************)
(* What a work-item accumulates.                                           *)
(***************************************************************************)
\* A range of nonces without wrap-around, and its nonces.
IsRange(r) == r.start \in Nat /\ r.count \in Nat /\ r.start + r.count <= NonceSpace
NoncesOf(r) == r.start .. r.start + r.count - 1

\* Those of them at the offsets of one class.
Class(r, size, lid) == {n \in NoncesOf(r) : (n - r.start) % size = lid}

\* The step of the recursion of ItemStats, and the equation it solves.
ItemStep1(r, lid, size, o, before) ==
    IF (o - 1) % size = lid THEN Observe(before, (r.start + o - 1) % NonceSpace) ELSE before

ItemEquation(r, lid, size, f) ==
    f = [o \in 0 .. r.count |->
            IF o = 0 THEN EmptyStats
            ELSE IF (o - 1) % size = lid
                 THEN Observe(f[o - 1], (r.start + o - 1) % NonceSpace)
                 ELSE f[o - 1]]

\* The recursion of ItemStats has a solution, by the least length without one.
LEMMA ItemRecursion ==
    ASSUME NEW r, NEW lid, NEW size, r.count \in Nat
    PROVE  ItemEquation(r, lid, size, CHOOSE f : ItemEquation(r, lid, size, f))
<1> DEFINE Solves(f, c) ==
               f = [o \in 0 .. c |-> IF o = 0 THEN EmptyStats ELSE ItemStep1(r, lid, size, o, f[o - 1])]
           Bad == {c \in Nat : ~\E f : Solves(f, c)}
<1>1. Bad = {}
  <2> SUFFICES ASSUME Bad # {} PROVE FALSE
    OBVIOUS
  <2>1. PICK c \in Bad : \A d \in Bad : ~(<<d, c>> \in OpToRel(<, Nat))
    BY NatLessThanWellFounded, WFMin
  <2>2. c \in Nat /\ \A d \in Nat : d < c => d \notin Bad
    BY <2>1 DEF OpToRel
  <2>3. CASE c = 0
    <3> DEFINE g == [o \in 0 .. 0 |-> EmptyStats]
    <3>1. Solves(g, 0)
      OBVIOUS
    <3> QED BY <2>1, <2>3, <3>1
  <2>4. CASE c # 0
    <3>1. c - 1 \in Nat /\ c - 1 < c
      BY <2>2, <2>4
    <3>2. PICK f : Solves(f, c - 1)
      BY <2>2, <3>1
    <3> DEFINE g == [o \in 0 .. c |-> IF o = c THEN ItemStep1(r, lid, size, c, f[c - 1]) ELSE f[o]]
    <3>3. \A o \in 0 .. c - 1 : g[o] = f[o]
      BY <2>2
    <3>4. g[c] = ItemStep1(r, lid, size, c, g[c - 1])
      BY <2>2, <3>1, <3>3
    <3>5. \A o \in 0 .. c - 1 : f[o] = IF o = 0 THEN EmptyStats ELSE ItemStep1(r, lid, size, o, f[o - 1])
      BY <3>2
    <3>6. \A o \in 0 .. c : g[o] = IF o = 0 THEN EmptyStats ELSE ItemStep1(r, lid, size, o, g[o - 1])
      <4> SUFFICES ASSUME NEW o \in 0 .. c
                   PROVE  g[o] = IF o = 0 THEN EmptyStats ELSE ItemStep1(r, lid, size, o, g[o - 1])
        OBVIOUS
      <4> HIDE DEF g
      <4>1. CASE o = c
        BY <3>4, <4>1, <2>4
      <4>2. CASE o = 0
        <5>1. 0 \in 0 .. c - 1
          BY <2>2, <2>4
        <5> QED BY <3>3, <3>5, <4>2, <5>1
      <4>3. CASE o # c /\ o # 0
        <5>1. o \in 0 .. c - 1 /\ o - 1 \in 0 .. c - 1
          BY <2>2, <4>3
        <5> QED BY <3>3, <3>5, <4>3, <5>1
      <4> QED BY <4>1, <4>2, <4>3
    <3>7. Solves(g, c)
      <4> DEFINE h == [o \in 0 .. c |-> IF o = 0 THEN EmptyStats ELSE ItemStep1(r, lid, size, o, g[o - 1])]
      <4>1. DOMAIN g = 0 .. c /\ DOMAIN h = 0 .. c /\ g = [o \in DOMAIN g |-> g[o]]
        OBVIOUS
      <4> HIDE DEF g
      <4>2. h = [o \in 0 .. c |-> g[o]]
        BY <3>6
      <4> QED BY <4>1, <4>2
    <3> QED BY <2>1, <3>7
  <2> QED BY <2>3, <2>4
<1>2. PICK f : Solves(f, r.count)
  BY <1>1
<1>3. ItemEquation(r, lid, size, f)
  BY <1>2 DEF ItemEquation, ItemStep1
<1> QED BY <1>3, Zenon

\* What a work-item accumulates are the figures of the offsets of its class.
LEMMA ItemStatsFor ==
    ASSUME pow \in Worlds, NEW r, IsRange(r), NEW lid \in Nat, NEW size \in Nat \ {0}
    PROVE  StatsFor(ItemStats(r, lid, size), Class(r, size, lid))
<1> DEFINE f == CHOOSE g : ItemEquation(r, lid, size, g)
           a == r.start
           Upto(o) == {n \in NoncesOf(r) : n < a + o /\ (n - a) % size = lid}
           Bad == {o \in 0 .. r.count : ~StatsFor(f[o], Upto(o))}
<1>0. a \in Nat /\ r.count \in Nat /\ a + r.count <= NonceSpace /\ NonceSpace \in Nat \ {0}
  BY HeaderSpaceAssumption DEF IsRange
<1>1. ItemEquation(r, lid, size, f)
  BY <1>0, ItemRecursion
<1>2. ItemStats(r, lid, size) = f[r.count]
  BY Zenon DEF ItemStats, ItemEquation
<1> HIDE DEF f
<1>3. \A o \in 0 .. r.count : f[o] = IF o = 0 THEN EmptyStats ELSE ItemStep1(r, lid, size, o, f[o - 1])
  BY <1>1 DEF ItemEquation, ItemStep1
<1>4. \A n \in NoncesOf(r) : n \in Int /\ n >= a /\ n < a + r.count
  BY <1>0 DEF NoncesOf
<1>a. NoncesOf(r) \subseteq Nonces
  BY <1>0 DEF NoncesOf, Nonces
<1>5. Bad = {}
  <2> SUFFICES ASSUME Bad # {} PROVE FALSE
    OBVIOUS
  <2>0. Bad \subseteq Nat
    BY <1>0
  <2>1. PICK o \in Bad : \A d \in Bad : ~(<<d, o>> \in OpToRel(<, Nat))
    BY <2>0, NatLessThanWellFounded, WFMin
  <2>2. o \in 0 .. r.count /\ o \in Nat /\ \A d \in 0 .. r.count : d < o => d \notin Bad
    BY <2>0, <2>1, <1>0 DEF OpToRel
  <2>3. ~StatsFor(f[o], Upto(o))
    BY <2>1
  <2>4. o # 0
    <3> SUFFICES ASSUME o = 0 PROVE FALSE
      OBVIOUS
    <3>1. f[0] = EmptyStats
      BY <1>3, <1>0
    <3>2. Upto(0) = {}
      BY <1>0, <1>4
    <3> QED BY <2>3, <3>1, <3>2, EmptyStatsFor
  <2> DEFINE p == o - 1
             n == a + p
  <2>5. p \in 0 .. r.count /\ p \in Nat /\ p < o /\ n \in NoncesOf(r) /\ n \in Nonces /\ n \in Nat
    BY <1>0, <2>2, <2>4 DEF NoncesOf, Nonces
  <2>6. StatsFor(f[p], Upto(p))
    BY <2>2, <2>5
  <2>7. f[o] = ItemStep1(r, lid, size, o, f[p])
    BY <1>3, <2>2, <2>4
  <2>8. (r.start + o - 1) % NonceSpace = n
    <3>1. n < NonceSpace /\ r.start + o - 1 = n
      BY <1>0, <2>2, <2>5 DEF Nonces
    <3> HIDE DEF n
    <3> QED BY <3>1, <2>5, <1>0, ModSmall
  <2>9. n - a = p
    BY <1>0, <2>5
  <2>10. \A m \in NoncesOf(r) : m < a + o <=> (m < a + p \/ m = n)
    <3> SUFFICES ASSUME NEW m \in NoncesOf(r) PROVE m < a + o <=> (m < a + p \/ m = n)
      OBVIOUS
    <3>1. m \in Int /\ a \in Nat /\ p \in Nat /\ o = p + 1
      BY <1>0, <1>4, <2>2, <2>5
    <3> HIDE DEF a, p, Bad, Upto
    <3> QED BY <3>1
  <2> HIDE DEF n
  <2>11. CASE p % size = lid
    <3>1. f[o] = Combine(f[p], OneStats(n))
      BY <2>5, <2>7, <2>8, <2>11, ObserveOne DEF ItemStep1
    <3>2. Upto(o) = Upto(p) \cup {n}
      BY <2>5, <2>9, <2>10, <2>11
    <3>3. Upto(p) \cap {n} = {}
      BY <1>0, <2>5 DEF n
    <3>4. Upto(p) \in SUBSET Nonces /\ {n} \in SUBSET Nonces
      BY <1>a, <2>5
    <3>5. StatsFor(OneStats(n), {n})
      BY <2>5, ObserveOne
    <3> HIDE DEF Upto
    <3>6. StatsFor(Combine(f[p], OneStats(n)), Upto(p) \cup {n})
      BY <2>6, <3>3, <3>4, <3>5, CombineStats
    <3> QED BY <2>3, <3>1, <3>2, <3>6
  <2>12. CASE p % size # lid
    <3>1. f[o] = f[p]
      BY <2>7, <2>12 DEF ItemStep1
    <3>2. Upto(o) = Upto(p)
      BY <2>9, <2>10, <2>12
    <3> QED BY <2>3, <2>6, <3>1, <3>2
  <2> QED BY <2>11, <2>12
<1>6. StatsFor(f[r.count], Upto(r.count))
  <2>1. r.count \in 0 .. r.count
    BY <1>0
  <2> HIDE DEF Upto
  <2>2. \A o \in 0 .. r.count : StatsFor(f[o], Upto(o))
    BY <1>5
  <2> QED BY <2>1, <2>2
<1>7. Upto(r.count) = Class(r, size, lid)
  BY <1>4 DEF Class
<1> QED BY <1>2, <1>6, <1>7

\* A scan of a zone by one work-item are the figures of the zone.
LEMMA ZoneStatsFor ==
    ASSUME pow \in Worlds, NEW r, IsRange(r)
    PROVE  StatsFor(ItemStats(r, 0, 1), NoncesOf(r))
<1>1. StatsFor(ItemStats(r, 0, 1), Class(r, 1, 0))
  BY ItemStatsFor
<1>2. Class(r, 1, 0) = NoncesOf(r)
  <2>1. \A n \in NoncesOf(r) : n - r.start \in Nat
    BY DEF NoncesOf, IsRange
  <2>2. \A n \in NoncesOf(r) : (n - r.start) % 1 = 0
    BY <2>1, ModOne
  <2> QED BY <2>2 DEF Class
<1> QED BY <1>1, <1>2

\* The nonces of a range are nonces, as many as it counts.
LEMMA RangeFacts ==
    ASSUME NEW r, IsRange(r)
    PROVE  /\ NoncesOf(r) \in SUBSET Nonces
           /\ IsFiniteSet(NoncesOf(r)) /\ Cardinality(NoncesOf(r)) = r.count
<1>1. r.start \in Nat /\ r.count \in Nat /\ r.start + r.count <= NonceSpace /\ NonceSpace \in Nat
  BY HeaderSpaceAssumption DEF IsRange
<1> DEFINE a == r.start
           b == r.start + r.count - 1
<1>2. a \in Int /\ b \in Int /\ b - a + 1 = r.count /\ (a > b <=> r.count = 0)
  BY <1>1
<1>3. NoncesOf(r) = a .. b
  BY DEF NoncesOf
<1>4. NoncesOf(r) \in SUBSET Nonces
  BY <1>1 DEF NoncesOf, Nonces
<1> HIDE DEF a, b
<1>5. IsFiniteSet(a .. b) /\ Cardinality(a .. b) = IF a > b THEN 0 ELSE b - a + 1
  BY <1>2, FS_Interval
<1> QED BY <1>2, <1>3, <1>4, <1>5

\* The figures of a set that is not empty are those of its definition.
LEMMA StatsAreStats ==
    ASSUME pow \in Worlds, NEW S \in SUBSET Nonces, S # {}, NEW st, StatsFor(st, S)
    PROVE  IsStatsOf(st, S)
<1> DEFINE m == st.minimum
<1>1. IsMinimum(m, S)
  BY DEF StatsFor
<1>2. m = << m[1], m[2] >> /\ m[1] \in Int /\ m[2] \in Int
  BY <1>1, MinimumPair
<1>3. \E n \in S : m = << pow[n], n >>
  <2>1. CASE m = Last
    <3>1. PICK n \in S : TRUE
      OBVIOUS
    <3>2. pow[n] \in Int /\ pow[n] <= MaxPow /\ n \in Int /\ n <= NonceSpace - 1 /\ MaxPow \in Int
          /\ NonceSpace \in Int
      BY PowFacts
    <3>3. ~MinimumPrecedes(<< pow[n], n >>, Last)
      BY <1>1, <2>1 DEF IsMinimum
    <3>4. pow[n] = MaxPow /\ n = NonceSpace - 1
      BY <3>2, <3>3 DEF MinimumPrecedes, Last
    <3> QED BY <2>1, <3>4 DEF Last
  <2>2. CASE m # Last
    BY <1>1, <2>2 DEF IsMinimum
  <2> QED BY <2>1, <2>2
<1>4. PICK n \in S : m = << pow[n], n >>
  BY <1>3
<1>5. m[2] = n /\ m[1] = pow[n]
  BY <1>4
<1>6. \A k \in S : ~MinimumPrecedes(<< pow[k], k >>, m)
  BY <1>1 DEF IsMinimum
<1>7. \A i \in DOMAIN Bounds : st.counts[i] = Cardinality({k \in S : pow[k] < Bounds[i]})
  BY DEF StatsFor
<1>8. st.network = Cardinality({k \in S : pow[k] <= Target})
  BY DEF StatsFor
<1> QED BY <1>5, <1>6, <1>7, <1>8 DEF IsStatsOf

-----------------------------------------------------------------------------
(***************************************************************************)
(* The layout.                                                             *)
(***************************************************************************)
\* The zones of a layout: each is a range of nonces, the nonces of the whole range
\* that its index says, and at least one.
LEMMA LayoutIs ==
    ASSUME NEW start \in Nat, NEW c \in Nat \ {0}, NEW size \in Nat \ {0}, start + c <= NonceSpace,
           NEW L, L = MakeZoneLayout(start, c, size),
           NEW first, first = start \div size,
           NEW k, k = (start + c - 1) \div size - first + 1
    PROVE  /\ k \in Nat \ {0} /\ DOMAIN L = 1 .. k /\ Len(L) = k /\ first \in Nat
           /\ L = [i \in 1 .. k |-> L[i]]
           /\ \A i \in 1 .. k :
                  /\ L[i].index = first + i - 1 /\ L[i].count > 0 /\ IsRange(L[i])
                  /\ L[i].end = L[i].start + L[i].count - 1
                  /\ NoncesOf(L[i]) = {n \in start .. start + c - 1 : n \div size = first + i - 1}
<1> DEFINE last == (start + c - 1) \div size
           from(ix) == Larger(start, ix * size)
           end(ix) == Smaller(start + c, Smaller(NonceSpace, (ix + 1) * size))
<1>1. start + c - 1 \in Nat /\ start <= start + c - 1 /\ NonceSpace \in Nat
  BY HeaderSpaceAssumption
<1>2. first \in Nat /\ last \in Nat /\ first <= last
  BY <1>1, DivDef, DivMono
<1>3. k \in Nat \ {0} /\ k = last - first + 1
  BY <1>2
<1>4. L = [i \in 1 .. k |-> [index |-> first + i - 1, start |-> from(first + i - 1),
                             end |-> end(first + i - 1) - 1,
                             count |-> end(first + i - 1) - from(first + i - 1)]]
  BY DEF MakeZoneLayout
<1>5. DOMAIN L = 1 .. k /\ Len(L) = k /\ L = [i \in 1 .. k |-> L[i]]
  BY <1>3, <1>4
<1>6. ASSUME NEW i \in 1 .. k
      PROVE  /\ L[i].index = first + i - 1 /\ L[i].count > 0 /\ IsRange(L[i])
             /\ L[i].end = L[i].start + L[i].count - 1
             /\ NoncesOf(L[i]) = {n \in start .. start + c - 1 : n \div size = first + i - 1}
  <2> DEFINE ix == first + i - 1
             P == ix * size
             Q == (ix + 1) * size
  <2>1. L[i] = [index |-> ix, start |-> from(ix), end |-> end(ix) - 1, count |-> end(ix) - from(ix)]
    BY <1>4
  <2>2. ix \in Nat /\ first <= ix /\ ix <= last
    BY <1>2, <1>3
  <2> HIDE DEF ix, last
  <2>3. P \in Nat /\ Q \in Nat /\ P < Q
    BY <2>2
  <2>4. start < Q
    <3>1. start < (first + 1) * size
      BY <1>2, DivDef
    <3>2. (first + 1) * size <= (ix + 1) * size
      BY <1>2, <2>2, MulMono
    <3> HIDE DEF Q
    <3>3. (first + 1) * size \in Nat
      BY <1>2
    <3> QED BY <2>3, <3>1, <3>2, <3>3 DEF Q
  <2>5. P < start + c
    <3>1. last * size <= start + c - 1
      BY <1>1, <1>2, DivDef DEF last
    <3>2. ix * size <= last * size
      <4>1. CASE ix = last
        BY <4>1, <2>2
      <4>2. CASE ix < last
        <5>1. (ix + 1) * size <= last * size
          BY <1>2, <2>2, <4>2, MulMono
        <5> QED BY <5>1, <2>2, <1>2
      <4> QED BY <4>1, <4>2, <2>2, <1>2
    <3>3. last * size \in Nat
      BY <1>2
    <3> QED BY <1>1, <2>3, <3>1, <3>2, <3>3
  <2>6. \A n \in start .. start + c - 1 : n \div size = ix <=> (P <= n /\ n < Q)
    <3> SUFFICES ASSUME NEW n \in start .. start + c - 1
                 PROVE  n \div size = ix <=> (P <= n /\ n < Q)
      OBVIOUS
    <3>1. n \in Nat
      OBVIOUS
    <3> QED BY <2>2, <3>1, DivDef
  <2> HIDE DEF P, Q
  <2>7. /\ from(ix) = IF start < P THEN P ELSE start
        /\ end(ix) = IF start + c < Q THEN start + c ELSE Q
    BY <1>1, <2>3 DEF Larger, Smaller, P, Q
  <2>8. /\ from(ix) \in Nat /\ end(ix) \in Nat /\ from(ix) < end(ix) /\ end(ix) <= NonceSpace
    BY <1>1, <2>3, <2>4, <2>5, <2>7
  <2>9. from(ix) .. end(ix) - 1 = {n \in start .. start + c - 1 : P <= n /\ n < Q}
    <3> DEFINE x == from(ix)
               y == end(ix)
    <3> HIDE DEF x, y
    <3>1. /\ x = IF start < P THEN P ELSE start
          /\ y = IF start + c < Q THEN start + c ELSE Q
      BY <2>7 DEF x, y
    <3>2. \A n \in Int : (x <= n /\ n <= y - 1) <=> (start <= n /\ n <= start + c - 1 /\ P <= n /\ n < Q)
      BY <3>1, <2>3
    <3>3. x \in Int /\ y \in Int
      BY <2>8 DEF x, y
    <3>4. x .. y - 1 = {n \in Int : x <= n /\ n <= y - 1}
      BY <3>3
    <3>5. start .. start + c - 1 = {n \in Int : start <= n /\ n <= start + c - 1}
      OBVIOUS
    <3>6. x .. y - 1 = {n \in start .. start + c - 1 : P <= n /\ n < Q}
      BY <3>2, <3>4, <3>5
    <3> QED BY <3>6 DEF x, y
  <2> HIDE DEF from, end
  <2>10. /\ L[i].index = ix /\ L[i].start = from(ix) /\ L[i].end = end(ix) - 1
         /\ L[i].count = end(ix) - from(ix)
    BY <2>1
  <2>11. L[i].start + L[i].count - 1 = end(ix) - 1
    BY <2>8, <2>10
  <2>12. NoncesOf(L[i]) = {n \in start .. start + c - 1 : n \div size = ix}
    BY <2>6, <2>9, <2>10, <2>11 DEF NoncesOf
  <2> QED BY <2>8, <2>10, <2>11, <2>12 DEF IsRange, ix
<1> QED BY <1>2, <1>3, <1>5, <1>6

-----------------------------------------------------------------------------
(***************************************************************************)
(* The aggregation.                                                        *)
(***************************************************************************)
\* The step of the recursion of AggregateZones, and the equation it solves.
AggregateFirst(zs) == [total |-> 0, zone |-> zs[1].range.index, stats |-> EmptyStats]
AggregateStep(zs, i, before) ==
    [total |-> before.total + zs[i].range.count,
     zone  |-> IF MinimumPrecedes(zs[i].stats.minimum, before.stats.minimum)
               THEN zs[i].range.index ELSE before.zone,
     stats |-> Combine(before.stats, zs[i].stats)]

AggregateEquation(zs, f) ==
    f = [i \in 0 .. Len(zs) |->
            IF i = 0 THEN [total |-> 0, zone |-> zs[1].range.index, stats |-> EmptyStats]
            ELSE [total |-> f[i - 1].total + zs[i].range.count,
                  zone  |-> IF MinimumPrecedes(zs[i].stats.minimum, f[i - 1].stats.minimum)
                            THEN zs[i].range.index ELSE f[i - 1].zone,
                  stats |-> Combine(f[i - 1].stats, zs[i].stats)]]

\* The recursion of AggregateZones has a solution.
LEMMA AggregateRecursion ==
    ASSUME NEW zs, Len(zs) \in Nat
    PROVE  AggregateEquation(zs, CHOOSE f : AggregateEquation(zs, f))
<1> DEFINE Solves(f, c) ==
               f = [i \in 0 .. c |-> IF i = 0 THEN AggregateFirst(zs) ELSE AggregateStep(zs, i, f[i - 1])]
           Bad == {c \in Nat : ~\E f : Solves(f, c)}
<1>1. Bad = {}
  <2> SUFFICES ASSUME Bad # {} PROVE FALSE
    OBVIOUS
  <2>1. PICK c \in Bad : \A d \in Bad : ~(<<d, c>> \in OpToRel(<, Nat))
    BY NatLessThanWellFounded, WFMin
  <2>2. c \in Nat /\ \A d \in Nat : d < c => d \notin Bad
    BY <2>1 DEF OpToRel
  <2>3. CASE c = 0
    <3> DEFINE g == [i \in 0 .. 0 |-> AggregateFirst(zs)]
    <3>1. Solves(g, 0)
      OBVIOUS
    <3> QED BY <2>1, <2>3, <3>1
  <2>4. CASE c # 0
    <3>1. c - 1 \in Nat /\ c - 1 < c
      BY <2>2, <2>4
    <3>2. PICK f : Solves(f, c - 1)
      BY <2>2, <3>1
    <3> DEFINE g == [i \in 0 .. c |-> IF i = c THEN AggregateStep(zs, c, f[c - 1]) ELSE f[i]]
    <3>3. \A i \in 0 .. c - 1 : g[i] = f[i]
      BY <2>2
    <3>4. g[c] = AggregateStep(zs, c, g[c - 1])
      BY <2>2, <3>1, <3>3
    <3>5. \A i \in 0 .. c - 1 : f[i] = IF i = 0 THEN AggregateFirst(zs) ELSE AggregateStep(zs, i, f[i - 1])
      BY <3>2
    <3>6. \A i \in 0 .. c : g[i] = IF i = 0 THEN AggregateFirst(zs) ELSE AggregateStep(zs, i, g[i - 1])
      <4> SUFFICES ASSUME NEW i \in 0 .. c
                   PROVE  g[i] = IF i = 0 THEN AggregateFirst(zs) ELSE AggregateStep(zs, i, g[i - 1])
        OBVIOUS
      <4> HIDE DEF g
      <4>1. CASE i = c
        BY <3>4, <4>1, <2>4
      <4>2. CASE i = 0
        <5>1. 0 \in 0 .. c - 1
          BY <2>2, <2>4
        <5> QED BY <3>3, <3>5, <4>2, <5>1
      <4>3. CASE i # c /\ i # 0
        <5>1. i \in 0 .. c - 1 /\ i - 1 \in 0 .. c - 1
          BY <2>2, <4>3
        <5> QED BY <3>3, <3>5, <4>3, <5>1
      <4> QED BY <4>1, <4>2, <4>3
    <3>7. Solves(g, c)
      <4> DEFINE h == [i \in 0 .. c |-> IF i = 0 THEN AggregateFirst(zs) ELSE AggregateStep(zs, i, g[i - 1])]
      <4>1. DOMAIN g = 0 .. c /\ DOMAIN h = 0 .. c /\ g = [i \in DOMAIN g |-> g[i]]
        OBVIOUS
      <4> HIDE DEF g
      <4>2. h = [i \in 0 .. c |-> g[i]]
        BY <3>6
      <4> QED BY <4>1, <4>2
    <3> QED BY <2>1, <3>7
  <2> QED BY <2>3, <2>4
<1>2. PICK f : Solves(f, Len(zs))
  BY <1>1
<1>3. AggregateEquation(zs, f)
  BY <1>2 DEF AggregateEquation, AggregateFirst, AggregateStep
<1> QED BY <1>3, Zenon

\* The aggregate of the scanned zones of a range has the figures of the range, and
\* the zone of its minimum.
LEMMA AggregateIs ==
    ASSUME pow \in Worlds,
           NEW start \in Nat, NEW c \in Nat \ {0}, NEW size \in Nat \ {0}, start + c <= NonceSpace,
           NEW L, L = MakeZoneLayout(start, c, size),
           NEW zs, zs = ScanCpu(L)
    PROVE  /\ AggregateZones(zs).total = c
           /\ StatsFor(AggregateZones(zs).stats, start .. start + c - 1)
           /\ AggregateZones(zs).zone = AggregateZones(zs).stats.minimum[2] \div size
<1> DEFINE first == start \div size
           k == (start + c - 1) \div size - first + 1
           R == start .. start + c - 1
<1>1. /\ k \in Nat \ {0} /\ DOMAIN L = 1 .. k /\ Len(L) = k /\ first \in Nat
      /\ \A i \in 1 .. k :
             /\ L[i].index = first + i - 1 /\ L[i].count > 0 /\ IsRange(L[i])
             /\ NoncesOf(L[i]) = {n \in R : n \div size = first + i - 1}
  BY LayoutIs
<1>2. \A n \in R : n \in Nat /\ n \div size \in Nat /\ first <= n \div size /\ n \div size < first + k
  <2> SUFFICES ASSUME NEW n \in R
               PROVE  n \in Nat /\ n \div size \in Nat /\ first <= n \div size /\ n \div size < first + k
    OBVIOUS
  <2>1. n \in Nat /\ start + c - 1 \in Nat /\ start <= n /\ n <= start + c - 1
    OBVIOUS
  <2>2. n \div size \in Nat /\ (start + c - 1) \div size \in Nat
    BY <2>1, DivDef
  <2>3. first <= n \div size /\ n \div size <= (start + c - 1) \div size
    BY <2>1, DivMono
  <2> QED BY <2>1, <2>2, <2>3, <1>1
<1>r. R \in SUBSET Nonces /\ NonceSpace \in Nat
  BY HeaderSpaceAssumption DEF Nonces
<1>s. R # {} /\ Cardinality(R) = c
  <2> DEFINE r == [start |-> start, count |-> c]
  <2>1. IsRange(r) /\ NoncesOf(r) = R /\ r.count = c
    BY DEF IsRange, NoncesOf
  <2>2. Cardinality(R) = c
    BY <2>1, RangeFacts
  <2>3. start \in R
    OBVIOUS
  <2> QED BY <2>2, <2>3
<1> HIDE DEF k, first, R
<1>3. /\ DOMAIN zs = 1 .. k /\ Len(zs) = k
      /\ \A i \in 1 .. k : zs[i].range = L[i] /\ zs[i].stats = ItemStats(L[i], 0, 1)
  BY <1>1 DEF ScanCpu
<1> DEFINE f == CHOOSE g : AggregateEquation(zs, g)
<1>4. AggregateEquation(zs, f)
  BY <1>1, <1>3, AggregateRecursion
<1>5. AggregateZones(zs) = f[k]
  <2>1. AggregateZones(zs) = f[Len(zs)]
    BY Zenon DEF AggregateZones, AggregateEquation
  <2> QED BY <2>1, <1>3
<1> HIDE DEF f
<1>6. \A i \in 0 .. k : f[i] = IF i = 0 THEN AggregateFirst(zs) ELSE AggregateStep(zs, i, f[i - 1])
  BY <1>3, <1>4 DEF AggregateEquation, AggregateFirst, AggregateStep
<1> DEFINE Cov(i) == {n \in R : n \div size < first + i}
           Good(i) == /\ f[i].total = Cardinality(Cov(i))
                      /\ StatsFor(f[i].stats, Cov(i))
                      /\ i = 0 => f[i].zone = first /\ f[i].stats = EmptyStats
                      /\ i # 0 => f[i].zone = f[i].stats.minimum[2] \div size
           Bad == {i \in 0 .. k : ~Good(i)}
<1>7. Bad = {}
  <2> SUFFICES ASSUME Bad # {} PROVE FALSE
    OBVIOUS
  <2>0. Bad \subseteq Nat
    BY <1>1
  <2>1. PICK i \in Bad : \A d \in Bad : ~(<<d, i>> \in OpToRel(<, Nat))
    BY <2>0, NatLessThanWellFounded, WFMin
  <2>2. i \in 0 .. k /\ i \in Nat /\ ~Good(i) /\ \A d \in 0 .. k : d < i => Good(d)
    <3> HIDE DEF Good
    <3>1. i \in 0 .. k /\ i \in Nat /\ ~Good(i)
      BY <1>1
    <3>2. \A d \in 0 .. k : d < i => d \notin Bad
      BY <2>0, <2>1, <3>1, <1>1 DEF OpToRel
    <3> QED BY <3>1, <3>2
  <2>3. i # 0
    <3> SUFFICES ASSUME i = 0 PROVE FALSE
      OBVIOUS
    <3>1. f[0] = AggregateFirst(zs)
      BY <1>6, <2>2
    <3>2. f[0].total = 0 /\ f[0].zone = zs[1].range.index /\ f[0].stats = EmptyStats
      BY <3>1 DEF AggregateFirst
    <3>3. zs[1].range.index = first
      <4>1. 1 \in 1 .. k
        BY <1>1
      <4> QED BY <1>1, <1>3, <4>1
    <3>4. Cov(0) = {}
      BY <1>1, <1>2
    <3>5. StatsFor(EmptyStats, {}) /\ Cardinality({}) = 0
      BY EmptyStatsFor, FS_EmptySet
    <3> HIDE DEF Cov
    <3>6. Good(0)
      BY <3>2, <3>3, <3>4, <3>5
    <3> QED BY <2>2, <3>6
  <2> DEFINE p == i - 1
             z == zs[i]
             Z == NoncesOf(L[i])
  <2>4. p \in 0 .. k /\ p \in Nat /\ p < i /\ i \in 1 .. k /\ i = p + 1
    BY <1>1, <2>2, <2>3
  <2>5. Good(p)
    BY <2>2, <2>4
  <2>6. f[i] = AggregateStep(zs, i, f[p])
    BY <1>6, <2>2, <2>3
  <2>7. /\ z.range = L[i] /\ z.stats = ItemStats(L[i], 0, 1)
        /\ Z = {n \in R : n \div size = first + i - 1} /\ IsRange(L[i]) /\ L[i].count > 0
        /\ L[i].index = first + i - 1
    BY <1>1, <1>3, <2>4
  <2> HIDE DEF z, Good
  <2>8. /\ f[i].total = f[p].total + L[i].count
        /\ f[i].zone = IF MinimumPrecedes(z.stats.minimum, f[p].stats.minimum)
                       THEN first + i - 1 ELSE f[p].zone
        /\ f[i].stats = Combine(f[p].stats, z.stats)
    BY <2>6, <2>7 DEF AggregateStep, z
  <2>9. StatsFor(z.stats, Z) /\ Z \in SUBSET Nonces /\ Cardinality(Z) = L[i].count
    BY <2>7, ZoneStatsFor, RangeFacts
  <2>10. Cov(i) = Cov(p) \cup Z /\ Cov(p) \cap Z = {} /\ Cov(p) \in SUBSET Nonces
    <3>1. \A n \in R : /\ n \div size < first + i <=> (n \div size < first + p \/ n \div size = first + i - 1)
                       /\ ~(n \div size < first + p /\ n \div size = first + i - 1)
      <4> SUFFICES ASSUME NEW n \in R
                   PROVE  /\ n \div size < first + i <=> (n \div size < first + p \/ n \div size = first + i - 1)
                          /\ ~(n \div size < first + p /\ n \div size = first + i - 1)
        OBVIOUS
      <4> DEFINE q == n \div size
      <4>1. q \in Nat
        BY <1>2
      <4>2. first \in Nat
        BY <1>1
      <4> HIDE DEF p, q, Bad, Cov, Z
      <4>3. /\ q < first + i <=> (q < first + p \/ q = first + i - 1)
            /\ ~(q < first + p /\ q = first + i - 1)
        BY <4>1, <4>2, <2>4
      <4> QED BY <4>3 DEF q
    <3> QED BY <3>1, <2>7, <1>r
  <2>11. /\ f[p].total = Cardinality(Cov(p)) /\ StatsFor(f[p].stats, Cov(p))
         /\ p = 0 => f[p].zone = first /\ f[p].stats = EmptyStats
         /\ p # 0 => f[p].zone = f[p].stats.minimum[2] \div size
    BY <2>5 DEF Good
  <2> HIDE DEF Cov, Z
  <2>12. f[i].total = Cardinality(Cov(i))
    BY <2>8, <2>9, <2>10, <2>11, CountUnion
  <2>13. StatsFor(f[i].stats, Cov(i))
    BY <2>8, <2>9, <2>10, <2>11, CombineStats
  <2>14. f[i].stats.minimum = IF MinimumPrecedes(z.stats.minimum, f[p].stats.minimum)
                              THEN z.stats.minimum ELSE f[p].stats.minimum
    BY <2>8 DEF Combine
  <2>15. z.stats.minimum[2] \in Z /\ z.stats.minimum[1] = pow[z.stats.minimum[2]]
    <3>1. Z # {}
      <4>1. Cardinality({}) = 0
        BY FS_EmptySet
      <4>2. Cardinality(Z) # 0
        BY <2>7, <2>9 DEF IsRange
      <4> QED BY <4>1, <4>2
    <3>2. IsStatsOf(z.stats, Z)
      BY <2>9, <3>1, StatsAreStats
    <3> QED BY <3>2 DEF IsStatsOf
  <2>16. z.stats.minimum[2] \div size = first + i - 1
    BY <2>7, <2>15 DEF Z
  <2>17. f[i].zone = f[i].stats.minimum[2] \div size
    <3>1. CASE MinimumPrecedes(z.stats.minimum, f[p].stats.minimum)
      BY <2>8, <2>14, <2>16, <3>1
    <3>2. CASE ~MinimumPrecedes(z.stats.minimum, f[p].stats.minimum) /\ p # 0
      BY <2>8, <2>11, <2>14, <3>2
    <3>3. CASE ~MinimumPrecedes(z.stats.minimum, f[p].stats.minimum) /\ p = 0
      <4>1. f[p].stats.minimum = Last
        BY <2>11, <3>3 DEF EmptyStats, Last
      <4> DEFINE n == z.stats.minimum[2]
      <4>2. /\ n \in Nonces /\ pow[n] \in Int /\ pow[n] <= MaxPow /\ n \in Int /\ n <= NonceSpace - 1
            /\ MaxPow \in Int /\ NonceSpace \in Int
        BY <2>9, <2>15, PowFacts
      <4>3. n = NonceSpace - 1
        BY <2>15, <3>3, <4>1, <4>2 DEF MinimumPrecedes, Last
      <4>4. f[i].stats.minimum[2] = n
        BY <2>14, <3>3, <4>1, <4>3 DEF Last
      <4>5. f[i].zone = first /\ first + i - 1 = first
        BY <2>4, <2>8, <2>11, <3>3, <1>1
      <4> QED BY <2>16, <4>4, <4>5
    <3> QED BY <3>1, <3>2, <3>3
  <2>18. Good(i)
    BY <2>3, <2>12, <2>13, <2>17 DEF Good
  <2> QED BY <2>2, <2>18
<1>8. Good(k) /\ k # 0
  <2> HIDE DEF Good
  <2>1. k \in 0 .. k
    BY <1>1
  <2> QED BY <1>1, <1>7, <2>1
<1>9. Cov(k) = R
  BY <1>2
<1> HIDE DEF Cov
<1>10. f[k].total = Cardinality(R) /\ StatsFor(f[k].stats, R) /\ f[k].zone = f[k].stats.minimum[2] \div size
  BY <1>8, <1>9
<1> QED BY <1>5, <1>10, <1>s DEF R

-----------------------------------------------------------------------------
(***************************************************************************)
(* The map of zones.  What the invariant says of a command under way.      *)
(***************************************************************************)
\* The strides of the tree: LocalSize halved down to one.
IsHalving(halves) ==
    /\ {1, LocalSize} \subseteq halves
    /\ \A h \in halves : h = 1 \/ (h \div 2 \in halves /\ h = 2 * (h \div 2))
    /\ \A h, k \in halves : h < k => 2 * h <= k

Halves == CHOOSE halves \in SUBSET (1 .. LocalSize) : IsHalving(halves)

\* A work-item is to take its part in the step with this stride, or is done.
IsStride(q) == q = 0 \/ (q \in Halves /\ (q = LocalSize \/ 2 * q \in Halves))

\* The number of classes of nonces there are before that step: items 0 .. Width - 1
\* have the figures of one each.
Width(q) == IF q = 0 THEN 1 ELSE 2 * q

ZoneOf(g) == Layout[Len(zones) + g]

\* What item lid of a group has accumulated of its zone: the figures of its class,
\* modulo the width of the step it is at, or of the step in which it was last of use.
Accumulated(x, r, lid) ==
    /\ x = [stride |-> x.stride, stats |-> x.stats]
    /\ IsStride(x.stride)
    /\ x.stride # LocalSize =>
           \A w \in Halves : Width(x.stride) <= w /\ lid < w /\ (w = Width(x.stride) \/ w <= 2 * lid)
                                 => StatsFor(x.stats, Class(r, w, lid))

ItemInv(g, lid) == Accumulated(items[<<g, lid>>], ZoneOf(g), lid)

TreeInv ==
    /\ Len(zones) < Len(Layout)
    /\ DOMAIN items = (1 .. BatchSize) \X (0 .. LocalSize - 1)
    /\ \A g \in 1 .. BatchSize, lid \in 0 .. LocalSize - 1 : ItemInv(g, lid)

\* The arguments were found to be valid.
Asked == ValidRange(request.start, request.count, request.zone) /\ request.batch > 0

\* The zones of the whole range and their figures.
FullScan == ScanCpu(MakeZoneLayout(request.start, request.count, request.zone))

\* A command under way: the zones downloaded so far are those of its layout.
Running ==
    /\ Asked /\ commands >= 1 /\ (disk.summary # <<>> => commands > 1)
    /\ scan = [count |-> scan.count, overwrite |-> scan.overwrite, verified |-> scan.verified]
    /\ scan.count \in 1 .. request.count /\ (scan.verified => scan.count = request.count)
    /\ Len(zones) \in 0 .. Len(Layout) /\ zones = [i \in 1 .. Len(zones) |-> ScanCpu(Layout)[i]]

\* The figures are complete and are being written.
Writing == /\ zones = FullScan
           /\ host \in {"summary", "rename_summary"} => disk.zones = FullScan

\* The files hold nothing or the figures of the whole range.
Published ==
    /\ disk = [zones |-> disk.zones, summary |-> disk.summary]
    /\ disk.zones # <<>> => Asked /\ disk.zones = FullScan
    /\ disk.summary # <<>> => Asked /\ disk.summary = << AggregateZones(FullScan) >> /\ commands >= 1
    /\ disk.summary # <<>> /\ disk.zones = <<>> => commands > 1

MapHosts == {"upload", "kernel", "zones", "rename_zones", "summary", "rename_summary"}

MapInv ==
    /\ pow \in Worlds /\ request \in Requests /\ commands \in Nat /\ exit # "mismatch"
    /\ host \in {"idle", "sparse"} \cup MapHosts
    /\ host \in MapHosts => request.kind = "map" /\ Running
    /\ host \notin MapHosts => zones = <<>>
    /\ host = "kernel" => TreeInv
    /\ host \in MapHosts \ {"upload", "kernel"} => Writing
    /\ request.kind # "map" => disk.zones = <<>> /\ disk.summary = <<>>
    /\ Published

\* The halvings of LocalSize.
LEMMA HalvesFacts ==
    /\ Halves \in SUBSET (1 .. LocalSize) /\ LocalSize \in Nat \ {0}
    /\ 1 \in Halves /\ LocalSize \in Halves
    /\ \A h \in Halves : h \in Nat \ {0} /\ h <= LocalSize
    /\ \A h \in Halves : h = 1 \/ (h \div 2 \in Halves /\ h = 2 * (h \div 2))
    /\ \A h, k \in Halves : h < k => 2 * h <= k
<1>1. \E halves \in SUBSET (1 .. LocalSize) : IsHalving(halves)
  BY HeaderSpaceAssumption DEF PowerOfTwo, IsHalving
<1>2. Halves \in SUBSET (1 .. LocalSize) /\ IsHalving(Halves)
  BY <1>1 DEF Halves
<1>3. LocalSize \in Nat \ {0}
  BY HeaderSpaceAssumption
<1> QED BY <1>2, <1>3 DEF IsHalving

\* After a step the stride is half of it, and its width the stride of the step.
LEMMA StrideStep ==
    ASSUME NEW s, IsStride(s), s # 0
    PROVE  /\ s \in Halves /\ s \in Nat \ {0} /\ s <= LocalSize
           /\ IsStride(s \div 2) /\ Width(s \div 2) = s /\ s \div 2 # LocalSize
<1>1. s \in Halves /\ s \in Nat \ {0} /\ s <= LocalSize /\ LocalSize \in Nat \ {0}
  BY HalvesFacts DEF IsStride
<1>2. CASE s = 1
  <2>1. s \div 2 = 0
    BY <1>2
  <2> QED BY <1>1, <1>2, <2>1 DEF IsStride, Width
<1>3. CASE s # 1
  <2> DEFINE t == s \div 2
  <2>1. t \in Halves /\ s = 2 * t /\ t \in Nat \ {0}
    BY <1>1, <1>3, HalvesFacts
  <2> HIDE DEF t
  <2>2. IsStride(t) /\ Width(t) = s /\ t # LocalSize
    BY <1>1, <2>1 DEF IsStride, Width
  <2> QED BY <1>1, <2>2 DEF t
<1> QED BY <1>2, <1>3

\* The layout of a command under way.
LEMMA RunningLayout ==
    ASSUME request \in Requests, request.kind = "map", Asked, scan.count \in 1 .. request.count
    PROVE  /\ Len(Layout) \in Nat \ {0} /\ DOMAIN Layout = 1 .. Len(Layout)
           /\ request.batch \in Nat \ {0} /\ request.start \in Nat /\ request.count \in Nat \ {0}
           /\ request.zone \in Nat \ {0} /\ request.start + request.count <= NonceSpace
           /\ scan.count \in Nat \ {0}
           /\ \A i \in 1 .. Len(Layout) : IsRange(Layout[i]) /\ Layout[i].count > 0
           /\ ScanCpu(Layout) = [i \in 1 .. Len(Layout) |->
                                    [range |-> Layout[i], stats |-> ItemStats(Layout[i], 0, 1)]]
<1>1. /\ request.start \in Nat /\ request.count \in Nat /\ request.zone \in Nat /\ request.batch \in Nat
      /\ NonceSpace \in Nat
  BY HeaderSpaceAssumption
<1>2. /\ request.count \in Nat \ {0} /\ request.zone \in Nat \ {0} /\ request.batch \in Nat \ {0}
      /\ request.start + request.count <= NonceSpace /\ scan.count \in Nat \ {0}
      /\ request.start + scan.count <= NonceSpace
  BY <1>1 DEF Asked, ValidRange
<1> DEFINE a == request.start
           c == scan.count
           z == request.zone
           L == Layout
           first == a \div z
           k == (a + c - 1) \div z - first + 1
<1>3. a \in Nat /\ c \in Nat \ {0} /\ z \in Nat \ {0} /\ a + c <= NonceSpace
  BY <1>1, <1>2
<1>4. L = MakeZoneLayout(a, c, z)
  BY DEF Layout
<1> HIDE DEF a, c, z, L
<1>5. /\ k \in Nat \ {0} /\ DOMAIN L = 1 .. k /\ Len(L) = k
      /\ \A i \in 1 .. k : IsRange(L[i]) /\ L[i].count > 0
  BY <1>3, <1>4, LayoutIs
<1> HIDE DEF k
<1> QED BY <1>1, <1>2, <1>5 DEF ScanCpu, L

\* A stride is a number.
LEMMA StrideIsNat == ASSUME NEW q, IsStride(q) PROVE q \in Nat
<1>1. q = 0 \/ q \in Halves
  BY DEF IsStride
<1>2. \A h \in Halves : h \in Nat
  BY HalvesFacts
<1> QED BY <1>1, <1>2

\* The groups of a launch scan zones of the layout that were not downloaded yet.
LEMMA BatchFacts ==
    ASSUME request \in Requests, request.kind = "map", Running, Len(zones) < Len(Layout)
    PROVE  /\ BatchSize \in Nat \ {0} /\ Len(zones) \in Nat /\ Len(zones) + BatchSize <= Len(Layout)
           /\ \A g \in 1 .. BatchSize : /\ Len(zones) + g \in 1 .. Len(Layout)
                                        /\ IsRange(ZoneOf(g))
<1> DEFINE m == Len(Layout)
           z == Len(zones)
           b == request.batch
<1>1. m \in Nat \ {0} /\ b \in Nat \ {0} /\ \A i \in 1 .. m : IsRange(Layout[i])
  BY RunningLayout DEF Running
<1>2. z \in Nat /\ z < m
  BY <1>1 DEF Running
<1> HIDE DEF m, z, b
<1>3. BatchSize = Smaller(Smaller(b, m), m - z)
  BY DEF BatchSize, MaximumBatch, b, m, z
<1>4. BatchSize \in Nat \ {0} /\ z + BatchSize <= m
  BY <1>1, <1>2, <1>3 DEF Smaller
<1>5. \A g \in 1 .. BatchSize : z + g \in 1 .. m
  BY <1>1, <1>2, <1>4
<1> QED BY <1>1, <1>2, <1>4, <1>5 DEF ZoneOf, m, z

\* The class of the nonces of a zone splits in two when the width doubles.
LEMMA ClassSplits ==
    ASSUME NEW r, IsRange(r), NEW s \in Nat \ {0}, NEW l \in 0 .. s - 1
    PROVE  /\ Class(r, s, l) = Class(r, 2 * s, l) \cup Class(r, 2 * s, l + s)
           /\ Class(r, 2 * s, l) \cap Class(r, 2 * s, l + s) = {}
           /\ Class(r, 2 * s, l) \in SUBSET Nonces /\ Class(r, 2 * s, l + s) \in SUBSET Nonces
<1>1. NoncesOf(r) \in SUBSET Nonces
  BY RangeFacts
<1>2. \A n \in NoncesOf(r) : n - r.start \in Nat
  BY DEF NoncesOf, IsRange
<1>3. \A n \in NoncesOf(r) : (n - r.start) % s = l
                                <=> ((n - r.start) % (2 * s) = l \/ (n - r.start) % (2 * s) = l + s)
  <2> SUFFICES ASSUME NEW n \in NoncesOf(r)
               PROVE  (n - r.start) % s = l
                          <=> ((n - r.start) % (2 * s) = l \/ (n - r.start) % (2 * s) = l + s)
    OBVIOUS
  <2> DEFINE a == n - r.start
  <2>1. a \in Nat
    BY <1>2
  <2> HIDE DEF a
  <2>2. a % s = l <=> (a % (2 * s) = l \/ a % (2 * s) = l + s)
    BY <2>1, ModDouble
  <2> QED BY <2>2 DEF a
<1>4. l # l + s
  OBVIOUS
<1> QED BY <1>1, <1>3, <1>4 DEF Class

\* The work-item that goes through a step of the kernel.
LEMMA WorkItemStep ==
    ASSUME MapInv, host = "kernel", NEW g \in 1 .. BatchSize, NEW lid \in 0 .. LocalSize - 1, WorkItem(g, lid)
    PROVE  Accumulated(items'[<<g, lid>>], ZoneOf(g), lid)
<1> DEFINE s == items[<<g, lid>>].stride
           st == IF s = LocalSize THEN ItemStats(Layout[Len(zones) + g], lid, LocalSize)
                                  ELSE Reduce(g, lid, s)
           x == items'[<<g, lid>>]
           r == ZoneOf(g)
<1>1. TreeInv /\ Running /\ request \in Requests /\ request.kind = "map" /\ pow \in Worlds
  BY DEF MapInv, MapHosts
<1>2. /\ DOMAIN items = (1 .. BatchSize) \X (0 .. LocalSize - 1) /\ Len(zones) < Len(Layout)
      /\ \A h \in 1 .. BatchSize, l \in 0 .. LocalSize - 1 : ItemInv(h, l)
  BY <1>1 DEF TreeInv
<1>3. <<g, lid>> \in DOMAIN items
  BY <1>2
<1>4. x = [stride |-> s \div 2, stats |-> st] /\ s > 0 /\ AtBarrier(g, lid)
  BY <1>3 DEF WorkItem
<1>5. IsRange(r) /\ lid \in Nat /\ LocalSize \in Nat \ {0}
  BY <1>1, <1>2, BatchFacts, HalvesFacts
<1>6. IsStride(s) /\ s # 0
  <2>1. ItemInv(g, lid)
    BY <1>2
  <2>2. IsStride(s)
    BY <2>1 DEF ItemInv, Accumulated
  <2> HIDE DEF s
  <2>3. s \in Nat
    BY <2>2, StrideIsNat
  <2> QED BY <1>4, <2>2, <2>3
<1>7. /\ s \in Halves /\ s \in Nat \ {0} /\ s <= LocalSize
      /\ IsStride(s \div 2) /\ Width(s \div 2) = s /\ s \div 2 # LocalSize
  BY <1>6, StrideStep
<1>8. x.stride = s \div 2 /\ x.stats = st
  BY <1>4
<1>9. ASSUME NEW w \in Halves, s <= w, lid < w, w = s \/ w <= 2 * lid
      PROVE  StatsFor(st, Class(r, w, lid))
  <2>0. w \in Nat \ {0} /\ w <= LocalSize
    BY HalvesFacts
  <2>1. CASE s = LocalSize
    <3>1. w = LocalSize
      BY <1>5, <1>9, <2>0, <2>1
    <3>2. st = ItemStats(r, lid, LocalSize)
      BY <2>1 DEF ZoneOf
    <3> QED BY <1>1, <1>5, <3>1, <3>2, ItemStatsFor
  <2>2. CASE s # LocalSize
    <3>1. 2 * s \in Halves /\ Width(s) = 2 * s
      BY <1>6, <2>2 DEF IsStride, Width
    <3>2. st = Reduce(g, lid, s)
      BY <2>2
    <3>3. \A v \in Halves : 2 * s <= v /\ lid < v /\ (v = 2 * s \/ v <= 2 * lid)
                               => StatsFor(items[<<g, lid>>].stats, Class(r, v, lid))
      BY <1>2, <2>2, <3>1 DEF ItemInv, Accumulated
    <3>4. CASE lid < s
      <4>1. w = s
        <5>1. s < w => 2 * s <= w
          BY <1>7, HalvesFacts
        <5> QED BY <1>5, <1>7, <1>9, <2>0, <3>4, <5>1
      <4>2. st = Combine(items[<<g, lid>>].stats, items[<<g, lid + s>>].stats)
        BY <3>2, <3>4 DEF Reduce
      <4>3. StatsFor(items[<<g, lid>>].stats, Class(r, 2 * s, lid))
        <5>1. lid < 2 * s /\ 2 * s <= 2 * s
          BY <1>5, <1>7, <3>4
        <5> QED BY <3>1, <3>3, <5>1
      <4>4. StatsFor(items[<<g, lid + s>>].stats, Class(r, 2 * s, lid + s))
        <5> DEFINE l == lid + s
                   t == items[<<g, l>>].stride
        <5>1. 2 * s <= LocalSize /\ 2 * s \in Nat
          BY <3>1, HalvesFacts
        <5>2. l \in 0 .. LocalSize - 1 /\ l < 2 * s /\ 2 * s <= 2 * l
          BY <1>5, <1>7, <3>4, <5>1
        <5>3. ItemInv(g, l)
          BY <1>2, <5>2
        <5>4. t <= s
          BY <1>4, <5>2 DEF AtBarrier
        <5> HIDE DEF l
        <5>5. IsStride(t)
          BY <5>3 DEF ItemInv, Accumulated
        <5>6. t \in Nat /\ t # LocalSize
          <6>1. t \in Nat
            BY <5>5, StrideIsNat
          <6> QED BY <1>5, <1>7, <2>2, <5>4, <6>1
        <5>7. Width(t) <= 2 * s
          BY <1>7, <5>4, <5>6 DEF Width
        <5>8. StatsFor(items[<<g, l>>].stats, Class(r, 2 * s, l))
          BY <3>1, <5>2, <5>3, <5>6, <5>7 DEF ItemInv, Accumulated
        <5> QED BY <5>8 DEF l
      <4>5. lid \in 0 .. s - 1
        BY <1>5, <1>7, <3>4
      <4> HIDE DEF s, st, r
      <4>6. StatsFor(st, Class(r, 2 * s, lid) \cup Class(r, 2 * s, lid + s))
        <5> DEFINE A == Class(r, 2 * s, lid)
                   B == Class(r, 2 * s, lid + s)
                   a == items[<<g, lid>>].stats
                   b == items[<<g, lid + s>>].stats
        <5>1. A \cap B = {} /\ A \in SUBSET Nonces /\ B \in SUBSET Nonces
          BY <1>5, <1>7, <4>5, ClassSplits
        <5>2. StatsFor(a, A) /\ StatsFor(b, B) /\ st = Combine(a, b)
          BY <4>2, <4>3, <4>4
        <5> HIDE DEF A, B, a, b
        <5>3. StatsFor(st, A \cup B)
          BY <1>1, <5>1, <5>2, CombineStats
        <5> QED BY <5>3 DEF A, B
      <4> QED BY <1>5, <1>7, <4>1, <4>5, <4>6, ClassSplits
    <3>5. CASE ~(lid < s)
      <4>1. st = items[<<g, lid>>].stats
        BY <3>2, <3>5 DEF Reduce
      <4>2. s < w /\ w <= 2 * lid
        BY <1>5, <1>7, <1>9, <2>0, <3>5
      <4>3. 2 * s <= w
        BY <1>7, <4>2, HalvesFacts
      <4> QED BY <1>9, <3>3, <4>1, <4>2, <4>3
    <3> QED BY <3>4, <3>5
  <2> QED BY <2>1, <2>2
<1> HIDE DEF st, s, r
<1> QED BY <1>4, <1>7, <1>8, <1>9 DEF r, Accumulated

\* What the files and the layout depend on.
LEMMA RangeFrame ==
    ASSUME pow' = pow, request' = request
    PROVE  FullScan' = FullScan /\ Asked' = Asked
BY DEF FullScan, Asked, ValidRange, ScanCpu, ItemStats, Observe

\* The layout and its figures do not change while a scan is under way.
LEMMA LayoutFrame ==
    ASSUME pow' = pow, request' = request, scan'.count = scan.count
    PROVE  Layout' = Layout /\ ScanCpu(Layout)' = ScanCpu(Layout)
<1>1. Layout' = Layout
  BY DEF Layout
<1> QED BY <1>1 DEF ScanCpu, ItemStats, Observe

\* A work-item whose record has the figures of its class has them after the step.
LEMMA ItemFrame ==
    ASSUME pow' = pow, NEW g, NEW lid, NEW x, NEW r, x = items'[<<g, lid>>], r = ZoneOf(g)',
           Accumulated(x, r, lid)
    PROVE  ItemInv(g, lid)'
BY DEF ItemInv, Accumulated, StatsFor, IsMinimum

\* A step that leaves the files alone.
LEMMA PublishedFrame ==
    ASSUME Published, pow' = pow, request' = request, disk' = disk, commands \in Nat,
           commands' \in Nat, commands' >= commands
    PROVE  Published'
<1>1. FullScan' = FullScan /\ Asked' = Asked
  BY RangeFrame
<1>2. AggregateZones(FullScan)' = AggregateZones(FullScan)
  BY <1>1 DEF AggregateZones, Combine, EmptyStats, MinimumPrecedes
<1> HIDE DEF FullScan
<1>3. disk.zones # <<>> => Asked' /\ disk.zones = FullScan'
  BY <1>1 DEF Published
<1>4. disk.summary # <<>> => Asked' /\ disk.summary = << AggregateZones(FullScan)' >> /\ commands' >= 1
  BY <1>1, <1>2 DEF Published
<1>5. disk.summary # <<>> /\ disk.zones = <<>> => commands' > 1
  BY DEF Published
<1> QED BY <1>3, <1>4, <1>5 DEF Published

\* A step of a command that leaves its range and the files alone.
LEMMA RunningFrame ==
    ASSUME Running, pow' = pow, request' = request, disk' = disk, commands' = commands,
           scan' = scan, zones' = zones
    PROVE  Running'
<1>1. Asked' = Asked /\ Layout' = Layout /\ ScanCpu(Layout)' = ScanCpu(Layout)
  BY RangeFrame, LayoutFrame
<1> QED BY <1>1 DEF Running

\* A step of a work-item.
LEMMA KernelKeeps == MapInv /\ Kernel => MapInv'
<1> SUFFICES ASSUME MapInv, Kernel PROVE MapInv'
  OBVIOUS
<1>1. host = "kernel" /\ TreeInv /\ Running /\ request.kind = "map" /\ pow \in Worlds
  BY DEF Kernel, MapInv, MapHosts
<1>2. /\ DOMAIN items = (1 .. BatchSize) \X (0 .. LocalSize - 1) /\ Len(zones) < Len(Layout)
      /\ \A h \in 1 .. BatchSize, l \in 0 .. LocalSize - 1 : ItemInv(h, l)
  BY <1>1 DEF TreeInv
<1>3. PICK x \in DOMAIN items : WorkItem(x[1], x[2])
  BY DEF Kernel
<1> DEFINE g == x[1]
           lid == x[2]
<1>4. g \in 1 .. BatchSize /\ lid \in 0 .. LocalSize - 1 /\ x = <<g, lid>>
  BY <1>2, <1>3
<1>5. WorkItem(g, lid)
  BY <1>3
<1> HIDE DEF g, lid
<1>6. /\ pow' = pow /\ request' = request /\ disk' = disk /\ host' = host /\ scan' = scan /\ zones' = zones
      /\ exit' = exit /\ commands' = commands
  BY <1>5 DEF WorkItem
<1>7. Layout' = Layout /\ BatchSize' = BatchSize /\ \A h \in 1 .. BatchSize : ZoneOf(h)' = ZoneOf(h)
  BY <1>6, LayoutFrame DEF BatchSize, MaximumBatch, ZoneOf
<1>8. /\ DOMAIN items' = DOMAIN items
      /\ \A h \in 1 .. BatchSize, l \in 0 .. LocalSize - 1 :
             <<h, l>> # <<g, lid>> => items'[<<h, l>>] = items[<<h, l>>]
  BY <1>2, <1>5 DEF WorkItem
<1>9. Accumulated(items'[<<g, lid>>], ZoneOf(g), lid)
  BY <1>1, <1>4, <1>5, WorkItemStep
<1>10. ASSUME NEW h \in 1 .. BatchSize, NEW l \in 0 .. LocalSize - 1
       PROVE  ItemInv(h, l)'
  <2>1. PICK y : y = items'[<<h, l>>]
    OBVIOUS
  <2>2. PICK r : r = ZoneOf(h)
    OBVIOUS
  <2>3. Accumulated(y, r, l)
    <3>1. CASE <<h, l>> = <<g, lid>>
      <4>1. h = g /\ l = lid
        BY <3>1
      <4> QED BY <1>9, <2>1, <2>2, <4>1
    <3>2. CASE <<h, l>> # <<g, lid>>
      <4>1. ItemInv(h, l)
        BY <1>2
      <4> QED BY <1>8, <2>1, <2>2, <3>2, <4>1 DEF ItemInv
    <3> QED BY <3>1, <3>2
  <2>4. r = ZoneOf(h)'
    BY <1>7, <2>2
  <2> QED BY <1>6, <2>1, <2>3, <2>4, ItemFrame
<1>11. TreeInv'
  BY <1>2, <1>6, <1>7, <1>8, <1>10 DEF TreeInv
<1>12. Running' /\ Published'
  BY <1>1, <1>6, RunningFrame, PublishedFrame DEF MapInv
<1> QED BY <1>1, <1>6, <1>11, <1>12 DEF MapInv, MapHosts

\* Every group starts with all its work-items at the scan.
LEMMA UploadKeeps == MapInv /\ Upload => MapInv'
<1> SUFFICES ASSUME MapInv, Upload PROVE MapInv'
  OBVIOUS
<1>1. host = "upload" /\ Running /\ request.kind = "map" /\ request \in Requests /\ Len(zones) < Len(Layout)
  BY DEF Upload, MapInv, MapHosts
<1>2. /\ pow' = pow /\ request' = request /\ disk' = disk /\ host' = "kernel" /\ scan' = scan
      /\ zones' = zones /\ exit' = exit /\ commands' = commands
  BY DEF Upload
<1>3. Layout' = Layout /\ BatchSize' = BatchSize
  BY <1>2, LayoutFrame DEF BatchSize, MaximumBatch
<1>4. items' = [x \in (1 .. BatchSize) \X (0 .. LocalSize - 1) |-> [stride |-> LocalSize, stats |-> EmptyStats]]
  BY DEF Upload
<1>5. ASSUME NEW h \in 1 .. BatchSize, NEW l \in 0 .. LocalSize - 1
      PROVE  ItemInv(h, l)'
  <2>1. PICK y : y = items'[<<h, l>>]
    OBVIOUS
  <2>2. PICK r : r = ZoneOf(h)'
    OBVIOUS
  <2>3. y = [stride |-> LocalSize, stats |-> EmptyStats]
    BY <1>4, <2>1
  <2>4. IsStride(LocalSize)
    BY HalvesFacts DEF IsStride
  <2>5. Accumulated(y, r, l)
    BY <2>3, <2>4 DEF Accumulated
  <2> QED BY <1>2, <2>1, <2>2, <2>5, ItemFrame
<1>6. TreeInv'
  BY <1>1, <1>2, <1>3, <1>4, <1>5 DEF TreeInv
<1>7. Running' /\ Published'
  BY <1>1, <1>2, RunningFrame, PublishedFrame DEF MapInv
<1> QED BY <1>1, <1>2, <1>6, <1>7 DEF MapInv, MapHosts

\* The first work-item of a group that is done has the figures of its zone.
LEMMA GroupDone ==
    ASSUME MapInv, host = "kernel", NEW g \in 1 .. BatchSize, \A x \in DOMAIN items : items[x].stride = 0
    PROVE  items[<<g, 0>>].stats = ItemStats(ZoneOf(g), 0, 1)
<1> DEFINE r == ZoneOf(g)
           st == items[<<g, 0>>].stats
<1>1. TreeInv /\ Running /\ request \in Requests /\ request.kind = "map" /\ pow \in Worlds
  BY DEF MapInv, MapHosts
<1>2. IsRange(r)
  BY <1>1, BatchFacts DEF TreeInv
<1>3. 0 \in 0 .. LocalSize - 1 /\ 1 \in Halves /\ LocalSize \in Nat \ {0}
  BY HalvesFacts
<1>4. <<g, 0>> \in DOMAIN items /\ ItemInv(g, 0)
  BY <1>1, <1>3 DEF TreeInv
<1>5. items[<<g, 0>>].stride = 0
  BY <1>4
<1>6. Width(0) = 1 /\ 0 # LocalSize
  BY <1>3 DEF Width
<1>7. \A w \in Halves : 1 <= w /\ 0 < w /\ (w = 1 \/ w <= 2 * 0) => StatsFor(st, Class(r, w, 0))
  BY <1>4, <1>5, <1>6 DEF ItemInv, Accumulated
<1>8. StatsFor(st, Class(r, 1, 0))
  BY <1>3, <1>7
<1>9. StatsFor(ItemStats(r, 0, 1), Class(r, 1, 0))
  BY <1>1, <1>2, ItemStatsFor
<1>10. Class(r, 1, 0) \in SUBSET Nonces
  BY <1>2, RangeFacts DEF Class
<1> HIDE DEF st, r
<1>11. st = ItemStats(r, 0, 1)
  BY <1>1, <1>8, <1>9, <1>10, StatsUnique
<1> QED BY <1>11 DEF st, r

\* What is downloaded are the next zones of the layout, with their figures.
LEMMA DownloadKeeps == MapInv /\ Download => MapInv'
<1> SUFFICES ASSUME MapInv, Download PROVE MapInv'
  OBVIOUS
<1>1. /\ host = "kernel" /\ TreeInv /\ Running /\ request.kind = "map" /\ request \in Requests
      /\ \A x \in DOMAIN items : items[x].stride = 0
  BY DEF Download, MapInv, MapHosts
<1>2. /\ pow' = pow /\ request' = request /\ disk' = disk /\ host' = "upload" /\ scan' = scan
      /\ exit' = exit /\ commands' = commands
  BY DEF Download
<1> DEFINE n == Len(zones)
           b == BatchSize
           m == Len(Layout)
           full == ScanCpu(Layout)
           S == {full[i] : i \in 1 .. m}
           batch == [g \in 1 .. b |-> full[n + g]]
<1>3. /\ b \in Nat \ {0} /\ n \in Nat /\ n + b <= m /\ m \in Nat
      /\ \A g \in 1 .. b : n + g \in 1 .. m
  <2>1. Len(Layout) \in Nat
    BY <1>1, RunningLayout DEF Running
  <2> QED BY <1>1, <2>1, BatchFacts DEF TreeInv
<1>4. full = [i \in 1 .. m |-> [range |-> Layout[i], stats |-> ItemStats(Layout[i], 0, 1)]]
  BY <1>1, RunningLayout DEF Running
<1>5. \A g \in 1 .. b : [range |-> Layout[n + g], stats |-> items[<<g, 0>>].stats] = full[n + g]
  <2> SUFFICES ASSUME NEW g \in 1 .. b
               PROVE  [range |-> Layout[n + g], stats |-> items[<<g, 0>>].stats] = full[n + g]
    OBVIOUS
  <2>1. items[<<g, 0>>].stats = ItemStats(Layout[n + g], 0, 1)
    BY <1>1, GroupDone DEF ZoneOf
  <2>2. full[n + g] = [range |-> Layout[n + g], stats |-> ItemStats(Layout[n + g], 0, 1)]
    BY <1>3, <1>4
  <2> QED BY <2>1, <2>2
<1>6. zones' = zones \o batch
  BY <1>5 DEF Download
<1>7. zones = [i \in 1 .. n |-> full[i]]
  BY <1>1 DEF Running
<1> HIDE DEF n, b, m, full
<1>8. zones \in Seq(S) /\ batch \in Seq(S) /\ Len(zones) = n /\ Len(batch) = b
  <2>1. \A i \in 1 .. n : full[i] \in S
    BY <1>3
  <2>2. \A g \in 1 .. b : full[n + g] \in S
    BY <1>3
  <2> HIDE DEF S
  <2> QED BY <1>3, <1>7, <2>1, <2>2 DEF n
<1> HIDE DEF S, batch
<1>9. /\ zones' \in Seq(S) /\ Len(zones') = n + b
      /\ \A i \in 1 .. n + b : zones'[i] = IF i <= n THEN zones[i] ELSE batch[i - n]
  BY <1>3, <1>6, <1>8, ConcatProperties
<1>10. \A i \in 1 .. n + b : zones'[i] = full[i]
  <2> SUFFICES ASSUME NEW i \in 1 .. n + b PROVE zones'[i] = full[i]
    OBVIOUS
  <2>1. CASE i <= n
    <3>1. i \in 1 .. n
      BY <1>3, <2>1
    <3> QED BY <1>7, <1>9, <2>1, <3>1
  <2>2. CASE ~(i <= n)
    <3>1. i - n \in 1 .. b /\ n + (i - n) = i
      BY <1>3, <2>2
    <3>2. batch[i - n] = full[i]
      BY <3>1 DEF batch
    <3> QED BY <1>9, <2>2, <3>2
  <2> QED BY <2>1, <2>2
<1>11. zones' = [i \in 1 .. Len(zones') |-> full[i]]
  <2>1. zones' = [i \in 1 .. Len(zones') |-> zones'[i]]
    BY <1>9
  <2> QED BY <1>9, <1>10, <2>1
<1>12. Layout' = Layout /\ ScanCpu(Layout)' = ScanCpu(Layout) /\ Asked' = Asked
  BY <1>2, LayoutFrame, RangeFrame
<1>13. Len(zones') \in 0 .. Len(Layout')
  BY <1>3, <1>9, <1>12 DEF m
<1>14. Running'
  BY <1>1, <1>2, <1>11, <1>12, <1>13 DEF Running, full
<1>15. Published'
  BY <1>1, <1>2, PublishedFrame DEF MapInv
<1> QED BY <1>1, <1>2, <1>14, <1>15 DEF MapInv, MapHosts

\* A command that ends or is refused leaves nothing behind.
LEMMA EndKeeps ==
    ASSUME MapInv, pow' = pow, request' = request, disk' = disk, commands' \in {commands, commands + 1},
           host' \in {"idle", "sparse"}, zones' = <<>>, exit' # "mismatch"
    PROVE  MapInv'
<1>1. commands \in Nat /\ commands' \in Nat /\ commands' >= commands
  BY DEF MapInv
<1>2. Published'
  BY <1>1, PublishedFrame DEF MapInv
<1> QED BY <1>1, <1>2 DEF MapInv, MapHosts

\* A command begins with nothing scanned.
LEMMA BeginMapKeeps == ASSUME MapInv, NEW overwrite \in BOOLEAN, BeginMap(overwrite) PROVE MapInv'
<1>1. /\ host = "idle" /\ request.kind = "map" /\ zones = <<>> /\ request \in Requests /\ pow \in Worlds
      /\ commands \in Nat /\ Published
  BY DEF BeginMap, MapInv, MapHosts
<1>2. pow' = pow /\ request' = request /\ disk' = disk /\ zones' = zones /\ commands' = commands + 1
  BY DEF BeginMap
<1>3. CASE exit' = "refused" /\ UNCHANGED <<host, scan>>
  BY <1>1, <1>2, <1>3, EndKeeps
<1>4. CASE /\ Asked /\ host' = "upload" /\ exit' = None
           /\ scan' = [count |-> IF request.verify > 0 THEN Smaller(request.count, request.verify)
                                                      ELSE request.count,
                       overwrite |-> overwrite, verified |-> request.verify = 0]
  <2> DEFINE c == request.count
             v == request.verify
  <2>1. c \in Nat \ {0} /\ v \in Nat
    BY <1>1, <1>4, HeaderSpaceAssumption DEF Asked, ValidRange
  <2>2. scan'.count = (IF v > 0 THEN Smaller(c, v) ELSE c) /\ (scan'.verified => v = 0)
    BY <1>4
  <2> HIDE DEF c, v
  <2>3. scan'.count \in 1 .. c /\ (scan'.verified => scan'.count = c)
    <3>1. (IF v > 0 THEN Smaller(c, v) ELSE c) \in 1 .. c
      BY <2>1 DEF Smaller
    <3>2. v = 0 => scan'.count = c
      BY <2>1, <2>2
    <3> QED BY <2>2, <3>1, <3>2
  <2>4. Asked' /\ request'.count = c
    BY <1>2, <1>4, RangeFrame DEF c
  <2>5. scan'.count \in 1 .. request'.count /\ request'.kind = "map" /\ request' \in Requests
    BY <1>1, <1>2, <2>3, <2>4
  <2>6. Len(Layout') \in Nat \ {0}
    <3>1. (request \in Requests /\ request.kind = "map" /\ Asked /\ scan.count \in 1 .. request.count
             => Len(Layout) \in Nat \ {0})'
      BY RunningLayout, PTL
    <3> QED BY <2>4, <2>5, <3>1
  <2>7. Len(zones') = 0 /\ zones' = [i \in 1 .. Len(zones') |-> ScanCpu(Layout')[i]]
    BY <1>1, <1>2
  <2>8. commands' \in Nat /\ commands' >= 1 /\ (disk'.summary # <<>> => commands' > 1)
    BY <1>1, <1>2 DEF Published
  <2>r. scan' = [count |-> scan'.count, overwrite |-> scan'.overwrite, verified |-> scan'.verified]
    BY <1>4
  <2>9. Running'
    BY <2>r, <2>3, <2>4, <2>5, <2>6, <2>7, <2>8 DEF Running
  <2>10. Published'
    BY <1>1, <1>2, <2>8, PublishedFrame
  <2> QED BY <1>1, <1>2, <1>4, <2>5, <2>8, <2>9, <2>10 DEF MapInv, MapHosts, None
<1>5. request.batch \in Nat
  BY <1>1, HeaderSpaceAssumption
<1>6. CASE \/ ~ValidRange(request.start, request.count, request.zone) \/ request.batch = 0
           \/ ~overwrite /\ (disk.zones # <<>> \/ disk.summary # <<>>)
  BY <1>3, <1>6 DEF BeginMap
<1>7. CASE ~(\/ ~ValidRange(request.start, request.count, request.zone) \/ request.batch = 0
             \/ ~overwrite /\ (disk.zones # <<>> \/ disk.summary # <<>>))
  <2>1. Asked
    BY <1>5, <1>7 DEF Asked
  <2> QED BY <1>4, <1>7, <2>1 DEF BeginMap
<1> QED BY <1>6, <1>7

\* When all its zones are downloaded the scan is that of the CPU.
LEMMA ScanIsComplete ==
    ASSUME request \in Requests, request.kind = "map", Running, Len(zones) = Len(Layout)
    PROVE  zones = ScanCpu(Layout)
<1>1. ScanCpu(Layout) = [i \in 1 .. Len(Layout) |->
                             [range |-> Layout[i], stats |-> ItemStats(Layout[i], 0, 1)]]
  BY RunningLayout DEF Running
<1>2. ScanCpu(Layout) = [i \in 1 .. Len(Layout) |-> ScanCpu(Layout)[i]]
  BY <1>1
<1> QED BY <1>2 DEF Running

\* The zones of a range, and their figures.
LEMMA FullScanIs ==
    ASSUME pow \in Worlds, request \in Requests, request.kind = "map", Asked,
           NEW first, first = request.start \div request.zone
    PROVE  /\ Len(FullScan) \in Nat \ {0} /\ DOMAIN FullScan = 1 .. Len(FullScan)
           /\ request.zone \in Nat \ {0} /\ NonceRange \in SUBSET Nonces
           /\ [i \in DOMAIN FullScan |-> FullScan[i].range]
                  = MakeZoneLayout(request.start, request.count, request.zone)
           /\ Len(FullScan) = (request.start + request.count - 1) \div request.zone - first + 1
           /\ \A i \in 1 .. Len(FullScan) :
                  LET z == FullScan[i]
                      Z == {n \in NonceRange : n \div request.zone = first + i - 1}
                  IN  /\ z.range.index = first + i - 1 /\ z.range.start .. z.range.end = Z
                      /\ IsFiniteSet(Z) /\ z.range.count = Cardinality(Z) /\ Z # {}
                      /\ StatsFor(z.stats, Z) /\ IsStatsOf(z.stats, Z)
<1> DEFINE a == request.start
           c == request.count
           size == request.zone
           L == MakeZoneLayout(a, c, size)
           k == (a + c - 1) \div size - first + 1
<1>1. a \in Nat /\ c \in Nat \ {0} /\ size \in Nat \ {0} /\ a + c <= NonceSpace /\ NonceSpace \in Nat
  BY HeaderSpaceAssumption DEF Asked, ValidRange
<1>2. NonceRange = a .. a + c - 1 /\ NonceRange \in SUBSET Nonces
  BY <1>1 DEF NonceRange, Nonces
<1>3. FullScan = ScanCpu(L)
  BY DEF FullScan
<1>4. first = a \div size
  OBVIOUS
<1> HIDE DEF a, c, size, L
<1>5. L = MakeZoneLayout(a, c, size)
  BY DEF L
<1>6. /\ k \in Nat \ {0} /\ DOMAIN L = 1 .. k /\ L = [i \in 1 .. k |-> L[i]]
      /\ \A i \in 1 .. k :
             /\ L[i].index = first + i - 1 /\ L[i].count > 0 /\ IsRange(L[i])
             /\ L[i].end = L[i].start + L[i].count - 1
             /\ NoncesOf(L[i]) = {n \in a .. a + c - 1 : n \div size = first + i - 1}
  BY <1>1, <1>4, <1>5, LayoutIs
<1> HIDE DEF k
<1>7. FullScan = [i \in 1 .. k |-> [range |-> L[i], stats |-> ItemStats(L[i], 0, 1)]]
  BY <1>3, <1>6 DEF ScanCpu
<1>8. DOMAIN FullScan = 1 .. k /\ Len(FullScan) = k
  BY <1>6, <1>7
<1>9. [i \in DOMAIN FullScan |-> FullScan[i].range] = L
  BY <1>6, <1>7
<1>10. ASSUME NEW i \in 1 .. k
       PROVE  LET z == FullScan[i]
                  Z == {n \in NonceRange : n \div size = first + i - 1}
              IN  /\ z.range.index = first + i - 1 /\ z.range.start .. z.range.end = Z
                  /\ IsFiniteSet(Z) /\ z.range.count = Cardinality(Z) /\ Z # {}
                  /\ StatsFor(z.stats, Z) /\ IsStatsOf(z.stats, Z)
  <2> DEFINE z == FullScan[i]
             Z == {n \in NonceRange : n \div size = first + i - 1}
             r == L[i]
  <2>1. z.range = r /\ z.stats = ItemStats(r, 0, 1)
    BY <1>7
  <2>2. NoncesOf(r) = Z /\ r.index = first + i - 1 /\ IsRange(r) /\ r.count > 0
        /\ r.end = r.start + r.count - 1
    BY <1>2, <1>6
  <2> HIDE DEF r, z, Z
  <2>3. r.start .. r.end = Z
    BY <2>2 DEF NoncesOf
  <2>4. Z \in SUBSET Nonces /\ IsFiniteSet(Z) /\ Cardinality(Z) = r.count
    BY <2>2, RangeFacts
  <2>5. StatsFor(z.stats, Z)
    BY <2>1, <2>2, ZoneStatsFor
  <2>6. Z # {}
    <3>1. Cardinality({}) = 0
      BY FS_EmptySet
    <3>2. Cardinality(Z) # 0
      BY <2>2, <2>4 DEF IsRange
    <3> QED BY <3>1, <3>2
  <2>7. IsStatsOf(z.stats, Z)
    BY <2>4, <2>5, <2>6, StatsAreStats
  <2>8. /\ z.range.index = first + i - 1 /\ z.range.start .. z.range.end = Z
        /\ IsFiniteSet(Z) /\ z.range.count = Cardinality(Z) /\ Z # {}
        /\ StatsFor(z.stats, Z) /\ IsStatsOf(z.stats, Z)
    BY <2>1, <2>2, <2>3, <2>4, <2>5, <2>6, <2>7
  <2> QED BY <2>8 DEF z, Z
<1>11. /\ Len(FullScan) \in Nat \ {0} /\ DOMAIN FullScan = 1 .. Len(FullScan)
       /\ request.zone \in Nat \ {0} /\ NonceRange \in SUBSET Nonces
  BY <1>1, <1>2, <1>6, <1>8 DEF size
<1>12. [i \in DOMAIN FullScan |-> FullScan[i].range]
           = MakeZoneLayout(request.start, request.count, request.zone)
  BY <1>5, <1>9 DEF a, c, size
<1>13. Len(FullScan) = (request.start + request.count - 1) \div request.zone - first + 1
  BY <1>8 DEF a, c, size, k
<1>14. \A i \in 1 .. Len(FullScan) :
           LET z == FullScan[i]
               Z == {n \in NonceRange : n \div request.zone = first + i - 1}
           IN  /\ z.range.index = first + i - 1 /\ z.range.start .. z.range.end = Z
               /\ IsFiniteSet(Z) /\ z.range.count = Cardinality(Z) /\ Z # {}
               /\ StatsFor(z.stats, Z) /\ IsStatsOf(z.stats, Z)
  BY <1>8, <1>10 DEF size
<1> QED BY <1>11, <1>12, <1>13, <1>14

\* A larger threshold counts no fewer nonces, and none counts more than there are.
LEMMA TailsNest ==
    ASSUME pow \in Worlds, NEW S \in SUBSET Nonces, IsFiniteSet(S), NEW i \in DOMAIN Bounds
    PROVE  Cardinality({n \in S : pow[n] < Bounds[i]})
               <= IF i = 1 THEN Cardinality(S) ELSE Cardinality({n \in S : pow[n] < Bounds[i - 1]})
<1> DEFINE A == {n \in S : pow[n] < Bounds[i]}
           B == {n \in S : pow[n] < Bounds[i - 1]}
<1>1. IsFiniteSet(A) /\ Cardinality(A) <= Cardinality(S)
  BY FS_Subset
<1>2. CASE i = 1
  BY <1>1, <1>2
<1>3. CASE i # 1
  <2>1. /\ Bounds \in Seq(Int) /\ \A p, q \in DOMAIN Bounds : p < q => Bounds[q] <= Bounds[p]
    BY HeaderSpaceAssumption
  <2>2. i \in Int /\ i - 1 \in DOMAIN Bounds /\ i - 1 < i
    BY <1>3, <2>1
  <2>3. Bounds[i] <= Bounds[i - 1] /\ Bounds[i] \in Int /\ Bounds[i - 1] \in Int
    BY <2>1, <2>2
  <2>4. \A n \in S : pow[n] \in Int
    BY PowFacts
  <2>5. A \subseteq B
    BY <2>3, <2>4
  <2>6. IsFiniteSet(B)
    BY FS_Subset
  <2>7. Cardinality(A) <= Cardinality(B)
    <3> HIDE DEF A, B
    <3> QED BY <2>5, <2>6, FS_Subset
  <2> QED BY <1>3, <2>7
<1> QED BY <1>2, <1>3

\* The checks of the host find nothing to complain of.
LEMMA IntegrityHolds ==
    ASSUME pow \in Worlds, request \in Requests, request.kind = "map", Asked
    PROVE  ValidateIntegrity(FullScan, AggregateZones(FullScan))
<1> DEFINE first == request.start \div request.zone
           zs == FullScan
           larger(z, i) == IF i = 1 THEN z.range.count ELSE z.stats.counts[i - 1]
<1>1. /\ DOMAIN zs = 1 .. Len(zs)
      /\ [i \in DOMAIN zs |-> zs[i].range] = MakeZoneLayout(request.start, request.count, request.zone)
      /\ NonceRange \in SUBSET Nonces
      /\ \A i \in 1 .. Len(zs) :
             LET z == zs[i]
                 Z == {n \in NonceRange : n \div request.zone = first + i - 1}
             IN  /\ z.range.start .. z.range.end = Z
                 /\ IsFiniteSet(Z) /\ z.range.count = Cardinality(Z)
                 /\ StatsFor(z.stats, Z) /\ IsStatsOf(z.stats, Z)
  BY FullScanIs
<1>2. AggregateZones(zs).total = request.count
  <2>1. /\ request.start \in Nat /\ request.count \in Nat \ {0} /\ request.zone \in Nat \ {0}
        /\ request.start + request.count <= NonceSpace
    BY HeaderSpaceAssumption DEF Asked, ValidRange
  <2> DEFINE L == MakeZoneLayout(request.start, request.count, request.zone)
  <2>2. zs = ScanCpu(L)
    BY DEF FullScan
  <2> HIDE DEF zs
  <2> QED BY <2>1, <2>2, AggregateIs
<1> HIDE DEF first, zs
<1>3. ASSUME NEW k \in DOMAIN zs
      PROVE  /\ zs[k].stats.minimum[2] \in zs[k].range.start .. zs[k].range.end
             /\ \A i \in DOMAIN Bounds : zs[k].stats.counts[i] <= larger(zs[k], i)
  <2> DEFINE z == zs[k]
             Z == {n \in NonceRange : n \div request.zone = first + k - 1}
  <2>1. /\ z.range.start .. z.range.end = Z /\ Z \in SUBSET Nonces
        /\ IsFiniteSet(Z) /\ z.range.count = Cardinality(Z)
        /\ StatsFor(z.stats, Z) /\ IsStatsOf(z.stats, Z)
    BY <1>1
  <2> HIDE DEF z, Z
  <2>2. z.stats.minimum[2] \in Z
    BY <2>1 DEF IsStatsOf
  <2>3. \A i \in DOMAIN Bounds : z.stats.counts[i] = Cardinality({n \in Z : pow[n] < Bounds[i]})
    BY <2>1 DEF IsStatsOf
  <2>4. ASSUME NEW i \in DOMAIN Bounds PROVE z.stats.counts[i] <= larger(z, i)
    <3>1. Cardinality({n \in Z : pow[n] < Bounds[i]})
               <= IF i = 1 THEN Cardinality(Z) ELSE Cardinality({n \in Z : pow[n] < Bounds[i - 1]})
      BY <2>1, TailsNest
    <3>2. i # 1 => i - 1 \in DOMAIN Bounds
      BY HeaderSpaceAssumption
    <3>3. CASE i = 1
      BY <2>1, <2>3, <3>1, <3>3
    <3>4. CASE i # 1
      BY <2>3, <3>1, <3>2, <3>4
    <3> QED BY <3>3, <3>4
  <2> QED BY <2>1, <2>2, <2>4 DEF z
<1> QED BY <1>1, <1>2, <1>3 DEF ValidateIntegrity, zs

\* The verification finds the same figures; a part that is verified is followed by
\* the whole range.
LEMMA VerifyKeeps == MapInv /\ Verify => MapInv'
<1> SUFFICES ASSUME MapInv, Verify PROVE MapInv'
  OBVIOUS
<1>1. /\ host = "upload" /\ Running /\ request.kind = "map" /\ request \in Requests
      /\ Len(zones) = Len(Layout)
  BY DEF Verify, MapInv, MapHosts
<1>2. zones = ScanCpu(Layout)
  BY <1>1, ScanIsComplete
<1>3. /\ pow' = pow /\ request' = request /\ disk' = disk /\ commands' = commands
      /\ scan' = [scan EXCEPT !.verified = TRUE, !.count = request.count]
      /\ zones' = IF scan.count = request.count THEN zones ELSE <<>>
      /\ host' = host /\ exit' = exit
  BY <1>2 DEF Verify
<1>4. Asked /\ Asked' /\ request.count \in 1 .. request.count
  BY <1>1, <1>3, RangeFrame, RunningLayout DEF Running
<1>5. /\ scan' = [count |-> scan'.count, overwrite |-> scan'.overwrite, verified |-> scan'.verified]
      /\ scan'.count = request.count
  BY <1>1, <1>3 DEF Running
<1>6. Len(Layout') \in Nat \ {0}
  <2>1. (request \in Requests /\ request.kind = "map" /\ Asked /\ scan.count \in 1 .. request.count
           => Len(Layout) \in Nat \ {0})'
    BY RunningLayout, PTL
  <2> QED BY <1>1, <1>3, <1>4, <1>5, <2>1
<1>7. Len(zones') \in 0 .. Len(Layout') /\ zones' = [i \in 1 .. Len(zones') |-> ScanCpu(Layout)'[i]]
  <2>1. CASE scan.count = request.count
    <3>1. Layout' = Layout /\ ScanCpu(Layout)' = ScanCpu(Layout)
      BY <1>3, <1>5, <2>1, LayoutFrame
    <3> QED BY <1>1, <1>3, <2>1, <3>1 DEF Running
  <2>2. CASE scan.count # request.count
    <3>1. zones' = <<>>
      BY <1>3, <2>2
    <3> QED BY <1>6, <3>1
  <2> QED BY <2>1, <2>2
<1>8. Running'
  BY <1>1, <1>3, <1>4, <1>5, <1>7 DEF Running
<1>9. Published'
  BY <1>1, <1>3, PublishedFrame DEF MapInv
<1> QED BY <1>1, <1>3, <1>8, <1>9 DEF MapInv, MapHosts

\* The figures that are complete pass the checks.
LEMMA ConcludeKeeps == MapInv /\ Conclude => MapInv'
<1> SUFFICES ASSUME MapInv, Conclude PROVE MapInv'
  OBVIOUS
<1>1. /\ host = "upload" /\ Running /\ request.kind = "map" /\ request \in Requests /\ pow \in Worlds
      /\ Len(zones) = Len(Layout) /\ scan.verified
  BY DEF Conclude, MapInv, MapHosts
<1>2. zones = FullScan
  <2>1. scan.count = request.count
    BY <1>1 DEF Running
  <2>2. zones = ScanCpu(Layout)
    BY <1>1, ScanIsComplete
  <2> QED BY <2>1, <2>2 DEF FullScan, Layout
<1>3. ValidateIntegrity(zones, AggregateZones(zones))
  BY <1>1, <1>2, IntegrityHolds DEF Running
<1>4. /\ pow' = pow /\ request' = request /\ disk' = disk /\ commands' = commands
      /\ scan' = scan /\ zones' = zones /\ host' = "zones" /\ exit' = exit
  BY <1>3 DEF Conclude
<1>5. Running' /\ Published'
  BY <1>1, <1>4, RunningFrame, PublishedFrame DEF MapInv
<1>6. Writing'
  BY <1>2, <1>4, RangeFrame DEF Writing
<1> QED BY <1>1, <1>4, <1>5, <1>6 DEF MapInv, MapHosts

\* A command that writes its files.
LEMMA WritingFacts ==
    ASSUME MapInv, host \in {"zones", "rename_zones", "summary", "rename_summary"}
    PROVE  /\ Running /\ Writing /\ Published /\ request.kind = "map" /\ request \in Requests /\ pow \in Worlds
           /\ disk = [zones |-> disk.zones, summary |-> disk.summary]
           /\ Len(FullScan) \in Nat \ {0} /\ FullScan # <<>>
<1>1. /\ Running /\ Writing /\ Published /\ request.kind = "map" /\ request \in Requests /\ pow \in Worlds
  BY DEF MapInv, MapHosts
<1>2. Len(FullScan) \in Nat \ {0}
  BY <1>1, FullScanIs DEF Running
<1>3. FullScan # <<>>
  BY <1>2
<1> QED BY <1>1, <1>2, <1>3 DEF Published

\* A step that writes: what is asked and the figures stay.
LEMMA WriteKeeps ==
    ASSUME MapInv, host \in {"zones", "rename_zones", "summary", "rename_summary"},
           pow' = pow, request' = request, commands' = commands, scan' = scan, zones' = zones, exit' = exit,
           disk' = [zones |-> disk'.zones, summary |-> disk'.summary],
           disk'.zones \in {<<>>, FullScan},
           disk'.summary = disk.summary \/ disk'.summary = <<>>,
           host' \in {"rename_zones", "summary", "rename_summary"},
           host' # "rename_zones" => disk'.zones = FullScan
    PROVE  MapInv'
<1>1. /\ Running /\ Writing /\ Published /\ request.kind = "map" /\ request \in Requests /\ pow \in Worlds
      /\ commands \in Nat /\ exit # "mismatch"
  BY WritingFacts DEF MapInv
<1>2. /\ FullScan' = FullScan /\ Asked' = Asked /\ Layout' = Layout /\ ScanCpu(Layout)' = ScanCpu(Layout)
  BY RangeFrame, LayoutFrame
<1>3. AggregateZones(FullScan)' = AggregateZones(FullScan)
  BY <1>2 DEF AggregateZones, Combine, EmptyStats, MinimumPrecedes
<1>4. Running'
  BY <1>1, <1>2 DEF Running
<1>5. Writing'
  BY <1>1, <1>2 DEF Writing
<1>6. Published'
  <2>1. disk'.zones # <<>> => Asked' /\ disk'.zones = FullScan'
    BY <1>1, <1>2 DEF Running
  <2>2. disk'.summary # <<>> => disk'.summary = disk.summary /\ disk.summary # <<>>
    OBVIOUS
  <2>3. disk'.summary # <<>> => Asked' /\ disk'.summary = << AggregateZones(FullScan)' >> /\ commands' >= 1
    BY <1>1, <1>2, <1>3, <2>2 DEF Published
  <2>4. disk'.summary # <<>> => commands' > 1
    BY <1>1, <2>2 DEF Running
  <2> QED BY <2>1, <2>3, <2>4 DEF Published
<1> QED BY <1>1, <1>4, <1>5, <1>6 DEF MapInv, MapHosts

\* An old file is removed before the new one takes its name.
LEMMA RemoveKeeps == ASSUME MapInv, NEW file \in {"zones", "summary"}, Remove(file) PROVE MapInv'
<1>1. host = file /\ host \in {"zones", "rename_zones", "summary", "rename_summary"}
  BY DEF Remove
<1>2. /\ disk = [zones |-> disk.zones, summary |-> disk.summary] /\ Writing /\ Published
  BY <1>1, WritingFacts
<1>3. /\ pow' = pow /\ request' = request /\ commands' = commands /\ scan' = scan /\ zones' = zones
      /\ exit' = exit
  BY DEF Remove
<1>4. CASE file = "zones"
  <2>1. /\ disk' = [disk EXCEPT !.zones = IF scan.overwrite THEN <<>> ELSE @] /\ host' = "rename_zones"
    BY <1>4 DEF Remove
  <2>2. /\ disk' = [zones |-> disk'.zones, summary |-> disk'.summary] /\ disk'.summary = disk.summary
        /\ disk'.zones \in {<<>>, disk.zones}
    BY <1>2, <2>1
  <2>3. disk.zones \in {<<>>, FullScan}
    BY <1>2 DEF Published
  <2> QED BY <1>1, <1>3, <2>1, <2>2, <2>3, WriteKeeps
<1>5. CASE file = "summary"
  <2>1. /\ disk' = [disk EXCEPT !.summary = IF scan.overwrite THEN <<>> ELSE @] /\ host' = "rename_summary"
    BY <1>5 DEF Remove
  <2>2. /\ disk' = [zones |-> disk'.zones, summary |-> disk'.summary] /\ disk'.zones = disk.zones
        /\ disk'.summary = disk.summary \/ disk'.summary = <<>>
    BY <1>2, <2>1
  <2>3. disk.zones = FullScan
    BY <1>1, <1>2, <1>5 DEF Writing
  <2> QED BY <1>1, <1>3, <2>1, <2>2, <2>3, WriteKeeps
<1> QED BY <1>4, <1>5

\* zones.csv is written.
LEMMA RenameZonesKeeps == MapInv /\ RenameZones => MapInv'
<1> SUFFICES ASSUME MapInv, RenameZones PROVE MapInv'
  OBVIOUS
<1>1. host \in {"zones", "rename_zones", "summary", "rename_summary"}
  BY DEF RenameZones
<1>2. disk = [zones |-> disk.zones, summary |-> disk.summary] /\ zones = FullScan
  BY <1>1, WritingFacts DEF Writing
<1>3. /\ pow' = pow /\ request' = request /\ commands' = commands /\ scan' = scan /\ zones' = zones
      /\ exit' = exit /\ host' = "summary" /\ disk' = [disk EXCEPT !.zones = zones]
  BY DEF RenameZones
<1>4. /\ disk' = [zones |-> disk'.zones, summary |-> disk'.summary] /\ disk'.summary = disk.summary
      /\ disk'.zones = FullScan
  BY <1>2, <1>3
<1> QED BY <1>1, <1>3, <1>4, WriteKeeps

\* summary.json is written, and the command ends.
LEMMA RenameSummaryKeeps == MapInv /\ RenameSummary => MapInv'
<1> SUFFICES ASSUME MapInv, RenameSummary PROVE MapInv'
  OBVIOUS
<1>1. host = "rename_summary" /\ host \in {"zones", "rename_zones", "summary", "rename_summary"}
  BY DEF RenameSummary
<1>2. /\ disk = [zones |-> disk.zones, summary |-> disk.summary] /\ zones = FullScan
      /\ disk.zones = FullScan /\ FullScan # <<>> /\ Running /\ request.kind = "map"
      /\ pow \in Worlds /\ request \in Requests /\ commands \in Nat
  BY <1>1, WritingFacts DEF Writing, MapInv
<1>3. /\ pow' = pow /\ request' = request /\ commands' = commands /\ zones' = <<>>
      /\ exit' = "done" /\ host' = "idle" /\ disk' = [disk EXCEPT !.summary = << AggregateZones(zones) >>]
  BY DEF RenameSummary, End
<1>4. FullScan' = FullScan /\ Asked' = Asked
  BY <1>3, RangeFrame
<1>5. AggregateZones(FullScan)' = AggregateZones(FullScan)
  BY <1>4 DEF AggregateZones, Combine, EmptyStats, MinimumPrecedes
<1>6. /\ disk' = [zones |-> disk'.zones, summary |-> disk'.summary] /\ disk'.zones = FullScan
      /\ disk'.summary = << AggregateZones(FullScan) >>
  BY <1>2, <1>3
<1>7. Published'
  BY <1>2, <1>3, <1>4, <1>5, <1>6 DEF Published, Running
<1> QED BY <1>2, <1>3, <1>7 DEF MapInv, MapHosts

\* Every step keeps the invariant of the map.
LEMMA MapInvStep == MapInv /\ [Next]_vars => MapInv'
<1> SUFFICES ASSUME MapInv, [Next]_vars PROVE MapInv'
  OBVIOUS
<1>0. exit # "mismatch" /\ (host \notin MapHosts => zones = <<>>) /\ commands \in Nat
  BY DEF MapInv
<1>1. CASE \E o \in BOOLEAN : BeginMap(o)
  BY <1>1, BeginMapKeeps
<1>2. CASE BeginSparse
  <2>1. /\ pow' = pow /\ request' = request /\ disk' = disk /\ commands' = commands + 1
        /\ host = "idle" /\ zones = <<>>
    BY <1>0, <1>2 DEF BeginSparse, MapHosts
  <2>2. host' \in {"idle", "sparse"} /\ zones' = <<>> /\ exit' # "mismatch"
    BY <1>2, <2>1 DEF BeginSparse, Launch, End, None
  <2> QED BY <2>1, <2>2, EndKeeps
<1>3. CASE Sparse
  <2>1. /\ pow' = pow /\ request' = request /\ disk' = disk /\ commands' = commands /\ exit' = exit
        /\ host = "sparse" /\ host' = host /\ zones' = zones
    BY <1>3 DEF Sparse, Probe, Store
  <2>2. zones = <<>>
    BY <1>0, <2>1 DEF MapHosts
  <2> QED BY <1>0, <2>1, <2>2, EndKeeps
<1>4. CASE ReadHits
  <2>1. /\ pow' = pow /\ request' = request /\ disk' = disk /\ commands' = commands /\ host = "sparse"
    BY <1>4 DEF ReadHits
  <2>2. zones = <<>>
    BY <1>0, <2>1 DEF MapHosts
  <2>3. host' \in {"idle", "sparse"} /\ zones' = <<>> /\ exit' # "mismatch"
    BY <1>4, <2>2 DEF ReadHits, Launch, End, None
  <2> QED BY <2>1, <2>3, EndKeeps
<1>5. CASE Abort
  BY <1>5, EndKeeps DEF Abort, End
<1>6. CASE UNCHANGED vars
  <2>1. /\ pow' = pow /\ request' = request /\ disk' = disk /\ host' = host /\ scan' = scan
        /\ zones' = zones /\ items' = items /\ exit' = exit /\ commands' = commands
    BY <1>6 DEF vars
  <2>2. Published'
    BY <1>0, <2>1, PublishedFrame DEF MapInv
  <2>3. Running => Running'
    BY <2>1, RunningFrame
  <2>4. Writing => Writing'
    BY <2>1, RangeFrame DEF Writing
  <2>5. TreeInv => TreeInv'
    <3> SUFFICES ASSUME TreeInv PROVE TreeInv'
      OBVIOUS
    <3>1. Layout' = Layout /\ BatchSize' = BatchSize
      BY <2>1, LayoutFrame DEF BatchSize, MaximumBatch
    <3>2. ASSUME NEW g \in 1 .. BatchSize, NEW lid \in 0 .. LocalSize - 1
          PROVE  ItemInv(g, lid)'
      <4>1. PICK x : x = items[<<g, lid>>]
        OBVIOUS
      <4>2. PICK r : r = ZoneOf(g)
        OBVIOUS
      <4>3. Accumulated(x, r, lid)
        BY <4>1, <4>2 DEF TreeInv, ItemInv
      <4>4. x = items'[<<g, lid>>] /\ r = ZoneOf(g)'
        BY <2>1, <3>1, <4>1, <4>2 DEF ZoneOf
      <4> QED BY <2>1, <4>3, <4>4, ItemFrame
    <3> QED BY <2>1, <3>1, <3>2 DEF TreeInv
  <2> QED BY <2>1, <2>2, <2>3, <2>4, <2>5 DEF MapInv, MapHosts
<1> QED BY <1>1, <1>2, <1>3, <1>4, <1>5, <1>6, UploadKeeps, KernelKeeps, DownloadKeeps, VerifyKeeps,
           ConcludeKeeps, RemoveKeeps, RenameZonesKeeps, RenameSummaryKeeps DEF Next, Command

\* What the property says of zones.csv.
ZonesExact(zs) ==
    /\ \A z \in 1 .. Len(zs) :
           LET r == zs[z].range
           IN  /\ r.index = request.start \div request.zone + z - 1
               /\ IsStatsOf(zs[z].stats, {n \in NonceRange : n \div request.zone = r.index})
               /\ r.count = Cardinality({n \in NonceRange : n \div request.zone = r.index})
    /\ {n \div request.zone : n \in NonceRange} = {zs[z].range.index : z \in DOMAIN zs}

\* The zones of the whole range are those that the property names.
LEMMA ZonesAreExact ==
    ASSUME pow \in Worlds, request \in Requests, request.kind = "map", Asked
    PROVE  ZonesExact(FullScan)
<1> DEFINE first == request.start \div request.zone
           size == request.zone
           fs == FullScan
           k == Len(fs)
           last == request.start + request.count - 1
<1>2. /\ k \in Nat \ {0} /\ DOMAIN fs = 1 .. k /\ size \in Nat \ {0}
      /\ k = last \div size - first + 1
  BY FullScanIs
<1>3. \A i \in 1 .. k :
          LET z == fs[i]
              Z == {n \in NonceRange : n \div size = first + i - 1}
          IN  /\ z.range.index = first + i - 1 /\ z.range.count = Cardinality(Z) /\ Z # {}
              /\ IsStatsOf(z.stats, Z)
  <2>1. \A i \in 1 .. Len(FullScan) :
            LET z == FullScan[i]
                Z == {n \in NonceRange : n \div request.zone = first + i - 1}
            IN  /\ z.range.index = first + i - 1 /\ z.range.start .. z.range.end = Z
                /\ IsFiniteSet(Z) /\ z.range.count = Cardinality(Z) /\ Z # {}
                /\ StatsFor(z.stats, Z) /\ IsStatsOf(z.stats, Z)
    BY FullScanIs
  <2> HIDE DEF first
  <2> QED BY <2>1
<1>4. request.start \in Nat /\ last \in Nat /\ request.start <= last /\ NonceRange = request.start .. last
  BY HeaderSpaceAssumption DEF Asked, ValidRange, NonceRange
<1>5. first \in Nat /\ last \div size \in Nat
  BY <1>2, <1>4, DivDef
<1>6. \A n \in NonceRange : n \div size \in Nat /\ first <= n \div size /\ n \div size <= last \div size
  <2> SUFFICES ASSUME NEW n \in request.start .. last
               PROVE  n \div size \in Nat /\ first <= n \div size /\ n \div size <= last \div size
    BY <1>4
  <2>1. n \in Nat /\ request.start <= n /\ n <= last
    BY <1>4
  <2> HIDE DEF last, size
  <2> QED BY <1>2, <1>4, <2>1, DivDef, DivMono DEF size
<1> HIDE DEF first, size, fs, k, last
<1>7. \A i \in 1 .. k : fs[i].range.index = first + i - 1
  BY <1>3
<1>8. {n \div size : n \in NonceRange} = {fs[i].range.index : i \in 1 .. k}
  <2>1. ASSUME NEW n \in NonceRange PROVE \E i \in 1 .. k : fs[i].range.index = n \div size
    <3> DEFINE q == n \div size
               i == q - first + 1
    <3>1. q \in Nat /\ first <= q /\ q <= last \div size
      BY <1>6
    <3> HIDE DEF q
    <3>2. i \in 1 .. k /\ first + i - 1 = q
      BY <1>2, <1>5, <3>1
    <3> QED BY <1>7, <3>2 DEF q
  <2>2. ASSUME NEW i \in 1 .. k PROVE \E n \in NonceRange : n \div size = fs[i].range.index
    <3>1. {n \in NonceRange : n \div size = first + i - 1} # {}
      BY <1>3
    <3> QED BY <1>7, <3>1
  <2> QED BY <2>1, <2>2
<1>9. \A i \in 1 .. k :
          LET r == fs[i].range
          IN  /\ r.index = first + i - 1
              /\ IsStatsOf(fs[i].stats, {n \in NonceRange : n \div size = r.index})
              /\ r.count = Cardinality({n \in NonceRange : n \div size = r.index})
  BY <1>3, <1>7
<1> QED BY <1>2, <1>8, <1>9 DEF first, size, fs, k, ZonesExact

\* The files of the invariant are exact.
LEMMA MapInvIsExact == MapInv => MapIsExact
<1> SUFFICES ASSUME MapInv PROVE MapIsExact
  OBVIOUS
<1>1. pow \in Worlds /\ request \in Requests /\ exit # "mismatch" /\ Published
  BY DEF MapInv
<1>2. disk.zones # <<>> => ZonesExact(disk.zones)
  <2> SUFFICES ASSUME disk.zones # <<>> PROVE ZonesExact(disk.zones)
    OBVIOUS
  <2>1. request.kind = "map" /\ Asked /\ disk.zones = FullScan
    BY <1>1 DEF MapInv, Published
  <2> QED BY <1>1, <2>1, ZonesAreExact
<1>3. ASSUME NEW i \in DOMAIN disk.summary
      PROVE  LET global == disk.summary[i]
             IN  /\ global.total = request.count /\ IsStatsOf(global.stats, NonceRange)
                 /\ global.zone = global.stats.minimum[2] \div request.zone
                 /\ disk.zones = <<>> => commands > 1
  <2>1. disk.summary # <<>>
    OBVIOUS
  <2>2. /\ request.kind = "map" /\ Asked /\ disk.summary = << AggregateZones(FullScan) >>
        /\ (disk.zones = <<>> => commands > 1)
    BY <1>1, <2>1 DEF MapInv, Published
  <2> DEFINE global == AggregateZones(FullScan)
             a == request.start
             c == request.count
             size == request.zone
             L == MakeZoneLayout(a, c, size)
  <2>3. disk.summary[i] = global
    BY <2>2
  <2>4. a \in Nat /\ c \in Nat \ {0} /\ size \in Nat \ {0} /\ a + c <= NonceSpace
    BY <1>1, <2>2, HeaderSpaceAssumption DEF Asked, ValidRange
  <2>5. FullScan = ScanCpu(L) /\ NonceRange = a .. a + c - 1
    BY DEF FullScan, NonceRange
  <2>6. NonceRange \in SUBSET Nonces
    BY <1>1, <2>2, FullScanIs
  <2> HIDE DEF a, c, size, L
  <2>7. /\ global.total = c /\ StatsFor(global.stats, a .. a + c - 1)
        /\ global.zone = global.stats.minimum[2] \div size
    BY <1>1, <2>4, <2>5, AggregateIs DEF L
  <2>8. a \in NonceRange
    BY <2>4, <2>5
  <2> HIDE DEF global
  <2>9. IsStatsOf(global.stats, NonceRange)
    BY <1>1, <2>5, <2>6, <2>7, <2>8, StatsAreStats
  <2> QED BY <2>2, <2>3, <2>7, <2>9 DEF c, size
<1> QED BY <1>1, <1>2, <1>3 DEF MapIsExact, ZonesExact

\* What the map publishes is exact for every header, range, size of zones and
\* batches and number of work-items, in every order of the work-items.
THEOREM MapIsExactHolds == Spec => []MapIsExact
<1>1. Init => MapInv
  BY DEF Init, MapInv, MapHosts, Published, None
<1> QED BY <1>1, MapInvStep, MapInvIsExact, PTL DEF Spec

=============================================================================
