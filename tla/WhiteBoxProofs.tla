--------------------------- MODULE WhiteBoxProofs ---------------------------
(***************************************************************************)
(* The sigmas are linear over XOR, so that the differential identities the *)
(* white box validates on each specimen hold for every pair of headers.    *)
(* What the prescan computes without a nonce is what every candidate goes  *)
(* through: the two hashes are in the same state until the nonce enters in *)
(* round 3 of compression 1, and a sum of five operands and its carries    *)
(* are those of the sums it is split into.                                 *)
(***************************************************************************)
EXTENDS WhiteBox, TLAPS, FiniteSetTheorems, SequenceTheorems, WellFoundedInduction

\* Rotating the XOR of two words is the XOR of the rotated words.
LEMMA RotrXor ==
    ASSUME NEW n, NEW x, NEW y
    PROVE  Rotr(n, Xor(x, y)) = Xor(Rotr(n, x), Rotr(n, y))
BY DEF Rotr, Xor

\* The same of the shift, which drops the low bits of both words.
LEMMA ShrXor ==
    ASSUME NEW n, NEW x, NEW y
    PROVE  Shr(n, Xor(x, y)) = Xor(Shr(n, x), Shr(n, y))
BY DEF Shr, Xor

\* XORs of three words may be regrouped word by word.
LEMMA XorRegroup ==
    ASSUME NEW a, NEW b, NEW c, NEW x, NEW y, NEW z
    PROVE  Xor(Xor(Xor(a, b), c), Xor(Xor(x, y), z)) =
           Xor(Xor(Xor(a, x), Xor(b, y)), Xor(c, z))
BY DEF Xor

\* Each sigma of the rounds maps the XOR of two words to the XOR of its values.
LEMMA BigSigmaXor ==
    ASSUME NEW x, NEW y
    PROVE  /\ BigSigma0(Xor(x, y)) = Xor(BigSigma0(x), BigSigma0(y))
           /\ BigSigma1(Xor(x, y)) = Xor(BigSigma1(x), BigSigma1(y))
BY RotrXor, XorRegroup DEF BigSigma0, BigSigma1

\* The same of the sigmas of the message schedule.
THEOREM SmallSigmaXor ==
    ASSUME NEW x, NEW y
    PROVE  /\ SmallSigma0(Xor(x, y)) = Xor(SmallSigma0(x), SmallSigma0(y))
           /\ SmallSigma1(Xor(x, y)) = Xor(SmallSigma1(x), SmallSigma1(y))
BY RotrXor, ShrXor, XorRegroup DEF SmallSigma0, SmallSigma1

\* What a round records of its inputs and of its sigmas.
LEMMA RoundFields ==
    ASSUME NEW k, NEW v, NEW w
    PROVE  /\ Round(k, v, w).before = v
           /\ Round(k, v, w).sum0 = BigSigma0(v[1])
           /\ Round(k, v, w).sum1 = BigSigma1(v[5])
BY DEF Round

\* The recorded sigmas are those of the recorded registers, in both traces.
SigmasAreRecorded ==
    rounds # <<>> =>
        \A r \in {rounds[1], rounds[2]} :
            r.sum0 = BigSigma0(r.before[1]) /\ r.sum1 = BigSigma1(r.before[5])

\* The differential identity of the big sigmas holds in every round of every
\* specimen, whatever the header and the change of the nonce.
THEOREM SigmaDifferentialHolds == Spec => []SigmaDifferential
<1>1. Init => SigmasAreRecorded
  BY DEF Init, SigmasAreRecorded
<1>2. SigmasAreRecorded /\ [Next]_vars => SigmasAreRecorded'
  <2> SUFFICES ASSUME SigmasAreRecorded, [Next]_vars PROVE SigmasAreRecorded'
    OBVIOUS
  <2>1. CASE Compress
    <3>1. PICK k, v, w, x, y : rounds' = << Round(k, v, w), Round(k, x, y) >>
      BY <2>1, Zenon DEF Compress
    <3>2. QED BY <3>1, RoundFields DEF SigmasAreRecorded
  <2>2. CASE Midstate \/ FirstDigest \/ FinalDigest \/ UNCHANGED vars
    <3>1. rounds' = rounds
      BY <2>2 DEF Midstate, FirstDigest, FinalDigest, Finish, vars
    <3>2. QED BY <3>1 DEF SigmasAreRecorded
  <2>3. QED BY <2>1, <2>2 DEF Next
<1>3. SigmasAreRecorded => SigmaDifferential
  BY BigSigmaXor DEF SigmasAreRecorded, SigmaDifferential
<1>4. QED BY <1>1, <1>2, <1>3, PTL DEF Spec

-----------------------------------------------------------------------------
(***************************************************************************)
(* The carries of an addition.                                             *)
(***************************************************************************)
\* The equation that the recursion of CarryProfile solves.
CarryEquation(ones, f) ==
    f = [n \in 0 .. 32 |->
            IF n = 0 THEN <<>>
            ELSE Append(f[n - 1], ((IF n = 1 THEN 0 ELSE f[n - 1][n - 1]) + ones[n - 1]) \div 2)]

\* The carries that leave the first m columns, after a zero.
CarriesUpto(ones, g, m) ==
    /\ g \in [0 .. m -> Nat] /\ g[0] = 0
    /\ \A n \in 1 .. m : g[n] = (g[n - 1] + ones[n - 1]) \div 2

HasCarries(ones, m) == \E g : CarriesUpto(ones, g, m)

\* There are carries column by column, by the least column without one.
LEMMA CarriesExist ==
    ASSUME NEW ones \in [Bits -> Nat]
    PROVE  HasCarries(ones, 32)
<1> DEFINE Bad == {m \in Nat : m <= 32 /\ ~HasCarries(ones, m)}
<1>1. Bad = {}
  <2> SUFFICES ASSUME Bad # {} PROVE FALSE
    OBVIOUS
  <2>0. Bad \subseteq Nat
    OBVIOUS
  <2>1. PICK m \in Bad : \A d \in Bad : ~(<<d, m>> \in OpToRel(<, Nat))
    BY <2>0, NatLessThanWellFounded, WFMin
  <2>2. m \in Nat /\ m <= 32 /\ \A d \in Nat : d < m => d \notin Bad
    BY <2>1 DEF OpToRel
  <2>3. CASE m = 0
    <3>1. CarriesUpto(ones, [n \in 0 .. 0 |-> 0], 0)
      BY DEF CarriesUpto
    <3> QED BY <2>1, <2>3, <3>1 DEF HasCarries
  <2>4. CASE m # 0
    <3>1. m - 1 \in Nat /\ m - 1 < m /\ m - 1 <= 32 /\ m - 1 \in Bits
      BY <2>2, <2>4 DEF Bits
    <3>2. PICK f : CarriesUpto(ones, f, m - 1)
      BY <2>2, <3>1 DEF HasCarries
    <3> DEFINE last == (f[m - 1] + ones[m - 1]) \div 2
               g == [n \in 0 .. m |-> IF n = m THEN last ELSE f[n]]
    <3>3. last \in Nat
      <4>0. f \in [0 .. m - 1 -> Nat]
        BY <3>2 DEF CarriesUpto
      <4>1. f[m - 1] \in Nat /\ ones[m - 1] \in Nat
        BY <3>1, <4>0
      <4> QED BY <4>1
    <3>4. \A n \in 0 .. m - 1 : g[n] = f[n]
      BY <2>2
    <3>5. g[m] = last
      BY <2>2
    <3>6. g \in [0 .. m -> Nat]
      <4> HIDE DEF last
      <4> QED BY <2>2, <3>2, <3>3 DEF CarriesUpto
    <3>7. g[0] = 0
      BY <3>2, <3>4, <2>4, <2>2 DEF CarriesUpto
    <3>8. \A n \in 1 .. m : g[n] = (g[n - 1] + ones[n - 1]) \div 2
      <4> SUFFICES ASSUME NEW n \in 1 .. m PROVE g[n] = (g[n - 1] + ones[n - 1]) \div 2
        OBVIOUS
      <4> HIDE DEF g
      <4>1. CASE n = m
        <5>1. g[n - 1] = f[m - 1]
          BY <4>1, <3>4, <3>1
        <5> QED BY <5>1, <4>1, <3>5
      <4>2. CASE n # m
        <5>1. n \in 1 .. m - 1 /\ n - 1 \in 0 .. m - 1 /\ n \in 0 .. m - 1
          BY <2>2, <4>2
        <5>2. f[n] = (f[n - 1] + ones[n - 1]) \div 2
          BY <3>2, <5>1 DEF CarriesUpto
        <5> QED BY <5>1, <5>2, <3>4
      <4> QED BY <4>1, <4>2
    <3>9. CarriesUpto(ones, g, m)
      <4> HIDE DEF g
      <4> QED BY <3>6, <3>7, <3>8 DEF CarriesUpto
    <3> QED BY <2>1, <3>9 DEF HasCarries
  <2> QED BY <2>3, <2>4
<1>2. 32 \in Nat /\ 32 <= 32
  OBVIOUS
<1> QED BY <1>1, <1>2

\* The first n carries are the first n - 1 and one more.
LEMMA CarriesAppend ==
    ASSUME NEW N \in Nat, NEW g \in [0 .. N -> Nat], NEW n \in 1 .. N
    PROVE  Append([i \in 1 .. n - 1 |-> g[i]], g[n]) = [i \in 1 .. n |-> g[i]]
<1> DEFINE p == [i \in 1 .. n - 1 |-> g[i]]
           q == [i \in 1 .. n |-> g[i]]
<1>1. p \in Seq(Nat) /\ Len(p) = n - 1 /\ g[n] \in Nat
  <2>1. p \in [1 .. n - 1 -> Nat] /\ n - 1 \in Nat
    OBVIOUS
  <2>2. g[n] \in Nat
    OBVIOUS
  <2>3. PICK k \in Nat : k = n - 1
    BY <2>1
  <2> HIDE DEF p
  <2>4. p \in Seq(Nat) /\ Len(p) = k
    BY <2>1, <2>3
  <2> QED BY <2>2, <2>3, <2>4
<1>2. q \in Seq(Nat) /\ Len(q) = n
  <2>1. q \in [1 .. n -> Nat] /\ n \in Nat
    OBVIOUS
  <2> HIDE DEF q
  <2> QED BY <2>1
<1>3. /\ \A i \in 1 .. n - 1 : p[i] = g[i] 
      /\ \A i \in 1 .. n : q[i] = g[i]
  OBVIOUS
<1> HIDE DEF p, q
<1> DEFINE x == g[n]
           a == Append(p, x)
<1>4. x \in Nat /\ n \in Nat
  BY <1>1
<1> HIDE DEF x
<1>5. /\ a \in Seq(Nat) /\ Len(a) = Len(p) + 1
      /\ \A i \in 1 .. Len(p) : a[i] = p[i]
      /\ a[Len(p) + 1] = x
  BY <1>1, <1>4, AppendProperties
<1> HIDE DEF a
<1>6. Len(a) = n /\ a[n] = x /\ \A i \in 1 .. n - 1 : a[i] = p[i]
  BY <1>1, <1>4, <1>5
<1>7. \A i \in 1 .. n : a[i] = q[i]
  BY <1>3, <1>6, <1>4 DEF x
<1>8. a = q
  BY <1>2, <1>5, <1>6, <1>7, SeqEqual
<1> QED BY <1>8 DEF p, q, a, x

\* The carry that leaves a column is half of what the column adds up to.
LEMMA CarryProfileIs ==
    ASSUME NEW ones \in [Bits -> Nat]
    PROVE  /\ \A b \in Bits : CarryProfile(ones)[b + 1] \in Nat
           /\ \A b \in Bits : CarryIn(CarryProfile(ones), b) \in Nat
           /\ \A b \in Bits : CarryProfile(ones)[b + 1] =
                                  (CarryIn(CarryProfile(ones), b) + ones[b]) \div 2
<1>0. PICK g : CarriesUpto(ones, g, 32)
  BY CarriesExist DEF HasCarries
<1>1. /\ g \in [0 .. 32 -> Nat] /\ g[0] = 0
      /\ \A n \in 1 .. 32 : g[n] = (g[n - 1] + ones[n - 1]) \div 2
  BY <1>0 DEF CarriesUpto
<1> DEFINE f == [n \in 0 .. 32 |-> [i \in 1 .. n |-> g[i]]]
<1>2. CarryEquation(ones, f)
  <2>1. ASSUME NEW n \in 1 .. 32
        PROVE  f[n] = Append(f[n - 1], ((IF n = 1 THEN 0 ELSE f[n - 1][n - 1]) + ones[n - 1]) \div 2)
    <3>1. n - 1 \in 0 .. 32 /\ n \in 0 .. 32
      OBVIOUS
    <3>2. f[n] = [i \in 1 .. n |-> g[i]] /\ f[n - 1] = [i \in 1 .. n - 1 |-> g[i]]
      BY <3>1
    <3> HIDE DEF f
    <3>3. (IF n = 1 THEN 0 ELSE f[n - 1][n - 1]) = g[n - 1]
      <4>1. CASE n = 1
        BY <4>1, <1>1
      <4>2. CASE n # 1
        <5>1. n - 1 \in 1 .. n - 1
          BY <4>2
        <5> QED BY <5>1, <3>2, <4>2
      <4> QED BY <4>1, <4>2
    <3>4. g[n] = (g[n - 1] + ones[n - 1]) \div 2
      BY <1>1
    <3>5. f[n] = Append(f[n - 1], g[n])
      <4>1. 32 \in Nat
        OBVIOUS
      <4>2. Append([i \in 1 .. n - 1 |-> g[i]], g[n]) = [i \in 1 .. n |-> g[i]]
        BY <4>1, <1>1, CarriesAppend
      <4> QED BY <3>2, <4>2
    <3> QED BY <3>3, <3>4, <3>5
  <2>2. f[0] = <<>>
    OBVIOUS
  <2> DEFINE h == [n \in 0 .. 32 |->
            IF n = 0 THEN <<>>
            ELSE Append(f[n - 1], ((IF n = 1 THEN 0 ELSE f[n - 1][n - 1]) + ones[n - 1]) \div 2)]
  <2>3. DOMAIN f = 0 .. 32 /\ f = [n \in DOMAIN f |-> f[n]]
    OBVIOUS
  <2> HIDE DEF f
  <2>4. \A n \in 0 .. 32 : h[n] = f[n]
    <3> SUFFICES ASSUME NEW n \in 0 .. 32 PROVE h[n] = f[n]
      OBVIOUS
    <3>1. CASE n = 0
      BY <3>1, <2>2
    <3>2. CASE n # 0
      <4>1. n \in 1 .. 32
        BY <3>2
      <4>2. h[n] = Append(f[n - 1], ((IF n = 1 THEN 0 ELSE f[n - 1][n - 1]) + ones[n - 1]) \div 2)
        BY <3>2
      <4> HIDE DEF h
      <4> QED BY <4>1, <4>2, <2>1
    <3> QED BY <3>1, <3>2
  <2>5. h = [n \in 0 .. 32 |-> h[n]]
    OBVIOUS
  <2>6. h = f
    <3> HIDE DEF h
    <3> QED BY <2>3, <2>4, <2>5
  <2> QED BY <2>6 DEF CarryEquation
<1> HIDE DEF f
<1> DEFINE u == CHOOSE e : CarryEquation(ones, e)
<1>3. CarryEquation(ones, u)
  BY <1>2, Zenon
<1>4. CarryProfile(ones) = u[32]
  BY Zenon DEF CarryProfile, CarryEquation
<1>5. \A n \in Nat : n <= 32 => u[n] = f[n]
  <2> DEFINE Bad == {n \in Nat : n <= 32 /\ u[n] # f[n]}
  <2> SUFFICES ASSUME Bad # {} PROVE FALSE
    OBVIOUS
  <2>0. Bad \subseteq Nat
    OBVIOUS
  <2>1. PICK n \in Bad : \A d \in Bad : ~(<<d, n>> \in OpToRel(<, Nat))
    BY <2>0, NatLessThanWellFounded, WFMin
  <2>2. n \in Nat /\ n <= 32 /\ \A d \in Nat : d < n => d \notin Bad
    BY <2>1 DEF OpToRel
  <2>3. u[n] # f[n]
    BY <2>1
  <2>4. n \in 0 .. 32
    BY <2>2
  <2>5. /\ u[n] = IF n = 0 THEN <<>>
                  ELSE Append(u[n - 1], ((IF n = 1 THEN 0 ELSE u[n - 1][n - 1]) + ones[n - 1]) \div 2)
        /\ f[n] = IF n = 0 THEN <<>>
                  ELSE Append(f[n - 1], ((IF n = 1 THEN 0 ELSE f[n - 1][n - 1]) + ones[n - 1]) \div 2)
    <3> HIDE DEF u
    <3> QED BY <2>4, <1>2, <1>3 DEF CarryEquation
  <2>6. n # 0
    BY <2>3, <2>5
  <2>7. n - 1 \in Nat /\ n - 1 < n /\ n - 1 <= 32
    BY <2>2, <2>6
  <2>8. u[n - 1] = f[n - 1]
    BY <2>2, <2>7
  <2> QED BY <2>3, <2>5, <2>8
<1>6. 32 \in Nat /\ 32 <= 32 /\ f[32] = [i \in 1 .. 32 |-> g[i]]
  BY DEF f
<1> HIDE DEF u
<1>7. CarryProfile(ones) = [i \in 1 .. 32 |-> g[i]]
  BY <1>4, <1>5, <1>6
<1>8. ASSUME NEW b \in Bits
      PROVE  /\ CarryProfile(ones)[b + 1] = g[b + 1] /\ CarryIn(CarryProfile(ones), b) = g[b]
             /\ g[b + 1] \in Nat /\ g[b] \in Nat /\ g[b + 1] = (g[b] + ones[b]) \div 2
  <2>1. b + 1 \in 1 .. 32 /\ b + 1 \in 0 .. 32 /\ b \in 0 .. 32 /\ (b + 1) - 1 = b
    BY DEF Bits
  <2>2. CarryProfile(ones)[b + 1] = g[b + 1] /\ g[b + 1] \in Nat /\ g[b] \in Nat
    BY <2>1, <1>7, <1>1
  <2>3. g[b + 1] = (g[b] + ones[b]) \div 2
    BY <2>1, <1>1
  <2>4. CASE b = 0
    BY <2>2, <2>3, <2>4, <1>1 DEF CarryIn
  <2>5. CASE b # 0
    <3>1. b \in 1 .. 32
      BY <2>5 DEF Bits
    <3> QED BY <3>1, <2>2, <2>3, <2>5, <1>7 DEF CarryIn
  <2> QED BY <2>4, <2>5
<1> QED BY <1>8

\* A bit as a number.
Bit(x, b) == IF b \in x THEN 1 ELSE 0

\* A set of positions of a sequence is finite.
LEMMA PositionsFinite ==
    ASSUME NEW n \in Nat, NEW S \in SUBSET (1 .. n)
    PROVE  IsFiniteSet(S)
<1>1. IsFiniteSet(1 .. n)
  BY FS_Interval
<1> QED BY <1>1, FS_Subset

\* The number of operands with a bit is a number.
LEMMA OnesOfSequence ==
    ASSUME NEW n \in Nat, NEW operands, DOMAIN operands = 1 .. n
    PROVE  [b \in Bits |-> Ones(operands, b)] \in [Bits -> Nat]
<1>1. ASSUME NEW b PROVE Ones(operands, b) \in Nat
  <2>1. {i \in DOMAIN operands : b \in operands[i]} \subseteq 1 .. n
    OBVIOUS
  <2>2. IsFiniteSet({i \in DOMAIN operands : b \in operands[i]})
    BY <2>1, PositionsFinite
  <2> QED BY <2>2, FS_CardinalityType DEF Ones
<1> QED BY <1>1

\* Of two operands, and of five of which the last is set apart.
LEMMA OnesOfTwo ==
    ASSUME NEW x, NEW y, NEW b
    PROVE  Ones(<<x, y>>, b) = Bit(x, b) + Bit(y, b)
<1> DEFINE S == {i \in DOMAIN <<x, y>> : b \in <<x, y>>[i]}
<1>1. S = {i \in {1, 2} : (i = 1 /\ b \in x) \/ (i = 2 /\ b \in y)}
  OBVIOUS
<1>2. Cardinality({}) = 0 /\ Cardinality({1}) = 1 /\ Cardinality({2}) = 1 /\ Cardinality({1, 2}) = 2
  <2>1. Cardinality({1}) = 1 /\ Cardinality({2}) = 1 /\ Cardinality({}) = 0 /\ IsFiniteSet({1})
    BY FS_Singleton, FS_EmptySet
  <2>2. {1, 2} = {1} \cup {2} /\ 2 \notin {1}
    OBVIOUS
  <2>3. Cardinality({1} \cup {2}) = 2
    BY <2>1, <2>2, FS_AddElement
  <2> QED BY <2>1, <2>2, <2>3
<1>3. S = IF b \in x THEN (IF b \in y THEN {1, 2} ELSE {1}) ELSE (IF b \in y THEN {2} ELSE {})
  BY <1>1
<1>4. Ones(<<x, y>>, b) = Cardinality(S)
  BY DEF Ones
<1> HIDE DEF S
<1> QED BY <1>2, <1>3, <1>4 DEF Bit

LEMMA OnesOfFive ==
    ASSUME NEW p, NEW q, NEW r, NEW s, NEW x, NEW b
    PROVE  Ones(<<p, q, r, s, x>>, b) = Ones(<<p, q, r, s>>, b) + Bit(x, b)
<1> DEFINE Four == {i \in DOMAIN <<p, q, r, s>> : b \in <<p, q, r, s>>[i]}
           Five == {i \in DOMAIN <<p, q, r, s, x>> : b \in <<p, q, r, s, x>>[i]}
<1>1. Four \subseteq 1 .. 4 /\ 5 \notin Four
  OBVIOUS
<1>2. Five = IF b \in x THEN Four \cup {5} ELSE Four
  OBVIOUS
<1>3. Ones(<<p, q, r, s, x>>, b) = Cardinality(Five) /\ Ones(<<p, q, r, s>>, b) = Cardinality(Four)
  BY DEF Ones
<1> HIDE DEF Four, Five
<1>4. IsFiniteSet(Four)
  <2>1. 4 \in Nat /\ Four \in SUBSET (1 .. 4)
    BY <1>1
  <2> QED BY <2>1, PositionsFinite
<1>5. Cardinality(Four \cup {5}) = Cardinality(Four) + 1 /\ Cardinality(Four) \in Nat
  BY <1>1, <1>4, FS_AddElement, FS_CardinalityType
<1> QED BY <1>2, <1>3, <1>5 DEF Bit

\* A sum of five words is the sum of the last and of the sum of the first four,
\* modulo 2^32: column by column the carries of the two additions add up to those
\* of the one.
LEMMA SumOfFive ==
    ASSUME NEW p, NEW q, NEW r, NEW s, NEW x
    PROVE  Sum(<<p, q, r, s, x>>) = Sum(<<Sum(<<p, q, r, s>>), x>>)
<1> DEFINE y == Sum(<<p, q, r, s>>)
           ones5 == [b \in Bits |-> Ones(<<p, q, r, s, x>>, b)]
           ones4 == [b \in Bits |-> Ones(<<p, q, r, s>>, b)]
           ones2 == [b \in Bits |-> Ones(<<y, x>>, b)]
           c5 == CarryProfile(ones5)
           c4 == CarryProfile(ones4)
           c2 == CarryProfile(ones2)
<1>1. ones5 \in [Bits -> Nat] /\ ones4 \in [Bits -> Nat] /\ ones2 \in [Bits -> Nat]
  <2>1. /\ DOMAIN <<p, q, r, s, x>> = 1 .. 5 /\ DOMAIN <<p, q, r, s>> = 1 .. 4 /\ DOMAIN <<y, x>> = 1 .. 2
        /\ 5 \in Nat /\ 4 \in Nat /\ 2 \in Nat
    OBVIOUS
  <2> HIDE DEF y
  <2>2. ones5 \in [Bits -> Nat]
    BY <2>1, OnesOfSequence
  <2>3. ones4 \in [Bits -> Nat]
    BY <2>1, OnesOfSequence
  <2>4. ones2 \in [Bits -> Nat]
    BY <2>1, OnesOfSequence
  <2> QED BY <2>2, <2>3, <2>4
<1>2. /\ Sum(<<p, q, r, s, x>>) = {b \in Bits : (CarryIn(c5, b) + ones5[b]) % 2 = 1}
      /\ y = {b \in Bits : (CarryIn(c4, b) + ones4[b]) % 2 = 1}
      /\ Sum(<<y, x>>) = {b \in Bits : (CarryIn(c2, b) + ones2[b]) % 2 = 1}
  <2>1. y = {b \in Bits : (CarryIn(c4, b) + ones4[b]) % 2 = 1}
    BY Zenon DEF Sum, Addition
  <2> HIDE DEF y
  <2> QED BY <2>1, Zenon DEF Sum, Addition
<1>3. \A b \in Bits : /\ ones5[b] = ones4[b] + Bit(x, b)
                      /\ ones2[b] = Bit(y, b) + Bit(x, b)
  <2> HIDE DEF y
  <2> QED BY OnesOfTwo, OnesOfFive
<1>4. \A b \in Bits : Bit(y, b) = (CarryIn(c4, b) + ones4[b]) % 2
  <2> SUFFICES ASSUME NEW b \in Bits PROVE Bit(y, b) = (CarryIn(c4, b) + ones4[b]) % 2
    OBVIOUS
  <2>1. CarryIn(c4, b) \in Nat /\ ones4[b] \in Nat
    BY <1>1, CarryProfileIs
  <2>2. b \in y <=> (CarryIn(c4, b) + ones4[b]) % 2 = 1
    BY <1>2
  <2> DEFINE n == CarryIn(c4, b) + ones4[b]
  <2>3. n \in Nat /\ (b \in y <=> n % 2 = 1)
    BY <2>1, <2>2
  <2> HIDE DEF n, y
  <2>4. n % 2 \in {0, 1}
    BY <2>3
  <2>5. Bit(y, b) = n % 2
    BY <2>3, <2>4 DEF Bit
  <2> QED BY <2>5 DEF n
<1> HIDE DEF y, ones5, ones4, ones2
<1>5. \A b \in Bits : /\ CarryIn(c5, b) \in Nat /\ CarryIn(c4, b) \in Nat /\ CarryIn(c2, b) \in Nat
                      /\ ones5[b] \in Nat /\ ones4[b] \in Nat /\ ones2[b] \in Nat
                      /\ c5[b + 1] = (CarryIn(c5, b) + ones5[b]) \div 2
                      /\ c4[b + 1] = (CarryIn(c4, b) + ones4[b]) \div 2
                      /\ c2[b + 1] = (CarryIn(c2, b) + ones2[b]) \div 2
  BY <1>1, CarryProfileIs
<1> HIDE DEF c5, c4, c2
<1>6. ASSUME NEW b \in Bits, CarryIn(c5, b) = CarryIn(c4, b) + CarryIn(c2, b)
      PROVE  /\ c5[b + 1] = c4[b + 1] + c2[b + 1]
             /\ (CarryIn(c5, b) + ones5[b]) % 2 = (CarryIn(c2, b) + ones2[b]) % 2
  <2> DEFINE m == CarryIn(c4, b) + ones4[b]
             n == CarryIn(c2, b) + Bit(x, b)
  <2>1. m \in Nat /\ n \in Nat
    BY <1>5 DEF Bit
  <2>2. CarryIn(c5, b) + ones5[b] = m + n
    <3> DEFINE i4 == CarryIn(c4, b)
               i2 == CarryIn(c2, b)
               o4 == ones4[b]
               bx == Bit(x, b)
    <3>1. i4 \in Nat /\ i2 \in Nat /\ o4 \in Nat /\ bx \in Nat
      BY <1>5 DEF Bit
    <3>2. CarryIn(c5, b) = i4 + i2 /\ ones5[b] = o4 + bx
      BY <1>3, <1>6
    <3> HIDE DEF i4, i2, o4, bx
    <3>3. (i4 + i2) + (o4 + bx) = (i4 + o4) + (i2 + bx)
      BY <3>1
    <3> QED BY <3>2, <3>3 DEF i4, i2, o4, bx
  <2>3. CarryIn(c2, b) + ones2[b] = (m % 2) + n
    BY <1>3, <1>4, <1>5, <2>1 DEF Bit
  <2>4. /\ c5[b + 1] = (m + n) \div 2 /\ c4[b + 1] = m \div 2
        /\ c2[b + 1] = ((m % 2) + n) \div 2
    BY <1>5, <2>2, <2>3
  <2> HIDE DEF m, n
  <2>5. (m + n) \div 2 = (m \div 2) + (((m % 2) + n) \div 2) /\ (m + n) % 2 = ((m % 2) + n) % 2
    BY <2>1
  <2> QED BY <2>2, <2>3, <2>4, <2>5
<1>7. \A b \in Nat : b <= 31 => CarryIn(c5, b) = CarryIn(c4, b) + CarryIn(c2, b)
  <2> DEFINE Bad == {b \in Nat : b <= 31 /\ CarryIn(c5, b) # CarryIn(c4, b) + CarryIn(c2, b)}
  <2> SUFFICES ASSUME Bad # {} PROVE FALSE
    OBVIOUS
  <2>0. Bad \subseteq Nat
    OBVIOUS
  <2>1. PICK b \in Bad : \A d \in Bad : ~(<<d, b>> \in OpToRel(<, Nat))
    BY <2>0, NatLessThanWellFounded, WFMin
  <2>2. b \in Nat /\ b <= 31 /\ \A d \in Nat : d < b => d \notin Bad
    BY <2>1 DEF OpToRel
  <2>3. CarryIn(c5, b) # CarryIn(c4, b) + CarryIn(c2, b)
    BY <2>1
  <2>4. CASE b = 0
    BY <2>3, <2>4 DEF CarryIn
  <2>5. CASE b # 0
    <3>1. b - 1 \in Nat /\ b - 1 < b /\ b - 1 <= 31 /\ b - 1 \in Bits /\ (b - 1) + 1 = b
      BY <2>2, <2>5 DEF Bits
    <3>2. CarryIn(c5, b - 1) = CarryIn(c4, b - 1) + CarryIn(c2, b - 1)
      BY <3>1, <2>2
    <3>3. c5[b] = c4[b] + c2[b]
      BY <3>1, <3>2, <1>6
    <3> QED BY <3>3, <2>3, <2>5 DEF CarryIn
  <2> QED BY <2>4, <2>5
<1>8. \A b \in Bits : (CarryIn(c5, b) + ones5[b]) % 2 = (CarryIn(c2, b) + ones2[b]) % 2
  BY <1>6, <1>7 DEF Bits
<1>9. Sum(<<p, q, r, s, x>>) = Sum(<<y, x>>)
  BY <1>2, <1>8
<1> QED BY <1>9 DEF y

-----------------------------------------------------------------------------
(***************************************************************************)
(* Words without bits in a sum.                                            *)
(***************************************************************************)
\* A sum depends on its operands through the number of bits in each column only.
LEMMA SumOfOnes ==
    ASSUME NEW x, NEW y, \A b \in Bits : Ones(x, b) = Ones(y, b)
    PROVE  Sum(x) = Sum(y)
<1>1. [b \in Bits |-> Ones(x, b)] = [b \in Bits |-> Ones(y, b)]
  OBVIOUS
<1> QED BY <1>1, Zenon DEF Sum, Addition

\* The word without bits adds nothing, whether it comes third and fourth or third.
LEMMA SumOfZeros ==
    ASSUME NEW x, NEW y, NEW z
    PROVE  /\ Sum(<<x, y, {}, {}>>) = Sum(<<x, y>>)
           /\ Sum(<<x, y, {}, z>>) = Sum(<<x, y, z>>)
<1>1. ASSUME NEW b \in Bits PROVE Ones(<<x, y, {}, {}>>, b) = Ones(<<x, y>>, b)
  <2>1. {i \in DOMAIN <<x, y, {}, {}>> : b \in <<x, y, {}, {}>>[i]} = {i \in DOMAIN <<x, y>> : b \in <<x, y>>[i]}
    OBVIOUS
  <2> QED BY <2>1, Zenon DEF Ones
<1>2. ASSUME NEW b \in Bits PROVE Ones(<<x, y, {}, z>>, b) = Ones(<<x, y, z>>, b)
  <2> DEFINE S == {i \in DOMAIN <<x, y, {}, z>> : b \in <<x, y, {}, z>>[i]}
             T == {i \in DOMAIN <<x, y, z>> : b \in <<x, y, z>>[i]}
             U == {i \in {1, 2} : (i = 1 /\ b \in x) \/ (i = 2 /\ b \in y)}
  <2>1. S = IF b \in z THEN U \cup {4} ELSE U
    OBVIOUS
  <2>2. T = IF b \in z THEN U \cup {3} ELSE U
    OBVIOUS
  <2>3. U \in SUBSET (1 .. 2) /\ 3 \notin U /\ 4 \notin U /\ 2 \in Nat
    OBVIOUS
  <2> HIDE DEF S, T, U
  <2>4. IsFiniteSet(U)
    BY <2>3, PositionsFinite
  <2>5. Cardinality(U \cup {4}) = Cardinality(U) + 1 /\ Cardinality(U \cup {3}) = Cardinality(U) + 1
    BY <2>3, <2>4, FS_AddElement
  <2>6. Cardinality(S) = Cardinality(T)
    BY <2>1, <2>2, <2>5
  <2> QED BY <2>6 DEF Ones, S, T
<1>3. Sum(<<x, y, {}, {}>>) = Sum(<<x, y>>)
  BY <1>1, SumOfOnes
<1>4. Sum(<<x, y, {}, z>>) = Sum(<<x, y, z>>)
  BY <1>2, SumOfOnes
<1> QED BY <1>3, <1>4

\* The sigmas of the schedule make nothing of a word without bits.
LEMMA SigmaOfZero ==
    SmallSigma1({}) = {}
<1>1. Rotr(17, {}) = {} /\ Rotr(19, {}) = {} /\ Shr(10, {}) = {}
  BY DEF Rotr, Shr
<1> QED BY <1>1 DEF SmallSigma1, Xor

-----------------------------------------------------------------------------
(***************************************************************************)
(* The last block of the header.                                           *)
(***************************************************************************)
\* A literal is a word.
LEMMA HexIsWord ==
    ASSUME NEW high, NEW low PROVE Hex(high, low) \in Word
<1>1. 0 .. 15 \subseteq 0 .. 31 /\ 16 .. 31 \subseteq 0 .. 31
  OBVIOUS
<1> QED BY <1>1, Zenon DEF Hex, Word, Bits

\* The length of two sequences of words one after the other.
LEMMA WordsConcat ==
    ASSUME NEW x \in Seq(Word), NEW y \in Seq(Word)
    PROVE  x \o y \in Seq(Word) /\ Len(x \o y) = Len(x) + Len(y)
BY ConcatProperties

\* The header but for its nonce is 19 words long.
LEMMA PrefixLength ==
    ASSUME NEW c \in {"genesis", "0", "32"}
    PROVE  Prefix(c) \in Seq(Word) /\ Len(Prefix(c)) = 19
<1>1. MerkleField(c) \in Seq(Word) /\ Len(MerkleField(c)) = 8
  <2>1. CASE c = "genesis"
    BY <2>1, HexIsWord DEF MerkleField
  <2>2. CASE c = "0"
    BY <2>2, HexIsWord DEF MerkleField
  <2>3. CASE c = "32"
    BY <2>3, HexIsWord DEF MerkleField
  <2> QED BY <2>1, <2>2, <2>3
<1> DEFINE s1 == << {24}, {}, {}, {}, {}, {}, {}, {}, {} >>
           s2 == MerkleField(c)
           s3 == << Hex(\h29ab, \h5f49), Hex(\hffff, \h001d) >>
<1>2. {24} \in Word /\ {} \in Word
  BY DEF Word, Bits
<1>3. s1 \in Seq(Word) /\ Len(s1) = 9
  BY <1>2
<1>4. s3 \in Seq(Word) /\ Len(s3) = 2
  BY HexIsWord
<1>5. Prefix(c) = (s1 \o s2) \o s3
  BY DEF Prefix
<1> HIDE DEF s1, s2, s3
<1>6. s2 \in Seq(Word) /\ Len(s2) = 8
  BY <1>1 DEF s2
<1> DEFINE s12 == s1 \o s2
           s123 == s12 \o s3
<1>7. s12 \in Seq(Word) /\ Len(s12) = Len(s1) + Len(s2)
  BY <1>3, <1>6, WordsConcat, Zenon
<1>8. s123 \in Seq(Word) /\ Len(s123) = Len(s12) + Len(s3)
  BY <1>4, <1>7, WordsConcat, Zenon
<1> HIDE DEF s12, s123
<1>9. Len(s123) = 19
  BY <1>3, <1>4, <1>6, <1>7, <1>8
<1> QED BY <1>5, <1>8, <1>9 DEF s12, s123

\* The words of a last block that are the same for every nonce: the rest of the
\* header, zeros and the length.
LastWords(c, w) ==
    /\ DOMAIN w = 1 .. 16
    /\ w[1] = Prefix(c)[17] /\ w[2] = Prefix(c)[18] /\ w[3] = Prefix(c)[19]
    /\ w[10] = {} /\ w[11] = {} /\ w[15] = {} /\ w[16] = Hex(0, 640)

\* The block that compression 1 starts with has those words.
LEMMA LastBlockWords ==
    ASSUME NEW c \in {"genesis", "0", "32"}, NEW nonce
    PROVE  LastWords(c, Padded(SubSeq(Prefix(c), 17, 19) \o << W3(nonce) >>, 640))
<1> DEFINE head == SubSeq(Prefix(c), 17, 19)
           tail == head \o << W3(nonce) >>
           w == Padded(tail, 640)
<1>1. Prefix(c) \in Seq(Word) /\ Len(Prefix(c)) = 19
  BY PrefixLength
<1>2. /\ head \in Seq(Word) /\ Len(head) = 3
      /\ head[1] = Prefix(c)[17] /\ head[2] = Prefix(c)[18] /\ head[3] = Prefix(c)[19]
  BY <1>1
<1> HIDE DEF head
<1>3. /\ Len(tail) = 4
      /\ tail[1] = head[1] /\ tail[2] = head[2] /\ tail[3] = head[3]
  <2>1. W3(nonce) \in {W3(nonce)} \cup Word /\ head \in Seq({W3(nonce)} \cup Word)
    BY <1>2
  <2>2. PICK S : head \in Seq(S) /\ <<W3(nonce)>> \in Seq(S)
    BY <2>1
  <2>3. /\ Len(<<W3(nonce)>>) = 1
        /\ Len(tail) = Len(head) + Len(<<W3(nonce)>>)
        /\ \A i \in 1 .. Len(head) + Len(<<W3(nonce)>>) :
               tail[i] = IF i <= Len(head) THEN head[i] ELSE <<W3(nonce)>>[i - Len(head)]
    BY <2>2, ConcatProperties
  <2> HIDE DEF tail
  <2> QED BY <1>2, <2>3
<1> QED BY <1>2, <1>3 DEF Padded, LastWords

-----------------------------------------------------------------------------
(***************************************************************************)
(* The prescan.                                                            *)
(***************************************************************************)
\* The equation that the recursion of FixedRounds solves.
FixedEquation(m, w, f) ==
    f = [n \in 0 .. 3 |->
            IF n = 0 THEN <<>>
            ELSE Append(f[n - 1], Round(n - 1, IF n = 1 THEN m ELSE f[n - 1][n - 1].after, w[n]))]

\* Short tuples grow by one.
LEMMA TupleAppend ==
    ASSUME NEW a, NEW b, NEW c
    PROVE  Append(<<>>, a) = <<a>> /\ Append(<<a>>, b) = <<a, b>> /\ Append(<<a, b>>, c) = <<a, b, c>>
<1> DEFINE S == {a, b, c}
<1>1. /\ <<>> \in Seq(S) /\ <<a>> \in Seq(S) /\ <<a, b>> \in Seq(S) /\ <<a, b, c>> \in Seq(S)
      /\ Len(<<>>) = 0 /\ Len(<<a>>) = 1 /\ Len(<<a, b>>) = 2 /\ Len(<<a, b, c>>) = 3
  OBVIOUS
<1>2. a \in S /\ b \in S /\ c \in S
  OBVIOUS
<1> HIDE DEF S
<1>3. Append(<<>>, a) = <<a>>
  OBVIOUS
<1>4. Append(<<a>>, b) = <<a, b>>
  <2> DEFINE p == <<a>>
             q == Append(p, b)
  <2>1. q \in Seq(S) /\ Len(q) = Len(p) + 1 /\ q[Len(p) + 1] = b /\ \A i \in 1 .. Len(p) : q[i] = p[i]
    BY <1>1, <1>2, AppendProperties
  <2>2. Len(p) = 1 /\ p[1] = a
    OBVIOUS
  <2> HIDE DEF p, q
  <2>3. Len(q) = 2 /\ q[1] = a /\ q[2] = b
    BY <2>1, <2>2
  <2>4. q = <<a, b>>
    <3> DEFINE e == <<a, b>>
    <3>1. e \in Seq(S) /\ Len(e) = Len(q) /\ \A i \in 1 .. Len(q) : q[i] = e[i]
      BY <1>1, <2>3
    <3> HIDE DEF e
    <3>2. q = e
      BY <2>1, <3>1, SeqEqual
    <3> QED BY <3>2 DEF e
  <2> QED BY <2>4 DEF p, q
<1>5. Append(<<a, b>>, c) = <<a, b, c>>
  <2> DEFINE p == <<a, b>>
             q == Append(p, c)
  <2>1. q \in Seq(S) /\ Len(q) = Len(p) + 1 /\ q[Len(p) + 1] = c /\ \A i \in 1 .. Len(p) : q[i] = p[i]
    BY <1>1, <1>2, AppendProperties
  <2>2. Len(p) = 2 /\ p[1] = a /\ p[2] = b
    OBVIOUS
  <2> HIDE DEF p, q
  <2>3. Len(q) = 3 /\ q[1] = a /\ q[2] = b /\ q[3] = c
    BY <2>1, <2>2
  <2>4. q = <<a, b, c>>
    <3> DEFINE e == <<a, b, c>>
    <3>1. e \in Seq(S) /\ Len(e) = Len(q) /\ \A i \in 1 .. Len(q) : q[i] = e[i]
      BY <1>1, <2>3
    <3> HIDE DEF e
    <3>2. q = e
      BY <2>1, <3>1, SeqEqual
    <3> QED BY <3>2 DEF e
  <2> QED BY <2>4 DEF p, q
<1> QED BY <1>3, <1>4, <1>5

\* The first three rounds one after the other.
LEMMA FixedRoundsAre ==
    ASSUME NEW m, NEW w
    PROVE  LET r1 == Round(0, m, w[1])
               r2 == Round(1, r1.after, w[2])
               r3 == Round(2, r2.after, w[3])
           IN  FixedRounds(m, w) = <<r1, r2, r3>>
<1> DEFINE r1 == Round(0, m, w[1])
           r2 == Round(1, r1.after, w[2])
           r3 == Round(2, r2.after, w[3])
           f == [n \in 0 .. 3 |-> IF n = 0 THEN <<>> ELSE IF n = 1 THEN <<r1>>
                                  ELSE IF n = 2 THEN <<r1, r2>> ELSE <<r1, r2, r3>>]
           g == [n \in 0 .. 3 |->
                    IF n = 0 THEN <<>>
                    ELSE Append(f[n - 1], Round(n - 1, IF n = 1 THEN m ELSE f[n - 1][n - 1].after, w[n]))]
<1>1. f[0] = <<>> /\ f[1] = <<r1>> /\ f[2] = <<r1, r2>> /\ f[3] = <<r1, r2, r3>>
  <2> HIDE DEF r1, r2, r3
  <2> QED OBVIOUS
<1>2. g[0] = f[0] /\ g[1] = f[1] /\ g[2] = f[2] /\ g[3] = f[3]
  <2> HIDE DEF f
  <2>1. g[0] = <<>>
    OBVIOUS
  <2>2. g[1] = Append(f[0], r1)
    OBVIOUS
  <2>3. g[2] = Append(f[1], Round(1, f[1][1].after, w[2]))
    OBVIOUS
  <2>4. g[3] = Append(f[2], Round(2, f[2][2].after, w[3]))
    OBVIOUS
  <2> HIDE DEF g
  <2>5. f[1][1] = r1 /\ f[2][2] = r2
    <3> HIDE DEF r1, r2, r3
    <3> QED BY <1>1
  <2>6. g[2] = Append(f[1], r2) /\ g[3] = Append(f[2], r3)
    BY <2>3, <2>4, <2>5
  <2> HIDE DEF r1, r2, r3
  <2> QED BY <1>1, <2>1, <2>2, <2>6, TupleAppend, Zenon
<1>3. f = g
  <2>1. DOMAIN f = 0 .. 3 /\ DOMAIN g = 0 .. 3 /\ f = [n \in 0 .. 3 |-> f[n]] /\ g = [n \in 0 .. 3 |-> g[n]]
    OBVIOUS
  <2> HIDE DEF f, g
  <2>2. \A n \in 0 .. 3 : f[n] = g[n]
    BY <1>2
  <2> QED BY <2>1, <2>2
<1>4. FixedEquation(m, w, f)
  BY <1>3 DEF FixedEquation
<1> HIDE DEF f
<1> DEFINE u == CHOOSE e : FixedEquation(m, w, e)
<1>5. FixedEquation(m, w, u)
  BY <1>4, Zenon
<1>6. FixedRounds(m, w) = u[3]
  BY Zenon DEF FixedRounds, FixedEquation
<1> HIDE DEF u
<1>7. /\ u[0] = <<>> /\ u[1] = Append(u[0], r1)
      /\ u[2] = Append(u[1], Round(1, u[1][1].after, w[2]))
      /\ u[3] = Append(u[2], Round(2, u[2][2].after, w[3]))
  BY <1>5 DEF FixedEquation
<1>8. u[1] = <<r1>>
  <2> HIDE DEF r1
  <2> QED BY <1>7, TupleAppend
<1>9. u[2] = <<r1, r2>>
  <2>1. u[1][1] = r1
    <3> HIDE DEF r1
    <3> QED BY <1>8
  <2>2. u[2] = Append(u[1], r2)
    BY <1>7, <2>1
  <2> HIDE DEF r1, r2
  <2> QED BY <1>8, <2>2, TupleAppend, Zenon
<1>10. u[3] = <<r1, r2, r3>>
  <2>1. u[2][2] = r2
    <3> HIDE DEF r1, r2
    <3> QED BY <1>9
  <2>2. u[3] = Append(u[2], r3)
    BY <1>7, <2>1
  <2> HIDE DEF r1, r2, r3
  <2> QED BY <1>9, <2>2, TupleAppend, Zenon
<1> QED BY <1>6, <1>10

\* A hash is the record of its fields.
IsHash(x) == x = [h |-> x.h, v |-> x.v, w |-> x.w, first |-> x.first, final |-> x.final]

\* The schedule of compression 1 when n rounds are done: the words of the last
\* block, all but W3 the same for every nonce, and the extended ones so far.
IsTail(w, n) ==
    /\ \E S : w \in Seq(S)
    /\ Len(w) = IF n <= 16 THEN 16 ELSE n
    /\ w[1] = Prefix(context)[17] /\ w[2] = Prefix(context)[18] /\ w[3] = Prefix(context)[19]
    /\ w[10] = {} /\ w[11] = {} /\ w[15] = {} /\ w[16] = Hex(0, 640)

\* Compression 0 is the same for both hashes; compression 1 is until round 3.
PrescanInv ==
    /\ context \in {"genesis", "0", "32"} /\ pass \in 0 .. 3 /\ t \in 0 .. 64
    /\ IsHash(ref) /\ IsHash(cand)
    /\ pass = 0 => ref.h = cand.h /\ ref.v = cand.v /\ ref.w = cand.w
    /\ pass = 1 => /\ ref.h = cand.h
                   /\ IsTail(ref.w, t) /\ IsTail(cand.w, t)
                   /\ t = 0 => cand.v = cand.h
                   /\ t <= 3 => ref.v = cand.v
                   /\ t \in 1 .. 3 => cand.v = rounds[2].after
    /\ PrescanIsExact

\* The schedule of a round: it grows by one word from round 16 on.
LEMMA ExtendTail ==
    ASSUME NEW w, IsTail(w, t), t \in 0 .. 63
    PROVE  /\ IsTail(Extend(w).w, t + 1)
           /\ t < 16 => Extend(w).w = w
           /\ t = 16 => Extend(w).w[17] = FixedW16(w)
           /\ t = 17 => Extend(w).w[18] = FixedW17(w)
<1>1. CASE t < 16
  <2>1. Extend(w).w = w
    BY <1>1 DEF Extend
  <2>2. IsTail(w, t + 1)
    <3>1. (IF t <= 16 THEN 16 ELSE t) = (IF t + 1 <= 16 THEN 16 ELSE t + 1)
      BY <1>1
    <3> QED BY <3>1 DEF IsTail
  <2> QED BY <1>1, <2>1, <2>2
<1>2. CASE t >= 16
  <2> DEFINE e == Extension(w, t).result
             x == Append(w, e)
  <2>1. Extend(w).w = x
    BY <1>2 DEF Extend
  <2>2. PICK S : w \in Seq(S)
    BY DEF IsTail
  <2>3. Len(w) = t
    BY <1>2 DEF IsTail
  <2> HIDE DEF e
  <2>4. w \in Seq(S \cup {e}) /\ e \in S \cup {e}
    BY <2>2
  <2>5. /\ x \in Seq(S \cup {e}) /\ Len(x) = Len(w) + 1 /\ x[Len(w) + 1] = e
        /\ \A i \in 1 .. Len(w) : x[i] = w[i]
    BY <2>4, AppendProperties
  <2> HIDE DEF x
  <2>6. Len(x) = t + 1 /\ x[t + 1] = e /\ \A i \in 1 .. 16 : x[i] = w[i]
    BY <1>2, <2>3, <2>5
  <2>7. IsTail(x, t + 1)
    <3>1. Len(x) = IF t + 1 <= 16 THEN 16 ELSE t + 1
      <4>1. ~(t + 1 <= 16)
        BY <1>2
      <4> QED BY <4>1, <2>6
    <3>2. /\ x[1] = w[1] /\ x[2] = w[2] /\ x[3] = w[3] /\ x[10] = w[10] /\ x[11] = w[11]
          /\ x[15] = w[15] /\ x[16] = w[16]
      BY <2>6
    <3> QED BY <3>1, <3>2, <2>5 DEF IsTail
  <2>8. ASSUME t = 16 PROVE x[17] = FixedW16(w)
    <3>1. x[17] = e
      BY <2>6, <2>8
    <3>2. e = Sum(<< w[1], SmallSigma0(w[2]), w[10], SmallSigma1(w[15]) >>)
      BY <2>8 DEF e, Extension, Sum
    <3>3. w[10] = {} /\ w[15] = {}
      BY DEF IsTail
    <3>4. e = Sum(<< w[1], SmallSigma0(w[2]), {}, {} >>)
      BY <3>2, <3>3, SigmaOfZero
    <3> QED BY <3>1, <3>4, SumOfZeros DEF FixedW16
  <2>9. ASSUME t = 17 PROVE x[18] = FixedW17(w)
    <3>1. x[18] = e
      BY <2>6, <2>9
    <3>2. e = Sum(<< w[2], SmallSigma0(w[3]), w[11], SmallSigma1(w[16]) >>)
      BY <2>9 DEF e, Extension, Sum
    <3>3. w[11] = {} /\ w[16] = Hex(0, 640)
      BY DEF IsTail
    <3>4. e = Sum(<< w[2], SmallSigma0(w[3]), {}, SmallSigma1(Hex(0, 640)) >>)
      BY <3>2, <3>3
    <3>5. e = Sum(<< w[2], SmallSigma0(w[3]), SmallSigma1(Hex(0, 640)) >>)
      <4> DEFINE p == w[2]
                 q == SmallSigma0(w[3])
                 z == SmallSigma1(Hex(0, 640))
      <4>1. e = Sum(<< p, q, {}, z >>)
        BY <3>4
      <4> HIDE DEF p, q, z
      <4>2. e = Sum(<< p, q, z >>)
        BY <4>1, SumOfZeros
      <4> QED BY <4>2 DEF p, q, z
    <3> QED BY <3>1, <3>5 DEF FixedW17
  <2> QED BY <1>2, <2>1, <2>7, <2>8, <2>9
<1> QED BY <1>1, <1>2

\* What a round adds up, as sums.
LEMMA RoundSums ==
    ASSUME NEW k, NEW v, NEW w
    PROVE  /\ Round(k, v, w).temp1.result =
                  Sum(<< v[8], BigSigma1(v[5]), Choice(v[5], v[6], v[7]), RoundConstants[k + 1], w >>)
           /\ Round(k, v, w).temp2.result = FixedT2(v)
BY DEF Round, FixedT2, Sum

\* T1 of a round is the fixed part and the schedule word.
LEMMA FixedT1AndWord ==
    ASSUME NEW k, NEW v, NEW w
    PROVE  Round(k, v, w).temp1.result = Sum(<< FixedT1(k, v), w >>)
<1> DEFINE a == v[8]
           b == BigSigma1(v[5])
           c == Choice(v[5], v[6], v[7])
           d == RoundConstants[k + 1]
<1>1. Round(k, v, w).temp1.result = Sum(<< a, b, c, d, w >>)
  BY RoundSums
<1>2. FixedT1(k, v) = Sum(<< a, b, c, d >>)
  BY DEF FixedT1
<1> HIDE DEF a, b, c, d
<1>3. Sum(<< a, b, c, d, w >>) = Sum(<< Sum(<< a, b, c, d >>), w >>)
  BY SumOfFive
<1> QED BY <1>1, <1>2, <1>3

\* A round keeps the invariant.
LEMMA CompressPrescan ==
    ASSUME PrescanInv, Compress PROVE PrescanInv'
<1> DEFINE wr == Extend(ref.w).w
           wc == Extend(cand.w).w
           r == Round(t, ref.v, wr[t + 1])
           c == Round(t, cand.v, wc[t + 1])
<1>1. /\ pass < 3 /\ t < 64 /\ t' = t + 1 /\ pass' = pass /\ context' = context
      /\ ref' = [ref EXCEPT !.v = r.after, !.w = wr]
      /\ cand' = [cand EXCEPT !.v = c.after, !.w = wc]
      /\ rounds' = << r, c >>
  BY DEF Compress
<1>2. /\ context \in {"genesis", "0", "32"} /\ pass \in 0 .. 3 /\ t \in 0 .. 63
      /\ IsHash(ref) /\ IsHash(cand)
  BY <1>1 DEF PrescanInv
<1>3. /\ ref' = [h |-> ref.h, v |-> r.after, w |-> wr, first |-> ref.first, final |-> ref.final]
      /\ cand' = [h |-> cand.h, v |-> c.after, w |-> wc, first |-> cand.first, final |-> cand.final]
  <2> HIDE DEF r, c, wr, wc
  <2> QED BY <1>1, <1>2 DEF IsHash
<1>4. /\ ref'.h = ref.h /\ ref'.v = r.after /\ ref'.w = wr
      /\ cand'.h = cand.h /\ cand'.v = c.after /\ cand'.w = wc
      /\ rounds'[1] = r /\ rounds'[2] = c
      /\ IsHash(ref') /\ IsHash(cand')
  <2> HIDE DEF r, c, wr, wc
  <2> QED BY <1>1, <1>3 DEF IsHash
<1>5. /\ context' \in {"genesis", "0", "32"} /\ pass' \in 0 .. 3 /\ t' \in 0 .. 64
  BY <1>1, <1>2
<1>6. ASSUME pass = 0 PROVE r = c /\ wr = wc /\ ref.h = cand.h
  BY <1>6 DEF PrescanInv
<1>7. CASE pass # 1
  <2>1. pass' # 1
    BY <1>1, <1>7
  <2>2. PrescanIsExact'
    BY <2>1 DEF PrescanIsExact
  <2>3. pass' = 0 => ref'.h = cand'.h /\ ref'.v = cand'.v /\ ref'.w = cand'.w
    <3> HIDE DEF r, c, wr, wc
    <3> QED BY <1>1, <1>4, <1>6
  <2> HIDE DEF r, c, wr, wc
  <2> QED BY <1>4, <1>5, <2>1, <2>2, <2>3 DEF PrescanInv, IsHash
<1>8. CASE pass = 1
  <2>1. /\ ref.h = cand.h /\ IsTail(ref.w, t) /\ IsTail(cand.w, t)
        /\ t = 0 => cand.v = cand.h
        /\ t <= 3 => ref.v = cand.v
        /\ t \in 1 .. 3 => cand.v = rounds[2].after
        /\ t \in 1 .. 3 => rounds[2] = FixedRounds(cand.h, ref.w)[t]
    BY <1>8 DEF PrescanInv, PrescanIsExact
  <2>2. /\ IsTail(wr, t + 1) /\ IsTail(wc, t + 1)
        /\ t < 16 => wr = ref.w /\ wc = cand.w
        /\ t = 16 => wc[17] = FixedW16(cand.w)
        /\ t = 17 => wc[18] = FixedW17(cand.w)
    BY <1>2, <2>1, ExtendTail
  <2>3. /\ IsTail(ref.w, t)' /\ IsTail(cand.w, t)'
    <3> HIDE DEF r, c, wr, wc
    <3> QED BY <1>1, <1>4, <2>2 DEF IsTail
  <2>4. /\ wr[1] = wc[1] /\ wr[2] = wc[2] /\ wr[3] = wc[3]
        /\ ref.w[1] = cand.w[1] /\ ref.w[2] = cand.w[2] /\ ref.w[3] = cand.w[3]
        /\ wr[1] = ref.w[1] /\ wr[2] = ref.w[2] /\ wr[3] = ref.w[3]
    <3> HIDE DEF wr, wc
    <3> QED BY <2>1, <2>2 DEF IsTail
  <2>5. t' <= 3 => r = c
    <3>1. ASSUME t' <= 3 PROVE wr[t + 1] = wc[t + 1] /\ ref.v = cand.v
      <4>1. t \in {0, 1, 2}
        BY <3>1, <1>1, <1>2
      <4> HIDE DEF wr, wc
      <4>2. wr[t + 1] = wc[t + 1]
        <5>1. t + 1 = 1 \/ t + 1 = 2 \/ t + 1 = 3
          BY <4>1
        <5> QED BY <5>1, <2>4
      <4>3. ref.v = cand.v
        BY <4>1, <2>1
      <4> QED BY <4>2, <4>3
    <3> QED BY <3>1
  <2>6. t' \in 1 .. 3 => c = FixedRounds(cand.h, wr)[t + 1]
    <3> DEFINE r1 == Round(0, cand.h, wr[1])
               r2 == Round(1, r1.after, wr[2])
               r3 == Round(2, r2.after, wr[3])
    <3>1. FixedRounds(cand.h, wr) = <<r1, r2, r3>>
      BY FixedRoundsAre, Zenon
    <3>2. t < 16 => wr = ref.w
      BY <2>2
    <3> HIDE DEF r1, r2, r3, wr, wc
    <3>3. FixedRounds(cand.h, wr)[1] = r1 /\ FixedRounds(cand.h, wr)[2] = r2 /\ FixedRounds(cand.h, wr)[3] = r3
      BY <3>1
    <3>4. CASE t = 0
      <4>1. c = Round(0, cand.h, wr[1])
        <5>1. t + 1 = 1 /\ t = 0 /\ cand.v = cand.h /\ wc[1] = wr[1]
          BY <3>4, <2>1, <2>4
        <5> QED BY <5>1
      <4> HIDE DEF c
      <4> QED BY <4>1, <3>3, <3>4 DEF r1
    <3>5. CASE t = 1
      <4>1. wr = ref.w /\ cand.v = FixedRounds(cand.h, ref.w)[1].after
        BY <3>2, <3>5, <2>1
      <4>2. c = Round(1, r1.after, wr[2])
        <5>1. t + 1 = 2 /\ t = 1 /\ cand.v = r1.after /\ wc[2] = wr[2]
          BY <4>1, <3>3, <3>5, <2>4
        <5> QED BY <5>1
      <4> HIDE DEF c
      <4> QED BY <4>2, <3>3, <3>5 DEF r2
    <3>6. CASE t = 2
      <4>1. wr = ref.w /\ cand.v = FixedRounds(cand.h, ref.w)[2].after
        BY <3>2, <3>6, <2>1
      <4>2. c = Round(2, r2.after, wr[3])
        <5>1. t + 1 = 3 /\ t = 2 /\ cand.v = r2.after /\ wc[3] = wr[3]
          BY <4>1, <3>3, <3>6, <2>4
        <5> QED BY <5>1
      <4> HIDE DEF c
      <4> QED BY <4>2, <3>3, <3>6 DEF r3
    <3>7. t' \in 1 .. 3 => t \in {0, 1, 2}
      BY <1>1, <1>2
    <3> QED BY <3>4, <3>5, <3>6, <3>7
  <2>7. t' = 4 => /\ c.temp1.result = Sum(<< FixedT1(3, r.before), wc[4] >>)
                  /\ c.temp2.result = FixedT2(r.before)
    <3> SUFFICES ASSUME t' = 4
                 PROVE  /\ c.temp1.result = Sum(<< FixedT1(3, r.before), wc[4] >>)
                        /\ c.temp2.result = FixedT2(r.before)
      OBVIOUS
    <3>1. t = 3 /\ ref.v = cand.v
      BY <1>1, <1>2, <2>1
    <3>2. r.before = cand.v
      BY <3>1, RoundFields
    <3>3. c = Round(3, cand.v, wc[4])
      BY <3>1
    <3> HIDE DEF r, c, wr, wc
    <3> DEFINE v == cand.v
               x == wc[4]
    <3>4. c = Round(3, v, x) /\ r.before = v
      BY <3>2, <3>3
    <3> HIDE DEF v, x
    <3>5. Round(3, v, x).temp1.result = Sum(<< FixedT1(3, v), x >>)
      BY FixedT1AndWord
    <3>6. Round(3, v, x).temp2.result = FixedT2(v)
      BY RoundSums
    <3> QED BY <3>4, <3>5, <3>6 DEF x
  <2>8. (t' = 17 => wc[17] = FixedW16(wr)) /\ (t' = 18 => wc[18] = FixedW17(wr))
    <3>1. /\ t' = 17 => wc[17] = FixedW16(cand.w)
          /\ t' = 18 => wc[18] = FixedW17(cand.w)
      BY <1>1, <1>2, <2>2
    <3>2. FixedW16(cand.w) = FixedW16(wr) /\ FixedW17(cand.w) = FixedW17(wr)
      BY <2>4 DEF FixedW16, FixedW17
    <3> QED BY <3>1, <3>2
  <2> HIDE DEF r, c, wr, wc
  <2>9. PrescanIsExact'
    BY <1>1, <1>4, <1>8, <2>6, <2>7, <2>8 DEF PrescanIsExact
  <2>10. /\ t' = 0 => cand'.v = cand'.h
         /\ t' <= 3 => ref'.v = cand'.v
         /\ t' \in 1 .. 3 => cand'.v = rounds'[2].after
    BY <1>1, <1>2, <1>4, <2>5
  <2>11. ref'.h = cand'.h /\ pass' = 1
    BY <1>1, <1>4, <1>8, <2>1
  <2> QED BY <1>4, <1>5, <2>3, <2>9, <2>10, <2>11 DEF PrescanInv, IsHash
<1> QED BY <1>7, <1>8

\* A function on 1 to n is a sequence of length n.
LEMMA FunctionIsSequence ==
    ASSUME NEW n \in Nat, NEW S, NEW w \in [1 .. n -> S]
    PROVE  w \in Seq(S) /\ Len(w) = n
OBVIOUS

\* Between compressions: the midstate makes the last blocks of the two headers
\* from the same chaining state; nothing is claimed of the later ones.
LEMMA FinishPrescan ==
    ASSUME PrescanInv, Midstate \/ FirstDigest \/ FinalDigest PROVE PrescanInv'
<1>1. CASE Midstate
  <2> DEFINE fr == FeedForward(ref.h, ref.v)
             fc == FeedForward(cand.h, cand.v)
             tr == SubSeq(Prefix(context), 17, 19) \o << W3(GenesisNonce) >>
             tc == SubSeq(Prefix(context), 17, 19) \o << W3(NonceOf(change)) >>
             wr == Padded(tr, 640)
             wc == Padded(tc, 640)
  <2>1. /\ pass = 0 /\ pass' = 1 /\ t' = 0 /\ context' = context
        /\ ref' = Block(Results(fr), wr) /\ cand' = Block(Results(fc), wc)
    BY <1>1 DEF Midstate, Finish, LastBlock
  <2>2. ref.h = cand.h /\ ref.v = cand.v /\ context \in {"genesis", "0", "32"}
    BY <2>1 DEF PrescanInv
  <2>3. Results(fr) = Results(fc)
    BY <2>2
  <2>4. /\ DOMAIN wr = 1 .. 16 /\ DOMAIN wc = 1 .. 16
        /\ wr[1] = Prefix(context)[17] /\ wr[2] = Prefix(context)[18] /\ wr[3] = Prefix(context)[19]
        /\ wr[10] = {} /\ wr[11] = {} /\ wr[15] = {} /\ wr[16] = Hex(0, 640)
        /\ wc[1] = Prefix(context)[17] /\ wc[2] = Prefix(context)[18] /\ wc[3] = Prefix(context)[19]
        /\ wc[10] = {} /\ wc[11] = {} /\ wc[15] = {} /\ wc[16] = Hex(0, 640)
    <3> DEFINE k == context
               nr == GenesisNonce
               nc == NonceOf(change)
    <3>1. k \in {"genesis", "0", "32"}
      BY <2>2
    <3> HIDE DEF k, nr, nc
    <3>2. LastWords(k, Padded(SubSeq(Prefix(k), 17, 19) \o << W3(nr) >>, 640))
      BY <3>1, LastBlockWords
    <3>3. LastWords(k, Padded(SubSeq(Prefix(k), 17, 19) \o << W3(nc) >>, 640))
      BY <3>1, LastBlockWords
    <3>4. LastWords(context, wr) /\ LastWords(context, wc)
      BY <3>2, <3>3 DEF k, nr, nc
    <3> HIDE DEF wr, wc
    <3> QED BY <3>4 DEF LastWords
  <2>5. (\E S : wr \in Seq(S)) /\ Len(wr) = 16 /\ (\E S : wc \in Seq(S)) /\ Len(wc) = 16
    <3>1. wr = [i \in 1 .. 16 |-> wr[i]] /\ wc = [i \in 1 .. 16 |-> wc[i]]
      BY DEF Padded
    <3> HIDE DEF wr, wc
    <3>2. wr \in [1 .. 16 -> {wr[i] : i \in 1 .. 16}] /\ wc \in [1 .. 16 -> {wc[i] : i \in 1 .. 16}]
      BY <3>1
    <3>3. PICK Sr, Sc : wr \in [1 .. 16 -> Sr] /\ wc \in [1 .. 16 -> Sc]
      BY <3>2
    <3>4. 16 \in Nat
      OBVIOUS
    <3>5. wr \in Seq(Sr) /\ Len(wr) = 16 /\ wc \in Seq(Sc) /\ Len(wc) = 16
      BY <3>3, <3>4, FunctionIsSequence
    <3> QED BY <3>5
  <2> HIDE DEF wr, wc, fr, fc, tr, tc
  <2>6. /\ ref'.h = cand'.h /\ ref'.v = cand'.v /\ cand'.v = cand'.h
        /\ ref'.w = wr /\ cand'.w = wc /\ IsHash(ref') /\ IsHash(cand')
    BY <2>1, <2>3 DEF Block, IsHash
  <2>7. IsTail(ref.w, t)' /\ IsTail(cand.w, t)'
    BY <2>1, <2>4, <2>5, <2>6 DEF IsTail
  <2>8. PrescanIsExact'
    BY <2>1 DEF PrescanIsExact
  <2> QED BY <2>1, <2>2, <2>6, <2>7, <2>8 DEF PrescanInv, IsHash
<1>2. CASE FirstDigest \/ FinalDigest
  <2>1. /\ pass \in {1, 2} /\ pass' = pass + 1 /\ t' = 0 /\ context' = context
        /\ IsHash(ref') /\ IsHash(cand')
    <3>1. CASE FirstDigest
      BY <3>1 DEF FirstDigest, Finish, SecondPass, Block, IsHash
    <3>2. CASE FinalDigest
      <4>1. IsHash(ref) /\ IsHash(cand)
        BY DEF PrescanInv
      <4> QED BY <3>2, <4>1 DEF FinalDigest, Finish, Digest, IsHash
    <3> QED BY <1>2, <3>1, <3>2
  <2>2. PrescanIsExact'
    BY <2>1 DEF PrescanIsExact
  <2>3. context \in {"genesis", "0", "32"} /\ pass' \in 0 .. 3 /\ pass' # 0 /\ pass' # 1 /\ t' \in 0 .. 64
    BY <2>1 DEF PrescanInv
  <2> QED BY <2>1, <2>2, <2>3 DEF PrescanInv, IsHash
<1> QED BY <1>1, <1>2

\* What the prescan computes once per header, before any nonce is known, is what
\* every candidate's hash goes through: the three rounds, T1 and T2 of the
\* fourth, W16 and W17, for every specimen and every change of the nonce.
THEOREM PrescanIsExactHolds == Spec => []PrescanIsExact
<1>1. Init => PrescanInv
  <2> SUFFICES ASSUME Init PROVE PrescanInv
    OBVIOUS
  <2>1. context \in {"genesis", "0", "32"}
    BY SpecimensAssumption DEF Init
  <2>2. pass = 0 /\ t = 0 /\ ref = cand /\ IsHash(ref) /\ IsHash(cand)
    <3>1. PICK x, y : ref = Block(x, y) /\ cand = Block(x, y)
      BY Zenon DEF Init
    <3>2. pass = 0 /\ t = 0
      BY DEF Init
    <3> QED BY <3>1, <3>2 DEF Block, IsHash
  <2> QED BY <2>1, <2>2 DEF PrescanInv, PrescanIsExact
<1>2. PrescanInv /\ [Next]_vars => PrescanInv'
  <2> SUFFICES ASSUME PrescanInv, [Next]_vars PROVE PrescanInv'
    OBVIOUS
  <2>1. CASE UNCHANGED vars
    BY <2>1 DEF vars, PrescanInv, PrescanIsExact, IsHash, IsTail
  <2> QED BY <2>1, CompressPrescan, FinishPrescan DEF Next
<1>3. PrescanInv => PrescanIsExact
  BY DEF PrescanInv
<1>4. QED BY <1>1, <1>2, <1>3, PTL DEF Spec
=============================================================================
