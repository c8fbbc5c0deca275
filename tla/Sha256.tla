------------------------------- MODULE Sha256 -------------------------------
(***************************************************************************)
(* SHA-256 as src/crypto/sha256.cpp and the white-box tracer compute it,   *)
(* bit for bit.  A 32-bit word is the set of the positions of its one      *)
(* bits, bit 0 being the least significant: XOR is the symmetric           *)
(* difference, AND the intersection, and an addition modulo 2^32 is done   *)
(* column by column with an integer carry, which is what the tracer        *)
(* records of it.                                                          *)
(***************************************************************************)
EXTENDS Integers, Sequences, FiniteSets

Bits == 0 .. 31
Word == SUBSET Bits

\* A hexadecimal literal, given as its two halves of 16 bits.
Hex(high, low) ==
    {b \in 0 .. 15 : (low \div 2^b) % 2 = 1} \cup
    {b \in 16 .. 31 : (high \div 2^(b - 16)) % 2 = 1}

Xor(x, y) == (x \ y) \cup (y \ x)

Not(x) == Bits \ x

Rotr(n, x) == {i \in Bits : (i + n) % 32 \in x}

Shr(n, x) == {i \in Bits : i + n \in x /\ i + n < 32}

\* Mutant: OR is written for XOR.
BigSigma0Or(x) == Rotr(2, x) \cup Rotr(13, x) \cup Rotr(22, x)

BigSigma0(x) == Xor(Xor(Rotr(2, x), Rotr(13, x)), Rotr(22, x))

BigSigma1(x) == Xor(Xor(Rotr(6, x), Rotr(11, x)), Rotr(25, x))

SmallSigma0(x) == Xor(Xor(Rotr(7, x), Rotr(18, x)), Shr(3, x))

SmallSigma1(x) == Xor(Xor(Rotr(17, x), Rotr(19, x)), Shr(10, x))

Choice(e, f, g) == Xor(e \cap f, Not(e) \cap g)

Majority(a, b, c) == Xor(Xor(a \cap b, a \cap c), b \cap c)

-----------------------------------------------------------------------------
(***************************************************************************)
(* Additions.  A column adds the carry that enters it to the operands'     *)
(* bits; with more than two operands the carry that leaves it may exceed   *)
(* one.                                                                    *)
(***************************************************************************)
Ones(operands, b) == Cardinality({i \in DOMAIN operands : b \in operands[i]})

\* Mutant: a carry is one bit, as in an addition of two operands.
BooleanCarries(ones) ==
    LET upto[n \in 0 .. 32] ==
            IF n = 0 THEN <<>>
            ELSE LET before == upto[n - 1]
                     carryIn == IF n = 1 THEN 0 ELSE before[n - 1]
                 IN  Append(before, IF carryIn + ones[n - 1] > 1 THEN 1 ELSE 0)
    IN  upto[32]

\* The carries that leave the columns, when ones[b] operands have bit b.
CarryProfile(ones) ==
    LET upto[n \in 0 .. 32] ==
            IF n = 0 THEN <<>>
            ELSE LET before == upto[n - 1]
                     carryIn == IF n = 1 THEN 0 ELSE before[n - 1]
                 IN  Append(before, (carryIn + ones[n - 1]) \div 2)
    IN  upto[32]

CarryIn(carry, b) == IF b = 0 THEN 0 ELSE carry[b]

Addition(operands) ==
    LET ones == [b \in Bits |-> Ones(operands, b)]
        carry == CarryProfile(ones)
    IN  [operands |-> operands,
         result   |-> {b \in Bits : (CarryIn(carry, b) + ones[b]) % 2 = 1},
         carry    |-> carry]

Sum(operands) == Addition(operands).result

\* The largest number of a set, 0 at least, and the length of the longest run of
\* consecutive columns in a mask.
Largest(S) == CHOOSE n \in S \cup {0} : \A m \in S : m <= n

LongestRun(mask) ==
    LET run[b \in Bits] == IF b \notin mask THEN 0 ELSE 1 + (IF b = 0 THEN 0 ELSE run[b - 1])
    IN  Largest({run[b] : b \in Bits})

\* The columns that a carry leaves, how many chains they form, the longest of
\* the chains, and the largest carry.
CarrySummary(addition) ==
    LET mask == {b \in Bits : addition.carry[b + 1] # 0}
    IN  [mask |-> mask, chains |-> Cardinality({b \in mask : b - 1 \notin mask}),
         longest |-> LongestRun(mask), maximum |-> Largest({addition.carry[b + 1] : b \in mask})]

\* x - y modulo 2^32: the two's complement of y is added.
Minus(x, y) == Sum(<<x, Not(y), {0}>>)

-----------------------------------------------------------------------------
(***************************************************************************)
(* The tables, the schedule, a round and the feed-forward.                 *)
(***************************************************************************)
InitialState ==
    << Hex(\h6a09, \he667), Hex(\hbb67, \hae85), Hex(\h3c6e, \hf372), Hex(\ha54f, \hf53a),
       Hex(\h510e, \h527f), Hex(\h9b05, \h688c), Hex(\h1f83, \hd9ab), Hex(\h5be0, \hcd19) >>

RoundConstants ==
    << Hex(\h428a, \h2f98), Hex(\h7137, \h4491), Hex(\hb5c0, \hfbcf), Hex(\he9b5, \hdba5),
       Hex(\h3956, \hc25b), Hex(\h59f1, \h11f1), Hex(\h923f, \h82a4), Hex(\hab1c, \h5ed5),
       Hex(\hd807, \haa98), Hex(\h1283, \h5b01), Hex(\h2431, \h85be), Hex(\h550c, \h7dc3),
       Hex(\h72be, \h5d74), Hex(\h80de, \hb1fe), Hex(\h9bdc, \h06a7), Hex(\hc19b, \hf174),
       Hex(\he49b, \h69c1), Hex(\hefbe, \h4786), Hex(\h0fc1, \h9dc6), Hex(\h240c, \ha1cc),
       Hex(\h2de9, \h2c6f), Hex(\h4a74, \h84aa), Hex(\h5cb0, \ha9dc), Hex(\h76f9, \h88da),
       Hex(\h983e, \h5152), Hex(\ha831, \hc66d), Hex(\hb003, \h27c8), Hex(\hbf59, \h7fc7),
       Hex(\hc6e0, \h0bf3), Hex(\hd5a7, \h9147), Hex(\h06ca, \h6351), Hex(\h1429, \h2967),
       Hex(\h27b7, \h0a85), Hex(\h2e1b, \h2138), Hex(\h4d2c, \h6dfc), Hex(\h5338, \h0d13),
       Hex(\h650a, \h7354), Hex(\h766a, \h0abb), Hex(\h81c2, \hc92e), Hex(\h9272, \h2c85),
       Hex(\ha2bf, \he8a1), Hex(\ha81a, \h664b), Hex(\hc24b, \h8b70), Hex(\hc76c, \h51a3),
       Hex(\hd192, \he819), Hex(\hd699, \h0624), Hex(\hf40e, \h3585), Hex(\h106a, \ha070),
       Hex(\h19a4, \hc116), Hex(\h1e37, \h6c08), Hex(\h2748, \h774c), Hex(\h34b0, \hbcb5),
       Hex(\h391c, \h0cb3), Hex(\h4ed8, \haa4a), Hex(\h5b9c, \hca4f), Hex(\h682e, \h6ff3),
       Hex(\h748f, \h82ee), Hex(\h78a5, \h636f), Hex(\h84c8, \h7814), Hex(\h8cc7, \h0208),
       Hex(\h90be, \hfffa), Hex(\ha450, \h6ceb), Hex(\hbef9, \ha3f7), Hex(\hc671, \h78f2) >>

\* W[t] for t >= 16, from the schedule w of the words before it (w[i + 1] is
\* W[i]).
Extension(w, t) ==
    Addition(<< w[t - 15], SmallSigma0(w[t - 14]), w[t - 6], SmallSigma1(w[t - 1]) >>)

\* Round t on the registers a..h, with schedule word w: what the trace keeps
\* of it.
Round(t, v, w) ==
    LET sum0 == BigSigma0(v[1])
        sum1 == BigSigma1(v[5])
        choice == Choice(v[5], v[6], v[7])
        majority == Majority(v[1], v[2], v[3])
        temp1 == Addition(<< v[8], sum1, choice, RoundConstants[t + 1], w >>)
        temp2 == Addition(<< sum0, majority >>)
        newA == Addition(<< temp1.result, temp2.result >>)
        newE == Addition(<< v[4], temp1.result >>)
    IN  [w |-> w, before |-> v, sum0 |-> sum0, sum1 |-> sum1,
         choice |-> choice, majority |-> majority,
         temp1 |-> temp1, temp2 |-> temp2, newA |-> newA, newE |-> newE,
         after |-> << newA.result, v[1], v[2], v[3],
                      newE.result, v[5], v[6], v[7] >>]

\* The chaining state that enters a compression is added to the registers that
\* leave its last round.
FeedForward(h, v) == [i \in 1 .. 8 |-> Addition(<< h[i], v[i] >>)]

\* The last block of a message whose tail is given: the marker bit, zeros and
\* the length in bits (which fits in the last word here).
Padded(tail, length) ==
    [i \in 1 .. 16 |->
        CASE i <= Len(tail)    -> tail[i]
          [] i = Len(tail) + 1 -> {31}
          [] i = 16            -> Hex(0, length)
          [] OTHER             -> {}]
=============================================================================
