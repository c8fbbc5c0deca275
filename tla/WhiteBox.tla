------------------------------ MODULE WhiteBox ------------------------------
(***************************************************************************)
(* The SHA256d white box: a reference header and a candidate that differs  *)
(* from it in the nonce only are hashed in lock-step, and every addition,  *)
(* every round and every schedule word of the two are compared.  This is   *)
(* what the tracer (sha256d_whitebox.cpp), the single-bit campaign and the *)
(* Merkle context transfer do with two complete traces; here the traces    *)
(* are a behaviour, one round of both hashes per step.                     *)
(*                                                                         *)
(* Compression 0 takes the first 64 bytes of the header, compression 1 the *)
(* last 16 and the padding, compression 2 the first digest and its         *)
(* padding: 192 rounds in all.                                             *)
(***************************************************************************)
EXTENDS Sha256

CONSTANTS Specimens      \* the pairs <<context, change of the nonce>> compared

ASSUME SpecimensAssumption == Specimens \subseteq {"genesis", "0", "32"} \X (0 .. 32)

VARIABLES context,       \* whose Merkle field the two headers have
          change,        \* how the candidate's nonce differs from the reference's
          pass,          \* 0..2: the compression under way; 3: both digests known
          t,             \* the next round of it, 64 when only the feed-forward is left
          ref, cand,     \* the two hashes: chaining state h, registers v, schedule w, digests
          adds,          \* the additions of the last step, of each
          rounds,        \* the last round of each, none at first
          analysis,      \* what the comparison has collected
          stats          \* of the candidate's carries, per compression

vars == <<context, change, pass, t, ref, cand, adds, rounds, analysis, stats>>

-----------------------------------------------------------------------------
(***************************************************************************)
(* Headers: 19 words read big-endian from the first 76 bytes, and the      *)
(* nonce.                                                                  *)
(***************************************************************************)
MerkleField(c) ==
    CASE c = "genesis" -> << Hex(\h3ba3, \hedfd), Hex(\h7a7b, \h12b2), Hex(\h7ac7, \h2c3e), Hex(\h6776, \h8f61),
                            Hex(\h7fc8, \h1bc3), Hex(\h888a, \h5132), Hex(\h3a9f, \hb8aa), Hex(\h4b1e, \h5e4a) >>
      [] c = "0"       -> << Hex(\h5b46, \hb49f), Hex(\hee3d, \h1155), Hex(\h9452, \hc005), Hex(\h790f, \hdc1c),
                            Hex(\h4c05, \h826c), Hex(\h8883, \h53ac), Hex(\hbbc4, \he739), Hex(\hc6d8, \h181c) >>
      [] c = "32"      -> << Hex(\ha8c4, \he261), Hex(\h4d6c, \hc124), Hex(\h0b48, \h1dec), Hex(\h14dd, \ha022),
                            Hex(\h00ea, \h7319), Hex(\hfa21, \hfd5c), Hex(\ha274, \he779), Hex(\h1815, \hfe74) >>

Prefix(c) ==
    << {24}, {}, {}, {}, {}, {}, {}, {}, {} >> \o MerkleField(c)
        \o << Hex(\h29ab, \h5f49), Hex(\hffff, \h001d) >>

GenesisNonce == Hex(\h7c2b, \hac1d)

\* The single-bit candidates flip the bit of the nonce that the change names;
\* one more adds 1 to it.
PlusOne == 32

NonceOf(ch) == IF ch = PlusOne THEN Sum(<< GenesisNonce, {0} >>)
                                  ELSE Xor(GenesisNonce, {ch})

\* Where a bit of the nonce, stored little-endian, is found in the schedule
\* word W3, read big-endian.
NumericNonceBitToW3Bit(n) == (3 - n \div 8) * 8 + (n % 8)

W3(nonce) == {NumericNonceBitToW3Bit(n) : n \in nonce}

\* What the change adds to W3, modulo 2^32.
ExpectedDelta ==
    IF change = PlusOne THEN {24}
    ELSE LET b == NumericNonceBitToW3Bit(change)
         IN  IF b \in W3(GenesisNonce) THEN Minus({}, {b}) ELSE {b}

\* The expected digests of Genesis, of its successor and of the flip of bit 0.
KnownDigests ==
    [genesis |-> [first |-> << Hex(\haf42, \h031e), Hex(\h805f, \hf493), Hex(\ha073, \h41e2), Hex(\hf74f, \hf581),
                               Hex(\h49d2, \h2ab9), Hex(\hba19, \hf613), Hex(\h43e2, \hc86c), Hex(\h71c5, \hd66d) >>,
                  final |-> << Hex(\h6fe2, \h8c0a), Hex(\hb6f1, \hb372), Hex(\hc1a6, \ha246), Hex(\hae63, \hf74f),
                               Hex(\h931e, \h8365), Hex(\he15a, \h089c), Hex(\h68d6, \h1900), Hex(\h0000, \h0000) >>],
     plus    |-> [first |-> << Hex(\h3f20, \he97b), Hex(\hd2b9, \ha79c), Hex(\h76c6, \hd8ec), Hex(\h1688, \h3a30),
                               Hex(\h71fc, \h8cf0), Hex(\h72ec, \hf49e), Hex(\ha9c6, \h6b7a), Hex(\h510d, \h4674) >>,
                  final |-> << Hex(\h1c1b, \ha471), Hex(\h4930, \h063b), Hex(\hebad, \hce0a), Hex(\h323e, \h51d0),
                               Hex(\h9777, \h5dbc), Hex(\h4441, \h87e6), Hex(\hba0c, \haa5d), Hex(\h4a7a, \h229b) >>],
     bit0    |-> [first |-> << Hex(\hb0bd, \hed2d), Hex(\hf03b, \h40f3), Hex(\h84c9, \h81e5), Hex(\hb750, \had0c),
                               Hex(\hcf56, \h2554), Hex(\hb23c, \h0187), Hex(\hbb16, \h2ba0), Hex(\h93bc, \h3dfc) >>,
                  final |-> << Hex(\hd966, \h5d1c), Hex(\h88b5, \hbf70), Hex(\hb741, \h453c), Hex(\h4a78, \hc9fe),
                               Hex(\h36a5, \h3765), Hex(\h9ad0, \he7fa), Hex(\hb087, \hcac1), Hex(\h3d34, \hdc8c) >>]]

-----------------------------------------------------------------------------
(***************************************************************************)
(* The two hashes.                                                         *)
(***************************************************************************)
None == "none"

Block(h, words) == [h |-> h, v |-> h, w |-> words, first |-> None, final |-> None]

\* What the comparison collects: the first step at which the traces differ,
\* at which n registers differ, at which the states differ in n bits; the
\* largest distance; the first extended schedule word of compression 1 that
\* differs; what round 3 of compression 1 does to the carries; whether round 4
\* masks the difference; and the transitions of the inputs of Ch and Maj with
\* their effect.
NoStep == -1
RegisterThresholds == {2, 4, 6, 8}
HammingThresholds == {32, 64, 96, 112, 128}

EmptyAnalysis ==
    [divergence |-> NoStep, registers |-> [n \in RegisterThresholds |-> NoStep],
     hamming |-> [n \in HammingThresholds |-> NoStep],
     maximum |-> 0, extended |-> NoStep, round3 |-> None, round4 |-> None,
     choice |-> {}, majority |-> {}]

\* Of a compression: the additions seen, those without a carry, the largest
\* carry, the rounds without a carry, the largest number of carries of a round,
\* and the rounds that have it.
EmptyStats == [count |-> 0, without |-> 0, maximum |-> 0, quiet |-> {}, most |-> 0, busiest |-> {}]

Init ==
    /\ \E s \in Specimens : context = s[1] /\ change = s[2]
    /\ pass = 0 /\ t = 0
    /\ ref = Block(InitialState, SubSeq(Prefix(context), 1, 16))
    /\ cand = Block(InitialState, SubSeq(Prefix(context), 1, 16))
    /\ adds = [ref |-> <<>>, cand |-> <<>>]
    /\ rounds = <<>>
    /\ analysis = EmptyAnalysis
    /\ stats = [p \in 0 .. 2 |-> EmptyStats]

\* The schedule up to word t, and the addition that made the word.
Extend(w) == IF t < 16 THEN [w |-> w, adds |-> <<>>]
             ELSE LET e == Extension(w, t)
                  IN  [w |-> Append(w, e.result), adds |-> << e >>]

-----------------------------------------------------------------------------
(***************************************************************************)
(* What can be computed before any nonce is tried: from the midstate and   *)
(* the three words before the nonce, the state that enters round 3, T1     *)
(* there but for W3, and the schedule words 16 and 17.                     *)
(***************************************************************************)
\* Mutant: the length word is forgotten, as if it were zero too.
FixedW17Short(w) == Sum(<< w[2], SmallSigma0(w[3]) >>)

\* W17, in which W10 is zero.
FixedW17(w) == Sum(<< w[2], SmallSigma0(w[3]), SmallSigma1(Hex(0, 640)) >>)

\* Rounds 0 to 2, which use no word that depends on the nonce.
FixedRounds(midstate, w) ==
    LET upto[n \in 0 .. 3] ==
            IF n = 0 THEN <<>>
            ELSE LET done == upto[n - 1]
                 IN  Append(done, Round(n - 1, IF n = 1 THEN midstate ELSE done[n - 1].after, w[n]))
    IN  upto[3]

\* T1 of the round that a state enters but for its schedule word, and T2.
FixedT1(t0, v) == Sum(<< v[8], BigSigma1(v[5]), Choice(v[5], v[6], v[7]), RoundConstants[t0 + 1] >>)
FixedT2(v) == Sum(<< BigSigma0(v[1]), Majority(v[1], v[2], v[3]) >>)

FixedW16(w) == Sum(<< w[1], SmallSigma0(w[2]) >>)

-----------------------------------------------------------------------------
(***************************************************************************)
(* The comparison of one round.                                            *)
(***************************************************************************)
First(old, step, now) == IF old = NoStep /\ now THEN step ELSE old

\* How the carries of two additions differ: the columns, the longest run of
\* consecutive ones, what appeared, disappeared or only changed, by how much in
\* all and at most, and whether the same carry leaves the last column.
CarryDifference(x, y) ==
    LET mask == {b \in Bits : x.carry[b + 1] # y.carry[b + 1]}
        delta(b) == LET d == y.carry[b + 1] - x.carry[b + 1] IN IF d < 0 THEN -d ELSE d
        total[b \in Bits] == delta(b) + (IF b = 0 THEN 0 ELSE total[b - 1])
    IN  [mask |-> mask, longest |-> LongestRun(mask),
         appeared |-> {b \in mask : x.carry[b + 1] = 0},
         disappeared |-> {b \in mask : x.carry[b + 1] # 0 /\ y.carry[b + 1] = 0},
         sum |-> total[31], maximum |-> Largest({delta(b) : b \in mask}),
         finalEqual |-> x.carry[32] = y.carry[32]]

\* What the first round that sees the nonce makes of it.
Round3Metrics(r, c) ==
    [xor |-> << Xor(r.temp1.result, c.temp1.result), Xor(r.newA.result, c.newA.result),
                Xor(r.newE.result, c.newE.result) >>,
     carry |-> << CarryDifference(r.temp1, c.temp1), CarryDifference(r.newA, c.newA),
                  CarryDifference(r.newE, c.newE) >>]

\* Whether Ch and Maj of the next round hide the difference altogether.
Round4Metrics(r, c) == [chMasked |-> r.choice = c.choice, majMasked |-> r.majority = c.majority]

\* The first word of the extended schedule that differs.
AnalyzeSchedule(r, c) == First(analysis.extended, t, pass = 1 /\ t >= 16 /\ r.w # c.w)

\* The three input bits of a bitwise function at a column, as a number.
Inputs(x, y, z, b) == (IF b \in x THEN 4 ELSE 0) + (IF b \in y THEN 2 ELSE 0)
                                                 + (IF b \in z THEN 1 ELSE 0)

\* The transitions from the inputs of the reference to those of the candidate,
\* each with whether the output is the same.
Transitions(x, y, f, g, i) ==
    {<< Inputs(x[i], x[i + 1], x[i + 2], b), Inputs(y[i], y[i + 1], y[i + 2], b),
        (b \in f) = (b \in g) >> : b \in Bits}

Hamming(x, y) ==
    LET distance[i \in 0 .. 8] ==
            IF i = 0 THEN 0 ELSE distance[i - 1] + Cardinality(Xor(x[i], y[i]))
    IN  distance[8]

ObserveTransitions(r, c) ==
    [choice   |-> Transitions(r.before, c.before, r.choice, c.choice, 5),
     majority |-> Transitions(r.before, c.before, r.majority, c.majority, 1)]

\* Mutant: a state at a threshold has not reached it.
Exceeds(distance, n) == distance > n

Reaches(distance, n) == distance >= n

AnalyzeRound(r, c) ==
    LET step == 64 * pass + t
        distance == Hamming(r.after, c.after)
        differing == Cardinality({i \in 1 .. 8 : r.after[i] # c.after[i]})
        seen == ObserveTransitions(r, c)
    IN  [divergence |-> First(analysis.divergence, step, r.w # c.w \/ distance # 0),
         registers  |-> [n \in RegisterThresholds |->
                            First(analysis.registers[n], step, differing >= n)],
         hamming    |-> [n \in HammingThresholds |->
                            First(analysis.hamming[n], step, Reaches(distance, n))],
         maximum    |-> IF distance > analysis.maximum THEN distance ELSE analysis.maximum,
         extended   |-> AnalyzeSchedule(r, c),
         round3     |-> IF step = 67 THEN Round3Metrics(r, c) ELSE analysis.round3,
         round4     |-> IF step = 68 THEN Round4Metrics(r, c) ELSE analysis.round4,
         choice     |-> analysis.choice \cup seen.choice,
         majority   |-> analysis.majority \cup seen.majority]

-----------------------------------------------------------------------------
(***************************************************************************)
(* The trajectory campaign's features of one round of a replayed hash.     *)
(***************************************************************************)
\* How often neighbouring bits of a word differ.
BitTransitions(x) == Cardinality(Xor(x, Shr(1, x)) \ {31})

\* Of an addition, from its operands: carries, longest chain, chains, and the
\* population of the mask.
CarryFeatures(operands) ==
    LET s == CarrySummary(Addition(operands))
    IN  << Cardinality(s.mask), s.longest, s.chains, Cardinality(s.mask) >>

TrajectoryFeatures(t0, r) ==
    LET words == r.before \o << r.w, r.sum0, r.sum1, r.choice, r.majority,
                                r.temp1.result, r.temp2.result >>
    IN  [ones |-> [i \in DOMAIN words |-> Cardinality(words[i])],
         transitions |-> [i \in DOMAIN words |-> BitTransitions(words[i])],
         carries |-> << CarryFeatures(<< r.before[8], r.sum1, r.choice, RoundConstants[t0 + 1], r.w >>),
                        CarryFeatures(<< r.sum0, r.majority >>),
                        CarryFeatures(<< r.before[4], r.temp1.result >>),
                        CarryFeatures(<< r.temp1.result, r.temp2.result >>) >>]

-----------------------------------------------------------------------------
(***************************************************************************)
(* Actions.                                                                *)
(***************************************************************************)
RoundAdditions(r) == << r.temp1, r.temp2, r.newA, r.newE >>

\* The additions of a step, the same ones of both: all of them are compared.
AdditionPairs(x, y) == [ref |-> x, cand |-> y]

ObserveAdditions(s, additions) ==
    LET summaries == {<< i, CarrySummary(additions[i]) >> : i \in DOMAIN additions}
    IN  [s EXCEPT !.count = @ + Len(additions),
                  !.without = @ + Cardinality({x \in summaries : x[2].mask = {}}),
                  !.maximum = Largest({@} \cup {x[2].maximum : x \in summaries})]

\* The statistics of the compression under way after a round and the schedule
\* addition before it.
CollectRound(scheduled, r) ==
    LET s == ObserveAdditions(stats[pass], scheduled \o RoundAdditions(r))
        columns(i) == Cardinality(CarrySummary(RoundAdditions(r)[i]).mask)
        total == columns(1) + columns(2) + columns(3) + columns(4)
    IN  [s EXCEPT !.quiet = IF total = 0 THEN @ \cup {t} ELSE @,
                  !.most = Largest({@, total}),
                  !.busiest = CASE total > s.most -> {t}
                                [] total = s.most -> @ \cup {t}
                                [] OTHER          -> @]

\* One round of both hashes, the schedule word it needs included.
Compress ==
    /\ pass < 3 /\ t < 64
    /\ LET we == Extend(ref.w)
           wc == Extend(cand.w)
           r == Round(t, ref.v, we.w[t + 1])
           c == Round(t, cand.v, wc.w[t + 1])
       IN  /\ ref' = [ref EXCEPT !.v = r.after, !.w = we.w]
           /\ cand' = [cand EXCEPT !.v = c.after, !.w = wc.w]
           /\ rounds' = << r, c >>
           /\ adds' = AdditionPairs(we.adds \o RoundAdditions(r), wc.adds \o RoundAdditions(c))
           /\ stats' = [stats EXCEPT ![pass] = CollectRound(wc.adds, c)]
           /\ analysis' = AnalyzeRound(r, c)
    /\ t' = t + 1
    /\ UNCHANGED <<context, change, pass>>

Results(additions) == [i \in 1 .. 8 |-> additions[i].result]

\* The end of a compression: After makes the next block of the chaining state.
Finish(p, After(_, _, _)) ==
    LET fr == FeedForward(ref.h, ref.v)
        fc == FeedForward(cand.h, cand.v)
    IN  /\ pass = p /\ t = 64
        /\ adds' = AdditionPairs(fr, fc)
        /\ stats' = [stats EXCEPT ![pass] = ObserveAdditions(@, fc)]
        /\ ref' = After(ref, Results(fr), GenesisNonce)
        /\ cand' = After(cand, Results(fc), NonceOf(change))
        /\ pass' = p + 1 /\ t' = 0
        /\ UNCHANGED <<context, change, rounds, analysis>>

\* Compression 1: the rest of the header, with the nonce.
LastBlock(x, out, nonce) ==
    Block(out, Padded(SubSeq(Prefix(context), 17, 19) \o << W3(nonce) >>, 640))

Midstate == Finish(0, LastBlock)

\* Mutant: the second hash goes on from the first one's state.
SecondPassChained(x, out, nonce) == [Block(out, Padded(out, 256)) EXCEPT !.first = out]

\* Compression 2 starts afresh with the first digest as its message.
SecondPass(x, out, nonce) == [Block(InitialState, Padded(out, 256)) EXCEPT !.first = out]

Digest(x, out, nonce) == [x EXCEPT !.final = out]

FirstDigest == Finish(1, SecondPass)

FinalDigest == Finish(2, Digest)

Next == Compress \/ Midstate \/ FirstDigest \/ FinalDigest

Spec == Init /\ [][Next]_vars /\ WF_vars(Next)

-----------------------------------------------------------------------------
(***************************************************************************)
(* Properties.                                                             *)
(***************************************************************************)
\* Both hashes end in the digests the tracer was given for its specimens: the
\* byte order of the nonce, the padding of both messages, the chaining of the
\* three compressions, the tables and the rotations are all right
\* (build_sha256d_whitebox's vectors).
DigestsAreKnown ==
    (pass = 3 /\ context = "genesis") =>
        /\ ref.first = KnownDigests.genesis.first /\ ref.final = KnownDigests.genesis.final
        /\ change = PlusOne => /\ cand.first = KnownDigests.plus.first
                                  /\ cand.final = KnownDigests.plus.final
        /\ change = 0 => /\ cand.first = KnownDigests.bit0.first
                         /\ cand.final = KnownDigests.bit0.final

\* The traces agree up to round 3 of compression 1; there W, T1, new_a and
\* new_e differ by exactly what the change adds to W3, in the sign of the bit
\* it flips, and nothing else differs; a step later all the registers but two
\* still agree; the schedule of compression 1 differs first in W18 and W19
\* carries the same difference (validate_round3_invariants, analyze_schedule).
DivergesAtW3 ==
    LET step == 64 * pass + t - 1
        r == rounds[1]
        c == rounds[2]
        words(x) == << x.w, x.temp1.result, x.newA.result, x.newE.result >>
    IN  /\ (pass = 0 \/ (pass = 1 /\ t <= 3)) => /\ ref.v = cand.v /\ ref.h = cand.h
                                                 /\ adds.ref = adds.cand
        /\ (t > 0 /\ step = 67) =>
               /\ [r EXCEPT !.w = 0, !.temp1 = 0, !.newA = 0, !.newE = 0, !.after = 0]
                      = [c EXCEPT !.w = 0, !.temp1 = 0, !.newA = 0, !.newE = 0, !.after = 0]
               /\ \A i \in 1 .. 4 : Minus(words(c)[i], words(r)[i]) = ExpectedDelta
               /\ \A i \in 1 .. 8 : (r.after[i] # c.after[i]) <=> i \in {1, 5}
               /\ change # PlusOne => Xor(r.w, c.w) = {NumericNonceBitToW3Bit(change)}
        /\ (pass = 1 /\ t = 64) =>
               /\ analysis.divergence = 67 /\ analysis.extended = 18
               /\ Minus(cand.w[20], ref.w[20]) = ExpectedDelta

\* The big sigmas carry the XOR of their inputs to the XOR of their outputs, in
\* every round whatever the two headers are (validate_sigma_differentials).
SigmaDifferential ==
    rounds # <<>> =>
        LET r == rounds[1]
            c == rounds[2]
        IN  /\ Xor(r.sum0, c.sum0) = BigSigma0(Xor(r.before[1], c.before[1]))
            /\ Xor(r.sum1, c.sum1) = BigSigma1(Xor(r.before[5], c.before[5]))

\* In every addition the difference of the results is the sum of the
\* differences of the operands, modulo 2^32 (validate_addition_differential),
\* and a bit of the results differs exactly when an odd number of the column's
\* operand bits and entering carries does: the recorded carries account for
\* every bit that the operands leave unexplained.
AdditionDifferential ==
    \A i \in DOMAIN adds.ref :
        LET x == adds.ref[i]
            y == adds.cand[i]
        IN  /\ Minus(y.result, x.result) =
                   Sum([k \in DOMAIN x.operands |-> Minus(y.operands[k], x.operands[k])])
            /\ \A b \in Bits :
                   (b \in Xor(x.result, y.result)) <=>
                       (Cardinality({k \in DOMAIN x.operands : b \in Xor(x.operands[k], y.operands[k])})
                            + CarryIn(x.carry, b) + CarryIn(y.carry, b)) % 2 = 1

\* The carries of the columns are those of the arithmetic: what leaves column b
\* is the quotient by 2^(b+1) of the sum of the operands' low b + 1 bits, never
\* more than the number of operands less one (validate_addition).  Columns are
\* sampled, below 2^31.
CarryIsExact ==
    LET value(x, b) == LET low[n \in 0 .. 27] == (IF n \in x THEN 2^n ELSE 0)
                                                     + (IF n = 0 THEN 0 ELSE low[n - 1])
                       IN  low[b]
        total(ops, b) == LET upto[k \in 0 .. Len(ops)] ==
                                 IF k = 0 THEN 0 ELSE upto[k - 1] + value(ops[k], b)
                         IN  upto[Len(ops)]
    IN  \A i \in DOMAIN adds.cand :
            LET x == adds.cand[i]
            IN  /\ \A b \in Bits : x.carry[b + 1] < Len(x.operands)
                /\ \A b \in {3, 11, 19, 27} :
                       x.carry[b + 1] = total(x.operands, b) \div 2^(b + 1)

\* A run of changed carries starts where an operand differs: a carry differs only
\* in a column one of whose operands does or that a changed carry enters; and a
\* carry out of the last column that differs ends such a run (carry_difference,
\* compare_all_additions).
CarryChangeHasCause ==
    \A i \in DOMAIN adds.ref :
        LET x == adds.ref[i]
            y == adds.cand[i]
            d == CarryDifference(x, y)
        IN  /\ \A b \in d.mask :
                   \/ b - 1 \in d.mask
                   \/ \E k \in DOMAIN x.operands : b \in Xor(x.operands[k], y.operands[k])
            /\ d.finalEqual <=> 31 \notin d.mask
            /\ Cardinality(d.mask) <= d.sum /\ d.maximum < Len(x.operands)

\* A chain of carries starts in a column that makes a carry of its operands
\* alone, and the chains are the runs of the mask: each has its two ends among
\* the transitions of the mask, but at the ends of the word
\* (fixed_addition_carries, transitions).
ChainsAreRuns ==
    \A i \in DOMAIN adds.cand :
        LET x == adds.cand[i]
            s == CarrySummary(x)
            edge(b) == IF b \in s.mask THEN 1 ELSE 0
        IN  /\ \A b \in s.mask : b - 1 \notin s.mask => Ones(x.operands, b) >= 2
            /\ BitTransitions(s.mask) = 2 * s.chains - edge(0) - edge(31)
            /\ s.longest <= Cardinality(s.mask) /\ Cardinality(s.mask) <= s.chains * s.longest

\* What the trajectory campaign computes of a round's registers is what the
\* tracer recorded of the round's additions, T1, T2, new_e and new_a in that
\* order, and no feature of a word exceeds its width
\* (extract_trajectory_features).
FeaturesAreOfTheTrace ==
    (pass < 3 /\ t > 0) =>
        LET r == rounds[2]
            f == TrajectoryFeatures(t - 1, r)
            of(a) == LET s == CarrySummary(a)
                     IN  << Cardinality(s.mask), s.longest, s.chains, Cardinality(s.mask) >>
        IN  /\ f.carries = << of(r.temp1), of(r.temp2), of(r.newE), of(r.newA) >>
            /\ \A i \in DOMAIN f.ones : f.transitions[i] <= 2 * f.ones[i]

\* The statistics of a compression account for each of its additions once, 936
\* in the three of them, and its busiest rounds are those of the largest count:
\* a round without a carry is among them only if no round has one
\* (collect_stats, compare_all_additions).
StatsAreWhole ==
    /\ \A p \in 0 .. 2 : p < pass => stats[p].count = 48 + 64 * 4 + 8
    /\ pass = 3 => stats[0].count + stats[1].count + stats[2].count = 936
    /\ \A p \in 0 .. 2 : LET s == stats[p]
                         IN  /\ s.maximum <= 4 /\ s.without <= s.count
                             /\ s.quiet \cap s.busiest # {} => s.most = 0
                             /\ s.count > 0 => s.busiest # {}

\* All of the above: an addition's record, operands, result and carries, is that
\* of the arithmetic, and so are the comparison of two of them and what the
\* statistics and the trajectory's features make of the carries.
AdditionIsExact ==
    /\ AdditionDifferential /\ CarryIsExact /\ CarryChangeHasCause
    /\ ChainsAreRuns /\ FeaturesAreOfTheTrace /\ StatsAreWhole

\* What the prescan computes without a nonce is what every candidate goes
\* through: its three rounds, T1 of round 3 but for W3, T2, W16 and W17
\* (build_prescan_compression1).
PrescanIsExact ==
    pass = 1 =>
        /\ t \in 1 .. 3 => rounds[2] = FixedRounds(cand.h, ref.w)[t]
        /\ t = 4 => /\ rounds[2].temp1.result = Sum(<< FixedT1(3, rounds[1].before), cand.w[4] >>)
                    /\ rounds[2].temp2.result = FixedT2(rounds[1].before)
        /\ t = 17 => cand.w[17] = FixedW16(ref.w)
        /\ t = 18 => cand.w[18] = FixedW17(ref.w)

\* Whether a bit of Ch or of Maj changes depends on the change of its three
\* input bits alone: no transition of the histograms counts both outcomes
\* (observe_transitions).  In round 4, where a and e are all that differs, Ch
\* hides the difference exactly when f and g agree wherever e changed, and Maj
\* when b and c agree wherever a did (compare_candidate's masked flags).
MaskingIsLocal ==
    /\ \A seen \in {analysis.choice, analysis.majority} :
           \A x, y \in seen : (x[1] = y[1] /\ x[2] = y[2]) => x[3] = y[3]
    /\ (pass = 1 /\ t = 5) =>
           LET r == rounds[1].before
               c == rounds[2].before
               agree(changed, i, j) == \A b \in changed : (b \in r[i]) = (b \in r[j])
           IN  /\ analysis.round4.chMasked = agree(Xor(r[5], c[5]), 6, 7)
               /\ analysis.round4.majMasked = agree(Xor(r[1], c[1]), 2, 3)

\* The diffusion figures agree with each other: a threshold has a first step
\* exactly when the largest distance reaches it, and the thresholds are
\* reached in order, none before the divergence (analyze_rounds).
DiffusionIsConsistent ==
    /\ \A n \in HammingThresholds :
           (analysis.hamming[n] # NoStep) <=> analysis.maximum >= n
    /\ \A n \in HammingThresholds :
           analysis.hamming[n] # NoStep => /\ analysis.hamming[n] > analysis.divergence
                                           /\ \A m \in HammingThresholds :
                                                  m < n => analysis.hamming[m] <= analysis.hamming[n]
    /\ analysis.divergence # NoStep => analysis.registers[2] = analysis.divergence
    /\ \A n \in RegisterThresholds :
           analysis.registers[n] # NoStep =>
               \A m \in RegisterThresholds : m < n => analysis.registers[m] <= analysis.registers[n]

\* The one bit of W3 that a flip changes starts one carry chain in T1, upwards
\* from that bit and by one carry per column, all of them appearing or all
\* shrinking by one; the bits of T1 that differ are the columns of the chain and
\* the one above it (compare_candidate's t1_carry and t1_xor).
OneChainInT1 ==
    (64 * pass + t > 67 /\ change # PlusOne) =>
        LET d == analysis.round3.carry[1]
            b == NumericNonceBitToW3Bit(change)
            n == Cardinality(d.mask)
        IN  /\ d.mask = b .. b + n - 1
            /\ d.longest = n /\ d.sum = n
            /\ b \in W3(GenesisNonce) => d.appeared = {}
            /\ b \notin W3(GenesisNonce) => d.disappeared = {}
            /\ analysis.round3.xor[1] = (b .. b + n) \cap Bits

\* What the comparison of two traces reports holds together: where they diverge
\* and by how much, which carries and which bits are masked, how the difference
\* spreads (analyze_rounds, validate_round3_invariants, compare_candidate).
ComparisonIsConsistent ==
    DivergesAtW3 /\ OneChainInT1 /\ MaskingIsLocal /\ DiffusionIsConsistent
=============================================================================
