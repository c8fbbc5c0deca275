---------------------------- MODULE DiscoveryStudy ----------------------------
(***************************************************************************)
(* The statistics of a phase 2 study (context_phase2.cpp): what `run` and    *)
(* `run_refinement` compute from the discovery rows between loading them and *)
(* publishing the artifacts, one action per analysis and per outer fold.     *)
(*                                                                         *)
(* The study is run on two label tables at once that agree except on the     *)
(* rows of one prevhash, so that "no label of a prevhash has a part in the   *)
(* predictions made for it" is a property of a state.                        *)
(*                                                                         *)
(* Contexts have at most two rows: a Spearman coefficient inside a context   *)
(* is then -1, 0 or 1 and the scores are integers, in units of 1 / Unit.     *)
(* Ridge models are free terms: a model is the record of what it was fitted  *)
(* on, and two models are equal when every input of the fit is.              *)
(***************************************************************************)
EXTENDS Integers, Sequences, FiniteSets, FiniteSetsExt, SequencesExt, Functions

CONSTANTS
  ContextOf,      \* the context of every row, rows in the order they are loaded
  PrevhashOf,     \* the prevhash of every context
  X,              \* X[f][r]: the feature matrix
  Sanity,         \* the features of family SANITY_BASELINE
  Labels,         \* the label tables: [quality, t30], functions of the rows
  HashOrders,     \* by seed: the prevhashes in the order of SHA256(seed:prevhash)
  ModelScores,    \* what out-of-fold predictions may rank the rows by
  OuterFolds,     \* --outer-folds
  MaxFeatures,    \* --features
  Fractions,      \* the top fractions, as <<numerator, denominator>>
  None

Rows == DOMAIN ContextOf
Contexts == DOMAIN PrevhashOf
Prevhashes == Range(PrevhashOf)
Features == DOMAIN X
RowsOf == [c \in Contexts |-> {r \in Rows : ContextOf[r] = c}]
Prevhash(r) == PrevhashOf[ContextOf[r]]

ASSUME StudyAssumption ==
  /\ IsFiniteSet(Rows) /\ IsFiniteSet(Contexts) /\ IsFiniteSet(Features)
  /\ \A r \in Rows : ContextOf[r] \in Contexts
  /\ \A c \in Contexts : Cardinality(RowsOf[c]) \in {1, 2}
  /\ \A f \in Features : DOMAIN X[f] = Rows
  /\ Sanity # {} /\ Sanity \subseteq Features /\ Sanity # Features
  /\ OuterFolds >= 2 /\ MaxFeatures > 0

VARIABLES
  labels,      \* labels[w]: the targets of the rows world w has loaded
  victim,      \* the prevhash on whose rows the two tables may differ
  hash,        \* the order of the prevhashes under each seed
  command,     \* "run" or "refine"
  step,        \* the analyses done
  fold,        \* the next outer fold of the cross-validation under way
  cache,       \* context_feature_ranks, None before they are prepared
  study        \* study[w]: what world w has computed

vars == <<labels, victim, hash, command, step, fold, cache, study>>

Worlds == {1, 2}
Targets == {"rank", "quality", "t30"}

(***************************************************************************)
(* Ranks and correlations.                                                 *)
(***************************************************************************)
Sign(n) == IF n > 0 THEN 1 ELSE IF n < 0 THEN -1 ELSE 0
Abs(n) == IF n < 0 THEN -n ELSE n
Total(S, op(_)) == FoldSet(LAMBDA r, sum : sum + op(r), 0, S)
Smaller(a, b) == IF a < b THEN a ELSE b
Sum(v) == Total(DOMAIN v, LAMBDA r : v[r])

\* Twice the rank of r among S by increasing value; ties share their mean rank.
Rank(S, v, r) == 2 * Cardinality({q \in S : v[q] < v[r]})
                   + Cardinality({q \in S : v[q] = v[r]}) + 1
\* The same by decreasing value.
RankDown(S, v, r) == Rank(S, [q \in S |-> -v[q]], r)

\* A Pearson coefficient over S: xy / sqrt(xx * yy), or 0 if it has no variance.
Pearson(S, u, v) ==
  LET n == Cardinality(S)
      Cov(p, q) == n * Total(S, LAMBDA r : p[r] * q[r])
                     - Total(S, LAMBDA r : p[r]) * Total(S, LAMBDA r : q[r])
  IN  [xy |-> Cov(u, v), xx |-> Cov(u, u), yy |-> Cov(v, v)]
Spearman(S, u, v) == Pearson(S, [r \in S |-> Rank(S, u, r)], [r \in S |-> Rank(S, v, r)])
NonZero(c) == c.xx > 0 /\ c.yy > 0 /\ c.xy # 0

\* |c| > |d|, for two coefficients with the same yy: xy^2 / xx as a mixed number.
Stronger(c, d) ==
  LET whole(e) == (e.xy * e.xy) \div e.xx
      rest(e)  == (e.xy * e.xy) % e.xx
  IN  \/ whole(c) > whole(d)
      \/ whole(c) = whole(d) /\ rest(c) * d.xx > rest(d) * c.xx

\* The coefficient of at most two rows; 0 for a single row or a tie.
Within(S, u, v) ==
  LET r == Min(S)
      q == Max(S)
  IN  Sign(u[r] - u[q]) * Sign(v[r] - v[q])

(***************************************************************************)
(* kendall_tau_b: a Fenwick tree over the distinct values of y, filled one   *)
(* group of equal x at a time.                                             *)
(***************************************************************************)
LowBit(p) == Max({b \in {1, 2, 4, 8, 16} : p % b = 0})
FenwickAdd(tree, pos) ==
  LET size == Len(tree)
      path[q \in 1..2 * size] == IF q > size THEN {} ELSE {q} \cup path[q + LowBit(q)]
  IN  [q \in 1..size |-> IF q \in path[pos + 1] THEN tree[q] + 1 ELSE tree[q]]
FenwickSum(tree, pos) ==
  LET path[q \in 0..pos] == IF q = 0 THEN {} ELSE {q} \cup path[q - LowBit(q)]
  IN  Total(path[pos], LAMBDA q : tree[q])

Choose2(n) == (n * (n - 1)) \div 2
TiedPairs(S, v) == Total({v[r] : r \in S}, LAMBDA a : Choose2(Cardinality({r \in S : v[r] = a})))

\* A group added while it is counted.
KendallGroupOneByOne(group, y, position, s) ==
  FoldSet(LAMBDA r, t :
            [tree |-> FenwickAdd(t.tree, position[y[r]]), previous |-> t.previous + 1,
             concordant |-> t.concordant + FenwickSum(t.tree, position[y[r]]),
             discordant |-> t.discordant + t.previous
                              - FenwickSum(t.tree, position[y[r]] + 1)], s, group)

\* Queries and insertions of a group: the whole group is counted, then added.
KendallGroup(group, y, position, s) ==
  LET c == Total(group, LAMBDA r : FenwickSum(s.tree, position[y[r]]))
      d == Total(group, LAMBDA r : s.previous - FenwickSum(s.tree, position[y[r]] + 1))
  IN  [tree |-> FoldSet(LAMBDA r, t : FenwickAdd(t, position[y[r]]), s.tree, group),
       previous |-> s.previous + Cardinality(group),
       concordant |-> s.concordant + c, discordant |-> s.discordant + d]

KendallTauB(S, x, y) ==
  LET ys == SetToSortSeq({y[r] : r \in S}, LAMBDA a, b : a < b)
      xs == SetToSortSeq({x[r] : r \in S}, LAMBDA a, b : a < b)
      position == [a \in Range(ys) |-> (CHOOSE i \in DOMAIN ys : ys[i] = a) - 1]
      empty == [tree |-> [i \in DOMAIN ys |-> 0], previous |-> 0,
                concordant |-> 0, discordant |-> 0]
      end == FoldLeft(LAMBDA s, a : KendallGroup({r \in S : x[r] = a}, y, position, s),
                      empty, xs)
      pairs == Choose2(Cardinality(S))
  IN  [concordant |-> end.concordant, discordant |-> end.discordant,
       untied_x |-> pairs - TiedPairs(S, x), untied_y |-> pairs - TiedPairs(S, y)]

(***************************************************************************)
(* Targets.  A context score is doubled: 2 * (n - rank) / (n - 1).           *)
(***************************************************************************)
ContextScore(value, r) ==
  LET S == RowsOf[ContextOf[r]]
      n == Cardinality(S)
  IN  IF n > 1 THEN (2 * n - RankDown(S, value, r)) \div (n - 1) ELSE 2

\* The targets of the loaded rows, by name.
Loaded(table) ==
  [quality |-> table.quality,
   rank |-> [r \in Rows |-> ContextScore(table.quality, r)],
   t30 |-> [r \in Rows |-> ContextScore(table.t30, r)]]
Responses(y, target, S) == [r \in S |-> y[target][r]]

(***************************************************************************)
(* The primary statistic of a feature: the mean over the prevhashes of the   *)
(* mean over their contexts of the Spearman coefficient inside the context.  *)
(***************************************************************************)
ContextsOf(S) == {ContextOf[r] : r \in S}
ContextsIn(S, p) == {c \in ContextsOf(S) : PrevhashOf[c] = p}
Unit == FoldSet(LAMBDA p, n : n * Cardinality(ContextsIn(Rows, p)), 1, Prevhashes)

\* Over the rows S: times Unit and times the number of prevhashes of S.
MeanOverPrevhashes(S, coefficient) ==
  Sum([p \in {Prevhash(r) : r \in S} |->
         (Unit \div Cardinality(ContextsIn(S, p))) * Sum([c \in ContextsIn(S, p) |-> coefficient[c]])])

\* primary_prevhash_feature_statistics and their mean: from the raw features.
PrimaryScore(f, z) ==
  MeanOverPrevhashes(Rows, [c \in Contexts |->
    Within(RowsOf[c], [r \in RowsOf[c] |-> Rank(RowsOf[c], X[f], r)],
           [r \in RowsOf[c] |-> Rank(RowsOf[c], z, r)])])

\* prepare_context_feature_ranks: centred ranks, in units of their scale.
PreparedRanks ==
  [f \in Features |-> [r \in Rows |->
     LET S == RowsOf[ContextOf[r]]
     IN  Sign(Rank(S, X[f], r) - Cardinality(S) - 1)]]

\* score_all_features: one pass over the contexts with the prepared ranks; a
\* context whose responses are all equal adds nothing.
Weight == [c \in Contexts |-> Unit \div Cardinality(ContextsIn(Rows, PrevhashOf[c]))]

ScoreAllFeatures(z) ==
  [f \in Features |->
     Sum([c \in {d \in Contexts : \E r, q \in RowsOf[d] : z[r] # z[q]} |->
            Weight[c] * Within(RowsOf[c], cache[f], z)])]

(***************************************************************************)
(* Choosing features: by decreasing |score|, then by index, zeros left out.  *)
(***************************************************************************)
Best(scored, stronger(_, _)) ==
  LET order == SetToSortSeq(scored, LAMBDA a, b :
                 \/ stronger(a.score, b.score)
                 \/ ~stronger(b.score, a.score) /\ a.feature < b.feature)
  IN  [i \in 1..Smaller(MaxFeatures, Len(order)) |-> order[i].feature]

\* top_primary_candidate_features: SANITY_BASELINE is excluded.
TopPrimary(score) ==
  Best({c \in {[feature |-> f, score |-> Abs(score[f])] : f \in Features \ Sanity} : c.score # 0},
       LAMBDA a, b : a > b)
\* top_candidate_features: every family may be chosen.
TopCandidates(score) ==
  Best({c \in {[feature |-> f, score |-> score[f]] : f \in Features} : NonZero(c.score)}, Stronger)

\* select_features on the rows of train; empty: it throws.
SelectFeatures(train, y, target) ==
  LET z == Responses(y, target, train)
      intra == [f \in Features |-> MeanOverPrevhashes(train, [c \in ContextsOf(train) |->
                  Within(RowsOf[c] \cap train, cache[f], z)])]
      pooled == [f \in Features |-> Pearson(train, X[f], z)]
  IN  IF target = "quality" THEN TopCandidates(pooled) ELSE TopPrimary(intra)

(***************************************************************************)
(* Nested cross-validation grouped by prevhash.                            *)
(***************************************************************************)
\* Rows dealt out to the folds, whatever their prevhash.
FoldOfRow(S, r, folds, seed) == r % folds

\* grouped_fold_assignment: the prevhashes of S, in the order of their hashes
\* under the seed, are dealt out to the folds in turn.
FoldOf(S, r, folds, seed) ==
  LET order == SelectSeq(hash[seed], LAMBDA p : p \in {Prevhash(q) : q \in S})
  IN  ((CHOOSE i \in DOMAIN order : order[i] = Prevhash(r)) - 1) % folds

Folds == Smaller(OuterFolds, Cardinality(Prevhashes))

\* fit_ridge: everything the coefficients and the scales are computed from.
FitRidge(train, features, lambda, y, target) ==
  [on |-> Responses(y, target, train), features |-> features, lambda |-> lambda]

\* The inner splits of an outer training set, and what each fits and tests.
InnerSplits(train, k, y, target) ==
  LET n == Smaller(4, Cardinality({Prevhash(r) : r \in train}))
      Train(i) == {r \in train : FoldOf(train, r, n, k + 1) # i}
  IN  {[train |-> Train(i), features |-> SelectFeatures(Train(i), y, target),
        tested |-> Responses(y, target, train \ Train(i))] : i \in 0..n - 1}

\* The lambda of an outer fold: the first of the grid, or the one with the least
\* squared error over the inner splits, a function of them.
SelectLambda(grid, splits, y, target) ==
  [grid |-> grid,
   errors |-> {<<FitRidge(s.train, s.features, "each", y, target), s.tested>> : s \in splits}]

\* One pass of the outer loop.  None: select_features threw.
OuterFold(k, grid, y, target) ==
  LET test  == {r \in Rows : FoldOf(Rows, r, Folds, 0) = k}
      train == Rows \ test
      splits == IF Cardinality({Prevhash(r) : r \in train}) >= 3
                THEN InnerSplits(train, k, y, target) ELSE {}
      features == SelectFeatures(train, y, target)
      lambda == SelectLambda(grid, splits, y, target)
  IN  IF features = <<>> \/ \E s \in splits : s.features = <<>>
      THEN None
      ELSE [test |-> test, model |-> FitRidge(train, features, lambda, y, target)]

(***************************************************************************)
(* Permutations.  The replicates shuffle the responses inside every context; *)
(* here the null distribution is the whole group of those shuffles, a set of *)
(* two-row contexts to swap, the identity among them.                        *)
(***************************************************************************)
Shuffles == SUBSET {c \in Contexts : Cardinality(RowsOf[c]) = 2}
Shuffle(z, g) ==
  [r \in Rows |-> IF ContextOf[r] \in g
                  THEN z[CHOOSE q \in RowsOf[ContextOf[r]] : q # r] ELSE z[r]]

\* permutation_analysis of one candidate, chosen on the observed responses.
AsExtremeAlone(f, z) ==
  Cardinality({g \in Shuffles : Abs(PrimaryScore(f, Shuffle(z, g))) >= Abs(PrimaryScore(f, z))})

\* maximum_for_family: the first feature with the largest |score|.
LargestScore(family, score) == Max({Abs(score[f]) : f \in family})
MaximumForFamily(family, score) ==
  Min({f \in family : Abs(score[f]) = LargestScore(family, score)})

\* The shuffled score of the feature that was best before the shuffle.
ShuffledScoreOfBest(family, z, g) ==
  Abs(ScoreAllFeatures(Shuffle(z, g))[MaximumForFamily(family, ScoreAllFeatures(z))])

\* The statistic a shuffle is compared with: the maximum, chosen anew.
ShuffledMaximum(family, z, g) == LargestScore(family, ScoreAllFeatures(Shuffle(z, g)))

\* selection_aware_permutation_analysis, for one family of features.
AsExtreme(family, z) ==
  LET observed == LargestScore(family, ScoreAllFeatures(z))
  IN  Cardinality({g \in Shuffles : ShuffledMaximum(family, z, g) >= observed})
SelectionAware(z) ==
  [observed |-> ScoreAllFeatures(z), best |-> MaximumForFamily(Features \ Sanity, ScoreAllFeatures(z)),
   asExtreme |-> AsExtreme(Features \ Sanity, z), sanity |-> AsExtreme(Sanity, z)]

(***************************************************************************)
(* Top-k selections.                                                       *)
(***************************************************************************)
\* max(1, ceil(n * fraction)), at most n.
TopCount(n, fraction) ==
  LET k == (n * fraction[1] + fraction[2] - 1) \div fraction[2]
  IN  Smaller(n, IF k < 1 THEN 1 ELSE k)
Leading(S, score, descending, n) ==
  {r \in S : Cardinality({q \in S : IF score[q] = score[r] THEN q < r
                                    ELSE (score[q] > score[r]) = descending}) < n}

\* The best rows of S, whatever their contexts.
PooledTopK(S, score, descending, fraction) ==
  Leading(S, score, descending, TopCount(Cardinality(S), fraction))

\* intra_context_topk_selection over the rows S.
IntraTopK(S, score, descending, fraction) ==
  UNION {Leading(RowsOf[c] \cap S, score, descending,
                 TopCount(Cardinality(RowsOf[c] \cap S), fraction)) : c \in ContextsOf(S)}

\* intra_context_topk_analysis: the baselines, the candidates and the model, each
\* selected over all the rows and, for the bootstrap, prevhash by prevhash.
IntraScores(score, model) ==
  {<<X[f], TRUE>> : f \in Sanity} \cup {<<X[f], score[f] >= 0>> : f \in Range(TopPrimary(score))}
    \cup {<<model, TRUE>>}
IntraTopKAnalysis(score, model) ==
  {[fraction |-> t, score |-> s, selected |-> IntraTopK(Rows, s[1], s[2], t),
    groups |-> [p \in Prevhashes |->
                  IntraTopK({r \in Rows : Prevhash(r) = p}, s[1], s[2], t)]] :
     t \in Fractions, s \in IntraScores(score, model)}

\* global_topk_analysis: the same over all the rows at once.
GlobalTopKAnalysis(c, model) ==
  {[fraction |-> t, score |-> s, selected |-> PooledTopK(Rows, s[1], s[2], t)] :
     t \in Fractions,
     s \in {<<X[f], TRUE>> : f \in Sanity} \cup {<<X[f], c[f].xy >= 0>> : f \in Range(TopCandidates(c))}
             \cup {<<model, TRUE>>}}

(***************************************************************************)
(* The two commands, as the sequence of their analyses.                    *)
(***************************************************************************)
Pipeline ==
  [run |-> <<"univariate", "primary", "ranks", "cv rank", "cv quality", "permutation",
             "top-k", "global top-k">>,
   refine |-> <<"ranks", "selection", "cv rank", "top-k", "t30 primary", "t30 selection",
                "cv t30", "t30 top-k">>]
Done == step = Len(Pipeline[command])
At(analysis) == ~Done /\ Pipeline[command][step + 1] = analysis

NoPrediction == [r \in Rows |-> None]
NoStudy == [failed |-> FALSE, tau |-> None, pooled |-> None, score |-> None, t30 |-> None,
            selection |-> None, t30selection |-> None, alone |-> None, topk |-> {}, global |-> {},
            prediction |-> [target \in Targets |-> NoPrediction],
            outer |-> [r \in Rows |-> None]]

AgreeExceptOn(p, a, b) ==
  \A r \in Rows : Prevhash(r) # p => a.quality[r] = b.quality[r] /\ a.t30[r] = b.t30[r]

Init ==
  /\ hash \in HashOrders
  /\ victim \in Prevhashes
  /\ \E a, b \in Labels : /\ a # b /\ AgreeExceptOn(victim, a, b)
                          /\ labels = <<Loaded(a), Loaded(b)>>
  /\ command \in {"run", "refine"}
  /\ step = 0 /\ fold = 0 /\ cache = None
  /\ study = [w \in Worlds |-> NoStudy]

Analyse(analysis) ==
  /\ At(analysis)
  /\ step' = step + 1
  /\ UNCHANGED <<labels, victim, hash, command, fold, cache>>
\* A world that has thrown computes nothing more.
Unless(w, s) == IF study[w].failed THEN study[w] ELSE s

Univariate ==
  /\ Analyse("univariate")
  /\ study' = [w \in Worlds |-> Unless(w, [study[w] EXCEPT
       !.tau = [f \in Features |-> KendallTauB(Rows, X[f], labels[w].quality)],
       !.pooled = [f \in Features |-> Spearman(Rows, X[f], labels[w].quality)]])]

Primary(target, w) == [f \in Features |-> PrimaryScore(f, Responses(labels[w], target, Rows))]
PrimaryFeatures ==
  /\ Analyse("primary")
  /\ study' = [w \in Worlds |-> Unless(w, [study[w] EXCEPT !.score = Primary("rank", w)])]

T30Features ==
  /\ Analyse("t30 primary")
  /\ study' = [w \in Worlds |-> Unless(w, [study[w] EXCEPT !.t30 = Primary("t30", w)])]

PrepareContextFeatureRanks ==
  /\ At("ranks")
  /\ cache' = PreparedRanks /\ step' = step + 1
  /\ UNCHANGED <<labels, victim, hash, command, fold, study>>

Permutation ==
  /\ Analyse("permutation")
  /\ study' = [w \in Worlds |-> Unless(w, [study[w] EXCEPT
       !.alone = [f \in Range(TopPrimary(study[w].score)) |->
                    AsExtremeAlone(f, Responses(labels[w], "rank", Rows))]])]

Selection ==
  /\ Analyse("selection")
  /\ study' = [w \in Worlds |-> Unless(w, [study[w] EXCEPT
       !.selection = SelectionAware(Responses(labels[w], "rank", Rows))])]

T30Selection ==
  /\ Analyse("t30 selection")
  /\ study' = [w \in Worlds |-> Unless(w, [study[w] EXCEPT
       !.t30selection = SelectionAware(Responses(labels[w], "t30", Rows))])]

\* Phase 2 ranks the candidates by the primary scores, the refinement by the scores
\* the selection-aware analysis observed.
IntraContextTopK ==
  /\ Analyse("top-k")
  /\ \E model \in ModelScores :
       study' = [w \in Worlds |-> Unless(w, [study[w] EXCEPT !.topk = IntraTopKAnalysis(
                   IF command = "run" THEN study[w].score ELSE study[w].selection.observed, model)])]

T30TopK ==
  /\ Analyse("t30 top-k")
  /\ \E model \in ModelScores :
       study' = [w \in Worlds |-> Unless(w, [study[w] EXCEPT
                   !.topk = IntraTopKAnalysis(study[w].t30, model)])]

GlobalTopK ==
  /\ Analyse("global top-k")
  /\ \E model \in ModelScores :
       study' = [w \in Worlds |-> Unless(w, [study[w] EXCEPT
                   !.global = GlobalTopKAnalysis(study[w].pooled, model)])]

\* grouped_nested_cv: the predictions are reset with the first fold; a fold fits a
\* model and predicts its rows; after the last one every row must be predicted.
ApplyFold(s, target, result) ==
  LET old == IF fold = 0 THEN NoPrediction ELSE s.prediction[target]
      new == [r \in Rows |-> IF r \in result.test THEN result.model ELSE old[r]]
  IN  [s EXCEPT !.prediction[target] = new,
                !.outer = [r \in Rows |-> IF r \in result.test THEN fold ELSE s.outer[r]],
                !.failed = fold = Folds - 1 /\ \E r \in Rows : new[r] = None]

CrossValidate(analysis, target) ==
  /\ At(analysis)
  /\ study' = [w \in Worlds |->
       LET result == OuterFold(fold, command, labels[w], target)
       IN  Unless(w, IF result = None THEN [study[w] EXCEPT !.failed = TRUE]
                     ELSE ApplyFold(study[w], target, result))]
  /\ IF fold = Folds - 1 THEN fold' = 0 /\ step' = step + 1
                         ELSE fold' = fold + 1 /\ step' = step
  /\ UNCHANGED <<labels, victim, hash, command, cache>>

RankCv == CrossValidate("cv rank", "rank")
QualityCv == CrossValidate("cv quality", "quality")
T30Cv == CrossValidate("cv t30", "t30")

Next ==
  \/ Univariate \/ PrimaryFeatures \/ T30Features \/ PrepareContextFeatureRanks
  \/ RankCv \/ QualityCv \/ T30Cv
  \/ Permutation \/ Selection \/ T30Selection
  \/ IntraContextTopK \/ T30TopK \/ GlobalTopK

Spec == Init /\ [][Next]_vars
-----------------------------------------------------------------------------
(***************************************************************************)
(* Properties.                                                             *)
(***************************************************************************)
\* No label of a prevhash has a part in what is predicted for its rows: the two
\* worlds, whose labels differ only on the victim's rows, fit the same models for
\* them, features, training responses and inner errors included, for all three
\* targets (train, test and inner splits of grouped_nested_cv, select_features and
\* fit_ridge on training rows only).
OutOfFold ==
  \A target \in Targets, r \in Rows :
    LET Predicted(w) == study[w].prediction[target][r]
    IN  (Prevhash(r) = victim /\ Predicted(1) # None /\ Predicted(2) # None)
          => Predicted(1) = Predicted(2)

\* The p-value of the selection-aware test is exact: over all the shuffles of the
\* responses, at most k of them have at most k shuffles as extreme as themselves,
\* because every shuffle is scored by the maximum over features chosen for it.
MaxStatisticIsExact ==
  study[1].selection # None /\ Pipeline[command][step] = "selection" =>
    LET z == Responses(labels[1], "rank", Rows)
        size == [g \in Shuffles |-> AsExtreme(Features \ Sanity, Shuffle(z, g))]
    IN  \A k \in Range(size) : Cardinality({g \in Shuffles : size[g] <= k}) <= k

\* The two implementations of the primary statistic agree: the scores computed from
\* the raw features, prevhash by prevhash, and those of the one-pass weighted sum
\* over the prepared ranks, although the refinement ranks T30 candidates by the
\* first and tests them by the second.
ScoresAgree ==
  \A w \in Worlds : study[w].t30 # None /\ study[w].t30selection # None
                      => study[w].t30 = study[w].t30selection.observed

\* kendall_tau_b counts pairs: concordant and discordant pairs, and pairs not tied
\* in x and in y, are those of the definition, whatever the ties.
KendallCountsPairs ==
  \A w \in Worlds : study[w].tau # None =>
    \A f \in Features :
      LET y == labels[w].quality
          Pairs == {p \in Rows \X Rows : p[1] < p[2]}
          Product(p) == Sign(X[f][p[1]] - X[f][p[2]]) * Sign(y[p[1]] - y[p[2]])
          t == study[w].tau[f]
      IN  /\ t.concordant = Cardinality({p \in Pairs : Product(p) = 1})
          /\ t.discordant = Cardinality({p \in Pairs : Product(p) = -1})
          /\ t.untied_x = Cardinality({p \in Pairs : X[f][p[1]] # X[f][p[2]]})
          /\ t.untied_y = Cardinality({p \in Pairs : y[p[1]] # y[p[2]]})

\* The bootstrap resamples what was selected: the selections made prevhash by
\* prevhash are together the selection over all the rows, which takes at least one
\* row of every context (intra_context_topk_selection, used for both).
TopKDecomposes ==
  \A w \in Worlds : \A t \in study[w].topk :
    /\ t.selected = UNION Range(t.groups)
    /\ ContextsOf(t.selected) = Contexts

\* The statistics reported beside the models are those of their definitions: the
\* primary score in both of its implementations (primary_feature_analysis,
\* score_all_features), tau-b over pairs (kendall_tau_b), the top-k selections
\* over all contexts (intra_context_topk_selection).
StatisticsAreExact == ScoresAgree /\ KendallCountsPairs /\ TopKDecomposes
=============================================================================
