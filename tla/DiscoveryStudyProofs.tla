------------------------- MODULE DiscoveryStudyProofs -------------------------
(***************************************************************************)
(* What the studies promise of their statistics, for every feature matrix,   *)
(* every label table and every assignment of contexts to prevhashes: no      *)
(* label of a prevhash has a part in what is predicted for it, and the       *)
(* selection-aware permutation test is exact.                              *)
(***************************************************************************)
EXTENDS DiscoveryStudy, TLAPS, FiniteSetTheorems, WellFoundedInduction

-----------------------------------------------------------------------------
(***************************************************************************)
(* Two label tables that agree off the rows of one prevhash.               *)
(***************************************************************************)
\* The targets of the two worlds agree on the rows of every other prevhash.
LabelsAgree ==
  \A target \in Targets, r \in Rows :
    Prevhash(r) # victim => labels[1][target][r] = labels[2][target][r]

\* A context score is computed inside the context, which has one prevhash.
LEMMA ContextScoreLocal ==
  ASSUME NEW u, NEW v, NEW r \in Rows,
         \A q \in RowsOf[ContextOf[r]] : u[q] = v[q]
  PROVE  ContextScore(u, r) = ContextScore(v, r)
<1> DEFINE S == RowsOf[ContextOf[r]]
<1>1. [q \in S |-> -u[q]] = [q \in S |-> -v[q]]
  OBVIOUS
<1>2. RankDown(S, u, r) = RankDown(S, v, r)
  <2> HIDE DEF S
  <2> QED BY <1>1 DEF RankDown
<1> QED BY <1>2 DEF ContextScore

\* Tables that agree off a prevhash load targets that agree off it.
LEMMA LoadedAgree ==
  ASSUME NEW a, NEW b, NEW p, AgreeExceptOn(p, a, b), NEW target \in Targets, NEW r \in Rows,
         Prevhash(r) # p
  PROVE  Loaded(a)[target][r] = Loaded(b)[target][r]
<1>1. RowsOf[ContextOf[r]] = {q \in Rows : ContextOf[q] = ContextOf[r]}
  BY StudyAssumption DEF RowsOf
<1>2. \A q \in RowsOf[ContextOf[r]] : a.quality[q] = b.quality[q] /\ a.t30[q] = b.t30[q]
  BY <1>1 DEF AgreeExceptOn, Prevhash
<1>3. ContextScore(a.quality, r) = ContextScore(b.quality, r)
  BY <1>2, ContextScoreLocal
<1>4. ContextScore(a.t30, r) = ContextScore(b.t30, r)
  BY <1>2, ContextScoreLocal
<1>5. a.quality[r] = b.quality[r]
  BY DEF AgreeExceptOn
<1>6. CASE target = "quality"
  BY <1>5, <1>6 DEF Loaded
<1>7. CASE target = "rank"
  BY <1>3, <1>7 DEF Loaded
<1>8. CASE target = "t30"
  BY <1>4, <1>8 DEF Loaded
<1> QED BY <1>6, <1>7, <1>8 DEF Targets

-----------------------------------------------------------------------------
(***************************************************************************)
(* What an outer fold computes from the labels.                            *)
(***************************************************************************)
\* The labels y and z give the same responses on every set of rows of a training set.
SameOn(train, y, z, target) ==
  \A S \in SUBSET train : Responses(y, target, S) = Responses(z, target, S)

\* select_features from the responses of the training rows.
SelectFrom(train, z, target) ==
  LET intra == [f \in Features |-> MeanOverPrevhashes(train, [c \in ContextsOf(train) |->
                  Within(RowsOf[c] \cap train, cache[f], z)])]
      pooled == [f \in Features |-> Pearson(train, X[f], z)]
  IN  IF target = "quality" THEN TopCandidates(pooled) ELSE TopPrimary(intra)

\* The features selected are a function of the responses of the training rows.
LEMMA SelectSame ==
  ASSUME NEW train, NEW y, NEW z, NEW target, SameOn(train, y, z, target), NEW S \in SUBSET train
  PROVE  SelectFeatures(S, y, target) = SelectFeatures(S, z, target)
<1>1. /\ SelectFeatures(S, y, target) = SelectFrom(S, Responses(y, target, S), target)
      /\ SelectFeatures(S, z, target) = SelectFrom(S, Responses(z, target, S), target)
  BY Zenon DEF SelectFeatures, SelectFrom
<1>2. Responses(y, target, S) = Responses(z, target, S)
  BY DEF SameOn
<1> QED BY <1>1, <1>2

\* So is a fit, given its features.
LEMMA FitSame ==
  ASSUME NEW train, NEW y, NEW z, NEW target, SameOn(train, y, z, target), NEW S \in SUBSET train,
         NEW features, NEW lambda
  PROVE  FitRidge(S, features, lambda, y, target) = FitRidge(S, features, lambda, z, target)
<1>1. Responses(y, target, S) = Responses(z, target, S)
  BY DEF SameOn
<1> QED BY <1>1 DEF FitRidge

\* The inner splits are those of the training rows, and lie inside them.
LEMMA SplitsSame ==
  ASSUME NEW train, NEW k, NEW y, NEW z, NEW target, SameOn(train, y, z, target)
  PROVE  /\ InnerSplits(train, k, y, target) = InnerSplits(train, k, z, target)
         /\ \A s \in InnerSplits(train, k, y, target) : s.train \in SUBSET train
<1> DEFINE n == Smaller(4, Cardinality({Prevhash(r) : r \in train}))
           Train(i) == {r \in train : FoldOf(train, r, n, k + 1) # i}
           Split(i, x) == [train |-> Train(i), features |-> SelectFeatures(Train(i), x, target),
                           tested |-> Responses(x, target, train \ Train(i))]
<1>1. /\ InnerSplits(train, k, y, target) = {Split(i, y) : i \in 0..n - 1}
      /\ InnerSplits(train, k, z, target) = {Split(i, z) : i \in 0..n - 1}
  BY Zenon DEF InnerSplits
<1>2. ASSUME NEW i PROVE Split(i, y) = Split(i, z) /\ Split(i, y).train \in SUBSET train
  <2>1. Train(i) \in SUBSET train /\ train \ Train(i) \in SUBSET train
    OBVIOUS
  <2> HIDE DEF Train
  <2>2. SelectFeatures(Train(i), y, target) = SelectFeatures(Train(i), z, target)
    BY <2>1, SelectSame
  <2>3. Responses(y, target, train \ Train(i)) = Responses(z, target, train \ Train(i))
    BY <2>1 DEF SameOn
  <2> QED BY <2>1, <2>2, <2>3
<1> HIDE DEF Split, n
<1> QED BY <1>1, <1>2

\* An outer fold is a function of the responses of its training rows.
LEMMA OuterFoldSame ==
  ASSUME NEW k, NEW grid, NEW y, NEW z, NEW target,
         SameOn({r \in Rows : FoldOf(Rows, r, Folds, 0) # k}, y, z, target)
  PROVE  OuterFold(k, grid, y, target) = OuterFold(k, grid, z, target)
<1> DEFINE test == {r \in Rows : FoldOf(Rows, r, Folds, 0) = k}
           train == Rows \ test
           Splits(x) == IF Cardinality({Prevhash(r) : r \in train}) >= 3
                        THEN InnerSplits(train, k, x, target) ELSE {}
           features(x) == SelectFeatures(train, x, target)
           lambda(x) == SelectLambda(grid, Splits(x), x, target)
           Result(x) == IF features(x) = <<>> \/ \E s \in Splits(x) : s.features = <<>>
                        THEN None
                        ELSE [test |-> test, model |-> FitRidge(train, features(x), lambda(x), x, target)]
<1>1. OuterFold(k, grid, y, target) = Result(y) /\ OuterFold(k, grid, z, target) = Result(z)
  BY Zenon DEF OuterFold
<1>2. train = {r \in Rows : FoldOf(Rows, r, Folds, 0) # k}
  OBVIOUS
<1>3. SameOn(train, y, z, target)
  BY <1>2, Zenon
<1> HIDE DEF train, test
<1>4. train \in SUBSET train
  OBVIOUS
<1>5. features(y) = features(z)
  BY <1>3, <1>4, SelectSame
<1>6. Splits(y) = Splits(z) /\ \A s \in Splits(y) : s.train \in SUBSET train
  BY <1>3, SplitsSame
<1> HIDE DEF Splits, features
<1>7. lambda(y) = lambda(z)
  <2> DEFINE Error(s, x) == <<FitRidge(s.train, s.features, "each", x, target), s.tested>>
  <2>1. /\ lambda(y) = [grid |-> grid, errors |-> {Error(s, y) : s \in Splits(y)}]
        /\ lambda(z) = [grid |-> grid, errors |-> {Error(s, z) : s \in Splits(z)}]
    BY Zenon DEF SelectLambda
  <2>2. \A s \in Splits(y) : Error(s, y) = Error(s, z)
    BY <1>3, <1>6, FitSame
  <2> HIDE DEF Error, lambda
  <2>3. {Error(s, y) : s \in Splits(y)} = {Error(s, z) : s \in Splits(z)}
    BY <2>2, <1>6
  <2> QED BY <2>1, <2>3
<1> HIDE DEF lambda
<1>8. FitRidge(train, features(y), lambda(y), y, target) = FitRidge(train, features(z), lambda(z), z, target)
  <2>1. PICK f, l : f = features(y) /\ l = lambda(y)
    OBVIOUS
  <2>2. FitRidge(train, f, l, y, target) = FitRidge(train, f, l, z, target)
    BY <1>3, <1>4, FitSame
  <2> QED BY <2>1, <2>2, <1>5, <1>7
<1>9. Result(y) = Result(z)
  BY <1>5, <1>6, <1>8
<1> QED BY <1>1, <1>9

\* The fold of a prevhash, which is that of each of its rows.
FoldOfPrevhash(S, p, folds, seed) ==
  LET order == SelectSeq(hash[seed], LAMBDA q : q \in {Prevhash(r) : r \in S})
  IN  ((CHOOSE i \in DOMAIN order : order[i] = p) - 1) % folds

\* The rows of a prevhash are tested in the same fold.
LEMMA FoldOfSame ==
  ASSUME NEW q, NEW r, Prevhash(q) = Prevhash(r)
  PROVE  FoldOf(Rows, q, Folds, 0) = FoldOf(Rows, r, Folds, 0)
<1>1. \A x : FoldOf(Rows, x, Folds, 0) = FoldOfPrevhash(Rows, Prevhash(x), Folds, 0)
  BY Zenon DEF FoldOf, FoldOfPrevhash
<1> QED BY <1>1

\* The two worlds compute the same in the fold in which the victim is tested.
LEMMA VictimFoldSame ==
  ASSUME LabelsAgree, NEW r \in Rows, Prevhash(r) = victim, NEW target \in Targets, NEW grid
  PROVE  OuterFold(FoldOf(Rows, r, Folds, 0), grid, labels[1], target)
           = OuterFold(FoldOf(Rows, r, Folds, 0), grid, labels[2], target)
<1> DEFINE k == FoldOf(Rows, r, Folds, 0)
           train == {q \in Rows : FoldOf(Rows, q, Folds, 0) # k}
<1>1. \A q \in train : q \in Rows /\ Prevhash(q) # victim
  BY FoldOfSame
<1>2. SameOn(train, labels[1], labels[2], target)
  <2> HIDE DEF train
  <2> SUFFICES ASSUME NEW S \in SUBSET train
               PROVE  Responses(labels[1], target, S) = Responses(labels[2], target, S)
    BY DEF SameOn
  <2>1. \A q \in S : labels[1][target][q] = labels[2][target][q]
    BY <1>1 DEF LabelsAgree
  <2> QED BY <2>1 DEF Responses
<1> HIDE DEF k
<1>3. OuterFold(k, grid, labels[1], target) = OuterFold(k, grid, labels[2], target)
  BY <1>2, OuterFoldSame
<1> QED BY <1>3 DEF k

-----------------------------------------------------------------------------
(***************************************************************************)
(* The predictions.                                                        *)
(***************************************************************************)
\* A study is the record of its fields, with a prediction for every target.
IsStudy(s) ==
  /\ s = [failed |-> s.failed, tau |-> s.tau, pooled |-> s.pooled, score |-> s.score, t30 |-> s.t30,
          selection |-> s.selection, t30selection |-> s.t30selection, alone |-> s.alone,
          topk |-> s.topk, global |-> s.global, prediction |-> s.prediction, outer |-> s.outer]
  /\ s.prediction = [target \in Targets |-> s.prediction[target]]

\* What is predicted for a row is what its outer fold makes of the labels.
PredictionsOf(s, y) ==
  \A target \in Targets, r \in Rows :
    s.prediction[target][r] # None =>
      s.prediction[target][r] = OuterFold(FoldOf(Rows, r, Folds, 0), command, y, target).model

\* Before the ranks are prepared nothing is predicted.
RanksStep == IF command = "run" THEN 3 ELSE 1

NothingPredicted(s) == \A target \in Targets, r \in Rows : s.prediction[target][r] = None

OutOfFoldInv ==
  /\ LabelsAgree /\ command \in {"run", "refine"} /\ step \in 0..8
  /\ study = [w \in Worlds |-> study[w]]
  /\ \A w \in Worlds : /\ IsStudy(study[w]) /\ PredictionsOf(study[w], labels[w])
                       /\ step < RanksStep => NothingPredicted(study[w])

\* Where the analyses are in the two pipelines.
LEMMA PipelineAt ==
  ASSUME command \in {"run", "refine"}, step \in 0..8, NEW analysis, At(analysis)
  PROVE  /\ step + 1 \in 0..8
         /\ analysis = "ranks" => step < RanksStep
         /\ analysis \in {"cv rank", "cv quality", "cv t30"} => ~(step < RanksStep)
<1>1. CASE command = "run"
  <2>1. PICK p : p = Pipeline[command]
    OBVIOUS
  <2>2. /\ p[1] = "univariate" /\ p[2] = "primary" /\ p[3] = "ranks" /\ p[4] = "cv rank"
        /\ p[5] = "cv quality" /\ p[6] = "permutation" /\ p[7] = "top-k" /\ p[8] = "global top-k"
        /\ Len(p) = 8
    BY <1>1, <2>1 DEF Pipeline
  <2>3. step # Len(p) /\ analysis = p[step + 1]
    BY <2>1 DEF At, Done
  <2>4. step # 8
    BY <2>2, <2>3
  <2>5. step \in 0..7
    BY <2>4
  <2>6. step = 0 \/ step = 1 \/ step = 2 \/ step = 3 \/ step = 4 \/ step = 5 \/ step = 6 \/ step = 7
    BY <2>5
  <2>7. /\ analysis = "ranks" => step = 2
        /\ analysis \in {"cv rank", "cv quality", "cv t30"} => step \in {3, 4}
    <3>1. CASE step = 0
      <4>1. step + 1 = 1
        BY <3>1
      <4>2. analysis = "univariate"
        BY <4>1, <2>2, <2>3, Zenon
      <4> QED BY <4>2, <3>1
    <3>2. CASE step = 1
      <4>1. step + 1 = 2
        BY <3>2
      <4>2. analysis = "primary"
        BY <4>1, <2>2, <2>3, Zenon
      <4> QED BY <4>2, <3>2
    <3>3. CASE step = 2
      <4>1. step + 1 = 3
        BY <3>3
      <4>2. analysis = "ranks"
        BY <4>1, <2>2, <2>3, Zenon
      <4> QED BY <4>2, <3>3
    <3>4. CASE step = 3
      <4>1. step + 1 = 4
        BY <3>4
      <4>2. analysis = "cv rank"
        BY <4>1, <2>2, <2>3, Zenon
      <4> QED BY <4>2, <3>4
    <3>5. CASE step = 4
      <4>1. step + 1 = 5
        BY <3>5
      <4>2. analysis = "cv quality"
        BY <4>1, <2>2, <2>3, Zenon
      <4> QED BY <4>2, <3>5
    <3>6. CASE step = 5
      <4>1. step + 1 = 6
        BY <3>6
      <4>2. analysis = "permutation"
        BY <4>1, <2>2, <2>3, Zenon
      <4> QED BY <4>2, <3>6
    <3>7. CASE step = 6
      <4>1. step + 1 = 7
        BY <3>7
      <4>2. analysis = "top-k"
        BY <4>1, <2>2, <2>3, Zenon
      <4> QED BY <4>2, <3>7
    <3>8. CASE step = 7
      <4>1. step + 1 = 8
        BY <3>8
      <4>2. analysis = "global top-k"
        BY <4>1, <2>2, <2>3, Zenon
      <4> QED BY <4>2, <3>8
    <3> QED BY <2>6, <3>1, <3>2, <3>3, <3>4, <3>5, <3>6, <3>7, <3>8
  <2>8. RanksStep = 3
    BY <1>1 DEF RanksStep
  <2>9. step + 1 \in 0..8
    BY <2>5
  <2>10. (step = 2 => step < 3) /\ (step \in {3, 4} => ~(step < 3))
    BY <2>5
  <2> QED BY <2>7, <2>8, <2>9, <2>10
<1>2. CASE command = "refine"
  <2>1. PICK p : p = Pipeline[command]
    OBVIOUS
  <2>2. /\ p[1] = "ranks" /\ p[2] = "selection" /\ p[3] = "cv rank" /\ p[4] = "top-k"
        /\ p[5] = "t30 primary" /\ p[6] = "t30 selection" /\ p[7] = "cv t30" /\ p[8] = "t30 top-k"
        /\ Len(p) = 8
    BY <1>2, <2>1 DEF Pipeline
  <2>3. step # Len(p) /\ analysis = p[step + 1]
    BY <2>1 DEF At, Done
  <2>4. step # 8
    BY <2>2, <2>3
  <2>5. step \in 0..7
    BY <2>4
  <2>6. step = 0 \/ step = 1 \/ step = 2 \/ step = 3 \/ step = 4 \/ step = 5 \/ step = 6 \/ step = 7
    BY <2>5
  <2>7. /\ analysis = "ranks" => step = 0
        /\ analysis \in {"cv rank", "cv quality", "cv t30"} => step \in {2, 6}
    <3>1. CASE step = 0
      <4>1. step + 1 = 1
        BY <3>1
      <4>2. analysis = "ranks"
        BY <4>1, <2>2, <2>3, Zenon
      <4> QED BY <4>2, <3>1
    <3>2. CASE step = 1
      <4>1. step + 1 = 2
        BY <3>2
      <4>2. analysis = "selection"
        BY <4>1, <2>2, <2>3, Zenon
      <4> QED BY <4>2, <3>2
    <3>3. CASE step = 2
      <4>1. step + 1 = 3
        BY <3>3
      <4>2. analysis = "cv rank"
        BY <4>1, <2>2, <2>3, Zenon
      <4> QED BY <4>2, <3>3
    <3>4. CASE step = 3
      <4>1. step + 1 = 4
        BY <3>4
      <4>2. analysis = "top-k"
        BY <4>1, <2>2, <2>3, Zenon
      <4> QED BY <4>2, <3>4
    <3>5. CASE step = 4
      <4>1. step + 1 = 5
        BY <3>5
      <4>2. analysis = "t30 primary"
        BY <4>1, <2>2, <2>3, Zenon
      <4> QED BY <4>2, <3>5
    <3>6. CASE step = 5
      <4>1. step + 1 = 6
        BY <3>6
      <4>2. analysis = "t30 selection"
        BY <4>1, <2>2, <2>3, Zenon
      <4> QED BY <4>2, <3>6
    <3>7. CASE step = 6
      <4>1. step + 1 = 7
        BY <3>7
      <4>2. analysis = "cv t30"
        BY <4>1, <2>2, <2>3, Zenon
      <4> QED BY <4>2, <3>7
    <3>8. CASE step = 7
      <4>1. step + 1 = 8
        BY <3>8
      <4>2. analysis = "t30 top-k"
        BY <4>1, <2>2, <2>3, Zenon
      <4> QED BY <4>2, <3>8
    <3> QED BY <2>6, <3>1, <3>2, <3>3, <3>4, <3>5, <3>6, <3>7, <3>8
  <2>8. RanksStep = 1
    BY <1>2 DEF RanksStep
  <2>9. step + 1 \in 0..8
    BY <2>5
  <2>10. (step = 0 => step < 1) /\ (step \in {2, 6} => ~(step < 1))
    BY <2>5
  <2> QED BY <2>7, <2>8, <2>9, <2>10
<1> QED BY <1>1, <1>2

\* What a fold computes depends on the hash orders and on the prepared ranks, which
\* do not change once the ranks are prepared.  The fold under one order:
FoldUnder(order, S, r, n) ==
  LET dealt == SelectSeq(order, LAMBDA p : p \in {Prevhash(q) : q \in S})
  IN  ((CHOOSE i \in DOMAIN dealt : dealt[i] = Prevhash(r)) - 1) % n

\* The fold of a row is the fold under the order of the seed.
LEMMA FoldOfIs == \A S, r, n, seed : FoldOf(S, r, n, seed) = FoldUnder(hash[seed], S, r, n)
BY Zenon DEF FoldOf, FoldUnder

\* Folds do not move while the orders do not.
LEMMA FoldOfFrame ==
  ASSUME hash' = hash
  PROVE  \A S, r, n, seed : FoldOf(S, r, n, seed)' = FoldOf(S, r, n, seed)
<1>1. (\A S, r, n, seed : FoldOf(S, r, n, seed) = FoldUnder(hash[seed], S, r, n))'
  BY FoldOfIs, PTL
<1> QED BY <1>1, FoldOfIs

\* Nor does a selection of features while the ranks are the same.
LEMMA SelectFrame ==
  ASSUME cache' = cache
  PROVE  \A S, y, target : SelectFeatures(S, y, target)' = SelectFeatures(S, y, target)
BY SMT DEF SelectFeatures

\* Nor do the inner splits.
LEMMA SplitsFrame ==
  ASSUME hash' = hash, cache' = cache,
         NEW CONSTANT train, NEW CONSTANT k, NEW CONSTANT y, NEW CONSTANT target
  PROVE  InnerSplits(train, k, y, target)' = InnerSplits(train, k, y, target)
<1> DEFINE n == Smaller(4, Cardinality({Prevhash(r) : r \in train}))
           Train(i) == {r \in train : FoldOf(train, r, n, k + 1) # i}
           Split(i) == [train |-> Train(i), features |-> SelectFeatures(Train(i), y, target),
                        tested |-> Responses(y, target, train \ Train(i))]
<1>1. InnerSplits(train, k, y, target) = {Split(i) : i \in 0..n - 1}
  BY Zenon DEF InnerSplits
<1>2. InnerSplits(train, k, y, target)' = {Split(i)' : i \in 0..n - 1}
  BY Zenon DEF InnerSplits
<1>3. ASSUME NEW CONSTANT i PROVE Split(i)' = Split(i)
  <2>1. Train(i)' = Train(i)
    BY FoldOfFrame
  <2>2. PICK T : T = Train(i)
    OBVIOUS
  <2>3. SelectFeatures(Train(i), y, target)' = SelectFeatures(Train(i), y, target)
    BY <2>1, <2>2, SelectFrame
  <2> HIDE DEF Train
  <2> QED BY <2>1, <2>3
<1> HIDE DEF Split, n
<1> QED BY <1>1, <1>2, <1>3

\* Nor does what an outer fold computes.
LEMMA OuterFoldFrame ==
  ASSUME hash' = hash, cache' = cache,
         NEW CONSTANT k, NEW CONSTANT grid, NEW CONSTANT y, NEW CONSTANT target
  PROVE  OuterFold(k, grid, y, target)' = OuterFold(k, grid, y, target)
<1> DEFINE test == {r \in Rows : FoldOf(Rows, r, Folds, 0) = k}
           train == Rows \ test
<1>1. test' = test /\ train' = train
  BY FoldOfFrame
<1>2. InnerSplits(train, k, y, target)' = InnerSplits(train, k, y, target)
  BY <1>1, SplitsFrame
<1>3. SelectFeatures(train, y, target)' = SelectFeatures(train, y, target)
  BY <1>1, SelectFrame
<1> QED BY <1>1, <1>2, <1>3 DEF OuterFold

\* Predictions stay those of the folds while folds and labels do not move.
LEMMA PredictionsFrame ==
  ASSUME hash' = hash, cache' = cache, command' = command,
         NEW CONSTANT s, NEW CONSTANT y, PredictionsOf(s, y)
  PROVE  PredictionsOf(s, y)'
<1> SUFFICES ASSUME NEW target \in Targets, NEW r \in Rows, s.prediction[target][r] # None
             PROVE  s.prediction[target][r]
                      = OuterFold(FoldOf(Rows, r, Folds, 0), command, y, target)'.model
  BY SMT DEF PredictionsOf
<1>1. PICK k, c : k = FoldOf(Rows, r, Folds, 0) /\ c = command
  OBVIOUS
<1>2. OuterFold(k, c, y, target)' = OuterFold(k, c, y, target)
  BY OuterFoldFrame
<1>3. FoldOf(Rows, r, Folds, 0)' = FoldOf(Rows, r, Folds, 0)
  BY FoldOfFrame
<1>4. OuterFold(FoldOf(Rows, r, Folds, 0), command, y, target)' = OuterFold(k, c, y, target)
  BY <1>1, <1>2, <1>3
<1>5. s.prediction[target][r] = OuterFold(k, c, y, target).model
  BY <1>1 DEF PredictionsOf
<1> QED BY <1>4, <1>5

\* An analysis that leaves the predictions of both worlds alone keeps the invariant.
LEMMA KeepsPredictions ==
  ASSUME OutOfFoldInv, NEW analysis, Analyse(analysis), NEW CONSTANT new,
         study' = [w \in Worlds |-> Unless(w, new[w])],
         \A w \in Worlds : IsStudy(new[w]) /\ new[w].prediction = study[w].prediction
  PROVE  OutOfFoldInv'
<1>1. /\ labels' = labels /\ victim' = victim /\ hash' = hash /\ command' = command
      /\ cache' = cache /\ step' = step + 1 /\ At(analysis)
  BY DEF Analyse
<1>2. step' \in 0..8
  BY <1>1, PipelineAt DEF OutOfFoldInv
<1>3. ASSUME NEW w \in Worlds
      PROVE  /\ study'[w] = Unless(w, new[w])
             /\ IsStudy(study'[w])
             /\ study'[w].prediction = study[w].prediction
  BY DEF Unless, OutOfFoldInv
<1>4. study' = [w \in Worlds |-> study'[w]]
  BY <1>3
<1>5. ASSUME NEW w \in Worlds PROVE PredictionsOf(study[w], labels[w])'
  <2>1. PICK s, y : s = study'[w] /\ y = labels[w]
    OBVIOUS
  <2>2. PredictionsOf(s, y)
    BY <2>1, <1>3 DEF PredictionsOf, OutOfFoldInv
  <2>3. PredictionsOf(s, y)'
    BY <2>2, <1>1, PredictionsFrame
  <2>4. labels[w]' = y /\ study[w]' = s
    BY <2>1, <1>1
  <2> QED BY <2>3, <2>4
<1>6. LabelsAgree'
  BY <1>1 DEF LabelsAgree, OutOfFoldInv
<1>7. ASSUME NEW w \in Worlds, step' < RanksStep' PROVE NothingPredicted(study'[w])
  <2>1. step < RanksStep
    <3>1. RanksStep' = RanksStep /\ RanksStep \in {1, 3}
      BY <1>1 DEF RanksStep
    <3> QED BY <3>1, <1>1, <1>7 DEF OutOfFoldInv
  <2> QED BY <2>1, <1>3 DEF NothingPredicted, OutOfFoldInv
<1> QED BY <1>1, <1>2, <1>3, <1>4, <1>5, <1>6, <1>7 DEF OutOfFoldInv

\* The record s with every field but the prediction as given.
Keeps(s, t) == IsStudy(t) /\ t.prediction = s.prediction

\* A study with another field set is a study with the same predictions.
LEMMA SetField ==
  ASSUME NEW s, IsStudy(s), NEW v
  PROVE  /\ Keeps(s, [s EXCEPT !.tau = v]) /\ Keeps(s, [s EXCEPT !.pooled = v])
         /\ Keeps(s, [s EXCEPT !.score = v]) /\ Keeps(s, [s EXCEPT !.t30 = v])
         /\ Keeps(s, [s EXCEPT !.selection = v]) /\ Keeps(s, [s EXCEPT !.t30selection = v])
         /\ Keeps(s, [s EXCEPT !.alone = v]) /\ Keeps(s, [s EXCEPT !.topk = v])
         /\ Keeps(s, [s EXCEPT !.global = v]) /\ Keeps(s, [s EXCEPT !.failed = v])
<1>1. Keeps(s, [s EXCEPT !.tau = v])
  BY DEF IsStudy, Keeps
<1>2. Keeps(s, [s EXCEPT !.pooled = v])
  BY DEF IsStudy, Keeps
<1>3. Keeps(s, [s EXCEPT !.score = v])
  BY DEF IsStudy, Keeps
<1>4. Keeps(s, [s EXCEPT !.t30 = v])
  BY DEF IsStudy, Keeps
<1>5. Keeps(s, [s EXCEPT !.selection = v])
  BY DEF IsStudy, Keeps
<1>6. Keeps(s, [s EXCEPT !.t30selection = v])
  BY DEF IsStudy, Keeps
<1>7. Keeps(s, [s EXCEPT !.alone = v])
  BY DEF IsStudy, Keeps
<1>8. Keeps(s, [s EXCEPT !.topk = v])
  BY DEF IsStudy, Keeps
<1>9. Keeps(s, [s EXCEPT !.global = v])
  BY DEF IsStudy, Keeps
<1>10. Keeps(s, [s EXCEPT !.failed = v])
  BY DEF IsStudy, Keeps
<1> QED BY <1>1, <1>2, <1>3, <1>4, <1>5, <1>6, <1>7, <1>8, <1>9, <1>10

\* The analyses other than the cross-validations predict nothing: each sets fields of
\* its own and leaves the predictions alone.
LEMMA AnalysesKeep ==
  ASSUME OutOfFoldInv,
         Univariate \/ PrimaryFeatures \/ T30Features \/ Permutation \/ Selection
           \/ T30Selection \/ IntraContextTopK \/ T30TopK \/ GlobalTopK
  PROVE  OutOfFoldInv'
<1>0. \A w \in Worlds : IsStudy(study[w])
  BY DEF OutOfFoldInv
<1>1. CASE Univariate
  <2> DEFINE New(w) == [study[w] EXCEPT
             !.tau = [f \in Features |-> KendallTauB(Rows, X[f], labels[w].quality)],
             !.pooled = [f \in Features |-> Spearman(Rows, X[f], labels[w].quality)]]
  <2>2. PICK new : new = [w \in Worlds |-> New(w)]
    OBVIOUS
  <2>3. Analyse("univariate") /\ study' = [w \in Worlds |-> Unless(w, New(w))]
    BY <1>1, Zenon DEF Univariate
  <2>4. ASSUME NEW w \in Worlds
        PROVE  new[w] = New(w) /\ IsStudy(New(w)) /\ New(w).prediction = study[w].prediction
    <3>1. new[w] = New(w)
      BY <2>2
    <3>2. IsStudy(study[w])
      BY <1>0
    <3>3. PICK a, b : /\ a = [f \in Features |-> KendallTauB(Rows, X[f], labels[w].quality)]
                      /\ b = [f \in Features |-> Spearman(Rows, X[f], labels[w].quality)]
      OBVIOUS
    <3>4. New(w) = [[study[w] EXCEPT !.tau = a] EXCEPT !.pooled = b]
      BY <3>3, Zenon
    <3>5. PICK s : s = [study[w] EXCEPT !.tau = a]
      OBVIOUS
    <3>6. Keeps(study[w], s)
      BY <3>2, <3>5, SetField
    <3>7. Keeps(s, [s EXCEPT !.pooled = b])
      BY <3>6, SetField DEF Keeps
    <3> QED BY <3>1, <3>4, <3>5, <3>6, <3>7, Zenon DEF Keeps
  <2> HIDE DEF New
  <2>5. study' = [w \in Worlds |-> Unless(w, new[w])]
    BY <2>3, <2>4
  <2>6. \A w \in Worlds : IsStudy(new[w]) /\ new[w].prediction = study[w].prediction
    BY <2>4, Zenon
  <2> QED BY <2>3, <2>5, <2>6, KeepsPredictions
<1>2. CASE PrimaryFeatures
  <2> DEFINE New(w) == [study[w] EXCEPT !.score = Primary("rank", w)]
  <2>2. PICK new : new = [w \in Worlds |-> New(w)]
    OBVIOUS
  <2>3. Analyse("primary") /\ study' = [w \in Worlds |-> Unless(w, New(w))]
    BY <1>2, Zenon DEF PrimaryFeatures
  <2>4. ASSUME NEW w \in Worlds
        PROVE  new[w] = New(w) /\ IsStudy(New(w)) /\ New(w).prediction = study[w].prediction
    <3>1. new[w] = New(w)
      BY <2>2
    <3>2. IsStudy(study[w])
      BY <1>0
    <3> QED BY <3>1, <3>2, SetField DEF Keeps
  <2> HIDE DEF New
  <2>5. study' = [w \in Worlds |-> Unless(w, new[w])]
    BY <2>3, <2>4
  <2>6. \A w \in Worlds : IsStudy(new[w]) /\ new[w].prediction = study[w].prediction
    BY <2>4, Zenon
  <2> QED BY <2>3, <2>5, <2>6, KeepsPredictions
<1>3. CASE T30Features
  <2> DEFINE New(w) == [study[w] EXCEPT !.t30 = Primary("t30", w)]
  <2>2. PICK new : new = [w \in Worlds |-> New(w)]
    OBVIOUS
  <2>3. Analyse("t30 primary") /\ study' = [w \in Worlds |-> Unless(w, New(w))]
    BY <1>3, Zenon DEF T30Features
  <2>4. ASSUME NEW w \in Worlds
        PROVE  new[w] = New(w) /\ IsStudy(New(w)) /\ New(w).prediction = study[w].prediction
    <3>1. new[w] = New(w)
      BY <2>2
    <3>2. IsStudy(study[w])
      BY <1>0
    <3> QED BY <3>1, <3>2, SetField DEF Keeps
  <2> HIDE DEF New
  <2>5. study' = [w \in Worlds |-> Unless(w, new[w])]
    BY <2>3, <2>4
  <2>6. \A w \in Worlds : IsStudy(new[w]) /\ new[w].prediction = study[w].prediction
    BY <2>4, Zenon
  <2> QED BY <2>3, <2>5, <2>6, KeepsPredictions
<1>4. CASE Permutation
  <2> DEFINE New(w) == [study[w] EXCEPT
             !.alone = [f \in Range(TopPrimary(study[w].score)) |->
                          AsExtremeAlone(f, Responses(labels[w], "rank", Rows))]]
  <2>2. PICK new : new = [w \in Worlds |-> New(w)]
    OBVIOUS
  <2>3. Analyse("permutation") /\ study' = [w \in Worlds |-> Unless(w, New(w))]
    BY <1>4, Zenon DEF Permutation
  <2>4. ASSUME NEW w \in Worlds
        PROVE  new[w] = New(w) /\ IsStudy(New(w)) /\ New(w).prediction = study[w].prediction
    <3>1. new[w] = New(w)
      BY <2>2
    <3>2. IsStudy(study[w])
      BY <1>0
    <3> QED BY <3>1, <3>2, SetField DEF Keeps
  <2> HIDE DEF New
  <2>5. study' = [w \in Worlds |-> Unless(w, new[w])]
    BY <2>3, <2>4
  <2>6. \A w \in Worlds : IsStudy(new[w]) /\ new[w].prediction = study[w].prediction
    BY <2>4, Zenon
  <2> QED BY <2>3, <2>5, <2>6, KeepsPredictions
<1>5. CASE Selection
  <2> DEFINE New(w) == [study[w] EXCEPT
             !.selection = SelectionAware(Responses(labels[w], "rank", Rows))]
  <2>2. PICK new : new = [w \in Worlds |-> New(w)]
    OBVIOUS
  <2>3. Analyse("selection") /\ study' = [w \in Worlds |-> Unless(w, New(w))]
    BY <1>5, Zenon DEF Selection
  <2>4. ASSUME NEW w \in Worlds
        PROVE  new[w] = New(w) /\ IsStudy(New(w)) /\ New(w).prediction = study[w].prediction
    <3>1. new[w] = New(w)
      BY <2>2
    <3>2. IsStudy(study[w])
      BY <1>0
    <3> QED BY <3>1, <3>2, SetField DEF Keeps
  <2> HIDE DEF New
  <2>5. study' = [w \in Worlds |-> Unless(w, new[w])]
    BY <2>3, <2>4
  <2>6. \A w \in Worlds : IsStudy(new[w]) /\ new[w].prediction = study[w].prediction
    BY <2>4, Zenon
  <2> QED BY <2>3, <2>5, <2>6, KeepsPredictions
<1>6. CASE T30Selection
  <2> DEFINE New(w) == [study[w] EXCEPT
             !.t30selection = SelectionAware(Responses(labels[w], "t30", Rows))]
  <2>2. PICK new : new = [w \in Worlds |-> New(w)]
    OBVIOUS
  <2>3. Analyse("t30 selection") /\ study' = [w \in Worlds |-> Unless(w, New(w))]
    BY <1>6, Zenon DEF T30Selection
  <2>4. ASSUME NEW w \in Worlds
        PROVE  new[w] = New(w) /\ IsStudy(New(w)) /\ New(w).prediction = study[w].prediction
    <3>1. new[w] = New(w)
      BY <2>2
    <3>2. IsStudy(study[w])
      BY <1>0
    <3> QED BY <3>1, <3>2, SetField DEF Keeps
  <2> HIDE DEF New
  <2>5. study' = [w \in Worlds |-> Unless(w, new[w])]
    BY <2>3, <2>4
  <2>6. \A w \in Worlds : IsStudy(new[w]) /\ new[w].prediction = study[w].prediction
    BY <2>4, Zenon
  <2> QED BY <2>3, <2>5, <2>6, KeepsPredictions
<1>7. CASE IntraContextTopK
  <2>1. PICK model \in ModelScores : study' = [w \in Worlds |-> Unless(w, [study[w] EXCEPT !.topk = IntraTopKAnalysis(
             IF command = "run" THEN study[w].score ELSE study[w].selection.observed, model)])]
    BY <1>7 DEF IntraContextTopK
  <2> DEFINE New(w) == [study[w] EXCEPT !.topk = IntraTopKAnalysis(
             IF command = "run" THEN study[w].score ELSE study[w].selection.observed, model)]
  <2>2. PICK new : new = [w \in Worlds |-> New(w)]
    OBVIOUS
  <2>3. Analyse("top-k") /\ study' = [w \in Worlds |-> Unless(w, New(w))]
    BY <1>7, <2>1, Zenon DEF IntraContextTopK
  <2>4. ASSUME NEW w \in Worlds
        PROVE  new[w] = New(w) /\ IsStudy(New(w)) /\ New(w).prediction = study[w].prediction
    <3>1. new[w] = New(w)
      BY <2>2
    <3>2. IsStudy(study[w])
      BY <1>0
    <3>3. PICK a : a = IntraTopKAnalysis(
             IF command = "run" THEN study[w].score ELSE study[w].selection.observed, model)
      OBVIOUS
    <3>4. Keeps(study[w], [study[w] EXCEPT !.topk = a])
      BY <3>2, SetField
    <3> QED BY <3>1, <3>3, <3>4, Zenon DEF Keeps
  <2> HIDE DEF New
  <2>5. study' = [w \in Worlds |-> Unless(w, new[w])]
    BY <2>3, <2>4
  <2>6. \A w \in Worlds : IsStudy(new[w]) /\ new[w].prediction = study[w].prediction
    BY <2>4, Zenon
  <2> QED BY <2>3, <2>5, <2>6, KeepsPredictions
<1>8. CASE T30TopK
  <2>1. PICK model \in ModelScores : study' = [w \in Worlds |-> Unless(w, [study[w] EXCEPT !.topk = IntraTopKAnalysis(study[w].t30, model)])]
    BY <1>8 DEF T30TopK
  <2> DEFINE New(w) == [study[w] EXCEPT !.topk = IntraTopKAnalysis(study[w].t30, model)]
  <2>2. PICK new : new = [w \in Worlds |-> New(w)]
    OBVIOUS
  <2>3. Analyse("t30 top-k") /\ study' = [w \in Worlds |-> Unless(w, New(w))]
    BY <1>8, <2>1, Zenon DEF T30TopK
  <2>4. ASSUME NEW w \in Worlds
        PROVE  new[w] = New(w) /\ IsStudy(New(w)) /\ New(w).prediction = study[w].prediction
    <3>1. new[w] = New(w)
      BY <2>2
    <3>2. IsStudy(study[w])
      BY <1>0
    <3> QED BY <3>1, <3>2, SetField DEF Keeps
  <2> HIDE DEF New
  <2>5. study' = [w \in Worlds |-> Unless(w, new[w])]
    BY <2>3, <2>4
  <2>6. \A w \in Worlds : IsStudy(new[w]) /\ new[w].prediction = study[w].prediction
    BY <2>4, Zenon
  <2> QED BY <2>3, <2>5, <2>6, KeepsPredictions
<1>9. CASE GlobalTopK
  <2>1. PICK model \in ModelScores : study' = [w \in Worlds |-> Unless(w, [study[w] EXCEPT !.global = GlobalTopKAnalysis(study[w].pooled, model)])]
    BY <1>9 DEF GlobalTopK
  <2> DEFINE New(w) == [study[w] EXCEPT !.global = GlobalTopKAnalysis(study[w].pooled, model)]
  <2>2. PICK new : new = [w \in Worlds |-> New(w)]
    OBVIOUS
  <2>3. Analyse("global top-k") /\ study' = [w \in Worlds |-> Unless(w, New(w))]
    BY <1>9, <2>1, Zenon DEF GlobalTopK
  <2>4. ASSUME NEW w \in Worlds
        PROVE  new[w] = New(w) /\ IsStudy(New(w)) /\ New(w).prediction = study[w].prediction
    <3>1. new[w] = New(w)
      BY <2>2
    <3>2. IsStudy(study[w])
      BY <1>0
    <3> QED BY <3>1, <3>2, SetField DEF Keeps
  <2> HIDE DEF New
  <2>5. study' = [w \in Worlds |-> Unless(w, new[w])]
    BY <2>3, <2>4
  <2>6. \A w \in Worlds : IsStudy(new[w]) /\ new[w].prediction = study[w].prediction
    BY <2>4, Zenon
  <2> QED BY <2>3, <2>5, <2>6, KeepsPredictions
<1> QED BY <1>1, <1>2, <1>3, <1>4, <1>5, <1>6, <1>7, <1>8, <1>9

\* The ranks are prepared before anything is predicted.
LEMMA PreparationKeeps ==
  ASSUME OutOfFoldInv, PrepareContextFeatureRanks
  PROVE  OutOfFoldInv'
<1>1. /\ labels' = labels /\ victim' = victim /\ command' = command /\ study' = study
      /\ step' = step + 1 /\ At("ranks")
  BY DEF PrepareContextFeatureRanks
<1>2. step' \in 0..8 /\ step < RanksStep
  BY <1>1, PipelineAt DEF OutOfFoldInv
<1>3. \A w \in Worlds : NothingPredicted(study[w])
  BY <1>2 DEF OutOfFoldInv
<1>4. \A w \in Worlds : PredictionsOf(study[w], labels[w])'
  BY <1>1, <1>3 DEF PredictionsOf, NothingPredicted
<1>5. LabelsAgree'
  BY <1>1 DEF LabelsAgree, OutOfFoldInv
<1>6. \A w \in Worlds : IsStudy(study'[w]) /\ NothingPredicted(study'[w])
  BY <1>1, <1>3 DEF OutOfFoldInv
<1>7. study' = [w \in Worlds |-> study'[w]]
  BY <1>1 DEF OutOfFoldInv
<1> QED BY <1>1, <1>2, <1>4, <1>5, <1>6, <1>7 DEF OutOfFoldInv

\* A fold of grouped_nested_cv predicts its own rows, and every row is in one fold.
LEMMA FoldPredicts ==
  ASSUME NEW s, NEW y, NEW target \in Targets, IsStudy(s), PredictionsOf(s, y),
         OuterFold(fold, command, y, target) # None
  PROVE  /\ IsStudy(ApplyFold(s, target, OuterFold(fold, command, y, target)))
         /\ PredictionsOf(ApplyFold(s, target, OuterFold(fold, command, y, target)), y)
<1> DEFINE result == OuterFold(fold, command, y, target)
           old == IF fold = 0 THEN NoPrediction ELSE s.prediction[target]
           new == [r \in Rows |-> IF r \in result.test THEN result.model ELSE old[r]]
           t == ApplyFold(s, target, result)
<1>1. result.test = {r \in Rows : FoldOf(Rows, r, Folds, 0) = fold}
  <2> DEFINE test == {r \in Rows : FoldOf(Rows, r, Folds, 0) = fold}
  <2>1. \E fails, m : result = IF fails THEN None ELSE [test |-> test, model |-> m]
    BY Zenon DEF OuterFold
  <2> HIDE DEF result
  <2>2. result # None
    BY DEF result
  <2>3. PICK m : result = [test |-> test, model |-> m]
    BY <2>1, <2>2
  <2> QED BY <2>3
<1> HIDE DEF result
<1>2. PICK o, d : t = [s EXCEPT !.prediction[target] = new, !.outer = o, !.failed = d]
  BY Zenon DEF ApplyFold
<1> HIDE DEF new, t
<1>3. IsStudy(t) /\ t.prediction = [s.prediction EXCEPT ![target] = new]
  BY <1>2 DEF IsStudy
<1>4. ASSUME NEW g \in Targets, NEW r \in Rows, t.prediction[g][r] # None
      PROVE  t.prediction[g][r] = OuterFold(FoldOf(Rows, r, Folds, 0), command, y, g).model
  <2>1. CASE g # target
    <3>1. t.prediction[g] = s.prediction[g]
      BY <1>3, <2>1 DEF IsStudy
    <3> QED BY <3>1, <1>4 DEF PredictionsOf
  <2>2. CASE g = target
    <3>1. t.prediction[g][r] = IF r \in result.test THEN result.model ELSE old[r]
      BY <1>3, <2>2 DEF IsStudy, new
    <3>2. CASE r \in result.test
      BY <3>1, <3>2, <1>1, <2>2 DEF result
    <3>3. CASE r \notin result.test
      <4>1. old[r] = None \/ old[r] = s.prediction[target][r]
        BY DEF NoPrediction
      <4>2. t.prediction[g][r] = s.prediction[target][r]
        BY <3>1, <3>3, <4>1, <1>4
      <4> QED BY <4>2, <2>2, <1>4 DEF PredictionsOf
    <3> QED BY <3>2, <3>3
  <2> QED BY <2>1, <2>2
<1>5. PredictionsOf(t, y)
  BY <1>4 DEF PredictionsOf
<1> QED BY <1>3, <1>5 DEF t, result

\* After the ranks are prepared the command only goes on.
LEMMA StepOn ==
  ASSUME command' = command, step \in 0..8, step + 1 \in 0..8, ~(step < RanksStep),
         step' = step \/ step' = step + 1
  PROVE  step' \in 0..8 /\ ~(step' < RanksStep')
<1>1. RanksStep' = RanksStep /\ (RanksStep = 1 \/ RanksStep = 3)
  BY DEF RanksStep
<1> QED BY <1>1

\* A pass of the outer loop keeps the invariant, whichever worlds throw in it.
LEMMA CrossValidateKeeps ==
  ASSUME OutOfFoldInv, NEW analysis \in {"cv rank", "cv quality", "cv t30"}, NEW target \in Targets,
         CrossValidate(analysis, target)
  PROVE  OutOfFoldInv'
<1> DEFINE result(w) == OuterFold(fold, command, labels[w], target)
           New(w) == Unless(w, IF result(w) = None THEN [study[w] EXCEPT !.failed = TRUE]
                               ELSE ApplyFold(study[w], target, result(w)))
<1>1. /\ labels' = labels /\ victim' = victim /\ hash' = hash /\ command' = command
      /\ cache' = cache /\ At(analysis) /\ (step' = step \/ step' = step + 1)
  BY DEF CrossValidate
<1>2. study' = [w \in Worlds |-> New(w)]
  BY Zenon DEF CrossValidate
<1>3. step + 1 \in 0..8 /\ ~(step < RanksStep)
  BY <1>1, PipelineAt DEF OutOfFoldInv
<1>4. step' \in 0..8 /\ ~(step' < RanksStep')
  <2>1. command' = command /\ (step' = step \/ step' = step + 1) /\ step \in 0..8
    BY <1>1 DEF OutOfFoldInv
  <2> QED BY <2>1, <1>3, StepOn
<1>5. ASSUME NEW w \in Worlds
      PROVE  IsStudy(study'[w]) /\ PredictionsOf(study[w], labels[w])'
  <2>1. IsStudy(study[w]) /\ PredictionsOf(study[w], labels[w])
    BY DEF OutOfFoldInv
  <2>2. PICK y, s, r : y = labels[w] /\ s = New(w) /\ r = result(w)
    OBVIOUS
  <2>3. study'[w] = s
    BY <1>2, <2>2
  <2>4. IsStudy(s) /\ PredictionsOf(s, y)
    <3>1. CASE study[w].failed
      BY <2>1, <2>2, <3>1 DEF Unless
    <3>2. CASE ~study[w].failed /\ r = None
      <4>1. s = [study[w] EXCEPT !.failed = TRUE]
        BY <2>2, <3>2 DEF Unless
      <4>2. Keeps(study[w], s)
        BY <2>1, <4>1, SetField
      <4> QED BY <2>1, <2>2, <4>2 DEF Keeps, PredictionsOf
    <3>3. CASE ~study[w].failed /\ r # None
      <4>1. s = ApplyFold(study[w], target, r)
        BY <2>2, <3>3, Zenon DEF Unless
      <4>2. r = OuterFold(fold, command, y, target)
        BY <2>2
      <4> QED BY <2>1, <2>2, <3>3, <4>1, <4>2, FoldPredicts
    <3> QED BY <3>1, <3>2, <3>3
  <2>5. PredictionsOf(s, y)'
    BY <2>4, <1>1, PredictionsFrame
  <2>6. labels[w]' = y /\ study[w]' = s
    BY <2>2, <2>3, <1>1
  <2> QED BY <2>4, <2>5, <2>6
<1>6. LabelsAgree'
  BY <1>1 DEF LabelsAgree, OutOfFoldInv
<1> HIDE DEF New
<1>7. study' = [w \in Worlds |-> study'[w]]
  BY <1>2
<1> QED BY <1>1, <1>4, <1>5, <1>6, <1>7 DEF OutOfFoldInv

\* The invariant holds when the rows have been loaded.
LEMMA OutOfFoldInit == Init => OutOfFoldInv
<1> SUFFICES ASSUME Init PROVE OutOfFoldInv
  OBVIOUS
<1>1. LabelsAgree
  <2>1. PICK a, b \in Labels : AgreeExceptOn(victim, a, b) /\ labels = <<Loaded(a), Loaded(b)>>
    BY DEF Init
  <2>2. labels[1] = Loaded(a) /\ labels[2] = Loaded(b)
    BY <2>1
  <2> QED BY <2>1, <2>2, LoadedAgree DEF LabelsAgree
<1>2. command \in {"run", "refine"} /\ step \in 0..8
  BY DEF Init
<1>3. study = [w \in Worlds |-> NoStudy]
  BY DEF Init
<1>4. IsStudy(NoStudy) /\ NothingPredicted(NoStudy)
  BY DEF IsStudy, NothingPredicted, NoStudy, NoPrediction
<1>5. \A y : PredictionsOf(NoStudy, y)
  BY <1>4 DEF PredictionsOf, NothingPredicted
<1> QED BY <1>1, <1>2, <1>3, <1>4, <1>5 DEF OutOfFoldInv

\* And every step of a study keeps it.
LEMMA OutOfFoldNext == OutOfFoldInv /\ [Next]_vars => OutOfFoldInv'
<1> SUFFICES ASSUME OutOfFoldInv, [Next]_vars PROVE OutOfFoldInv'
  OBVIOUS
<1>1. CASE RankCv
  BY <1>1, CrossValidateKeeps DEF RankCv, Targets
<1>2. CASE QualityCv
  BY <1>2, CrossValidateKeeps DEF QualityCv, Targets
<1>3. CASE T30Cv
  BY <1>3, CrossValidateKeeps DEF T30Cv, Targets
<1>4. CASE UNCHANGED vars
  <2>1. /\ labels' = labels /\ victim' = victim /\ hash' = hash /\ command' = command
        /\ cache' = cache /\ step' = step /\ study' = study
    BY <1>4 DEF vars
  <2>2. ASSUME NEW w \in Worlds PROVE PredictionsOf(study[w], labels[w])'
    <3>1. PICK s, y : s = study[w] /\ y = labels[w]
      OBVIOUS
    <3>2. PredictionsOf(s, y)'
      BY <2>1, <3>1, PredictionsFrame DEF OutOfFoldInv
    <3> QED BY <2>1, <3>1, <3>2
  <2> QED BY <2>1, <2>2 DEF OutOfFoldInv, LabelsAgree, RanksStep
<1> QED BY <1>1, <1>2, <1>3, <1>4, AnalysesKeep, PreparationKeeps DEF Next

\* No label of a prevhash has a part in what is predicted for its rows: train, test
\* and inner splits of grouped_nested_cv, select_features and fit_ridge use training
\* rows only, for every table of labels, matrix of features and assignment of rows.
THEOREM OutOfFoldHolds == Spec => []OutOfFold
<1>1. OutOfFoldInv => OutOfFold
  <2> SUFFICES ASSUME OutOfFoldInv, NEW target \in Targets, NEW r \in Rows,
                      Prevhash(r) = victim, study[1].prediction[target][r] # None,
                      study[2].prediction[target][r] # None
               PROVE  study[1].prediction[target][r] = study[2].prediction[target][r]
    BY Zenon DEF OutOfFold
  <2>1. 1 \in Worlds /\ 2 \in Worlds
    BY DEF Worlds
  <2>2. \A w \in Worlds : PredictionsOf(study[w], labels[w])
    BY DEF OutOfFoldInv
  <2> DEFINE Model(w) == OuterFold(FoldOf(Rows, r, Folds, 0), command, labels[w], target).model
  <2>3. study[1].prediction[target][r] = Model(1) /\ study[2].prediction[target][r] = Model(2)
    BY <2>1, <2>2 DEF PredictionsOf
  <2>4. OuterFold(FoldOf(Rows, r, Folds, 0), command, labels[1], target)
          = OuterFold(FoldOf(Rows, r, Folds, 0), command, labels[2], target)
    BY VictimFoldSame DEF OutOfFoldInv
  <2> QED BY <2>3, <2>4
<1> QED BY <1>1, OutOfFoldInit, OutOfFoldNext, PTL DEF Spec

-----------------------------------------------------------------------------
(***************************************************************************)
(* Folds over finite sets, and the largest element of one.                 *)
(***************************************************************************)
\* A non-empty set of naturals has a least element.
LEMMA Least ==
  ASSUME NEW B \in SUBSET Nat, B # {}
  PROVE  \E m \in B : \A k \in B : ~(k < m)
<1>1. PICK m \in B : \A k \in B : ~(<<k, m>> \in OpToRel(<, Nat))
  BY WFMin, NatLessThanWellFounded
<1>2. ASSUME NEW k \in B, k < m PROVE FALSE
  <2>1. <<k, m>> \in OpToRel(<, Nat)
    BY <1>2 DEF OpToRel
  <2> QED BY <1>1, <2>1
<1> QED BY <1>2

\* The element a fold takes first.
First(s) == CHOOSE x \in s : TRUE

\* The subsets of D of at most n elements, and the values of a fold on them.
UpTo(D, n) == {s \in SUBSET D : Cardinality(s) <= n}
Folded(D, base, A, n) ==
  \E u \in [UpTo(D, n) -> Int] :
    \A s \in UpTo(D, n) : u[s] = IF s = {} THEN base ELSE A[<<First(s), u[s \ {First(s)}]>>]

\* The same on all the subsets of D.
IsFold(D, base, A, u) ==
  \A s \in SUBSET D : u[s] = IF s = {} THEN base ELSE A[<<First(s), u[s \ {First(s)}]>>]

\* A non-empty finite set loses one element when its first one is taken.
LEMMA TakeFirst ==
  ASSUME NEW D, IsFiniteSet(D), NEW s \in SUBSET D, s # {}
  PROVE  /\ First(s) \in D /\ s \ {First(s)} \in SUBSET D
         /\ Cardinality(s) \in Nat /\ Cardinality(s \ {First(s)}) = Cardinality(s) - 1
         /\ Cardinality(s) - 1 \in Nat
<1>1. First(s) \in s
  BY DEF First
<1>2. IsFiniteSet(s)
  BY FS_Subset
<1>3. Cardinality(s) \in Nat /\ Cardinality(s) # 0
  BY <1>2, FS_CardinalityType, FS_EmptySet
<1>4. Cardinality(s \ {First(s)}) = Cardinality(s) - 1
  BY <1>1, <1>2, FS_RemoveElement
<1> QED BY <1>1, <1>3, <1>4

\* A fold has a value on every subset, of any size.
LEMMA FoldStep ==
  ASSUME NEW D, IsFiniteSet(D), NEW base \in Int, NEW A, \A x \in D, i \in Int : A[<<x, i>>] \in Int,
         NEW n \in Nat, Folded(D, base, A, n)
  PROVE  Folded(D, base, A, n + 1)
<1>1. PICK u \in [UpTo(D, n) -> Int] :
        \A s \in UpTo(D, n) : u[s] = IF s = {} THEN base ELSE A[<<First(s), u[s \ {First(s)}]>>]
  BY DEF Folded
<1> DEFINE Value(s) == IF s = {} THEN base ELSE A[<<First(s), u[s \ {First(s)}]>>]
           v == [s \in UpTo(D, n + 1) |-> Value(s)]
<1>2. ASSUME NEW s \in UpTo(D, n + 1), s # {}
      PROVE  s \ {First(s)} \in UpTo(D, n) /\ First(s) \in D
  BY <1>2, TakeFirst DEF UpTo
<1>3. ASSUME NEW s \in UpTo(D, n + 1) PROVE Value(s) \in Int
  BY <1>1, <1>2
<1>4. ASSUME NEW s \in UpTo(D, n) PROVE s \in UpTo(D, n + 1) /\ v[s] = u[s]
  <2>1. s \in UpTo(D, n + 1)
    BY FS_Subset, FS_CardinalityType DEF UpTo
  <2> QED BY <2>1, <1>1
<1>5. \A s \in UpTo(D, n + 1) : v[s] = IF s = {} THEN base ELSE A[<<First(s), v[s \ {First(s)}]>>]
  BY <1>2, <1>4
<1>6. v \in [UpTo(D, n + 1) -> Int]
  BY <1>3
<1> HIDE DEF v
<1> QED BY <1>5, <1>6 DEF Folded

\* So it has one on the whole set.
LEMMA FoldExists ==
  ASSUME NEW D, IsFiniteSet(D), NEW base \in Int, NEW A, \A x \in D, i \in Int : A[<<x, i>>] \in Int
  PROVE  \E u \in [SUBSET D -> Int] : IsFold(D, base, A, u)
<1> DEFINE Bad == {m \in Nat : ~Folded(D, base, A, m)}
<1>1. Folded(D, base, A, 0)
  <2>1. \A s \in UpTo(D, 0) : s = {}
    BY FS_Subset, FS_CardinalityType, FS_EmptySet DEF UpTo
  <2> DEFINE u == [s \in UpTo(D, 0) |-> base]
  <2>2. u \in [UpTo(D, 0) -> Int] /\ \A s \in UpTo(D, 0) : u[s] = base
    OBVIOUS
  <2> QED BY <2>1, <2>2 DEF Folded
<1>2. \A m \in Nat : Folded(D, base, A, m)
  <2> SUFFICES ASSUME Bad # {} PROVE FALSE
    OBVIOUS
  <2>1. Bad \subseteq Nat
    OBVIOUS
  <2>2. PICK m \in Bad : \A k \in Bad : ~(k < m)
    BY <2>1, Least
  <2>3. m # 0
    BY <1>1
  <2>4. m - 1 \in Nat /\ (m - 1) + 1 = m
    BY <2>3
  <2>5. m - 1 \notin Bad
    BY <2>2, <2>4
  <2>6. Folded(D, base, A, m - 1)
    BY <2>4, <2>5
  <2> QED BY <2>4, <2>6, FoldStep
<1>3. Cardinality(D) \in Nat
  BY FS_CardinalityType
<1>4. UpTo(D, Cardinality(D)) = SUBSET D
  BY FS_Subset DEF UpTo
<1>5. Folded(D, base, A, Cardinality(D))
  BY <1>2, <1>3
<1> QED BY <1>4, <1>5 DEF Folded, IsFold

\* A fold that keeps the integers ends in one.
LEMMA FoldIsInt ==
  ASSUME NEW D, IsFiniteSet(D), NEW u, u[{}] \in Int,
         \A s \in SUBSET D : s # {} /\ u[s \ {First(s)}] \in Int => u[s] \in Int
  PROVE  u[D] \in Int
<1> DEFINE Bad == {m \in Nat : \E s \in SUBSET D : Cardinality(s) = m /\ u[s] \notin Int}
<1>1. Cardinality(D) \in Nat
  BY FS_CardinalityType
<1> SUFFICES ASSUME Bad # {} PROVE FALSE
  BY <1>1
<1>2. Bad \subseteq Nat
  OBVIOUS
<1>3. PICK m \in Bad : \A k \in Bad : ~(k < m)
  BY <1>2, Least
<1>4. PICK s \in SUBSET D : Cardinality(s) = m /\ u[s] \notin Int
  OBVIOUS
<1>5. s # {}
  BY <1>4
<1>6. s \ {First(s)} \in SUBSET D /\ Cardinality(s \ {First(s)}) = m - 1 /\ m - 1 \in Nat
  BY <1>4, <1>5, TakeFirst
<1>7. m - 1 \notin Bad
  BY <1>3, <1>6
<1>8. u[s \ {First(s)}] \in Int
  BY <1>6, <1>7
<1> QED BY <1>4, <1>5, <1>8

\* A non-empty finite set of integers has a largest element, the one Max chooses.
LEMMA MaxIs ==
  ASSUME NEW S \in SUBSET Int, IsFiniteSet(S), S # {}
  PROVE  Max(S) \in S /\ \A y \in S : Max(S) >= y
<1> DEFINE HasMax(T) == \E x \in T : \A y \in T : x >= y
           Bad == {m \in Nat : \E T \in SUBSET S : T # {} /\ Cardinality(T) = m /\ ~HasMax(T)}
<1>1. Cardinality(S) \in Nat
  BY FS_CardinalityType
<1>2. HasMax(S)
  <2> SUFFICES ASSUME Bad # {} PROVE FALSE
    BY <1>1
  <2>1. Bad \subseteq Nat
    OBVIOUS
  <2>2. PICK m \in Bad : \A k \in Bad : ~(k < m)
    BY <2>1, Least
  <2>3. PICK T \in SUBSET S : T # {} /\ Cardinality(T) = m /\ ~HasMax(T)
    OBVIOUS
  <2> DEFINE x == First(T)
             U == T \ {x}
  <2>4. U \in SUBSET S /\ Cardinality(U) = m - 1 /\ m - 1 \in Nat
    BY <2>3, TakeFirst
  <2>5. x \in T /\ x \in Int
    BY <2>3 DEF First
  <2> HIDE DEF x
  <2>6. U # {}
    BY <2>3, <2>5
  <2>7. HasMax(U)
    <3>1. m - 1 \notin Bad
      BY <2>2, <2>4
    <3> QED BY <2>4, <2>6, <3>1
  <2>8. PICK y \in U : \A z \in U : y >= z
    BY <2>7
  <2>9. CASE x >= y
    <3>1. \A z \in T : z \in Int /\ x >= z
      BY <2>5, <2>8, <2>9
    <3> QED BY <2>3, <2>5, <3>1
  <2>10. CASE ~(x >= y)
    <3>1. \A z \in T : y >= z
      BY <2>5, <2>8, <2>10
    <3> QED BY <2>3, <2>8, <3>1
  <2> QED BY <2>9, <2>10
<1> QED BY <1>2 DEF Max

-----------------------------------------------------------------------------
(***************************************************************************)
(* The statistic of a family of features is an integer.                    *)
(***************************************************************************)
\* The recursion of the sum of a function's values.
SumEquation(v, u) ==
  u = [s \in SUBSET (DOMAIN v) |-> IF s = {} THEN 0
                                   ELSE u[s \ {CHOOSE x \in s : TRUE}] + v[CHOOSE x \in s : TRUE]]

\* The sum of finitely many integers is one.
LEMMA SumIsInt ==
  ASSUME NEW v, IsFiniteSet(DOMAIN v), \A x \in DOMAIN v : v[x] \in Int
  PROVE  Sum(v) \in Int
<1>0. PICK D, zero : D = DOMAIN v /\ zero = 0
  OBVIOUS
<1> DEFINE A == [p \in D \X Int |-> p[2] + v[p[1]]]
           u == CHOOSE w : SumEquation(v, w)
<1>1. Sum(v) = u[D]
  BY <1>0, Zenon DEF Sum, Total, FoldSet, MapThenFoldSet, SumEquation
<1>2. \A x \in D, i \in Int : A[<<x, i>>] = i + v[x] /\ A[<<x, i>>] \in Int
  BY <1>0
<1> HIDE DEF A
<1>3. \E w : SumEquation(v, w)
  <2>1. PICK w \in [SUBSET D -> Int] : IsFold(D, zero, A, w)
    <3>1. zero \in Int /\ IsFiniteSet(D)
      BY <1>0
    <3>2. \A x \in D, i \in Int : A[<<x, i>>] \in Int
      BY <1>2
    <3> QED BY <3>1, <3>2, FoldExists
  <2>2. ASSUME NEW s \in SUBSET D
        PROVE  w[s] = IF s = {} THEN 0 ELSE w[s \ {First(s)}] + v[First(s)]
    <3>1. s # {} => First(s) \in D /\ w[s \ {First(s)}] \in Int
      BY DEF First
    <3> QED BY <2>1, <3>1, <1>0, <1>2 DEF IsFold
  <2>3. w = [s \in SUBSET D |-> IF s = {} THEN 0 ELSE w[s \ {First(s)}] + v[First(s)]]
    BY <2>2
  <2> QED BY <1>0, <2>3, Zenon DEF SumEquation, First
<1>4. SumEquation(v, u)
  BY <1>3, Zenon
<1> HIDE DEF u
<1>5. \A s \in SUBSET D : u[s] = IF s = {} THEN 0 ELSE u[s \ {First(s)}] + v[First(s)]
  BY <1>0, <1>4, Zenon DEF SumEquation, First
<1>6. u[{}] \in Int
  <2>1. {} \in SUBSET D
    OBVIOUS
  <2>2. u[{}] = 0
    BY <1>5, <2>1, Zenon
  <2> QED BY <2>2
<1>7. ASSUME NEW s \in SUBSET D, s # {}, u[s \ {First(s)}] \in Int PROVE u[s] \in Int
  <2>1. First(s) \in D
    BY <1>7 DEF First
  <2>2. u[s] = u[s \ {First(s)}] + v[First(s)]
    BY <1>5, <1>7, Zenon
  <2>3. v[First(s)] \in Int
    BY <2>1, <1>0
  <2> QED BY <2>2, <2>3, <1>7
<1>8. u[D] \in Int
  BY <1>0, <1>6, <1>7, FoldIsInt
<1> QED BY <1>1, <1>8

\* The contexts of a prevhash are finitely many.
LEMMA ContextsInAre ==
  ASSUME NEW p
  PROVE  IsFiniteSet(ContextsIn(Rows, p)) /\ Cardinality(ContextsIn(Rows, p)) \in Nat
<1>1. ContextsIn(Rows, p) \subseteq Contexts
  BY StudyAssumption DEF ContextsIn, ContextsOf
<1>2. IsFiniteSet(ContextsIn(Rows, p))
  BY <1>1, StudyAssumption, FS_Subset
<1> QED BY <1>2, FS_CardinalityType

\* The values of a function on a finite set are finitely many.
LEMMA FiniteValues ==
  ASSUME NEW S, IsFiniteSet(S), NEW f
  PROVE  IsFiniteSet({f[x] : x \in S})
<1> DEFINE g == [x \in S |-> f[x]]
<1>1. g \in Surjection(S, {f[x] : x \in S})
  BY DEF Surjection
<1> QED BY <1>1, FS_Surjection

\* The recursion of the product that gives the unit of the scores.
UnitEquation(u) ==
  u = [s \in SUBSET Prevhashes |->
         IF s = {} THEN 1
         ELSE u[s \ {CHOOSE x \in s : TRUE}] * Cardinality(ContextsIn(Rows, CHOOSE x \in s : TRUE))]

\* The unit of the scores is an integer.
LEMMA UnitIsInt == Unit \in Int
<1>0. PICK D, one : D = Prevhashes /\ one = 1
  OBVIOUS
<1> DEFINE N == [p \in D |-> Cardinality(ContextsIn(Rows, p))]
           A == [p \in D \X Int |-> p[2] * N[p[1]]]
           u == CHOOSE w : UnitEquation(w)
<1>1. Unit = u[D]
  BY <1>0, Zenon DEF Unit, FoldSet, MapThenFoldSet, UnitEquation
<1>2. \A p \in D : N[p] \in Int /\ N[p] = Cardinality(ContextsIn(Rows, p))
  BY ContextsInAre
<1> HIDE DEF N
<1>3. \A x \in D, i \in Int : A[<<x, i>>] = i * N[x] /\ A[<<x, i>>] \in Int
  BY <1>2
<1> HIDE DEF A
<1>4. IsFiniteSet(D)
  <2>1. D = {PrevhashOf[c] : c \in Contexts}
    BY <1>0 DEF Prevhashes, Range, Contexts
  <2> QED BY <2>1, FiniteValues, StudyAssumption
<1>5. \E w : UnitEquation(w)
  <2>1. PICK w \in [SUBSET D -> Int] : IsFold(D, one, A, w)
    <3>1. one \in Int
      BY <1>0
    <3>2. \A x \in D, i \in Int : A[<<x, i>>] \in Int
      BY <1>3
    <3> QED BY <3>1, <3>2, <1>4, FoldExists
  <2>2. ASSUME NEW s \in SUBSET D
        PROVE  w[s] = IF s = {} THEN 1 ELSE w[s \ {First(s)}] * Cardinality(ContextsIn(Rows, First(s)))
    <3>1. s # {} => First(s) \in D /\ w[s \ {First(s)}] \in Int
      BY DEF First
    <3>2. CASE s = {}
      BY <2>1, <3>2, <1>0 DEF IsFold
    <3>3. CASE s # {}
      <4>1. w[s] = A[<<First(s), w[s \ {First(s)}]>>]
        BY <2>1, <3>3, Zenon DEF IsFold
      <4>2. A[<<First(s), w[s \ {First(s)}]>>] = w[s \ {First(s)}] * N[First(s)]
        BY <3>1, <3>3, <1>3, Zenon
      <4> QED BY <4>1, <4>2, <3>1, <3>3, <1>2, Zenon
    <3> QED BY <3>2, <3>3
  <2>3. w = [s \in SUBSET D |->
               IF s = {} THEN 1 ELSE w[s \ {First(s)}] * Cardinality(ContextsIn(Rows, First(s)))]
    BY <2>2
  <2> QED BY <1>0, <2>3, Zenon DEF UnitEquation, First
<1>6. UnitEquation(u)
  BY <1>5, Zenon
<1> HIDE DEF u
<1>7. \A s \in SUBSET D :
        u[s] = IF s = {} THEN 1 ELSE u[s \ {First(s)}] * Cardinality(ContextsIn(Rows, First(s)))
  BY <1>0, <1>6, Zenon DEF UnitEquation, First
<1>8. u[{}] \in Int
  BY <1>7
<1>9. ASSUME NEW s \in SUBSET D, s # {}, u[s \ {First(s)}] \in Int PROVE u[s] \in Int
  <2>1. First(s) \in D
    BY <1>9 DEF First
  <2> QED BY <2>1, <1>2, <1>7, <1>9
<1>10. u[D] \in Int
  BY <1>4, <1>8, <1>9, FoldIsInt
<1> QED BY <1>1, <1>10

\* So is the weight of a context, which has at least one row.
LEMMA WeightIsInt ==
  ASSUME NEW c \in Contexts
  PROVE  Weight[c] \in Int
<1> DEFINE n == Cardinality(ContextsIn(Rows, PrevhashOf[c]))
<1>1. RowsOf[c] # {}
  BY StudyAssumption, FS_EmptySet
<1>2. c \in ContextsIn(Rows, PrevhashOf[c])
  BY <1>1 DEF RowsOf, ContextsIn, ContextsOf
<1>3. n \in Nat /\ n # 0
  BY <1>2, ContextsInAre, FS_EmptySet
<1>4. Weight[c] = Unit \div n
  BY DEF Weight
<1> HIDE DEF n
<1> QED BY <1>3, <1>4, UnitIsInt

\* So is the score of a feature, whatever the ranks prepared for it.
LEMMA ScoreIsInt ==
  ASSUME NEW z, NEW f \in Features
  PROVE  ScoreAllFeatures(z)[f] \in Int
<1> DEFINE D == {d \in Contexts : \E r, q \in RowsOf[d] : z[r] # z[q]}
           v == [c \in D |-> Weight[c] * Within(RowsOf[c], cache[f], z)]
<1>1. ScoreAllFeatures(z)[f] = Sum(v)
  BY DEF ScoreAllFeatures
<1>2. ASSUME NEW c \in D PROVE v[c] \in Int
  <2>1. Within(RowsOf[c], cache[f], z) \in Int
    BY SMT DEF Within, Sign
  <2> QED BY <2>1, WeightIsInt
<1>3. IsFiniteSet(DOMAIN v) /\ DOMAIN v = D
  BY StudyAssumption, FS_Subset
<1> HIDE DEF v
<1> QED BY <1>1, <1>2, <1>3, SumIsInt

\* And the largest of a family, which is compared.
LEMMA StatisticIsInt ==
  ASSUME NEW z
  PROVE  LargestScore(Features \ Sanity, ScoreAllFeatures(z)) \in Int
<1> DEFINE F == Features \ Sanity
           g == [f \in F |-> Abs(ScoreAllFeatures(z)[f])]
           S == {Abs(ScoreAllFeatures(z)[f]) : f \in F}
<1>1. S = {g[f] : f \in F}
  BY Zenon
<1>2. S \in SUBSET Int
  BY ScoreIsInt DEF Abs
<1>3. F # {} /\ IsFiniteSet(F)
  BY StudyAssumption, FS_Difference
<1>4. IsFiniteSet(S) /\ S # {}
  <2>1. PICK h : h = g
    OBVIOUS
  <2>2. IsFiniteSet({h[f] : f \in F})
    BY <1>3, FiniteValues
  <2> HIDE DEF g
  <2> QED BY <1>1, <1>3, <2>1, <2>2
<1>5. LargestScore(F, ScoreAllFeatures(z)) = Max(S)
  BY Zenon DEF LargestScore
<1> HIDE DEF S
<1> QED BY <1>2, <1>4, <1>5, MaxIs

-----------------------------------------------------------------------------
(***************************************************************************)
(* The shuffles are a group: swapping in g, then in h, swaps in the contexts *)
(* of exactly one of them.                                                 *)
(***************************************************************************)
Both(g, h) == (g \ h) \cup (h \ g)

\* The other row of a context.
Other(r) == CHOOSE q \in RowsOf[ContextOf[r]] : q # r

\* In a context of two rows, the other row is in it and has this one as its other row.
LEMMA OtherIs ==
  ASSUME NEW r \in Rows, Cardinality(RowsOf[ContextOf[r]]) = 2
  PROVE  Other(r) \in Rows /\ ContextOf[Other(r)] = ContextOf[r] /\ Other(Other(r)) = r
<1> DEFINE S == RowsOf[ContextOf[r]]
<1>1. S = {q \in Rows : ContextOf[q] = ContextOf[r]}
  BY StudyAssumption DEF RowsOf
<1>2. IsFiniteSet(S) /\ r \in S
  BY <1>1, StudyAssumption, FS_Subset
<1>3. PICK q : S \ {r} = {q}
  <2>1. IsFiniteSet(S \ {r}) /\ Cardinality(S \ {r}) = 1
    BY <1>2, FS_RemoveElement
  <2> QED BY <2>1, FS_Singleton
<1>4. q \in Rows /\ ContextOf[q] = ContextOf[r] /\ q # r /\ S = {r, q}
  BY <1>1, <1>2, <1>3
<1>5. Other(r) = q
  BY <1>4 DEF Other
<1>6. Other(q) = r
  BY <1>4 DEF Other
<1> QED BY <1>4, <1>5, <1>6

\* A shuffle takes the response of the other row in the contexts it swaps.
LEMMA ShuffleIs ==
  ASSUME NEW z, NEW g, NEW r \in Rows
  PROVE  Shuffle(z, g)[r] = IF ContextOf[r] \in g THEN z[Other(r)] ELSE z[r]
BY Zenon DEF Shuffle, Other

\* Two shuffles make one.
LEMMA ShuffleTwice ==
  ASSUME NEW z, NEW g \in Shuffles, NEW h \in Shuffles
  PROVE  Shuffle(Shuffle(z, g), h) = Shuffle(z, Both(g, h))
<1>1. ASSUME NEW r \in Rows PROVE Shuffle(Shuffle(z, g), h)[r] = Shuffle(z, Both(g, h))[r]
  <2>1. PICK y : y = Shuffle(z, g)
    OBVIOUS
  <2>2. /\ Shuffle(y, h)[r] = IF ContextOf[r] \in h THEN y[Other(r)] ELSE y[r]
        /\ Shuffle(z, Both(g, h))[r] = IF ContextOf[r] \in Both(g, h) THEN z[Other(r)] ELSE z[r]
        /\ y[r] = IF ContextOf[r] \in g THEN z[Other(r)] ELSE z[r]
    BY <2>1, ShuffleIs
  <2>3. CASE ContextOf[r] \notin h
    BY <2>1, <2>2, <2>3 DEF Both
  <2>4. CASE ContextOf[r] \in h
    <3>1. Other(r) \in Rows /\ ContextOf[Other(r)] = ContextOf[r] /\ Other(Other(r)) = r
      BY <2>4, OtherIs DEF Shuffles
    <3>2. y[Other(r)] = IF ContextOf[r] \in g THEN z[r] ELSE z[Other(r)]
      BY <2>1, <3>1, ShuffleIs
    <3> QED BY <2>1, <2>2, <2>4, <3>2 DEF Both
  <2> QED BY <2>3, <2>4
<1>2. \A y, k : Shuffle(y, k) = [r \in Rows |-> Shuffle(y, k)[r]]
  BY DEF Shuffle
<1> QED BY <1>1, <1>2

\* The shuffles are finitely many, and swapping in g permutes them.
LEMMA BothPermutes ==
  ASSUME NEW g \in Shuffles
  PROVE  /\ IsFiniteSet(Shuffles)
         /\ \A h \in Shuffles : Both(g, h) \in Shuffles /\ Both(g, Both(g, h)) = h
<1>1. IsFiniteSet({c \in Contexts : Cardinality(RowsOf[c]) = 2})
  BY StudyAssumption, FS_Subset
<1>2. IsFiniteSet(Shuffles)
  BY <1>1, FS_SUBSET DEF Shuffles
<1>3. ASSUME NEW h \in Shuffles PROVE Both(g, h) \in Shuffles /\ Both(g, Both(g, h)) = h
  BY DEF Both, Shuffles
<1> QED BY <1>2, <1>3

-----------------------------------------------------------------------------
(***************************************************************************)
(* Counting the shuffles as extreme as a shuffle.                          *)
(***************************************************************************)
\* The statistic of the responses z shuffled by g.
Statistic(z, g) == ShuffledMaximum(Features \ Sanity, z, g)

\* The shuffles as extreme as the responses shuffled by g are as many as those whose
\* statistic reaches that of g: the shuffles of a shuffle are all the shuffles.
LEMMA AsExtremeIs ==
  ASSUME NEW z, NEW g \in Shuffles
  PROVE  AsExtreme(Features \ Sanity, Shuffle(z, g))
           = Cardinality({h \in Shuffles : Statistic(z, h) >= Statistic(z, g)})
<1> DEFINE F == Features \ Sanity
           A == {h \in Shuffles : Statistic(z, Both(g, h)) >= Statistic(z, g)}
           B == {h \in Shuffles : Statistic(z, h) >= Statistic(z, g)}
           f == [h \in A |-> Both(g, h)]
<1>1. \A h \in Shuffles : ShuffledMaximum(F, Shuffle(z, g), h) = Statistic(z, Both(g, h))
  BY ShuffleTwice DEF ShuffledMaximum, Statistic
<1>2. LargestScore(F, ScoreAllFeatures(Shuffle(z, g))) = Statistic(z, g)
  BY DEF ShuffledMaximum, Statistic
<1>3. AsExtreme(F, Shuffle(z, g))
        = Cardinality({h \in Shuffles : ShuffledMaximum(F, Shuffle(z, g), h)
                                          >= LargestScore(F, ScoreAllFeatures(Shuffle(z, g)))})
  BY Zenon DEF AsExtreme
<1>4. {h \in Shuffles : ShuffledMaximum(F, Shuffle(z, g), h)
                          >= LargestScore(F, ScoreAllFeatures(Shuffle(z, g)))} = A
  BY <1>1, <1>2
<1>5. f \in Bijection(A, B)
  <2>1. \A h \in A : f[h] = Both(g, h) /\ f[h] \in B
    BY BothPermutes
  <2>2. ASSUME NEW h \in A, NEW k \in A, f[h] = f[k] PROVE h = k
    BY <2>1, <2>2, BothPermutes
  <2>3. ASSUME NEW h \in B PROVE Both(g, h) \in A /\ f[Both(g, h)] = h
    BY BothPermutes
  <2>4. f \in [A -> B]
    BY <2>1
  <2> HIDE DEF f, A, B
  <2>5. f \in Injection(A, B)
    BY <2>2, <2>4 DEF Injection, IsInjective
  <2>6. f \in Surjection(A, B)
    BY <2>3, <2>4 DEF Surjection
  <2> QED BY <2>5, <2>6 DEF Bijection
<1>6. IsFiniteSet(A)
  BY BothPermutes, FS_Subset
<1> HIDE DEF f, A, B
<1>7. Cardinality(B) = Cardinality(A)
  BY <1>5, <1>6, FS_Bijection DEF ExistsBijection
<1> QED BY <1>3, <1>4, <1>7 DEF B

\* Of finitely many shuffles, one has the least statistic.
LEMMA LeastExtreme ==
  ASSUME NEW z, NEW G \in SUBSET Shuffles, G # {}
  PROVE  \E g \in G : \A h \in G : Statistic(z, h) >= Statistic(z, g)
<1> DEFINE f == [g \in Shuffles |-> -Statistic(z, g)]
           S == {f[g] : g \in G}
<1>1. \A g : Statistic(z, g) \in Int
  BY StatisticIsInt DEF Statistic, ShuffledMaximum
<1>2. IsFiniteSet(G)
  BY BothPermutes, FS_Subset
<1>3. \A g \in G : f[g] = -Statistic(z, g)
  OBVIOUS
<1>4. IsFiniteSet(S)
  <2> HIDE DEF f
  <2> QED BY <1>2, FiniteValues
<1>5. S \in SUBSET Int /\ S # {}
  <2>1. \A g \in G : f[g] \in Int
    BY <1>1, <1>3
  <2> HIDE DEF f
  <2> QED BY <2>1
<1> HIDE DEF f
<1>6. PICK m \in S : \A y \in S : m >= y
  <2> HIDE DEF S
  <2> QED BY <1>4, <1>5, MaxIs
<1>7. PICK g \in G : m = f[g]
  OBVIOUS
<1>8. \A h \in G : f[g] >= f[h]
  BY <1>6, <1>7
<1> QED BY <1>1, <1>3, <1>8

\* The test is exact for any scores: of the shuffles with at most k as extreme, the one
\* with the least statistic counts all the others among its k.
LEMMA Exact == MaxStatisticIsExact
<1> DEFINE z == Responses(labels[1], "rank", Rows)
           size == [g \in Shuffles |-> AsExtreme(Features \ Sanity, Shuffle(z, g))]
<1> SUFFICES ASSUME NEW k \in Range(size) PROVE Cardinality({g \in Shuffles : size[g] <= k}) <= k
  BY Zenon DEF MaxStatisticIsExact
<1> HIDE DEF z
<1> DEFINE Reach(g) == {h \in Shuffles : Statistic(z, h) >= Statistic(z, g)}
           G == {g \in Shuffles : size[g] <= k}
<1>1. \A g \in Shuffles : size[g] = Cardinality(Reach(g))
  BY AsExtremeIs
<1>2. PICK e \in Shuffles : k = size[e]
  BY DEF Range
<1> HIDE DEF size
<1>3. IsFiniteSet(Shuffles)
  BY <1>2, BothPermutes
<1>4. ASSUME NEW g \in Shuffles PROVE IsFiniteSet(Reach(g)) /\ Cardinality(Reach(g)) \in Nat
  BY <1>3, FS_Subset, FS_CardinalityType
<1>5. k \in Nat /\ e \in G
  <2>1. k \in Nat
    BY <1>1, <1>2, <1>4
  <2>2. size[e] <= k
    BY <1>2, <2>1
  <2> QED BY <2>1, <2>2
<1>6. PICK g \in G : \A h \in G : Statistic(z, h) >= Statistic(z, g)
  BY <1>5, LeastExtreme
<1>7. G \in SUBSET Reach(g)
  BY <1>6
<1> HIDE DEF Reach
<1>8. Cardinality(G) <= Cardinality(Reach(g)) /\ Cardinality(G) \in Nat
  BY <1>4, <1>6, <1>7, FS_Subset, FS_CardinalityType
<1>9. Cardinality(Reach(g)) <= k
  BY <1>1, <1>6
<1> QED BY <1>4, <1>5, <1>6, <1>8, <1>9

\* The p-value of the selection-aware test is exact, in every state of a study: for
\* every feature matrix, every labels and contexts of one or two rows, every score,
\* since every shuffle is scored by the maximum over the features chosen for it.
THEOREM MaxStatisticIsExactHolds == Spec => []MaxStatisticIsExact
BY Exact, PTL
=============================================================================
