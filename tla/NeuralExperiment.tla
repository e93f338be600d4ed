-------------------------- MODULE NeuralExperiment --------------------------
(* run_experiment of neural_hawkes.py: event sequences are cut into windows,
   the windows are shuffled and split, a model is trained and validated epoch
   by epoch, tested, diagnosed, and the results are written.

   What the network predicts is abstract: Cost gives the loss it makes on a
   target in an epoch. The windows, the padded batches, the weights of the
   means and the files written are those of the code.                        *)
EXTENDS Integers, FiniteSets, SequencesExt

CONSTANTS
  Specs,              (* what config["symbols"] may list: files and synthetic
                         streams, with their length and their highest type + 1 *)
  MaxSpecs,           (* bound: entries of config["symbols"]                 *)
  Shapes,             (* pairs <<window_size, stride>>                       *)
  ConfigTypes,        (* num_types of the configuration                      *)
  TrainPct, ValPct,   (* the split, in percent                               *)
  BatchSize, Epochs

VARIABLES
  pc, specs, numTypes, windowSize, stride,
  index,              (* _index: the windows, [seq, first, last], events from 1 *)
  train, val, test,   (* sequences of windows                                *)
  trainHistory, valHistory, testMetrics,
  rescaling,          (* the sample size, -1 when the diagnostics failed       *)
  artifacts,          (* what save_run_artifacts has written                 *)
  output              (* the result written to output_path                   *)
vars == <<pc, specs, numTypes, windowSize, stride, index, train, val, test,
          trainHistory, valHistory, testMetrics, rescaling, artifacts, output>>

Nothing == [metrics |-> <<>>, curve |-> 0, calibration |-> 0, files |-> 0]

Init ==
  /\ pc = "load" /\ specs = <<>> /\ numTypes = ConfigTypes
  /\ \E shape \in Shapes : windowSize = shape[1] /\ stride = shape[2]
  /\ index = {} /\ train = <<>> /\ val = <<>> /\ test = <<>>
  /\ trainHistory = <<>> /\ valHistory = <<>> /\ testMetrics = <<>>
  /\ rescaling = 0 /\ artifacts = Nothing /\ output = <<>>

-----------------------------------------------------------------------------
(* Loading and windows                                                       *)

\* A file raises num_types to what it holds; a synthetic stream does not.
Fitting(spec) ==
  IF spec.kind = "dataset" THEN Max({numTypes, spec.types}) ELSE numTypes

\* EventSequence refuses timestamps that go back, and the run with it.
Load(spec) ==
  /\ pc = "load" /\ Len(specs) < MaxSpecs
  /\ IF spec.sorted
     THEN /\ specs' = Append(specs, spec) /\ numTypes' = Fitting(spec)
          /\ UNCHANGED pc
     ELSE pc' = "failed" /\ UNCHANGED <<specs, numTypes>>
  /\ UNCHANGED <<windowSize, stride, index, train, val, test, trainHistory,
                 valHistory, testMetrics, rescaling, artifacts, output>>

\* A window starts at every stride until one has reached the end.
Follows(first, length) ==
  first = 1 \/ /\ (first - 1) % stride = 0
               /\ first - 1 - stride + windowSize < length

Windows(seq) ==
  LET length == specs[seq].length IN
  {[seq |-> seq, first |-> f, last |-> Min({f + windowSize - 1, length})] :
     f \in {g \in 1 .. length - 1 : Follows(g, length)}}

BuildIndex ==
  /\ pc = "load" /\ specs # <<>>
  /\ index' = UNION {Windows(s) : s \in DOMAIN specs}
  /\ pc' = IF index' = {} THEN "failed" ELSE "split"
  /\ UNCHANGED <<specs, numTypes, windowSize, stride, train, val, test,
                 trainHistory, valHistory, testMetrics, rescaling, artifacts, output>>

TrainEnd(n) == (n * TrainPct) \div 100
ValEnd(n) == TrainEnd(n) + (n * ValPct) \div 100

TestOf(order) == SubSeq(order, ValEnd(Len(order)) + 1, Len(order))

\* split_dataset shuffles the windows; a loader that shuffles an empty training
\* set fails, and the embedding fails on a type it has no row for.
Split ==
  /\ pc = "split"
  /\ \E order \in SetToSeqs(index) :
       LET n == Len(order) IN
       /\ train' = SubSeq(order, 1, TrainEnd(n))
       /\ val' = SubSeq(order, TrainEnd(n) + 1, ValEnd(n))
       /\ test' = TestOf(order)
  /\ pc' = IF train' = <<>> \/ \E s \in DOMAIN specs : specs[s].types > numTypes
           THEN "failed" ELSE "train"
  /\ UNCHANGED <<specs, numTypes, windowSize, stride, index, trainHistory,
                 valHistory, testMetrics, rescaling, artifacts, output>>

-----------------------------------------------------------------------------
(* Batches and passes over a set                                             *)

Size(w) == w.last - w.first + 1

Batches(ws) ==
  [b \in 1 .. (Len(ws) + BatchSize - 1) \div BatchSize |->
     SubSeq(ws, (b - 1) * BatchSize + 1, Min({b * BatchSize, Len(ws)}))]

\* The targets of a padded batch: all but the first event of the longest window.
Width(batch) == Max({Size(batch[i]) : i \in DOMAIN batch}) - 1
Cells(batch) == {<<i, j>> : i \in DOMAIN batch, j \in 1 .. Width(batch)}
Valid(batch) == {c \in Cells(batch) : c[2] < Size(batch[c[1]])}

(* The loss on event e of sequence s in an epoch; the test is epoch 0.       *)
Cost(s, e, epoch) == (e * e + s + epoch) % 7
LossScale == 60     \* a multiple of the targets a batch may have

CellCost(batch, c, epoch) ==
  Cost(batch[c[1]].seq, batch[c[1]].first + c[2], epoch)

BatchMean(batch, epoch) ==
  LET valid == Valid(batch) IN
  IF valid = {} THEN 0
  ELSE (LossScale * MapThenSumSet(LAMBDA c : CellCost(batch, c, epoch), valid))
         \div Cardinality(valid)

\* Mutant: the padding weighs as much as the targets.
WeightPadded(batch) == Cardinality(Cells(batch))
Weight(batch) == Cardinality(Valid(batch))

\* train_one_epoch and evaluate: the loss summed over the batches and the
\* targets it is divided by (their quotient is 0 for an empty set).
Pass(ws, epoch) ==
  LET bs == Batches(ws) IN
  [total |-> MapThenSumSet(LAMBDA b : BatchMean(bs[b], epoch) * Weight(bs[b]), DOMAIN bs),
   steps |-> Max({1, MapThenSumSet(LAMBDA b : Cardinality(Valid(bs[b])), DOMAIN bs)})]

Epoch ==
  /\ pc = "train" /\ Len(trainHistory) < Epochs
  /\ LET epoch == Len(trainHistory) + 1 IN
     /\ trainHistory' = Append(trainHistory, Pass(train, epoch))
     /\ valHistory' = Append(valHistory, Pass(val, epoch))
  /\ UNCHANGED <<pc, specs, numTypes, windowSize, stride, index, train, val, test,
                 testMetrics, rescaling, artifacts, output>>

\* collect_predictions concatenates the batches, which fails on none and on
\* batches of different widths; time_rescaling_diagnostics counts the targets.
Widths(ws) == {Width(Batches(ws)[b]) : b \in DOMAIN Batches(ws)}
Targets(ws) == MapThenSumSet(LAMBDA i : Size(ws[i]) - 1, DOMAIN ws)

Test ==
  /\ pc = "train" /\ Len(trainHistory) = Epochs
  /\ testMetrics' = <<Pass(test, 0)>>
  /\ rescaling' = IF Cardinality(Widths(test)) = 1 THEN Targets(test) ELSE -1
  /\ pc' = "save"
  /\ UNCHANGED <<specs, numTypes, windowSize, stride, index, train, val, test,
                 trainHistory, valHistory, artifacts, output>>

-----------------------------------------------------------------------------
(* Results                                                                   *)

\* _summary_block of the last epoch.
Block(history) == IF history = <<>> THEN <<>> ELSE <<Last(history)>>

\* The files in the order they are written: metrics.json, loss_curve.csv and
\* calibration_next_time.csv, whose nine quantiles need the predictions.
Artifacts(files) ==
  [files |-> files,
   metrics |-> IF files >= 1 THEN <<Block(trainHistory), Block(valHistory), testMetrics>>
               ELSE <<>>,
   curve |-> IF files >= 2 THEN Max({Len(trainHistory), Len(valHistory)}) ELSE 0,
   calibration |-> IF files >= 3 /\ rescaling > 0 THEN 9 ELSE 0]

\* No artifact_dir, or an exception after some of the files: the run goes on.
SaveArtifacts ==
  /\ pc = "save"
  /\ \E files \in 0 .. 3 : artifacts' = Artifacts(files)
  /\ pc' = "output"
  /\ UNCHANGED <<specs, numTypes, windowSize, stride, index, train, val, test,
                 trainHistory, valHistory, testMetrics, rescaling, output>>

WriteOutput ==
  /\ pc = "output"
  /\ output' = <<[train |-> trainHistory, val |-> valHistory, test |-> testMetrics,
                  rescaling |-> rescaling, types |-> numTypes]>>
  /\ pc' = "done"
  /\ UNCHANGED <<specs, numTypes, windowSize, stride, index, train, val, test,
                 trainHistory, valHistory, testMetrics, rescaling, artifacts>>

Next == \/ \E spec \in Specs : Load(spec)
        \/ BuildIndex \/ Split \/ Epoch \/ Test \/ SaveArtifacts \/ WriteOutput

Spec == Init /\ [][Next]_vars

-----------------------------------------------------------------------------
EventsOf(ws) == UNION {{<<w.seq, e>> : e \in w.first .. w.last} : w \in ws}
TargetsOf(ws) == UNION {{<<w.seq, e>> : e \in w.first + 1 .. w.last} : w \in ws}

(* With a stride below the window size every event but the first is a target of
   some window, and no window lies within another (_build_index stops at the
   end of a sequence).                                                       *)
WindowsCover ==
  index # {} =>
    /\ stride < windowSize =>
         \A s \in DOMAIN specs : \A e \in 2 .. specs[s].length :
           <<s, e>> \in TargetsOf(index)
    /\ \A w, x \in index : EventsOf({w}) \subseteq EventsOf({x}) => w = x

(* Windows that do not overlap share no event between training and test,
   however split_dataset shuffles them.                                      *)
NoLeakWithoutOverlap ==
  stride >= windowSize => EventsOf(ToSet(train)) \cap EventsOf(ToSet(test)) = {}

(* The mean of an epoch is over the targets of its windows: the padding of
   collate_windows and the sizes of the batches have no part in it.          *)
MeanIsOverTargets ==
  \A k \in DOMAIN trainHistory :
    /\ trainHistory[k].steps = Targets(train)
    /\ trainHistory[k].total =
         LossScale * MapThenSumSet(LAMBDA i :
                   MapThenSumSet(LAMBDA e : Cost(train[i].seq, e, k),
                                 train[i].first + 1 .. train[i].last), DOMAIN train)

(* The diagnostics of the test set are over all its targets, and only windows
   cut short can cost a run its diagnostics: they succeed for a test set that
   fits in a batch and for one without a short window (the window a sequence
   ends with, never another).                                                *)
DiagnosticsLostToShortWindows ==
  pc \in {"save", "output", "done"} =>
    LET short == {w \in ToSet(test) : Size(w) < windowSize} IN
    /\ rescaling \in {-1, Targets(test)}
    /\ \A w \in short : w.last = specs[w.seq].length
    /\ test # <<>> /\ (short = {} \/ Len(test) <= BatchSize) => rescaling > 0

(* A run whose sequences all come from files never meets a type its embedding
   has no row for.                                                           *)
FileTypesFit ==
  pc # "load" => \A s \in DOMAIN specs :
    specs[s].kind = "dataset" => specs[s].types <= numTypes

(* The experiment accounts for its data, from the windows to the files
   (neural_hawkes.py:747-927).                                             *)
ExperimentAccounts ==
  /\ WindowsCover /\ NoLeakWithoutOverlap /\ MeanIsOverTargets
  /\ DiagnosticsLostToShortWindows /\ FileTypesFit

=============================================================================
