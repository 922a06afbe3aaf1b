------------------------------- MODULE Detector -------------------------------
(***************************************************************************)
(* src/src/detection: what DetectionPipeline.process_batch does before it  *)
(* pushes (AnomalyQueue describes the pushing): for each service of a      *)
(* batch, the window of its logs is scored by the statistical detector and *)
(* the isolation forest, the scores are fused, and a severity is derived.  *)
(*                                                                         *)
(* The numbers behind a score (deviations, quartiles, sums, trees) are     *)
(* left out: where a detector computes one, the model takes any of Grades. *)
(* What remains is what decides whether a window is scored, by what, and   *)
(* when the forest is trained.  Scores are in hundredths, their weighted   *)
(* sum in ten-thousandths.  The four features of a window are recorded     *)
(* together, so a service has one history.                                 *)
(*                                                                         *)
(* A window is finite or not: a latency is whatever float() accepts, "nan" *)
(* and "inf" included (feature_extractor.py:118).  In a history such a     *)
(* value makes the deviation NaN and with it the score, which              *)
(* DetectorResult then clamps to 1.0.  In the buffer of the forest it may  *)
(* make the training raise ValueError: scikit-learn rejects an infinity    *)
(* always and NaN in some versions.                                        *)
(*                                                                         *)
(* An operator Bad... is a plausible mistake in the one it is named after; *)
(* no action uses it.                                                      *)
(***************************************************************************)
EXTENDS Integers, Sequences, FiniteSets

CONSTANTS
    Services,
    Grades,      \* the scores that a detector may compute, in hundredths
    MinSamples,  \* min_samples of the statistical detector
    HistoryLen,  \* maxlen of its histories
    MinTrain,    \* MIN_TRAIN_SAMPLES
    Retrain,     \* RETRAIN_INTERVAL
    MaxBatch,    \* bound: services in one batch
    MaxSeen      \* bound: windows of one service, between two resets

ASSUME DetectorAssumption ==
    /\ Grades \subseteq 0 .. 100
    /\ MinSamples \in Nat \ {0} /\ HistoryLen \in Nat /\ MinSamples <= HistoryLen
    /\ MinTrain \in Nat \ {0} /\ Retrain \in Nat \ {0}
    /\ MaxBatch \in Nat /\ MaxSeen \in Nat

VARIABLES
    \* StatisticalDetector._state
    samples,    \* samples[s]: values in the histories of s
    spoilt,     \* spoilt[s]: windows until no history holds a value not finite
    \* MLDetector._state
    seen,       \* seen[s]: windows_seen, which is also len(buffer)
    trained,    \* trained[s]: last_train_at, 0 while there is no model
    poisoned,   \* poisoned[s]: whether the buffer holds a vector not finite
    \* process_batch
    batch,      \* what is left of the batch: a sequence of [service, finite]
    results     \* the results so far

statistics == <<samples, spoilt>>
forest     == <<seen, trained, poisoned>>
vars       == <<statistics, forest, batch, results>>

Windows == [service : Services, finite : BOOLEAN]

-----------------------------------------------------------------------------
(* AnomalyDetector: fusion and severity.                                   *)

One == 10000

SEVERITY_THRESHOLDS ==
    << [below |-> 3000,  label |-> "normal"],
       [below |-> 5000,  label |-> "low"],
       [below |-> 7000,  label |-> "medium"],
       [below |-> 8500,  label |-> "high"],
       [below |-> 10100, label |-> "critical"] >>
ANOMALY_THRESHOLD == 5000

\* While the forest warms up the statistics have the full weight.
BadFuse(stat, ml, warming) == IF warming THEN 100 * stat ELSE 40 * stat + 60 * ml
Fuse(stat, ml, warming) ==
    LET sum == IF warming THEN 100 * stat ELSE 60 * stat + 40 * ml
    IN  IF sum > One THEN One ELSE sum

Severity(score) ==
    LET Above(i) == score < SEVERITY_THRESHOLDS[i].below
        first == CHOOSE i \in 1 .. 5 : Above(i) /\ \A j \in 1 .. i - 1 : ~ Above(j)
    IN  SEVERITY_THRESHOLDS[first].label

BadIsAnomaly(score) == score > ANOMALY_THRESHOLD
IsAnomaly(score) == score >= ANOMALY_THRESHOLD

\* The severities that AnomalyQueue.push drops without a word.
Dropped == {"normal", "low"}

-----------------------------------------------------------------------------
(* StatisticalDetector.score.                                              *)

WarmStatistics(s) == samples[s] >= MinSamples

\* The result for a window: 0 without enough history, 1.0 while the history
\* holds a value that is not finite.
StatScores(w) ==
    IF ~ WarmStatistics(w.service) THEN {0}
    ELSE IF spoilt[w.service] > 0 THEN {100}
    ELSE Grades \cup IF w.finite THEN {} ELSE {100}

\* The value is appended after scoring, or instead of it.
BadRecord(w) ==
    /\ samples' = [samples EXCEPT ![w.service] = @ + 1]
    /\ UNCHANGED spoilt
Record(w) ==
    LET s == w.service
    IN  /\ samples' = [samples EXCEPT ![s] = IF @ < HistoryLen THEN @ + 1 ELSE @]
        /\ spoilt' = [spoilt EXCEPT ![s] = IF ~ w.finite THEN HistoryLen
                                           ELSE IF @ > 0 THEN @ - 1 ELSE 0]

-----------------------------------------------------------------------------
(* MLDetector.score.                                                       *)

WarmForest(n) == n >= MinTrain

\* `should_retrain`, for windows_seen = n.
BadMustTrain(s, n) == trained[s] = 0
MustTrain(s, n) == trained[s] = 0 \/ n - trained[s] >= Retrain

\* Training, which takes the whole buffer, or scoring may raise.
MayRaise(w) ==
    LET n == seen[w.service] + 1
    IN  /\ WarmForest(n)
        /\ ~ w.finite \/ (poisoned[w.service] /\ MustTrain(w.service, n))

\* The vector enters the buffer first, whatever happens then.
Buffer(w) ==
    /\ seen' = [seen EXCEPT ![w.service] = @ + 1]
    /\ poisoned' = [poisoned EXCEPT ![w.service] = @ \/ ~ w.finite]

Train(s) ==
    trained' = [trained EXCEPT ![s] =
        IF WarmForest(seen[s] + 1) /\ MustTrain(s, seen[s] + 1) THEN seen[s] + 1 ELSE @]

MlScores(w) == IF WarmForest(seen[w.service] + 1) THEN Grades ELSE {0}

-----------------------------------------------------------------------------
Init ==
    /\ samples = [s \in Services |-> 0]
    /\ spoilt = [s \in Services |-> 0]
    /\ seen = [s \in Services |-> 0]
    /\ trained = [s \in Services |-> 0]
    /\ poisoned = [s \in Services |-> FALSE]
    /\ batch = << >> /\ results = << >>

\* process_batch: one window per service of the batch, in the order in which
\* the services occur in it.
ProcessBatch(b) ==
    /\ batch = << >>
    /\ \A i \in DOMAIN b : seen[b[i].service] < MaxSeen
    /\ batch' = b /\ results' = << >>
    /\ UNCHANGED <<statistics, forest>>

Result(w, stat, ml) ==
    LET warming == ~ WarmForest(seen[w.service] + 1)
        score   == Fuse(stat, ml, warming)
    IN  [service |-> w.service, stat |-> stat, ml |-> ml,
         severity |-> Severity(score), is_anomaly |-> IsAnomaly(score)]

\* analyze() of the next window.
Analyze ==
    /\ batch # << >>
    /\ LET w == Head(batch)
       IN  /\ Record(w) /\ Buffer(w) /\ Train(w.service)
           /\ \E stat \in StatScores(w), ml \in MlScores(w) :
                 results' = Append(results, Result(w, stat, ml))
    /\ batch' = Tail(batch)

\* It raises: process_batch ends, and with it go the results of the services
\* that came before and the windows of those that would have come after.
AnalyzeRaises ==
    /\ batch # << >>
    /\ MayRaise(Head(batch))
    /\ Record(Head(batch)) /\ Buffer(Head(batch))
    /\ batch' = << >> /\ results' = << >>
    /\ UNCHANGED trained

\* reset_service of either detector, between two batches.
ResetStatistics(s) ==
    /\ batch = << >> /\ samples[s] > 0
    /\ samples' = [samples EXCEPT ![s] = 0]
    /\ spoilt' = [spoilt EXCEPT ![s] = 0]
    /\ UNCHANGED <<forest, batch, results>>

ResetForest(s) ==
    /\ batch = << >> /\ seen[s] > 0
    /\ seen' = [seen EXCEPT ![s] = 0]
    /\ trained' = [trained EXCEPT ![s] = 0]
    /\ poisoned' = [poisoned EXCEPT ![s] = FALSE]
    /\ UNCHANGED <<statistics, batch, results>>

-----------------------------------------------------------------------------
\* A batch has at most one window per service.
Batches ==
    {b \in UNION {[1 .. n -> Windows] : n \in 1 .. MaxBatch} :
        \A i, j \in DOMAIN b : b[i].service = b[j].service => i = j}

Next ==
    \/ \E b \in Batches : ProcessBatch(b)
    \/ Analyze \/ AnalyzeRaises
    \/ \E s \in Services : ResetStatistics(s) \/ ResetForest(s)

Spec == Init /\ [][Next]_vars

-----------------------------------------------------------------------------
(* Properties.                                                             *)

Results == [service : Services, stat : 0 .. 100, ml : 0 .. 100,
            severity : {t.label : t \in {SEVERITY_THRESHOLDS[i] : i \in 1 .. 5}},
            is_anomaly : BOOLEAN]

\* Type invariant: the histories keep at most HistoryLen values, and a value
\* that is not finite is in them no longer than that.
TypeOK ==
    /\ samples \in [Services -> 0 .. HistoryLen]
    /\ spoilt \in [Services -> 0 .. HistoryLen]
    /\ seen \in [Services -> Nat] /\ trained \in [Services -> Nat]
    /\ poisoned \in [Services -> BOOLEAN]
    /\ batch \in Seq(Windows)
    /\ results \in Seq(Results)

\* ml_detector.py:10-12: from the MinTrain-th window on, a service has a model,
\* which is never older than Retrain windows, whatever batches it came in and
\* whichever detector was reset; unless a vector that is not finite got into
\* its buffer, which nothing trims.
ForestIsCurrent ==
    \A s \in Services :
        /\ trained[s] <= seen[s]
        /\ (WarmForest(seen[s]) /\ ~ poisoned[s]) =>
              trained[s] >= MinTrain /\ seen[s] - trained[s] < Retrain

\* The isolation forest alone never flags a window, however sure it is: its
\* weight is below the threshold, so the statistics must see something too, and
\* nothing is flagged before they are warm.  Nor can it clear one: after a
\* latency that is not finite, every window of the service is flagged (models.py:51
\* clamps NaN to 1.0) until the value has left the history, or is reset.
FlaggedByStatistics ==
    \A i \in DOMAIN results :
        /\ results[i].is_anomaly => 60 * results[i].stat >= 1000
        /\ /\ spoilt[results[i].service] \in 1 .. HistoryLen - 1
           /\ samples[results[i].service] > MinSamples
           => results[i].is_anomaly

\* A window that is flagged has a severity that AnomalyQueue.push accepts, and
\* no other one has: the two tables of thresholds agree.
FlaggedIsQueueable ==
    \A i \in DOMAIN results :
        results[i].is_anomaly <=> results[i].severity \notin Dropped
===============================================================================
