---------------------------- MODULE DetectorProofs ----------------------------
(***************************************************************************)
(* Proofs about Detector, for any services, grades and lengths: its type   *)
(* invariant, the currency of the forests, and the two properties of what  *)
(* is flagged.                                                             *)
(***************************************************************************)
EXTENDS Detector, TLAPS

\* A forest is trained on MinTrain windows at least.
TrainedWhenWarm == \A s \in Services : trained[s] = 0 \/ trained[s] >= MinTrain

\* ForestIsCurrent is not inductive alone: at the MinTrain-th window it must
\* not find a model that is younger.
ForestInv == TrainedWhenWarm /\ ForestIsCurrent

\* What holds of one result.
Sound(r) ==
    /\ r.is_anomaly => 60 * r.stat >= 1000
    /\ r.is_anomaly <=> r.severity \notin Dropped

AllSound == \A i \in DOMAIN results : Sound(results[i])

\* The batch has a window per service, and none of a service that has a result.
OncePerService ==
    /\ \A i, j \in DOMAIN batch : batch[i].service = batch[j].service => i = j
    /\ \A i \in DOMAIN results : \A j \in DOMAIN batch :
          results[i].service # batch[j].service

\* A history that is not finite has its service flagged.
SpoiltIsFlagged ==
    \A i \in DOMAIN results :
        /\ spoilt[results[i].service] \in 1 .. HistoryLen - 1
        /\ samples[results[i].service] > MinSamples
        => results[i].is_anomaly

IInv == TypeOK /\ ForestInv /\ AllSound /\ OncePerService /\ SpoiltIsFlagged

-----------------------------------------------------------------------------
(* The ensemble.                                                           *)

\* The two tables of thresholds agree, and every score has a severity.
LEMMA SeverityOfScore ==
    ASSUME NEW score \in 0 .. One
    PROVE  /\ Severity(score) \in {"normal", "low", "medium", "high", "critical"}
           /\ IsAnomaly(score) <=> Severity(score) \notin Dropped
<1> DEFINE Above(i) == score < SEVERITY_THRESHOLDS[i].below
           First(i) == i \in 1 .. 5 /\ Above(i) /\ \A j \in 1 .. i - 1 : ~ Above(j)
           first == CHOOSE i \in 1 .. 5 : Above(i) /\ \A j \in 1 .. i - 1 : ~ Above(j)
<1>1. /\ Above(1) <=> score < 3000
      /\ Above(2) <=> score < 5000
      /\ Above(3) <=> score < 7000
      /\ Above(4) <=> score < 8500
      /\ Above(5)
  BY DEF SEVERITY_THRESHOLDS, One
<1>2. Severity(score) = SEVERITY_THRESHOLDS[first].label
  BY DEF Severity
<1> HIDE DEF Above
<1>3. \E i \in 1 .. 5 : First(i)
  <2>1. First(1) \/ First(2) \/ First(3) \/ First(4) \/ First(5)
    BY <1>1
  <2> QED  BY <2>1
<1>4. First(first)
  BY <1>3
<1>5. \/ first = 1 /\ score < 3000
      \/ first = 2 /\ score < 5000
      \/ first = 3 /\ score >= 5000
      \/ first = 4 /\ score >= 5000
      \/ first = 5 /\ score >= 5000
  <2> HIDE DEF first
  <2>1. first \in 1 .. 5 /\ Above(first) /\ \A j \in 1 .. first - 1 : ~ Above(j)
    BY <1>4
  <2>2. first \in {1, 2, 3, 4, 5}
    BY <2>1
  <2> QED  BY <1>1, <2>1, <2>2
<1> HIDE DEF first
<1> QED
  BY <1>2, <1>5 DEF SEVERITY_THRESHOLDS, IsAnomaly, ANOMALY_THRESHOLD, Dropped, One

\* A fused score is a score; the forest, whose weight is 40, adds at most 4000.
LEMMA FuseBounds ==
    ASSUME NEW stat \in 0 .. 100, NEW ml \in 0 .. 100, NEW warming \in BOOLEAN
    PROVE  /\ Fuse(stat, ml, warming) \in 0 .. One
           /\ IsAnomaly(Fuse(stat, ml, warming)) => 60 * stat >= 1000
           /\ stat = 100 => IsAnomaly(Fuse(stat, ml, warming))
BY DEF Fuse, One, IsAnomaly, ANOMALY_THRESHOLD

LEMMA ResultIsSound ==
    ASSUME NEW w \in Windows, NEW stat \in 0 .. 100, NEW ml \in 0 .. 100
    PROVE  Result(w, stat, ml) \in Results /\ Sound(Result(w, stat, ml))
<1> DEFINE score == Fuse(stat, ml, ~ WarmForest(seen[w.service] + 1))
<1>1. /\ score \in 0 .. One
      /\ IsAnomaly(score) => 60 * stat >= 1000
  BY FuseBounds
<1>2. /\ Severity(score) \in {"normal", "low", "medium", "high", "critical"}
      /\ IsAnomaly(score) <=> Severity(score) \notin Dropped
  BY <1>1, SeverityOfScore
<1>3. {t.label : t \in {SEVERITY_THRESHOLDS[i] : i \in 1 .. 5}}
        = {"normal", "low", "medium", "high", "critical"}
  BY DEF SEVERITY_THRESHOLDS
<1>4. Result(w, stat, ml) =
        [service |-> w.service, stat |-> stat, ml |-> ml,
         severity |-> Severity(score), is_anomaly |-> IsAnomaly(score)]
  BY DEF Result
<1>5. w.service \in Services /\ IsAnomaly(score) \in BOOLEAN
  BY DEF Windows, IsAnomaly
<1> HIDE DEF score
<1> QED
  BY <1>1, <1>2, <1>3, <1>4, <1>5 DEF Results, Sound

\* What the detectors compute is a score.
LEMMA ScoresAreGrades ==
    ASSUME NEW w \in Windows
    PROVE  StatScores(w) \subseteq 0 .. 100 /\ MlScores(w) \subseteq 0 .. 100
BY DetectorAssumption DEF StatScores, MlScores

-----------------------------------------------------------------------------
(* Type correctness.                                                       *)

LEMMA BatchesAreWindows == ASSUME NEW b \in Batches PROVE b \in Seq(Windows)
BY DetectorAssumption DEF Batches

\* The window that Analyze takes.
LEMMA NextWindow ==
    ASSUME TypeOK, batch # << >>
    PROVE  Head(batch) \in Windows /\ Tail(batch) \in Seq(Windows)
BY DEF TypeOK

LEMMA RecordType ==
    ASSUME TypeOK, NEW w \in Windows, Record(w)
    PROVE  /\ samples' \in [Services -> 0 .. HistoryLen]
           /\ spoilt' \in [Services -> 0 .. HistoryLen]
BY DetectorAssumption DEF TypeOK, Record, Windows

LEMMA BufferType ==
    ASSUME TypeOK, NEW w \in Windows, Buffer(w)
    PROVE  /\ seen' \in [Services -> Nat]
           /\ poisoned' \in [Services -> BOOLEAN]
BY DEF TypeOK, Buffer, Windows

LEMMA TypeInit == Init => TypeOK
BY DetectorAssumption DEF Init, TypeOK

LEMMA TypeNext == TypeOK /\ [Next]_vars => TypeOK'
<1> SUFFICES ASSUME TypeOK, [Next]_vars PROVE TypeOK'
    OBVIOUS
<1>1. ASSUME NEW b \in Batches, ProcessBatch(b) PROVE TypeOK'
    BY <1>1, BatchesAreWindows DEF ProcessBatch, TypeOK, statistics, forest
<1>2. CASE Analyze
  <2> DEFINE w == Head(batch)
  <2>1. w \in Windows /\ Tail(batch) \in Seq(Windows)
    BY <1>2, NextWindow DEF Analyze
  <2>2. Record(w) /\ Buffer(w) /\ Train(w.service) /\ batch' = Tail(batch)
    BY <1>2 DEF Analyze
  <2>3. trained' \in [Services -> Nat]
    <3>1. w.service \in Services /\ seen[w.service] + 1 \in Nat
      BY <2>1 DEF Windows, TypeOK
    <3> HIDE DEF w
    <3> QED
      BY <2>2, <3>1 DEF Train, TypeOK
  <2>4. PICK stat \in StatScores(w), ml \in MlScores(w) :
            results' = Append(results, Result(w, stat, ml))
    BY <1>2 DEF Analyze
  <2>5. Result(w, stat, ml) \in Results
    BY <2>1, <2>4, ScoresAreGrades, ResultIsSound
  <2>6. results' \in Seq(Results)
    BY <2>4, <2>5 DEF TypeOK
  <2> QED
    BY <2>1, <2>2, <2>3, <2>6, RecordType, BufferType DEF TypeOK
<1>3. CASE AnalyzeRaises
  <2> DEFINE w == Head(batch)
  <2>1. w \in Windows
    BY <1>3, NextWindow DEF AnalyzeRaises
  <2>2. Record(w) /\ Buffer(w) /\ trained' = trained
        /\ batch' = << >> /\ results' = << >>
    BY <1>3 DEF AnalyzeRaises
  <2> QED
    BY <2>1, <2>2, RecordType, BufferType DEF TypeOK
<1>4. ASSUME NEW s \in Services, ResetStatistics(s) PROVE TypeOK'
    BY <1>4, DetectorAssumption DEF ResetStatistics, TypeOK, forest
<1>5. ASSUME NEW s \in Services, ResetForest(s) PROVE TypeOK'
    BY <1>5 DEF ResetForest, TypeOK, statistics
<1>6. CASE UNCHANGED vars
    BY <1>6 DEF vars, statistics, forest, TypeOK
<1> QED
    BY <1>1, <1>2, <1>3, <1>4, <1>5, <1>6 DEF Next

\* Every variable of the detectors and of process_batch keeps its type.
THEOREM TypeCorrect == Spec => []TypeOK
<1> QED
    BY TypeInit, TypeNext, PTL DEF Spec

-----------------------------------------------------------------------------
(* The forests.                                                            *)

\* One window of service s passes the forest: trained by score() or not,
\* when it raises.
LEMMA ForestInvStep ==
    ASSUME TypeOK, ForestInv, NEW w \in Windows, Buffer(w),
           \/ Train(w.service)
           \/ MayRaise(w) /\ trained' = trained
    PROVE  ForestInv'
<1> DEFINE s == w.service
<1>0. s \in Services
    BY DEF Windows
<1>1. /\ seen' = [seen EXCEPT ![s] = @ + 1]
      /\ poisoned' = [poisoned EXCEPT ![s] = @ \/ ~ w.finite]
    BY DEF Buffer
<1>2. /\ seen'[s] = seen[s] + 1 /\ seen[s] \in Nat /\ trained[s] \in Nat
      /\ poisoned[s] \in BOOLEAN
      /\ poisoned'[s] <=> (poisoned[s] \/ ~ w.finite)
    BY <1>0, <1>1 DEF TypeOK
<1>3. ASSUME NEW q \in Services, q # s
      PROVE  seen'[q] = seen[q] /\ trained'[q] = trained[q] /\ poisoned'[q] = poisoned[q]
    BY <1>1, <1>3 DEF TypeOK, Train
<1>4. CASE Train(s)
  <2>1. trained'[s] = IF WarmForest(seen[s] + 1) /\ MustTrain(s, seen[s] + 1)
                      THEN seen[s] + 1 ELSE trained[s]
    BY <1>0, <1>4 DEF Train, TypeOK
  <2>2. \/ trained'[s] = seen'[s] /\ seen'[s] >= MinTrain
        \/ trained'[s] = trained[s] /\ seen'[s] < MinTrain
        \/ /\ trained'[s] = trained[s] /\ trained[s] # 0
           /\ seen'[s] - trained[s] < Retrain
    BY <1>2, <2>1, DetectorAssumption DEF WarmForest, MustTrain
  <2> QED
    BY <1>0, <1>2, <1>3, <2>2, DetectorAssumption
    DEF ForestInv, TrainedWhenWarm, ForestIsCurrent, WarmForest
<1>5. CASE MayRaise(w) /\ trained' = trained
  <2>1. trained'[s] = trained[s]
    BY <1>5
  <2>2. poisoned'[s]
    BY <1>2, <1>5 DEF MayRaise
  <2> QED
    BY <1>0, <1>2, <1>3, <2>1, <2>2
    DEF ForestInv, TrainedWhenWarm, ForestIsCurrent, WarmForest
<1> QED
    BY <1>4, <1>5

LEMMA ForestInvNext == TypeOK /\ ForestInv /\ [Next]_vars => ForestInv'
<1> SUFFICES ASSUME TypeOK, ForestInv, [Next]_vars PROVE ForestInv'
    OBVIOUS
<1>1. CASE UNCHANGED forest
    BY <1>1 DEF forest, ForestInv, TrainedWhenWarm, ForestIsCurrent
<1>2. ASSUME NEW b \in Batches, ProcessBatch(b) PROVE UNCHANGED forest
    BY <1>2 DEF ProcessBatch
<1>3. CASE Analyze
    BY <1>3, NextWindow, ForestInvStep DEF Analyze
<1>4. CASE AnalyzeRaises
    BY <1>4, NextWindow, ForestInvStep DEF AnalyzeRaises
<1>5. ASSUME NEW s \in Services, ResetStatistics(s) PROVE UNCHANGED forest
    BY <1>5 DEF ResetStatistics
<1>6. ASSUME NEW s \in Services, ResetForest(s) PROVE ForestInv'
    BY <1>6, DetectorAssumption
    DEF ResetForest, ForestInv, TrainedWhenWarm, ForestIsCurrent, WarmForest, TypeOK
<1>7. CASE UNCHANGED vars
    BY <1>1, <1>7 DEF vars
<1> QED
    BY <1>1, <1>2, <1>3, <1>4, <1>5, <1>6, <1>7 DEF Next

-----------------------------------------------------------------------------
(* What is flagged.                                                        *)

LEMMA AllSoundNext == TypeOK /\ AllSound /\ [Next]_vars => AllSound'
<1> SUFFICES ASSUME TypeOK, AllSound, [Next]_vars PROVE AllSound'
    OBVIOUS
<1>1. CASE UNCHANGED results
    BY <1>1 DEF AllSound
<1>2. CASE results' = << >>
    BY <1>2 DEF AllSound
<1>3. CASE Analyze
  <2> DEFINE w == Head(batch)
  <2>1. w \in Windows
    BY <1>3, NextWindow DEF Analyze
  <2>2. PICK stat \in StatScores(w), ml \in MlScores(w) :
            results' = Append(results, Result(w, stat, ml))
    BY <1>3 DEF Analyze
  <2>3. Sound(Result(w, stat, ml))
    BY <2>1, <2>2, ScoresAreGrades, ResultIsSound
  <2>4. ASSUME NEW i \in DOMAIN results' PROVE Sound(results'[i])
    <3>1. \/ i \in DOMAIN results /\ results'[i] = results[i]
          \/ results'[i] = Result(w, stat, ml)
      BY <2>2 DEF TypeOK
    <3> QED
      BY <2>3, <3>1 DEF AllSound
  <2> QED
    BY <2>4 DEF AllSound
<1> QED
    BY <1>1, <1>2, <1>3
    DEF Next, ProcessBatch, AnalyzeRaises, ResetStatistics, ResetForest, vars

LEMMA OncePerServiceNext ==
    TypeOK /\ OncePerService /\ [Next]_vars => OncePerService'
<1> SUFFICES ASSUME TypeOK, OncePerService, [Next]_vars PROVE OncePerService'
    OBVIOUS
<1>1. CASE UNCHANGED <<batch, results>>
    BY <1>1 DEF OncePerService
<1>2. ASSUME NEW b \in Batches, ProcessBatch(b) PROVE OncePerService'
    BY <1>2 DEF ProcessBatch, Batches, OncePerService
<1>3. CASE Analyze
  <2> DEFINE w == Head(batch)
  <2>1. batch \in Seq(Windows) /\ batch # << >> /\ batch' = Tail(batch)
    BY <1>3 DEF Analyze, TypeOK
  <2>2. \A j \in DOMAIN batch' : j + 1 \in DOMAIN batch /\ batch'[j] = batch[j + 1]
    BY <2>1
  <2>3. \A j \in DOMAIN batch' : batch'[j].service # w.service
    BY <2>1, <2>2 DEF OncePerService
  <2>4. PICK stat \in StatScores(w), ml \in MlScores(w) :
            results' = Append(results, Result(w, stat, ml))
    BY <1>3 DEF Analyze
  <2>5. Result(w, stat, ml).service = w.service
    BY DEF Result
  <2>6. ASSUME NEW i \in DOMAIN results'
        PROVE  \/ i \in DOMAIN results /\ results'[i] = results[i]
               \/ results'[i].service = w.service
    BY <2>4, <2>5 DEF TypeOK
  <2>7. \A i \in DOMAIN results' : \A j \in DOMAIN batch' :
            results'[i].service # batch'[j].service
    BY <2>2, <2>3, <2>6 DEF OncePerService
  <2>8. \A i, j \in DOMAIN batch' : batch'[i].service = batch'[j].service => i = j
    BY <2>1, <2>2 DEF OncePerService
  <2> QED
    BY <2>7, <2>8 DEF OncePerService
<1>4. CASE AnalyzeRaises
    BY <1>4 DEF AnalyzeRaises, OncePerService
<1> QED
    BY <1>1, <1>2, <1>3, <1>4 DEF Next, ResetStatistics, ResetForest, vars

\* A result that the statistics are sure of is flagged.
LEMMA SureIsFlagged ==
    ASSUME NEW w \in Windows, NEW ml \in 0 .. 100
    PROVE  Result(w, 100, ml).is_anomaly
<1> DEFINE warming == ~ WarmForest(seen[w.service] + 1)
<1>1. warming \in BOOLEAN
  BY DEF WarmForest
<1>2. Result(w, 100, ml).is_anomaly = IsAnomaly(Fuse(100, ml, warming))
  BY DEF Result
<1> HIDE DEF warming
<1> QED
  BY <1>1, <1>2, FuseBounds

LEMMA SpoiltIsFlaggedNext ==
    TypeOK /\ OncePerService /\ SpoiltIsFlagged /\ [Next]_vars => SpoiltIsFlagged'
<1> SUFFICES ASSUME TypeOK, OncePerService, SpoiltIsFlagged, [Next]_vars
             PROVE  SpoiltIsFlagged'
    OBVIOUS
<1>1. CASE results' = << >>
    BY <1>1 DEF SpoiltIsFlagged
<1>2. CASE UNCHANGED <<statistics, results>>
    BY <1>2 DEF SpoiltIsFlagged, statistics
<1>3. CASE Analyze
  <2> DEFINE w == Head(batch)
             s == w.service
  <2>1. w \in Windows /\ batch # << >> /\ Record(w)
    BY <1>3, NextWindow DEF Analyze
  <2>2. PICK stat \in StatScores(w), ml \in MlScores(w) :
            results' = Append(results, Result(w, stat, ml))
    BY <1>3 DEF Analyze
  <2>3. s \in Services
    BY <2>1 DEF Windows
  <2>4. /\ spoilt'[s] = IF ~ w.finite THEN HistoryLen
                        ELSE IF spoilt[s] > 0 THEN spoilt[s] - 1 ELSE 0
        /\ samples'[s] = IF samples[s] < HistoryLen THEN samples[s] + 1 ELSE samples[s]
        /\ \A q \in Services \ {s} : spoilt'[q] = spoilt[q] /\ samples'[q] = samples[q]
    BY <2>1, <2>3 DEF Record, TypeOK
  <2>5. ASSUME spoilt'[s] \in 1 .. HistoryLen - 1, samples'[s] > MinSamples
        PROVE  Result(w, stat, ml).is_anomaly
    <3>1. spoilt[s] \in 0 .. HistoryLen /\ samples[s] \in 0 .. HistoryLen
      BY <2>3 DEF TypeOK
    <3>2. spoilt[s] > 0 /\ samples[s] >= MinSamples
      BY <2>4, <2>5, <3>1, DetectorAssumption
    <3>3. stat = 100
      BY <2>2, <3>2 DEF StatScores, WarmStatistics
    <3> QED
      BY <2>1, <2>2, <3>3, ScoresAreGrades, SureIsFlagged
  <2>6. Result(w, stat, ml).service = s
    BY DEF Result
  <2>7. ASSUME NEW i \in DOMAIN results',
               spoilt'[results'[i].service] \in 1 .. HistoryLen - 1,
               samples'[results'[i].service] > MinSamples
        PROVE  results'[i].is_anomaly
    <3>1. CASE i \in DOMAIN results /\ results'[i] = results[i]
      <4>1. 1 \in DOMAIN batch /\ batch[1] = w
        BY <2>1 DEF TypeOK
      <4>2. results[i].service # s
        BY <3>1, <4>1 DEF OncePerService
      <4>3. results[i] \in Results
        BY <3>1 DEF TypeOK
      <4>4. results[i].service \in Services \ {s}
        BY <4>2, <4>3 DEF Results
      <4> QED
        BY <2>4, <2>7, <3>1, <4>4 DEF SpoiltIsFlagged
    <3>2. CASE results'[i] = Result(w, stat, ml)
      BY <2>5, <2>6, <2>7, <3>2
    <3> QED
      BY <2>2, <3>1, <3>2 DEF TypeOK
  <2> QED
    BY <2>7 DEF SpoiltIsFlagged
<1>4. ASSUME NEW s \in Services, ResetStatistics(s) PROVE SpoiltIsFlagged'
  <2>1. /\ results' = results
        /\ spoilt' = [spoilt EXCEPT ![s] = 0] /\ samples' = [samples EXCEPT ![s] = 0]
    BY <1>4 DEF ResetStatistics
  <2>2. \A i \in DOMAIN results : results[i] \in Results
    BY DEF TypeOK
  <2>3. \A i \in DOMAIN results : results[i].service \in Services
    BY <2>2 DEF Results
  <2>4. /\ spoilt \in [Services -> 0 .. HistoryLen]
        /\ samples \in [Services -> 0 .. HistoryLen]
    BY DEF TypeOK
  <2>5. \A q \in Services :
            spoilt'[q] = 0 \/ (spoilt'[q] = spoilt[q] /\ samples'[q] = samples[q])
    BY <2>1, <2>4
  <2> QED
    BY <2>1, <2>3, <2>5 DEF SpoiltIsFlagged
<1> QED
    BY <1>1, <1>2, <1>3, <1>4
    DEF Next, ProcessBatch, AnalyzeRaises, ResetForest, vars, statistics

-----------------------------------------------------------------------------
LEMMA InvInit == Init => IInv
<1> SUFFICES ASSUME Init PROVE IInv
    OBVIOUS
<1>1. ForestInv
    BY DetectorAssumption
    DEF Init, ForestInv, TrainedWhenWarm, ForestIsCurrent, WarmForest
<1>2. AllSound
    BY DEF Init, AllSound
<1>3. OncePerService /\ SpoiltIsFlagged
    BY DEF Init, OncePerService, SpoiltIsFlagged
<1> QED
    BY <1>1, <1>2, <1>3, TypeInit DEF IInv

LEMMA InvNext == IInv /\ [Next]_vars => IInv'
BY TypeNext, ForestInvNext, AllSoundNext, OncePerServiceNext, SpoiltIsFlaggedNext DEF IInv

LEMMA InvImplies == IInv => ForestIsCurrent /\ FlaggedByStatistics /\ FlaggedIsQueueable
BY DEF IInv, ForestInv, AllSound, Sound, SpoiltIsFlagged, FlaggedByStatistics, FlaggedIsQueueable

LEMMA InvCorrect == Spec => []IInv
BY InvInit, InvNext, PTL DEF Spec

\* A warm service whose buffer is clean has a model younger than Retrain
\* windows, through every order of batches, resets and failed trainings.
THEOREM ForestStaysCurrent == Spec => []ForestIsCurrent
BY InvCorrect, InvImplies, PTL

\* The forest never flags a window on its own, nor clears one of a history that
\* is not finite.
THEOREM StatisticsDecide == Spec => []FlaggedByStatistics
BY InvCorrect, InvImplies, PTL

\* A window is flagged if and only if the queue accepts its severity.
THEOREM FlaggedAreQueued == Spec => []FlaggedIsQueueable
BY InvCorrect, InvImplies, PTL
===============================================================================
