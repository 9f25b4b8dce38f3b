------------------------- MODULE StatsExport_proofs -------------------------
(***************************************************************************)
(* Proofs about StatsExport, for any finite set of clusters, any set of    *)
(* configurations, any positive MaxConn, and either export.                *)
(***************************************************************************)
EXTENDS StatsExport, FiniteSetTheorems, TLAPS

USE DEF envVars, cycleVars, tallyVars, reportVars, exporterVars, gatherVars, pushVars,
        obsVars, TakeSlot, AddWorker, AfterQuery, WorkersDone, Exported,
        PushWorkersDone, ClusterConnected

(* Every set of goroutines is finite. *)
LEMMA FiniteGoroutines ==
    /\ IsFiniteSet(Holding) /\ IsFiniteSet(Active) /\ IsFiniteSet(Pushing)
    /\ IsFiniteSet(Holding') /\ IsFiniteSet(Active') /\ IsFiniteSet(Pushing')
<1>1. \A S \in SUBSET Clusters : IsFiniteSet(S)
  BY ClustersAssumption, FS_Subset
<1> QED
  BY <1>1 DEF Holding, Active, Pushing

(* A wait group is positive while one of its goroutines is not done. *)
LEMMA ActiveNonEmpty ==
    ASSUME IInv, NEW c \in Active PROVE wg - 1 \in Nat
<1>1. wg = Cardinality(Active) /\ wg \in Nat
  BY DEF IInv, CountersInv, TypeOK
<1>2. Cardinality(Active) # 0
  BY FiniteGoroutines, FS_EmptySet
<1> QED
  BY <1>1, <1>2

LEMMA PushingNonEmpty ==
    ASSUME IInv, NEW c \in Pushing PROVE pwg - 1 \in Nat
<1>1. pwg = Cardinality(Pushing) /\ pwg \in Nat
  BY DEF IInv, CountersInv, TypeOK
<1>2. Cardinality(Pushing) # 0
  BY FiniteGoroutines, FS_EmptySet
<1> QED
  BY <1>1, <1>2

(* Types are preserved: the counters do not go below zero because they count
   goroutines that are there. *)
LEMMA TypeStep ==
    ASSUME IInv, [Next]_vars
    PROVE  TypeOK'
<1> USE MaxConnAssumption, ConfigsAssumption, KindsAssumption DEF IInv, TypeOK, All, MetricCount
<1>1. CASE SetPowerScaleClients
  BY <1>1 DEF SetPowerScaleClients
<1>2. CASE UpdateObservabilityMetrics
  <2>1. CASE inst
    BY <1>2, <2>1 DEF UpdateObservabilityMetrics
  <2>2. CASE ~inst
    <3>1. /\ gauge' \in [Clusters -> {"unset", "up", "down"}]
          /\ status' \in [Clusters -> {"none", "success", "failure", "error"}]
          /\ rate' \in [Clusters -> Nat]
      BY <1>2, <2>2 DEF UpdateObservabilityMetrics
    <3> QED
      BY <1>2, <2>2, <3>1 DEF UpdateObservabilityMetrics
  <2> QED
    BY <2>1, <2>2
<1>3. ASSUME NEW k \in Kinds, Begin(k) PROVE TypeOK'
  <2>1. snapshot' \in SUBSET Clusters /\ clients' \in Configs
    BY <1>3 DEF Begin
  <2>2. sem' \in 0..MaxConn /\ wg' \in Nat /\ pwg' \in Nat
    BY <1>3 DEF Begin
  <2> QED
    BY <1>3, <2>1, <2>2 DEF Begin
<1>4. CASE RecordPowerScaleExportFailure
  BY <1>4 DEF RecordPowerScaleExportFailure
<1>5. CASE GatherStart
  BY <1>5 DEF GatherStart
<1>6. ASSUME NEW c \in Clusters, StartWorker(c) PROVE TypeOK'
  BY <1>6 DEF StartWorker
<1>7. ASSUME NEW c \in Clusters, GetFloatStatistics(c) PROVE TypeOK'
  BY <1>7 DEF GetFloatStatistics
<1>8. ASSUME NEW c \in Clusters, SendMetric(c) PROVE TypeOK'
  BY <1>8 DEF SendMetric
<1>9. ASSUME NEW c \in Clusters, WorkerDone(c) PROVE TypeOK'
  <2>1. c \in Active
    BY <1>9 DEF Active, WorkerDone
  <2>2. wg - 1 \in Nat
    BY <2>1, ActiveNonEmpty
  <2> QED
    BY <1>9, <2>2 DEF WorkerDone
<1>10. ASSUME NEW c \in Clusters, ReleaseSlot(c) PROVE TypeOK'
  BY <1>10 DEF ReleaseSlot
<1>11. CASE GatherClose
  BY <1>11 DEF GatherClose
<1>12. CASE Push
  BY <1>12 DEF Push
<1>13. ASSUME NEW c \in Clusters, StartPushWorker(c) PROVE TypeOK'
  BY <1>13 DEF StartPushWorker
<1>14. ASSUME NEW c \in Clusters, RecordMetrics(c) PROVE TypeOK'
  BY <1>14 DEF RecordMetrics
<1>15. ASSUME NEW c \in Clusters, SendResult(c) PROVE TypeOK'
  BY <1>15 DEF SendResult
<1>16. ASSUME NEW c \in Clusters, PushWorkerDone(c) PROVE TypeOK'
  <2>1. c \in Pushing
    BY <1>16 DEF Pushing, PushWorkerDone
  <2>2. pwg - 1 \in Nat
    BY <2>1, PushingNonEmpty
  <2> QED
    BY <1>16, <2>2 DEF PushWorkerDone
<1>17. CASE PushClose
  BY <1>17 DEF PushClose
<1>18. CASE Report
  BY <1>18 DEF Report
<1>19. ASSUME NEW c \in Clusters, SetArrayConnectivity(c) PROVE TypeOK'
  BY <1>19 DEF SetArrayConnectivity, GaugeOf
<1>20. ASSUME NEW c \in Clusters, RecordExportSuccess(c) PROVE TypeOK'
  BY <1>20 DEF RecordExportSuccess, StatusOf
<1>21. CASE Return
  BY <1>21 DEF Return
<1>22. CASE UNCHANGED vars
  BY <1>22 DEF vars
<1> QED
  BY <1>1, <1>2, <1>3, <1>4, <1>5, <1>6, <1>7, <1>8, <1>9, <1>10, <1>11,
     <1>12, <1>13, <1>14, <1>15, <1>16, <1>17, <1>18, <1>19, <1>20, <1>21,
     <1>22 DEF Next, Export, Gatherer, Pusher,
     Exporter, WorkerStep, PushWorkerStep

(* The counters keep counting: a worker that takes a slot or is added to a
   wait group was not there before, one that leaves was. *)
LEMMA CountersStep ==
    ASSUME IInv, [Next]_vars
    PROVE  CountersInv'
<1>1. CASE SetPowerScaleClients
  BY <1>1 DEF SetPowerScaleClients, IInv, CountersInv, Holding, Active, Pushing
<1>2. CASE UpdateObservabilityMetrics
  BY <1>2 DEF UpdateObservabilityMetrics, IInv, CountersInv, Holding,
     Active, Pushing
<1>3. ASSUME NEW k \in Kinds, Begin(k) PROVE CountersInv'
  <2>1. Holding' = {} /\ Active' = {} /\ Pushing' = {}
    BY <1>3 DEF Begin, All, Holding, Active, Pushing
  <2> QED
    BY <1>3, <2>1, FS_EmptySet DEF Begin, CountersInv
<1>4. CASE RecordPowerScaleExportFailure
  BY <1>4 DEF RecordPowerScaleExportFailure, IInv, CountersInv, Holding,
     Active, Pushing
<1>5. CASE GatherStart
  BY <1>5 DEF GatherStart, IInv, CountersInv, Holding, Active, Pushing
<1>6. ASSUME NEW c \in Clusters, StartWorker(c) PROVE CountersInv'
  <2>1. Holding' = Holding \union {c} /\ Active' = Active \union {c}
    BY <1>6 DEF StartWorker, Holding, Active, IInv, TypeOK, GatherInv
  <2>2. Pushing' = Pushing
    BY <1>6 DEF StartWorker, Pushing
  <2>3. c \notin Holding /\ c \notin Active
    BY <1>6 DEF StartWorker, Holding, Active, IInv, GatherInv
  <2>4. /\ Cardinality(Holding') = Cardinality(Holding) + 1
       /\ Cardinality(Active') = Cardinality(Active) + 1
    BY <2>1, <2>3, FiniteGoroutines, FS_AddElement
  <2> QED
    BY <1>6, <2>1, <2>2, <2>4 DEF StartWorker, IInv, TypeOK, CountersInv
<1>7. ASSUME NEW c \in Clusters, GetFloatStatistics(c) PROVE CountersInv'
  <2>1. Holding' = Holding /\ Active' = Active
    BY <1>7 DEF GetFloatStatistics, Holding, Active, IInv, TypeOK
  <2>2. Pushing' = Pushing
    BY <1>7 DEF GetFloatStatistics, Pushing
  <2> QED
    BY <1>7, <2>1, <2>2 DEF GetFloatStatistics, IInv, TypeOK, CountersInv
<1>8. ASSUME NEW c \in Clusters, SendMetric(c) PROVE CountersInv'
  <2>1. Holding' = Holding /\ Active' = Active
    BY <1>8 DEF SendMetric, Holding, Active, IInv, TypeOK
  <2>2. Pushing' = Pushing
    BY <1>8 DEF SendMetric, Pushing
  <2> QED
    BY <1>8, <2>1, <2>2 DEF SendMetric, IInv, TypeOK, CountersInv
<1>9. ASSUME NEW c \in Clusters, WorkerDone(c) PROVE CountersInv'
  <2>1. Holding' = Holding /\ Active' = Active \ {c}
    BY <1>9 DEF WorkerDone, Holding, Active, IInv, TypeOK
  <2>2. Pushing' = Pushing
    BY <1>9 DEF WorkerDone, Pushing
  <2>3. c \in Active
    BY <1>9 DEF WorkerDone, Holding, Active
  <2>4. /\ Cardinality(Holding') = Cardinality(Holding)
       /\ Cardinality(Active') = Cardinality(Active) - 1
    BY <2>1, <2>3, FiniteGoroutines, FS_RemoveElement
  <2> QED
    BY <1>9, <2>1, <2>2, <2>4 DEF WorkerDone, IInv, TypeOK, CountersInv
<1>10. ASSUME NEW c \in Clusters, ReleaseSlot(c) PROVE CountersInv'
  <2>1. Holding' = Holding \ {c} /\ Active' = Active
    BY <1>10 DEF ReleaseSlot, Holding, Active, IInv, TypeOK
  <2>2. Pushing' = Pushing
    BY <1>10 DEF ReleaseSlot, Pushing
  <2>3. c \in Holding
    BY <1>10 DEF ReleaseSlot, Holding, Active
  <2>4. /\ Cardinality(Holding') = Cardinality(Holding) - 1
       /\ Cardinality(Active') = Cardinality(Active)
    BY <2>1, <2>3, FiniteGoroutines, FS_RemoveElement
  <2>5. sem # 0
    BY <2>3, FiniteGoroutines, FS_EmptySet DEF IInv, CountersInv
  <2> QED
    BY <1>10, <2>1, <2>2, <2>4, <2>5 DEF ReleaseSlot, IInv, TypeOK, CountersInv
<1>11. CASE GatherClose
  BY <1>11 DEF GatherClose, IInv, CountersInv, Holding, Active, Pushing
<1>12. CASE Push
  BY <1>12 DEF Push, IInv, CountersInv, Holding, Active, Pushing
<1>13. ASSUME NEW c \in Clusters, StartPushWorker(c) PROVE CountersInv'
  <2>1. Pushing' = Pushing \union {c}
    BY <1>13 DEF StartPushWorker, Pushing, IInv, TypeOK
  <2>2. Holding' = Holding /\ Active' = Active
    BY <1>13 DEF StartPushWorker, Holding, Active
  <2>3. c \notin Pushing
    BY <1>13 DEF StartPushWorker, Pushing, IInv, PushInv
  <2>4. Cardinality(Pushing') = Cardinality(Pushing) + 1
    BY <2>1, <2>3, FiniteGoroutines, FS_AddElement
  <2> QED
    BY <1>13, <2>1, <2>2, <2>4 DEF StartPushWorker, IInv, TypeOK, CountersInv
<1>14. ASSUME NEW c \in Clusters, RecordMetrics(c) PROVE CountersInv'
  <2>1. Pushing' = Pushing
    BY <1>14 DEF RecordMetrics, Pushing, IInv, TypeOK
  <2>2. Holding' = Holding /\ Active' = Active
    BY <1>14 DEF RecordMetrics, Holding, Active
  <2> QED
    BY <1>14, <2>1, <2>2 DEF RecordMetrics, IInv, TypeOK, CountersInv
<1>15. ASSUME NEW c \in Clusters, SendResult(c) PROVE CountersInv'
  <2>1. Pushing' = Pushing
    BY <1>15 DEF SendResult, Pushing, IInv, TypeOK
  <2>2. Holding' = Holding /\ Active' = Active
    BY <1>15 DEF SendResult, Holding, Active
  <2> QED
    BY <1>15, <2>1, <2>2 DEF SendResult, IInv, TypeOK, CountersInv
<1>16. ASSUME NEW c \in Clusters, PushWorkerDone(c) PROVE CountersInv'
  <2>1. Pushing' = Pushing \ {c}
    BY <1>16 DEF PushWorkerDone, Pushing, IInv, TypeOK
  <2>2. Holding' = Holding /\ Active' = Active
    BY <1>16 DEF PushWorkerDone, Holding, Active
  <2>3. c \in Pushing
    BY <1>16 DEF PushWorkerDone, Pushing, IInv, PushInv
  <2>4. Cardinality(Pushing') = Cardinality(Pushing) - 1
    BY <2>1, <2>3, FiniteGoroutines, FS_RemoveElement
  <2> QED
    BY <1>16, <2>1, <2>2, <2>4 DEF PushWorkerDone, IInv, TypeOK, CountersInv
<1>17. CASE PushClose
  BY <1>17 DEF PushClose, IInv, CountersInv, Holding, Active, Pushing
<1>18. CASE Report
  BY <1>18 DEF Report, IInv, CountersInv, Holding, Active, Pushing
<1>19. ASSUME NEW c \in Clusters, SetArrayConnectivity(c) PROVE CountersInv'
  BY <1>19 DEF SetArrayConnectivity, IInv, CountersInv, Holding, Active, Pushing
<1>20. ASSUME NEW c \in Clusters, RecordExportSuccess(c) PROVE CountersInv'
  BY <1>20 DEF RecordExportSuccess, IInv, CountersInv, Holding, Active, Pushing
<1>21. CASE Return
  BY <1>21 DEF Return, IInv, CountersInv, Holding, Active, Pushing
<1>22. CASE UNCHANGED vars
  BY <1>22 DEF vars, IInv, CountersInv, Holding, Active, Pushing
<1> QED
  BY <1>1, <1>2, <1>3, <1>4, <1>5, <1>6, <1>7, <1>8, <1>9, <1>10, <1>11,
     <1>12, <1>13, <1>14, <1>15, <1>16, <1>17, <1>18, <1>19, <1>20, <1>21,
     <1>22 DEF Next, Export, Gatherer, Pusher,
     Exporter, WorkerStep, PushWorkerStep

(* No worker is started twice, or after the channel was closed. *)
LEMMA GatherStep ==
    ASSUME IInv, [Next]_vars
    PROVE  GatherInv'
<1> USE DEF IInv, TypeOK, All, GatherInv, Active
<1>1. CASE SetPowerScaleClients
  BY <1>1 DEF SetPowerScaleClients
<1>2. CASE UpdateObservabilityMetrics
  BY <1>2 DEF UpdateObservabilityMetrics
<1>3. ASSUME NEW k \in Kinds, Begin(k) PROVE GatherInv'
  BY <1>3 DEF Begin
<1>4. CASE RecordPowerScaleExportFailure
  BY <1>4 DEF RecordPowerScaleExportFailure
<1>5. CASE GatherStart
  BY <1>5 DEF GatherStart
<1>6. ASSUME NEW c \in Clusters, StartWorker(c) PROVE GatherInv'
  BY <1>6 DEF StartWorker
<1>7. ASSUME NEW c \in Clusters, GetFloatStatistics(c) PROVE GatherInv'
  BY <1>7 DEF GetFloatStatistics
<1>8. ASSUME NEW c \in Clusters, SendMetric(c) PROVE GatherInv'
  BY <1>8 DEF SendMetric
<1>9. ASSUME NEW c \in Clusters, WorkerDone(c) PROVE GatherInv'
  BY <1>9 DEF WorkerDone
<1>10. ASSUME NEW c \in Clusters, ReleaseSlot(c) PROVE GatherInv'
  BY <1>10 DEF ReleaseSlot
<1>11. CASE GatherClose
  <2>1. Active = {}
    BY <1>11, FiniteGoroutines, FS_EmptySet DEF GatherClose, CountersInv
  <2> QED
    BY <1>11, <2>1 DEF GatherClose
<1>12. CASE Push
  BY <1>12 DEF Push
<1>13. ASSUME NEW c \in Clusters, StartPushWorker(c) PROVE GatherInv'
  BY <1>13 DEF StartPushWorker
<1>14. ASSUME NEW c \in Clusters, RecordMetrics(c) PROVE GatherInv'
  BY <1>14 DEF RecordMetrics
<1>15. ASSUME NEW c \in Clusters, SendResult(c) PROVE GatherInv'
  BY <1>15 DEF SendResult
<1>16. ASSUME NEW c \in Clusters, PushWorkerDone(c) PROVE GatherInv'
  BY <1>16 DEF PushWorkerDone
<1>17. CASE PushClose
  BY <1>17 DEF PushClose
<1>18. CASE Report
  BY <1>18 DEF Report
<1>19. ASSUME NEW c \in Clusters, SetArrayConnectivity(c) PROVE GatherInv'
  BY <1>19 DEF SetArrayConnectivity
<1>20. ASSUME NEW c \in Clusters, RecordExportSuccess(c) PROVE GatherInv'
  BY <1>20 DEF RecordExportSuccess
<1>21. CASE Return
  BY <1>21 DEF Return
<1>22. CASE UNCHANGED vars
  BY <1>22 DEF vars
<1> QED
  BY <1>1, <1>2, <1>3, <1>4, <1>5, <1>6, <1>7, <1>8, <1>9, <1>10, <1>11,
     <1>12, <1>13, <1>14, <1>15, <1>16, <1>17, <1>18, <1>19, <1>20, <1>21,
     <1>22 DEF Next, Export, Gatherer, Pusher,
     Exporter, WorkerStep, PushWorkerStep

(* Every metric is served, recorded and tallied once. *)
LEMMA PushStep ==
    ASSUME IInv, [Next]_vars
    PROVE  PushInv'
<1> USE KindsAssumption DEF IInv, TypeOK, All, PushInv, GatherInv, Pushing, MetricCount
<1>1. CASE SetPowerScaleClients
  BY <1>1 DEF SetPowerScaleClients
<1>2. CASE UpdateObservabilityMetrics
  BY <1>2 DEF UpdateObservabilityMetrics
<1>3. ASSUME NEW k \in Kinds, Begin(k) PROVE PushInv'
  BY <1>3 DEF Begin
<1>4. CASE RecordPowerScaleExportFailure
  BY <1>4 DEF RecordPowerScaleExportFailure
<1>5. CASE GatherStart
  BY <1>5 DEF GatherStart
<1>6. ASSUME NEW c \in Clusters, StartWorker(c) PROVE PushInv'
  BY <1>6 DEF StartWorker
<1>7. ASSUME NEW c \in Clusters, GetFloatStatistics(c) PROVE PushInv'
  BY <1>7 DEF GetFloatStatistics
<1>8. ASSUME NEW c \in Clusters, SendMetric(c) PROVE PushInv'
  BY <1>8 DEF SendMetric
<1>9. ASSUME NEW c \in Clusters, WorkerDone(c) PROVE PushInv'
  BY <1>9 DEF WorkerDone
<1>10. ASSUME NEW c \in Clusters, ReleaseSlot(c) PROVE PushInv'
  BY <1>10 DEF ReleaseSlot
<1>11. CASE GatherClose
  BY <1>11 DEF GatherClose
<1>12. CASE Push
  BY <1>12 DEF Push
<1>13. ASSUME NEW c \in Clusters, StartPushWorker(c) PROVE PushInv'
  BY <1>13 DEF StartPushWorker
<1>14. ASSUME NEW c \in Clusters, RecordMetrics(c) PROVE PushInv'
  BY <1>14 DEF RecordMetrics
<1>15. ASSUME NEW c \in Clusters, SendResult(c) PROVE PushInv'
  BY <1>15 DEF SendResult
<1>16. ASSUME NEW c \in Clusters, PushWorkerDone(c) PROVE PushInv'
  BY <1>16 DEF PushWorkerDone
<1>17. CASE PushClose
  <2>1. Pushing = {}
    BY <1>17, FiniteGoroutines, FS_EmptySet DEF PushClose, CountersInv
  <2> QED
    BY <1>17, <2>1 DEF PushClose
<1>18. CASE Report
  BY <1>18 DEF Report
<1>19. ASSUME NEW c \in Clusters, SetArrayConnectivity(c) PROVE PushInv'
  BY <1>19 DEF SetArrayConnectivity
<1>20. ASSUME NEW c \in Clusters, RecordExportSuccess(c) PROVE PushInv'
  BY <1>20 DEF RecordExportSuccess
<1>21. CASE Return
  BY <1>21 DEF Return
<1>22. CASE UNCHANGED vars
  BY <1>22 DEF vars
<1> QED
  BY <1>1, <1>2, <1>3, <1>4, <1>5, <1>6, <1>7, <1>8, <1>9, <1>10, <1>11,
     <1>12, <1>13, <1>14, <1>15, <1>16, <1>17, <1>18, <1>19, <1>20, <1>21,
     <1>22 DEF Next, Export, Gatherer, Pusher,
     Exporter, WorkerStep, PushWorkerStep

(* What has been reported stays what it was reported as. *)
LEMMA ReportStep ==
    ASSUME IInv, [Next]_vars
    PROVE  ReportInv'
<1> USE DEF IInv, TypeOK, All, ReportInv, StatusOf, GaugeOf, Pushing, Active, GatherInv, PushInv
<1>1. CASE SetPowerScaleClients
  BY <1>1 DEF SetPowerScaleClients
<1>2. CASE UpdateObservabilityMetrics
  BY <1>2 DEF UpdateObservabilityMetrics
<1>3. ASSUME NEW k \in Kinds, Begin(k) PROVE ReportInv'
  BY <1>3 DEF Begin
<1>4. CASE RecordPowerScaleExportFailure
  BY <1>4 DEF RecordPowerScaleExportFailure
<1>5. CASE GatherStart
  BY <1>5 DEF GatherStart
<1>6. ASSUME NEW c \in Clusters, StartWorker(c) PROVE ReportInv'
  BY <1>6 DEF StartWorker
<1>7. ASSUME NEW c \in Clusters, GetFloatStatistics(c) PROVE ReportInv'
  BY <1>7 DEF GetFloatStatistics
<1>8. ASSUME NEW c \in Clusters, SendMetric(c) PROVE ReportInv'
  BY <1>8 DEF SendMetric
<1>9. ASSUME NEW c \in Clusters, WorkerDone(c) PROVE ReportInv'
  BY <1>9 DEF WorkerDone
<1>10. ASSUME NEW c \in Clusters, ReleaseSlot(c) PROVE ReportInv'
  BY <1>10 DEF ReleaseSlot
<1>11. CASE GatherClose
  BY <1>11 DEF GatherClose
<1>12. CASE Push
  BY <1>12 DEF Push
<1>13. ASSUME NEW c \in Clusters, StartPushWorker(c) PROVE ReportInv'
  BY <1>13 DEF StartPushWorker
<1>14. ASSUME NEW c \in Clusters, RecordMetrics(c) PROVE ReportInv'
  BY <1>14 DEF RecordMetrics
<1>15. ASSUME NEW c \in Clusters, SendResult(c) PROVE ReportInv'
  BY <1>15 DEF SendResult
<1>16. ASSUME NEW c \in Clusters, PushWorkerDone(c) PROVE ReportInv'
  BY <1>16 DEF PushWorkerDone
<1>17. CASE PushClose
  BY <1>17 DEF PushClose
<1>18. CASE Report
  BY <1>18 DEF Report
<1>19. ASSUME NEW c \in Clusters, SetArrayConnectivity(c) PROVE ReportInv'
  BY <1>19 DEF SetArrayConnectivity
<1>20. ASSUME NEW c \in Clusters, RecordExportSuccess(c) PROVE ReportInv'
  BY <1>20 DEF RecordExportSuccess
<1>21. CASE Return
  BY <1>21 DEF Return
<1>22. CASE UNCHANGED vars
  BY <1>22 DEF vars
<1> QED
  BY <1>1, <1>2, <1>3, <1>4, <1>5, <1>6, <1>7, <1>8, <1>9, <1>10, <1>11,
     <1>12, <1>13, <1>14, <1>15, <1>16, <1>17, <1>18, <1>19, <1>20, <1>21,
     <1>22 DEF Next, Export, Gatherer, Pusher,
     Exporter, WorkerStep, PushWorkerStep

LEMMA InitIInv == Init => IInv
<1> SUFFICES ASSUME Init PROVE IInv
  OBVIOUS
<1> USE ConfigsAssumption, MaxConnAssumption DEF Init, All
<1>0. sem \in 0..MaxConn /\ wg \in Nat /\ pwg \in Nat
  OBVIOUS
<1>1. TypeOK
  BY <1>0 DEF TypeOK
<1>2. Holding = {} /\ Active = {} /\ Pushing = {}
  BY DEF Holding, Active, Pushing
<1>3. CountersInv
  BY <1>2, FS_EmptySet DEF CountersInv
<1>4. GatherInv
  BY <1>2 DEF GatherInv
<1>5. PushInv
  BY <1>2 DEF PushInv
<1>6. ReportInv
  BY DEF ReportInv
<1> QED
  BY <1>1, <1>3, <1>4, <1>5, <1>6 DEF IInv

(* The inductive invariant holds in every reachable state: the counters, the
   program counters and the tallies of the goroutines agree. *)
THEOREM Inductive == Spec => []IInv
<1>1. IInv /\ [Next]_vars => IInv'
  BY TypeStep, CountersStep, GatherStep, PushStep, ReportStep DEF IInv
<1> QED
  BY InitIInv, <1>1, PTL DEF Spec

(* Every variable stays within its type; in particular no wait group counter
   goes below zero (sync.WaitGroup would panic) and the semaphore's buffer
   never holds more than MaxConn tokens. *)
THEOREM TypeCorrect == Spec => []TypeOK
<1>1. IInv => TypeOK
  BY DEF IInv
<1> QED
  BY Inductive, <1>1, PTL

(* At most MaxPowerScaleConnections queries are under way at once. *)
THEOREM QueriesBounded == Spec => []BoundedQueries
<1>1. ASSUME IInv PROVE BoundedQueries
  <2>1. Querying \in SUBSET Holding
    BY DEF Querying, Holding
  <2>2. Cardinality(Querying) \in Nat /\ Cardinality(Querying) <= Cardinality(Holding)
    BY <2>1, FiniteGoroutines, FS_Subset, FS_CardinalityType
  <2>3. Cardinality(Holding) \in 0..MaxConn
    BY <1>1 DEF IInv, TypeOK, CountersInv
  <2> QED
    BY <2>2, <2>3, MaxConnAssumption DEF BoundedQueries
<1> QED
  BY Inductive, <1>1, PTL

(* No goroutine sends on a channel after close, which would panic. *)
THEOREM ChannelsSafe == Spec => []NoSendOnClosedChannel
<1>1. IInv => NoSendOnClosedChannel
  BY DEF IInv, GatherInv, PushInv, Active, Pushing, NoSendOnClosedChannel
<1> QED
  BY Inductive, <1>1, PTL

(* A worker's last receive never blocks, so no goroutine outlives its cycle. *)
THEOREM ReleaseSafe == Spec => []ReleaseNeverBlocks
<1>1. ASSUME IInv PROVE ReleaseNeverBlocks
  <2> SUFFICES ASSUME NEW c \in Clusters, worker[c] = "release" PROVE sem > 0
    BY DEF ReleaseNeverBlocks
  <2>1. Cardinality(Holding) # 0
    BY FiniteGoroutines, FS_EmptySet DEF Holding
  <2> QED
    BY <1>1, <2>1, MaxConnAssumption DEF IInv, TypeOK, CountersInv
<1> QED
  BY Inductive, <1>1, PTL

(* When a cycle is reported every answer was recorded and tallied once. *)
THEOREM MetricsKept == Spec => []NoMetricLost
<1>1. IInv => NoMetricLost
  BY DEF IInv, TypeOK, GatherInv, PushInv, Active, Pushing, NoMetricLost
<1> QED
  BY Inductive, <1>1, PTL

(* Whatever the reader counts beside it, the verdict of a cycle on a cluster is
   the one its own query and recording deserve, the gauge agrees, and while the
   self-metrics stay on no cluster of the exporter's copy is left without. *)
THEOREM StatusesSound == Spec => []StatusSound
<1>1. ASSUME IInv, NEW c \in Clusters, status[c] # "none"
      PROVE  status[c] = Deserved(c) /\ (c \in success <=> query[c] = "ok")
  <2>1. /\ c \in success <=> query[c] = "ok"
        /\ c \in success => (c \in failed <=> record[c] = "error")
        /\ c \in success => record[c] \in {"ok", "error"}
    BY <1>1 DEF IInv, TypeOK, GatherInv, PushInv, ReportInv, Active, Pushing
  <2>2. status[c] = StatusOf(c)
    BY <1>1 DEF IInv, ReportInv
  <2> QED
    BY <2>1, <2>2 DEF StatusOf, Deserved
<1>2. ASSUME IInv, NEW c \in Clusters
      PROVE  /\ \A s \in Counted(c) :
                   s = Deserved(c) \/ (s = "failure" /\ c \in undelivered)
             /\ status[c] # "none" =>
                   gauge[c] \in {"unset", IF query[c] = "ok" THEN "up" ELSE "down"}
             /\ steady /\ c \in snapshot \ (unreported \union current) =>
                   status[c] = Deserved(c)
  <2>1. \A s \in Counted(c) : s = Deserved(c) \/ (s = "failure" /\ c \in undelivered)
    BY <1>1, <1>2 DEF Counted
  <2>2. status[c] # "none" => gauge[c] \in {"unset", GaugeOf(c)}
    BY <1>2 DEF IInv, ReportInv
  <2>3. steady /\ c \in snapshot \ (unreported \union current) => status[c] # "none"
    BY <1>2 DEF IInv, ReportInv
  <2> QED
    BY <1>1, <1>2, <2>1, <2>2, <2>3 DEF GaugeOf
<1>3. IInv => StatusSound
  BY <1>2 DEF StatusSound
<1> QED
  BY Inductive, <1>3, PTL

(* While the exporter gathers, someone can move: a worker that holds a slot;
   if none does, the slots are free and the wait group is at zero, and the
   gatherer can start a worker or close the channel. *)
LEMMA GatheringMoves ==
    ASSUME IInv, main = "gather"
    PROVE  \/ GathererRuns \/ ExporterRuns
           \/ \E c \in Clusters : WorkerRuns(c)
<1> USE DEF IInv, TypeOK, CountersInv, GatherInv
<1>1. CASE Holding # {}
  <2>1. PICK c \in Clusters : worker[c] \in {"query", "send", "done", "release"}
    BY <1>1 DEF Holding
  <2>2. sem > 0
    BY <1>1, FiniteGoroutines, FS_EmptySet, MaxConnAssumption
  <2>3. WorkerRuns(c)
    BY <2>1, <2>2 DEF WorkerRuns
  <2> QED
    BY <2>3
<1>2. CASE Holding = {}
  <2>1. Active = {}
    BY <1>2 DEF Holding, Active
  <2>2. sem = 0 /\ wg = 0
    BY <1>2, <2>1, FS_EmptySet
  <2>3. CASE gather = "exit"
    BY <2>3 DEF ExporterRuns
  <2>4. CASE gather # "exit"
    BY <2>2, <2>4, MaxConnAssumption DEF GathererRuns
  <2> QED
    BY <2>3, <2>4
<1> QED
  BY <1>1, <1>2

(* The same for the pusher and its workers while the exporter pushes. *)
LEMMA PushingMoves ==
    ASSUME IInv, main = "push"
    PROVE  \/ PusherRuns \/ ExporterRuns
           \/ \E c \in Clusters : PushWorkerRuns(c)
<1>1. CASE Pushing # {}
  <2>1. PICK c \in Clusters : pworker[c] \in {"record", "send", "done"}
    BY <1>1 DEF Pushing
  <2> QED
    BY <2>1 DEF PushWorkerRuns
<1>2. CASE Pushing = {}
  <2>1. pwg = 0
    BY <1>2, FS_EmptySet DEF IInv, CountersInv
  <2> QED
    BY <2>1 DEF PusherRuns, ExporterRuns
<1> QED
  BY <1>1, <1>2

(* No cycle deadlocks, however many clusters there are and however few
   connections: semaphore, channels and wait groups never wait in a circle. *)
THEOREM NobodyStuck == Spec => []NeverStuck
<1>1. ASSUME IInv PROVE NeverStuck
  <2>1. main \in {"idle", "gather", "push", "report"}
    BY <1>1 DEF IInv, TypeOK
  <2>2. main = "report" => ExporterRuns
    BY DEF ExporterRuns
  <2> QED
    BY <1>1, <2>1, <2>2, GatheringMoves, PushingMoves DEF NeverStuck
<1> QED
  BY Inductive, <1>1, PTL

-----------------------------------------------------------------------------
(* What is counted is a number, before a step and after it. *)
LEMMA StepsType ==
    ASSUME TypeOK
    PROVE  /\ main # "idle" => CycleSteps \in Nat
           /\ \A c \in Clusters : StepsOf(c) \in Nat
<1>1. main # "idle" => Stage[main] \in Nat /\ Stage[gather] \in Nat
  BY DEF TypeOK, Stage
<1>2. \A c \in Clusters : Rank[worker[c]] \in Nat /\ Rank[pworker[c]] \in Nat
  BY DEF TypeOK, Rank
<1>3. \A c \in Clusters : Reported(c) \in Nat
  BY DEF Reported
<1> QED
  BY <1>1, <1>2, <1>3 DEF CycleSteps, StepsOf

LEMMA NextStepsType ==
    ASSUME TypeOK'
    PROVE  /\ main' # "idle" => CycleSteps' \in Nat
           /\ \A c \in Clusters : StepsOf(c)' \in Nat
<1>1. main' # "idle" => Stage[main'] \in Nat /\ Stage[gather'] \in Nat
  BY DEF TypeOK, Stage
<1>2. \A c \in Clusters : Rank[worker'[c]] \in Nat /\ Rank[pworker'[c]] \in Nat
  BY DEF TypeOK, Rank
<1>3. \A c \in Clusters : Reported(c)' \in Nat
  BY DEF Reported
<1> QED
  BY <1>1, <1>2, <1>3 DEF CycleSteps, StepsOf

(* A step for one cluster. *)
LEMMA OneAdvances ==
    ASSUME TypeOK, TypeOK', main # "idle", CycleSteps' = CycleSteps,
           NEW c \in Clusters, StepsOf(c) < StepsOf(c)',
           \A d \in Clusters \ {c} : StepsOf(d)' = StepsOf(d)
    PROVE  Advance
<1>1. CycleSteps \in Nat /\ \A d \in Clusters : StepsOf(d) \in Nat
  BY StepsType
<1>2. StepsOf(c)' \in Nat
  BY NextStepsType
<1>3. \A d \in Clusters : StepsOf(d) <= StepsOf(d)'
  BY <1>1, <1>2
<1>4. StepsOf(c) # StepsOf(c)'
  BY <1>1, <1>2
<1> QED
  BY <1>1, <1>3, <1>4 DEF Advance

(* A step of the cycle as a whole. *)
LEMMA AllAdvance ==
    ASSUME TypeOK, TypeOK', main # "idle", main' # "idle", CycleSteps < CycleSteps',
           \A d \in Clusters : StepsOf(d) <= StepsOf(d)'
    PROVE  Advance
<1>1. /\ CycleSteps \in Nat /\ CycleSteps' \in Nat
      /\ \A d \in Clusters : StepsOf(d) \in Nat
  BY StepsType, NextStepsType
<1> QED
  BY <1>1 DEF Advance

LEMMA NothingAdvances ==
    ASSUME TypeOK, main # "idle", UNCHANGED <<exporterVars, gatherVars, pushVars>>
    PROVE  Advance
<1>1. CycleSteps \in Nat /\ \A d \in Clusters : StepsOf(d) \in Nat
  BY StepsType
<1>2. CycleSteps' = CycleSteps
  BY DEF CycleSteps
<1>3. \A d \in Clusters : StepsOf(d)' = StepsOf(d)
  BY DEF StepsOf, Reported
<1> QED
  BY <1>1, <1>2, <1>3 DEF Advance

(* A step of a worker or of a push worker of c. *)
LEMMA WorkerAdvances ==
    ASSUME TypeOK, TypeOK', main # "idle", NEW c \in Clusters,
           UNCHANGED <<main, gather, pclosed, unreported, current>>,
           \/ /\ Rank[worker[c]] < Rank[worker'[c]] /\ UNCHANGED pworker
              /\ \A d \in Clusters \ {c} : worker'[d] = worker[d]
           \/ /\ Rank[pworker[c]] < Rank[pworker'[c]] /\ UNCHANGED worker
              /\ \A d \in Clusters \ {c} : pworker'[d] = pworker[d]
    PROVE  Advance
<1>1. \A d \in Clusters : Reported(d)' = Reported(d) /\ Reported(d) \in Nat
  BY DEF Reported
<1>2. /\ Rank[worker[c]] \in Nat /\ Rank[pworker[c]] \in Nat
      /\ Rank[worker'[c]] \in Nat /\ Rank[pworker'[c]] \in Nat
  BY DEF TypeOK, Rank
<1>3. StepsOf(c) < StepsOf(c)'
  BY <1>1, <1>2 DEF StepsOf
<1>4. \A d \in Clusters \ {c} : StepsOf(d)' = StepsOf(d)
  BY <1>1 DEF StepsOf
<1>5. CycleSteps' = CycleSteps
  BY DEF CycleSteps
<1> QED
  BY <1>3, <1>4, <1>5, OneAdvances

(* One case per action; the watchers' leave the cycle where it is. *)
LEMMA AdvanceStep ==
    ASSUME IInv, TypeOK', [Next]_vars, main # "idle", main' # "idle"
    PROVE  Advance
<1> USE DEF IInv
<1>1. CASE SetPowerScaleClients
  BY <1>1, NothingAdvances DEF SetPowerScaleClients
<1>2. CASE UpdateObservabilityMetrics
  BY <1>2, NothingAdvances DEF UpdateObservabilityMetrics
<1>3. CASE Export
  BY <1>3 DEF Export, Begin
<1> USE DEF TypeOK, Rank, Stage
<1>4. CASE GatherStart
  <2>1. CycleSteps' = CycleSteps + 1
    BY <1>4 DEF GatherStart, CycleSteps
  <2>2. \A d \in Clusters : StepsOf(d)' = StepsOf(d)
    BY <1>4 DEF GatherStart, StepsOf, Reported
  <2> QED
    BY <2>1, <2>2, AllAdvance, StepsType
<1>5. CASE GatherClose
  <2>1. CycleSteps' = CycleSteps + 1
    BY <1>5 DEF GatherClose, CycleSteps
  <2>2. \A d \in Clusters : StepsOf(d)' = StepsOf(d)
    BY <1>5 DEF GatherClose, StepsOf, Reported
  <2> QED
    BY <2>1, <2>2, AllAdvance, StepsType
<1>6. CASE Push
  <2>1. CycleSteps' = CycleSteps + 1
    BY <1>6 DEF Push, CycleSteps
  <2>2. \A d \in Clusters : StepsOf(d)' = StepsOf(d)
    BY <1>6 DEF Push, StepsOf, Reported
  <2> QED
    BY <2>1, <2>2, AllAdvance, StepsType
<1>7. CASE PushClose
  <2>1. CycleSteps' = CycleSteps + 1
    BY <1>7 DEF PushClose, CycleSteps
  <2>2. \A d \in Clusters : StepsOf(d)' = StepsOf(d)
    BY <1>7 DEF PushClose, StepsOf, Reported
  <2> QED
    BY <2>1, <2>2, AllAdvance, StepsType
<1>8. CASE Report
  <2>1. main = "push" /\ main' = "report" /\ UNCHANGED <<gather, pclosed, worker, pworker>>
    BY <1>8 DEF Report
  <2>2. CycleSteps' = CycleSteps + 1
    BY <2>1 DEF CycleSteps
  <2>3. \A d \in Clusters : Reported(d) = 0 /\ Reported(d)' \in Nat
    BY <2>1 DEF Reported
  <2>4. \A d \in Clusters : Rank[worker[d]] \in Nat /\ Rank[pworker[d]] \in Nat
    OBVIOUS
  <2>5. \A d \in Clusters : StepsOf(d) <= StepsOf(d)'
    BY <2>1, <2>3, <2>4 DEF StepsOf
  <2> QED
    BY <2>2, <2>5, AllAdvance, StepsType
<1>9. CASE Return
  BY <1>9 DEF Return
<1>10. ASSUME NEW c \in Clusters, StartWorker(c) PROVE Advance
  <2>1. /\ Rank[worker[c]] < Rank[worker'[c]]
        /\ \A d \in Clusters \ {c} : worker'[d] = worker[d]
        /\ UNCHANGED <<main, gather, pclosed, pworker, unreported, current>>
    BY <1>10 DEF StartWorker, GatherInv
  <2> QED
    BY <2>1, WorkerAdvances
<1>11. ASSUME NEW c \in Clusters, GetFloatStatistics(c) PROVE Advance
  <2>1. /\ Rank[worker[c]] < Rank[worker'[c]]
        /\ \A d \in Clusters \ {c} : worker'[d] = worker[d]
        /\ UNCHANGED <<main, gather, pclosed, pworker, unreported, current>>
    BY <1>11 DEF GetFloatStatistics
  <2> QED
    BY <2>1, WorkerAdvances
<1>12. ASSUME NEW c \in Clusters, SendMetric(c) PROVE Advance
  <2>1. /\ Rank[worker[c]] < Rank[worker'[c]]
        /\ \A d \in Clusters \ {c} : worker'[d] = worker[d]
        /\ UNCHANGED <<main, gather, pclosed, pworker, unreported, current>>
    BY <1>12 DEF SendMetric
  <2> QED
    BY <2>1, WorkerAdvances
<1>13. ASSUME NEW c \in Clusters, WorkerDone(c) PROVE Advance
  <2>1. /\ Rank[worker[c]] < Rank[worker'[c]]
        /\ \A d \in Clusters \ {c} : worker'[d] = worker[d]
        /\ UNCHANGED <<main, gather, pclosed, pworker, unreported, current>>
    BY <1>13 DEF WorkerDone
  <2> QED
    BY <2>1, WorkerAdvances
<1>14. ASSUME NEW c \in Clusters, ReleaseSlot(c) PROVE Advance
  <2>1. /\ Rank[worker[c]] < Rank[worker'[c]]
        /\ \A d \in Clusters \ {c} : worker'[d] = worker[d]
        /\ UNCHANGED <<main, gather, pclosed, pworker, unreported, current>>
    BY <1>14 DEF ReleaseSlot
  <2> QED
    BY <2>1, WorkerAdvances
<1>15. ASSUME NEW c \in Clusters, StartPushWorker(c) PROVE Advance
  <2>1. /\ Rank[pworker[c]] < Rank[pworker'[c]]
        /\ \A d \in Clusters \ {c} : pworker'[d] = pworker[d]
        /\ UNCHANGED <<main, gather, pclosed, worker, unreported, current>>
    BY <1>15 DEF StartPushWorker, PushInv
  <2> QED
    BY <2>1, WorkerAdvances
<1>16. ASSUME NEW c \in Clusters, RecordMetrics(c) PROVE Advance
  <2>1. /\ Rank[pworker[c]] < Rank[pworker'[c]]
        /\ \A d \in Clusters \ {c} : pworker'[d] = pworker[d]
        /\ UNCHANGED <<main, gather, pclosed, worker, unreported, current>>
    BY <1>16 DEF RecordMetrics
  <2> QED
    BY <2>1, WorkerAdvances
<1>17. ASSUME NEW c \in Clusters, SendResult(c) PROVE Advance
  <2>1. /\ Rank[pworker[c]] < Rank[pworker'[c]]
        /\ \A d \in Clusters \ {c} : pworker'[d] = pworker[d]
        /\ UNCHANGED <<main, gather, pclosed, worker, unreported, current>>
    BY <1>17 DEF SendResult
  <2> QED
    BY <2>1, WorkerAdvances
<1>18. ASSUME NEW c \in Clusters, PushWorkerDone(c) PROVE Advance
  <2>1. /\ Rank[pworker[c]] < Rank[pworker'[c]]
        /\ \A d \in Clusters \ {c} : pworker'[d] = pworker[d]
        /\ UNCHANGED <<main, gather, pclosed, worker, unreported, current>>
    BY <1>18 DEF PushWorkerDone
  <2> QED
    BY <2>1, WorkerAdvances
<1>19. ASSUME NEW c \in Clusters, SetArrayConnectivity(c) PROVE Advance
  <2>1. /\ Reported(c)' = Reported(c) + 1
        /\ \A d \in Clusters \ {c} : Reported(d)' = Reported(d)
    BY <1>19 DEF SetArrayConnectivity, Reported, ReportInv
  <2>2. UNCHANGED <<main, gather, pclosed, worker, pworker>>
    BY <1>19 DEF SetArrayConnectivity
  <2>3. StepsOf(c) < StepsOf(c)'
    BY <2>1, <2>2 DEF StepsOf, Reported
  <2>4. \A d \in Clusters \ {c} : StepsOf(d)' = StepsOf(d)
    BY <2>1, <2>2 DEF StepsOf
  <2>5. CycleSteps' = CycleSteps
    BY <2>2 DEF CycleSteps
  <2> QED
    BY <2>3, <2>4, <2>5, OneAdvances
<1>20. ASSUME NEW c \in Clusters, RecordExportSuccess(c) PROVE Advance
  <2>1. /\ Reported(c)' = Reported(c) + 1
        /\ \A d \in Clusters \ {c} : Reported(d)' = Reported(d)
    BY <1>20 DEF RecordExportSuccess, Reported, ReportInv
  <2>2. UNCHANGED <<main, gather, pclosed, worker, pworker>>
    BY <1>20 DEF RecordExportSuccess
  <2>3. StepsOf(c) < StepsOf(c)'
    BY <2>1, <2>2 DEF StepsOf, Reported
  <2>4. \A d \in Clusters \ {c} : StepsOf(d)' = StepsOf(d)
    BY <2>1, <2>2 DEF StepsOf
  <2>5. CycleSteps' = CycleSteps
    BY <2>2 DEF CycleSteps
  <2> QED
    BY <2>3, <2>4, <2>5, OneAdvances
<1>21. CASE UNCHANGED vars
  BY <1>21, NothingAdvances DEF vars
<1>22. CASE RecordPowerScaleExportFailure
  BY <1>22, NothingAdvances DEF RecordPowerScaleExportFailure
<1> QED
  BY <1>1, <1>2, <1>3, <1>4, <1>5, <1>6, <1>7, <1>8, <1>9, <1>10, <1>11,
     <1>12, <1>13, <1>14, <1>15, <1>16, <1>17, <1>18, <1>19, <1>20, <1>21, <1>22
     DEF Next, Gatherer, Pusher, Exporter, WorkerStep, PushWorkerStep

(* No goroutine of a cycle goes back, and each of its steps takes it on: with
   NobodyStuck, a cycle of any size comes to its end if its goroutines run. *)
THEOREM Advances == Spec => CycleAdvances
<1>1. IInv /\ IInv' /\ [Next]_vars => [main # "idle" /\ main' # "idle" => Advance]_vars
  BY AdvanceStep DEF IInv
<1> QED
  BY Inductive, <1>1, PTL DEF Spec, CycleAdvances

-----------------------------------------------------------------------------
(* Each step of the goroutines is a step of the abstract cycle or none. *)
LEMMA CycleStep ==
    ASSUME IInv, [Next]_vars
    PROVE  [Cycle!Next]_(Cycle!vars)
<1> USE DEF IInv, TypeOK, All, Cycle!vars, OutcomeOf
<1>1. CASE SetPowerScaleClients
  BY <1>1 DEF SetPowerScaleClients
<1>2. CASE UpdateObservabilityMetrics
  <2>1. Cycle!Switch
    BY <1>2 DEF UpdateObservabilityMetrics, Cycle!Switch
  <2> QED
    BY <2>1 DEF Cycle!Next
<1>3. ASSUME NEW k \in Kinds, Begin(k) PROVE [Cycle!Next]_(Cycle!vars)
  <2>1. Cycle!Begin
    BY <1>3, ConfigsAssumption DEF Begin, Cycle!Begin
  <2> QED
    BY <2>1 DEF Cycle!Next
<1>4. CASE RecordPowerScaleExportFailure
  BY <1>4 DEF RecordPowerScaleExportFailure
<1>5. CASE GatherStart
  BY <1>5 DEF GatherStart
<1>6. ASSUME NEW c \in Clusters, StartWorker(c) PROVE [Cycle!Next]_(Cycle!vars)
  BY <1>6 DEF StartWorker
<1>7. ASSUME NEW c \in Clusters, GetFloatStatistics(c) PROVE [Cycle!Next]_(Cycle!vars)
  <2>1. main = "gather" /\ query[c] = "none" /\ record[c] = "none"
    BY <1>7 DEF GetFloatStatistics, GatherInv, PushInv, Active
  <2>2. PICK r \in {"ok", "error"} : query' = [query EXCEPT ![c] = r]
    BY <1>7 DEF GetFloatStatistics
  <2>3. UNCHANGED <<main, inst, snapshot, unreported, current, record, status>>
    BY <1>7 DEF GetFloatStatistics
  <2>4. /\ OutcomeOf(c)' = IF r = "ok" THEN "answered" ELSE OutcomeOf(c)
        /\ \A d \in Clusters \ {c} : OutcomeOf(d)' = OutcomeOf(d)
    BY <2>1, <2>2, <2>3
  <2>5. CASE r = "ok"
    <3>1. OutcomeOf(c) = "none" /\ OutcomeOf(c)' = "answered"
      BY <2>1, <2>4, <2>5
    <3> HIDE DEF OutcomeOf
    <3>2. [d \in Clusters |-> OutcomeOf(d)]'
            = [[d \in Clusters |-> OutcomeOf(d)] EXCEPT ![c] = "answered"]
      BY <2>4, <3>1
    <3>3. Cycle!Answer(c)
      BY <2>1, <2>3, <3>1, <3>2 DEF Cycle!Answer
    <3> QED
      BY <3>3 DEF Cycle!Next
  <2>6. CASE r = "error"
    <3>1. [d \in Clusters |-> OutcomeOf(d)]' = [d \in Clusters |-> OutcomeOf(d)]
      BY <2>4, <2>6
    <3> QED
      BY <2>3, <3>1
  <2> QED
    BY <2>5, <2>6
<1>8. ASSUME NEW c \in Clusters, SendMetric(c) PROVE [Cycle!Next]_(Cycle!vars)
  BY <1>8 DEF SendMetric, GatherInv
<1>9. ASSUME NEW c \in Clusters, WorkerDone(c) PROVE [Cycle!Next]_(Cycle!vars)
  BY <1>9 DEF WorkerDone
<1>10. ASSUME NEW c \in Clusters, ReleaseSlot(c) PROVE [Cycle!Next]_(Cycle!vars)
  BY <1>10 DEF ReleaseSlot
<1>11. CASE GatherClose
  BY <1>11 DEF GatherClose
<1>12. CASE Push
  BY <1>12 DEF Push, ReportInv
<1>13. ASSUME NEW c \in Clusters, StartPushWorker(c) PROVE [Cycle!Next]_(Cycle!vars)
  BY <1>13 DEF StartPushWorker
<1>14. ASSUME NEW c \in Clusters, RecordMetrics(c) PROVE [Cycle!Next]_(Cycle!vars)
  <2>1. main = "push" /\ query[c] = "ok" /\ record[c] = "none"
    BY <1>14 DEF RecordMetrics, PushInv, GatherInv, Pushing
  <2>2. PICK r \in {"ok", "error"} : record' = [record EXCEPT ![c] = r]
    BY <1>14 DEF RecordMetrics
  <2>3. UNCHANGED <<main, inst, snapshot, query, status>>
    BY <1>14 DEF RecordMetrics
  <2>4. /\ OutcomeOf(c)' = IF r = "ok" THEN "exported" ELSE "failed"
        /\ \A d \in Clusters \ {c} : OutcomeOf(d)' = OutcomeOf(d)
    BY <2>1, <2>2, <2>3
  <2>5. /\ OutcomeOf(c) = "answered"
        /\ OutcomeOf(c)' \in {"exported", "failed"}
    BY <2>1, <2>2, <2>4
  <2> HIDE DEF OutcomeOf
  <2>6. \A d \in {c} : [e \in Clusters |-> OutcomeOf(e)][d] = "answered"
    BY <2>5
  <2>7. [d \in Clusters |-> OutcomeOf(d)]'
          = [d \in Clusters |-> IF d \in {c} THEN OutcomeOf(c)'
                                 ELSE [e \in Clusters |-> OutcomeOf(e)][d]]
    BY <2>4
  <2>8. Cycle!HandOver({c})
    BY <2>1, <2>3, <2>5, <2>6, <2>7 DEF Cycle!HandOver
  <2> QED
    BY <2>8 DEF Cycle!Next
<1>15. ASSUME NEW c \in Clusters, SendResult(c) PROVE [Cycle!Next]_(Cycle!vars)
  BY <1>15 DEF SendResult
<1>16. ASSUME NEW c \in Clusters, PushWorkerDone(c) PROVE [Cycle!Next]_(Cycle!vars)
  BY <1>16 DEF PushWorkerDone
<1>17. CASE PushClose
  BY <1>17 DEF PushClose
<1>18. CASE Report
  <2>1. \A c \in Clusters : query[c] = "ok" => record[c] # "none"
    BY <1>18 DEF Report, GatherInv, PushInv, Active, Pushing
  <2>2. \A c \in Clusters : OutcomeOf(c) # "answered"
    BY <2>1
  <2>3. current = {}
    BY <1>18 DEF Report, ReportInv
  <2>4. Cycle!Report
    BY <1>18, <2>2, <2>3 DEF Report, Cycle!Report
  <2> QED
    BY <2>4 DEF Cycle!Next
<1>19. ASSUME NEW c \in Clusters, SetArrayConnectivity(c) PROVE [Cycle!Next]_(Cycle!vars)
  BY <1>19 DEF SetArrayConnectivity, ReportInv
<1>20. ASSUME NEW c \in Clusters, RecordExportSuccess(c) PROVE [Cycle!Next]_(Cycle!vars)
  <2>1. main = "report" /\ current = {c} /\ c \notin unreported
    BY <1>20 DEF RecordExportSuccess, ReportInv
  <2>2. /\ c \in success <=> query[c] = "ok"
        /\ c \in success <=> record[c] # "none"
        /\ c \in failed <=> record[c] = "error"
    BY <2>1 DEF GatherInv, PushInv, Active, Pushing
  <2>3. StatusOf(c) = Cycle!Deserved(c)
    BY <2>1, <2>2 DEF StatusOf, Cycle!Deserved
  <2>4. Cycle!Judge(c)
    BY <1>20, <2>1, <2>3 DEF RecordExportSuccess, Cycle!Judge
  <2> QED
    BY <2>4 DEF Cycle!Next
<1>21. CASE Return
  <2>1. Cycle!End
    BY <1>21 DEF Return, Cycle!End, ReportInv
  <2> QED
    BY <2>1 DEF Cycle!Next
<1>22. CASE UNCHANGED vars
  BY <1>22 DEF vars
<1> QED
  BY <1>1, <1>2, <1>3, <1>4, <1>5, <1>6, <1>7, <1>8, <1>9, <1>10, <1>11,
     <1>12, <1>13, <1>14, <1>15, <1>16, <1>17, <1>18, <1>19, <1>20, <1>21,
     <1>22 DEF Next, Export, Gatherer, Pusher,
     Exporter, WorkerStep, PushWorkerStep

(* StatsExport implements ExportCycle: whatever the goroutines' order, a cycle
   reports after every answer was handed over, and gives each target once the
   verdict it deserves. *)
THEOREM Implements == Spec => ImplementsCycle
<1>1. Init => Cycle!Init
  BY DEF Init, All, OutcomeOf, Cycle!Init
<1>2. IInv /\ [Next]_vars => [Cycle!Next]_(Cycle!vars)
  BY CycleStep
<1> QED
  BY Inductive, <1>1, <1>2, PTL DEF Spec, ImplementsCycle, Cycle!Spec
=============================================================================
