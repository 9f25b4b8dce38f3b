------------------------- MODULE QuotaExport_proofs -------------------------
(***************************************************************************)
(* Proofs about QuotaExport, for any finite sets of clusters and volumes,  *)
(* any volume handles, any configurations and any positive MaxConn.        *)
(***************************************************************************)
EXTENDS QuotaExport, FiniteSetTheorems, TLAPS

USE DEF configVars, queryVars, gatherVars, pushVars, tallyVars, reportVars, Items,
        Stages, AllItems, AfterReturn, Acquire, Unlock

(* A volume is not a cluster, so an item belongs to one stage. *)
LEMMA ItemsLemma ==
    /\ \A k \in Stages : ItemsOf(k) \subseteq Items
    /\ \A k \in Stages : \A i \in ItemsOf(k) : StageOf(i) = k
    /\ \A i \in Items : StageOf(i) \in Stages /\ i \in ItemsOf(StageOf(i))
    /\ \A k \in Stages : MetricCount[k] \in Nat
BY ItemsAssumption DEF ItemsOf, StageOf, MetricCount

LEMMA FiniteItems == \A S \in SUBSET Items : IsFiniteSet(S)
BY ItemsAssumption, FS_Union, FS_Subset

(* The clients are some of the clusters. *)
LEMMA ConfigsLemma == \A S \in ClientSets : S \in SUBSET Clusters
BY ConfigsAssumption DEF ClientSets

(* Paths of volumes are directories, or there are none. *)
LEMMA PathsLemma ==
    /\ NoPaths \in [Volumes -> PathValues]
    /\ \A pvs \in SUBSET Volumes : Attributes(pvs) \subseteq [Volumes -> PathValues]
    /\ Classes \subseteq [Volumes -> PathValues]
BY DEF NoPaths, PathValues, Attributes, Classes

(* What the sure volumes and clusters depend on. *)
LEMMA SameSure ==
    /\ UNCHANGED <<listed, quotas, ownPath, classPath, inForce>>
           => SureVolumes' = SureVolumes
    /\ UNCHANGED quotas => SureClusters' = SureClusters
BY DEF SureVolumes, SureClusters, PathOf, Permanent, WellFormed

(* One more item adds the metrics of its stage to the count of its cluster. *)
LEMMA CountOfOneMore ==
    ASSUME NEW S \in SUBSET Items, NEW r \in Items \ S, NEW c \in Clusters
    PROVE  /\ CountOf(S, c) \in Nat
           /\ CountOf(S \union {r}, c)
                = IF ClusterOf(r) = c THEN CountOf(S, c) + MetricCount[StageOf(r)]
                                      ELSE CountOf(S, c)
<1> DEFINE Mine(T) == {i \in T : ClusterOf(i) = c}
           V(T)    == Mine(T) \intersect Volumes
           O(T)    == Mine(T) \intersect {c}
<1>1. /\ IsFiniteSet(V(S)) /\ IsFiniteSet(O(S))
      /\ Cardinality(V(S)) \in Nat /\ Cardinality(O(S)) \in Nat
  BY FiniteItems, FS_CardinalityType
<1>2. /\ CountOf(S, c) = 4 * Cardinality(V(S)) + 2 * Cardinality(O(S))
      /\ CountOf(S \union {r}, c) = 4 * Cardinality(V(S \union {r}))
                                     + 2 * Cardinality(O(S \union {r}))
  BY DEF CountOf
<1>3. CountOf(S, c) \in Nat
  <2> HIDE DEF V, O
  <2> QED
    BY <1>1, <1>2
<1>4. CASE ClusterOf(r) # c
  <2>1. V(S \union {r}) = V(S) /\ O(S \union {r}) = O(S)
    BY <1>4
  <2> QED
    BY <2>1, <1>2, <1>3, <1>4
<1>5. CASE ClusterOf(r) = c /\ r \in Volumes
  <2>1. V(S \union {r}) = V(S) \union {r} /\ O(S \union {r}) = O(S)
    BY <1>5, ItemsAssumption
  <2>2. Cardinality(V(S \union {r})) = Cardinality(V(S)) + 1
    BY <2>1, <1>1, FS_AddElement
  <2>3. MetricCount[StageOf(r)] = 4
    BY <1>5 DEF MetricCount, StageOf
  <2> HIDE DEF V, O
  <2> QED
    BY <2>1, <2>2, <2>3, <1>1, <1>2, <1>3, <1>5
<1>6. CASE ClusterOf(r) = c /\ r \notin Volumes
  <2>1. r = c
    BY <1>6 DEF ClusterOf
  <2>2. V(S \union {r}) = V(S) /\ O(S \union {r}) = O(S) \union {r}
    BY <1>6, <2>1
  <2>3. Cardinality(O(S \union {r})) = Cardinality(O(S)) + 1
    BY <2>2, <1>1, FS_AddElement
  <2>4. MetricCount[StageOf(r)] = 2
    BY <1>6 DEF MetricCount, StageOf
  <2> HIDE DEF V, O
  <2> QED
    BY <2>2, <2>3, <2>4, <1>1, <1>2, <1>3, <1>6
<1> QED
  BY <1>3, <1>4, <1>5, <1>6

(* A result that a consumer works on is that of a gathered item, of a cluster. *)
LEMMA ResultLemma ==
    ASSUME IInv, NEW k \in Stages, Working(k)
    PROVE  /\ main = "push"
           /\ result[k] \in Items /\ result[k] \in ItemsOf(k)
           /\ StageOf(result[k]) = k
           /\ push[result[k]] = "exit"
           /\ ClusterOf(result[k]) \in Clusters
<1>1. main = "push"
  BY DEF IInv, TypeOK, PhaseInv, ConsumerInv, Working
<1>2. result[k] \in ItemsOf(k) /\ push[result[k]] = "exit"
  BY DEF IInv, ConsumerInv
<1>3. result[k] \in gathered
  BY <1>1, <1>2, ItemsLemma DEF IInv, TallyInv
<1> QED
  BY <1>1, <1>2, <1>3, ItemsLemma DEF IInv, GatherInv

(* Types are preserved; the mutex is held by the consumer that stores. *)
LEMMA TypeStep ==
    ASSUME IInv, [Next]_vars
    PROVE  TypeOK'
<1> USE ItemsLemma, ConfigsLemma, PathsLemma DEF IInv, TypeOK
<1>1. CASE SetPowerScaleClients
  BY <1>1 DEF SetPowerScaleClients
<1>2. CASE SetClientIsiPaths
  BY <1>2 DEF SetClientIsiPaths
<1>3. ASSUME NEW pvs \in SUBSET Volumes,
             NEW attr \in Attributes(pvs), ExportQuotaMetrics(pvs, attr)
      PROVE  TypeOK'
  BY <1>3 DEF ExportQuotaMetrics, PhaseInv
<1>4. ASSUME NEW c \in Clusters, GetAllQuotas(c) PROVE TypeOK'
  BY <1>4 DEF GetAllQuotas, PhaseInv, QuotasOf
<1>5. ASSUME NEW classes \in Classes, GatherVolumes(classes) PROVE TypeOK'
  BY <1>5 DEF GatherVolumes
<1>6. ASSUME NEW i \in Items, StartWorker(i) PROVE TypeOK'
  BY <1>6 DEF StartWorker
<1>7. ASSUME NEW i \in Items, LookUp(i) PROVE TypeOK'
  BY <1>7 DEF LookUp
<1>8. ASSUME NEW i \in Items, SendMetric(i) PROVE TypeOK'
  BY <1>8 DEF SendMetric
<1>9. ASSUME NEW i \in Items, ReleaseSlot(i) PROVE TypeOK'
  BY <1>9 DEF ReleaseSlot
<1>10. CASE GatherClusters
  BY <1>10 DEF GatherClusters
<1>11. CASE Push
  BY <1>11 DEF Push, PhaseInv
<1>12. ASSUME NEW i \in Items, RecordQuota(i) PROVE TypeOK'
  BY <1>12 DEF RecordQuota
<1>13. ASSUME NEW i \in Items, SendResult(i) PROVE TypeOK'
  BY <1>13 DEF SendResult
<1>14. ASSUME NEW k \in Stages, Lock(k) PROVE TypeOK'
  <2>1. /\ Working(k) /\ ClusterOf(result[k]) \in Clusters
        /\ counts[ClusterOf(result[k])] \in Nat
    BY <1>14, ResultLemma DEF Lock, Working
  <2>2. seen' \in [Stages -> [count : Nat, failed : BOOLEAN]]
    BY <1>14, <2>1 DEF Lock
  <2>3. {l \in Stages : consumer'[l] = "store"} = {mu'} \ {"free"}
    BY <1>14 DEF Lock
  <2> QED
    BY <1>14, <2>2, <2>3 DEF Lock
<1>15. ASSUME NEW k \in Stages, Tally(k) PROVE TypeOK'
  <2>1. /\ ClusterOf(result[k]) \in Clusters
        /\ seen[k].count + MetricCount[k] \in Nat
    BY <1>15, ResultLemma DEF Tally, Working
  <2>2. counts' \in [Clusters -> Nat] /\ failed' \in SUBSET Clusters
    BY <1>15, <2>1 DEF Tally
  <2>3. {l \in Stages : consumer'[l] = "store"} = {mu'} \ {"free"}
    BY <1>15 DEF Tally
  <2>4. seen' \in [Stages -> [count : Nat, failed : BOOLEAN]]
    BY <1>15 DEF Tally, Nothing
  <2> QED
    BY <1>15, <2>2, <2>3, <2>4 DEF Tally
<1>16. ASSUME NEW k \in Stages, EndConsumer(k) PROVE TypeOK'
  BY <1>16 DEF EndConsumer
<1>17. CASE Report
  BY <1>17 DEF Report
<1>18. ASSUME NEW c \in Clusters, RecordExportSuccess(c) PROVE TypeOK'
  BY <1>18 DEF RecordExportSuccess, StatusOf
<1>19. CASE Return
  BY <1>19 DEF Return, ConsumerInv
<1>20. CASE UNCHANGED vars
  BY <1>20 DEF vars
<1> QED
  BY <1>1, <1>2, <1>3, <1>4, <1>5, <1>6, <1>7, <1>8, <1>9, <1>10,
     <1>11, <1>12, <1>13, <1>14, <1>15, <1>16, <1>17, <1>18, <1>19,
     <1>20 DEF Next, Reload,
     Progress, ItemStep, ConsumerStep, ClusterStep

(* What a stage leaves as it is stays so. *)
LEMMA PhaseStep ==
    ASSUME IInv, [Next]_vars
    PROVE  PhaseInv'
<1> USE ItemsLemma DEF IInv, TypeOK, PhaseInv
<1>1. CASE SetPowerScaleClients
  BY <1>1 DEF SetPowerScaleClients
<1>2. CASE SetClientIsiPaths
  BY <1>2 DEF SetClientIsiPaths
<1>3. ASSUME NEW pvs \in SUBSET Volumes,
             NEW attr \in Attributes(pvs), ExportQuotaMetrics(pvs, attr)
      PROVE  PhaseInv'
  BY <1>3, ConfigsLemma DEF ExportQuotaMetrics
<1>4. ASSUME NEW c \in Clusters, GetAllQuotas(c) PROVE PhaseInv'
  BY <1>4 DEF GetAllQuotas
<1>5. ASSUME NEW classes \in Classes, GatherVolumes(classes) PROVE PhaseInv'
  BY <1>5 DEF GatherVolumes, ItemsOf
<1>6. ASSUME NEW i \in Items, StartWorker(i) PROVE PhaseInv'
  BY <1>6 DEF StartWorker, ItemsOf
<1>7. ASSUME NEW i \in Items, LookUp(i) PROVE PhaseInv'
  BY <1>7 DEF LookUp
<1>8. ASSUME NEW i \in Items, SendMetric(i) PROVE PhaseInv'
  BY <1>8 DEF SendMetric
<1>9. ASSUME NEW i \in Items, ReleaseSlot(i) PROVE PhaseInv'
  BY <1>9 DEF ReleaseSlot
<1>10. CASE GatherClusters
  BY <1>10, ConfigsLemma DEF GatherClusters, ItemsOf
<1>11. CASE Push
  BY <1>11 DEF Push
<1>12. ASSUME NEW i \in Items, RecordQuota(i) PROVE PhaseInv'
  BY <1>12 DEF RecordQuota
<1>13. ASSUME NEW i \in Items, SendResult(i) PROVE PhaseInv'
  BY <1>13 DEF SendResult
<1>14. ASSUME NEW k \in Stages, Lock(k) PROVE PhaseInv'
  BY <1>14 DEF Lock
<1>15. ASSUME NEW k \in Stages, Tally(k) PROVE PhaseInv'
  BY <1>15 DEF Tally
<1>16. ASSUME NEW k \in Stages, EndConsumer(k) PROVE PhaseInv'
  BY <1>16 DEF EndConsumer
<1>17. CASE Report
  BY <1>17 DEF Report, ConsumerInv
<1>18. ASSUME NEW c \in Clusters, RecordExportSuccess(c) PROVE PhaseInv'
  BY <1>18 DEF RecordExportSuccess
<1>19. CASE Return
  BY <1>19 DEF Return
<1>20. CASE UNCHANGED vars
  BY <1>20 DEF vars
<1> QED
  BY <1>1, <1>2, <1>3, <1>4, <1>5, <1>6, <1>7, <1>8, <1>9, <1>10,
     <1>11, <1>12, <1>13, <1>14, <1>15, <1>16, <1>17, <1>18, <1>19,
     <1>20 DEF Next, Reload,
     Progress, ItemStep, ConsumerStep, ClusterStep

(* No item is passed over or taken twice: a sure one is found when it is looked
   up. *)
LEMMA GatherStep ==
    ASSUME IInv, [Next]_vars
    PROVE  GatherInv'
<1> USE ItemsLemma, SameSure DEF IInv, TypeOK, GatherInv, PhaseInv
<1>1. CASE SetPowerScaleClients
  BY <1>1 DEF SetPowerScaleClients
<1>2. CASE SetClientIsiPaths
  <2>1. main = "volume" => SureVolumes' \subseteq SureVolumes /\ paths' \in inForce'
    BY <1>2 DEF SetClientIsiPaths, SureVolumes, PathOf
  <2>2. SureClusters' = SureClusters
    BY <1>2 DEF SetClientIsiPaths
  <2> QED
    BY <1>2, <2>1, <2>2 DEF SetClientIsiPaths
<1>3. ASSUME NEW pvs \in SUBSET Volumes,
             NEW attr \in Attributes(pvs), ExportQuotaMetrics(pvs, attr)
      PROVE  GatherInv'
  BY <1>3, ConfigsLemma DEF ExportQuotaMetrics
<1>4. ASSUME NEW c \in Clusters, GetAllQuotas(c) PROVE GatherInv'
  BY <1>4 DEF GetAllQuotas
<1>5. ASSUME NEW classes \in Classes, GatherVolumes(classes) PROVE GatherInv'
  BY <1>5 DEF GatherVolumes, SureVolumes
<1>6. ASSUME NEW i \in Items, StartWorker(i) PROVE GatherInv'
  BY <1>6 DEF StartWorker
<1>7. ASSUME NEW i \in Items, LookUp(i) PROVE GatherInv'
  <2>1. /\ worker[i] = "look"
        /\ UNCHANGED <<main, todo, gathered, quotas, listed, ownPath, classPath,
                       paths, inForce>>
    BY <1>7 DEF LookUp
  <2>2. worker' = [worker EXCEPT ![i] = IF Found(i) THEN "send" ELSE "release"]
    BY <1>7 DEF LookUp
  <2>3. Found(i) => ClusterOf(i) \in Clusters
    BY ItemsAssumption DEF Found, ClusterOf, WellFormed
  <2>4. main = "volume" => paths \in inForce
    OBVIOUS
  <2>5. main = "volume" /\ i \in SureVolumes => Found(i)
    BY <2>1, <2>4, ItemsLemma DEF Found, IsiPath, SureVolumes
  <2>6. main = "cluster" /\ i \in SureClusters => Found(i)
    BY ItemsAssumption DEF Found, SureClusters, Permanent
  <2>7. SureVolumes' = SureVolumes /\ SureClusters' = SureClusters
    BY <2>1
  <2>8. \A j \in Items : worker'[j] = "send" => ClusterOf(j) \in Clusters
    BY <2>1, <2>2, <2>3
  <2>9. main = "volume" => SureVolumes \subseteq todo \union gathered
                    \union {j \in Items : worker'[j] \in {"look", "send"}}
    BY <2>1, <2>2, <2>5
  <2>10. main = "cluster" => SureClusters \subseteq todo \union gathered
                    \union {j \in Items : worker'[j] \in {"look", "send"}}
    BY <2>1, <2>2, <2>6
  <2>11. \A j \in todo : worker'[j] = "none"
    BY <2>1, <2>2
  <2> QED
    BY <2>1, <2>7, <2>8, <2>9, <2>10, <2>11
<1>8. ASSUME NEW i \in Items, SendMetric(i) PROVE GatherInv'
  BY <1>8 DEF SendMetric
<1>9. ASSUME NEW i \in Items, ReleaseSlot(i) PROVE GatherInv'
  BY <1>9 DEF ReleaseSlot
<1>10. CASE GatherClusters
  <2>1. main' = "cluster" /\ todo' = clients /\ worker' = AllItems("none")
        /\ UNCHANGED <<quotas, gathered>>
    BY <1>10 DEF GatherClusters
  <2>2. Permanent \subseteq clients
    BY DEF Permanent, ClientSets
  <2>3. SureClusters' \subseteq todo'
    BY <2>1, <2>2 DEF SureClusters, Permanent
  <2> QED
    BY <2>1, <2>3, ConfigsLemma
<1>11. CASE Push
  BY <1>11 DEF Push
<1>12. ASSUME NEW i \in Items, RecordQuota(i) PROVE GatherInv'
  BY <1>12 DEF RecordQuota
<1>13. ASSUME NEW i \in Items, SendResult(i) PROVE GatherInv'
  BY <1>13 DEF SendResult
<1>14. ASSUME NEW k \in Stages, Lock(k) PROVE GatherInv'
  BY <1>14 DEF Lock
<1>15. ASSUME NEW k \in Stages, Tally(k) PROVE GatherInv'
  BY <1>15 DEF Tally
<1>16. ASSUME NEW k \in Stages, EndConsumer(k) PROVE GatherInv'
  BY <1>16 DEF EndConsumer
<1>17. CASE Report
  BY <1>17 DEF Report
<1>18. ASSUME NEW c \in Clusters, RecordExportSuccess(c) PROVE GatherInv'
  BY <1>18 DEF RecordExportSuccess
<1>19. CASE Return
  BY <1>19 DEF Return
<1>20. CASE UNCHANGED vars
  BY <1>20 DEF vars
<1> QED
  BY <1>1, <1>2, <1>3, <1>4, <1>5, <1>6, <1>7, <1>8, <1>9, <1>10,
     <1>11, <1>12, <1>13, <1>14, <1>15, <1>16, <1>17, <1>18, <1>19,
     <1>20 DEF Next, Reload,
     Progress, ItemStep, ConsumerStep, ClusterStep

(* A consumer keeps its result, and what it has read under the mutex, until it writes. *)
LEMMA ConsumerInvStep ==
    ASSUME IInv, [Next]_vars
    PROVE  ConsumerInv'
<1> USE ItemsLemma DEF IInv, TypeOK, ConsumerInv, Working, PhaseInv
<1>1. CASE SetPowerScaleClients
  BY <1>1 DEF SetPowerScaleClients
<1>2. CASE SetClientIsiPaths
  BY <1>2 DEF SetClientIsiPaths
<1>3. ASSUME NEW pvs \in SUBSET Volumes,
             NEW attr \in Attributes(pvs), ExportQuotaMetrics(pvs, attr)
      PROVE  ConsumerInv'
  BY <1>3 DEF ExportQuotaMetrics
<1>4. ASSUME NEW c \in Clusters, GetAllQuotas(c) PROVE ConsumerInv'
  BY <1>4 DEF GetAllQuotas
<1>5. ASSUME NEW classes \in Classes, GatherVolumes(classes) PROVE ConsumerInv'
  BY <1>5 DEF GatherVolumes
<1>6. ASSUME NEW i \in Items, StartWorker(i) PROVE ConsumerInv'
  BY <1>6 DEF StartWorker
<1>7. ASSUME NEW i \in Items, LookUp(i) PROVE ConsumerInv'
  BY <1>7 DEF LookUp
<1>8. ASSUME NEW i \in Items, SendMetric(i) PROVE ConsumerInv'
  BY <1>8 DEF SendMetric
<1>9. ASSUME NEW i \in Items, ReleaseSlot(i) PROVE ConsumerInv'
  BY <1>9 DEF ReleaseSlot
<1>10. CASE GatherClusters
  BY <1>10 DEF GatherClusters
<1>11. CASE Push
  BY <1>11 DEF Push
<1>12. ASSUME NEW i \in Items, RecordQuota(i) PROVE ConsumerInv'
  BY <1>12 DEF RecordQuota
<1>13. ASSUME NEW i \in Items, SendResult(i) PROVE ConsumerInv'
  <2>1. /\ push[i] = "send" /\ push' = [push EXCEPT ![i] = "exit"]
        /\ consumer[StageOf(i)] = "range"
        /\ consumer' = [consumer EXCEPT ![StageOf(i)] = "lock"]
        /\ result' = [result EXCEPT ![StageOf(i)] = i]
        /\ UNCHANGED <<main, seen, counts, failed>>
    BY <1>13 DEF SendResult
  <2>2. StageOf(i) \in Stages /\ i \in ItemsOf(StageOf(i))
    BY ItemsLemma
  <2> QED
    BY <2>1, <2>2
<1>14. ASSUME NEW k \in Stages, Lock(k) PROVE ConsumerInv'
  BY <1>14 DEF Lock
<1>15. ASSUME NEW k \in Stages, Tally(k) PROVE ConsumerInv'
  <2>1. \A l \in Stages : consumer[l] = "store" => l = k
    BY <1>15 DEF Tally
  <2> QED
    BY <1>15, <2>1 DEF Tally
<1>16. ASSUME NEW k \in Stages, EndConsumer(k) PROVE ConsumerInv'
  BY <1>16 DEF EndConsumer
<1>17. CASE Report
  BY <1>17 DEF Report, ConsumersDone
<1>18. ASSUME NEW c \in Clusters, RecordExportSuccess(c) PROVE ConsumerInv'
  BY <1>18 DEF RecordExportSuccess
<1>19. CASE Return
  BY <1>19 DEF Return
<1>20. CASE UNCHANGED vars
  BY <1>20 DEF vars
<1> QED
  BY <1>1, <1>2, <1>3, <1>4, <1>5, <1>6, <1>7, <1>8, <1>9, <1>10,
     <1>11, <1>12, <1>13, <1>14, <1>15, <1>16, <1>17, <1>18, <1>19,
     <1>20 DEF Next, Reload,
     Progress, ItemStep, ConsumerStep, ClusterStep

(* The tallies stay right when neither they nor what they rest on changes. *)
LEMMA SameTallies ==
    ASSUME IInv, main' = main \/ main = "push", gathered' = gathered,
           UNCHANGED <<counts, failed>>, Tallied' = Tallied,
           \A i \in Items : push'[i] # "none" <=> push[i] # "none",
           \A i \in Tallied : record'[i] = record[i]
    PROVE  TallyInv'
<1>1. \A c \in Clusters : /\ CountOf(Tallied, c)' = CountOf(Tallied, c)
                         /\ FailedIn(Tallied, c)' <=> FailedIn(Tallied, c)
  BY DEF CountOf, FailedIn, ClusterOf
<1> QED
  BY <1>1 DEF IInv, TallyInv

(* One more tallied item adds its metrics to the count of its cluster. *)
LEMMA OneMoreTallied ==
    \A r \in Items, d \in Clusters :
        r \notin Tallied =>
            CountOf(Tallied \union {r}, d)
                = IF ClusterOf(r) = d THEN CountOf(Tallied, d) + MetricCount[StageOf(r)]
                                      ELSE CountOf(Tallied, d)
<1>1. Tallied \in SUBSET Items
  BY DEF Tallied
<1> QED
  BY <1>1, CountOfOneMore

(* A tally adds the result that its consumer was working on. *)
LEMMA TallyStep ==
    ASSUME IInv, [Next]_vars
    PROVE  TallyInv'
<1> USE ItemsLemma DEF IInv, TypeOK, TallyInv, PhaseInv
<1>1. CASE SetPowerScaleClients
  <2>1. Tallied' = Tallied
    BY <1>1 DEF SetPowerScaleClients, Tallied, Working
  <2> QED
    BY <1>1, <2>1, SameTallies DEF SetPowerScaleClients
<1>2. CASE SetClientIsiPaths
  <2>1. Tallied' = Tallied
    BY <1>2 DEF SetClientIsiPaths, Tallied, Working
  <2> QED
    BY <1>2, <2>1, SameTallies DEF SetClientIsiPaths
<1>3. ASSUME NEW pvs \in SUBSET Volumes,
             NEW attr \in Attributes(pvs), ExportQuotaMetrics(pvs, attr)
      PROVE  TallyInv'
  BY <1>3 DEF ExportQuotaMetrics
<1>4. ASSUME NEW c \in Clusters, GetAllQuotas(c) PROVE TallyInv'
  BY <1>4 DEF GetAllQuotas
<1>5. ASSUME NEW classes \in Classes, GatherVolumes(classes) PROVE TallyInv'
  BY <1>5 DEF GatherVolumes
<1>6. ASSUME NEW i \in Items, StartWorker(i) PROVE TallyInv'
  BY <1>6 DEF StartWorker
<1>7. ASSUME NEW i \in Items, LookUp(i) PROVE TallyInv'
  BY <1>7 DEF LookUp
<1>8. ASSUME NEW i \in Items, SendMetric(i) PROVE TallyInv'
  BY <1>8 DEF SendMetric
<1>9. ASSUME NEW i \in Items, ReleaseSlot(i) PROVE TallyInv'
  BY <1>9 DEF ReleaseSlot
<1>10. CASE GatherClusters
  BY <1>10 DEF GatherClusters
<1>11. CASE Push
  <2>1. Tallied' = {}
    BY <1>11 DEF Push, Tallied
  <2>2. \A c \in Clusters : CountOf(Tallied, c)' = 0
    BY <2>1, FS_EmptySet DEF CountOf
  <2>3. \A c \in Clusters : ~FailedIn(Tallied, c)'
    BY <2>1 DEF FailedIn
  <2> QED
    BY <1>11, <2>2, <2>3 DEF Push
<1>12. ASSUME NEW i \in Items, RecordQuota(i) PROVE TallyInv'
  <2>1. Tallied' = Tallied /\ i \notin Tallied
    BY <1>12 DEF RecordQuota, Tallied, Working
  <2>2. \A j \in Items : push'[j] # "none" <=> push[j] # "none"
    BY <1>12 DEF RecordQuota
  <2>3. \A j \in Tallied : record'[j] = record[j]
    BY <1>12, <2>1 DEF RecordQuota, Tallied
  <2> QED
    BY <1>12, <2>1, <2>2, <2>3, SameTallies DEF RecordQuota
<1>13. ASSUME NEW i \in Items, SendResult(i) PROVE TallyInv'
  <2>1. /\ push[i] = "send" /\ push' = [push EXCEPT ![i] = "exit"]
        /\ consumer[StageOf(i)] = "range"
        /\ consumer' = [consumer EXCEPT ![StageOf(i)] = "lock"]
        /\ result' = [result EXCEPT ![StageOf(i)] = i]
        /\ StageOf(i) \in Stages
    BY <1>13 DEF SendResult
  <2>2. \A k \in Stages : Working(k) => push[result[k]] = "exit"
    BY DEF ConsumerInv
  <2>3. Tallied' = Tallied
    BY <2>1, <2>2 DEF Tallied, Working
  <2> QED
    BY <1>13, <2>3, SameTallies DEF SendResult
<1>14. ASSUME NEW k \in Stages, Lock(k) PROVE TallyInv'
  <2>1. Tallied' = Tallied
    BY <1>14 DEF Lock, Tallied, Working
  <2> QED
    BY <1>14, <2>1, SameTallies DEF Lock
<1>15. ASSUME NEW k \in Stages, Tally(k) PROVE TallyInv'
  <2> DEFINE r == result[k]
             c == ClusterOf(r)
  <2>1. /\ Working(k) /\ main = "push" /\ r \in Items /\ StageOf(r) = k
        /\ push[r] = "exit" /\ c \in Clusters
    BY <1>15, ResultLemma DEF Tally, Working
  <2>2. \A l \in Stages \ {k} : Working(l) => result[l] # r
    BY <2>1, ResultLemma
  <2>3. Tallied' = Tallied \union {r} /\ r \notin Tallied
    BY <1>15, <2>1, <2>2 DEF Tally, Tallied, Working
  <2>4. /\ seen[k].count = counts[c] /\ (seen[k].failed <=> c \in failed)
    BY <1>15 DEF Tally, ConsumerInv
  <2>5. /\ counts' = [counts EXCEPT ![c] = counts[c] + MetricCount[k]]
        /\ failed' = IF c \in failed \/ record[r] = "error"
                      THEN failed \union {c} ELSE failed \ {c}
        /\ UNCHANGED <<main, push, record, gathered>>
    BY <1>15, <2>4 DEF Tally, ExportFailed
  <2>6. Tallied \in SUBSET Items
    BY DEF Tallied
  <2>7. ASSUME NEW d \in Clusters
        PROVE  /\ counts'[d] = CountOf(Tallied, d)'
               /\ d \in failed' <=> FailedIn(Tallied, d)'
    <3>1. CountOf(Tallied, d)' = CountOf(Tallied \union {r}, d)
      BY <2>3 DEF CountOf, ClusterOf
    <3>2. counts'[d] = CountOf(Tallied, d)'
      <4> HIDE DEF r, c
      <4>1. CountOf(Tallied \union {r}, d)
              = IF c = d THEN CountOf(Tallied, d) + MetricCount[StageOf(r)]
                         ELSE CountOf(Tallied, d)
        <5> HIDE DEF IInv, TypeOK, TallyInv, PhaseInv, Items
        <5>1. r \in Items /\ r \notin Tallied
          BY <2>1, <2>3, Zenon
        <5>2. CountOf(Tallied \union {r}, d)
                = IF ClusterOf(r) = d
                  THEN CountOf(Tallied, d) + MetricCount[StageOf(r)]
                  ELSE CountOf(Tallied, d)
          BY <5>1, OneMoreTallied, Zenon
        <5> QED
          BY <5>2 DEF c
      <4>2. counts[d] = CountOf(Tallied, d)
        BY <2>1
      <4> QED
        BY <3>1, <4>1, <4>2, <2>1, <2>5
    <3>3. FailedIn(Tallied, d)'
            <=> FailedIn(Tallied, d) \/ (c = d /\ record[r] = "error")
      BY <2>3, <2>5 DEF FailedIn, ClusterOf
    <3>4. d \in failed' <=> d \in failed \/ (c = d /\ record[r] = "error")
      BY <2>1, <2>5
    <3>5. d \in failed <=> FailedIn(Tallied, d)
      BY <2>1, Zenon
    <3> QED
      BY <3>2, <3>3, <3>4, <3>5, Zenon
  <2> QED
    BY <2>5, <2>7
<1>16. ASSUME NEW k \in Stages, EndConsumer(k) PROVE TallyInv'
  <2>1. Tallied' = Tallied
    BY <1>16 DEF EndConsumer, Tallied, Working
  <2> QED
    BY <1>16, <2>1, SameTallies DEF EndConsumer
<1>17. CASE Report
  <2>1. Tallied' = Tallied
    BY <1>17 DEF Report, Tallied, Working
  <2> QED
    BY <1>17, <2>1, SameTallies DEF Report
<1>18. ASSUME NEW c \in Clusters, RecordExportSuccess(c) PROVE TallyInv'
  <2>1. Tallied' = Tallied
    BY <1>18 DEF RecordExportSuccess, Tallied, Working
  <2> QED
    BY <1>18, <2>1, SameTallies DEF RecordExportSuccess
<1>19. CASE Return
  BY <1>19 DEF Return
<1>20. CASE UNCHANGED vars
  <2>1. Tallied' = Tallied
    BY <1>20 DEF vars, Tallied, Working
  <2> QED
    BY <1>20, <2>1, SameTallies DEF vars
<1> QED
  BY <1>1, <1>2, <1>3, <1>4, <1>5, <1>6, <1>7, <1>8, <1>9, <1>10,
     <1>11, <1>12, <1>13, <1>14, <1>15, <1>16, <1>17, <1>18, <1>19,
     <1>20 DEF Next, Reload,
     Progress, ItemStep, ConsumerStep, ClusterStep

(* The invariant holds in every state. *)
THEOREM Inductive == Spec => []IInv
<1>1. Init => IInv
  <2> SUFFICES ASSUME Init PROVE IInv
    OBVIOUS
  <2>1. TypeOK
    BY ConfigsLemma, PathsLemma DEF Init, TypeOK, Nothing, ClientSets
  <2>2. PhaseInv /\ ConsumerInv
    BY DEF Init, PhaseInv, ConsumerInv, Working
  <2>3. GatherInv /\ TallyInv
    BY DEF Init, GatherInv, TallyInv
  <2> QED
    BY <2>1, <2>2, <2>3 DEF IInv
<1>2. IInv /\ [Next]_vars => IInv'
  BY TypeStep, PhaseStep, GatherStep, ConsumerInvStep, TallyStep DEF IInv
<1> QED
  BY <1>1, <1>2, PTL DEF Spec

(* The fields, goroutines and maps stay within their types, and the mutex is
   held by the consumer that stores. *)
THEOREM Typing == Spec => []TypeOK
<1>1. IInv => TypeOK
  BY DEF IInv
<1> QED
  BY Inductive, <1>1, PTL

(* When a cycle is reported, no result of the two consumers has been lost. *)
THEOREM TalliesKept == Spec => []NoTallyLost
<1>1. ASSUME IInv PROVE NoTallyLost
  <2> SUFFICES ASSUME main = "report", NEW c \in Clusters
               PROVE  /\ counts[c] = CountOf(gathered, c)
                      /\ c \in failed <=> FailedIn(gathered, c)
    BY DEF NoTallyLost
  <2>1. Tallied = gathered
    BY <1>1, ItemsLemma DEF IInv, TypeOK, ConsumerInv, TallyInv, Tallied, Working
  <2>2. counts[c] = CountOf(Tallied, c)
    BY <1>1 DEF IInv, TallyInv
  <2>3. c \in failed <=> FailedIn(Tallied, c)
    BY <1>1, Zenon DEF IInv, TallyInv
  <2> QED
    BY <2>1, <2>2, <2>3, Zenon
<1> QED
  BY Inductive, <1>1, PTL

(* Who holds a slot can move, and when nobody does, one is free. *)
LEMMA GatheringMoves ==
    ASSUME IInv, main \in Stages
    PROVE  ExporterRuns \/ \E i \in Items : ItemRuns(i)
<1> USE DEF IInv, TypeOK
<1>1. CASE Holding # {}
  <2>1. PICK i \in ItemsOf(main) : worker[i] \in {"look", "send", "release"}
    BY <1>1 DEF Holding
  <2> QED
    BY <2>1, ItemsLemma DEF ItemRuns
<1>2. CASE Holding = {} /\ todo = {}
  BY <1>2 DEF Holding, WorkersDone, ExporterRuns
<1>3. CASE Holding = {} /\ todo # {}
  <2>1. PICK i \in Items : i \in todo
    BY <1>3
  <2>2. Cardinality(Holding) < MaxConn
    BY <1>3, FS_EmptySet, MaxConnAssumption
  <2> QED
    BY <2>1, <2>2 DEF ItemRuns
<1> QED
  BY <1>1, <1>2, <1>3

(* A consumer that is not in its range can move, or the one with the mutex. *)
LEMMA ConsumerMoves ==
    ASSUME IInv, NEW k \in Stages, consumer[k] \in {"lock", "store"}
    PROVE  \E l \in Stages : ConsumerRuns(l)
<1>1. CASE consumer[k] = "store"
  BY <1>1 DEF ConsumerRuns
<1>2. CASE consumer[k] = "lock" /\ mu = "free"
  BY <1>2 DEF ConsumerRuns
<1>3. CASE consumer[k] = "lock" /\ mu # "free"
  <2>1. mu \in Stages /\ consumer[mu] = "store"
    BY <1>3 DEF IInv, TypeOK
  <2> QED
    BY <2>1 DEF ConsumerRuns
<1> QED
  BY <1>1, <1>2, <1>3

LEMMA PushingMoves ==
    ASSUME IInv, main = "push"
    PROVE  \/ ExporterRuns
           \/ \E i \in Items : ItemRuns(i)
           \/ \E k \in Stages : ConsumerRuns(k)
<1>1. CASE \E k \in Stages : consumer[k] \in {"lock", "store"}
  BY <1>1, ConsumerMoves
<1>2. CASE \A k \in Stages : consumer[k] \in {"range", "exit"}
  <2>1. CASE \E i \in Items : push[i] = "record"
    BY <2>1 DEF ItemRuns
  <2>2. CASE \E i \in Items : push[i] = "send"
    <3>1. PICK i \in Items : push[i] = "send"
      BY <2>2
    <3>2. StageOf(i) \in Stages /\ i \in ItemsOf(StageOf(i))
      BY ItemsLemma
    <3>3. consumer[StageOf(i)] = "range"
      BY <1>2, <3>1, <3>2 DEF IInv, ConsumerInv
    <3> QED
      BY <3>1, <3>3 DEF ItemRuns
  <2>3. CASE \A i \in Items : push[i] \in {"none", "exit"}
    <3>1. CASE \A k \in Stages : consumer[k] = "exit"
      BY <3>1 DEF ExporterRuns, ConsumersDone
    <3>2. CASE \E k \in Stages : consumer[k] = "range"
      BY <2>3, <3>2, ItemsLemma DEF ConsumerRuns
    <3> QED
      BY <1>2, <3>1, <3>2
  <2> QED
    BY <2>1, <2>2, <2>3 DEF IInv, TypeOK
<1>3. \A k \in Stages : consumer[k] \in {"range", "lock", "store", "exit"}
  BY DEF IInv, TypeOK, ConsumerInv
<1> QED
  BY <1>1, <1>2, <1>3

(* No cycle deadlocks, whatever the number of volumes, clusters and slots:
   neither the semaphore, nor the mutex, nor the channels wait in a circle. *)
THEOREM NobodyStuck == Spec => []NeverStuck
<1>1. ASSUME IInv PROVE NeverStuck
  <2>1. main \in {"idle", "query", "push", "report"} \union Stages
    BY <1>1 DEF IInv, TypeOK
  <2>2. main \in {"query", "report"} => ExporterRuns
    BY DEF ExporterRuns
  <2> QED
    BY <1>1, <2>1, <2>2, GatheringMoves, PushingMoves DEF NeverStuck
<1> QED
  BY Inductive, <1>1, PTL

-----------------------------------------------------------------------------
(* What is counted is a number, before a step and after it. *)
LEMMA StepsType ==
    ASSUME TypeOK
    PROVE  \A i \in Items : StepsOf(i) \in Nat
<1> SUFFICES ASSUME NEW i \in Items PROVE StepsOf(i) \in Nat
  OBVIOUS
<1>1. Rank[worker[i]] \in Nat /\ Rank[push[i]] \in Nat
  BY DEF TypeOK, Rank
<1>2. TallySteps(i) \in Nat /\ Behind(todo, i) \in Nat /\ Behind(unreported, i) \in Nat
  BY DEF TallySteps, Behind
<1> QED
  BY <1>1, <1>2 DEF StepsOf

LEMMA NextStepsType ==
    ASSUME TypeOK'
    PROVE  \A i \in Items : StepsOf(i)' \in Nat
<1> SUFFICES ASSUME NEW i \in Items PROVE StepsOf(i)' \in Nat
  OBVIOUS
<1>1. Rank[worker'[i]] \in Nat /\ Rank[push'[i]] \in Nat
  BY DEF TypeOK, Rank
<1>2. TallySteps(i)' \in Nat /\ Behind(todo', i) \in Nat /\ Behind(unreported', i) \in Nat
  BY DEF TallySteps, Behind
<1> QED
  BY <1>1, <1>2 DEF StepsOf

(* A step for one item. *)
LEMMA OneAdvances ==
    ASSUME TypeOK, TypeOK', UNCHANGED Ended, NEW i \in Items, StepsOf(i) < StepsOf(i)',
           \A j \in Items \ {i} : StepsOf(j)' = StepsOf(j)
    PROVE  Advance
<1>1. /\ \A j \in Items : StepsOf(j) \in Nat
      /\ StepsOf(i)' \in Nat
  BY StepsType, NextStepsType
<1>2. \A j \in Items : StepsOf(j) <= StepsOf(j)'
  BY <1>1
<1>3. StepsOf(i) # StepsOf(i)'
  BY <1>1
<1> QED
  BY <1>2, <1>3 DEF Advance

(* A step of the exporter, the gatherer or its workers. *)
LEMMA GatherAdvances ==
    ASSUME TypeOK, TypeOK', NEW i \in Items, UNCHANGED <<push, consumer, result>>,
           \A j \in Items \ {i} :
               UNCHANGED <<worker[j], Behind(todo, j), Behind(unreported, j)>>,
           Rank[worker[i]] + Behind(todo, i) + Behind(unreported, i)
             < Rank[worker'[i]] + Behind(todo', i) + Behind(unreported', i)
    PROVE  Advance
<1>1. UNCHANGED Ended /\ Tallied' = Tallied
  BY DEF Ended, Tallied, Working
<1>2. \A j \in Items : TallySteps(j)' = TallySteps(j)
  BY <1>1 DEF TallySteps
<1>3. \A j \in Items \ {i} : StepsOf(j)' = StepsOf(j)
  BY <1>2 DEF StepsOf
<1>4. /\ Rank[worker[i]] \in Nat /\ Rank[worker'[i]] \in Nat /\ Rank[push[i]] \in Nat
      /\ TallySteps(i) \in Nat
      /\ Behind(todo, i) \in Nat /\ Behind(unreported, i) \in Nat
      /\ Behind(todo', i) \in Nat /\ Behind(unreported', i) \in Nat
  BY DEF TypeOK, Rank, TallySteps, Behind
<1>5. StepsOf(i) < StepsOf(i)'
  BY <1>2, <1>4 DEF StepsOf
<1> QED
  BY <1>1, <1>3, <1>5, OneAdvances

(* A step of a push worker. *)
LEMMA PushAdvances ==
    ASSUME TypeOK, TypeOK', NEW i \in Items, UNCHANGED <<worker, todo, unreported, Ended>>,
           \A j \in Items : TallySteps(j)' = TallySteps(j),
           \A j \in Items \ {i} : push'[j] = push[j],
           Rank[push[i]] < Rank[push'[i]]
    PROVE  Advance
<1>1. \A j \in Items \ {i} : StepsOf(j)' = StepsOf(j)
  BY DEF StepsOf, Behind
<1>2. /\ Rank[worker[i]] \in Nat /\ Rank[push[i]] \in Nat /\ Rank[push'[i]] \in Nat
      /\ TallySteps(i) \in Nat /\ Behind(todo, i) \in Nat /\ Behind(unreported, i) \in Nat
  BY DEF TypeOK, Rank, TallySteps, Behind
<1>3. StepsOf(i) < StepsOf(i)'
  BY <1>2 DEF StepsOf, Behind
<1> QED
  BY <1>1, <1>3, OneAdvances

LEMMA NothingAdvances ==
    ASSUME TypeOK,
           UNCHANGED <<queryVars, gatherVars, pushVars, tallyVars, reportVars>>
    PROVE  Advance
<1>1. UNCHANGED Ended
  BY DEF Ended
<1>2. \A i \in Items : StepsOf(i)' = StepsOf(i)
  BY DEF StepsOf, TallySteps, Tallied, Working
<1> QED
  BY <1>1, <1>2, StepsType DEF Advance

(* The consumers' steps take on the item whose result they work on. *)
LEMMA LockAdvances ==
    ASSUME IInv, TypeOK', NEW k \in Stages, Lock(k)
    PROVE  Advance
<1> PICK i : i = result[k]
  OBVIOUS
<1>1. /\ consumer[k] = "lock" /\ consumer' = [consumer EXCEPT ![k] = "store"]
      /\ UNCHANGED <<todo, worker, push, result, unreported>>
  BY DEF Lock
<1>2. i \in Items /\ push[i] = "exit"
  BY <1>1, ResultLemma DEF Working
<1>3. \A l \in Stages : Working(l)' <=> Working(l)
  BY <1>1 DEF Working, IInv, TypeOK
<1>4. Tallied' = Tallied /\ i \notin Tallied
  BY <1>1, <1>3 DEF Tallied, Working
<1>5. UNCHANGED Ended
  BY <1>1 DEF Ended, IInv, TypeOK
<1>6. \A l \in Stages : consumer[l] = "store" => result[l] # i
  BY <1>1, ItemsLemma DEF IInv, ConsumerInv, Working
<1>7. TallySteps(i) = 0 /\ TallySteps(i)' = 1
  BY <1>1, <1>4, <1>6 DEF TallySteps, IInv, TypeOK
<1>8. \A j \in Items \ {i} : TallySteps(j)' = TallySteps(j)
  BY <1>1, <1>4 DEF TallySteps, IInv, TypeOK
<1>9. StepsOf(i) < StepsOf(i)'
  <2>1. Rank[worker[i]] \in Nat /\ Rank[push[i]] \in Nat
    BY <1>2 DEF IInv, TypeOK, Rank
  <2> QED
    BY <1>1, <1>7, <2>1 DEF StepsOf, Behind
<1>10. \A j \in Items \ {i} : StepsOf(j)' = StepsOf(j)
  BY <1>1, <1>8 DEF StepsOf
<1> QED
  BY <1>2, <1>5, <1>9, <1>10, OneAdvances DEF IInv

LEMMA TallyAdvances ==
    ASSUME IInv, TypeOK', NEW k \in Stages, Tally(k)
    PROVE  Advance
<1> PICK i : i = result[k]
  OBVIOUS
<1>1. /\ consumer[k] = "store" /\ consumer' = [consumer EXCEPT ![k] = "range"]
      /\ \A l \in Stages \ {k} : result'[l] = result[l] /\ consumer'[l] = consumer[l]
      /\ UNCHANGED <<todo, worker, push, unreported>>
  BY DEF Tally, IInv, TypeOK
<1>2. consumer'[k] = "range"
  BY <1>1 DEF IInv, TypeOK
<1>3. i \in Items /\ push[i] = "exit"
  BY <1>1, ResultLemma DEF Working
<1>4. \A l \in Stages \ {k} : Working(l) => result[l] # i
  BY <1>1, ItemsLemma DEF IInv, ConsumerInv, Working
<1>5. i \notin Tallied /\ Tallied' = Tallied \union {i}
  BY <1>1, <1>2, <1>3, <1>4 DEF Tallied, Working
<1>6. UNCHANGED Ended
  BY <1>1, <1>2 DEF Ended
<1>7. TallySteps(i) = 1 /\ TallySteps(i)' = 2
  BY <1>1, <1>5 DEF TallySteps
<1>8. \A j \in Items \ {i} : TallySteps(j)' = TallySteps(j)
  BY <1>1, <1>2, <1>5 DEF TallySteps
<1>9. StepsOf(i) < StepsOf(i)'
  <2>1. Rank[worker[i]] \in Nat /\ Rank[push[i]] \in Nat
    BY <1>3 DEF IInv, TypeOK, Rank
  <2> QED
    BY <1>1, <1>7, <2>1 DEF StepsOf, Behind
<1>10. \A j \in Items \ {i} : StepsOf(j)' = StepsOf(j)
  BY <1>1, <1>8 DEF StepsOf
<1> QED
  BY <1>3, <1>6, <1>9, <1>10, OneAdvances DEF IInv

LEMMA EndConsumerAdvances ==
    ASSUME IInv, NEW k \in Stages, EndConsumer(k)
    PROVE  Advance
<1>1. /\ consumer[k] = "range" /\ consumer' = [consumer EXCEPT ![k] = "exit"]
      /\ UNCHANGED <<todo, worker, push, result, unreported>>
  BY DEF EndConsumer
<1>2. Ended' = Ended \union {k} /\ k \notin Ended
  BY <1>1 DEF Ended, IInv, TypeOK
<1>3. Tallied' = Tallied
  BY <1>1 DEF Tallied, Working, IInv, TypeOK
<1>4. \A j \in Items : TallySteps(j)' = TallySteps(j)
  BY <1>1, <1>3 DEF TallySteps, IInv, TypeOK
<1>5. \A j \in Items : StepsOf(j)' = StepsOf(j)
  BY <1>1, <1>4 DEF StepsOf
<1> QED
  BY <1>2, <1>5, StepsType DEF Advance, IInv

LEMMA SendAdvances ==
    ASSUME IInv, TypeOK', NEW i \in Items, SendResult(i)
    PROVE  Advance
<1> DEFINE k == StageOf(i)
<1>1. k \in Stages
  BY ItemsLemma
<1>2. /\ push[i] = "send" /\ push' = [push EXCEPT ![i] = "exit"]
      /\ consumer[k] = "range" /\ consumer' = [consumer EXCEPT ![k] = "lock"]
      /\ result' = [result EXCEPT ![k] = i]
      /\ UNCHANGED <<todo, worker, unreported>>
  BY DEF SendResult
<1>3. Tallied' = Tallied
  BY <1>1, <1>2 DEF Tallied, Working, IInv, TypeOK
<1>4. \A j \in Items : TallySteps(j)' = TallySteps(j)
  BY <1>1, <1>2, <1>3 DEF TallySteps, IInv, TypeOK
<1>5. UNCHANGED Ended
  BY <1>1, <1>2 DEF Ended, IInv, TypeOK
<1>6. /\ Rank[push[i]] < Rank[push'[i]]
      /\ \A j \in Items \ {i} : push'[j] = push[j]
  BY <1>2 DEF Rank, IInv, TypeOK
<1> QED
  BY <1>2, <1>4, <1>5, <1>6, PushAdvances DEF IInv

(* One case per action; the watchers' leave the cycle where it is. *)
LEMMA AdvanceStep ==
    ASSUME IInv, TypeOK', [Next]_vars, main # "idle", main' # "idle"
    PROVE  IF main' = main THEN Advance
                           ELSE StageNumber[main'] = StageNumber[main] + 1
<1> USE DEF IInv
<1>1. CASE Reload \/ UNCHANGED vars
  BY <1>1, NothingAdvances DEF Reload, SetPowerScaleClients, SetClientIsiPaths, vars
<1>2. CASE GatherClusters \/ Push \/ Report
  BY <1>2 DEF GatherClusters, Push, Report, StageNumber
<1>3. CASE Return
  BY <1>3 DEF Return
<1>4. ASSUME NEW pvs \in SUBSET Volumes,
             NEW attr \in Attributes(pvs), ExportQuotaMetrics(pvs, attr)
      PROVE  FALSE
  BY <1>4 DEF ExportQuotaMetrics
<1>5. ASSUME NEW classes \in Classes, GatherVolumes(classes)
      PROVE  main' # main /\ StageNumber[main'] = StageNumber[main] + 1
  BY <1>5 DEF GatherVolumes, StageNumber
<1>6. ASSUME NEW c \in Clusters, GetAllQuotas(c) PROVE Advance /\ main' = main
  BY <1>6, GatherAdvances DEF GetAllQuotas, TypeOK, Rank, Behind
<1>7. ASSUME NEW c \in Clusters, RecordExportSuccess(c) PROVE Advance /\ main' = main
  BY <1>7, GatherAdvances DEF RecordExportSuccess, TypeOK, Rank, Behind
<1>8. ASSUME NEW i \in Items, StartWorker(i) PROVE Advance /\ main' = main
  BY <1>8, GatherAdvances DEF StartWorker, GatherInv, TypeOK, Rank, Behind
<1>9. ASSUME NEW i \in Items, LookUp(i) PROVE Advance /\ main' = main
  BY <1>9, GatherAdvances DEF LookUp, TypeOK, Rank, Behind
<1>10. ASSUME NEW i \in Items, SendMetric(i) PROVE Advance /\ main' = main
  BY <1>10, GatherAdvances DEF SendMetric, TypeOK, Rank, Behind
<1>11. ASSUME NEW i \in Items, ReleaseSlot(i) PROVE Advance /\ main' = main
  BY <1>11, GatherAdvances DEF ReleaseSlot, TypeOK, Rank, Behind
<1>12. ASSUME NEW i \in Items, RecordQuota(i) PROVE Advance /\ main' = main
  <2>1. /\ push[i] = "record" /\ push' = [push EXCEPT ![i] = "send"]
        /\ UNCHANGED <<main, worker, todo, unreported, consumer, result>>
    BY <1>12 DEF RecordQuota
  <2>2. Tallied' = Tallied /\ UNCHANGED Ended
    BY <2>1 DEF Tallied, Working, Ended, TypeOK
  <2>3. \A j \in Items : TallySteps(j)' = TallySteps(j)
    BY <2>1, <2>2 DEF TallySteps
  <2>4. /\ Rank[push[i]] < Rank[push'[i]]
        /\ \A j \in Items \ {i} : push'[j] = push[j]
    BY <2>1 DEF Rank, TypeOK
  <2> QED
    BY <2>1, <2>2, <2>3, <2>4, PushAdvances
<1>13. ASSUME NEW i \in Items, SendResult(i) PROVE Advance /\ main' = main
  BY <1>13, SendAdvances DEF SendResult
<1>14. ASSUME NEW k \in Stages, Lock(k) PROVE Advance /\ main' = main
  BY <1>14, LockAdvances DEF Lock
<1>15. ASSUME NEW k \in Stages, Tally(k) PROVE Advance /\ main' = main
  BY <1>15, TallyAdvances DEF Tally
<1>16. ASSUME NEW k \in Stages, EndConsumer(k) PROVE Advance /\ main' = main
  BY <1>16, EndConsumerAdvances DEF EndConsumer
<1> QED
  BY <1>1, <1>2, <1>3, <1>4, <1>5, <1>6, <1>7, <1>8, <1>9, <1>10, <1>11, <1>12,
     <1>13, <1>14, <1>15, <1>16
     DEF Next, Progress, ItemStep, ConsumerStep, ClusterStep

(* Each step of the cycle's goroutines brings it nearer to its end and none
   takes it back: with NobodyStuck, all of termination but fairness. *)
THEOREM Advances == Spec => CycleAdvances
<1>1. IInv /\ IInv' /\ [Next]_vars =>
        [main # "idle" /\ main' # "idle" =>
             IF main' = main THEN Advance
                             ELSE StageNumber[main'] = StageNumber[main] + 1]_vars
  BY AdvanceStep DEF IInv
<1> QED
  BY Inductive, <1>1, PTL DEF Spec, CycleAdvances

-----------------------------------------------------------------------------
(* However clusters come and go, no sure volume and no sure total is missed. *)
THEOREM QuotasFound == Spec => NoQuotaMissed
<1>1. ASSUME IInv, main = "volume", main' = "cluster", [Next]_vars
      PROVE  SureVolumes \subseteq gathered
  <2>1. todo = {} /\ WorkersDone
    BY <1>1 DEF Next, Reload, Progress, ItemStep, ConsumerStep, ClusterStep, vars,
       SetPowerScaleClients, SetClientIsiPaths, ExportQuotaMetrics, GetAllQuotas,
       GatherVolumes, StartWorker, LookUp, SendMetric, ReleaseSlot, GatherClusters,
       Push, RecordQuota, SendResult, Lock, Tally, EndConsumer, Report,
       RecordExportSuccess, Return
  <2>2. \A i \in SureVolumes : i \in ItemsOf(main)
    BY <1>1 DEF IInv, TypeOK, SureVolumes, ItemsOf
  <2> QED
    BY <1>1, <2>1, <2>2, ItemsLemma DEF IInv, GatherInv, WorkersDone
<1>2. ASSUME IInv, main = "cluster", main' = "push", [Next]_vars
      PROVE  SureClusters \subseteq gathered
  <2>1. todo = {} /\ WorkersDone
    BY <1>2 DEF Next, Reload, Progress, ItemStep, ConsumerStep, ClusterStep, vars,
       SetPowerScaleClients, SetClientIsiPaths, ExportQuotaMetrics, GetAllQuotas,
       GatherVolumes, StartWorker, LookUp, SendMetric, ReleaseSlot, GatherClusters,
       Push, RecordQuota, SendResult, Lock, Tally, EndConsumer, Report,
       RecordExportSuccess, Return
  <2>2. \A i \in SureClusters : i \in ItemsOf(main)
    BY <1>2 DEF SureClusters, Permanent, ItemsOf
  <2> QED
    BY <1>2, <2>1, <2>2, ItemsLemma DEF IInv, GatherInv, WorkersDone
<1>3. IInv /\ [Next]_vars =>
        [/\ main = "volume"  /\ main' = "cluster" => SureVolumes \subseteq gathered
         /\ main = "cluster" /\ main' = "push"    => SureClusters \subseteq gathered]_vars
  BY <1>1, <1>2
<1> QED
  BY Inductive, <1>3, PTL DEF Spec, NoQuotaMissed

(* A step within a phase that changes no outcome is a stutter of the cycle. *)
LEMMA SameCycle ==
    ASSUME main' = main \/ {main, main'} \subseteq {"query", "volume", "cluster", "push"},
           \A d \in Clusters : OutcomeOf(d)' = OutcomeOf(d),
           UNCHANGED <<targets, unreported, status>>
    PROVE  UNCHANGED Cycle!vars
<1>1. [d \in Clusters |-> OutcomeOf(d)]' = [d \in Clusters |-> OutcomeOf(d)]
  OBVIOUS
<1> QED
  BY <1>1 DEF Cycle!vars

(* Each step of the goroutines is a step of the abstract cycle or none. *)
LEMMA CycleStep ==
    ASSUME IInv, [Next]_vars
    PROVE  [Cycle!Next]_(Cycle!vars)
<1> USE DEF IInv, TypeOK, PhaseInv
<1>1. CASE SetPowerScaleClients
  <2>1. \A d \in Clusters : OutcomeOf(d)' = OutcomeOf(d)
    BY <1>1 DEF SetPowerScaleClients, OutcomeOf, ConsumersDone
  <2> QED
    BY <1>1, <2>1, SameCycle DEF SetPowerScaleClients
<1>2. CASE SetClientIsiPaths
  <2>1. \A d \in Clusters : OutcomeOf(d)' = OutcomeOf(d)
    BY <1>2 DEF SetClientIsiPaths, OutcomeOf, ConsumersDone
  <2> QED
    BY <1>2, <2>1, SameCycle DEF SetClientIsiPaths
<1>3. ASSUME NEW pvs \in SUBSET Volumes,
             NEW attr \in Attributes(pvs), ExportQuotaMetrics(pvs, attr)
      PROVE  [Cycle!Next]_(Cycle!vars)
  <2>1. clients \in SUBSET Clusters
    BY ConfigsLemma
  <2>2. /\ main = "idle" /\ main' = "query" /\ connected = {} /\ connected' = {}
        /\ targets' = clients /\ status' = [d \in Clusters |-> "none"]
    BY <1>3 DEF ExportQuotaMetrics
  <2>3. Cycle!Begin
    BY <2>1, <2>2 DEF Cycle!Begin, OutcomeOf
  <2> QED
    BY <2>3 DEF Cycle!Next
<1>4. ASSUME NEW c \in Clusters, GetAllQuotas(c) PROVE [Cycle!Next]_(Cycle!vars)
  <2>1. /\ main = "query" /\ failed = {}
        /\ ~ConsumersDone /\ ~ConsumersDone'
        /\ UNCHANGED <<main, failed, targets, unreported, status>>
    BY <1>4 DEF GetAllQuotas, ConsumersDone
  <2>2. CASE connected' = connected
    <3>1. \A d \in Clusters : OutcomeOf(d)' = OutcomeOf(d)
      BY <2>1, <2>2 DEF OutcomeOf
    <3> QED
      BY <2>1, <3>1, SameCycle
  <2>3. CASE connected' = connected \union {c} /\ c \notin connected
    <3>1. /\ OutcomeOf(c) = "none" /\ OutcomeOf(c)' = "answered"
          /\ \A d \in Clusters \ {c} : OutcomeOf(d)' = OutcomeOf(d)
      BY <2>1, <2>3 DEF OutcomeOf
    <3>2. [d \in Clusters |-> OutcomeOf(d)]'
            = [[d \in Clusters |-> OutcomeOf(d)] EXCEPT ![c] = "answered"]
      BY <3>1
    <3>3. Cycle!Answer(c)
      BY <2>1, <3>1, <3>2 DEF Cycle!Answer
    <3> QED
      BY <3>3 DEF Cycle!Next
  <2>4. connected' = connected \/ (connected' = connected \union {c} /\ c \notin connected)
    <3>1. c \in connected => connected \union {c} = connected
      OBVIOUS
    <3>2. connected' = connected \/ connected' = connected \union {c}
      BY <1>4 DEF GetAllQuotas
    <3> QED
      BY <3>1, <3>2
  <2> QED
    BY <2>2, <2>3, <2>4
<1>5. ASSUME NEW classes \in Classes, GatherVolumes(classes) PROVE [Cycle!Next]_(Cycle!vars)
  <2>1. \A d \in Clusters : OutcomeOf(d)' = OutcomeOf(d)
    BY <1>5 DEF GatherVolumes, OutcomeOf, ConsumersDone
  <2> QED
    BY <1>5, <2>1, SameCycle DEF GatherVolumes
<1>6. ASSUME NEW i \in Items, StartWorker(i) PROVE [Cycle!Next]_(Cycle!vars)
  <2>1. \A d \in Clusters : OutcomeOf(d)' = OutcomeOf(d)
    BY <1>6 DEF StartWorker, OutcomeOf, ConsumersDone
  <2> QED
    BY <1>6, <2>1, SameCycle DEF StartWorker
<1>7. ASSUME NEW i \in Items, LookUp(i) PROVE [Cycle!Next]_(Cycle!vars)
  <2>1. \A d \in Clusters : OutcomeOf(d)' = OutcomeOf(d)
    BY <1>7 DEF LookUp, OutcomeOf, ConsumersDone
  <2> QED
    BY <1>7, <2>1, SameCycle DEF LookUp
<1>8. ASSUME NEW i \in Items, SendMetric(i) PROVE [Cycle!Next]_(Cycle!vars)
  <2>1. \A d \in Clusters : OutcomeOf(d)' = OutcomeOf(d)
    BY <1>8 DEF SendMetric, OutcomeOf, ConsumersDone
  <2> QED
    BY <1>8, <2>1, SameCycle DEF SendMetric
<1>9. ASSUME NEW i \in Items, ReleaseSlot(i) PROVE [Cycle!Next]_(Cycle!vars)
  <2>1. \A d \in Clusters : OutcomeOf(d)' = OutcomeOf(d)
    BY <1>9 DEF ReleaseSlot, OutcomeOf, ConsumersDone
  <2> QED
    BY <1>9, <2>1, SameCycle DEF ReleaseSlot
<1>10. CASE GatherClusters
  <2>1. \A d \in Clusters : OutcomeOf(d)' = OutcomeOf(d)
    BY <1>10 DEF GatherClusters, OutcomeOf, ConsumersDone
  <2> QED
    BY <1>10, <2>1, SameCycle DEF GatherClusters
<1>11. CASE Push
  <2>1. \A d \in Clusters : OutcomeOf(d)' = OutcomeOf(d)
    BY <1>11 DEF Push, OutcomeOf, ConsumersDone
  <2> QED
    BY <1>11, <2>1, SameCycle DEF Push
<1>12. ASSUME NEW i \in Items, RecordQuota(i) PROVE [Cycle!Next]_(Cycle!vars)
  <2>1. \A d \in Clusters : OutcomeOf(d)' = OutcomeOf(d)
    BY <1>12 DEF RecordQuota, OutcomeOf, ConsumersDone
  <2> QED
    BY <1>12, <2>1, SameCycle DEF RecordQuota
<1>13. ASSUME NEW i \in Items, SendResult(i) PROVE [Cycle!Next]_(Cycle!vars)
  <2>1. \A d \in Clusters : OutcomeOf(d)' = OutcomeOf(d)
    BY <1>13 DEF SendResult, OutcomeOf, ConsumersDone
  <2> QED
    BY <1>13, <2>1, SameCycle DEF SendResult
<1>14. ASSUME NEW k \in Stages, Lock(k) PROVE [Cycle!Next]_(Cycle!vars)
  <2>1. \A d \in Clusters : OutcomeOf(d)' = OutcomeOf(d)
    BY <1>14 DEF Lock, OutcomeOf, ConsumersDone
  <2> QED
    BY <1>14, <2>1, SameCycle DEF Lock
<1>15. ASSUME NEW k \in Stages, Tally(k) PROVE [Cycle!Next]_(Cycle!vars)
  <2>0. ClusterOf(result[k]) \in Clusters /\ main = "push"
    BY <1>15, ResultLemma DEF Tally, Working
  <2> PICK d \in Clusters : d = ClusterOf(result[k])
    BY <2>0
  <2>1. main = "push" /\ ~ConsumersDone /\ ~ConsumersDone'
    BY <1>15, <2>0 DEF Tally, ConsumersDone
  <2>2. seen[k].failed <=> d \in failed
    BY <1>15 DEF Tally, ConsumerInv
  <2>3. /\ failed' = failed \/ (d \notin failed /\ failed' = failed \union {d})
        /\ UNCHANGED <<main, connected, targets, unreported, status>>
    BY <1>15, <2>2 DEF Tally, ExportFailed
  <2>4. CASE failed' = failed \/ d \notin connected
    <3>1. \A e \in Clusters : OutcomeOf(e)' = OutcomeOf(e)
      BY <2>1, <2>3, <2>4 DEF OutcomeOf
    <3> QED
      BY <2>3, <3>1, SameCycle
  <2>5. CASE d \notin failed /\ failed' = failed \union {d} /\ d \in connected
    <3>1. /\ OutcomeOf(d) = "answered" /\ OutcomeOf(d)' = "failed"
          /\ \A e \in Clusters \ {d} : OutcomeOf(e)' = OutcomeOf(e)
      BY <2>1, <2>3, <2>5 DEF OutcomeOf
    <3>2. [e \in Clusters |-> OutcomeOf(e)]'
            = [e \in Clusters |-> IF e \in {d} THEN "failed"
                                   ELSE [f \in Clusters |-> OutcomeOf(f)][e]]
      BY <3>1
    <3>3. \A e \in {d} : [f \in Clusters |-> OutcomeOf(f)][e] = "answered"
      BY <2>1, <3>1
    <3>4. Cycle!HandOver({d})
      BY <2>1, <2>3, <3>2, <3>3 DEF Cycle!HandOver
    <3> QED
      BY <2>1, <3>4 DEF Cycle!Next
  <2> QED
    BY <2>3, <2>4, <2>5
<1>16. ASSUME NEW k \in Stages, EndConsumer(k) PROVE [Cycle!Next]_(Cycle!vars)
  <2>1. /\ main = "push" /\ ~ConsumersDone
        /\ UNCHANGED <<main, connected, failed, targets, unreported, status>>
    BY <1>16 DEF EndConsumer, ConsumersDone
  <2>2. CASE ~ConsumersDone'
    <3>1. \A d \in Clusters : OutcomeOf(d)' = OutcomeOf(d)
      BY <2>1, <2>2 DEF OutcomeOf
    <3> QED
      BY <2>1, <3>1, SameCycle
  <2>3. CASE ConsumersDone'
    <3> DEFINE S == {d \in Clusters : OutcomeOf(d) = "answered"}
    <3>1. \A d \in Clusters : OutcomeOf(d)' = IF d \in S THEN "exported" ELSE OutcomeOf(d)
      BY <2>1, <2>3 DEF OutcomeOf
    <3>2. [d \in Clusters |-> OutcomeOf(d)]'
            = [d \in Clusters |-> IF d \in S THEN "exported"
                                   ELSE [e \in Clusters |-> OutcomeOf(e)][d]]
      BY <3>1
    <3>3. \A d \in S : [e \in Clusters |-> OutcomeOf(e)][d] = "answered"
      OBVIOUS
    <3>4. Cycle!HandOver(S)
      BY <2>1, <3>2, <3>3 DEF Cycle!HandOver
    <3>5. S \in SUBSET Clusters
      OBVIOUS
    <3> HIDE DEF S
    <3> QED
      BY <3>4, <3>5 DEF Cycle!Next
  <2> QED
    BY <2>2, <2>3
<1>17. CASE Report
  <2>1. \A d \in Clusters : OutcomeOf(d) # "answered"
    BY <1>17 DEF Report, OutcomeOf
  <2>2. \A d \in Clusters : OutcomeOf(d)' = OutcomeOf(d)
    BY <1>17 DEF Report, OutcomeOf, ConsumersDone
  <2>3. [d \in Clusters |-> OutcomeOf(d)]' = [d \in Clusters |-> OutcomeOf(d)]
    BY <2>2
  <2>4. /\ main = "push" /\ main' = "report" /\ unreported' = targets
        /\ UNCHANGED status
    BY <1>17 DEF Report
  <2>5. Cycle!Report
    BY <2>1, <2>3, <2>4 DEF Cycle!Report
  <2> QED
    BY <2>5 DEF Cycle!Next
<1>18. ASSUME NEW c \in Clusters, RecordExportSuccess(c) PROVE [Cycle!Next]_(Cycle!vars)
  <2>1. main = "report" /\ UNCHANGED <<main, connected, failed, consumer>>
    BY <1>18 DEF RecordExportSuccess
  <2>2. StatusOf(c) = Cycle!Deserved(c)
    BY <2>1 DEF StatusOf, Cycle!Deserved, OutcomeOf
  <2>3. \A d \in Clusters : OutcomeOf(d)' = OutcomeOf(d)
    BY <2>1 DEF OutcomeOf
  <2>4. [d \in Clusters |-> OutcomeOf(d)]' = [d \in Clusters |-> OutcomeOf(d)]
    BY <2>3
  <2>5. Cycle!Judge(c)
    BY <1>18, <2>1, <2>2, <2>4 DEF RecordExportSuccess, Cycle!Judge
  <2> QED
    BY <2>5 DEF Cycle!Next
<1>19. CASE Return
  <2>1. /\ main = "report" /\ main' = "idle" /\ unreported = {}
        /\ UNCHANGED status
    BY <1>19 DEF Return
  <2>2. [d \in Clusters |-> OutcomeOf(d)]' = [d \in Clusters |-> "none"]
    BY <2>1 DEF OutcomeOf
  <2>3. Cycle!End
    BY <2>1, <2>2 DEF Cycle!End
  <2> QED
    BY <2>3 DEF Cycle!Next
<1>20. CASE UNCHANGED vars
  <2>1. \A d \in Clusters : OutcomeOf(d)' = OutcomeOf(d)
    BY <1>20 DEF vars, OutcomeOf, ConsumersDone
  <2> QED
    BY <1>20, <2>1, SameCycle DEF vars
<1> QED
  BY <1>1, <1>2, <1>3, <1>4, <1>5, <1>6, <1>7, <1>8, <1>9, <1>10,
     <1>11, <1>12, <1>13, <1>14, <1>15, <1>16, <1>17, <1>18, <1>19,
     <1>20 DEF Next, Reload,
     Progress, ItemStep, ConsumerStep, ClusterStep

(* QuotaExport implements ExportCycle: although two goroutines tally, a cycle
   reports after every metric was handed over, and gives each target once the
   verdict that all of its metrics deserve together. *)
THEOREM Implements == Spec => QuotasImplementCycle
<1>1. Init => Cycle!Init
  BY DEF Init, OutcomeOf, Cycle!Init
<1>2. IInv /\ [Next]_vars => [Cycle!Next]_(Cycle!vars)
  BY CycleStep
<1> QED
  BY Inductive, <1>1, <1>2, PTL DEF Spec, QuotasImplementCycle, Cycle!Spec
=============================================================================
