---------------------------- MODULE StatsExport ----------------------------
(***************************************************************************)
(* ExportClusterCapacityMetrics and ExportClusterPerformanceMetrics        *)
(* (internal/service/service.go), goroutine by goroutine.  One cycle runs: *)
(*                                                                         *)
(*   the exporter    the caller, a range over two channels in turn         *)
(*   the gatherer    goroutine that ranges over the clients, takes a slot  *)
(*                   of the semaphore, starts a worker, waits and closes   *)
(*   the workers     one per client: query, send the metric, release       *)
(*   the pusher      goroutine that starts one push worker per metric      *)
(*   the push workers  record the metric, send the result                  *)
(*                                                                         *)
(* while the configuration watchers replace the client map and switch the  *)
(* self-metrics on and off, and the SDK's reader counts a failure for each *)
(* client when it cannot deliver a batch, at any moment.                   *)
(*                                                                         *)
(* Left out: the statistics' values, the timings, the nil MetricsWrapper   *)
(* (main.go always sets one).  The channels are unbuffered, so a send is   *)
(* one joint step with its receiver.  Of a cycle's goroutines only workers *)
(* at "release" outlive it; that receive never blocks                      *)
(* (ReleaseNeverBlocks), so the next cycle starts from fresh workers.      *)
(***************************************************************************)
EXTENDS Integers, FiniteSets

CONSTANTS
    Clusters,   \* names of PowerScale clusters
    Configs,    \* the sets of clusters the credentials file may list
    MaxConn,    \* PowerScaleService.MaxPowerScaleConnections
    Kinds       \* which of the two exports the run loop calls

ASSUME ClustersAssumption == IsFiniteSet(Clusters)
ASSUME ConfigsAssumption  == Configs \subseteq SUBSET Clusters
ASSUME MaxConnAssumption  == MaxConn \in Nat \ {0}
ASSUME KindsAssumption    == Kinds \subseteq {"capacity", "performance"}

VARIABLES
    clients,    \* keys of PowerScaleService.PowerScaleClients
    inst,       \* PowerScaleService.ObsInstrumenter is not nil
    main,       \* where the exporter is
    kind,       \* which of the two exports runs
    snapshot,   \* the exporter's own copy of the clients
    metrics,    \* clusters whose metric the exporter has received
    success,    \* successClusters
    counts,     \* collectionCounts
    failed,     \* exportFailed
    unreported, \* clusters recordObservabilityMetrics has still to range over
    current,    \* the clusters (at most one) it is reporting
    gather,     \* where the gatherer is
    todo,       \* clusters the gatherer has still to range over
    sem,        \* tokens in the semaphore's buffer
    wg,         \* the gatherer's wait group
    closed,     \* the gatherer has closed sem and ch
    worker,     \* where each worker is
    query,      \* what GetFloatStatistics returned in this cycle
    serving,    \* metrics the pusher has still to receive
    pwg,        \* the pusher's wait group
    pclosed,    \* the pusher has closed its channel
    pworker,    \* where each push worker is
    record,     \* what Record...Metrics returned in this cycle
    gauge,      \* the connectivity gauge of the self-metrics' registry
    status,     \* the export status the cycle itself counted
    rate,       \* the number of metrics behind this cycle's collection rate
    undelivered,\* clusters for which the reader counted a failure since it began
    steady      \* history: the registry is the one this cycle's report began with

envVars    == <<clients, inst>>
cycleVars  == <<kind, snapshot>>
tallyVars  == <<success, counts, failed>>
reportVars == <<unreported, current>>
exporterVars == <<main, cycleVars, metrics, tallyVars, reportVars>>
gatherVars == <<gather, todo, sem, wg, closed, worker, query>>
pushVars   == <<serving, pwg, pclosed, pworker, record>>
obsVars    == <<gauge, status, rate, undelivered, steady>>
vars == <<envVars, exporterVars, gatherVars, pushVars, obsVars>>

All(v) == [c \in Clusters |-> v]

(* obsClusterCapacityMetricCount and obsClusterPerformanceMetricCount. *)
MetricCount == [capacity |-> 3, performance |-> 5]

(* Workers between sem<- and <-sem, and between wg.Add and wg.Done. *)
Holding  == {c \in Clusters : worker[c] \in {"query", "send", "done", "release"}}
Active   == {c \in Clusters : worker[c] \in {"query", "send", "done"}}
Querying == {c \in Clusters : worker[c] = "query"}
Pushing  == {c \in Clusters : pworker[c] \in {"record", "send", "done"}}

-----------------------------------------------------------------------------
(* The configuration watchers. *)

SetPowerScaleClients ==
    /\ clients' \in Configs \ {clients}
    /\ UNCHANGED <<inst, exporterVars,
                   gatherVars, pushVars, obsVars>>

(* Switched on, the self-metrics get a new registry: nothing recorded yet. *)
UpdateObservabilityMetrics ==
    /\ inst' = ~inst
    /\ steady' = FALSE
    /\ IF inst THEN UNCHANGED <<gauge, status, rate, undelivered>>
               ELSE /\ gauge' = All("unset")
                    /\ status' = All("none")
                    /\ rate' = All(0)
                    /\ undelivered' = {}
    /\ UNCHANGED <<clients, exporterVars,
                   gatherVars, pushVars>>

-----------------------------------------------------------------------------
(* The reader's goroutine: a batch was not delivered, and "failure" is added
   to the counter of every cluster of the client map as it is, whatever came
   of the cluster's own query.  Counters add up in any order: one step. *)

RecordPowerScaleExportFailure ==
    /\ inst
    /\ undelivered' = undelivered \union clients
    /\ UNCHANGED <<envVars, exporterVars, gatherVars, pushVars,
                   gauge, status, rate, steady>>

-----------------------------------------------------------------------------
(* The exporter, ExportClusterCapacityMetrics or ...PerformanceMetrics, begins
   a cycle: its snapshot, then the call that starts the gatherer. *)

Begin(k) ==
    /\ main = "idle"
    /\ main' = "gather"
    /\ kind' = k
    /\ snapshot' = clients
    /\ metrics' = {} /\ success' = {} /\ failed' = {} /\ counts' = All(0)
    /\ unreported' = {} /\ current' = {}
    /\ gather' = "start" /\ todo' = {} /\ sem' = 0 /\ wg' = 0 /\ closed' = FALSE
    /\ worker' = All("none") /\ query' = All("none")
    /\ serving' = {} /\ pwg' = 0 /\ pclosed' = FALSE
    /\ pworker' = All("none") /\ record' = All("none")
    /\ status' = All("none") /\ rate' = All(0)
    /\ undelivered' = {} /\ steady' = FALSE
    /\ UNCHANGED <<envVars, gauge>>

-----------------------------------------------------------------------------
(* The gatherer and its workers. *)

(* The gatherer takes a snapshot of its own, when it is first scheduled. *)
GatherStart ==
    /\ gather = "start"
    /\ gather' = "range"
    /\ todo' = clients
    /\ UNCHANGED <<envVars, exporterVars,
                   sem, wg, closed, worker, query, pushVars, obsVars>>

(* sem <- struct{}{} waits while the buffer is full.  (Operators named
   Fault... are what a plausible bug would make of the next definition; no
   action uses them.) *)
FaultNoSlot == UNCHANGED sem
TakeSlot    == sem < MaxConn /\ sem' = sem + 1

AddWorker == wg' = wg + 1

(* sem <- struct{}{}; wg.Add(1); go func(...) *)
StartWorker(c) ==
    /\ gather = "range"
    /\ c \in todo
    /\ TakeSlot
    /\ AddWorker
    /\ todo' = todo \ {c}
    /\ worker' = [worker EXCEPT ![c] = "query"]
    /\ UNCHANGED <<envVars, exporterVars,
                   gather, closed, query, pushVars, obsVars>>

(* The deferred wg.Done and <-sem run on the error path as well. *)
FaultErrorLeaks   == [ok |-> "send", error |-> "exit"]
FaultErrorRetried == [ok |-> "send", error |-> "query"]
AfterQuery        == [ok |-> "send", error |-> "done"]

GetFloatStatistics(c) ==
    /\ worker[c] = "query"
    /\ \E r \in {"ok", "error"} :
         /\ query' = [query EXCEPT ![c] = r]
         /\ worker' = [worker EXCEPT ![c] = AfterQuery[r]]
    /\ UNCHANGED <<envVars, exporterVars,
                   gather, todo, sem, wg, closed, pushVars, obsVars>>

(* ch <- metric, received by the exporter's range over the channel. *)
SendMetric(c) ==
    /\ worker[c] = "send"
    /\ main = "gather"
    /\ metrics' = metrics \union {c}
    /\ worker' = [worker EXCEPT ![c] = "done"]
    /\ UNCHANGED <<envVars, main, cycleVars, tallyVars, reportVars,
                   gather, todo, sem, wg, closed, query, pushVars, obsVars>>

WorkerDone(c) ==
    /\ worker[c] = "done"
    /\ wg' = wg - 1
    /\ worker' = [worker EXCEPT ![c] = "release"]
    /\ UNCHANGED <<envVars, exporterVars,
                   gather, todo, sem, closed, query, pushVars, obsVars>>

(* <-sem, after wg.Done and so possibly after close(sem). *)
ReleaseSlot(c) ==
    /\ worker[c] = "release"
    /\ sem > 0 \/ closed
    /\ sem' = IF sem > 0 THEN sem - 1 ELSE sem
    /\ worker' = [worker EXCEPT ![c] = "exit"]
    /\ UNCHANGED <<envVars, exporterVars,
                   gather, todo, wg, closed, query, pushVars, obsVars>>

FaultNoWait == TRUE
WorkersDone == wg = 0

(* wg.Wait(); close(sem); close(ch) *)
GatherClose ==
    /\ gather = "range"
    /\ todo = {}
    /\ WorkersDone
    /\ gather' = "exit"
    /\ closed' = TRUE
    /\ UNCHANGED <<envVars, exporterVars,
                   todo, sem, wg, worker, query, pushVars, obsVars>>

-----------------------------------------------------------------------------
(* The exporter's first range ends with the channel; it then calls push with
   a server that sends the metrics it collected. *)
Push ==
    /\ main = "gather"
    /\ closed
    /\ main' = "push"
    /\ serving' = metrics
    /\ UNCHANGED <<envVars, cycleVars, metrics, tallyVars, reportVars,
                   gatherVars, pwg, pclosed, pworker, record, obsVars>>

StartPushWorker(c) ==
    /\ main = "push"
    /\ c \in serving
    /\ serving' = serving \ {c}
    /\ pwg' = pwg + 1
    /\ pworker' = [pworker EXCEPT ![c] = "record"]
    /\ UNCHANGED <<envVars, exporterVars,
                   gatherVars, pclosed, record, obsVars>>

RecordMetrics(c) ==
    /\ pworker[c] = "record"
    /\ \E r \in {"ok", "error"} : record' = [record EXCEPT ![c] = r]
    /\ pworker' = [pworker EXCEPT ![c] = "send"]
    /\ UNCHANGED <<envVars, exporterVars,
                   gatherVars, serving, pwg, pclosed, obsVars>>

FaultErrorIgnored(c) == TRUE
Exported(c)          == record[c] = "ok"

(* ch <- obsExportResult, tallied by the exporter's second range. *)
SendResult(c) ==
    /\ pworker[c] = "send"
    /\ main = "push"
    /\ success' = success \union {c}
    /\ counts' = [counts EXCEPT ![c] = @ + MetricCount[kind]]
    /\ failed' = IF Exported(c) THEN failed ELSE failed \union {c}
    /\ pworker' = [pworker EXCEPT ![c] = "done"]
    /\ UNCHANGED <<envVars, main, cycleVars, metrics, reportVars,
                   gatherVars, serving, pwg, pclosed, record, obsVars>>

PushWorkerDone(c) ==
    /\ pworker[c] = "done"
    /\ pwg' = pwg - 1
    /\ pworker' = [pworker EXCEPT ![c] = "exit"]
    /\ UNCHANGED <<envVars, exporterVars,
                   gatherVars, serving, pclosed, record, obsVars>>

FaultNoPushWait == TRUE
PushWorkersDone == pwg = 0

PushClose ==
    /\ main = "push"
    /\ ~pclosed
    /\ serving = {}
    /\ PushWorkersDone
    /\ pclosed' = TRUE
    /\ UNCHANGED <<envVars, exporterVars,
                   gatherVars, serving, pwg, pworker, record, obsVars>>

-----------------------------------------------------------------------------
FaultSuccessOnly == success
ClusterConnected == snapshot

(* clusterConnected has the clusters of the exporter's snapshot; with no
   instrumenter recordObservabilityMetrics returns at once.  Its calls read
   the field again, one by one, and do nothing when it has become nil. *)
Report ==
    /\ main = "push"
    /\ pclosed
    /\ IF inst THEN main' = "report" /\ unreported' = ClusterConnected
               ELSE main' = "idle" /\ UNCHANGED unreported
    /\ steady' = inst
    /\ UNCHANGED <<envVars, cycleVars, metrics, tallyVars, current,
                   gatherVars, pushVars, gauge, status, rate, undelivered>>

GaugeOf(c) == IF c \in success THEN "up" ELSE "down"

SetArrayConnectivity(c) ==
    /\ main = "report"
    /\ current = {}
    /\ c \in unreported
    /\ unreported' = unreported \ {c}
    /\ current' = {c}
    /\ gauge' = IF inst THEN [gauge EXCEPT ![c] = GaugeOf(c)] ELSE gauge
    /\ UNCHANGED <<envVars, main, cycleVars, metrics, tallyVars,
                   gatherVars, pushVars, status, rate, undelivered, steady>>

StatusOf(c) == IF c \notin success   THEN "error"
               ELSE IF c \in failed  THEN "failure"
                                     ELSE "success"

(* RecordCollectionRate, RecordProcessingLatency and RecordExportSuccess. *)
RecordExportSuccess(c) ==
    /\ main = "report"
    /\ c \in current
    /\ current' = {}
    /\ IF inst THEN /\ status' = [status EXCEPT ![c] = StatusOf(c)]
                    /\ rate' = [rate EXCEPT ![c] = counts[c]]
               ELSE UNCHANGED <<status, rate>>
    /\ UNCHANGED <<envVars, main, cycleVars, metrics, tallyVars, unreported,
                   gatherVars, pushVars, gauge, undelivered, steady>>

Return ==
    /\ main = "report"
    /\ current = {} /\ unreported = {}
    /\ main' = "idle"
    /\ UNCHANGED <<envVars, cycleVars, metrics, tallyVars, reportVars,
                   gatherVars, pushVars, obsVars>>

-----------------------------------------------------------------------------
Init ==
    /\ clients \in Configs
    /\ inst \in BOOLEAN
    /\ main = "idle" /\ kind \in Kinds /\ snapshot = {}
    /\ metrics = {} /\ success = {} /\ failed = {} /\ counts = All(0)
    /\ unreported = {} /\ current = {}
    /\ gather = "exit" /\ todo = {} /\ sem = 0 /\ wg = 0 /\ closed = FALSE
    /\ worker = All("none") /\ query = All("none")
    /\ serving = {} /\ pwg = 0 /\ pclosed = FALSE
    /\ pworker = All("none") /\ record = All("none")
    /\ gauge = All("unset") /\ status = All("none") /\ rate = All(0)
    /\ undelivered = {} /\ steady = FALSE

WorkerStep(c) == \/ GetFloatStatistics(c) \/ SendMetric(c)
                 \/ WorkerDone(c) \/ ReleaseSlot(c)
PushWorkerStep(c) == RecordMetrics(c) \/ SendResult(c) \/ PushWorkerDone(c)
Gatherer == GatherStart \/ GatherClose \/ \E c \in Clusters : StartWorker(c)
Pusher   == PushClose \/ \E c \in Clusters : StartPushWorker(c)
Exporter == \/ Push \/ Report \/ Return
            \/ \E c \in Clusters : SetArrayConnectivity(c) \/ RecordExportSuccess(c)
Export   == \E k \in Kinds : Begin(k)

Next ==
    \/ SetPowerScaleClients \/ UpdateObservabilityMetrics
    \/ RecordPowerScaleExportFailure
    \/ Export \/ Gatherer \/ Pusher \/ Exporter
    \/ \E c \in Clusters : WorkerStep(c) \/ PushWorkerStep(c)

(* The Go scheduler runs every runnable goroutine; queries and recordings
   return.  Nothing forces a cycle to begin or a file to change. *)
Fairness ==
    /\ WF_vars(Gatherer) /\ WF_vars(Pusher) /\ WF_vars(Exporter)
    /\ \A c \in Clusters : WF_vars(WorkerStep(c)) /\ WF_vars(PushWorkerStep(c))

Spec     == Init /\ [][Next]_vars
FairSpec == Spec /\ Fairness

-----------------------------------------------------------------------------
(* Type invariant: every variable has the values the comments above name. *)
TypeOK ==
    /\ clients \in Configs
    /\ inst \in BOOLEAN
    /\ main \in {"idle", "gather", "push", "report"}
    /\ kind \in Kinds
    /\ snapshot \in SUBSET Clusters
    /\ metrics \in SUBSET Clusters
    /\ success \in SUBSET Clusters /\ failed \in SUBSET Clusters
    /\ counts \in [Clusters -> Nat]
    /\ unreported \in SUBSET Clusters /\ current \in SUBSET Clusters
    /\ gather \in {"start", "range", "exit"}
    /\ todo \in SUBSET Clusters
    /\ sem \in 0..MaxConn /\ wg \in Nat /\ closed \in BOOLEAN
    /\ worker \in [Clusters -> {"none", "query", "send", "done", "release", "exit"}]
    /\ query \in [Clusters -> {"none", "ok", "error"}]
    /\ serving \in SUBSET Clusters
    /\ pwg \in Nat /\ pclosed \in BOOLEAN
    /\ pworker \in [Clusters -> {"none", "record", "send", "done", "exit"}]
    /\ record \in [Clusters -> {"none", "ok", "error"}]
    /\ gauge \in [Clusters -> {"unset", "up", "down"}]
    /\ status \in [Clusters -> {"none", "success", "failure", "error"}]
    /\ rate \in [Clusters -> Nat]
    /\ undelivered \in SUBSET Clusters /\ steady \in BOOLEAN

(* At most MaxPowerScaleConnections queries are on their way at once, as the
   semaphore of gatherCluster...StatsMetrics is there to ensure. *)
BoundedQueries == Cardinality(Querying) <= MaxConn

(* close(ch) never overtakes a worker: once the gatherer has closed the
   channel no worker can still send on it (a send would panic), and once the
   pusher has closed its own no push worker can. *)
NoSendOnClosedChannel ==
    /\ closed  => \A c \in Clusters : worker[c] \notin {"query", "send"}
    /\ pclosed => \A c \in Clusters : pworker[c] \notin {"record", "send"}

(* The receive from sem comes after wg.Done, so close(sem) may come first;
   even so a worker never blocks on it, and no goroutine leaks. *)
ReleaseNeverBlocks ==
    \A c \in Clusters : worker[c] = "release" => sem > 0 \/ closed

(* When the cycle is reported, every answer gathered has been recorded and
   tallied exactly once, whatever the order of the goroutines was. *)
NoMetricLost ==
    main = "report" =>
        \A c \in Clusters :
            /\ (query[c] = "ok") <=> (record[c] # "none")
            /\ counts[c] = IF query[c] = "ok" THEN MetricCount[kind] ELSE 0

(* The verdict that a cluster's query and recording in this cycle deserve, and
   what the counters of the self-metrics have been given since it began. *)
Deserved(c) == IF query[c] # "ok"       THEN "error"
               ELSE IF record[c] = "ok" THEN "success"
                                        ELSE "failure"
Counted(c)  == ({status[c]} \ {"none"})
               \union (IF c \in undelivered THEN {"failure"} ELSE {})

(* What the self-metrics say of a cluster: "success" and "error" are counted
   only where its own query and recording deserve them, "failure" also when a
   batch was not delivered, and the connectivity gauge agrees with the cycle's
   verdict, also when the self-metrics were switched off and on again.  While
   they stay on, no cluster of the exporter's copy is left without the verdict
   it deserves: one that is queried and never reported was added between the
   exporter's copy and the gatherer's. *)
StatusSound ==
    \A c \in Clusters :
        /\ \A s \in Counted(c) :
              s = Deserved(c) \/ (s = "failure" /\ c \in undelivered)
        /\ status[c] # "none" =>
              gauge[c] \in {"unset", IF query[c] = "ok" THEN "up" ELSE "down"}
        /\ steady /\ c \in snapshot \ (unreported \union current) =>
              status[c] = Deserved(c)

(* Which goroutines of a cycle are not waiting for another: what the guards of
   the actions above say. *)
GathererRuns == \/ gather = "start"
                \/ gather = "range" /\ todo = {} /\ wg = 0
                \/ gather = "range" /\ todo # {} /\ sem < MaxConn
WorkerRuns(c) == \/ worker[c] \in {"query", "done"}
                 \/ worker[c] = "send" /\ main = "gather"
                 \/ worker[c] = "release" /\ (sem > 0 \/ closed)
PusherRuns == main = "push" /\ (serving # {} \/ (pwg = 0 /\ ~pclosed))
PushWorkerRuns(c) == \/ pworker[c] \in {"record", "done"}
                     \/ pworker[c] = "send" /\ main = "push"
ExporterRuns == \/ main = "gather" /\ closed
                \/ main = "push" /\ pclosed
                \/ main = "report"

(* No cycle comes to a state where everyone waits for everyone: the exporter
   for a channel to be closed, the closer for its workers, the gatherer for a
   slot that a worker holds, a worker for the exporter to receive. *)
NeverStuck ==
    main # "idle" =>
        \/ GathererRuns \/ PusherRuns \/ ExporterRuns
        \/ \E c \in Clusters : WorkerRuns(c) \/ PushWorkerRuns(c)

(* How far a cycle has come with one cluster, and with all of them. *)
Rank == [none |-> 0, query |-> 1, record |-> 1, send |-> 2, done |-> 3,
         release |-> 4, exit |-> 5]
Reported(c) == IF main # "report" \/ c \in unreported THEN 0
               ELSE IF c \in current THEN 1 ELSE 2
StepsOf(c)  == Rank[worker[c]] + Rank[pworker[c]] + Reported(c)
Stage       == [gather |-> 0, push |-> 1, report |-> 2, start |-> 0, range |-> 1,
                exit |-> 2]
CycleSteps  == Stage[main] + Stage[gather] + (IF pclosed THEN 1 ELSE 0)

Advance ==
    /\ CycleSteps <= CycleSteps'
    /\ \A c \in Clusters : StepsOf(c) <= StepsOf(c)'
    /\ CycleSteps = CycleSteps' /\ (\A c \in Clusters : StepsOf(c) = StepsOf(c)')
         => UNCHANGED <<exporterVars, gatherVars, pushVars>>

(* No goroutine goes back, and whatever one of them does takes the cycle on: it
   makes at most twelve steps for each cluster and five more before it
   returns, although the watchers may act between any two of them. *)
CycleAdvances == [][main # "idle" /\ main' # "idle" => Advance]_vars

(* Every cycle that begins comes to its end: no goroutine waits for ever on
   the semaphore, a channel or a wait group. *)
CycleTerminates == (main = "gather") ~> (main = "idle")

-----------------------------------------------------------------------------
(* The inductive invariant: what each group of goroutines knows. *)

(* The semaphore and the wait groups count the goroutines that hold them. *)
CountersInv ==
    /\ sem = Cardinality(Holding)
    /\ wg  = Cardinality(Active)
    /\ pwg = Cardinality(Pushing)

(* A worker is started once, and metrics are the answers that were sent. *)
GatherInv ==
    /\ closed => gather = "exit" /\ Active = {}
    /\ main \in {"push", "report"} => closed
    /\ main = "idle" => gather = "exit" /\ Active = {}
    /\ gather = "exit" => closed \/ main = "idle"
    /\ gather = "start" => worker = All("none")
    /\ \A c \in Clusters :
        /\ c \in todo => worker[c] = "none"
        /\ worker[c] \in {"none", "query"} => query[c] = "none"
        /\ worker[c] = "send" => query[c] = "ok"
        /\ c \in metrics <=> query[c] = "ok" /\ worker[c] # "send"

(* Every metric is served to one push worker, recorded and tallied once. *)
PushInv ==
    /\ main = "gather" => serving = {} /\ ~pclosed /\ pworker = All("none")
    /\ main # "gather" => metrics = serving \union {c \in Clusters : pworker[c] # "none"}
    /\ Pushing # {} => main = "push"
    /\ pclosed => serving = {} /\ Pushing = {}
    /\ main = "report" => pclosed
    /\ success = {c \in Clusters : pworker[c] \in {"done", "exit"}}
    /\ failed  = {c \in success : record[c] = "error"}
    /\ \A c \in Clusters :
        /\ c \in serving => pworker[c] = "none"
        /\ record[c] = "none" <=> pworker[c] \in {"none", "record"}
        /\ counts[c] = IF c \in success THEN MetricCount[kind] ELSE 0

(* What has been reported was final when it was. *)
ReportInv ==
    /\ main # "report" => current = {}
    /\ \A c, d \in current : c = d
    /\ current \intersect unreported = {}
    /\ \A c \in Clusters :
        /\ c \in current /\ inst => gauge[c] \in {"unset", GaugeOf(c)}
        /\ status[c] # "none" =>
             /\ main \in {"report", "idle"} /\ closed /\ pclosed
             /\ c \notin unreported \union current
             /\ status[c] = StatusOf(c)
             /\ gauge[c] \in {"unset", GaugeOf(c)}
    /\ steady =>
        /\ main \in {"report", "idle"} /\ closed /\ pclosed
        /\ main = "report" => inst
        /\ \A c \in snapshot \ (unreported \union current) : status[c] # "none"

IInv == TypeOK /\ CountersInv /\ GatherInv /\ PushInv /\ ReportInv

-----------------------------------------------------------------------------
(* What has become of a cluster in this cycle. *)
OutcomeOf(c) == IF main = "idle"            THEN "none"
                ELSE IF record[c] = "ok"    THEN "exported"
                ELSE IF record[c] = "error" THEN "failed"
                ELSE IF query[c] = "ok"     THEN "answered"
                                            ELSE "none"

(* The goroutines implement the abstract cycle. *)
Cycle == INSTANCE ExportCycle WITH
    phase   <- CASE main = "idle"   -> "idle"
                 [] main = "report" -> "report"
                 [] OTHER           -> "collect",
    enabled <- inst,
    pending <- CASE main = "idle"   -> {}
                 [] main = "report" -> unreported \union current
                 [] OTHER           -> snapshot,
    outcome <- [c \in Clusters |-> OutcomeOf(c)],
    verdict <- status

(* StatsExport implements ExportCycle: a target gets one verdict of the cycle,
   after every answer was handed over, and the one its query and recording
   deserve, whatever the reader counts beside it. *)
ImplementsCycle == Cycle!Spec
=============================================================================
