---------------------------- MODULE QuotaExport ----------------------------
(***************************************************************************)
(* ExportQuotaMetrics (internal/service/service.go).  One cycle            *)
(*                                                                         *)
(*   query     asks every cluster of its copy of the clients, one by one,  *)
(*             for all its quotas                                          *)
(*   volume    looks each persistent volume up in its cluster's quotas     *)
(*   cluster   adds up the quotas of each cluster of another, later copy   *)
(*   push      records both kinds of metrics; two consumers drain the two  *)
(*             pushers and tally into the same maps under a mutex          *)
(*   report    judges the clusters of the first copy                       *)
(*                                                                         *)
(* An item is a volume or a cluster, for its total.  Gatherer and workers  *)
(* are those of StatsExport, where the wait groups and the semaphore are   *)
(* counted; here they are read off the workers, wg.Done is taken with the  *)
(* step before it, and the range over a server that starts the push        *)
(* workers, which waits for nothing, with the stage's start.               *)
(*                                                                         *)
(* Left out: the quotas' values (HighestQuotas adds them up), the labels,  *)
(* the nil MetricsWrapper, the gauge, the rate and the switching of the    *)
(* self-metrics, which StatsExport has: here they are on; the failures     *)
(* that the OTLP exporter records, for the same reason; and a quota of     *)
(* another directory that happens to bear the ID of a volume.              *)
(***************************************************************************)
EXTENDS Integers, FiniteSets

CONSTANTS
    Clusters,   \* names of PowerScale clusters
    Volumes,    \* persistent volumes
    Handle,     \* the cluster in each one's volume handle, or another value
    Paths,      \* directories that may be named as an isiPath
    Location,   \* the one in which the directory of each volume lies
    OwnPaths,   \* what the volume finder may make of its attribute "Path"
    ClassPaths, \* what its storage class may name
    Configs,    \* what the credentials file may be: isiPaths of some clusters
    MaxConn     \* PowerScaleService.MaxPowerScaleConnections

ASSUME ItemsAssumption ==
    /\ IsFiniteSet(Clusters) /\ IsFiniteSet(Volumes)
    /\ Clusters \intersect Volumes = {}
ASSUME VolumesAssumption ==
    /\ DOMAIN Handle = Volumes
    /\ Location \in [Volumes -> Paths]
    /\ OwnPaths \in [Volumes -> SUBSET (Paths \union {"none"})]
    /\ ClassPaths \in [Volumes -> SUBSET (Paths \union {"none"})]
ASSUME ConfigsAssumption ==
    \A config \in Configs : /\ DOMAIN config \subseteq Clusters
                            /\ config \in [DOMAIN config -> Paths]
ASSUME PathsAssumption == "none" \notin Paths
ASSUME MaxConnAssumption == MaxConn \in Nat \ {0}

VARIABLES
    clients,    \* keys of PowerScaleService.PowerScaleClients
    paths,      \* PowerScaleService.ClientIsiPaths
    inForce,    \* history: its values while the volumes are looked up
    main,       \* where the exporter is
    listed,     \* pvs
    targets,    \* keys of clusterConnected
    connected,  \* the clusters it holds TRUE for
    quotas,     \* cluster2Quotas: items whose quota is in the list
    ownPath,    \* the path of each listed volume, or "none"
    classPath,  \* that of its storage class, or "none"
    todo,       \* what the stage has still to range over
    worker,     \* where each gather worker is
    gathered,   \* items whose metric the exporter has received
    push,       \* where each push worker is
    record,     \* what Record...Quota returned
    consumer,   \* where the consumer of each pusher is
    result,     \* the result it has received
    mu,         \* who holds the mutex
    seen,       \* what it has read under the mutex
    counts,     \* collectionCounts
    failed,     \* exportFailed
    unreported, \* clusters recordObservabilityMetrics has still to range over
    status      \* the export status recorded in this cycle

configVars == <<clients, paths, inForce>>
queryVars  == <<listed, targets, connected, quotas, ownPath, classPath>>
gatherVars == <<todo, worker, gathered>>
pushVars   == <<push, record>>
tallyVars  == <<consumer, result, mu, seen, counts, failed>>
reportVars == <<unreported, status>>
vars == <<configVars, main, queryVars, gatherVars, pushVars, tallyVars, reportVars>>

Items  == Volumes \union Clusters
Stages == {"volume", "cluster"}

StageOf(i)    == IF i \in Volumes THEN "volume" ELSE "cluster"
ItemsOf(k)    == IF k = "volume" THEN Volumes ELSE Clusters
ClusterOf(i)  == IF i \in Volumes THEN Handle[i] ELSE i
WellFormed(v) == Handle[v] \in Clusters
MetricCount   == [volume |-> 4, cluster |-> 2]

(* The quotas a cluster may list: those of its volumes and of other
   directories, for which its own name stands. *)
QuotasOf(c) == {i \in Items : ClusterOf(i) = c}

AllItems(x) == [i \in Items |-> x]

NoPath     == "none"
PathValues == Paths \union {NoPath}
NoPaths    == [v \in Volumes |-> NoPath]

ClientSets == {DOMAIN config : config \in Configs}

Nothing == [count |-> 0, failed |-> FALSE]  \* what absent entries read as

-----------------------------------------------------------------------------
(* The configuration watchers replace the two maps, one after the other, each
   perhaps after the other watcher has replaced both. *)

SetPowerScaleClients ==
    /\ clients' \in ClientSets \ {clients}
    /\ UNCHANGED <<paths, inForce, main, queryVars, gatherVars, pushVars, tallyVars, reportVars>>

SetClientIsiPaths ==
    /\ paths' \in Configs \ {paths}
    /\ inForce' = IF main = "volume" THEN inForce \union {paths'} ELSE inForce
    /\ UNCHANGED <<clients, main, queryVars, gatherVars, pushVars, tallyVars, reportVars>>

-----------------------------------------------------------------------------
(* The listed volumes, and the quotas of the clusters. *)

(* GetPersistentVolumes strips "/" and the name of the volume off the attribute,
   if it ends so: of a volume with another name than its ID too much is left. *)
Attributes(pvs) == {attr \in [Volumes -> PathValues] :
    \A v \in Volumes : attr[v] \in IF v \in pvs THEN OwnPaths[v] ELSE {NoPath}}

(* What the classes that are found name, for volumes that need it. *)
Classes == {classes \in [Volumes -> PathValues] :
    \A v \in Volumes : classes[v] \in IF v \in listed /\ ownPath[v] = NoPath
                                       THEN ClassPaths[v] \union {NoPath} ELSE {NoPath}}

ExportQuotaMetrics(pvs, attr) ==
    /\ main = "idle"
    /\ main' = "query"
    /\ listed' = pvs /\ ownPath' = attr
    /\ targets' = clients /\ todo' = clients
    /\ status' = [c \in Clusters |-> "none"]
    /\ UNCHANGED <<configVars, connected, quotas, classPath, worker, gathered,
                   pushVars, tallyVars, unreported>>

GetAllQuotas(c) ==
    /\ main = "query"
    /\ c \in todo
    /\ todo' = todo \ {c}
    /\ \/ UNCHANGED <<connected, quotas>>
       \/ /\ connected' = connected \union {c}
          /\ \E q \in SUBSET QuotasOf(c) : quotas' = [quotas EXCEPT ![c] = q]
    /\ UNCHANGED <<configVars, main, listed, targets, ownPath, classPath,
                   worker, gathered, pushVars, tallyVars, reportVars>>

(* gatherVolumeQuotaMetrics lists the storage classes first, and goes on
   without them if it cannot. *)
GatherVolumes(classes) ==
    /\ main = "query"
    /\ todo = {}
    /\ main' = "volume"
    /\ classPath' = classes
    /\ todo' = listed
    /\ inForce' = {paths}
    /\ UNCHANGED <<clients, paths, listed, targets, connected, quotas, ownPath,
                   worker, gathered, pushVars, tallyVars, reportVars>>

-----------------------------------------------------------------------------
(* The gatherers and their workers. *)

Holding == {i \in ItemsOf(main) : worker[i] \in {"look", "send", "release"}}

StartWorker(i) ==
    /\ main \in Stages
    /\ i \in todo
    /\ Cardinality(Holding) < MaxConn
    /\ todo' = todo \ {i}
    /\ worker' = [worker EXCEPT ![i] = "look"]
    /\ UNCHANGED <<configVars, main, queryVars, gathered, pushVars, tallyVars,
                   reportVars>>

(* The path is the volume's own, else its storage class's, else the one the
   configuration has for its cluster at this moment.  (Operators named
   Fault... are what a plausible bug would make of the next definition; no
   action uses them.) *)
Else(p, q)            == IF p # NoPath THEN p ELSE q
ClientPath(c, config) == IF c \in DOMAIN config THEN config[c] ELSE NoPath
PathOf(v, config)     ==
    Else(ownPath[v], Else(classPath[v], ClientPath(Handle[v], config)))

FaultNoClientPath(v) == Else(ownPath[v], classPath[v])
IsiPath(v)           == PathOf(v, paths)

(* The volume's directory is looked for in the directory IsiPath names. *)
Found(i) == IF i \in Volumes THEN /\ WellFormed(i)
                                  /\ IsiPath(i) = Location[i]
                                  /\ i \in quotas[Handle[i]]
                             ELSE quotas[i] # {}

(* The early returns run the deferred wg.Done and <-sem as well. *)
FaultReturnLeaks == "look"
AfterReturn      == "release"

LookUp(i) ==
    /\ worker[i] = "look"
    /\ worker' = [worker EXCEPT ![i] = IF Found(i) THEN "send" ELSE AfterReturn]
    /\ UNCHANGED <<configVars, main, queryVars, todo, gathered, pushVars,
                   tallyVars, reportVars>>

(* ch <- metric, received by the exporter's range over the channel. *)
SendMetric(i) ==
    /\ worker[i] = "send"
    /\ gathered' = gathered \union {i}
    /\ worker' = [worker EXCEPT ![i] = "release"]
    /\ UNCHANGED <<configVars, main, queryVars, todo, pushVars, tallyVars,
                   reportVars>>

ReleaseSlot(i) ==
    /\ worker[i] = "release"
    /\ worker' = [worker EXCEPT ![i] = "exit"]
    /\ UNCHANGED <<configVars, main, queryVars, todo, gathered, pushVars,
                   tallyVars, reportVars>>

WorkersDone == \A i \in ItemsOf(main) : worker[i] \notin {"look", "send"}

(* gatherClusterQuotaMetrics ranges over a copy of its own of the clients.
   What a stage alone needed is cleared at its end, with its workers: those
   still there have only their slot to release. *)
GatherClusters ==
    /\ main = "volume"
    /\ todo = {} /\ WorkersDone
    /\ main' = "cluster"
    /\ todo' = clients
    /\ listed' = {} /\ ownPath' = NoPaths /\ classPath' = NoPaths
    /\ inForce' = {} /\ worker' = AllItems("none")
    /\ UNCHANGED <<clients, paths, targets, connected, quotas, gathered, pushVars,
                   tallyVars, reportVars>>

Push ==
    /\ main = "cluster"
    /\ todo = {} /\ WorkersDone
    /\ main' = "push"
    /\ push' = [i \in Items |-> IF i \in gathered THEN "record" ELSE "none"]
    /\ consumer' = [k \in Stages |-> "range"]
    /\ quotas' = [c \in Clusters |-> {}] /\ worker' = AllItems("none")
    /\ UNCHANGED <<configVars, listed, targets, connected, ownPath, classPath,
                   todo, gathered, record, result, mu, seen, counts, failed, reportVars>>

-----------------------------------------------------------------------------
(* The push workers, and the two consumers. *)

FaultRecordRetried(i) ==
    /\ push[i] = "record"
    /\ \E r \in {"ok", "error"} :
           /\ record' = [record EXCEPT ![i] = r]
           /\ push' = [push EXCEPT ![i] = IF r = "error" THEN "record" ELSE "send"]
    /\ UNCHANGED <<configVars, main, queryVars, gatherVars, tallyVars, reportVars>>

RecordQuota(i) ==
    /\ push[i] = "record"
    /\ push' = [push EXCEPT ![i] = "send"]
    /\ \E r \in {"ok", "error"} : record' = [record EXCEPT ![i] = r]
    /\ UNCHANGED <<configVars, main, queryVars, gatherVars, tallyVars, reportVars>>

SendResult(i) ==
    LET k == StageOf(i) IN
    /\ push[i] = "send"
    /\ consumer[k] = "range"
    /\ push' = [push EXCEPT ![i] = "exit"]
    /\ consumer' = [consumer EXCEPT ![k] = "lock"]
    /\ result' = [result EXCEPT ![k] = i]
    /\ UNCHANGED <<configVars, main, queryVars, gatherVars, record, mu, seen,
                   counts, failed, reportVars>>

FaultNoMutex(k) == UNCHANGED mu
Acquire(k)      == mu = "free" /\ mu' = k

(* mu.Lock(), and the old values of the two entries. *)
Lock(k) ==
    LET c == ClusterOf(result[k]) IN
    /\ consumer[k] = "lock"
    /\ Acquire(k)
    /\ consumer' = [consumer EXCEPT ![k] = "store"]
    /\ seen' = [seen EXCEPT ![k] = [count |-> counts[c], failed |-> c \in failed]]
    /\ UNCHANGED <<configVars, main, queryVars, gatherVars, pushVars, result,
                   counts, failed, reportVars>>

FaultLastDecides(k) == record[result[k]] = "error"
ExportFailed(k)     == seen[k].failed \/ record[result[k]] = "error"

FaultNoUnlock == UNCHANGED mu
Unlock        == mu' = "free"

(* Both entries are written, and mu.Unlock(). *)
Tally(k) ==
    LET c == ClusterOf(result[k]) IN
    /\ consumer[k] = "store"
    /\ consumer' = [consumer EXCEPT ![k] = "range"]
    /\ counts' = [counts EXCEPT ![c] = seen[k].count + MetricCount[k]]
    /\ failed' = IF ExportFailed(k) THEN failed \union {c} ELSE failed \ {c}
    /\ Unlock
    /\ result' = [result EXCEPT ![k] = "none"]
    /\ seen' = [seen EXCEPT ![k] = Nothing]
    /\ UNCHANGED <<configVars, main, queryVars, gatherVars, pushVars, reportVars>>

(* The pusher has closed its channel: all its workers are done. *)
EndConsumer(k) ==
    /\ main = "push"
    /\ consumer[k] = "range"
    /\ \A i \in ItemsOf(k) : push[i] \in {"none", "exit"}
    /\ consumer' = [consumer EXCEPT ![k] = "exit"]
    /\ UNCHANGED <<configVars, main, queryVars, gatherVars, pushVars, result, mu,
                   seen, counts, failed, reportVars>>

FaultWaitForOne == \E k \in Stages : consumer[k] = "exit"
ConsumersDone   == \A k \in Stages : consumer[k] = "exit"

-----------------------------------------------------------------------------
(* recordObservabilityMetrics. *)

Report ==
    /\ main = "push"
    /\ ConsumersDone
    /\ main' = "report"
    /\ unreported' = targets
    /\ UNCHANGED <<configVars, queryVars, gatherVars, pushVars, tallyVars, status>>

StatusOf(c) == IF c \notin connected  THEN "error"
               ELSE IF c \in failed   THEN "failure"
                                      ELSE "success"

RecordExportSuccess(c) ==
    /\ main = "report"
    /\ c \in unreported
    /\ unreported' = unreported \ {c}
    /\ status' = [status EXCEPT ![c] = StatusOf(c)]
    /\ UNCHANGED <<configVars, main, queryVars, gatherVars, pushVars, tallyVars>>

(* The cycle's variables, goroutines and channels are gone. *)
Return ==
    /\ main = "report"
    /\ unreported = {}
    /\ main' = "idle"
    /\ targets' = {} /\ connected' = {}
    /\ gathered' = {}
    /\ push' = AllItems("none") /\ record' = AllItems("none")
    /\ consumer' = [k \in Stages |-> "none"]
    /\ counts' = [c \in Clusters |-> 0] /\ failed' = {}
    /\ UNCHANGED <<configVars, listed, quotas, ownPath, classPath, todo, worker,
                   result, mu, seen, reportVars>>

-----------------------------------------------------------------------------
Init ==
    /\ paths \in Configs /\ clients = DOMAIN paths /\ inForce = {}
    /\ main = "idle"
    /\ listed = {} /\ targets = {} /\ connected = {}
    /\ quotas = [c \in Clusters |-> {}]
    /\ ownPath = NoPaths /\ classPath = NoPaths
    /\ todo = {} /\ worker = AllItems("none") /\ gathered = {}
    /\ push = AllItems("none") /\ record = AllItems("none")
    /\ consumer = [k \in Stages |-> "none"]
    /\ result = [k \in Stages |-> "none"]
    /\ mu = "free" /\ seen = [k \in Stages |-> Nothing]
    /\ counts = [c \in Clusters |-> 0] /\ failed = {}
    /\ unreported = {} /\ status = [c \in Clusters |-> "none"]

Reload == SetPowerScaleClients \/ SetClientIsiPaths
ItemStep(i) == \/ StartWorker(i) \/ LookUp(i) \/ SendMetric(i) \/ ReleaseSlot(i)
               \/ RecordQuota(i) \/ SendResult(i)
ConsumerStep(k) == Lock(k) \/ Tally(k) \/ EndConsumer(k)
ClusterStep(c)  == GetAllQuotas(c) \/ RecordExportSuccess(c)

(* The steps of a cycle that has begun, except the listing of the classes. *)
Progress ==
    \/ GatherClusters \/ Push \/ Report \/ Return
    \/ \E i \in Items : ItemStep(i)
    \/ \E k \in Stages : ConsumerStep(k)
    \/ \E c \in Clusters : ClusterStep(c)

Next ==
    \/ Reload \/ Progress
    \/ \E pvs \in SUBSET Volumes : \E attr \in Attributes(pvs) :
           ExportQuotaMetrics(pvs, attr)
    \/ \E classes \in Classes : GatherVolumes(classes)

Spec == Init /\ [][Next]_vars

-----------------------------------------------------------------------------
(* Type invariant, with the mutex held by the consumer that is in between. *)
TypeOK ==
    /\ clients \in ClientSets /\ paths \in Configs /\ inForce \in SUBSET Configs
    /\ main \in {"idle", "query", "volume", "cluster", "push", "report"}
    /\ listed \in SUBSET Volumes
    /\ ownPath \in [Volumes -> PathValues] /\ classPath \in [Volumes -> PathValues]
    /\ targets \in SUBSET Clusters /\ connected \in SUBSET targets
    /\ quotas \in [Clusters -> SUBSET Items]
    /\ todo \in SUBSET Items /\ gathered \in SUBSET Items
    /\ worker \in [Items -> {"none", "look", "send", "release", "exit"}]
    /\ push \in [Items -> {"none", "record", "send", "exit"}]
    /\ record \in [Items -> {"none", "ok", "error"}]
    /\ consumer \in [Stages -> {"none", "range", "lock", "store", "exit"}]
    /\ result \in [Stages -> Items \union {"none"}]
    /\ mu \in Stages \union {"free"}
    /\ {k \in Stages : consumer[k] = "store"} = {mu} \ {"free"}
    /\ seen \in [Stages -> [count : Nat, failed : BOOLEAN]]
    /\ counts \in [Clusters -> Nat] /\ failed \in SUBSET Clusters
    /\ unreported \in SUBSET Clusters
    /\ status \in [Clusters -> {"none", "success", "failure", "error"}]

(* The count and the failures that results of the items S make for c. *)
CountOf(S, c)  == LET mine == {i \in S : ClusterOf(i) = c} IN
                  4 * Cardinality(mine \intersect Volumes)
                      + 2 * Cardinality(mine \intersect {c})
FailedIn(S, c) == \E i \in S : ClusterOf(i) = c /\ record[i] = "error"

(* Although two goroutines tally into the same entries, no result is lost when
   the cycle is reported: the count of each cluster is that of all its volumes'
   metrics and of its total, and one failure among them is remembered. *)
NoTallyLost ==
    main = "report" =>
        \A c \in Clusters : /\ counts[c] = CountOf(gathered, c)
                           /\ c \in failed <=> FailedIn(gathered, c)

(* Clusters that no change of the credentials file removes. *)
Permanent == {c \in Clusters : \A config \in Configs : c \in DOMAIN config}

(* Volumes with a quota in the list that the path in force leads to, whichever
   was when they were looked up; and clusters with a total, come what may. *)
SureVolumes  == {v \in listed : /\ WellFormed(v) /\ v \in quotas[Handle[v]]
                                /\ \A config \in inForce : PathOf(v, config) = Location[v]}
SureClusters == {c \in Permanent : quotas[c] # {}}

(* However clusters come and go and isiPaths are edited during a cycle, a quota
   that was listed is missed only if, at some moment while the volumes were
   looked up, the path for its volume led elsewhere; nothing before or after
   matters, nor whether the cluster is still a client.  The total of a cluster
   that stays is never missed. *)
NoQuotaMissed ==
    [][/\ main = "volume"  /\ main' = "cluster" => SureVolumes \subseteq gathered
       /\ main = "cluster" /\ main' = "push"    => SureClusters \subseteq gathered]_vars

(* Which goroutines of a cycle are not waiting for another: what the guards of
   the actions above say.  The exporter's last query is that of the classes. *)
ItemRuns(i) ==
    \/ main \in Stages /\ i \in todo /\ Cardinality(Holding) < MaxConn
    \/ worker[i] \in {"look", "send", "release"}
    \/ push[i] = "record"
    \/ push[i] = "send" /\ consumer[StageOf(i)] = "range"
ConsumerRuns(k) ==
    \/ consumer[k] = "lock" /\ mu = "free"
    \/ consumer[k] = "store"
    \/ /\ main = "push" /\ consumer[k] = "range"
       /\ \A i \in ItemsOf(k) : push[i] \in {"none", "exit"}
ExporterRuns ==
    \/ main \in {"query", "report"}
    \/ main \in Stages /\ todo = {} /\ WorkersDone
    \/ main = "push" /\ ConsumersDone

(* No cycle comes to a state where everyone waits for everyone: for a slot, for
   the mutex, for a consumer to receive, or for those who can still send. *)
NeverStuck ==
    main # "idle" =>
        \/ ExporterRuns
        \/ \E i \in Items : ItemRuns(i)
        \/ \E k \in Stages : ConsumerRuns(k)

-----------------------------------------------------------------------------
(* The inductive invariant behind these, in parts. *)

(* What each stage leaves as it is. *)
PhaseInv ==
    /\ main = "idle"  => connected = {}
    /\ main = "query" => todo \subseteq targets
    /\ main \in Stages => todo \subseteq ItemsOf(main)
    /\ main \in {"idle", "push", "report"} => todo = {}
    /\ \A i \in Items : worker[i] # "none" => main \in Stages /\ i \in ItemsOf(main)
    /\ main \in {"idle", "query"} => gathered = {}
    /\ main \notin {"push", "report"} =>
           /\ push = AllItems("none") /\ consumer = [k \in Stages |-> "none"]
           /\ counts = [c \in Clusters |-> 0] /\ failed = {}

(* No item is passed over or taken twice: it waits, is looked up, has been
   gathered, or its quota was not there to be found. *)
GatherInv ==
    /\ \A i \in todo : worker[i] = "none"
    /\ \A i \in Items : worker[i] = "send" \/ i \in gathered => ClusterOf(i) \in Clusters
    /\ main = "volume"  => paths \in inForce /\ SureVolumes \subseteq
           todo \union gathered \union {i \in Items : worker[i] \in {"look", "send"}}
    /\ main = "cluster" => SureClusters \subseteq
           todo \union gathered \union {i \in Items : worker[i] \in {"look", "send"}}

(* A consumer works on one result of its pusher; what it has read under the
   mutex stays so until it writes. *)
Working(k) == consumer[k] \in {"lock", "store"}
ConsumerInv ==
    \A k \in Stages :
        /\ Working(k) => result[k] \in ItemsOf(k) /\ push[result[k]] = "exit"
        /\ consumer[k] = "store" =>
               LET c == ClusterOf(result[k]) IN
               seen[k] = [count |-> counts[c], failed |-> c \in failed]
        /\ consumer[k] = "exit" => \A i \in ItemsOf(k) : push[i] \in {"none", "exit"}
        /\ main = "push"   => consumer[k] # "none"
        /\ main = "report" => consumer[k] = "exit"

(* The tallies are those of the results that no consumer is working on. *)
Tallied == {i \in Items : /\ push[i] = "exit"
                          /\ \A k \in Stages : Working(k) => result[k] # i}
TallyInv ==
    main \in {"push", "report"} =>
        /\ \A i \in Items : push[i] # "none" <=> i \in gathered
        /\ \A c \in Clusters : /\ counts[c] = CountOf(Tallied, c)
                               /\ c \in failed <=> FailedIn(Tallied, c)

(* The conjunction is what the proofs show to be preserved by every step. *)
IInv == TypeOK /\ PhaseInv /\ GatherInv /\ ConsumerInv /\ TallyInv

-----------------------------------------------------------------------------
(* How far a stage has come with one item, whose result a consumer has still to
   work on, has read the tallies for, or has tallied; and with its consumers. *)
Rank == [none |-> 0, look |-> 1, record |-> 1, send |-> 2, release |-> 3, exit |-> 4]
TallySteps(i) == IF i \in Tallied THEN 2
                 ELSE IF \E k \in Stages : consumer[k] = "store" /\ result[k] = i
                      THEN 1 ELSE 0
Behind(S, i)  == IF i \in S THEN 0 ELSE 1
StepsOf(i)    == Rank[worker[i]] + Rank[push[i]] + TallySteps(i)
                     + Behind(todo, i) + Behind(unreported, i)
Ended         == {k \in Stages : consumer[k] = "exit"}
StageNumber   == [query |-> 1, volume |-> 2, cluster |-> 3, push |-> 4, report |-> 5]

Advance ==
    /\ Ended \subseteq Ended'
    /\ \A i \in Items : StepsOf(i) <= StepsOf(i)'
    /\ Ended = Ended' /\ (\A i \in Items : StepsOf(i) = StepsOf(i)')
         => UNCHANGED <<queryVars, gatherVars, pushVars, tallyVars, reportVars>>

(* No goroutine of a cycle goes back, neither at the mutex nor when a recording
   fails, and whatever one of them does takes its stage on or ends it: a cycle
   makes at most eight steps for each volume, ten for each cluster and six more
   before it returns, although the watchers may act between any two of them. *)
CycleAdvances ==
    [][main # "idle" /\ main' # "idle" =>
           IF main' = main THEN Advance
                           ELSE StageNumber[main'] = StageNumber[main] + 1]_vars

-----------------------------------------------------------------------------
(* What has become of a cluster in this cycle. *)
OutcomeOf(c) ==
    IF main = "idle" \/ c \notin connected    THEN "none"
    ELSE IF c \in failed                      THEN "failed"
    ELSE IF main = "report" \/ ConsumersDone  THEN "exported"
                                              ELSE "answered"

Cycle == INSTANCE ExportCycle WITH
    phase   <- CASE main = "idle"   -> "idle"
                 [] main = "report" -> "report"
                 [] OTHER           -> "collect",
    enabled <- TRUE,
    pending <- CASE main = "idle"   -> {}
                 [] main = "report" -> unreported
                 [] OTHER           -> targets,
    outcome <- [c \in Clusters |-> OutcomeOf(c)],
    verdict <- status

(* QuotaExport implements ExportCycle: a cluster's verdict of the cycle comes
   after all of its metrics were handed over, and is the one they deserve
   together. *)
QuotasImplementCycle == Cycle!Spec
=============================================================================
