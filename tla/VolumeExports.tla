--------------------------- MODULE VolumeExports ---------------------------
(***************************************************************************)
(* The two exports that begin with the volume finder, as the process runs  *)
(* them: Run calls them one at a time, each asks Kubernetes through the    *)
(* connections of the finders, and the exports of quotas read what the     *)
(* configuration watchers replace meanwhile.                               *)
(*                                                                         *)
(* Composed of QuotaExport, TopologyExport and K8sApi.  Kubernetes lists   *)
(* any of the volumes and of the classes, or fails.                        *)
(***************************************************************************)
EXTENDS QuotaExport

VARIABLES api, alive                                 \* of K8sApi
VARIABLES tmain, ttodo, tworker, tclosed, tpush, tpclosed  \* of TopologyExport

Kubernetes == INSTANCE K8sApi WITH Apis <- {"volumes", "classes"}

Topology == INSTANCE TopologyExport WITH
    Malformed <- {v \in Volumes : ~WellFormed(v)},
    main <- tmain, todo <- ttodo, worker <- tworker, closed <- tclosed,
    push <- tpush, pclosed <- tpclosed

apiVars      == <<api, alive>>
topologyVars == <<tmain, ttodo, tworker, tclosed, tpush, tpclosed>>
allVars      == <<vars, apiVars, topologyVars>>

(* Run is in its select. *)
NoExport == main = "idle" /\ tmain = "idle"

(* VolumeFinder.GetPersistentVolumes, and an export of what it returns. *)
ExportQuotas ==
    /\ NoExport
    /\ Kubernetes!List("volumes", "ok")
    /\ \E pvs \in SUBSET Volumes : \E attr \in Attributes(pvs) :
           ExportQuotaMetrics(pvs, attr)
    /\ UNCHANGED topologyVars

ExportTopology ==
    /\ NoExport
    /\ Kubernetes!List("volumes", "ok")
    /\ \E pvs \in SUBSET Volumes : Topology!ExportTopologyMetrics(pvs)
    /\ UNCHANGED vars

(* Either export returns at once when the volumes cannot be listed. *)
ListingFails ==
    /\ NoExport
    /\ Kubernetes!List("volumes", "error")
    /\ UNCHANGED <<vars, topologyVars>>

(* StorageClassFinder.GetStorageClasses: some classes are found, or none because
   it failed. *)
ListClasses ==
    /\ \/ /\ Kubernetes!List("classes", "ok")
          /\ \E classes \in Classes : GatherVolumes(classes)
       \/ /\ Kubernetes!List("classes", "error")
          /\ GatherVolumes(NoPaths)
    /\ UNCHANGED topologyVars

(* A finder calls a client that was never made: the process is gone. *)
Panic ==
    /\ \/ NoExport /\ Kubernetes!Panic("volumes")
       \/ main = "query" /\ todo = {} /\ Kubernetes!Panic("classes")
    /\ UNCHANGED <<vars, topologyVars>>

Gone == ~alive /\ UNCHANGED allVars

-----------------------------------------------------------------------------
InitAll == Init /\ Kubernetes!Init /\ Topology!Init

Running ==
    /\ alive
    /\ \/ ListClasses
       \/ Progress /\ UNCHANGED <<apiVars, topologyVars>>
       \/ Topology!Progress /\ UNCHANGED <<apiVars, vars>>

NextAll ==
    \/ ExportQuotas \/ ExportTopology \/ ListingFails \/ Running \/ Panic \/ Gone
    \/ alive /\ Reload /\ UNCHANGED <<apiVars, topologyVars>>

(* Goroutines run, queries and recordings return.  A cycle has finitely many
   steps, so that one of its goroutines runs is all that is needed. *)
Fairness == WF_allVars(Running) /\ WF_allVars(Panic)

SpecAll == InitAll /\ [][NextAll]_allVars /\ Fairness

-----------------------------------------------------------------------------
(* Type invariant of the composition. *)
TypesOK ==
    /\ TypeOK /\ Topology!TypeOK
    /\ api \in [{"volumes", "classes"} -> {"nil", "broken", "connected"}]
    /\ alive \in BOOLEAN

(* Topology!AllRecorded: the export of the topology returns only after every
   volume with a proper handle has been recorded, although its three stages
   work at the same time; none of them can then send on a closed channel. *)
TopologyRecorded == Topology!AllRecorded

(* Every export that Run calls returns, whatever fails and whatever the
   watchers do, unless the process is gone. *)
ExportsReturn == (~NoExport) ~> (NoExport \/ ~alive)

(* "could not create Clientset from KubeConfig": a call whose client cannot
   be made returns that error, the second one like the first. *)
FailedConnectionIsAnError == alive
=============================================================================
