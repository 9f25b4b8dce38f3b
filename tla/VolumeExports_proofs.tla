------------------------ MODULE VolumeExports_proofs ------------------------
(***************************************************************************)
(* Proofs about VolumeExports: with the finders, the topology's exports    *)
(* and a panic around it, QuotaExport keeps what QuotaExport_proofs shows  *)
(* of it, and the topology's export, in turn, records every volume.        *)
(***************************************************************************)
EXTENDS VolumeExports, QuotaExport_proofs

(* Every step of the composition is a step of the quotas' export or none. *)
THEOREM QuotasInComposition == SpecAll => Spec
<1>1. InitAll => Init
  BY DEF InitAll
<1>2. [NextAll]_allVars => [Next]_vars
  <2> SUFFICES ASSUME [NextAll]_allVars
               PROVE  Next \/ UNCHANGED vars
    OBVIOUS
  <2>1. CASE ExportQuotas
    BY <2>1 DEF ExportQuotas, Next
  <2>2. CASE ExportTopology \/ ListingFails \/ Panic \/ Gone
    BY <2>2 DEF ExportTopology, ListingFails, Panic, Gone, allVars
  <2>3. CASE ListClasses
    <3>1. NoPaths \in Classes
      BY DEF Classes, NoPaths, PathValues
    <3>2. PICK classes \in Classes : GatherVolumes(classes)
      BY <2>3, <3>1 DEF ListClasses
    <3> QED
      BY <3>2 DEF Next
  <2>4. CASE Running /\ ~ListClasses
    BY <2>4 DEF Running, Next
  <2>5. CASE Reload
    BY <2>5 DEF Next
  <2>6. CASE UNCHANGED allVars
    BY <2>6 DEF allVars
  <2> QED
    BY <2>1, <2>2, <2>3, <2>4, <2>5, <2>6 DEF NextAll, Running
<1> QED
  BY <1>1, <1>2, PTL DEF SpecAll, Spec

(* No result of the two consumers is lost, whatever else the process does. *)
THEOREM TalliesKeptInComposition == SpecAll => []NoTallyLost
BY QuotasInComposition, TalliesKept, PTL

(* No sure quota is missed, whatever else the process does. *)
THEOREM QuotasFoundInComposition == SpecAll => NoQuotaMissed
BY QuotasInComposition, QuotasFound, PTL

(* No cycle of the quotas' export deadlocks, whatever else the process does. *)
THEOREM NobodyStuckInComposition == SpecAll => []NeverStuck
BY QuotasInComposition, NobodyStuck, PTL

(* Nor does any of its goroutines go back, whatever else the process does. *)
THEOREM AdvancesInComposition == SpecAll => CycleAdvances
BY QuotasInComposition, Advances, PTL

(* The quotas' export implements the abstract cycle within the composition. *)
THEOREM ImplementsInComposition == SpecAll => QuotasImplementCycle
BY QuotasInComposition, Implements, PTL

-----------------------------------------------------------------------------
(* The topology's invariant survives each of its own steps. *)
LEMMA TopologyStep ==
    ASSUME Topology!IInv, Topology!Progress
    PROVE  Topology!IInv'
<1> USE DEF Topology!IInv, Topology!TypeOK, Topology!AllRecorded
<1>1. CASE Topology!GatherClose
  BY <1>1 DEF Topology!GatherClose
<1>2. CASE Topology!PushClose
  BY <1>2 DEF Topology!PushClose, Topology!PushWorkersDone
<1>3. CASE Topology!Return
  BY <1>3 DEF Topology!Return
<1>4. ASSUME NEW v \in Volumes, Topology!StartWorker(v) PROVE Topology!IInv'
  BY <1>4 DEF Topology!StartWorker
<1>5. ASSUME NEW v \in Volumes, Topology!SendMetric(v) PROVE Topology!IInv'
  BY <1>5 DEF Topology!SendMetric
<1>6. ASSUME NEW v \in Volumes, Topology!RecordTopologyMetrics(v) PROVE Topology!IInv'
  BY <1>6 DEF Topology!RecordTopologyMetrics
<1>7. ASSUME NEW v \in Volumes, Topology!SendResult(v) PROVE Topology!IInv'
  BY <1>7 DEF Topology!SendResult
<1> QED
  BY <1>1, <1>2, <1>3, <1>4, <1>5, <1>6, <1>7 DEF Topology!Progress, Topology!VolumeStep

(* The topology's invariant holds in every state of the composition. *)
THEOREM TopologyInductive == SpecAll => []Topology!IInv
<1> USE DEF Topology!IInv, Topology!TypeOK, Topology!AllRecorded
<1>1. InitAll => Topology!IInv
  BY DEF InitAll, Topology!Init
<1>2. ASSUME Topology!IInv, [NextAll]_allVars
      PROVE  Topology!IInv'
  <2>1. CASE Topology!Progress
    BY <1>2, <2>1, TopologyStep
  <2>2. ASSUME NEW pvs \in SUBSET Volumes, Topology!ExportTopologyMetrics(pvs)
        PROVE  Topology!IInv'
    BY <1>2, <2>2 DEF Topology!ExportTopologyMetrics
  <2>3. CASE UNCHANGED topologyVars
    BY <1>2, <2>3 DEF topologyVars
  <2> QED
    BY <1>2, <2>1, <2>2, <2>3 DEF NextAll, ExportQuotas, ExportTopology, ListingFails,
       Running, ListClasses, Panic, Gone, allVars
<1> QED
  BY <1>1, <1>2, PTL DEF SpecAll

(* The export of the topology returns only after every volume with a proper
   handle was recorded, whatever the order of its goroutines. *)
THEOREM TopologyComplete == SpecAll => []TopologyRecorded
<1>1. Topology!IInv => TopologyRecorded
  BY DEF Topology!IInv, TopologyRecorded
<1> QED
  BY TopologyInductive, <1>1, PTL

-----------------------------------------------------------------------------
(* The client of a finder stays one of the three values. *)
LEMMA ConnectionTypes ==
    SpecAll => [](/\ api \in [{"volumes", "classes"} -> {"nil", "broken", "connected"}]
                  /\ alive \in BOOLEAN)
<1> DEFINE T == /\ api \in [{"volumes", "classes"} -> {"nil", "broken", "connected"}]
                /\ alive \in BOOLEAN
<1>1. InitAll => T
  BY DEF InitAll, Kubernetes!Init
<1>2. T /\ [NextAll]_allVars => T'
  BY DEF NextAll, ExportQuotas, ExportTopology, ListingFails, Running, ListClasses,
     Panic, Gone, allVars, apiVars, Kubernetes!List, Kubernetes!Connect, Kubernetes!Panic
<1> QED
  BY <1>1, <1>2, PTL DEF SpecAll

(* The types of the whole composition. *)
THEOREM CompositionTyping == SpecAll => []TypesOK
<1>1. Topology!IInv => Topology!TypeOK
  BY DEF Topology!IInv
<1> QED
  BY QuotasInComposition, Typing, TopologyInductive, ConnectionTypes, <1>1, PTL
     DEF TypesOK
=============================================================================
