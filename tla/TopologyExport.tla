--------------------------- MODULE TopologyExport ---------------------------
(***************************************************************************)
(* ExportTopologyMetrics (internal/service/service.go) as the pipeline it  *)
(* is: the gatherer starts a worker per volume, the pusher a push worker   *)
(* per metric it receives, and the exporter drains the pusher's channel;   *)
(* no stage waits for the one before to end.                               *)
(*                                                                         *)
(* Left out: the labels' values.  Of a push worker's error only its not    *)
(* sending is left.  wg.Done is taken with the step before it.             *)
(***************************************************************************)
CONSTANTS
    Volumes,    \* persistent volumes
    Malformed   \* those whose volume handle has not four parts

VARIABLES
    main,       \* "idle" or "export"
    todo,       \* volumes the gatherer has still to range over
    worker,     \* where each gather worker is
    closed,     \* the gatherer has closed its channel
    push,       \* where each push worker is, or how it ended
    pclosed     \* the pusher has closed its channel

vars == <<main, todo, worker, closed, push, pclosed>>

Init ==
    /\ main = "idle"
    /\ todo = {}
    /\ worker = [v \in Volumes |-> "none"] /\ closed = FALSE
    /\ push   = [v \in Volumes |-> "none"] /\ pclosed = FALSE

ExportTopologyMetrics(pvs) ==
    /\ main = "idle"
    /\ main' = "export"
    /\ todo' = pvs
    /\ UNCHANGED <<worker, closed, push, pclosed>>

(* A worker with a malformed handle returns without a metric. *)
StartWorker(v) ==
    /\ v \in todo
    /\ todo' = todo \ {v}
    /\ worker' = [worker EXCEPT ![v] = IF v \in Malformed THEN "exit" ELSE "send"]
    /\ UNCHANGED <<main, closed, push, pclosed>>

(* ch <- metric, received by the pusher, which starts a push worker. *)
SendMetric(v) ==
    /\ worker[v] = "send"
    /\ ~pclosed
    /\ worker' = [worker EXCEPT ![v] = "exit"]
    /\ push' = [push EXCEPT ![v] = "record"]
    /\ UNCHANGED <<main, todo, closed, pclosed>>

GatherClose ==
    /\ main = "export" /\ ~closed
    /\ todo = {} /\ \A v \in Volumes : worker[v] # "send"
    /\ closed' = TRUE
    /\ UNCHANGED <<main, todo, worker, push, pclosed>>

(* Only a recording that succeeded is sent on. *)
RecordTopologyMetrics(v) ==
    /\ push[v] = "record"
    /\ \E next \in {"send", "failed"} : push' = [push EXCEPT ![v] = next]
    /\ UNCHANGED <<main, todo, worker, closed, pclosed>>

SendResult(v) ==
    /\ push[v] = "send"
    /\ push' = [push EXCEPT ![v] = "received"]
    /\ UNCHANGED <<main, todo, worker, closed, pclosed>>

(* wg.Wait().  (Operators named Fault... are what a plausible bug would make
   of the next definition; no action uses them.) *)
FaultNoPushWait == TRUE
PushWorkersDone == \A v \in Volumes : push[v] \notin {"record", "send"}

PushClose ==
    /\ closed /\ ~pclosed
    /\ PushWorkersDone
    /\ pclosed' = TRUE
    /\ UNCHANGED <<main, todo, worker, closed, push>>

(* The exporter's range has ended; its goroutines and channels are gone. *)
Return ==
    /\ main = "export" /\ pclosed
    /\ main' = "idle"
    /\ worker' = [v \in Volumes |-> "none"] /\ closed' = FALSE
    /\ push'   = [v \in Volumes |-> "none"] /\ pclosed' = FALSE
    /\ UNCHANGED todo

VolumeStep(v) == \/ StartWorker(v) \/ SendMetric(v)
                 \/ RecordTopologyMetrics(v) \/ SendResult(v)
Progress == GatherClose \/ PushClose \/ Return \/ \E v \in Volumes : VolumeStep(v)

-----------------------------------------------------------------------------
TypeOK ==
    /\ main \in {"idle", "export"}
    /\ todo \in SUBSET Volumes
    /\ worker \in [Volumes -> {"none", "send", "exit"}]
    /\ push \in [Volumes -> {"none", "record", "send", "failed", "received"}]
    /\ closed \in BOOLEAN /\ pclosed \in BOOLEAN

(* The export returns only after every volume with a proper handle has been
   recorded, and none of its goroutines can send on a closed channel then. *)
AllRecorded ==
    pclosed =>
        \A v \in Volumes :
            /\ v \notin todo /\ worker[v] # "send" /\ push[v] \notin {"record", "send"}
            /\ worker[v] = "exit" /\ v \notin Malformed
                   => push[v] \in {"failed", "received"}

(* What the proofs show to be preserved: what each volume has been through,
   and what is over once a stage has closed its channel. *)
IInv ==
    /\ TypeOK /\ AllRecorded
    /\ main = "idle" => /\ todo = {} /\ ~closed /\ ~pclosed
                        /\ \A v \in Volumes : worker[v] = "none"
    /\ \A v \in Volumes : /\ v \in todo => worker[v] = "none"
                          /\ worker[v] = "send" => v \notin Malformed
                          /\ push[v] # "none" <=> worker[v] = "exit" /\ v \notin Malformed
    /\ closed  => todo = {} /\ \A v \in Volumes : worker[v] # "send"
    /\ pclosed => closed
=============================================================================
