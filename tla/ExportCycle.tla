---------------------------- MODULE ExportCycle ----------------------------
(***************************************************************************)
(* What one export of per-cluster statistics promises, without goroutines, *)
(* channels or semaphores: the clusters configured when the cycle begins   *)
(* are its targets; clusters answer their query or stay silent; each       *)
(* answer is handed to the meter, well or badly; only when every answer    *)
(* has been handed over is each target given its verdict, once.  The       *)
(* verdict is the cycle's own: failures that the SDK's reader counts for   *)
(* batches it could not deliver are none of it (see StatsExport).          *)
(* StatsExport and QuotaExport implement this specification.               *)
(***************************************************************************)
EXTENDS Naturals

CONSTANT Clusters   \* names of PowerScale clusters

VARIABLES
    phase,     \* "idle", "collect" or "report"
    enabled,   \* the self-metrics are on (there is an instrumenter)
    pending,   \* targets of this cycle that have no verdict yet
    outcome,   \* per cluster: "none", "answered", "exported", "failed"
    verdict    \* per cluster: "none", "success", "failure", "error"

vars == <<phase, enabled, pending, outcome, verdict>>

(* The verdict a cluster deserves at the end of the cycle. *)
Deserved(c) == IF outcome[c] = "exported"    THEN "success"
               ELSE IF outcome[c] = "failed" THEN "failure"
                                             ELSE "error"

Init ==
    /\ phase = "idle"
    /\ enabled \in BOOLEAN
    /\ pending = {}
    /\ outcome = [c \in Clusters |-> "none"]
    /\ verdict = [c \in Clusters |-> "none"]

Begin ==
    /\ phase = "idle"
    /\ phase' = "collect"
    /\ pending' \in SUBSET Clusters
    /\ outcome' = [c \in Clusters |-> "none"]
    /\ verdict' = [c \in Clusters |-> "none"]
    /\ UNCHANGED enabled

Answer(c) ==
    /\ phase = "collect"
    /\ outcome[c] = "none"
    /\ outcome' = [outcome EXCEPT ![c] = "answered"]
    /\ UNCHANGED <<phase, enabled, pending, verdict>>

(* What came of the answers of some clusters is known at once: of one when
   its metric, or the first of its metrics that fails, has been recorded, of
   all the others when every metric has been. *)
HandOver(S) ==
    /\ phase = "collect"
    /\ \A c \in S : outcome[c] = "answered"
    /\ \E o \in {"exported", "failed"} :
         outcome' = [c \in Clusters |-> IF c \in S THEN o ELSE outcome[c]]
    /\ UNCHANGED <<phase, enabled, pending, verdict>>

(* Nothing is reported before every answer has been handed over; with the
   self-metrics off nothing is reported at all. *)
Report ==
    /\ phase = "collect"
    /\ \A c \in Clusters : outcome[c] # "answered"
    /\ IF enabled THEN phase' = "report" /\ UNCHANGED <<pending, outcome>>
                  ELSE /\ phase' = "idle" /\ pending' = {}
                       /\ outcome' = [c \in Clusters |-> "none"]
    /\ UNCHANGED <<enabled, verdict>>

Judge(c) ==
    /\ phase = "report"
    /\ c \in pending
    /\ pending' = pending \ {c}
    /\ verdict' = IF enabled THEN [verdict EXCEPT ![c] = Deserved(c)]
                             ELSE verdict
    /\ UNCHANGED <<phase, enabled, outcome>>

End ==
    /\ phase = "report"
    /\ pending = {}
    /\ phase' = "idle"
    /\ outcome' = [c \in Clusters |-> "none"]
    /\ UNCHANGED <<enabled, pending, verdict>>

(* Switching the self-metrics on starts from an empty registry. *)
Switch ==
    /\ enabled' = ~enabled
    /\ verdict' = IF enabled THEN verdict ELSE [c \in Clusters |-> "none"]
    /\ UNCHANGED <<phase, pending, outcome>>

Next ==
    \/ Begin \/ Report \/ End \/ Switch
    \/ \E c \in Clusters : Answer(c) \/ Judge(c)
    \/ \E S \in SUBSET Clusters : HandOver(S)

Spec == Init /\ [][Next]_vars
=============================================================================
