----------------------------- MODULE Recording -----------------------------
(***************************************************************************)
(* What Record... of the MetricsWrapper (internal/service/metrics.go) does *)
(* with the OpenTelemetry SDK: the labels kept per metaID, the callback    *)
(* that is registered, waited for and unregistered, and the periodic       *)
(* reader that collects from the callbacks and exports the batch.          *)
(*                                                                         *)
(* The calls are those of the push workers of one export, which returns    *)
(* when all of them have (StatsExport); the next export makes them anew.   *)
(* The five Record... methods differ in their instruments only.  Labels of *)
(* different exports share a metaID only for the clusters, whose labels    *)
(* never change, so the instruments are those of one export.               *)
(*                                                                         *)
(* A slice of labels is a cell of the heap, here with one label in it,     *)
(* written and read at once: the slice a call builds, or one that a call   *)
(* of an earlier export left in mw.Labels.                                 *)
(***************************************************************************)
EXTENDS Integers, FiniteSets

CONSTANTS
    Calls,      \* the Record... calls of an export
    Ids,        \* metaIDs
    Values      \* values of the labels

ASSUME CellAssumption == Calls \intersect Ids = {} /\ "none" \notin Calls \union Ids

VARIABLES
    pc,         \* where each call is
    id,         \* the metaID each call was made for
    given,      \* the labels each call was made with
    result,     \* what the call of this export returned
    heap,       \* the contents of the slices
    stored,     \* metaIDs that have instruments
    labels,     \* the slice mw.Labels holds for each metaID, or "none"
    loaded,     \* the slice each call has loaded from mw.Labels
    callbacks,  \* calls whose callback is registered
    sender,     \* calls with a goroutine that can send on their done channel
    seen,       \* calls that a collection has observed
    reader,     \* where the periodic reader is
    todo        \* callbacks the collection has still to run

callVars   == <<id, given>>
labelVars  == <<heap, stored, labels, loaded>>
readerVars == <<reader, todo>>
vars == <<pc, callVars, result, labelVars, callbacks, sender, seen, readerVars>>

Cells == Calls \union Ids
None  == "none"

(* produce, RegisterCallback and Unregister exclude each other. *)
Locked == reader = "collect"

-----------------------------------------------------------------------------
(* An export: its push workers call Record..., each for a metaID and with
   labels of its own.  The metaID of a volume is its volume handle, which two
   persistent volumes may share. *)
Begin ==
    /\ \A c \in Calls : pc[c] = "returned"
    /\ \E S \in SUBSET Calls :
         pc' = [c \in Calls |-> IF c \in S THEN "load" ELSE "returned"]
    /\ id' \in [Calls -> Ids] /\ given' \in [Calls -> Values]
    /\ heap' = [x \in Cells |-> IF x \in Calls THEN given'[x]
                                ELSE IF labels[x] = None THEN heap[x]
                                ELSE heap[labels[x]]]
    /\ labels' = [i \in Ids |-> IF labels[i] = None THEN None ELSE i]
    /\ loaded' = [c \in Calls |-> None]
    /\ result' = [c \in Calls |-> "none"]
    /\ sender' = {} /\ seen' = {}
    /\ UNCHANGED <<stored, callbacks, reader, todo>>

(* updateLabels: a metaID that has no instruments yet gets them, with the
   labels of this call. *)
LoadMetrics(c) ==
    /\ pc[c] = "load"
    /\ pc' = [pc EXCEPT ![c] = IF id[c] \in stored THEN "labels" ELSE "init"]
    /\ loaded' = [loaded EXCEPT ![c] = c]
    /\ UNCHANGED <<callVars, result, heap, stored, labels, callbacks, sender, seen,
                   readerVars>>

LoadLabels(c) ==
    /\ pc[c] = "labels"
    /\ loaded' = [loaded EXCEPT ![c] = labels[id[c]]]
    /\ pc' = [pc EXCEPT ![c] = IF labels[id[c]] = None THEN "register" ELSE "compare"]
    /\ UNCHANGED <<callVars, result, heap, stored, labels, callbacks, sender, seen,
                   readerVars>>

(* haveLabelsChanged writes the new values into the slice it was given. *)
HaveLabelsChanged(c) ==
    /\ pc[c] = "compare"
    /\ heap' = [heap EXCEPT ![loaded[c]] = heap[c]]
    /\ pc' = [pc EXCEPT ![c] = IF heap[loaded[c]] = heap[c] THEN "register" ELSE "init"]
    /\ UNCHANGED <<callVars, result, stored, labels, loaded, callbacks, sender, seen,
                   readerVars>>

(* init...Metrics stores the instruments, then the labels. *)
StoreMetrics(c) ==
    /\ pc[c] = "init"
    /\ stored' = stored \union {id[c]}
    /\ pc' = [pc EXCEPT ![c] = "store"]
    /\ UNCHANGED <<callVars, result, heap, labels, loaded, callbacks, sender, seen,
                   readerVars>>

(* mw.Labels.Store(metaID, labels).  (Operators named Fault... are what a
   plausible bug would make of the next definition; no action uses them.) *)
FaultStoreForAll(c) == [i \in Ids |-> loaded[c]]
StoreFor(c)         == [labels EXCEPT ![id[c]] = loaded[c]]

StoreLabels(c) ==
    /\ pc[c] = "store"
    /\ labels' = StoreFor(c)
    /\ pc' = [pc EXCEPT ![c] = "register"]
    /\ UNCHANGED <<callVars, result, heap, stored, loaded, callbacks, sender, seen,
                   readerVars>>

-----------------------------------------------------------------------------
RegisterCallback(c) ==
    /\ pc[c] = "register"
    /\ ~Locked
    /\ \/ /\ callbacks' = callbacks \union {c}
          /\ pc' = [pc EXCEPT ![c] = "wait"]
          /\ UNCHANGED result
       \/ /\ pc' = [pc EXCEPT ![c] = "returned"]
          /\ result' = [result EXCEPT ![c] = "error"]
          /\ UNCHANGED callbacks
    /\ UNCHANGED <<callVars, labelVars, sender, seen, readerVars>>

(* <-done *)
FaultNoWait(c) == TRUE
Done(c)        == c \in sender

ReceiveDone(c) ==
    /\ pc[c] = "wait"
    /\ Done(c)
    /\ sender' = sender \ {c}
    /\ pc' = [pc EXCEPT ![c] = "unregister"]
    /\ UNCHANGED <<callVars, result, labelVars, callbacks, seen, readerVars>>

FaultStaysRegistered(c) == callbacks
Unregistered(c)         == callbacks \ {c}

Unregister(c) ==
    /\ pc[c] = "unregister"
    /\ ~Locked
    /\ callbacks' = Unregistered(c)
    /\ pc' = [pc EXCEPT ![c] = "returned"]
    /\ result' = [result EXCEPT ![c] = "ok"]
    /\ UNCHANGED <<callVars, labelVars, sender, seen, readerVars>>

-----------------------------------------------------------------------------
(* The periodic reader of the meter provider. *)

Collect ==
    /\ reader = "idle"
    /\ reader' = "collect"
    /\ todo' = callbacks
    /\ UNCHANGED <<pc, callVars, result, labelVars, callbacks, sender, seen>>

(* go func() { done <- struct{}{} }(): the callback itself never waits.  A
   sender nobody receives from any more stays blocked for ever. *)
FaultSendsItself(c) == pc[c] = "wait" /\ c \notin sender /\ sender' = sender \union {c}
SpawnSender(c)      == sender' = sender \union {c}

Callback(c) ==
    /\ reader = "collect"
    /\ c \in todo
    /\ todo' = todo \ {c}
    /\ seen' = seen \union {c}
    /\ SpawnSender(c)
    /\ UNCHANGED <<pc, callVars, result, labelVars, callbacks, reader>>

Collected ==
    /\ reader = "collect"
    /\ todo = {}
    /\ reader' = "export"
    /\ UNCHANGED <<pc, callVars, result, labelVars, callbacks, sender, seen, todo>>

(* recordingExporter.Export of the batch.  It may fail, which no call learns;
   the failure it then records for each cluster is an action of StatsExport. *)
Export ==
    /\ reader = "export"
    /\ reader' = "idle"
    /\ UNCHANGED <<pc, callVars, result, labelVars, callbacks, sender, seen, todo>>

-----------------------------------------------------------------------------
Init ==
    /\ pc = [c \in Calls |-> "returned"]
    /\ id \in [Calls -> Ids]
    /\ \E v \in Values : given = [c \in Calls |-> v] /\ heap = [x \in Cells |-> v]
    /\ result = [c \in Calls |-> "none"]
    /\ stored = {}
    /\ labels = [i \in Ids |-> None] /\ loaded = [c \in Calls |-> None]
    /\ callbacks = {} /\ sender = {} /\ seen = {}
    /\ reader = "idle" /\ todo = {}

UpdateLabels(c) == \/ LoadMetrics(c) \/ LoadLabels(c) \/ HaveLabelsChanged(c)
                   \/ StoreMetrics(c) \/ StoreLabels(c)
Sdk(c)     == RegisterCallback(c) \/ Unregister(c)
Reader     == Collect \/ Collected \/ Export \/ \E c \in Calls : Callback(c)

Next ==
    \/ Begin \/ Reader
    \/ \E c \in Calls : UpdateLabels(c) \/ Sdk(c) \/ ReceiveDone(c)

Spec == Init /\ [][Next]_vars

(* Goroutines run, the reader's ticker fires every five seconds, an export
   returns, and a sync.Mutex starves nobody that waits for it. *)
Fairness ==
    /\ WF_vars(Reader)
    /\ \A c \in Calls : /\ WF_vars(UpdateLabels(c)) /\ WF_vars(ReceiveDone(c))
                        /\ SF_vars(Sdk(c))

FairSpec == Spec /\ Fairness

-----------------------------------------------------------------------------
(* Type invariant. *)
TypeOK ==
    /\ pc \in [Calls -> {"load", "labels", "compare", "init", "store", "register",
                         "wait", "unregister", "returned"}]
    /\ id \in [Calls -> Ids] /\ given \in [Calls -> Values]
    /\ result \in [Calls -> {"none", "ok", "error"}]
    /\ heap \in [Cells -> Values]
    /\ stored \subseteq Ids
    /\ labels \in [Ids -> Cells \union {None}]
    /\ loaded \in [Calls -> Cells \union {None}]
    /\ callbacks \subseteq Calls /\ sender \subseteq Calls /\ seen \subseteq Calls
    /\ reader \in {"idle", "collect", "export"}
    /\ todo \subseteq Calls

(* The calls made in this export. *)
Made == {c \in Calls : pc[c] # "returned" \/ result[c] # "none"}

(* haveLabelsChanged overwrites slices that callbacks have captured.  Still a
   value is collected under labels given in its own export and for its own
   metaID: those of its call, unless another call of the export shares the
   metaID; then possibly the other's, as for two persistent volumes with one
   volume handle.  Never under another metaID's labels or an earlier export's. *)
OwnLabels == \A c \in callbacks : \E d \in Made : id[d] = id[c] /\ heap[c] = given[d]

(* A value is collected only on behalf of a call that waits for it: once
   Record... has returned, no later collection repeats its value. *)
NothingAfterReturn ==
    /\ \A c \in callbacks : pc[c] \in {"wait", "unregister"}
    /\ todo \subseteq callbacks

(* A call that returns without an error has been observed. *)
ObservedBeforeReturn == \A c \in Calls : result[c] = "ok" => c \in seen

(* Collections go on and every call returns: none of the two waits for the
   other while it holds what the other needs. *)
RecordReturns == \A c \in Calls : (pc[c] = "load") ~> (pc[c] = "returned")

-----------------------------------------------------------------------------
(* Why OwnLabels holds: what mw.Labels keeps for a metaID was left by an
   earlier export or built by a call with that metaID, and so was what any call
   has loaded; whoever overwrites a slice has labels of the same metaID. *)
LabelsInv ==
    /\ \A i \in Ids : labels[i] \in {None, i} \union {c \in Calls : id[c] = i}
    /\ \A c \in Calls :
         /\ \E d \in Made \union {c} : id[d] = id[c] /\ heap[c] = given[d]
         /\ loaded[c] \in {None, id[c]} \union {d \in Calls : id[d] = id[c]}
         /\ pc[c] \in {"compare", "init", "store"} => loaded[c] # None

(* A callback is registered while its call waits, and only then. *)
CallbackInv ==
    /\ callbacks = {c \in Calls : pc[c] \in {"wait", "unregister"}}
    /\ todo \subseteq callbacks
    /\ reader # "collect" => todo = {}
    /\ sender \subseteq seen
    /\ \A c \in Calls : /\ pc[c] = "unregister" => c \in seen
                        /\ result[c] = "ok" => c \in seen

IInv == TypeOK /\ LabelsInv /\ CallbackInv
=============================================================================
