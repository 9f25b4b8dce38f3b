-------------------------- MODULE Recording_proofs --------------------------
(***************************************************************************)
(* Proofs about Recording, for any calls, metaIDs and labels, and however  *)
(* many calls of an export share a metaID.                                 *)
(***************************************************************************)
EXTENDS Recording, TLAPS

USE DEF callVars, labelVars, readerVars, Cells, None, Locked

LEMMA InitIInv == Init => IInv
<1> SUFFICES ASSUME Init PROVE IInv
  OBVIOUS
<1>1. PICK v \in Values : given = [c \in Calls |-> v] /\ heap = [x \in Cells |-> v]
  BY DEF Init
<1>2. TypeOK
  BY <1>1 DEF Init, TypeOK
<1>3. LabelsInv
  BY <1>1 DEF Init, LabelsInv
<1>4. CallbackInv
  BY DEF Init, CallbackInv
<1> QED
  BY <1>2, <1>3, <1>4 DEF IInv

(* The slices of a new export: each call has its own labels, and whatever an
   earlier export left in mw.Labels is in a cell of the metaID. *)
LEMMA BeginHeap ==
    ASSUME TypeOK, Begin
    PROVE  /\ id' \in [Calls -> Ids] /\ given' \in [Calls -> Values]
           /\ heap' \in [Cells -> Values]
           /\ \A c \in Calls : heap'[c] = given'[c]
<1>1. id' \in [Calls -> Ids] /\ given' \in [Calls -> Values]
  BY DEF Begin
<1>2. heap' = [x \in Cells |-> IF x \in Calls THEN given'[x]
                               ELSE IF labels[x] = None THEN heap[x]
                               ELSE heap[labels[x]]]
  BY DEF Begin
<1>3. ASSUME NEW x \in Cells PROVE heap'[x] \in Values
  <2>1. CASE x \in Calls
    BY <1>1, <1>2, <2>1
  <2>2. CASE x \in Ids /\ x \notin Calls
    <3>1. labels[x] \in Cells \union {None} /\ heap[x] \in Values
      BY <2>2 DEF TypeOK
    <3>2. labels[x] # None => heap[labels[x]] \in Values
      BY <3>1 DEF TypeOK
    <3> QED
      BY <1>2, <2>2, <3>1, <3>2
  <2> QED
    BY <2>1, <2>2
<1> QED
  BY <1>1, <1>2, <1>3

LEMMA TypeStep == ASSUME TypeOK, [Next]_vars PROVE TypeOK'
<1> USE DEF TypeOK
<1>1. CASE Begin
  <2>1. /\ id' \in [Calls -> Ids] /\ given' \in [Calls -> Values]
        /\ heap' \in [Cells -> Values]
    BY <1>1, BeginHeap
  <2>2. PICK S \in SUBSET Calls :
          pc' = [c \in Calls |-> IF c \in S THEN "load" ELSE "returned"]
    BY <1>1 DEF Begin
  <2> QED
    BY <1>1, <2>1, <2>2 DEF Begin
<1>2. ASSUME NEW c \in Calls, LoadMetrics(c) PROVE TypeOK'
  BY <1>2 DEF LoadMetrics
<1>3. ASSUME NEW c \in Calls, LoadLabels(c) PROVE TypeOK'
  BY <1>3 DEF LoadLabels
<1>4. ASSUME NEW c \in Calls, HaveLabelsChanged(c) PROVE TypeOK'
  BY <1>4 DEF HaveLabelsChanged
<1>5. ASSUME NEW c \in Calls, StoreMetrics(c) PROVE TypeOK'
  BY <1>5 DEF StoreMetrics
<1>6. ASSUME NEW c \in Calls, StoreLabels(c) PROVE TypeOK'
  BY <1>6 DEF StoreLabels, StoreFor
<1>7. ASSUME NEW c \in Calls, RegisterCallback(c) PROVE TypeOK'
  BY <1>7 DEF RegisterCallback
<1>8. ASSUME NEW c \in Calls, Unregister(c) PROVE TypeOK'
  BY <1>8 DEF Unregister, Unregistered
<1>9. ASSUME NEW c \in Calls, ReceiveDone(c) PROVE TypeOK'
  BY <1>9 DEF ReceiveDone
<1>10. CASE Collect
  BY <1>10 DEF Collect
<1>11. ASSUME NEW c \in Calls, Callback(c) PROVE TypeOK'
  BY <1>11 DEF Callback, SpawnSender
<1>12. CASE Collected
  BY <1>12 DEF Collected
<1>13. CASE Export
  BY <1>13 DEF Export
<1>14. CASE UNCHANGED vars
  BY <1>14 DEF vars
<1> QED
  BY <1>1, <1>2, <1>3, <1>4, <1>5, <1>6, <1>7, <1>8, <1>9, <1>10, <1>11,
     <1>12, <1>13, <1>14 DEF Next, Reader, UpdateLabels, Sdk

(* Labels do not matter to the callbacks: a call that updates them is not yet
   registered. *)
LEMMA CallbackStep ==
    ASSUME TypeOK, CallbackInv, [Next]_vars
    PROVE  CallbackInv'
<1> USE DEF TypeOK, CallbackInv
<1>1. CASE Begin
  <2>1. callbacks = {} /\ todo = {}
    BY <1>1 DEF Begin
  <2>2. PICK S \in SUBSET Calls :
          pc' = [c \in Calls |-> IF c \in S THEN "load" ELSE "returned"]
    BY <1>1 DEF Begin
  <2> QED
    BY <1>1, <2>1, <2>2 DEF Begin
<1>2. ASSUME NEW c \in Calls, UpdateLabels(c) PROVE CallbackInv'
  <2>1. /\ pc[c] \notin {"wait", "unregister"}
        /\ pc' \in {[pc EXCEPT ![c] = l] :
                       l \in {"labels", "compare", "init", "store", "register"}}
        /\ UNCHANGED <<result, callbacks, sender, seen, reader, todo>>
    BY <1>2 DEF UpdateLabels, LoadMetrics, LoadLabels, HaveLabelsChanged,
       StoreMetrics, StoreLabels
  <2> QED
    BY <2>1
<1>3. ASSUME NEW c \in Calls, RegisterCallback(c) PROVE CallbackInv'
  BY <1>3 DEF RegisterCallback
<1>4. ASSUME NEW c \in Calls, Unregister(c) PROVE CallbackInv'
  BY <1>4 DEF Unregister, Unregistered
<1>5. ASSUME NEW c \in Calls, ReceiveDone(c) PROVE CallbackInv'
  BY <1>5 DEF ReceiveDone, Done
<1>6. CASE Collect
  BY <1>6 DEF Collect
<1>7. ASSUME NEW c \in Calls, Callback(c) PROVE CallbackInv'
  BY <1>7 DEF Callback, SpawnSender
<1>8. CASE Collected
  BY <1>8 DEF Collected
<1>9. CASE Export
  BY <1>9 DEF Export
<1>10. CASE UNCHANGED vars
  BY <1>10 DEF vars
<1> QED
  BY <1>1, <1>2, <1>3, <1>4, <1>5, <1>6, <1>7, <1>8, <1>9, <1>10
     DEF Next, Reader, Sdk

(* A call of UpdateLabels is one made in this export, before and after. *)
LEMMA UpdateMade ==
    ASSUME TypeOK, NEW c \in Calls, UpdateLabels(c)
    PROVE  Made' = Made /\ c \in Made /\ UNCHANGED callVars
<1>1. /\ pc[c] # "returned"
      /\ pc' \in {[pc EXCEPT ![c] = l] :
                     l \in {"labels", "compare", "init", "store", "register"}}
      /\ UNCHANGED <<callVars, result>>
  BY DEF UpdateLabels, LoadMetrics, LoadLabels, HaveLabelsChanged, StoreMetrics,
         StoreLabels
<1>2. \A d \in Calls : pc'[d] # "returned" <=> pc[d] # "returned"
  BY <1>1 DEF TypeOK
<1> QED
  BY <1>1, <1>2 DEF Made

(* What a call has loaded, it or a call with the same metaID built, now or in
   an earlier export; so what it overwrites keeps labels of that metaID. *)
LEMMA UpdateStep ==
    ASSUME TypeOK, LabelsInv, NEW c \in Calls, UpdateLabels(c)
    PROVE  LabelsInv'
<1>1. id[c] \in Ids
  BY DEF TypeOK
<1>2. Made' = Made /\ c \in Made /\ UNCHANGED callVars
  BY UpdateMade
<1>3. CASE LoadMetrics(c)
  BY <1>1, <1>2, <1>3, CellAssumption DEF LoadMetrics, TypeOK, LabelsInv
<1>4. CASE LoadLabels(c)
  BY <1>1, <1>2, <1>4 DEF LoadLabels, TypeOK, LabelsInv
<1>5. CASE HaveLabelsChanged(c)
  <2>1. loaded[c] \in {id[c]} \union {d \in Calls : id[d] = id[c]}
    BY <1>1, <1>5 DEF HaveLabelsChanged, LabelsInv
  <2>2. heap' = [heap EXCEPT ![loaded[c]] = heap[c]] /\ loaded[c] \in Cells
    BY <1>1, <1>5, <2>1 DEF HaveLabelsChanged
  <2>3. PICK e \in Made : id[e] = id[c] /\ heap[c] = given[e]
    BY <1>2 DEF LabelsInv
  <2>4. ASSUME NEW d \in Calls
        PROVE  \E f \in Made \union {d} : id[f] = id[d] /\ heap'[d] = given[f]
    <3>1. CASE d = loaded[c]
      <4>1. id[d] = id[c]
        BY <1>1, <2>1, <3>1, CellAssumption
      <4>2. heap'[d] = heap[c]
        BY <2>2, <3>1 DEF TypeOK
      <4> QED
        BY <2>3, <4>1, <4>2
    <3>2. CASE d # loaded[c]
      <4>1. heap'[d] = heap[d]
        BY <2>2, <3>2 DEF TypeOK
      <4> QED
        BY <4>1 DEF LabelsInv
    <3> QED
      BY <3>1, <3>2
  <2>5. /\ UNCHANGED <<labels, loaded>>
        /\ \A d \in Calls : pc'[d] \in {"compare", "init", "store"} =>
                             pc[d] \in {"compare", "init", "store"}
    BY <1>5 DEF HaveLabelsChanged, TypeOK
  <2> QED
    BY <1>2, <2>4, <2>5 DEF LabelsInv
<1>6. CASE StoreMetrics(c)
  BY <1>1, <1>2, <1>6 DEF StoreMetrics, TypeOK, LabelsInv
<1>7. CASE StoreLabels(c)
  <2>1. loaded[c] \in {id[c]} \union {d \in Calls : id[d] = id[c]}
    BY <1>1, <1>7 DEF StoreLabels, LabelsInv
  <2>2. labels' = [labels EXCEPT ![id[c]] = loaded[c]]
    BY <1>7 DEF StoreLabels, StoreFor
  <2> QED
    BY <1>1, <1>2, <1>7, <2>1, <2>2 DEF StoreLabels, TypeOK, LabelsInv
<1> QED
  BY <1>3, <1>4, <1>5, <1>6, <1>7 DEF UpdateLabels

LEMMA LabelsStep ==
    ASSUME TypeOK, LabelsInv, [Next]_vars
    PROVE  LabelsInv'
<1>1. CASE Begin
  <2>1. /\ labels' = [i \in Ids |-> IF labels[i] = None THEN None ELSE i]
        /\ loaded' = [c \in Calls |-> None]
        /\ \A c \in Calls : pc'[c] \in {"load", "returned"}
    BY <1>1 DEF Begin
  <2>2. \A c \in Calls : heap'[c] = given'[c]
    BY <1>1, BeginHeap
  <2> QED
    BY <2>1, <2>2 DEF LabelsInv
<1>2. ASSUME NEW c \in Calls, UpdateLabels(c) PROVE LabelsInv'
  BY <1>2, UpdateStep
<1>3. ASSUME NEW c \in Calls, Sdk(c) \/ ReceiveDone(c) PROVE LabelsInv'
  <2>1. /\ UNCHANGED <<callVars, heap, labels, loaded>>
        /\ \A d \in Calls : pc'[d] \in {"compare", "init", "store"} => pc'[d] = pc[d]
    BY <1>3 DEF Sdk, RegisterCallback, Unregister, ReceiveDone, TypeOK
  <2>2. Made \subseteq Made'
    BY <1>3 DEF Sdk, RegisterCallback, Unregister, ReceiveDone, TypeOK, Made
  <2> QED
    BY <2>1, <2>2 DEF LabelsInv
<1>4. CASE Reader
  BY <1>4 DEF Reader, Collect, Callback, Collected, Export, LabelsInv, Made
<1>5. CASE UNCHANGED vars
  BY <1>5 DEF vars, LabelsInv, Made
<1> QED
  BY <1>1, <1>2, <1>3, <1>4, <1>5 DEF Next

-----------------------------------------------------------------------------
(* Whatever calls share a metaID, the callbacks registered are those of the
   calls that wait, and the SDK's goroutines send for what it has observed. *)
THEOREM CallbacksKept == Spec => [](TypeOK /\ CallbackInv)
<1>1. Init => TypeOK /\ CallbackInv
  BY InitIInv DEF IInv
<1>2. TypeOK /\ CallbackInv /\ [Next]_vars => (TypeOK /\ CallbackInv)'
  BY TypeStep, CallbackStep
<1> QED
  BY <1>1, <1>2, PTL DEF Spec

(* In every reachable state the slices in mw.Labels were built for their
   metaID, every call's slice has labels given for its metaID, and the callbacks
   registered are those of the calls that wait. *)
THEOREM Inductive == Spec => []IInv
<1>1. IInv /\ [Next]_vars => IInv'
  BY TypeStep, CallbackStep, LabelsStep DEF IInv
<1> QED
  BY InitIInv, <1>1, PTL DEF Spec

(* However many calls share a metaID, a value is collected under labels that a
   call of the same export gave for the same metaID. *)
THEOREM LabelsOwned == Spec => []OwnLabels
<1>1. ASSUME IInv PROVE OwnLabels
  <2>1. callbacks \subseteq Calls /\ callbacks \subseteq Made
    BY <1>1 DEF IInv, CallbackInv, Made
  <2> QED
    BY <1>1, <2>1 DEF IInv, LabelsInv, OwnLabels
<1> QED
  BY <1>1, Inductive, PTL

(* No collection repeats a value once its Record... has returned. *)
THEOREM Silent == Spec => []NothingAfterReturn
<1>1. CallbackInv => NothingAfterReturn
  BY DEF CallbackInv, NothingAfterReturn
<1> QED
  BY <1>1, CallbacksKept, PTL

(* A Record... that returns without an error has been observed. *)
THEOREM Observed == Spec => []ObservedBeforeReturn
<1>1. CallbackInv => ObservedBeforeReturn
  BY DEF CallbackInv, ObservedBeforeReturn
<1> QED
  BY <1>1, CallbacksKept, PTL
=============================================================================
