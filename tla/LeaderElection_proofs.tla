----------------------- MODULE LeaderElection_proofs -----------------------
(***************************************************************************)
(* Proofs about LeaderElection, for any pods and any durations of which    *)
(* the deadline is the shorter: while an elector runs, the lease of its    *)
(* pod is not taken over.                                                  *)
(***************************************************************************)
EXTENDS LeaderElection, TLAPS

USE DEF IInv

LEMMA InitIInv == Init => IInv
  BY NobodyAssumption, DurationsAssumption DEF Init, TypeOK, LeaseInv

(* A pod may write the lease only if no other pod's elector leads: the others
   saw the leader's last write no longer ago than the leader made it, which is
   less than a lease lasts. *)
LEMMA NobodyElseLeads ==
    ASSUME IInv, NEW p \in Pods, MayWrite(p), NEW q \in Pods, at[q] = "leading"
    PROVE  q = p
<1>1. holder = q /\ q # Nobody
  BY NobodyAssumption DEF LeaseInv
<1>2. CASE holder \in {Nobody, p}
  BY <1>1, <1>2
<1>3. CASE p \notin changed /\ since[p] >= LeaseDuration
  <2>1. since[p] <= since[q] /\ since[q] <= RenewDeadline
    BY <1>3 DEF LeaseInv
  <2>2. since[p] \in Nat /\ since[q] \in Nat
    BY DurationsAssumption DEF TypeOK
  <2> QED
    BY <1>3, <2>1, <2>2, DurationsAssumption
<1> QED
  BY <1>2, <1>3 DEF MayWrite

LEMMA AttemptStep == ASSUME IInv, NEW p \in Pods, Attempt(p) PROVE IInv'
<1> DEFINE Zero == [since EXCEPT ![p] = 0]
<1>1. 0 \in 0 .. LeaseDuration
  BY DurationsAssumption
<1>2. CASE MayWrite(p)
  <2>1. /\ since' = Zero
        /\ holder' = p
        /\ observed' = [observed EXCEPT ![p] = p]
        /\ changed' = Pods \ {p}
        /\ at' = [at EXCEPT ![p] = "leading"]
    BY <1>2 DEF Attempt
  <2>2. TypeOK'
    BY <1>1, <2>1 DEF TypeOK
  <2>3. \A q \in Pods : at'[q] = "leading" => q = p
    BY <1>2, <2>1, NobodyElseLeads DEF TypeOK
  <2>4. LeaseInv'
    BY <2>1, <2>3, DurationsAssumption DEF TypeOK, LeaseInv
  <2> QED
    BY <2>2, <2>4
<1>3. CASE ~MayWrite(p)
  <2>1. /\ since' = [since EXCEPT ![p] = IF p \in changed THEN 0 ELSE @]
        /\ observed' = [observed EXCEPT ![p] = holder]
        /\ changed' = changed \ {p}
        /\ UNCHANGED <<holder, at>>
    BY <1>3 DEF Attempt
  <2>2. holder # p
    BY <1>3 DEF MayWrite
  <2>3. TypeOK'
    BY <1>1, <2>1 DEF TypeOK
  <2>4. \A q \in Pods : at[q] = "leading" => q # p
    BY <2>2 DEF LeaseInv
  <2>5. ASSUME NEW q \in Pods, at[q] = "leading"
        PROVE  /\ since'[q] = since[q]
               /\ \A r \in Pods \ changed' : since'[r] <= since[q]
    <3>1. since'[q] = since[q] /\ since[q] \in Nat
      BY <2>1, <2>4, <2>5, DurationsAssumption DEF TypeOK
    <3>2. ASSUME NEW r \in Pods \ changed'
          PROVE  since'[r] <= since[q]
      <4>1. CASE r \in changed
        BY <2>1, <3>1, <3>2, <4>1 DEF TypeOK
      <4>2. CASE r \notin changed
        BY <2>1, <2>5, <4>2 DEF TypeOK, LeaseInv
      <4> QED
        BY <4>1, <4>2
    <3> QED
      BY <3>1, <3>2
  <2>6. LeaseInv'
    BY <2>1, <2>2, <2>5 DEF TypeOK, LeaseInv
  <2> QED
    BY <2>3, <2>6
<1> QED
  BY <1>2, <1>3

(* Time stops at the deadline of a leader, who has ended by the time the lease
   has run out. *)
LEMMA TickStep == ASSUME IInv, Tick PROVE IInv'
<1>1. \A p \in Pods : since[p] \in 0 .. LeaseDuration
  BY DEF TypeOK
<1>2. TypeOK'
  BY <1>1, DurationsAssumption DEF Tick, TypeOK
<1>3. ASSUME NEW p \in Pods, at[p] = "leading"
      PROVE  since'[p] = since[p] + 1 /\ since'[p] <= RenewDeadline
  <2>1. since[p] < RenewDeadline
    BY <1>1, <1>3, DurationsAssumption DEF Tick, GivesUp
  <2> QED
    BY <1>1, <2>1, DurationsAssumption DEF Tick
<1>4. \A q \in Pods : since'[q] <= since[q] + 1
  BY <1>1, DurationsAssumption DEF Tick
<1>5. ASSUME NEW p \in Pods, at[p] = "leading", NEW q \in Pods \ changed
      PROVE  since'[q] <= since'[p]
  <2>1. since[q] <= since[p]
    BY <1>5 DEF LeaseInv
  <2>2. since'[q] \in Nat
    BY <1>2, DurationsAssumption DEF TypeOK
  <2> QED
    BY <1>1, <1>3, <1>4, <1>5, <2>1, <2>2, DurationsAssumption
<1>6. LeaseInv'
  BY <1>3, <1>5 DEF Tick, LeaseInv
<1> QED
  BY <1>2, <1>6

LEMMA Step == ASSUME IInv, [Next]_vars PROVE IInv'
<1>1. ASSUME NEW p \in Pods, InitLeaderElection(p) PROVE IInv'
  BY <1>1 DEF InitLeaderElection, TypeOK, LeaseInv
<1>2. ASSUME NEW p \in Pods, EndElection(p) PROVE IInv'
  BY <1>2 DEF EndElection, GivesUp, TypeOK, LeaseInv
<1>3. ASSUME NEW p \in Pods, Restart(p) PROVE IInv'
  BY <1>3, NobodyAssumption DEF Restart, TypeOK, LeaseInv
<1>4. CASE UNCHANGED vars
  BY <1>4 DEF vars, TypeOK, LeaseInv
<1> QED
  BY <1>1, <1>2, <1>3, <1>4, AttemptStep, TickStep DEF Next

(* The invariant of the lease holds for any pods and durations: a leader holds
   the lease, and nobody has waited longer for it than since its last write. *)
THEOREM Inductive == Spec => []IInv
  BY InitIInv, Step, PTL DEF Spec

(* A pod that says it leads and does not hold the lease has an elector that
   ended; so of two pods that say so, one has. *)
THEOREM StaleMeansEnded == Spec => []StaleOnlyWhenEnded
<1>1. IInv => StaleOnlyWhenEnded
  BY DEF TypeOK, LeaseInv, IsLeader, StaleOnlyWhenEnded
<1> QED
  BY <1>1, Inductive, PTL
=============================================================================
