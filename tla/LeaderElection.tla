--------------------------- MODULE LeaderElection ---------------------------
(***************************************************************************)
(* Which pods think they lead (internal/k8s/leader_elector.go).  Each pod  *)
(* runs client-go's elector for one lease with the durations that          *)
(* InitLeaderElection gives it; RunLoop asks IsLeader before every export. *)
(* The elector and the lease are external, modelled as the code uses them: *)
(* callbacks that do nothing, no release when an elector ends.  A process  *)
(* that ends, because Run returned or it crashed, is started again by      *)
(* Kubernetes in the same pod, and so under the same identity.             *)
(*                                                                         *)
(* Left out: retry periods, since an attempt may be made at any time, and  *)
(* jitter.  Time is discrete, and the pods' clocks run at one rate.        *)
(***************************************************************************)
EXTENDS Naturals, FiniteSets

CONSTANTS
    Pods, Nobody,
    LeaseDuration, RenewDeadline    \* of LeaderElectionConfig

ASSUME NobodyAssumption == Nobody \notin Pods

(* 15 and 10 seconds; NewLeaderElector refuses a deadline that is not shorter. *)
ASSUME DurationsAssumption ==
    LeaseDuration \in Nat /\ RenewDeadline \in Nat /\ RenewDeadline < LeaseDuration

VARIABLES
    holder,     \* the holder that the lease names
    at,         \* each pod: "off", "acquiring", "leading" or "ended"
    observed,   \* the holder its elector has observed last
    changed,    \* pods that have not yet seen the last write of the lease
    since       \* time since it last saw a write of the lease, its own included

vars == <<holder, at, observed, changed, since>>

Init ==
    /\ holder = Nobody
    /\ at = [p \in Pods |-> "off"]
    /\ observed = [p \in Pods |-> Nobody]
    /\ changed = {}
    /\ since = [p \in Pods |-> 0]

(* The pod starts and makes an elector; one that cannot ends in an error. *)
InitLeaderElection(p) ==
    /\ at[p] = "off"
    /\ at' = [at EXCEPT ![p] = "acquiring"]
    /\ UNCHANGED <<holder, observed, changed, since>>

(* The process ends and starts again: the lease is as it was, and the new
   elector has seen nothing of it. *)
Restart(p) ==
    /\ at[p] # "off"
    /\ at' = [at EXCEPT ![p] = "off"]
    /\ observed' = [observed EXCEPT ![p] = Nobody]
    /\ changed' = changed \union {p}
    /\ UNCHANGED <<holder, since>>

(* The lease is the pod's to write: free, its own, or not written by another
   for as long as a lease lasts. *)
MayWrite(p) == holder \in {Nobody, p} \/ (p \notin changed /\ since[p] >= LeaseDuration)

(* An attempt that reaches the API server, to acquire or to renew. *)
Attempt(p) ==
    /\ at[p] \in {"acquiring", "leading"}
    /\ since' = [since EXCEPT ![p] = IF MayWrite(p) \/ p \in changed THEN 0 ELSE @]
    /\ IF MayWrite(p)
       THEN /\ holder' = p
            /\ observed' = [observed EXCEPT ![p] = p]
            /\ changed' = Pods \ {p}
            /\ at' = [at EXCEPT ![p] = "leading"]
       ELSE /\ observed' = [observed EXCEPT ![p] = holder]
            /\ changed' = changed \ {p}
            /\ UNCHANGED <<holder, at>>

(* No renewal has come through for the deadline.  (FaultGivesUp is what a
   RenewDeadline as long as the lease would make of it; no action uses it.) *)
FaultGivesUp(p) == at[p] = "leading" /\ since[p] >= LeaseDuration
GivesUp(p)      == at[p] = "leading" /\ since[p] >= RenewDeadline

(* The elector's Run returns when no renewal has come through for the
   deadline; InitLeaderElection returns nil, and nobody calls it again. *)
EndElection(p) ==
    /\ GivesUp(p)
    /\ at' = [at EXCEPT ![p] = "ended"]
    /\ UNCHANGED <<holder, observed, changed, since>>

(* Time does not pass a deadline that is due. *)
Tick ==
    /\ \A p \in Pods : ~GivesUp(p)
    /\ since' = [p \in Pods |-> IF since[p] < LeaseDuration THEN since[p] + 1
                                                            ELSE since[p]]
    /\ UNCHANGED <<holder, at, observed, changed>>

Next ==
    \/ Tick
    \/ \E p \in Pods : \/ InitLeaderElection(p) \/ Attempt(p) \/ EndElection(p)
                       \/ Restart(p)

Spec == Init /\ [][Next]_vars

-----------------------------------------------------------------------------
(* Types. *)
TypeOK ==
    /\ holder \in Pods \union {Nobody}
    /\ at \in [Pods -> {"off", "acquiring", "leading", "ended"}]
    /\ observed \in [Pods -> Pods \union {Nobody}]
    /\ changed \subseteq Pods
    /\ since \in [Pods -> 0 .. LeaseDuration]

(* IsLeader looks at the record that the elector has observed last. *)
IsLeader(p) == at[p] # "off" /\ observed[p] = p

(* "IsLeader return true if the given client is leader at the moment": of two
   pods at most one exports. *)
AtMostOneLeader == Cardinality({p \in Pods : IsLeader(p)}) <= 1

(* What holds of it: a pod that answers that it leads holds the lease, so that
   there is one of them at most, unless its elector has ended.  No lease is
   taken over while the elector of its holder still runs, whatever attempts
   fail and whichever processes are restarted. *)
StaleOnlyWhenEnded ==
    \A p \in Pods : IsLeader(p) => holder = p \/ at[p] = "ended"

(* Why: a leader has written the lease within the deadline, and no other pod
   has waited for longer than that since it saw it written. *)
LeaseInv ==
    \A p \in Pods :
        /\ at[p] \in {"off", "acquiring"} => observed[p] # p
        /\ at[p] = "leading" =>
             /\ holder = p
             /\ since[p] <= RenewDeadline
             /\ \A q \in Pods \ changed : since[q] <= since[p]

IInv == TypeOK /\ LeaseInv
=============================================================================
