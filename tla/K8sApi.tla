------------------------------- MODULE K8sApi -------------------------------
(***************************************************************************)
(* The two lazy connections to the Kubernetes API (internal/k8s/k8sapi.go):*)
(* the volume finder and the storage class finder have an API object each, *)
(* whose first call makes the client that all later calls use.  The steps  *)
(* below are taken by the exports that call the finders.                   *)
(*                                                                         *)
(* Left out: the objects' Lock, since a call is one step and no two        *)
(* goroutines share an object.                                             *)
(***************************************************************************)
CONSTANT Apis       \* the API objects

VARIABLES
    api,        \* API.Client: "nil", "broken" (a nil *Clientset) or "connected"
    alive       \* no goroutine of the process has panicked

Init ==
    /\ api = [o \in Apis |-> "nil"]
    /\ alive = TRUE

(* ConnectFn, and what it leaves in Client.  api.Client, err = NewConfigFn()
   stores the nil *Clientset of a failed attempt in an interface, which is
   then not nil. *)
Connect(o, r) ==
    \/ r = "error" /\ UNCHANGED api
    \/ r = "error" /\ api' = [api EXCEPT ![o] = "broken"]
    \/ api' = [api EXCEPT ![o] = "connected"]

(* GetPersistentVolumes and GetStorageClasses of o return r. *)
List(o, r) ==
    /\ alive
    /\ \/ api[o] = "nil" /\ Connect(o, r)
       \/ api[o] = "connected" /\ UNCHANGED api
    /\ UNCHANGED alive

(* Client is not nil, so ConnectFn is not called; CoreV1() or StorageV1() of
   the nil *Clientset dereferences it. *)
Panic(o) ==
    /\ alive
    /\ api[o] = "broken"
    /\ alive' = FALSE
    /\ UNCHANGED api
=============================================================================
