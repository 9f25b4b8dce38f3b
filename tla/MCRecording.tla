---------------------------- MODULE MCRecording ----------------------------
(* Small instances of Recording for TLC. *)
EXTENDS Recording

(* Two push workers and two volume handles; in each export the two record one
   volume each, two persistent volumes with one handle, or less. *)
Workers == {"w1", "w2"}
Handles == {"h1", "h2"}

(* A persistent volume may be bound to another claim between two exports. *)
Claims == {"claimA", "claimB"}
=============================================================================
