----------------------------- MODULE MCRunLoop -----------------------------
(* Small instances of RunLoop for TLC. *)
EXTENDS RunLoop

(* Two exports with a flag each, and the two that share one. *)
OwnFlags   == {"quota", "topology"}
SharedFlag == {"capacity", "quota"}

(* Allowed poll frequencies, and some below and above the limits. *)
Allowed  == {5, 20}
ZeroOr20 == {0, 20}
=============================================================================
