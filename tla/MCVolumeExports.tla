-------------------------- MODULE MCVolumeExports --------------------------
(***************************************************************************)
(* Instance of VolumeExports: a cluster that stays in the credentials file *)
(* but has its isiPath edited, and one that comes and goes.  All volumes   *)
(* are in directory d: v1, of the first cluster, whose attribute leads     *)
(* there, or elsewhere because of its name, or is absent; v2, of the       *)
(* second, that has to be told; and v3 with a malformed handle.            *)
(***************************************************************************)
EXTENDS VolumeExports

CONSTANTS c1, c2, v1, v2, v3, d, e

TwoClusters  == {c1, c2}
ThreeVolumes == {v1, v2, v3}
TwoPaths     == {d, e}
HandleOf     == [v \in ThreeVolumes |-> CASE v = v1 -> c1 [] v = v2 -> c2
                                         [] OTHER -> "malformed"]
AllInD       == [v \in ThreeVolumes |-> d]
OwnPathsOf   == [v \in ThreeVolumes |-> IF v = v1 THEN {d, e, "none"} ELSE {"none"}]
ClassPathsOf == [v \in ThreeVolumes |-> CASE v = v1 -> {e} [] v = v2 -> {d}
                                           [] OTHER -> {}]
TwoConfigs   == {[c \in {c1} |-> d], [c \in {c1, c2} |-> IF c = c1 THEN e ELSE d]}
=============================================================================
