--------------------------- MODULE HighestQuotas ---------------------------
(***************************************************************************)
(* getHighestQuotas and the total that gatherClusterQuotaMetrics makes of  *)
(* its result (internal/service/service.go): of the quotas an array lists, *)
(* in any order, the directory quotas that lie below no other directory    *)
(* quota, found in one pass that edits the list of candidates in place.    *)
(*                                                                         *)
(* A path is the sequence of its components, so that a quota's place in    *)
(* the tree is visible; a quota is known by its position in the array's    *)
(* list, since two quotas may have one path.  Left out: the usage and the  *)
(* percentage, computed beside the total from the same quotas; limits are  *)
(* numbers whose sum fits an int64 (they are sizes of one file system).    *)
(***************************************************************************)
EXTENDS Integers, SequencesExt, FiniteSetsExt

CONSTANTS
    Names,   \* components of paths
    Lists    \* the lists of quotas GetAllQuotas may return

Quota == [path : Seq(Names), directory : BOOLEAN, hard : Nat]

ASSUME ListsAssumption == \A l \in Lists : l \in Seq(Quota)

VARIABLES
    list,      \* what GetAllQuotas returned
    at,        \* "range", "compare", "sum" or "done"
    i,         \* position of the quota the outer loop is at
    hIndex,    \* position in highest the inner loop is at, from 1
    highest,   \* highestQuotas, as positions in list
    metric     \* totals of the metrics sent: one at most

vars == <<list, at, i, hIndex, highest, metric>>

(* strings.Contains(p, q + "/"): all of q, wherever in p, and more after.
   (Operators named Fault... are plausible mistakes; no action uses them.) *)
Inside(p, q) ==
    \E k \in 0 .. Len(p) - Len(q) - 1 : \A j \in 1 .. Len(q) : p[k + j] = q[j]

Below(a, b) == Inside(list[a].path, list[b].path)

-----------------------------------------------------------------------------
Init ==
    /\ list \in Lists
    /\ at = "range"
    /\ i = 1
    /\ hIndex = 1
    /\ highest = <<>>
    /\ metric = {}

(* Quotas of users, groups and default quotas are skipped. *)
FaultAnyType == i \in DOMAIN list
IsDirectory  == i \in DOMAIN list /\ list[i].directory

SkipQuota ==
    /\ at = "range"
    /\ i \in DOMAIN list
    /\ ~IsDirectory
    /\ i' = i + 1
    /\ UNCHANGED <<list, at, hIndex, highest, metric>>

TakeQuota ==
    /\ at = "range"
    /\ IsDirectory
    /\ at' = "compare"
    /\ hIndex' = 1
    /\ UNCHANGED <<list, i, highest, metric>>

(* The candidate is taken out and the one that moved into its place is next:
   hIndex-- undoes the loop's hIndex++. *)
FaultSkipsNext == hIndex' = hIndex + 1
SameIndex      == hIndex' = hIndex

FaultKeepsCandidate == SubSeq(highest, 1, hIndex) \o SubSeq(highest, hIndex + 1, Len(highest))
Without             == RemoveAt(highest, hIndex)

RemoveCandidate ==
    /\ at = "compare"
    /\ hIndex \in DOMAIN highest
    /\ Below(highest[hIndex], i)
    /\ highest' = Without
    /\ SameIndex
    /\ UNCHANGED <<list, at, i, metric>>

(* isSubLevel: the inner loop ends and the quota is not appended. *)
SubLevel ==
    /\ at = "compare"
    /\ hIndex \in DOMAIN highest
    /\ ~Below(highest[hIndex], i)
    /\ Below(i, highest[hIndex])
    /\ at' = "range"
    /\ i' = i + 1
    /\ UNCHANGED <<list, hIndex, highest, metric>>

NextCandidate ==
    /\ at = "compare"
    /\ hIndex \in DOMAIN highest
    /\ ~Below(highest[hIndex], i)
    /\ ~Below(i, highest[hIndex])
    /\ hIndex' = hIndex + 1
    /\ UNCHANGED <<list, at, i, highest, metric>>

AppendQuota ==
    /\ at = "compare"
    /\ hIndex > Len(highest)
    /\ highest' = Append(highest, i)
    /\ at' = "range"
    /\ i' = i + 1
    /\ UNCHANGED <<list, hIndex, metric>>

ReturnHighest ==
    /\ at = "range"
    /\ i > Len(list)
    /\ at' = "sum"
    /\ UNCHANGED <<list, i, hIndex, highest, metric>>

(* A cluster with no quotas at all gets no metric. *)
FaultTotal == FoldSeq(LAMBDA q, t : q.hard + t, 0, list)
Total      == FoldSeq(LAMBDA p, t : list[p].hard + t, 0, highest)

SendTotal ==
    /\ at = "sum"
    /\ metric' = IF list = <<>> THEN {} ELSE {Total}
    /\ at' = "done"
    /\ UNCHANGED <<list, i, hIndex, highest>>

Next ==
    \/ SkipQuota \/ TakeQuota
    \/ RemoveCandidate \/ SubLevel \/ NextCandidate \/ AppendQuota
    \/ ReturnHighest \/ SendTotal

Spec == Init /\ [][Next]_vars

(* It is one function, run to its end by one goroutine. *)
FairSpec == Spec /\ WF_vars(Next)

-----------------------------------------------------------------------------
(* Types; the candidates are positions already passed.  What metric holds is
   TotalCountsOnce's subject. *)
TypeOK ==
    /\ list \in Seq(Quota)
    /\ at \in {"range", "compare", "sum", "done"}
    /\ i \in 1 .. Len(list) + 1
    /\ hIndex \in Nat \ {0}
    /\ highest \in Seq(1 .. i - 1)

(* The definition the loops compute: directory quotas that are below no other
   directory quota, among those at the positions in S.  Below is the code's
   own test, which also holds of a copy of a directory's path elsewhere. *)
Directories(S) == {p \in S : list[p].directory}
HighestOf(S)   == {p \in Directories(S) : \A d \in Directories(S) : ~Below(p, d)}

(* Whatever the order in which the array lists its quotas, removing candidates
   while going over them loses none and leaves none behind: what
   getHighestQuotas returns is exactly the highest directory quotas. *)
ReturnsHighest ==
    at \in {"sum", "done"} => ToSet(highest) = HighestOf(DOMAIN list)

(* The hard limit a cluster reports counts every highest quota once: no limit
   of a directory beneath another is added to it, no quota is counted twice. *)
TotalCountsOnce ==
    \A t \in metric :
        t = MapThenSumSet(LAMBDA p : list[p].hard, HighestOf(DOMAIN list))

(* The in-place removal cannot make the loops run for ever. *)
LoopsEnd == <>(at = "done")

(* Why: each turn passes a quota, or goes on to what follows, or leaves fewer
   candidates for the inner loop, although that loop takes candidates away
   below its own index. *)
StageOf == [range |-> 0, compare |-> 1, sum |-> 2, done |-> 3]
Left    == Len(highest) + 1 - hIndex
LoopsAdvance ==
    [][\/ i' = i + 1 /\ i' <= Len(list) + 1
       \/ i' = i /\ StageOf[at'] > StageOf[at]
       \/ i' = i /\ at' = at /\ Left' \in 0 .. Left - 1]_vars

-----------------------------------------------------------------------------
(* The loops' invariant. *)

(* Each candidate is in the list once, in the order of the array. *)
Ordered == \A j, k \in DOMAIN highest : j < k => highest[j] < highest[k]

(* No candidate is below another, and all are directory quotas. *)
Antichain ==
    \A j \in DOMAIN highest :
        /\ list[highest[j]].directory
        /\ \A k \in DOMAIN highest : ~Below(highest[j], highest[k])

(* A directory quota that was passed is a candidate, is below one, or is below
   the quota being compared. *)
Covered ==
    \A p \in Directories(1 .. i - 1) :
        \/ \E j \in DOMAIN highest : p = highest[j] \/ Below(p, highest[j])
        \/ at = "compare" /\ Below(p, i)

(* The inner loop: candidates it has passed are unrelated to the quota. *)
Compared ==
    at = "compare" =>
        /\ IsDirectory
        /\ hIndex <= Len(highest) + 1
        /\ \A j \in DOMAIN highest :
             j < hIndex => ~Below(highest[j], i) /\ ~Below(i, highest[j])

IInv ==
    /\ TypeOK
    /\ Ordered
    /\ Antichain
    /\ Covered
    /\ Compared
    /\ at \in {"sum", "done"} => i > Len(list)
=============================================================================
