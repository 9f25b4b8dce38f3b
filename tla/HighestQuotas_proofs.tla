----------------------- MODULE HighestQuotas_proofs -----------------------
(***************************************************************************)
(* getHighestQuotas is right for every list of quotas of every array: the  *)
(* loop invariant of HighestQuotas is inductive, and at the loops' end it  *)
(* is the set-theoretic definition.  So is the total: what the library's   *)
(* folds compute is derived here by induction over finite sets, as the     *)
(* absence of a smallest set without the property.                         *)
(***************************************************************************)
EXTENDS HighestQuotas, FiniteSetTheorems, WellFoundedInduction, TLAPS

(* Containment of paths is a strict partial order: this is why comparing with
   the candidates alone is enough. *)
LEMMA InsideTransitive ==
    ASSUME NEW p \in Seq(Names), NEW q \in Seq(Names), NEW r \in Seq(Names),
           Inside(p, q), Inside(q, r)
    PROVE  Inside(p, r)
<1>1. PICK k \in 0 .. Len(p) - Len(q) - 1 : \A j \in 1 .. Len(q) : p[k + j] = q[j]
      BY DEF Inside
<1>2. PICK m \in 0 .. Len(q) - Len(r) - 1 : \A j \in 1 .. Len(r) : q[m + j] = r[j]
      BY DEF Inside
<1>3. Len(p) \in Nat /\ Len(q) \in Nat /\ Len(r) \in Nat
      OBVIOUS
<1>4. k + m \in 0 .. Len(p) - Len(r) - 1
      BY <1>3
<1>5. ASSUME NEW j \in 1 .. Len(r)
      PROVE  p[(k + m) + j] = r[j]
  <2>1. m + j \in 1 .. Len(q)
        BY <1>3
  <2>2. p[k + (m + j)] = q[m + j] /\ q[m + j] = r[j]
        BY <1>1, <1>2, <2>1
  <2>3. (k + m) + j = k + (m + j)
        BY <1>3
  <2>   QED  BY <2>2, <2>3
<1>   QED  BY <1>4, <1>5 DEF Inside

LEMMA InsideIrreflexive ==
    ASSUME NEW p \in Seq(Names)
    PROVE  ~Inside(p, p)
<1>1. Len(p) \in Nat
      OBVIOUS
<1>   QED  BY <1>1 DEF Inside

LEMMA PathType ==
    ASSUME list \in Seq(Quota), NEW x \in DOMAIN list
    PROVE  list[x].path \in Seq(Names)
<1>1. list[x] \in Quota
      OBVIOUS
<1>   QED  BY <1>1 DEF Quota

LEMMA BelowTransitive ==
    ASSUME list \in Seq(Quota),
           NEW a \in DOMAIN list, NEW b \in DOMAIN list, NEW c \in DOMAIN list,
           Below(a, b), Below(b, c)
    PROVE  Below(a, c)
<1>1. /\ list[a].path \in Seq(Names)
      /\ list[b].path \in Seq(Names)
      /\ list[c].path \in Seq(Names)
      BY PathType
<1>   QED  BY <1>1, InsideTransitive DEF Below

LEMMA BelowIrreflexive ==
    ASSUME list \in Seq(Quota), NEW a \in DOMAIN list
    PROVE  ~Below(a, a)
<1>1. list[a].path \in Seq(Names)
      BY PathType
<1>   QED  BY <1>1, InsideIrreflexive DEF Below

(* What taking one element out of a sequence leaves. *)
LEMMA Removed ==
    ASSUME NEW S, NEW s \in Seq(S), NEW n \in DOMAIN s
    PROVE  /\ RemoveAt(s, n) \in Seq(S)
           /\ Len(RemoveAt(s, n)) = Len(s) - 1
           /\ \A j \in 1 .. Len(s) - 1 :
                RemoveAt(s, n)[j] = IF j < n THEN s[j] ELSE s[j + 1]
<1>1. Len(s) \in Nat /\ n \in 1 .. Len(s)
      OBVIOUS
<1> DEFINE l == SubSeq(s, 1, n - 1)
           r == SubSeq(s, n + 1, Len(s))
<1>2. /\ l \in Seq(S)
      /\ Len(l) = n - 1
      /\ \A j \in 1 .. n - 1 : l[j] = s[j]
      BY <1>1
<1>3. /\ r \in Seq(S)
      /\ Len(r) = Len(s) - n
      /\ \A j \in 1 .. Len(s) - n : r[j] = s[n + j]
      BY <1>1
<1>4. RemoveAt(s, n) = l \o r
      BY DEF RemoveAt
<1> HIDE DEF l, r
<1>5. l \o r \in Seq(S) /\ Len(l \o r) = Len(s) - 1
      BY <1>1, <1>2, <1>3
<1>6. ASSUME NEW j \in 1 .. Len(s) - 1
      PROVE  (l \o r)[j] = IF j < n THEN s[j] ELSE s[j + 1]
  <2>1. CASE j < n
        BY <1>1, <1>2, <1>3, <2>1
  <2>2. CASE ~(j < n)
    <3>1. (l \o r)[j] = r[j - (n - 1)]
          BY <1>1, <1>2, <1>3, <2>2
    <3>2. j - (n - 1) \in 1 .. Len(s) - n /\ n + (j - (n - 1)) = j + 1
          BY <1>1, <2>2
    <3>   QED  BY <1>3, <2>2, <3>1, <3>2
  <2>   QED  BY <2>1, <2>2
<1>   QED  BY <1>4, <1>5, <1>6

-----------------------------------------------------------------------------
LEMMA InitInv == Init => IInv
<1> SUFFICES ASSUME Init PROVE IInv
    OBVIOUS
<1>1. list \in Seq(Quota)
      BY ListsAssumption DEF Init
<1>2. Len(list) \in Nat
      BY <1>1
<1>3. TypeOK
      BY <1>1, <1>2 DEF Init, TypeOK
<1>4. Ordered /\ Antichain /\ Covered /\ Compared
      BY DEF Init, Ordered, Antichain, Covered, Compared, Directories
<1>   QED  BY <1>3, <1>4 DEF Init, IInv

(* What every action keeps: the list, and with it what is below what. *)
LEMMA SameBelow ==
    ASSUME list' = list
    PROVE  /\ \A x, y : Below(x, y)' <=> Below(x, y)
           /\ \A S : Directories(S)' = Directories(S)
<1>   QED  BY DEF Below, Directories

(* A list of candidates has only positions the outer loop has passed. *)
LEMMA CandidateType ==
    ASSUME TypeOK, NEW j \in DOMAIN highest
    PROVE  highest[j] \in 1 .. i - 1 /\ highest[j] \in DOMAIN list
<1>1. highest[j] \in 1 .. i - 1
      BY DEF TypeOK
<1>2. Len(list) \in Nat /\ DOMAIN list = 1 .. Len(list) /\ i \in 1 .. Len(list) + 1
      BY DEF TypeOK
<1>   QED  BY <1>1, <1>2

LEMMA SkipQuotaInv == ASSUME IInv, SkipQuota PROVE IInv'
<1> USE DEF SkipQuota
<1>1. Len(list) \in Nat /\ DOMAIN list = 1 .. Len(list) /\ i \in DOMAIN list
      BY DEF IInv, TypeOK
<1>2. TypeOK'
  <2>1. 1 .. i - 1 \subseteq 1 .. i' - 1
        BY <1>1
  <2>2. highest' \in Seq(1 .. i' - 1)
        BY <2>1 DEF IInv, TypeOK
  <2>   QED  BY <1>1, <2>2 DEF IInv, TypeOK
<1>3. Ordered' /\ Antichain' /\ Compared'
      BY SameBelow DEF IInv, Ordered, Antichain, Compared
<1>4. Covered'
  <2>1. Directories(1 .. i' - 1) = Directories(1 .. i - 1)
        BY <1>1 DEF Directories, IsDirectory
  <2>   QED  BY <2>1, SameBelow DEF IInv, Covered
<1>   QED  BY <1>2, <1>3, <1>4 DEF IInv

LEMMA TakeQuotaInv == ASSUME IInv, TakeQuota PROVE IInv'
<1> USE DEF TakeQuota
<1>1. TypeOK' /\ Ordered' /\ Antichain'
      BY SameBelow DEF IInv, TypeOK, Ordered, Antichain
<1>2. Covered'
      BY SameBelow DEF IInv, Covered
<1>3. Compared'
  <2>1. Len(highest) \in Nat
        BY DEF IInv, TypeOK
  <2>2. IsDirectory'
        BY DEF IsDirectory
  <2>   QED  BY <2>1, <2>2 DEF Compared
<1>   QED  BY <1>1, <1>2, <1>3 DEF IInv

LEMMA RemoveCandidateInv == ASSUME IInv, RemoveCandidate PROVE IInv'
<1> USE DEF RemoveCandidate
<1> DEFINE n == hIndex
           Was(j) == IF j < n THEN j ELSE j + 1
<1>1. /\ highest \in Seq(1 .. i - 1)
      /\ Len(highest) \in Nat
      /\ DOMAIN highest = 1 .. Len(highest)
      /\ n \in 1 .. Len(highest)
      BY DEF IInv, TypeOK
<1>2. /\ highest' \in Seq(1 .. i - 1)
      /\ DOMAIN highest' = 1 .. Len(highest) - 1
      /\ Len(highest') = Len(highest) - 1
      /\ \A j \in DOMAIN highest' : highest'[j] = highest[Was(j)]
  <2>1. highest' = RemoveAt(highest, n)
        BY DEF Without
  <2>2. /\ highest' \in Seq(1 .. i - 1)
        /\ Len(highest') = Len(highest) - 1
        /\ \A j \in 1 .. Len(highest) - 1 :
             highest'[j] = IF j < n THEN highest[j] ELSE highest[j + 1]
        BY <1>1, <2>1, Removed
  <2>3. DOMAIN highest' = 1 .. Len(highest) - 1
        BY <2>2
  <2>   QED  BY <2>2, <2>3
<1>3. \A j \in DOMAIN highest' : Was(j) \in DOMAIN highest
      BY <1>1, <1>2
<1>4. TypeOK'
      BY <1>2 DEF IInv, TypeOK, SameIndex
<1>5. Ordered'
  <2>1. \A j, k \in DOMAIN highest' : j < k => Was(j) < Was(k)
        BY <1>1, <1>2
  <2>   QED  BY <1>2, <1>3, <2>1 DEF IInv, Ordered
<1> HIDE DEF Was
<1>6. Antichain'
      BY <1>2, <1>3, SameBelow DEF IInv, Antichain
<1>7. Covered'
  <2> SUFFICES ASSUME NEW p \in Directories(1 .. i - 1)
               PROVE  \/ \E j \in DOMAIN highest' : p = highest'[j] \/ Below(p, highest'[j])
                      \/ Below(p, i)
      BY SameBelow DEF Covered
  <2>1. p \in DOMAIN list /\ i \in DOMAIN list /\ highest[n] \in DOMAIN list
        BY <1>1, CandidateType DEF IInv, TypeOK, Compared, IsDirectory, Directories
  <2>2. CASE Below(p, i)
        BY <2>2
  <2>3. ASSUME NEW j \in DOMAIN highest, j # n, p = highest[j] \/ Below(p, highest[j])
        PROVE  \E m \in DOMAIN highest' : p = highest'[m] \/ Below(p, highest'[m])
    <3>1. PICK m \in DOMAIN highest' : Was(m) = j
      <4>1. CASE j < n
        <5>1. j \in DOMAIN highest' /\ Was(j) = j
              BY <1>1, <1>2, <4>1 DEF Was
        <5>   QED  BY <5>1
      <4>2. CASE j > n
        <5>1. j - 1 \in DOMAIN highest' /\ Was(j - 1) = j
              BY <1>1, <1>2, <4>2 DEF Was
        <5>   QED  BY <5>1
      <4>   QED  BY <1>1, <2>3, <4>1, <4>2
    <3>   QED  BY <1>2, <2>3, <3>1
  <2>4. CASE p = highest[n]
        BY <2>4
  <2>5. CASE Below(p, highest[n])
        BY <2>1, <2>5, BelowTransitive DEF IInv, TypeOK
  <2>   QED  BY <1>1, <2>2, <2>3, <2>4, <2>5 DEF IInv, Covered
<1>8. Compared'
  <2>1. \A j \in DOMAIN highest' : j < n => Was(j) = j
        BY DEF Was
  <2>2. hIndex' <= Len(highest') + 1
        BY <1>1, <1>2 DEF SameIndex
  <2>3. IsDirectory'
        BY DEF IInv, Compared, IsDirectory
  <2>   QED  BY <1>2, <1>3, <2>1, <2>2, <2>3, SameBelow DEF IInv, Compared, SameIndex
<1>   QED  BY <1>4, <1>5, <1>6, <1>7, <1>8 DEF IInv

LEMMA SubLevelInv == ASSUME IInv, SubLevel PROVE IInv'
<1> USE DEF SubLevel
<1>1. /\ Len(list) \in Nat
      /\ DOMAIN list = 1 .. Len(list)
      /\ i \in DOMAIN list
      /\ highest[hIndex] \in DOMAIN list
      BY CandidateType DEF IInv, TypeOK, Compared, IsDirectory
<1>2. TypeOK'
  <2>1. 1 .. i - 1 \subseteq 1 .. i' - 1
        BY <1>1
  <2>2. highest' \in Seq(1 .. i' - 1)
        BY <2>1 DEF IInv, TypeOK
  <2>   QED  BY <1>1, <2>2 DEF IInv, TypeOK
<1>3. Ordered' /\ Antichain' /\ Compared'
      BY SameBelow DEF IInv, Ordered, Antichain, Compared
<1>4. Covered'
  <2> SUFFICES ASSUME NEW p \in Directories(1 .. i)
               PROVE  \E j \in DOMAIN highest : p = highest[j] \/ Below(p, highest[j])
      BY <1>1, SameBelow DEF Covered
  <2>1. CASE p = i
        BY <2>1
  <2>2. CASE p # i
    <3>1. p \in Directories(1 .. i - 1) /\ p \in DOMAIN list
          BY <1>1, <2>2 DEF Directories
    <3>2. Below(p, i) => Below(p, highest[hIndex])
          BY <1>1, <3>1, BelowTransitive DEF IInv, TypeOK
    <3>   QED  BY <3>1, <3>2 DEF IInv, Covered
  <2>   QED  BY <2>1, <2>2
<1>   QED  BY <1>2, <1>3, <1>4 DEF IInv

LEMMA NextCandidateInv == ASSUME IInv, NextCandidate PROVE IInv'
<1> USE DEF NextCandidate
<1>1. Len(highest) \in Nat /\ DOMAIN highest = 1 .. Len(highest)
      BY DEF IInv, TypeOK
<1>2. TypeOK' /\ Ordered' /\ Antichain'
      BY SameBelow DEF IInv, TypeOK, Ordered, Antichain
<1>3. Covered'
      BY SameBelow DEF IInv, Covered
<1>4. Compared'
  <2>1. \A j \in DOMAIN highest : j < hIndex' => j < hIndex \/ j = hIndex
        BY <1>1 DEF IInv, TypeOK
  <2>2. IsDirectory' /\ hIndex' <= Len(highest') + 1
        BY <1>1 DEF IInv, Compared, IsDirectory
  <2>   QED  BY <2>1, <2>2, SameBelow DEF IInv, Compared
<1>   QED  BY <1>2, <1>3, <1>4 DEF IInv

LEMMA AppendQuotaInv == ASSUME IInv, AppendQuota PROVE IInv'
<1> USE DEF AppendQuota
<1> DEFINE n == Len(highest)
<1>1. /\ highest \in Seq(1 .. i - 1)
      /\ n \in Nat
      /\ DOMAIN highest = 1 .. n
      /\ Len(list) \in Nat
      /\ DOMAIN list = 1 .. Len(list)
      /\ i \in DOMAIN list
      /\ list[i].directory
      BY DEF IInv, TypeOK, Compared, IsDirectory
<1>2. /\ DOMAIN highest' = 1 .. n + 1
      /\ \A j \in 1 .. n : highest'[j] = highest[j]
      /\ highest'[n + 1] = i
      BY <1>1
<1>3. TypeOK'
  <2>1. 1 .. i - 1 \subseteq 1 .. i' - 1 /\ i \in 1 .. i' - 1
        BY <1>1
  <2>2. highest \in Seq(1 .. i' - 1)
        BY <1>1, <2>1
  <2>3. highest' \in Seq(1 .. i' - 1)
        BY <2>1, <2>2
  <2>   QED  BY <1>1, <2>3 DEF IInv, TypeOK
<1>4. \A j \in 1 .. n : ~Below(highest[j], i) /\ ~Below(i, highest[j])
  <2>1. \A j \in 1 .. n : j < hIndex
        BY <1>1 DEF IInv, TypeOK
  <2>   QED  BY <1>1, <2>1 DEF IInv, Compared
<1>5. \A j \in 1 .. n : highest[j] \in 1 .. i - 1
      BY <1>1
<1>6. \A j \in 1 .. n + 1 : j \in 1 .. n \/ j = n + 1
      BY <1>1
<1>7. Ordered'
  <2> SUFFICES ASSUME NEW j \in DOMAIN highest', NEW k \in DOMAIN highest', j < k
               PROVE  highest'[j] < highest'[k]
      BY DEF Ordered
  <2>1. j \in 1 .. n
        BY <1>1, <1>2
  <2>2. CASE k \in 1 .. n
        BY <1>1, <1>2, <2>1, <2>2 DEF IInv, Ordered
  <2>3. CASE k = n + 1
        BY <1>1, <1>2, <1>5, <2>1, <2>3
  <2>   QED  BY <1>2, <1>6, <2>2, <2>3
<1>8. Antichain'
  <2>1. ~Below(i, i)
        BY <1>1, BelowIrreflexive DEF IInv, TypeOK
  <2>2. \A j \in 1 .. n + 1 : list[highest'[j]].directory
        BY <1>1, <1>2, <1>6 DEF IInv, Antichain
  <2>3. \A j, k \in 1 .. n + 1 : ~Below(highest'[j], highest'[k])
        BY <1>1, <1>2, <1>4, <1>6, <2>1 DEF IInv, Antichain
  <2>   QED  BY <1>2, <2>2, <2>3, SameBelow DEF Antichain
<1>9. Covered'
  <2> SUFFICES ASSUME NEW p \in Directories(1 .. i)
               PROVE  \E j \in DOMAIN highest' : p = highest'[j] \/ Below(p, highest'[j])
      BY <1>1, SameBelow DEF Covered
  <2>1. n + 1 \in DOMAIN highest'
        BY <1>1, <1>2
  <2>2. CASE p = i
        BY <1>2, <2>1, <2>2
  <2>3. CASE p # i
    <3>1. p \in Directories(1 .. i - 1)
          BY <1>1, <2>3 DEF Directories
    <3>2. CASE Below(p, i)
          BY <1>2, <2>1, <3>2
    <3>3. ASSUME NEW j \in DOMAIN highest, p = highest[j] \/ Below(p, highest[j])
          PROVE  j \in DOMAIN highest' /\ (p = highest'[j] \/ Below(p, highest'[j]))
          BY <1>1, <1>2, <3>3
    <3>   QED  BY <3>1, <3>2, <3>3 DEF IInv, Covered
  <2>   QED  BY <2>2, <2>3
<1>10. Compared'
      BY DEF Compared
<1>   QED  BY <1>3, <1>7, <1>8, <1>9, <1>10 DEF IInv

LEMMA ReturnHighestInv == ASSUME IInv, ReturnHighest PROVE IInv'
      BY SameBelow DEF ReturnHighest, IInv, TypeOK, Ordered, Antichain, Covered, Compared

LEMMA SendTotalInv == ASSUME IInv, SendTotal PROVE IInv'
      BY SameBelow DEF SendTotal, IInv, TypeOK, Ordered, Antichain, Covered, Compared

LEMMA StutterInv == ASSUME IInv, UNCHANGED vars PROVE IInv'
<1> USE DEF vars
<1>1. TypeOK' /\ Ordered' /\ Antichain'
      BY SameBelow DEF IInv, TypeOK, Ordered, Antichain
<1>2. Covered' /\ Compared'
      BY SameBelow DEF IInv, Covered, Compared, IsDirectory
<1>   QED  BY <1>1, <1>2 DEF IInv

(* The loop invariant holds for every list: types, the order of the
   candidates, no candidate below another, none forgotten. *)
THEOREM Inductive == Spec => []IInv
<1>1. ASSUME IInv, [Next]_vars
      PROVE  IInv'
      BY <1>1, SkipQuotaInv, TakeQuotaInv, RemoveCandidateInv, SubLevelInv, NextCandidateInv,
         AppendQuotaInv, ReturnHighestInv, SendTotalInv, StutterInv DEF Next
<1>   QED  BY InitInv, <1>1, PTL DEF Spec

-----------------------------------------------------------------------------
(* A turn of the inner loop leaves one candidate fewer to compare with. *)
LEMMA CompareAdvances ==
    ASSUME IInv, RemoveCandidate \/ NextCandidate
    PROVE  i' = i /\ at' = at /\ Left' \in 0 .. Left - 1
<1>1. hIndex \in 1 .. Len(highest) /\ Len(highest) \in Nat
      BY DEF RemoveCandidate, NextCandidate, IInv, TypeOK
<1>2. CASE RemoveCandidate
  <2>1. highest \in Seq(1 .. i - 1) /\ hIndex \in DOMAIN highest
        BY <1>2 DEF RemoveCandidate, IInv, TypeOK
  <2>2. Len(RemoveAt(highest, hIndex)) = Len(highest) - 1
        BY <2>1, Removed
  <2>3. Len(highest') = Len(highest) - 1 /\ hIndex' = hIndex
        BY <1>2, <2>2 DEF RemoveCandidate, Without, SameIndex
  <2>   QED  BY <1>1, <1>2, <2>3 DEF RemoveCandidate, Left
<1>3. CASE NextCandidate
      BY <1>1, <1>3 DEF NextCandidate, Left
<1>   QED  BY <1>2, <1>3

(* For every list the loops end: each turn brings them nearer to it. *)
THEOREM Advances == Spec => LoopsAdvance
<1>1. ASSUME IInv, Next
      PROVE  \/ i' = i + 1 /\ i' <= Len(list) + 1
             \/ i' = i /\ StageOf[at'] > StageOf[at]
             \/ i' = i /\ at' = at /\ Left' \in 0 .. Left - 1
  <2>1. Len(list) \in Nat /\ i \in 1 .. Len(list) + 1
        BY <1>1 DEF IInv, TypeOK
  <2>2. at = "compare" => i \in 1 .. Len(list)
        BY <1>1, <2>1 DEF IInv, TypeOK, Compared, IsDirectory
  <2>3. CASE SkipQuota
        BY <2>1, <2>3, <1>1 DEF SkipQuota, IInv, TypeOK
  <2>4. CASE SubLevel \/ AppendQuota
        BY <2>1, <2>2, <2>4 DEF SubLevel, AppendQuota
  <2>5. CASE TakeQuota \/ ReturnHighest \/ SendTotal
        BY <2>5 DEF TakeQuota, ReturnHighest, SendTotal, StageOf
  <2>6. CASE RemoveCandidate \/ NextCandidate
        BY <1>1, <2>6, CompareAdvances
  <2>   QED  BY <1>1, <2>3, <2>4, <2>5, <2>6 DEF Next
<1>   QED  BY Inductive, <1>1, PTL DEF Spec, LoopsAdvance

-----------------------------------------------------------------------------
(* At the loops' end the candidates are the highest directory quotas. *)
LEMMA InvReturnsHighest == IInv => ReturnsHighest
<1> SUFFICES ASSUME IInv, at \in {"sum", "done"}
             PROVE  ToSet(highest) = HighestOf(DOMAIN list)
    BY DEF ReturnsHighest
<1> DEFINE All == DOMAIN list
<1>1. 1 .. i - 1 = All
      BY DEF IInv, TypeOK
<1>2. ToSet(highest) = {highest[j] : j \in DOMAIN highest}
      BY DEF ToSet
<1>3. \A j \in DOMAIN highest : highest[j] \in Directories(All)
      BY CandidateType DEF IInv, Antichain, Directories
<1>4. \A p \in Directories(All) : \E j \in DOMAIN highest : p = highest[j] \/ Below(p, highest[j])
      BY <1>1 DEF IInv, Covered
<1>5. ASSUME NEW p \in HighestOf(All)
      PROVE  p \in ToSet(highest)
  <2>1. PICK j \in DOMAIN highest : p = highest[j] \/ Below(p, highest[j])
        BY <1>4 DEF HighestOf
  <2>2. ~Below(p, highest[j])
        BY <1>3 DEF HighestOf
  <2>   QED  BY <1>2, <2>1, <2>2
<1>6. ASSUME NEW j \in DOMAIN highest
      PROVE  highest[j] \in HighestOf(All)
  <2> SUFFICES ASSUME NEW d \in Directories(All), Below(highest[j], d)
               PROVE  FALSE
      BY <1>3 DEF HighestOf
  <2>1. PICK k \in DOMAIN highest : d = highest[k] \/ Below(d, highest[k])
        BY <1>4
  <2>2. highest[j] \in All /\ d \in All /\ highest[k] \in All
        BY <1>3 DEF Directories
  <2>3. Below(highest[j], highest[k])
        BY <2>1, <2>2, BelowTransitive DEF IInv, TypeOK
  <2>   QED  BY <2>3 DEF IInv, Antichain
<1>   QED  BY <1>2, <1>5, <1>6

(* Whatever the list and its order, getHighestQuotas returns exactly the
   directory quotas that are below no other. *)
THEOREM Highest == Spec => []ReturnsHighest
<1>   QED  BY Inductive, InvReturnsHighest, PTL
-----------------------------------------------------------------------------
(* Sums.  First is the element a fold takes out of a set; IsSum says of a
   function F that it gives each subset of S the sum of f over it. *)
First(s) == CHOOSE x \in s : TRUE

IsSum(F, S, f) ==
    F = [s \in SUBSET S |-> IF s = {} THEN 0 ELSE f[First(s)] + F[s \ {First(s)}]]

SumOf(f, S) == (CHOOSE F : IsSum(F, S, f))[S]

(* Induction over the subsets of a finite set, for a property given as the set
   of the subsets that have it: a smallest subset without it has it. *)
LEMMA SubsetInduction ==
    ASSUME NEW S, IsFiniteSet(S), NEW Q,
           \A T \in SUBSET S : (\A U \in (SUBSET T) \ {T} : U \in Q) => T \in Q
    PROVE  S \in Q
<1> SUFFICES ASSUME S \notin Q PROVE FALSE
    OBVIOUS
<1> DEFINE Bad == {T \in SUBSET S : T \notin Q}
           R   == StrictSubsetOrdering(S)
<1>1. Bad \subseteq FiniteSubsetsOf(S) /\ Bad # {}
      BY FS_Subset DEF FiniteSubsetsOf
<1>2. IsWellFoundedOn(R, FiniteSubsetsOf(S))
      BY FS_StrictSubsetOrderingWellFounded
<1>3. PICK T \in Bad : \A U \in Bad : <<U, T>> \notin R
  <2> HIDE DEF Bad, R
  <2>   QED  BY <1>1, <1>2, WFMin
<1>4. \A U \in (SUBSET T) \ {T} : U \in Q
      BY <1>3 DEF StrictSubsetOrdering
<1>   QED  BY <1>3, <1>4

(* Two such functions agree where both are defined. *)
LEMMA SumsAgree ==
    ASSUME NEW S, IsFiniteSet(S), NEW U \in SUBSET S, NEW f, NEW F, NEW G,
           IsSum(F, S, f), IsSum(G, U, f)
    PROVE  F[U] = G[U]
<1> DEFINE Q == {T \in SUBSET U : F[T] = G[T]}
<1>1. IsFiniteSet(U)
      BY FS_Subset
<1>2. ASSUME NEW T \in SUBSET U, \A V \in (SUBSET T) \ {T} : V \in Q
      PROVE  T \in Q
  <2>1. T \in SUBSET S
        OBVIOUS
  <2>2. CASE T = {}
        BY <2>1, <2>2 DEF IsSum
  <2>3. CASE T # {}
    <3> DEFINE x == First(T)
    <3>1. x \in T
          BY <2>3 DEF First
    <3>2. F[T] = f[x] + F[T \ {x}] /\ G[T] = f[x] + G[T \ {x}]
          BY <2>1, <2>3 DEF IsSum
    <3> HIDE DEF x
    <3>3. T \ {x} \in Q
          BY <1>2, <3>1
    <3>   QED  BY <3>2, <3>3
  <2>   QED  BY <2>2, <2>3
<1> HIDE DEF Q
<1>3. U \in Q
      BY <1>1, <1>2, SubsetInduction
<1>   QED  BY <1>3 DEF Q

(* The sum of a set is an element and the sum of the rest, as long as the
   subsets have such functions. *)
LEMMA SumOfRest ==
    ASSUME NEW T, IsFiniteSet(T), NEW f, \A V \in SUBSET T : \E F : IsSum(F, V, f)
    PROVE  SumOf(f, T) = IF T = {} THEN 0 ELSE f[First(T)] + SumOf(f, T \ {First(T)})
<1>1. PICK G : IsSum(G, T, f)
      OBVIOUS
<1>2. \A V \in SUBSET T : SumOf(f, V) = G[V]
  <2> TAKE V \in SUBSET T
  <2> DEFINE H == CHOOSE F : IsSum(F, V, f)
  <2>1. IsSum(H, V, f)
        OBVIOUS
  <2> HIDE DEF H
  <2>2. G[V] = H[V]
        BY <1>1, <2>1, SumsAgree
  <2>   QED  BY <2>2 DEF SumOf, H
<1>3. G[T] = IF T = {} THEN 0 ELSE f[First(T)] + G[T \ {First(T)}]
      BY <1>1 DEF IsSum
<1>   QED  BY <1>2, <1>3

(* Every finite set has such a function: a smallest one without it would have
   the sums of its proper subsets, and so its own. *)
LEMMA SumExists ==
    ASSUME NEW S, IsFiniteSet(S), NEW f
    PROVE  \E F : IsSum(F, S, f)
<1> DEFINE Q == {T \in SUBSET S : \E F : IsSum(F, T, f)}
<1>1. ASSUME NEW T \in SUBSET S, \A V \in (SUBSET T) \ {T} : V \in Q
      PROVE  T \in Q
  <2> DEFINE Rest(V) == IF V = {} THEN 0 ELSE f[First(V)] + SumOf(f, V \ {First(V)})
             F       == [V \in SUBSET T |-> Rest(V)]
  <2>1. ASSUME NEW V \in SUBSET T, V # T
        PROVE  SumOf(f, V) = Rest(V)
    <3>1. IsFiniteSet(V)
          BY FS_Subset
    <3>2. \A W \in SUBSET V : \E G : IsSum(G, W, f)
          BY <1>1, <2>1
    <3>   QED  BY <3>1, <3>2, SumOfRest
  <2>2. ASSUME NEW V \in SUBSET T
        PROVE  F[V] = IF V = {} THEN 0 ELSE f[First(V)] + F[V \ {First(V)}]
    <3>1. CASE V = {}
          BY <3>1
    <3>2. CASE V # {}
      <4>1. First(V) \in V
            BY <3>2 DEF First
      <4>2. V \ {First(V)} \in SUBSET T /\ V \ {First(V)} # T
            BY <4>1
      <4>3. F[V \ {First(V)}] = SumOf(f, V \ {First(V)})
        <5>1. F[V \ {First(V)}] = Rest(V \ {First(V)})
              BY <4>2
        <5> HIDE DEF Rest, F
        <5>   QED  BY <2>1, <4>2, <5>1
      <4>   QED  BY <3>2, <4>3
    <3>   QED  BY <3>1, <3>2
  <2>3. F = [V \in SUBSET T |-> F[V]]
        OBVIOUS
  <2> HIDE DEF F
  <2>4. IsSum(F, T, f)
        BY <2>2, <2>3 DEF IsSum
  <2>   QED  BY <2>4
<1> HIDE DEF Q
<1>2. S \in Q
      BY <1>1, SubsetInduction
<1>   QED  BY <1>2 DEF Q

(* What the fold's recursion says, without its hypothesis. *)
LEMMA SumStep ==
    ASSUME NEW T, IsFiniteSet(T), NEW f
    PROVE  SumOf(f, T) = IF T = {} THEN 0 ELSE f[First(T)] + SumOf(f, T \ {First(T)})
<1>1. \A V \in SUBSET T : \E F : IsSum(F, V, f)
      BY FS_Subset, SumExists
<1>   QED  BY <1>1, SumOfRest

LEMMA SumType ==
    ASSUME NEW S, IsFiniteSet(S), NEW f, \A x \in S : f[x] \in Nat
    PROVE  SumOf(f, S) \in Nat
<1> DEFINE Q == {T \in SUBSET S : SumOf(f, T) \in Nat}
<1>1. ASSUME NEW T \in SUBSET S, \A V \in (SUBSET T) \ {T} : V \in Q
      PROVE  T \in Q
  <2>1. SumOf(f, T) = IF T = {} THEN 0 ELSE f[First(T)] + SumOf(f, T \ {First(T)})
        BY FS_Subset, SumStep
  <2>2. ASSUME T # {}
        PROVE  f[First(T)] \in Nat /\ SumOf(f, T \ {First(T)}) \in Nat
    <3>1. First(T) \in T
          BY <2>2 DEF First
    <3>   QED  BY <1>1, <3>1
  <2>   QED  BY <2>1, <2>2
<1> HIDE DEF Q
<1>2. S \in Q
      BY <1>1, SubsetInduction
<1>   QED  BY <1>2 DEF Q

(* It does not matter which element is taken out first. *)
LEMMA SumOfAny ==
    ASSUME NEW S, IsFiniteSet(S), NEW f, \A x \in S : f[x] \in Nat, NEW e \in S
    PROVE  SumOf(f, S) = f[e] + SumOf(f, S \ {e})
<1> DEFINE Q == {T \in SUBSET S : \A x \in T : SumOf(f, T) = f[x] + SumOf(f, T \ {x})}
<1>1. ASSUME NEW T \in SUBSET S, \A V \in (SUBSET T) \ {T} : V \in Q, NEW x \in T
      PROVE  SumOf(f, T) = f[x] + SumOf(f, T \ {x})
  <2> DEFINE y == First(T)
  <2>1. y \in T
        BY DEF First
  <2>2. IsFiniteSet(T)
        BY FS_Subset
  <2>3. SumOf(f, T) = f[y] + SumOf(f, T \ {y})
        BY <2>2, SumStep
  <2> HIDE DEF y
  <2>4. CASE x = y
        BY <2>3, <2>4
  <2>5. CASE x # y
    <3>1. SumOf(f, T \ {y}) = f[x] + SumOf(f, (T \ {y}) \ {x})
          BY <1>1, <2>1, <2>5
    <3>2. SumOf(f, T \ {x}) = f[y] + SumOf(f, (T \ {x}) \ {y})
          BY <1>1, <2>1, <2>5
    <3>3. (T \ {y}) \ {x} = (T \ {x}) \ {y}
          OBVIOUS
    <3>4. SumOf(f, (T \ {x}) \ {y}) \in Nat
      <4>1. (T \ {x}) \ {y} \in SUBSET S
            OBVIOUS
      <4>   QED  BY <4>1, FS_Subset, SumType
    <3>5. f[x] \in Nat /\ f[y] \in Nat
          BY <2>1
    <3>   QED  BY <2>3, <3>1, <3>2, <3>3, <3>4, <3>5
  <2>   QED  BY <2>4, <2>5
<1> HIDE DEF Q
<1>2. ASSUME NEW T \in SUBSET S, \A V \in (SUBSET T) \ {T} : V \in Q
      PROVE  T \in Q
  <2>1. \A V \in (SUBSET T) \ {T} : V \in Q
        BY <1>2
  <2>   QED  BY <1>1, <2>1 DEF Q
<1>3. S \in Q
      BY <1>2, SubsetInduction
<1>   QED  BY <1>3 DEF Q

(* A sum over indices that name each element once is the sum of the elements. *)
LEMMA SumOfNamed ==
    ASSUME NEW S, IsFiniteSet(S), NEW R, IsFiniteSet(R), NEW b \in [S -> R],
           \A x, y \in S : b[x] = b[y] => x = y,
           NEW f, NEW g, \A x \in S : f[x] = g[b[x]], \A r \in R : g[r] \in Nat
    PROVE  SumOf(f, S) = SumOf(g, {b[x] : x \in S})
<1> DEFINE Image(T) == {b[x] : x \in T}
           Q        == {T \in SUBSET S : SumOf(f, T) = SumOf(g, Image(T))}
<1>1. ASSUME NEW T \in SUBSET S, \A V \in (SUBSET T) \ {T} : V \in Q
      PROVE  SumOf(f, T) = SumOf(g, Image(T))
  <2> DEFINE e == First(T)
  <2>1. IsFiniteSet(T)
        BY FS_Subset
  <2>2. CASE T = {}
    <3>1. Image(T) = {}
          BY <2>2
    <3>2. SumOf(f, {}) = 0 /\ SumOf(g, {}) = 0
          BY FS_EmptySet, SumStep
    <3>   QED  BY <2>2, <3>1, <3>2
  <2>3. CASE T # {}
    <3>1. e \in T
          BY <2>3 DEF First
    <3>2. SumOf(f, T) = f[e] + SumOf(f, T \ {e})
          BY <2>1, <2>3, SumStep
    <3> HIDE DEF e
    <3>3. SumOf(f, T \ {e}) = SumOf(g, Image(T \ {e}))
          BY <1>1, <3>1
    <3>4. Image(T \ {e}) = Image(T) \ {b[e]}
          BY <3>1
    <3>5. Image(T) \in SUBSET R /\ b[e] \in Image(T)
          BY <3>1
    <3>6. IsFiniteSet(Image(T)) /\ \A r \in Image(T) : g[r] \in Nat
          BY <3>5, FS_Subset
    <3>7. SumOf(g, Image(T)) = g[b[e]] + SumOf(g, Image(T) \ {b[e]})
      <4> HIDE DEF Image
      <4>   QED  BY <3>5, <3>6, SumOfAny
    <3>   QED  BY <3>1, <3>2, <3>3, <3>4, <3>7
  <2>   QED  BY <2>2, <2>3
<1>2. ASSUME NEW T \in SUBSET S, \A V \in (SUBSET T) \ {T} : V \in Q
      PROVE  T \in Q
  <2>1. SumOf(f, T) = SumOf(g, Image(T))
    <3> HIDE DEF Q
    <3>   QED  BY <1>1, <1>2
  <2>   QED  BY <2>1
<1> HIDE DEF Q
<1>3. S \in Q
      BY <1>2, SubsetInduction
<1>   QED  BY <1>3 DEF Q

-----------------------------------------------------------------------------
(* The folds of the two totals are such sums: the code's over the candidates,
   the definition's over a set of positions. *)
LEMMA TotalIsSum ==
    Total = SumOf([j \in DOMAIN highest |-> list[highest[j]].hard], DOMAIN highest)
<1>   QED  BY DEF Total, FoldSeq, FoldFunction, FoldFunctionOnSet, MapThenFoldSet,
                  SumOf, IsSum, First

Hard        == [p \in DOMAIN list |-> list[p].hard]
CountedOnce == \A t \in metric : t = SumOf(Hard, HighestOf(DOMAIN list))

LEMMA DefinitionIsSum == TotalCountsOnce <=> CountedOnce
<1> DEFINE S == HighestOf(DOMAIN list)
<1>1. S \subseteq DOMAIN list
      BY DEF HighestOf, Directories
<1> HIDE DEF S
<1>2. MapThenSumSet(LAMBDA p : list[p].hard, S) = SumOf(Hard, S)
      BY <1>1 DEF MapThenSumSet, MapThenFoldSet, SumOf, IsSum, First, Hard
<1>   QED  BY <1>2 DEF S, TotalCountsOnce, CountedOnce

(* The loop over the candidates adds what the definition adds. *)
LEMMA TotalOfHighest ==
    ASSUME IInv, at = "sum"
    PROVE  Total = SumOf(Hard, HighestOf(DOMAIN list))
<1> DEFINE J == DOMAIN highest
           f == [j \in J |-> list[highest[j]].hard]
<1>1. /\ list \in Seq(Quota)
      /\ Len(list) \in Nat
      /\ DOMAIN list = 1 .. Len(list)
      /\ Len(highest) \in Nat
      /\ J = 1 .. Len(highest)
      /\ \A j \in J : highest[j] \in DOMAIN list
      BY CandidateType DEF IInv, TypeOK
<1>2. IsFiniteSet(J) /\ IsFiniteSet(DOMAIN list)
      BY <1>1, FS_Interval
<1>3. highest \in [J -> DOMAIN list]
      BY <1>1 DEF IInv, TypeOK
<1>4. \A j, k \in J : highest[j] = highest[k] => j = k
      BY <1>1 DEF IInv, Ordered
<1>5. \A p \in DOMAIN list : Hard[p] \in Nat
  <2> TAKE p \in DOMAIN list
  <2>1. list[p] \in Quota
        BY <1>1
  <2>   QED  BY <2>1 DEF Hard, Quota
<1>6. \A j \in J : f[j] = Hard[highest[j]]
      BY <1>1 DEF Hard
<1> HIDE DEF J, f
<1>7. SumOf(f, J) = SumOf(Hard, {highest[j] : j \in J})
      BY <1>2, <1>3, <1>4, <1>5, <1>6, SumOfNamed
<1>8. {highest[j] : j \in J} = HighestOf(DOMAIN list)
      BY InvReturnsHighest DEF J, ReturnsHighest, ToSet
<1>9. Total = SumOf(f, J)
      BY TotalIsSum DEF f, J
<1>   QED  BY <1>7, <1>8, <1>9

(* The one step that reports a total reports this one; no other changes it. *)
LEMMA CountedOnceStep ==
    ASSUME IInv, CountedOnce, [Next]_vars
    PROVE  CountedOnce'
<1>1. ASSUME list' = list
      PROVE  Hard' = Hard /\ HighestOf(DOMAIN list)' = HighestOf(DOMAIN list)
      BY <1>1, SameBelow DEF Hard, HighestOf
<1>2. ASSUME list' = list, metric' = metric
      PROVE  CountedOnce'
      BY <1>1, <1>2 DEF CountedOnce
<1>3. CASE SendTotal
  <2>1. \A t \in metric' : t = SumOf(Hard, HighestOf(DOMAIN list))
        BY <1>3, TotalOfHighest DEF SendTotal
  <2>   QED  BY <1>1, <1>3, <2>1 DEF SendTotal, CountedOnce
<1>4. CASE ~SendTotal
      BY <1>2, <1>4 DEF Next, vars, SkipQuota, TakeQuota, RemoveCandidate, SubLevel,
         NextCandidate, AppendQuota, ReturnHighest
<1>   QED  BY <1>3, <1>4

(* Whatever the list and its order, the limit a cluster reports is the sum of
   the limits of its highest quotas, each taken once. *)
THEOREM TotalCounted == Spec => []TotalCountsOnce
<1>1. Init => CountedOnce
      BY DEF Init, CountedOnce
<1>   QED  BY <1>1, Inductive, CountedOnceStep, DefinitionIsSum, PTL DEF Spec
=============================================================================
