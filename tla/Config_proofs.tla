---------------------------- MODULE Config_proofs ----------------------------
(***************************************************************************)
(* Proofs about Config, for any credentials files, settings and drivers,   *)
(* and any number of changes.                                              *)
(***************************************************************************)
EXTENDS Config, FiniteSetTheorems, SequenceTheorems, TLAPS

USE DEF fileVars, localVars, fieldVars, eventVars, Watchers, Updaters, Busy

(* SetToSeq lists a finite set. *)
LEMMA SetToSeqLemma ==
    ASSUME NEW S, IsFiniteSet(S)
    PROVE  /\ Cardinality(S) \in Nat
           /\ SetToSeq(S) \in [1..Cardinality(S) -> S]
           /\ Len(SetToSeq(S)) = Cardinality(S)
           /\ \A s \in S : \E k \in 1..Cardinality(S) : SetToSeq(S)[k] = s
<1>1. Cardinality(S) \in Nat /\ ExistsBijection(1..Cardinality(S), S)
  BY FS_CardinalityType
<1>2. PICK b \in [1..Cardinality(S) -> S] : IsInjective(b)
  BY <1>1 DEF ExistsBijection, Bijection, Injection, IsInjective
<1>3. SetToSeq(S) \in [1..Cardinality(S) -> S] /\ IsInjective(SetToSeq(S))
  BY <1>2 DEF SetToSeq
<1>4. SetToSeq(S) \in Injection(1..Cardinality(S), S)
  BY <1>3 DEF Injection, IsInjective
<1>5. SetToSeq(S) \in Surjection(1..Cardinality(S), S)
  <2>1. Cardinality(1..Cardinality(S)) = Cardinality(S)
    BY <1>1, FS_Interval
  <2> QED
    BY <1>4, <2>1, FS_Injection
<1> QED
  BY <1>1, <1>3, <1>5 DEF Surjection

(* A file has finitely many names. *)
LEMMA NamesFinite ==
    ASSUME NEW f \in Files \union {NoFile}
    PROVE  IsFiniteSet(Names(f))
<1> DEFINE g == [e \in Entries(f) |-> f[e].name]
<1>1. IsFiniteSet(DOMAIN f)
  BY FilesAssumption, FS_EmptySet DEF NoFile
<1>2. IsFiniteSet(Entries(f))
  BY <1>1, FS_Subset DEF Entries
<1>3. g \in Surjection(Entries(f), Names(f))
  BY DEF Surjection, Names
<1> QED
  BY <1>2, <1>3, FS_Surjection

(* The cluster names of a reading: blank entries, then the clusters. *)
LEMMA ClusterNamesLemma ==
    ASSUME NEW f \in Files \union {NoFile}
    PROVE  /\ ClusterNamesOf(f) \in Seq(Name)
           /\ \A k \in DOMAIN ClusterNamesOf(f) :
                  ClusterNamesOf(f)[k].id \in Names(f) \union {NoName}
           /\ \A c \in Names(f) : \E k \in DOMAIN ClusterNamesOf(f) :
                  ClusterNamesOf(f)[k].id = c
<1> DEFINE known == SetToSeq(Names(f))
           N     == Len(known)
           of(k) == IF k <= N
                    THEN [id |-> NoName, default |-> FALSE, drivers |-> {}]
                    ELSE [id |-> known[k - N], default |-> IsDefault(f, known[k - N]),
                          drivers |-> {}]
<1>1. /\ N \in Nat /\ known \in [1..N -> Names(f)]
      /\ \A c \in Names(f) : \E k \in 1..N : known[k] = c
  BY NamesFinite, SetToSeqLemma
<1>2. ClusterNamesOf(f) = [k \in 1..2 * N |-> of(k)]
  BY DEF ClusterNamesOf
<1>3. Names(f) \subseteq (UNION {Names(e) : e \in Files}) \union {NoName}
  BY DEF Names, Entries, NoFile
<1>4. \A x : IsDefault(f, x) \in BOOLEAN
  BY DEF IsDefault
<1> HIDE DEF known, N
<1>5. \A k \in 1..2 * N : ~(k <= N) => k - N \in 1..N
  BY <1>1
<1>6. ASSUME NEW k \in 1..2 * N
      PROVE  of(k) \in Name /\ of(k).id \in Names(f) \union {NoName}
  <2>1. CASE k <= N
    BY <2>1 DEF Name
  <2>2. CASE ~(k <= N)
    <3>1. known[k - N] \in Names(f)
      BY <1>1, <1>5, <2>2
    <3> QED
      BY <1>3, <1>4, <2>2, <3>1 DEF Name
  <2> QED
    BY <2>1, <2>2
<1>7. ClusterNamesOf(f) \in Seq(Name)
  <2>1. 2 * N \in Nat
    BY <1>1
  <2>2. ClusterNamesOf(f) \in [1..2 * N -> Name]
    BY <1>2, <1>6
  <2> QED
    BY <2>1, <2>2, SeqDef
<1>8. ASSUME NEW c \in Names(f)
      PROVE  \E k \in 1..2 * N : of(k).id = c
  <2>1. PICK k \in 1..N : known[k] = c
    BY <1>1
  <2>2. k + N \in 1..2 * N /\ of(k + N).id = c
    BY <1>1, <2>1
  <2> QED
    BY <2>2
<1> HIDE DEF of
<1>9. DOMAIN ClusterNamesOf(f) = 1..2 * N
       /\ \A k \in 1..2 * N : ClusterNamesOf(f)[k] = of(k)
  BY <1>2
<1> QED
  BY <1>6, <1>7, <1>8, <1>9

(* The drivers of a sequence of cluster names. *)
LEMMA NameDrivers ==
    \A s \in Seq(Name) : \A k \in DOMAIN s : s[k].drivers \subseteq Drivers
<1> SUFFICES ASSUME NEW s \in Seq(Name), NEW k \in DOMAIN s
             PROVE  s[k].drivers \subseteq Drivers
  OBVIOUS
<1>1. s[k] \in Name
  BY LenProperties
<1> QED
  BY <1>1 DEF Name

(* A turn of the loop changes one entry's drivers, or panics. *)
LEMMA TurnLemma ==
    ASSUME IInv, NEW p \in Updaters, SetClusterDriverNames(p)
    PROVE  /\ clusterNames' \in Seq(Name)
           /\ Len(clusterNames') = Len(clusterNames)
           /\ i' = [i EXCEPT ![p] = i[p] + 1] \/ (i' = i /\ clusterNames' = clusterNames)
           /\ ended' = "panic" => ~(i[p] <= Len(clusterNames))
           /\ ~(i[p] <= Len(clusterNames)) => clusterNames' = clusterNames
           /\ \A k \in DOMAIN clusterNames :
                  /\ clusterNames'[k].id = clusterNames[k].id
                  /\ clusterNames'[k].default = clusterNames[k].default
                  /\ clusterNames'[k].drivers
                       = IF k = i[p] THEN names[p] ELSE clusterNames[k].drivers
<1> USE DEF IInv, StepInv
<1>1. /\ Len(clusterNames) \in Nat /\ i[p] \in Nat
      /\ clusterNames \in [1..Len(clusterNames) -> Name]
  BY LenProperties
<1>2. names[p] \in SUBSET Drivers
  BY DEF TypeOK
<1>3. ended = "no"
  BY DEF SetClusterDriverNames, Step
<1>4. CASE i[p] <= Len(clusterNames)
  <2>1. clusterNames' = [clusterNames EXCEPT ![i[p]].drivers = names[p]]
    BY <1>4 DEF SetClusterDriverNames
  <2>2. i' = [i EXCEPT ![p] = i[p] + 1] /\ ended' = "no"
    BY <1>3, <1>4 DEF SetClusterDriverNames
  <2>3. CASE i[p] = 0
    <3>1. clusterNames' = clusterNames
      BY <1>1, <2>1, <2>3
    <3> QED
      BY <1>1, <1>4, <2>2, <2>3, <3>1
  <2>4. CASE i[p] # 0
    <3> DEFINE r == [clusterNames[i[p]] EXCEPT !.drivers = names[p]]
    <3>1. i[p] \in 1..Len(clusterNames)
      BY <1>1, <1>4, <2>4
    <3>2. clusterNames[i[p]] \in Name
      BY <1>1, <3>1
    <3>3. /\ r \in Name
          /\ r.id = clusterNames[i[p]].id /\ r.default = clusterNames[i[p]].default
          /\ r.drivers = names[p]
      BY <1>2, <3>2 DEF Name
    <3>4. clusterNames' = [clusterNames EXCEPT ![i[p]] = r]
      BY <2>1
    <3> HIDE DEF r
    <3>5. clusterNames' \in Seq(Name) /\ Len(clusterNames') = Len(clusterNames)
      BY <3>1, <3>3, <3>4, ExceptSeq
    <3>6. \A k \in DOMAIN clusterNames :
             clusterNames'[k] = IF k = i[p] THEN r ELSE clusterNames[k]
      BY <1>1, <3>4
    <3> QED
      BY <1>4, <2>2, <3>3, <3>5, <3>6
  <2> QED
    BY <2>3, <2>4
<1>5. CASE ~(i[p] <= Len(clusterNames))
  BY <1>1, <1>5 DEF SetClusterDriverNames
<1> QED
  BY <1>4, <1>5

(* The types of the loops and of the cluster names are preserved. *)
LEMMA StepStep ==
    ASSUME IInv, [Next]_vars
    PROVE  StepInv'
<1> USE DEF IInv, TypeOK, StepInv
<1>1. CASE EditCredentials
  BY <1>1 DEF EditCredentials, Notify, Notified
<1>2. CASE EditSettings
  BY <1>2 DEF EditSettings, Notify, Notified
<1>3. ASSUME NEW w \in Watchers, Wake(w) PROVE StepInv'
  BY <1>3 DEF Wake
<1>4. ASSUME NEW p \in Updaters, ApplySettings(p) PROVE StepInv'
  BY <1>4 DEF ApplySettings, Step, Check
<1>5. ASSUME NEW p \in Updaters, ReadClusters(p) PROVE StepInv'
  BY <1>5 DEF ReadClusters, Step, Check
<1>6. ASSUME NEW p \in Updaters, SetClusterNames(p) PROVE StepInv'
  BY <1>6, ClusterNamesLemma DEF SetClusterNames, Step
<1>7. ASSUME NEW p \in Updaters, SetPowerScaleClients(p) PROVE StepInv'
  BY <1>7 DEF SetPowerScaleClients, Step
<1>8. ASSUME NEW p \in Updaters, SetClientIsiPaths(p) PROVE StepInv'
  BY <1>8 DEF SetClientIsiPaths, Step
<1>9. ASSUME NEW p \in Updaters, SetDefaultPowerScaleCluster(p) PROVE StepInv'
  BY <1>9 DEF SetDefaultPowerScaleCluster, Step
<1>10. ASSUME NEW p \in Updaters, ReadProvisionerNames(p) PROVE StepInv'
  BY <1>10 DEF ReadProvisionerNames, Step, Check
<1>11. ASSUME NEW p \in Updaters, SetDriverNames(p) PROVE StepInv'
  BY <1>11 DEF SetDriverNames, Step
<1>12. ASSUME NEW p \in Updaters, RangeClusterNames(p) PROVE StepInv'
  BY <1>12, LenProperties DEF RangeClusterNames, Step, Turns
<1>13. ASSUME NEW p \in Updaters, SetClusterDriverNames(p) PROVE StepInv'
  <2>1. /\ clusterNames' \in Seq(Name) /\ i' \in [Updaters -> Nat]
    BY <1>13, TurnLemma
  <2> QED
    BY <1>13, <2>1 DEF SetClusterDriverNames, Step
<1>14. ASSUME NEW p \in Updaters, UpdateService(p) PROVE StepInv'
  BY <1>14 DEF UpdateService, Finish, Step, Check
<1>15. CASE ReturnConnection
  BY <1>15 DEF ReturnConnection, Finish, Step
<1>16. CASE UNCHANGED vars
  BY <1>16 DEF vars
<1> QED
  BY <1>1, <1>2, <1>3, <1>4, <1>5, <1>6, <1>7, <1>8, <1>9, <1>10,
     <1>11, <1>12, <1>13, <1>14, <1>15, <1>16 DEF Next, Update

(* Types are preserved. *)
LEMMA TypeStep ==
    ASSUME IInv, [Next]_vars
    PROVE  TypeOK'
<1> USE DEF IInv, TypeOK, StepInv, UpdateInv
<1>1. CASE EditCredentials
  BY <1>1, MaxEditsAssumption DEF EditCredentials, Notify, Notified
<1>2. CASE EditSettings
  BY <1>2, MaxEditsAssumption DEF EditSettings, Notify, Notified
<1>3. ASSUME NEW w \in Watchers, Wake(w) PROVE TypeOK'
  <2>1. at["main"] = "done"
    BY <1>3 DEF Wake
  <2> QED
    BY <1>3, <2>1 DEF Wake
<1>4. ASSUME NEW p \in Updaters, ApplySettings(p) PROVE TypeOK'
  BY <1>4 DEF ApplySettings, Step, Check
<1>5. ASSUME NEW p \in Updaters, ReadClusters(p) PROVE TypeOK'
  BY <1>5 DEF ReadClusters, Step, Check
<1>6. ASSUME NEW p \in Updaters, SetClusterNames(p) PROVE TypeOK'
  <2>1. \A k \in DOMAIN clusterNames' : clusterNames'[k].drivers \subseteq Drivers
    BY StepStep, NameDrivers DEF StepInv
  <2> QED
    BY <1>6, <2>1 DEF SetClusterNames, Step
<1>7. ASSUME NEW p \in Updaters, SetPowerScaleClients(p) PROVE TypeOK'
  BY <1>7 DEF SetPowerScaleClients, Step
<1>8. ASSUME NEW p \in Updaters, SetClientIsiPaths(p) PROVE TypeOK'
  BY <1>8 DEF SetClientIsiPaths, Step
<1>9. ASSUME NEW p \in Updaters, SetDefaultPowerScaleCluster(p) PROVE TypeOK'
  BY <1>9 DEF SetDefaultPowerScaleCluster, Step
<1>10. ASSUME NEW p \in Updaters, ReadProvisionerNames(p) PROVE TypeOK'
  BY <1>10, SettingsAssumption DEF ReadProvisionerNames, Step, Check
<1>11. ASSUME NEW p \in Updaters, SetDriverNames(p) PROVE TypeOK'
  BY <1>11 DEF SetDriverNames, Step
<1>12. ASSUME NEW p \in Updaters, RangeClusterNames(p) PROVE TypeOK'
  BY <1>12 DEF RangeClusterNames, Step
<1>13. ASSUME NEW p \in Updaters, SetClusterDriverNames(p) PROVE TypeOK'
  <2>1. \A k \in DOMAIN clusterNames' : clusterNames'[k].drivers \subseteq Drivers
    BY StepStep, NameDrivers DEF StepInv
  <2> QED
    BY <1>13, <2>1 DEF SetClusterDriverNames, Step
<1>14. ASSUME NEW p \in Updaters, UpdateService(p) PROVE TypeOK'
  BY <1>14 DEF UpdateService, Finish, Step, Check
<1>15. CASE ReturnConnection
  BY <1>15 DEF ReturnConnection, Finish, Step
<1>16. CASE UNCHANGED vars
  BY <1>16 DEF vars
<1> QED
  BY <1>1, <1>2, <1>3, <1>4, <1>5, <1>6, <1>7, <1>8, <1>9, <1>10,
     <1>11, <1>12, <1>13, <1>14, <1>15, <1>16 DEF Next, Update

(* A loop that is alone counts the slice that is there. *)
LEMMA AloneStep ==
    ASSUME IInv, [Next]_vars
    PROVE  AloneInv' /\ PanicOnlyOnOverlap'
<1> USE DEF IInv, TypeOK, StepInv, AloneInv, PanicOnlyOnOverlap
<1>1. CASE EditCredentials
  BY <1>1 DEF EditCredentials, Notify, Notified
<1>2. CASE EditSettings
  BY <1>2 DEF EditSettings, Notify, Notified
<1>3. ASSUME NEW w \in Watchers, Wake(w) PROVE AloneInv' /\ PanicOnlyOnOverlap'
  <2>1. PICK s \in {"settings", "read"} : at' = [at EXCEPT ![w] = s]
    BY <1>3 DEF Wake
  <2>2. ended = "no" /\ ended' = "no" /\ at[w] = "idle"
    BY <1>3 DEF Wake
  <2>3. ~overlap' => \A q \in Updaters : at[q] \in {"idle", "done"}
    BY <1>3 DEF Wake
  <2> QED
    BY <2>1, <2>2, <2>3
<1>4. ASSUME NEW p \in Updaters, ApplySettings(p)
      PROVE AloneInv' /\ PanicOnlyOnOverlap'
  BY <1>4 DEF ApplySettings, Step, Check
<1>5. ASSUME NEW p \in Updaters, ReadClusters(p)
      PROVE AloneInv' /\ PanicOnlyOnOverlap'
  BY <1>5 DEF ReadClusters, Step, Check
<1>6. ASSUME NEW p \in Updaters, SetClusterNames(p)
      PROVE AloneInv' /\ PanicOnlyOnOverlap'
  BY <1>6 DEF SetClusterNames, Step
<1>7. ASSUME NEW p \in Updaters, SetPowerScaleClients(p)
      PROVE AloneInv' /\ PanicOnlyOnOverlap'
  BY <1>7 DEF SetPowerScaleClients, Step
<1>8. ASSUME NEW p \in Updaters, SetClientIsiPaths(p)
      PROVE AloneInv' /\ PanicOnlyOnOverlap'
  BY <1>8 DEF SetClientIsiPaths, Step
<1>9. ASSUME NEW p \in Updaters, SetDefaultPowerScaleCluster(p)
      PROVE AloneInv' /\ PanicOnlyOnOverlap'
  BY <1>9 DEF SetDefaultPowerScaleCluster, Step
<1>10. ASSUME NEW p \in Updaters, ReadProvisionerNames(p)
       PROVE AloneInv' /\ PanicOnlyOnOverlap'
  BY <1>10 DEF ReadProvisionerNames, Step, Check
<1>11. ASSUME NEW p \in Updaters, SetDriverNames(p)
       PROVE AloneInv' /\ PanicOnlyOnOverlap'
  BY <1>11 DEF SetDriverNames, Step
<1>12. ASSUME NEW p \in Updaters, RangeClusterNames(p)
       PROVE AloneInv' /\ PanicOnlyOnOverlap'
  BY <1>12, LenProperties DEF RangeClusterNames, Step, Turns
<1>13. ASSUME NEW p \in Updaters, SetClusterDriverNames(p)
       PROVE AloneInv' /\ PanicOnlyOnOverlap'
  <2>1. /\ at[p] = "loop" /\ at' = at /\ i[p] <= n[p]
        /\ UNCHANGED <<n, overlap>>
    BY <1>13 DEF SetClusterDriverNames, Step
  <2>2. ~overlap => n[p] = Len(clusterNames) /\ i[p] \in 1..n[p] + 1
                      /\ \A q \in Busy : q = p
    BY <2>1
  <2>3. Len(clusterNames') = Len(clusterNames) /\ Len(clusterNames) \in Nat
    BY <1>13, TurnLemma, LenProperties
  <2>4. ~overlap => ended' # "panic" /\ i'[p] \in 1..n[p] + 1
    BY <1>13, <2>1, <2>2, <2>3 DEF SetClusterDriverNames
  <2> QED
    BY <2>1, <2>2, <2>3, <2>4
<1>14. ASSUME NEW p \in Updaters, UpdateService(p)
       PROVE AloneInv' /\ PanicOnlyOnOverlap'
  BY <1>14 DEF UpdateService, Finish, Step, Check
<1>15. CASE ReturnConnection
  BY <1>15 DEF ReturnConnection, Finish, Step
<1>16. CASE UNCHANGED vars
  BY <1>16 DEF vars
<1> QED
  BY <1>1, <1>2, <1>3, <1>4, <1>5, <1>6, <1>7, <1>8, <1>9, <1>10,
     <1>11, <1>12, <1>13, <1>14, <1>15, <1>16 DEF Next, Update

(* What an update has done, and what it leaves behind. *)
LEMMA UpdateStep ==
    ASSUME IInv, [Next]_vars
    PROVE  FreshSettings' /\ UpdateInv' /\ RestInv'
<1> USE DEF IInv, TypeOK, StepInv, AloneInv, FreshSettings, UpdateInv, RestInv, Fresh,
     Follow, UpToRead, UpToNames, UpToClients, UpToPaths, UpToDefault,
     UpToProvisioners, UpToDrivers
<1>1. CASE EditCredentials
  BY <1>1 DEF EditCredentials, Notify, Notified
<1>2. CASE EditSettings
  BY <1>2 DEF EditSettings, Notify, Notified
<1>3. ASSUME NEW w \in Watchers, Wake(w)
      PROVE FreshSettings' /\ UpdateInv' /\ RestInv'
  <2>1. FreshSettings'
    BY <1>3 DEF Wake
  <2>2. PICK s \in {"settings", "read"} : at' = [at EXCEPT ![w] = s]
    BY <1>3 DEF Wake
  <2>3. ~overlap' => \A q \in Updaters : at[q] \in {"idle", "done"}
    BY <1>3 DEF Wake
  <2>4. UpdateInv'
    BY <2>2, <2>3
  <2>5. RestInv'
    BY <2>2
  <2> QED
    BY <2>1, <2>4, <2>5
<1>4. ASSUME NEW p \in Updaters, ApplySettings(p)
      PROVE FreshSettings' /\ UpdateInv' /\ RestInv'
  BY <1>4 DEF ApplySettings, Step, Check
<1>5. ASSUME NEW p \in Updaters, ReadClusters(p)
      PROVE FreshSettings' /\ UpdateInv' /\ RestInv'
  <2>1. /\ at[p] = "read" /\ at' = [at EXCEPT ![p] = "names"]
        /\ file' = [file EXCEPT ![p] = credentials]
        /\ missed' = missed \ {"credentials"}
        /\ UNCHANGED <<credentials, settings, loaded, pending, overlap>>
    BY <1>5 DEF ReadClusters, Step
  <2>2. FreshSettings'
    BY <2>1
  <2>3. ~overlap => \A q \in Busy : q = p
    BY <2>1
  <2>4. ~overlap => \A q \in Updaters : q # p => at'[q] \in {"idle", "done"}
    BY <2>1, <2>3
  <2>5. file'[p] = credentials' /\ at'[p] = "names"
    BY <2>1
  <2>6. UpdateInv'
    <3>1. ~overlap' => \A q \in Busy' : q = p
      BY <2>1, <2>4
    <3>2. Fresh(file[p])'
      BY <2>5
    <3> HIDE DEF Fresh, Follow, IInv, Busy
    <3> QED
      BY <2>5, <3>1, <3>2
  <2>7. RestInv'
    BY <2>1
  <2> QED
    BY <2>2, <2>6, <2>7
<1>6. ASSUME NEW p \in Updaters, SetClusterNames(p)
      PROVE FreshSettings' /\ UpdateInv' /\ RestInv'
  BY <1>6 DEF SetClusterNames, Step
<1>7. ASSUME NEW p \in Updaters, SetPowerScaleClients(p)
      PROVE FreshSettings' /\ UpdateInv' /\ RestInv'
  BY <1>7 DEF SetPowerScaleClients, Step
<1>8. ASSUME NEW p \in Updaters, SetClientIsiPaths(p)
      PROVE FreshSettings' /\ UpdateInv' /\ RestInv'
  BY <1>8 DEF SetClientIsiPaths, Step
<1>9. ASSUME NEW p \in Updaters, SetDefaultPowerScaleCluster(p)
      PROVE FreshSettings' /\ UpdateInv' /\ RestInv'
  BY <1>9 DEF SetDefaultPowerScaleCluster, Step
<1>10. ASSUME NEW p \in Updaters, ReadProvisionerNames(p)
       PROVE FreshSettings' /\ UpdateInv' /\ RestInv'
  BY <1>10 DEF ReadProvisionerNames, Step, Check
<1>11. ASSUME NEW p \in Updaters, SetDriverNames(p)
       PROVE FreshSettings' /\ UpdateInv' /\ RestInv'
  BY <1>11 DEF SetDriverNames, Step
<1>12. ASSUME NEW p \in Updaters, RangeClusterNames(p)
       PROVE FreshSettings' /\ UpdateInv' /\ RestInv'
  BY <1>12 DEF RangeClusterNames, Step
<1>13. ASSUME NEW p \in Updaters, SetClusterDriverNames(p)
       PROVE FreshSettings' /\ UpdateInv' /\ RestInv'
  <2>1. /\ at[p] = "loop" /\ at' = at /\ i[p] <= n[p]
        /\ UNCHANGED <<credentials, settings, loaded, pending, missed, overlap,
                       file, names, clients, paths, default, drivers>>
    BY <1>13 DEF SetClusterDriverNames, Step
  <2>2. FreshSettings' /\ RestInv'
    BY <2>1
  <2>3. ASSUME ~overlap
        PROVE  /\ \A q \in Busy : q = p
               /\ n[p] = Len(clusterNames) /\ i[p] \in 1..n[p] + 1
    BY <2>1, <2>3
  <2>4. ASSUME ~overlap
        PROVE  /\ DOMAIN clusterNames' = DOMAIN clusterNames
               /\ \A k \in DOMAIN clusterNames :
                      /\ clusterNames'[k].id = clusterNames[k].id
                      /\ clusterNames'[k].default = clusterNames[k].default
                      /\ k < i'[p] => clusterNames'[k].drivers = loaded.drivers
    <3>1. names[p] = loaded.drivers
      BY <2>1, <2>4
    <3>2. i[p] <= Len(clusterNames) /\ Len(clusterNames) \in Nat
      BY <2>1, <2>3, <2>4, LenProperties
    <3>3. i' = [i EXCEPT ![p] = i[p] + 1]
      BY <1>13, <3>2 DEF SetClusterDriverNames
    <3>4. DOMAIN clusterNames' = DOMAIN clusterNames /\ DOMAIN clusterNames \subseteq Nat
      BY <1>13, TurnLemma, LenProperties
    <3>5. ASSUME NEW k \in DOMAIN clusterNames, k < i[p] + 1
          PROVE  clusterNames'[k].drivers = loaded.drivers
      <4>1. k < i[p] => clusterNames[k].drivers = loaded.drivers
        BY <2>1, <2>4
      <4>2. clusterNames'[k].drivers
              = IF k = i[p] THEN names[p] ELSE clusterNames[k].drivers
        BY <1>13, TurnLemma
      <4> QED
        BY <3>1, <3>4, <3>5, <4>1, <4>2
    <3> QED
      BY <1>13, <3>3, <3>4, <3>5, TurnLemma
  <2>5. UpdateInv'
    BY <2>1, <2>3, <2>4
  <2> QED
    BY <2>2, <2>5
<1>14. ASSUME NEW p \in Updaters, UpdateService(p)
       PROVE FreshSettings' /\ UpdateInv' /\ RestInv'
  BY <1>14 DEF UpdateService, Finish, Step, Check
<1>15. CASE ReturnConnection
  BY <1>15 DEF ReturnConnection, Finish, Step
<1>16. CASE UNCHANGED vars
  BY <1>16 DEF vars
<1> QED
  BY <1>1, <1>2, <1>3, <1>4, <1>5, <1>6, <1>7, <1>8, <1>9, <1>10,
     <1>11, <1>12, <1>13, <1>14, <1>15, <1>16 DEF Next, Update

(* The invariant holds in every state. *)
THEOREM Inductive == Spec => []IInv
<1>1. Init => IInv
  <2> SUFFICES ASSUME Init PROVE IInv
    OBVIOUS
  <2>1. TypeOK
    <3>1. Busy = {"main"} /\ DOMAIN clusterNames = {}
      BY DEF Init
    <3>2. /\ at \in [Updaters -> {"idle", "done", "settings", "read", "names",
                                   "clients", "paths", "default", "provisioners",
                                   "drivers", "range", "loop"}]
          /\ names \in [Updaters -> SUBSET Drivers]
          /\ file \in [Updaters -> Files \union {NoFile}]
      BY DEF Init
    <3>3. \A k \in DOMAIN clusterNames : clusterNames[k].drivers \subseteq Drivers
      BY <3>1
    <3>4. /\ edits \in 0..MaxEdits /\ loaded \in Settings
          /\ {clients, paths} \subseteq Files \union {NoFile}
      BY MaxEditsAssumption DEF Init
    <3> HIDE DEF Busy
    <3> QED
      BY <3>1, <3>2, <3>3, <3>4 DEF Init, TypeOK
  <2>2. StepInv
    BY EmptySeq DEF Init, StepInv
  <2>3. AloneInv /\ PanicOnlyOnOverlap
    BY DEF Init, AloneInv, PanicOnlyOnOverlap
  <2>4. FreshSettings /\ UpdateInv /\ RestInv
    BY DEF Init, FreshSettings, UpdateInv, RestInv, UpToRead, UpToNames, UpToClients,
       UpToPaths, UpToDefault, UpToProvisioners, UpToDrivers
  <2> QED
    BY <2>1, <2>2, <2>3, <2>4 DEF IInv
<1>2. IInv /\ [Next]_vars => IInv'
  BY TypeStep, StepStep, AloneStep, UpdateStep DEF IInv
<1> QED
  BY <1>1, <1>2, PTL DEF Spec

(* The fields and files stay within their types. *)
THEOREM TypeCorrect == Spec => []TypeOK
<1>1. IInv => TypeOK
  BY DEF IInv
<1> QED
  BY Inductive, <1>1, PTL

(* A watcher that updates alone never indexes past the cluster names. *)
THEOREM AloneIsSafe == Spec => []PanicOnlyOnOverlap
<1>1. IInv => PanicOnlyOnOverlap
  BY DEF IInv
<1> QED
  BY Inductive, <1>1, PTL

(* What holds of the fields when updates have settled. *)
LEMMA SettledLemma ==
    ASSUME IInv, Settled
    PROVE  /\ clients = credentials /\ paths = credentials
           /\ default = DefaultCluster(credentials)
           /\ drivers = settings.drivers
           /\ Follow(credentials)
           /\ \A k \in DOMAIN clusterNames :
                  clusterNames[k].drivers = settings.drivers
BY DEF IInv, Settled, RestInv, Fresh, FreshSettings

(* When updates have settled, every field is that of the files. *)
THEOREM FieldsFollow == Spec => []FieldsFollowFiles
<1>1. IInv => FieldsFollowFiles
  BY SettledLemma DEF FieldsFollowFiles
<1> QED
  BY Inductive, <1>1, PTL

(* When updates have settled, both finders look for the same drivers, and the
   classes that name a cluster are found exactly when it is a configured one. *)
THEOREM FindersFollow == Spec => []FindersAgree
<1>1. ASSUME IInv, Settled, NEW d \in Drivers, NEW c, c # NoName
      PROVE  IsMatch([provisioner |-> d, cluster |-> c])
                <=> /\ IsListed([claimed |-> TRUE, driver |-> d])
                    /\ c \in Names(credentials)
  <2> DEFINE class == [provisioner |-> d, cluster |-> c]
             of    == ClusterNamesOf(credentials)
  <2>1. /\ drivers = settings.drivers
        /\ DOMAIN clusterNames = DOMAIN of
        /\ \A k \in DOMAIN of : /\ clusterNames[k].id = of[k].id
                                /\ clusterNames[k].drivers = drivers
    BY <1>1, SettledLemma DEF Follow
  <2>2. credentials \in Files
    BY <1>1 DEF IInv, TypeOK
  <2>3. /\ \A k \in DOMAIN of : of[k].id \in Names(credentials) \union {NoName}
        /\ \A x \in Names(credentials) : \E k \in DOMAIN of : of[k].id = x
    BY <2>2, ClusterNamesLemma
  <2> HIDE DEF of
  <2>4. IsListed([claimed |-> TRUE, driver |-> d]) <=> d \in drivers
    BY DEF IsListed
  <2>5. IsMatch(class) <=> d \in drivers /\ \E k \in DOMAIN of : c = of[k].id
    BY <1>1, <2>1 DEF IsMatch
  <2> QED
    BY <1>1, <2>3, <2>4, <2>5
<1>2. IInv => FindersAgree
  BY <1>1 DEF FindersAgree
<1> QED
  BY Inductive, <1>2, PTL
=============================================================================
