------------------------------- MODULE Config -------------------------------
(***************************************************************************)
(* The process's configuration (cmd/metrics-powerscale/main.go): what it   *)
(* makes of its two files, in pscaleresource.GetPowerScaleClusters and     *)
(* updateProvisionerNames, and how main and the two file watchers write it *)
(* into fields that the exports' finders read, field by field and without  *)
(* a lock.                                                                 *)
(*                                                                         *)
(* Left out: the clusters' other fields, the fields of Config (RunLoop has *)
(* them), the switching of the self-metrics (StatsExport), the limit, which*)
(* updateService checks and drops, torn reads of a slice that is being     *)
(* replaced.  Fields made of one reading of the credentials file hold that *)
(* reading.                                                                *)
(***************************************************************************)
EXTENDS Naturals, Sequences, FiniteSets, SequencesExt

CONSTANTS
    Nil, NoName,    \* an empty entry of the credentials file; no ClusterName
    Files,          \* what it may hold: sequences of Nil and [name, default]
    Settings,       \* what the other file may: [valid, drivers, limit]
    Drivers,        \* the drivers of persistent volumes and storage classes
    MaxEdits        \* bound: how often the files change

ASSUME FilesAssumption    == \A f \in Files : IsFiniteSet(DOMAIN f)
ASSUME SettingsAssumption == \A s \in Settings : s.drivers \subseteq Drivers
ASSUME MaxEditsAssumption == MaxEdits \in Nat

VARIABLES
    credentials,    \* the file of the storage systems
    settings,       \* the configuration file
    edits,
    loaded,         \* what viper has read of it
    pending,        \* watchers with an event to handle
    at,             \* where main and the watchers are in their update
    file,           \* what each has read of the credentials
    names,          \* provisionerNames
    i, n,           \* its loop, and how many turns it makes
    clusterNames,   \* StorageClassFinder.ClusterNames
    clients,        \* PowerScaleService.PowerScaleClients
    paths,          \*                  .ClientIsiPaths
    default,        \*                  .DefaultPowerScaleCluster
    drivers,        \* VolumeFinder.DriverNames
    ended,          \* "no", "fatal" or "panic"
    overlap,        \* history: another update ran during the last one
    missed          \* history: files that changed while nobody watched

fileVars   == <<credentials, settings, edits>>
localVars  == <<file, names, i, n>>
fieldVars  == <<clusterNames, clients, paths, default, drivers>>
eventVars  == <<loaded, pending, overlap, missed>>
vars == <<fileVars, eventVars, at, localVars, fieldVars, ended>>

Watchers == {"config", "credentials"}
Updaters == Watchers \union {"main"}
NoFile   == <<>>

Busy == {p \in Updaters : at[p] \notin {"idle", "done"}}

-----------------------------------------------------------------------------
(* GetPowerScaleClusters. *)

(* It stops at an empty entry, and returns what it has. *)
Entries(f) == {e \in DOMAIN f : \A d \in 1..e : f[d] # Nil}
Names(f)   == {f[e].name : e \in Entries(f)}
Nameless(f) == NoName \in Names(f)

(* Of two entries with one name the map keeps the later. *)
IsDefault(f, c) ==
    \E e \in Entries(f) :
        /\ f[e].name = c /\ f[e].default
        /\ \A d \in Entries(f) : f[d].name = c => d <= e

(* The first that is marked, or else the first; Nil is no cluster. *)
DefaultCluster(f) ==
    LET marked == {e \in Entries(f) : f[e].default} IN
    IF marked # {} THEN f[CHOOSE e \in marked : \A d \in marked : e <= d].name
    ELSE IF Entries(f) # {} THEN f[1].name ELSE Nil

(* The slice is made with a blank entry for every cluster, and the clusters
   are appended; one order of the map stands for all. *)
ClusterNamesOf(f) ==
    LET known == SetToSeq(Names(f)) IN
    [k \in 1..2 * Len(known) |->
        IF k <= Len(known)
        THEN [id |-> NoName, default |-> FALSE, drivers |-> {}]
        ELSE LET c == known[k - Len(known)] IN
             [id |-> c, default |-> IsDefault(f, c), drivers |-> {}]]

-----------------------------------------------------------------------------
(* The finders' filters.  A storage class has a provisioner and perhaps a
   ClusterName; of its absence the code makes the empty name. *)

IsMatch(class) ==
    \E k \in DOMAIN clusterNames :
        /\ class.provisioner \in clusterNames[k].drivers
        /\ \/ class.cluster = clusterNames[k].id
           \/ class.cluster = NoName /\ clusterNames[k].default

(* A persistent volume that a CSI driver made and a claim uses. *)
IsListed(volume) == volume.claimed /\ volume.driver \in drivers

-----------------------------------------------------------------------------
(* The files change; fsnotify wakes a watcher once main has set them up. *)

(* (Operators named Fault... are what a plausible bug would make of the next
   definition; no action uses them.) *)
FaultTooEarly(w)   == TRUE
FaultBusyMisses(w) == at["main"] = "done" /\ at[w] = "idle"
Notified(w)        == at["main"] = "done"

Notify(w) ==
    /\ ended = "no" /\ edits < MaxEdits
    /\ edits' = edits + 1
    /\ pending' = IF Notified(w) THEN pending \union {w} ELSE pending
    /\ missed' = IF at["main"] = "done" THEN missed ELSE missed \union {w}
    /\ UNCHANGED <<loaded, overlap, at, localVars, fieldVars, ended>>

EditCredentials ==
    /\ credentials' \in Files \ {credentials}
    /\ Notify("credentials")
    /\ UNCHANGED settings

EditSettings ==
    /\ settings' \in Settings \ {settings}
    /\ Notify("config")
    /\ UNCHANGED credentials

(* A watcher takes its event; viper rereads its file before the callback. *)
Wake(w) ==
    /\ ended = "no"
    /\ w \in pending /\ at[w] = "idle"
    /\ pending' = pending \ {w}
    /\ overlap' = (Busy # {})
    /\ IF w = "config"
       THEN /\ loaded' = settings /\ missed' = missed \ {w}
            /\ at' = [at EXCEPT ![w] = "settings"]
       ELSE /\ UNCHANGED <<loaded, missed>>
            /\ at' = [at EXCEPT ![w] = "read"]
    /\ UNCHANGED <<fileVars, localVars, fieldVars, ended>>

-----------------------------------------------------------------------------
(* An update, by main or a watcher p. *)

Step(p, from, to) ==
    /\ ended = "no"
    /\ at[p] = from
    /\ at' = [at EXCEPT ![p] = to]

(* csmlog.Fatalf ends the process. *)
Check(ok) == ended' = IF ok THEN "no" ELSE "fatal"

(* updateLoggingSettings, updateCollectorAddress, updateMetricsEnabled and
   updateTickIntervals need an address, and numbers. *)
ApplySettings(p) ==
    /\ Step(p, "settings", "read")
    /\ Check(loaded.valid)
    /\ UNCHANGED <<fileVars, eventVars, localVars, fieldVars>>

(* getPowerScaleClusters; a client that cannot be made is fatal as well. *)
ReadClusters(p) ==
    /\ Step(p, "read", "names")
    /\ \E made \in BOOLEAN : Check(~Nameless(credentials) /\ made)
    /\ file' = [file EXCEPT ![p] = credentials]
    /\ missed' = missed \ {"credentials"}
    /\ UNCHANGED <<fileVars, loaded, pending, overlap, names, i, n, fieldVars>>

SetClusterNames(p) ==
    /\ Step(p, "names", "clients")
    /\ clusterNames' = ClusterNamesOf(file[p])
    /\ UNCHANGED <<fileVars, eventVars, localVars, clients, paths, default,
                   drivers, ended>>

SetPowerScaleClients(p) ==
    /\ Step(p, "clients", "paths")
    /\ clients' = file[p]
    /\ UNCHANGED <<fileVars, eventVars, localVars, clusterNames, paths, default,
                   drivers, ended>>

SetClientIsiPaths(p) ==
    /\ Step(p, "paths", "default")
    /\ paths' = file[p]
    /\ UNCHANGED <<fileVars, eventVars, localVars, clusterNames, clients, default,
                   drivers, ended>>

SetDefaultPowerScaleCluster(p) ==
    /\ Step(p, "default", "provisioners")
    /\ default' = DefaultCluster(file[p])
    /\ UNCHANGED <<fileVars, eventVars, localVars, clusterNames, clients, paths,
                   drivers, ended>>

(* updateProvisionerNames. *)
ReadProvisionerNames(p) ==
    /\ Step(p, "provisioners", "drivers")
    /\ Check(loaded.drivers # {})
    /\ names' = [names EXCEPT ![p] = loaded.drivers]
    /\ UNCHANGED <<fileVars, eventVars, file, i, n, fieldVars>>

SetDriverNames(p) ==
    /\ Step(p, "drivers", "range")
    /\ drivers' = names[p]
    /\ UNCHANGED <<fileVars, eventVars, localVars, clusterNames, clients, paths,
                   default, ended>>

FaultSkipsLast(s) == Len(s) - 1
FaultOneMore(s)   == Len(s) + 1
Turns(s)          == Len(s)

(* range evaluates the slice's length once ... *)
RangeClusterNames(p) ==
    /\ Step(p, "range", "loop")
    /\ n' = [n EXCEPT ![p] = Turns(clusterNames)]
    /\ i' = [i EXCEPT ![p] = 1]
    /\ UNCHANGED <<fileVars, eventVars, file, names, fieldVars, ended>>

(* ... and each turn indexes the slice that is there by then. *)
SetClusterDriverNames(p) ==
    /\ Step(p, "loop", "loop")
    /\ i[p] <= n[p]
    /\ IF i[p] <= Len(clusterNames)
       THEN /\ clusterNames' = [clusterNames EXCEPT ![i[p]].drivers = names[p]]
            /\ i' = [i EXCEPT ![p] = @ + 1]
            /\ UNCHANGED ended
       ELSE ended' = "panic" /\ UNCHANGED <<clusterNames, i>>
    /\ UNCHANGED <<fileVars, eventVars, file, names, n, clients, paths, default,
                   drivers>>

Finish(p, from) ==
    /\ Step(p, from, IF p = "main" THEN "done" ELSE "idle")
    /\ file' = [file EXCEPT ![p] = NoFile] /\ names' = [names EXCEPT ![p] = {}]
    /\ i' = [i EXCEPT ![p] = 0] /\ n' = [n EXCEPT ![p] = 0]
    /\ UNCHANGED <<fileVars, eventVars, fieldVars>>

(* The watcher of the credentials returns ... *)
ReturnConnection ==
    /\ i["credentials"] > n["credentials"]
    /\ Finish("credentials", "loop")
    /\ UNCHANGED ended

(* ... the others go on to updateService and updateObservabilityMetrics. *)
UpdateService(p) ==
    /\ p # "credentials"
    /\ i[p] > n[p]
    /\ Finish(p, "loop")
    /\ Check(loaded.limit)

-----------------------------------------------------------------------------
(* main has loaded the configuration file and not yet applied it. *)
Init ==
    /\ credentials \in Files /\ settings \in Settings /\ edits = 0
    /\ loaded = settings /\ pending = {} /\ overlap = FALSE /\ missed = {}
    /\ at = [p \in Updaters |-> IF p = "main" THEN "settings" ELSE "idle"]
    /\ file = [p \in Updaters |-> NoFile] /\ names = [p \in Updaters |-> {}]
    /\ i = [p \in Updaters |-> 0] /\ n = [p \in Updaters |-> 0]
    /\ clusterNames = <<>> /\ clients = NoFile /\ paths = NoFile
    /\ default = Nil /\ drivers = {}
    /\ ended = "no"

Update(p) ==
    \/ ApplySettings(p) \/ ReadClusters(p) \/ SetClusterNames(p)
    \/ SetPowerScaleClients(p) \/ SetClientIsiPaths(p)
    \/ SetDefaultPowerScaleCluster(p) \/ ReadProvisionerNames(p)
    \/ SetDriverNames(p) \/ RangeClusterNames(p) \/ SetClusterDriverNames(p)
    \/ UpdateService(p)

Next ==
    \/ EditCredentials \/ EditSettings
    \/ \E w \in Watchers : Wake(w)
    \/ \E p \in Updaters : Update(p)
    \/ ReturnConnection

(* main and the watchers' goroutines run; nothing obliges a file to change. *)
Fairness ==
    /\ \A w \in Watchers : WF_vars(Wake(w))
    /\ \A p \in Updaters : WF_vars(Update(p))
    /\ WF_vars(ReturnConnection)

Spec     == Init /\ [][Next]_vars
FairSpec == Spec /\ Fairness

-----------------------------------------------------------------------------
(* Type invariant. *)
TypeOK ==
    /\ credentials \in Files /\ settings \in Settings /\ edits \in 0..MaxEdits
    /\ loaded \in Settings /\ pending \in SUBSET Watchers
    /\ overlap \in BOOLEAN /\ missed \in SUBSET Watchers
    /\ at \in [Updaters -> {"idle", "done", "settings", "read", "names", "clients",
                            "paths", "default", "provisioners", "drivers", "range",
                            "loop"}]
    /\ Busy # {} /\ at["main"] # "done" => Busy = {"main"}
    /\ file \in [Updaters -> Files \union {NoFile}]
    /\ names \in [Updaters -> SUBSET Drivers]
    /\ {clients, paths} \subseteq Files \union {NoFile}
    /\ drivers \in SUBSET Drivers
    /\ \A k \in DOMAIN clusterNames : clusterNames[k].drivers \subseteq Drivers
    /\ ended \in {"no", "fatal", "panic"}

(* Everything has been handled, and nothing went wrong on the way that the
   code does not guard against: one update ran into another, or a file changed
   between main's reading of it and the set-up of its watcher. *)
Settled ==
    /\ ended = "no" /\ Busy = {} /\ pending = {}
    /\ ~overlap /\ missed = {}

(* A watcher that updates alone never indexes past the cluster names, however
   many clusters come or go. *)
PanicOnlyOnOverlap == ended = "panic" => overlap

(* When updates have settled, every field that the exports read is that of the
   files as they are now, although eight steps wrote them and either watcher
   may have been the last. *)
FieldsFollowFiles ==
    Settled =>
        /\ clients = credentials /\ paths = credentials
        /\ default = DefaultCluster(credentials)
        /\ drivers = settings.drivers

(* Then also the two finders agree about the classes that name a cluster: they
   are found if the cluster was read from the file and its volumes are found too,
   and else not.  (A class without a ClusterName is none of these.  The code's
   condition for it is a default cluster, and the blank entries make it match
   without one as well.) *)
FindersAgree ==
    Settled =>
        \A d \in Drivers, c \in (UNION {Names(f) : f \in Files}) \ {NoName} :
            IsMatch([provisioner |-> d, cluster |-> c])
                <=> /\ IsListed([claimed |-> TRUE, driver |-> d])
                    /\ c \in Names(credentials)

(* A change of a file is adopted in the end, also one that comes while its
   watcher is busy with the change before. *)
ChangesAdopted ==
    <>[](\/ clients = credentials /\ drivers = settings.drivers
         \/ ended # "no" \/ overlap \/ missed # {})

(* "applyInitialConfigUpdates() should not panic", neither when main calls it
   nor when a watcher does. *)
UpdatesDoNotPanic == ended # "panic"

-----------------------------------------------------------------------------
(* The inductive invariant behind these, in parts. *)

(* The types of the cluster names and of the loops; watchers wait for main. *)
Name == [id : (UNION {Names(f) : f \in Files}) \union {NoName},
         default : BOOLEAN, drivers : SUBSET Drivers]
StepInv ==
    /\ clusterNames \in Seq(Name)
    /\ i \in [Updaters -> Nat] /\ n \in [Updaters -> Nat]
    /\ at["main"] # "idle" /\ \A w \in Watchers : at[w] # "done"
    /\ at["main"] # "done" => pending = {}

(* An update that no other has met is the only one, and its loop counts the
   slice that is there. *)
AloneInv ==
    ~overlap => /\ \A p, q \in Busy : p = q
                /\ \A p \in Updaters : at[p] = "loop" =>
                       n[p] = Len(clusterNames) /\ i[p] \in 1..n[p] + 1

(* Where an update has not done its next assignment. *)
UpToRead         == {"settings", "read"}
UpToNames        == UpToRead \union {"names"}
UpToClients      == UpToNames \union {"clients"}
UpToPaths        == UpToClients \union {"paths"}
UpToDefault      == UpToPaths \union {"default"}
UpToProvisioners == UpToDefault \union {"provisioners"}
UpToDrivers      == UpToProvisioners \union {"drivers"}

(* A reading of a file is the file, or its watcher knows better, or nobody. *)
Fresh(f)      == f = credentials \/ "credentials" \in pending \union missed
FreshSettings == loaded = settings \/ "config" \in pending \union missed

(* The cluster names are those of a reading. *)
Follow(f) ==
    LET of == ClusterNamesOf(f) IN
    /\ DOMAIN clusterNames = DOMAIN of
    /\ \A k \in DOMAIN of : /\ clusterNames[k].id = of[k].id
                            /\ clusterNames[k].default = of[k].default

(* What an update that meets no other has done so far, and leaves behind. *)
UpdateInv ==
    ~overlap => \A p \in Busy :
        /\ at[p] \notin UpToRead         => Fresh(file[p])
        /\ at[p] \notin UpToNames        => Follow(file[p])
        /\ at[p] \notin UpToClients      => clients = file[p]
        /\ at[p] \notin UpToPaths        => paths = file[p]
        /\ at[p] \notin UpToDefault      => default = DefaultCluster(file[p])
        /\ at[p] \notin UpToProvisioners => names[p] = loaded.drivers
        /\ at[p] \notin UpToDrivers      => drivers = loaded.drivers
        /\ at[p] = "loop" => \A k \in DOMAIN clusterNames :
                                 k < i[p] => clusterNames[k].drivers = loaded.drivers
RestInv ==
    ~overlap /\ Busy = {} =>
        /\ Fresh(clients) /\ Follow(clients)
        /\ paths = clients /\ default = DefaultCluster(clients)
        /\ drivers = loaded.drivers
        /\ \A k \in DOMAIN clusterNames : clusterNames[k].drivers = loaded.drivers

(* The conjunction is what the proofs show to be preserved by every step. *)
IInv == /\ TypeOK /\ StepInv /\ AloneInv /\ PanicOnlyOnOverlap
        /\ FreshSettings /\ UpdateInv /\ RestInv
=============================================================================
