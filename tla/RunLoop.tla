------------------------------ MODULE RunLoop ------------------------------
(***************************************************************************)
(* entrypoint.Run (internal/entrypoint/run.go): the select loop over four  *)
(* tickers, one error channel and the context; the three goroutines that   *)
(* report on the error channel; InitExporter and StopExporter of the OTLP  *)
(* exporter (opentelemetry/exporters); and the configuration fields that   *)
(* the watchers of cmd/metrics-powerscale/main.go rewrite under it.        *)
(*                                                                         *)
(* There is no clock: a ticker fires at any moment, into a buffer of one.  *)
(* What an export does is StatsExport; here it either records nothing or   *)
(* has to wait for a collection of the registered meter provider.          *)
(***************************************************************************)
EXTENDS Integers, Sequences

CONSTANTS
    Kinds,      \* the exports, of "capacity", "performance", "quota", "topology"
    Settings,   \* poll frequencies, in seconds, that the configuration may name
    MinTick,    \* MinimumTickInterval, in seconds
    MaxTick,    \* MaximumTickInterval, in seconds
    Cancellable,\* the caller may cancel the context (main.go never does)
    Prometheus  \* the self-metrics' server is enabled when Run starts

(* Quota metrics are switched by the flag of the capacity metrics. *)
Flag == [capacity |-> "capacity", performance |-> "performance",
         quota |-> "capacity", topology |-> "topology"]

ASSUME KindsAssumption    == Kinds \subseteq DOMAIN Flag
ASSUME SettingsAssumption == Settings \subseteq Int
ASSUME SwitchesAssumption == Cancellable \in BOOLEAN /\ Prometheus \in BOOLEAN
ASSUME LimitsAssumption   == MinTick \in Nat \ {0} /\ MaxTick \in Nat

VARIABLES
    enabled,    \* Config.{Capacity,Performance,Topology}MetricsEnabled
    interval,   \* Config....TickInterval
    leader,     \* LeaderElector.IsLeader()
    cancelled,  \* the context is done
    at,         \* where Run is
    ret,        \* how it ended
    export,     \* the export under way, and the last one
    tick,       \* a tick waits in the ticker's channel
    ticker,     \* the interval each ticker was created with
    errCh,      \* the error channel, of capacity 1
    pc,         \* where the three goroutines are
    sending,    \* what each of them is sending, blocked while errCh is full
    registered, \* otel has the meter provider, so collections happen
    exporter,   \* OtlCollectorExporter.exporter is set
    provider,   \* OtlCollectorExporter.meterProvider is set
    shut        \* what StopExporter's call of Shutdown on each of them returned

configVars   == <<enabled, interval>>
tickVars     == <<tick, ticker>>
routineVars  == <<errCh, pc, sending>>
exporterVars == <<registered, exporter, provider, shut>>
vars == <<configVars, leader, cancelled, at, ret, export, tickVars,
          routineVars, exporterVars>>

Routines == {"prometheus", "elector", "otlp"}
Flags    == {Flag[k] : k \in Kinds}
Ended    == at \in {"returned", "crashed"}

(* The process ends with Run: main.go calls Fatalf or returns. *)
Alive == ~Ended

-----------------------------------------------------------------------------
(* The configuration watchers and the caller's context. *)

UpdateMetricsEnabled ==
    /\ Alive
    /\ \E f \in Flags : enabled' = [enabled EXCEPT ![f] = ~@]
    /\ UNCHANGED <<interval, leader, cancelled, at, ret, export, tickVars,
                   routineVars, exporterVars>>

(* Any number is accepted; the four fields are written one after another. *)
UpdateTickIntervals ==
    /\ Alive
    /\ \E k \in Kinds, v \in Settings :
         v # interval[k] /\ interval' = [interval EXCEPT ![k] = v]
    /\ UNCHANGED <<enabled, leader, cancelled, at, ret, export, tickVars,
                   routineVars, exporterVars>>

Cancel ==
    /\ Alive /\ ~cancelled /\ Cancellable
    /\ cancelled' = TRUE
    /\ UNCHANGED <<configVars, leader, at, ret, export, tickVars,
                   routineVars, exporterVars>>

-----------------------------------------------------------------------------
(* The goroutines Run starts. *)

(* errCh := make(chan error, 1).  (Operators named Fault... are what a
   plausible bug would make of the next definition; no action uses them.) *)
FaultRoom == Len(errCh) < 2
Room      == errCh = <<>>

Send(g) ==
    /\ Alive
    /\ sending[g] # "nothing"
    /\ Room
    /\ errCh' = Append(errCh, sending[g])
    /\ sending' = [sending EXCEPT ![g] = "nothing"]
    /\ UNCHANGED <<configVars, leader, cancelled, at, ret, export, tickVars, pc,
                   exporterVars>>

(* startPrometheusMetricsServer: nil once the context is done and the server
   closed, an error at any time. *)
PrometheusEnds ==
    /\ Alive
    /\ pc["prometheus"] = "running"
    /\ pc' = [pc EXCEPT !["prometheus"] = "done"]
    /\ \E v \in {"error"} \union (IF cancelled THEN {"nil"} ELSE {}) :
         sending' = [sending EXCEPT !["prometheus"] = v]
    /\ UNCHANGED <<configVars, leader, cancelled, at, ret, export, tickVars,
                   errCh, exporterVars>>

(* While the elector runs leadership comes and goes. *)
LeadershipChanges ==
    /\ Alive
    /\ pc["elector"] = "running"
    /\ leader' = ~leader
    /\ UNCHANGED <<configVars, cancelled, at, ret, export, tickVars,
                   routineVars, exporterVars>>

(* InitLeaderElection: an error before it runs for the lease, nil after it has
   lost it; nobody runs it again, so IsLeader stays as it is left. *)
ElectorEnds ==
    /\ Alive
    /\ pc["elector"] = "running"
    /\ pc' = [pc EXCEPT !["elector"] = "done"]
    /\ \E v \in {"nil", "error"}, l \in {leader, FALSE} :
         /\ sending' = [sending EXCEPT !["elector"] = v]
         /\ leader' = l
    /\ UNCHANGED <<configVars, cancelled, at, ret, export, tickVars, errCh,
                   exporterVars>>

(* getCollectorCertPath always names a certificate.  One that cannot be read is reported, and the goroutine goes on
   to InitExporter once it has been. *)
ReadCertificate ==
    /\ Alive
    /\ pc["otlp"] = "certificate"
    /\ pc' = [pc EXCEPT !["otlp"] = "new"]
    /\ \E v \in {"nothing", "error"} : sending' = [sending EXCEPT !["otlp"] = v]
    /\ UNCHANGED <<configVars, leader, cancelled, at, ret, export, tickVars,
                   errCh, exporterVars>>

(* otlpmetricgrpc.New and, if it succeeds, otel.SetMeterProvider. *)
InitOTLPExporter ==
    /\ Alive
    /\ pc["otlp"] = "new"
    /\ sending["otlp"] = "nothing"
    /\ \/ /\ pc' = [pc EXCEPT !["otlp"] = "done"]
          /\ sending' = [sending EXCEPT !["otlp"] = "error"]
          /\ UNCHANGED registered
       \/ /\ pc' = [pc EXCEPT !["otlp"] = "exporter"]
          /\ registered' = TRUE
          /\ UNCHANGED sending
    /\ UNCHANGED <<configVars, leader, cancelled, at, ret, export, tickVars,
                   errCh, exporter, provider, shut>>

(* c.exporter = exporter *)
SetExporter ==
    /\ Alive
    /\ pc["otlp"] = "exporter"
    /\ pc' = [pc EXCEPT !["otlp"] = "provider"]
    /\ exporter' = TRUE
    /\ UNCHANGED <<configVars, leader, cancelled, at, ret, export, tickVars,
                   errCh, sending, registered, provider, shut>>

(* c.meterProvider = meterProvider, and InitExporter returns nil. *)
SetMeterProvider ==
    /\ Alive
    /\ pc["otlp"] = "provider"
    /\ pc' = [pc EXCEPT !["otlp"] = "done"]
    /\ provider' = TRUE
    /\ sending' = [sending EXCEPT !["otlp"] = "nil"]
    /\ UNCHANGED <<configVars, leader, cancelled, at, ret, export, tickVars,
                   errCh, registered, exporter, shut>>

-----------------------------------------------------------------------------
(* Run. *)

Within(v) == MinTick <= v /\ v <= MaxTick

(* ValidateConfig, the goroutines and the deferred StopExporter. *)
Validate ==
    /\ at = "validate"
    /\ IF \A k \in Kinds : Within(interval[k])
       THEN /\ at' = "tickers"
            /\ pc' = [pc EXCEPT !["prometheus"] = IF Prometheus THEN "running" ELSE "off",
                               !["elector"] = "running", !["otlp"] = "certificate"]
            /\ UNCHANGED ret
       ELSE at' = "returned" /\ ret' = "error" /\ UNCHANGED pc
    /\ UNCHANGED <<configVars, leader, cancelled, export, tickVars, errCh,
                   sending, exporterVars>>

(* time.NewTicker panics on an interval that is not positive. *)
NewTickers(changed, next) ==
    IF \A k \in changed : interval[k] > 0
    THEN /\ ticker' = [k \in Kinds |-> IF k \in changed THEN interval[k] ELSE ticker[k]]
         /\ tick' = [k \in Kinds |-> tick[k] /\ k \notin changed]
         /\ at' = next /\ UNCHANGED ret
    ELSE at' = "crashed" /\ ret' = "ticker panic" /\ UNCHANGED tickVars

InitialTickers ==
    /\ at = "tickers"
    /\ NewTickers(Kinds, "select")
    /\ UNCHANGED <<configVars, leader, cancelled, export, routineVars, exporterVars>>

Tick(k) ==
    /\ at \notin {"validate", "tickers"} /\ Alive
    /\ ~tick[k]
    /\ tick' = [tick EXCEPT ![k] = TRUE]
    /\ UNCHANGED <<configVars, leader, cancelled, at, ret, export, ticker,
                   routineVars, exporterVars>>

(* case <-...Ticker.C: not the leader or disabled, the loop continues and the
   intervals are not looked at. *)
ReceiveTick(k) ==
    /\ at = "select"
    /\ tick[k]
    /\ tick' = [tick EXCEPT ![k] = FALSE]
    /\ IF leader /\ enabled[Flag[k]]
       THEN at' \in {"export", "record"} /\ export' = k
       ELSE UNCHANGED <<at, export>>
    /\ UNCHANGED <<configVars, leader, cancelled, ret, ticker, routineVars,
                   exporterVars>>

(* A ticker is replaced when the configured interval is not its own. *)
FaultForgetsQuota == {k \in Kinds \ {"quota"} : ticker[k] # interval[k]}
FaultAlways       == Kinds
Changed           == {k \in Kinds : ticker[k] # interval[k]}

(* An export with something to record returns only after a collection; then,
   and only then, the loop compares the intervals. *)
ExportReturns ==
    /\ at = "export" \/ (at = "record" /\ registered)
    /\ NewTickers(Changed, "select")
    /\ UNCHANGED <<configVars, leader, cancelled, export, routineVars, exporterVars>>

(* case err := <-errCh: nil is ignored. *)
FaultReturnsNil(err)   == TRUE
FaultIgnoresError(err) == FALSE
Fatal(err)             == err # "nil"

ReceiveError ==
    /\ at = "select"
    /\ errCh # <<>>
    /\ errCh' = Tail(errCh)
    /\ IF Fatal(Head(errCh)) THEN at' = "stop" /\ ret' = Head(errCh)
                             ELSE UNCHANGED <<at, ret>>
    /\ UNCHANGED <<configVars, leader, cancelled, export, tickVars, pc, sending,
                   exporterVars>>

ReceiveDone ==
    /\ at = "select"
    /\ cancelled
    /\ at' = "stop" /\ ret' = "nil"
    /\ UNCHANGED <<configVars, leader, cancelled, export, tickVars, routineVars,
                   exporterVars>>

(* The deferred StopExporter calls Shutdown on its two fields in turn, and
   checks neither for nil.  When the exporter's fails it returns there, without
   a look at the provider; Run logs its error and returns as it would have. *)
StopStep(field, isSet, after) ==
    /\ IF isSet THEN /\ \E err \in {"nil", "error"} :
                          shut' = [shut EXCEPT ![field] = err] /\ at' = after[err]
                     /\ UNCHANGED ret
                ELSE at' = "crashed" /\ ret' = "nil pointer" /\ UNCHANGED shut
    /\ UNCHANGED <<configVars, leader, cancelled, export, tickVars, routineVars,
                   registered, exporter, provider>>

AfterProvider == [err \in {"nil", "error"} |-> "returned"]
AfterExporter == [err \in {"nil", "error"} |->
                    IF err = "nil" THEN "shutdown" ELSE "returned"]

ShutdownExporter == at = "stop" /\ StopStep("exporter", exporter, AfterExporter)
ShutdownProvider == at = "shutdown" /\ StopStep("provider", provider, AfterProvider)

-----------------------------------------------------------------------------
Init ==
    /\ enabled \in [Flags -> BOOLEAN]
    /\ interval \in [Kinds -> Settings]
    /\ leader = FALSE /\ cancelled = FALSE
    /\ at = "validate" /\ ret = "running"
    /\ export = CHOOSE k \in Kinds : TRUE
    /\ tick = [k \in Kinds |-> FALSE] /\ ticker = [k \in Kinds |-> MinTick]
    /\ errCh = <<>>
    /\ pc = [g \in Routines |-> "off"]
    /\ sending = [g \in Routines |-> "nothing"]
    /\ registered = FALSE /\ exporter = FALSE /\ provider = FALSE
    /\ shut = [f \in {"exporter", "provider"} |-> "no"]

Environment == UpdateMetricsEnabled \/ UpdateTickIntervals \/ Cancel \/ LeadershipChanges
Otlp == ReadCertificate \/ InitOTLPExporter \/ SetExporter \/ SetMeterProvider
Sequel == \/ Validate \/ InitialTickers \/ ExportReturns
          \/ ShutdownExporter \/ ShutdownProvider

Next ==
    \/ Environment \/ PrometheusEnds \/ ElectorEnds \/ Otlp
    \/ Sequel \/ ReceiveError \/ ReceiveDone
    \/ \E g \in Routines : Send(g)
    \/ \E k \in Kinds : Tick(k) \/ ReceiveTick(k)

Spec == Init /\ [][Next]_vars

(* Goroutines run and tickers fire; select chooses at random among the cases
   that are ready, so one that is ready again and again is taken.  Nothing
   obliges the configuration, the lease, the server or the context to change. *)
Fairness ==
    /\ WF_vars(Otlp) /\ WF_vars(Sequel) /\ WF_vars(\E g \in Routines : Send(g))
    /\ SF_vars(ReceiveError \/ ReceiveDone)
    /\ \A k \in Kinds : WF_vars(Tick(k)) /\ SF_vars(ReceiveTick(k))

FairSpec == Spec /\ Fairness

-----------------------------------------------------------------------------
(* Type invariant. *)
TypeOK ==
    /\ enabled \in [Flags -> BOOLEAN]
    /\ interval \in [Kinds -> Settings]
    /\ leader \in BOOLEAN /\ cancelled \in BOOLEAN
    /\ at \in {"validate", "tickers", "select", "export", "record",
               "stop", "shutdown", "returned", "crashed"}
    /\ ret \in {"running", "nil", "error", "ticker panic", "nil pointer"}
    /\ export \in Kinds
    /\ tick \in [Kinds -> BOOLEAN]
    /\ ticker \in [Kinds -> Nat \ {0}]
    /\ errCh \in Seq({"nil", "error"}) /\ Len(errCh) <= 1
    /\ pc \in [Routines -> {"off", "running", "done", "certificate", "new",
                            "exporter", "provider"}]
    /\ sending \in [Routines -> {"nothing", "nil", "error"}]
    /\ registered \in BOOLEAN /\ exporter \in BOOLEAN /\ provider \in BOOLEAN
    /\ shut \in [{"exporter", "provider"} -> {"no", "nil", "error"}]

(* Run returns nil only when its context is done: a goroutine that ends well,
   such as the elector that lost the lease, does not end Run. *)
NilOnlyWhenCancelled == at = "returned" /\ ret = "nil" => cancelled

(* A Run that returns after it started its goroutines has shut down an
   exporter; and the meter provider after it, which was set by then, unless the
   exporter's Shutdown failed: only then is a provider left running. *)
ReturnsOnlyStopped ==
    at = "returned" /\ pc["otlp"] # "off" =>
        /\ registered /\ exporter /\ shut["exporter"] # "no"
        /\ shut["exporter"] = "nil" => provider /\ shut["provider"] # "no"

(* The one way Run can hang: an export is recording and no meter provider was
   ever registered, because InitExporter failed or has not come that far. *)
Hangs == at = "record" /\ ~registered

(* Whatever goroutine reports an error, and whatever is in the channel before
   it, Run ends, except when it hangs in an export. *)
ErrorsEndRun ==
    (\E g \in Routines : sending[g] = "error") ~> (Ended \/ Hangs)

(* The four tickers share one loop, and still a leader with a metric enabled
   and its interval left alone exports it again and again. *)
NoStarvation ==
    \A k \in Kinds :
        <>[](leader /\ enabled[Flag[k]] /\ ticker[k] = interval[k])
            => \/ []<>(at \in {"export", "record"} /\ export = k)
               \/ <>(Ended \/ Hangs)

(* A poll frequency that is changed and then left alone is adopted, provided
   exports go on being made: only when one returns are the intervals compared. *)
IntervalsAdopted ==
    \A k \in Kinds :
        <>[][UNCHANGED interval[k]]_vars /\ []<>(at \in {"export", "record"})
            => <>[](ticker[k] = interval[k] \/ Hangs)

(* Why ReturnsOnlyStopped holds: InitExporter completes the exporter in order,
   and StopExporter gets past only what is there. *)
IInv ==
    /\ TypeOK
    /\ at \in {"stop", "shutdown", "returned"} /\ ret = "nil" => cancelled
    /\ at \in {"validate", "tickers", "select", "export", "record"} => ret = "running"
    /\ at = "validate" => pc["otlp"] = "off"
    /\ pc["otlp"] \in {"exporter", "provider"} => registered
    /\ pc["otlp"] = "provider" => exporter
    /\ exporter => registered
    /\ shut["exporter"] # "no" => exporter
    /\ shut["provider"] # "no" => provider
    /\ at = "shutdown" => shut["exporter"] = "nil"
    /\ at = "returned" /\ pc["otlp"] # "off" =>
          \/ shut["exporter"] = "error"
          \/ shut["exporter"] = "nil" /\ shut["provider"] # "no"

(* "error initializing exporter", "error reading certificate": a Run that
   fails returns its error; StopExporter does not crash the process. *)
ErrorsAreReturned == ret # "nil pointer"
=============================================================================
