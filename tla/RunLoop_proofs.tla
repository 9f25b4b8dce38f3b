--------------------------- MODULE RunLoop_proofs ---------------------------
(***************************************************************************)
(* Proofs about RunLoop, for any of the exports, any integers as poll      *)
(* frequencies and any limits.                                             *)
(***************************************************************************)
EXTENDS RunLoop, SequenceTheorems, TLAPS

(* What a send puts into the empty error channel. *)
LEMMA SendOne ==
    ASSUME NEW q, NEW p, NEW v \in {"nil", "error"}, q \in Seq({"nil", "error"}),
           Len(q) = 0, p = Append(q, v)
    PROVE  p \in Seq({"nil", "error"}) /\ Len(p) <= 1
<1>1. Append(q, v) \in Seq({"nil", "error"})
  BY AppendProperties
<1>2. Len(Append(q, v)) = Len(q) + 1
  BY AppendProperties
<1> QED
  BY <1>1, <1>2

USE DEF configVars, tickVars, routineVars, exporterVars, Routines, Alive, Ended

LEMMA InitIInv == ASSUME Kinds # {} PROVE Init => IInv
<1> SUFFICES ASSUME Init PROVE IInv
  OBVIOUS
<1>1. export \in Kinds
  BY DEF Init
<1>2. errCh \in Seq({"nil", "error"}) /\ Len(errCh) <= 1
  BY DEF Init
<1>3. ticker \in [Kinds -> Nat \ {0}] /\ tick \in [Kinds -> BOOLEAN]
  BY LimitsAssumption DEF Init
<1>4. shut \in [{"exporter", "provider"} -> {"no", "nil", "error"}]
      /\ shut["exporter"] = "no" /\ shut["provider"] = "no"
  BY DEF Init
<1>5. TypeOK
  BY <1>1, <1>2, <1>3, <1>4 DEF Init, TypeOK
<1> QED
  BY <1>4, <1>5 DEF Init, IInv

(* Replacing tickers leaves only positive intervals, or panics. *)
LEMMA NewTickersType ==
    ASSUME TypeOK, NEW S \in SUBSET Kinds, NEW next, NewTickers(S, next)
    PROVE  /\ ticker' \in [Kinds -> Nat \ {0}] /\ tick' \in [Kinds -> BOOLEAN]
           /\ \/ at' = next /\ ret' = ret
              \/ at' = "crashed" /\ ret' = "ticker panic"
<1>1. CASE \A k \in S : interval[k] > 0
  <2>1. ticker' \in [Kinds -> Nat \ {0}]
    <3>1. \A k \in Kinds : interval[k] \in Int /\ ticker[k] \in Nat \ {0}
      BY SettingsAssumption DEF TypeOK
    <3>2. ASSUME NEW k \in S PROVE interval[k] \in Nat \ {0}
      <4>1. interval[k] \in Int /\ interval[k] > 0
        BY <1>1, <3>1
      <4> QED
        BY <4>1
    <3>3. ticker' = [k \in Kinds |-> IF k \in S THEN interval[k] ELSE ticker[k]]
      BY <1>1 DEF NewTickers
    <3> QED
      BY <3>1, <3>2, <3>3
  <2>2. tick' \in [Kinds -> BOOLEAN]
    BY <1>1, Zenon DEF TypeOK, NewTickers
  <2> QED
    BY <1>1, <2>1, <2>2 DEF NewTickers
<1>2. CASE ~ \A k \in S : interval[k] > 0
  BY <1>2 DEF TypeOK, NewTickers
<1> QED
  BY <1>1, <1>2

(* One step per action keeps the invariant. *)
LEMMA Step == ASSUME IInv, [Next]_vars PROVE IInv'
<1> USE DEF IInv, TypeOK
<1>1. CASE UpdateMetricsEnabled
  BY <1>1 DEF UpdateMetricsEnabled
<1>2. CASE UpdateTickIntervals
  BY <1>2 DEF UpdateTickIntervals
<1>3. CASE Cancel
  BY <1>3 DEF Cancel
<1>4. CASE LeadershipChanges
  BY <1>4 DEF LeadershipChanges
<1>5. CASE PrometheusEnds
  BY <1>5 DEF PrometheusEnds
<1>6. CASE ElectorEnds
  <2>1. PICK v \in {"nil", "error"}, l \in {leader, FALSE} :
            sending' = [sending EXCEPT !["elector"] = v] /\ leader' = l
    BY <1>6 DEF ElectorEnds
  <2>2. sending' \in [Routines -> {"nothing", "nil", "error"}] /\ leader' \in BOOLEAN
    BY <2>1
  <2> QED
    BY <1>6, <2>2 DEF ElectorEnds
<1>7. CASE ReadCertificate
  <2>1. /\ pc["otlp"] = "certificate"
        /\ pc' = [pc EXCEPT !["otlp"] = "new"]
    BY <1>7 DEF ReadCertificate
  <2>2. sending' \in [Routines -> {"nothing", "nil", "error"}]
    BY <1>7 DEF ReadCertificate
  <2>3. UNCHANGED <<configVars, leader, cancelled, at, ret, export, tickVars,
                    errCh, exporterVars>>
    BY <1>7 DEF ReadCertificate
  <2>4. pc' \in [Routines -> {"off", "running", "done", "certificate", "new",
                              "exporter", "provider"}]
        /\ pc'["otlp"] = "new"
    BY <2>1
  <2>5. TypeOK'
    BY <2>2, <2>3, <2>4
  <2> QED
    BY <2>1, <2>3, <2>4, <2>5
<1>8. CASE InitOTLPExporter
  <2>1. pc' \in [Routines -> {"off", "running", "done", "certificate", "new",
                              "exporter", "provider"}]
    BY <1>8 DEF InitOTLPExporter
  <2>2. sending' \in [Routines -> {"nothing", "nil", "error"}]
    BY <1>8 DEF InitOTLPExporter
  <2>3. pc["otlp"] = "new" /\ pc'["otlp"] \in {"done", "exporter"}
    BY <1>8 DEF InitOTLPExporter
  <2>4. \/ pc'["otlp"] = "done" /\ registered' = registered
        \/ pc'["otlp"] = "exporter" /\ registered' = TRUE
    BY <1>8 DEF InitOTLPExporter
  <2> QED
    <3>1. UNCHANGED <<configVars, leader, cancelled, at, ret, export, tickVars,
                      errCh, exporter, provider, shut>>
      BY <1>8 DEF InitOTLPExporter
    <3>2. TypeOK'
      BY <2>1, <2>2, <2>4, <3>1
    <3>3. /\ at' = "validate" => pc'["otlp"] = "off"
          /\ at' = "returned" /\ pc'["otlp"] # "off" =>
                \/ shut'["exporter"] = "error"
                \/ shut'["exporter"] = "nil" /\ shut'["provider"] # "no"
      BY <1>8, <3>1, <2>3 DEF InitOTLPExporter
    <3> QED
      BY <2>3, <2>4, <3>1, <3>2, <3>3
<1>9. CASE SetExporter
  BY <1>9 DEF SetExporter
<1>10. CASE SetMeterProvider
  BY <1>10 DEF SetMeterProvider
<1>11. CASE Validate
  BY <1>11 DEF Validate
<1>12. CASE InitialTickers
  <2>1. /\ ticker' \in [Kinds -> Nat \ {0}] /\ tick' \in [Kinds -> BOOLEAN]
        /\ \/ at' = "select" /\ ret' = ret
           \/ at' = "crashed" /\ ret' = "ticker panic"
    BY <1>12, NewTickersType DEF InitialTickers, Changed
  <2> QED
    BY <1>12, <2>1 DEF InitialTickers
<1>13. CASE ExportReturns
  <2>1. /\ ticker' \in [Kinds -> Nat \ {0}] /\ tick' \in [Kinds -> BOOLEAN]
        /\ \/ at' = "select" /\ ret' = ret
           \/ at' = "crashed" /\ ret' = "ticker panic"
    BY <1>13, NewTickersType DEF ExportReturns, Changed
  <2> QED
    BY <1>13, <2>1 DEF ExportReturns
<1>14. CASE ShutdownExporter
  <2>1. at = "stop" /\ StopStep("exporter", exporter, AfterExporter)
    BY <1>14 DEF ShutdownExporter
  <2>2. /\ shut' \in [{"exporter", "provider"} -> {"no", "nil", "error"}]
        /\ \/ at' = "crashed" /\ ret' = "nil pointer" /\ shut' = shut
           \/ /\ exporter /\ ret' = ret /\ shut'["provider"] = shut["provider"]
              /\ \/ shut'["exporter"] = "nil" /\ at' = "shutdown"
                 \/ shut'["exporter"] = "error" /\ at' = "returned"
    <3>1. CASE exporter
      <4>1. PICK err \in {"nil", "error"} :
                shut' = [shut EXCEPT !["exporter"] = err] /\ at' = AfterExporter[err]
        BY <2>1, <3>1 DEF StopStep
      <4>2. ret' = ret
        BY <2>1, <3>1 DEF StopStep
      <4>3. shut'["exporter"] = err /\ shut'["provider"] = shut["provider"]
        BY <4>1
      <4>4. shut' \in [{"exporter", "provider"} -> {"no", "nil", "error"}]
        BY <4>1
      <4>5. \/ err = "nil" /\ at' = "shutdown"
            \/ err = "error" /\ at' = "returned"
        BY <4>1 DEF AfterExporter
      <4> QED
        BY <3>1, <4>2, <4>3, <4>4, <4>5, Zenon
    <3>2. CASE ~exporter
      BY <2>1, <3>2 DEF StopStep
    <3> QED
      BY <3>1, <3>2
  <2>3. UNCHANGED <<configVars, leader, cancelled, export, tickVars, routineVars,
                    registered, exporter, provider>>
    BY <2>1 DEF StopStep
  <2>4. TypeOK'
    BY <2>1, <2>2, <2>3
  <2> QED
    BY <2>1, <2>2, <2>3, <2>4
<1>15. CASE ShutdownProvider
  <2>1. at = "shutdown" /\ StopStep("provider", provider, AfterProvider)
    BY <1>15 DEF ShutdownProvider
  <2>2. /\ shut' \in [{"exporter", "provider"} -> {"no", "nil", "error"}]
        /\ \/ at' = "crashed" /\ ret' = "nil pointer" /\ shut' = shut
           \/ /\ provider /\ ret' = ret /\ shut'["exporter"] = shut["exporter"]
              /\ shut'["provider"] # "no" /\ at' = "returned"
    <3>1. CASE provider
      <4>1. PICK err \in {"nil", "error"} :
                shut' = [shut EXCEPT !["provider"] = err] /\ at' = AfterProvider[err]
        BY <2>1, <3>1 DEF StopStep
      <4>2. ret' = ret
        BY <2>1, <3>1 DEF StopStep
      <4>3. shut'["provider"] = err /\ shut'["exporter"] = shut["exporter"]
        BY <4>1
      <4>4. shut' \in [{"exporter", "provider"} -> {"no", "nil", "error"}]
        BY <4>1
      <4>5. err # "no" /\ at' = "returned"
        BY <4>1 DEF AfterProvider
      <4> QED
        BY <3>1, <4>2, <4>3, <4>4, <4>5, Zenon
    <3>2. CASE ~provider
      BY <2>1, <3>2 DEF StopStep
    <3> QED
      BY <3>1, <3>2
  <2>3. UNCHANGED <<configVars, leader, cancelled, export, tickVars, routineVars,
                    registered, exporter, provider>>
    BY <2>1 DEF StopStep
  <2>4. TypeOK'
    BY <2>1, <2>2, <2>3
  <2> QED
    BY <2>1, <2>2, <2>3, <2>4
<1>16. CASE ReceiveError
  <2>1. Head(errCh) \in {"nil", "error"} /\ Len(Tail(errCh)) <= 1
        /\ Tail(errCh) \in Seq({"nil", "error"})
    BY <1>16 DEF ReceiveError
  <2> QED
    BY <1>16, <2>1 DEF ReceiveError, Fatal
<1>17. CASE ReceiveDone
  BY <1>17 DEF ReceiveDone
<1>18. ASSUME NEW g \in Routines, Send(g) PROVE IInv'
  <2>1. sending[g] \in {"nil", "error"} /\ errCh = <<>>
    BY <1>18 DEF Send, Room
  <2>2. errCh' \in Seq({"nil", "error"}) /\ Len(errCh') <= 1
    <3>1. errCh' = Append(errCh, sending[g])
      BY <1>18 DEF Send
    <3>2. Len(errCh) = 0
      BY <2>1
    <3>3. errCh \in Seq({"nil", "error"})
      OBVIOUS
    <3> QED
      BY <2>1, <3>1, <3>2, <3>3, SendOne
  <2> QED
    BY <1>18, <2>1, <2>2 DEF Send
<1>19. ASSUME NEW k \in Kinds, Tick(k) PROVE IInv'
  BY <1>19 DEF Tick
<1>20. ASSUME NEW k \in Kinds, ReceiveTick(k) PROVE IInv'
  BY <1>20 DEF ReceiveTick
<1>21. CASE UNCHANGED vars
  BY <1>21 DEF vars
<1> QED
  BY <1>1, <1>2, <1>3, <1>4, <1>5, <1>6, <1>7, <1>8, <1>9, <1>10, <1>11,
     <1>12, <1>13, <1>14, <1>15, <1>16, <1>17, <1>18, <1>19, <1>20, <1>21
     DEF Next, Environment, Otlp, Sequel

(* In every reachable state the exporter is completed in order, and Run has
   returned only after an exporter was shut down, and then the provider if the
   exporter's Shutdown did not fail. *)
THEOREM Inductive == ASSUME Kinds # {} PROVE Spec => []IInv
  BY InitIInv, Step, PTL DEF Spec

(* Every variable stays within its type: errCh never holds more than one
   error, and no ticker is ever made with an interval that is not positive. *)
THEOREM TypeCorrect == ASSUME Kinds # {} PROVE Spec => []TypeOK
<1>1. IInv => TypeOK
  BY DEF IInv
<1> QED
  BY Inductive, <1>1, PTL

(* Run returns nil only when its context is done. *)
THEOREM NilMeansCancelled == ASSUME Kinds # {} PROVE Spec => []NilOnlyWhenCancelled
<1>1. IInv => NilOnlyWhenCancelled
  BY DEF IInv, NilOnlyWhenCancelled
<1> QED
  BY Inductive, <1>1, PTL

(* A Run that returns after it started its goroutines has shut down what there
   is: an exporter, and unless its Shutdown failed a provider too. *)
THEOREM ReturnsStopped == ASSUME Kinds # {} PROVE Spec => []ReturnsOnlyStopped
<1>1. IInv => ReturnsOnlyStopped
  BY DEF IInv, ReturnsOnlyStopped
<1> QED
  BY Inductive, <1>1, PTL
=============================================================================
