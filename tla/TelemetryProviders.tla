------------------------- MODULE TelemetryProviders -------------------------
(***************************************************************************)
(* pkg/telemetry/providers.go: NewProviders and Shutdown in each of some   *)
(* processes.  The constructors of the two providers may fail, the second  *)
(* one with the first provider installed.  Shutdown ends the meter, then   *)
(* the tracer; both export what they still hold.                           *)
(*                                                                         *)
(* The providers are OpenTelemetry's, modelled as they are used.  The      *)
(* meter's Shutdown returns the error of its last export.  The tracer's    *)
(* does not: WithBatcher hands export errors to the global error handler,  *)
(* so Shutdown returns nil with spans lost, and an error only when its     *)
(* context ends first, while the export goes on in the background.         *)
(***************************************************************************)
CONSTANT Processes

VARIABLES
  tracer,  \* none, on, ending in the background, or ended, with its last
           \* spans exported or lost
  meter,   \* none, on, ended, or failed when it ended
  told     \* what Shutdown returned

telemetryVars == <<tracer, meter, told>>

TelemetryTypeOK ==
  /\ tracer \in [Processes -> {"none", "on", "ending", "ended"}]
  /\ meter \in [Processes -> {"none", "on", "ended", "failed"}]
  /\ told \in [Processes -> {"none", "nil", "error"}]

TelemetryInit ==
  /\ tracer = [p \in Processes |-> "none"]
  /\ meter = [p \in Processes |-> "none"]
  /\ told = [p \in Processes |-> "none"]

NewProviders(p) ==
  /\ tracer[p] = "none"
  /\ tracer' = [tracer EXCEPT ![p] = "on"]
  /\ meter' = [meter EXCEPT ![p] = "on"]
  /\ UNCHANGED told

NewProvidersFails(p) ==
  /\ tracer[p] = "none"
  /\ tracer' \in {tracer, [tracer EXCEPT ![p] = "on"]}
  /\ UNCHANGED <<meter, told>>

\* Mutant of ShutdownMeter: the meter's error returns at once.
ShutdownMeterReturns(p) ==
  /\ meter[p] = "on"
  /\ \/ meter' = [meter EXCEPT ![p] = "ended"] /\ UNCHANGED told
     \/ /\ meter' = [meter EXCEPT ![p] = "failed"]
        /\ told' = [told EXCEPT ![p] = "error"]
  /\ UNCHANGED tracer

\* The meter's error is kept for the end.
ShutdownMeter(p) ==
  /\ meter[p] = "on"
  /\ \E m \in {"ended", "failed"} : meter' = [meter EXCEPT ![p] = m]
  /\ UNCHANGED <<tracer, told>>

\* The tracer follows, whatever became of the meter: it ends in time, with its
\* spans or without, or is left ending.  The first of the errors is returned.
ShutdownTracer(p) ==
  /\ meter[p] \in {"ended", "failed"} /\ tracer[p] = "on"
  /\ \/ /\ tracer' = [tracer EXCEPT ![p] = "ended"]
        /\ told' = [told EXCEPT ![p] = IF meter[p] = "ended" THEN "nil" ELSE "error"]
     \/ /\ tracer' = [tracer EXCEPT ![p] = "ending"]
        /\ told' = [told EXCEPT ![p] = "error"]
  /\ UNCHANGED meter

\* The export that Shutdown did not wait for comes to its end.
TracerEnds(p) ==
  /\ tracer[p] = "ending"
  /\ tracer' = [tracer EXCEPT ![p] = "ended"]
  /\ UNCHANGED <<meter, told>>
=============================================================================
