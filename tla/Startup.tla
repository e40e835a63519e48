------------------------------- MODULE Startup -------------------------------
(***************************************************************************)
(* From the command line to the first measured call: which config file is  *)
(* read and what it decodes to on top of the built-in defaults, how flags  *)
(* override it, which scenario is selected, how its objects are shared out *)
(* and how many iterations Steady is asked for.  Between "build" and       *)
(* "steady" lie the steps of Lifecycle.                                    *)
(*                                                                         *)
(* An argument is a record [name, form, value]: form "eq" is -name=value,  *)
(* "bare" is -name alone, "word" any other text, "end" is "--".  A file is *)
(* the record of the fields written in it, [absent |-> TRUE] when there is *)
(* none, or [broken |-> TRUE] when it cannot be read or parsed.            *)
(***************************************************************************)
EXTENDS Integers, Sequences, FiniteSets, Distribute

CONSTANTS CommandLines,    \* sequences of arguments
          Disks            \* functions from paths to files

\* A map of weights has each key once.
Weights == {w \in Seq([key : STRING, weight : Int]) :
              \A i, j \in DOMAIN w : w[i].key = w[j].key => i = j}
ResourceCount == [count : Int, dist : Weights]

\* Every field that is written in a scenario has its type, as decoding demands.
FieldTypes ==
  [name |-> STRING, source |-> STRING, default |-> BOOLEAN, iterations |-> Int, gateways |-> Int,
   services |-> ResourceCount, pods |-> ResourceCount, dnsendpoints |-> ResourceCount]
Written(s) == DOMAIN s \subseteq DOMAIN FieldTypes /\ \A f \in DOMAIN s : s[f] \in FieldTypes[f]

Has(w, f) == f \in DOMAIN w

ASSUME CommandLinesAssumption ==
  CommandLines \subseteq Seq([name : STRING, form : {"eq", "bare", "word", "end"}, value : STRING])

ASSUME DisksAssumption ==
  \A d \in Disks : \A p \in DOMAIN d :
    /\ Has(d[p], "absent") => DOMAIN d[p] = {"absent"}
    /\ Has(d[p], "skipSetup") => d[p].skipSetup \in {"true", "false"}
    /\ Has(d[p], "scenarios") =>
         /\ Len(d[p].scenarios) \in Nat /\ DOMAIN d[p].scenarios = 1 .. Len(d[p].scenarios)
         /\ \A i \in DOMAIN d[p].scenarios : Written(d[p].scenarios[i])

VARIABLES args, disk,
          pc, pos,       \* step; index of the next argument, later of the scenario
          path, cfg,     \* configFileFromArgs; the loaded Config
          flags,         \* cli.Flags, by name of the flag
          selected,      \* SelectScenarios
          shares         \* the labels of each weighted kind of object

vars == <<args, disk, pc, pos, path, cfg, flags, selected, shares>>

\* Values are texts: "50" is an integer, "50ms" a duration that means the same.
IsInt(text)     == text \in {"0", "50"}
IsMillis(text)  == IsInt(text) \/ text = "50ms"
Millis(text)    == IF text = "50ms" THEN "50" ELSE text

\* ResourceCount, from an int or from a count with weights.
Count(n)       == [count |-> n, dist |-> <<>>]
Weighted(n, w) == [count |-> n, dist |-> w]

NoScenario ==
  [name |-> "", source |-> "", default |-> FALSE, iterations |-> 0, services |-> Count(0),
   gateways |-> 0, pods |-> Count(0), dnsendpoints |-> Count(0)]

DefaultWithoutIterations ==
  [NoScenario EXCEPT !.name = "istio-quick-smoke", !.source = "istio", !.default = TRUE,
                     !.services = Count(1), !.gateways = 10]

DefaultScenario ==
  [NoScenario EXCEPT !.name = "istio-quick-smoke", !.source = "istio", !.default = TRUE,
                     !.iterations = 10, !.services = Count(1), !.gateways = 10]

DefaultConfig == [skipSetup |-> "false", latencyMs |-> "0", scenarios |-> <<DefaultScenario>>]

File(p) == IF p \in DOMAIN disk THEN disk[p] ELSE [absent |-> TRUE]
Loadable(w) == ~Has(w, "broken") /\ (Has(w, "latencyMs") => IsMillis(w.latencyMs))

\* encoding/json keeps what the destination holds where the text says nothing: in
\* the struct, and in the elements that the slice of scenarios already has, the first.
Over(written, held) == [f \in DOMAIN held |-> IF Has(written, f) THEN written[f] ELSE held[f]]

Decoded(w) ==
  [skipSetup |-> IF Has(w, "skipSetup") THEN w.skipSetup ELSE DefaultConfig.skipSetup,
   latencyMs |-> IF Has(w, "latencyMs") THEN Millis(w.latencyMs) ELSE DefaultConfig.latencyMs,
   scenarios |-> IF ~Has(w, "scenarios") THEN DefaultConfig.scenarios
                 ELSE [i \in DOMAIN w.scenarios |->
                         Over(w.scenarios[i], IF i = 1 THEN DefaultScenario ELSE NoScenario)]]

IsDefault(s) == s.default
Defaults(scenarios) ==
  LET out[i \in 0 .. Len(scenarios)] ==
        IF i = 0 THEN <<>>
        ELSE IF IsDefault(scenarios[i]) THEN Append(out[i-1], scenarios[i]) ELSE out[i-1]
  IN  out[Len(scenarios)]

-----------------------------------------------------------------------------
Init ==
  /\ args \in CommandLines /\ disk \in Disks
  /\ pc = "args" /\ pos = 1 /\ path = "" /\ cfg = DefaultConfig
  /\ flags = <<>> /\ selected = <<>> /\ shares = <<>>

Text(a) == IF a.form = "word" THEN a.value ELSE "-"

\* configFileFromArgs takes the first -config, without regard to the other flags.
ConfigArgs == {i \in DOMAIN args : /\ args[i].name = "config"
                                   /\ args[i].form = "eq" \/ i < Len(args)}
ConfigFile ==
  IF ConfigArgs = {} THEN "bench.yaml"
  ELSE LET i == CHOOSE i \in ConfigArgs : \A j \in ConfigArgs : i <= j
       IN  IF args[i].form = "eq" THEN args[i].value ELSE Text(args[i + 1])

ConfigFileFromArgs ==
  /\ pc = "args" /\ pc' = "load" /\ path' = ConfigFile
  /\ UNCHANGED <<args, disk, pos, cfg, flags, selected, shares>>

\* The defaults of the flag set.
FlagDefaultsBuiltIn(c) ==
  [config |-> path, scenario |-> "", skipSetup |-> DefaultConfig.skipSetup, latencyMs |-> c.latencyMs]
FlagDefaults(c) ==
  [config |-> path, scenario |-> "", skipSetup |-> c.skipSetup, latencyMs |-> c.latencyMs]

Load(c) ==
  /\ pc = "load" /\ pc' = "parse" /\ cfg' = c /\ flags' = FlagDefaults(c)
  /\ UNCHANGED <<args, disk, pos, path, selected, shares>>

LoadNothing == Has(File(path), "absent") /\ Load(DefaultConfig)

LoadUnchecked ==
  LET w == File(path) IN ~Has(w, "absent") /\ Loadable(w) /\ Load(Decoded(w))

LoadConfig ==
  LET w == File(path)
  IN  /\ ~Has(w, "absent") /\ Loadable(w)
      /\ Len(Defaults(Decoded(w).scenarios)) <= 1 /\ Load(Decoded(w))

LoadFails ==
  LET w == File(path)
  IN  /\ pc = "load" /\ ~Has(w, "absent")
      /\ Loadable(w) => Len(Defaults(Decoded(w).scenarios)) > 1
      /\ pc' = "exit1" /\ UNCHANGED <<args, disk, pos, path, cfg, flags, selected, shares>>

-----------------------------------------------------------------------------
\* flag.FlagSet.Parse, one argument at a time, until the first that is no flag.

Arg       == args[pos]
IsFlag    == pos <= Len(args) /\ Arg.form \in {"eq", "bare"}
IsBool(n) == n = "skipSetup"
Value     == IF Arg.form = "eq" THEN Arg.value
             ELSE IF IsBool(Arg.name) THEN "true" ELSE Text(args[pos + 1])
HasValue  == Arg.form = "eq" \/ IsBool(Arg.name) \/ pos < Len(args)

\* fs.String, fs.Bool and fs.Int.
Accepts(n, text) ==
  /\ n \in {"config", "scenario", "skipSetup", "latencyMs"}
  /\ n = "skipSetup" => text \in {"true", "false"}
  /\ n = "latencyMs" => IsInt(text)

ParseFlag ==
  /\ pc = "parse" /\ IsFlag /\ HasValue /\ Accepts(Arg.name, Value)
  /\ flags' = [flags EXCEPT ![Arg.name] = Value]
  /\ pos' = IF Arg.form = "eq" \/ IsBool(Arg.name) THEN pos + 1 ELSE pos + 2
  /\ UNCHANGED <<args, disk, pc, path, cfg, selected, shares>>

\* A flag that is unknown, lacks its value or has a wrong one; or -help.
ParseExits ==
  /\ pc = "parse" /\ IsFlag /\ (HasValue => ~Accepts(Arg.name, Value))
  /\ pc' = IF Arg.name = "help" THEN "usage" ELSE "exit2"
  /\ UNCHANGED <<args, disk, pos, path, cfg, flags, selected, shares>>

ParseEnds ==
  /\ pc = "parse" /\ ~IsFlag /\ pc' = "select"
  /\ UNCHANGED <<args, disk, pos, path, cfg, flags, selected, shares>>

-----------------------------------------------------------------------------
\* app.Run

Named == {i \in DOMAIN cfg.scenarios : cfg.scenarios[i].name = flags.scenario}

Selection ==
  IF flags.scenario = "" THEN Defaults(cfg.scenarios)
  ELSE IF Named = {} THEN <<>>
  ELSE <<cfg.scenarios[CHOOSE i \in Named : \A j \in Named : i <= j]>>

SelectFails ==
  /\ pc = "select" /\ Selection = <<>> /\ pc' = "error"
  /\ UNCHANGED <<args, disk, pos, path, cfg, flags, selected, shares>>

SelectAtParsePosition ==
  /\ pc = "select" /\ Selection # <<>> /\ pc' = "build" /\ selected' = Selection
  /\ UNCHANGED <<args, disk, pos, path, cfg, flags, shares>>

SelectScenarios ==
  /\ pc = "select" /\ Selection # <<>> /\ pc' = "build"
  /\ selected' = Selection /\ pos' = 1
  /\ UNCHANGED <<args, disk, path, cfg, flags, shares>>

Scen == selected[pos]

\* runnersForScenario.  With skip-setup no fixtures are made.
BuildRunners ==
  /\ pc = "build"
  /\ pc' = IF Scen.source \notin {"istio", "pod", "dnsendpoint", "service"} THEN "error"
           ELSE IF flags.skipSetup = "true" THEN "steady" ELSE "split"
  /\ UNCHANGED <<args, disk, pos, path, cfg, flags, selected, shares>>

\* createServices and createPods fall back to a single kind, DNSEndpointFixture to a
\* single namespace.
OrOnly(dist, k) == IF dist = <<>> THEN <<[key |-> k, weight |-> 1]>> ELSE dist

Types(res, k) == IF res.count > 0 THEN Distributed(res.count, OrOnly(res.dist, k)) ELSE <<>>
NsForIndex(res) ==
  LET labels == Distributed(res.count, res.dist)
  IN  IF labels = <<>> THEN Copies("default", res.count) ELSE labels

Split(s) ==
  CASE s.source = "service"     -> <<Types(s.services, "node-port"), Types(s.pods, "headless")>>
    [] s.source = "dnsendpoint" -> <<NsForIndex(s.dnsendpoints)>>
    [] OTHER                    -> <<>>

Resources(s) ==
  CASE s.source = "service"     -> <<s.services, s.pods>>
    [] s.source = "dnsendpoint" -> <<s.dnsendpoints>>
    [] OTHER                    -> <<>>

\* The task of object i reads types[i].
OutOfRange(s) == \E k \in DOMAIN Split(s) : Len(Split(s)[k]) < Resources(s)[k].count

\* DNSEndpointFixture makes a slice of its count, others ask if it is positive first.
MakesNegative(s) == s.source = "dnsendpoint" /\ s.dnsendpoints.count < 0

SetupFixtures ==
  /\ pc = "split" /\ shares' = Split(Scen)
  /\ pc' = IF MakesNegative(Scen) \/ OutOfRange(Scen) THEN "panic" ELSE "steady"
  /\ UNCHANGED <<args, disk, pos, path, cfg, flags, selected>>

\* Steady(iterations-1) allocates a slice of that capacity.
Steady ==
  /\ pc = "steady"
  /\ IF Scen.iterations < 1 THEN pc' = "panic" /\ UNCHANGED pos
     ELSE IF pos < Len(selected) THEN pc' = "build" /\ pos' = pos + 1
     ELSE pc' = "done" /\ UNCHANGED pos
  /\ UNCHANGED <<args, disk, path, cfg, flags, selected, shares>>

Ended == pc \in {"done", "panic", "error", "exit1", "exit2", "usage"} /\ UNCHANGED vars

MustParse == ConfigFileFromArgs \/ LoadNothing \/ LoadConfig \/ LoadFails
             \/ ParseFlag \/ ParseExits \/ ParseEnds
Run  == SelectFails \/ SelectScenarios \/ BuildRunners \/ SetupFixtures \/ Steady
Next == MustParse \/ Run \/ Ended

Spec == Init /\ [][Next]_vars
-----------------------------------------------------------------------------
Selected == pc \in {"build", "split", "steady", "done", "panic"}

TypeOK ==
  /\ args \in CommandLines /\ disk \in Disks
  /\ pc \in {"args", "load", "parse", "select", "build", "split", "steady",
             "done", "panic", "error", "exit1", "exit2", "usage"}
  /\ pos \in 1 .. Len(args) + 1
  /\ Selected => pos \in DOMAIN selected
  /\ pc \notin {"args", "load", "exit1"} =>
       /\ DOMAIN flags = {"config", "scenario", "skipSetup", "latencyMs"}
       /\ flags.skipSetup \in {"true", "false"} /\ IsInt(flags.latencyMs)
       /\ \A i \in DOMAIN cfg.scenarios : DOMAIN cfg.scenarios[i] = DOMAIN NoScenario

\* What goes on to Lifecycle is exactly one scenario, whatever the file and the
\* command line say: the one of that name, or the only one marked as default.
SelectedOne ==
  Selected =>
    /\ Len(selected) = 1
    /\ IF flags.scenario # "" THEN Scen.name = flags.scenario
       ELSE \A i \in DOMAIN cfg.scenarios : IsDefault(cfg.scenarios[i]) => cfg.scenarios[i] = Scen

\* cli-flags.md:7: "All flags can be set in `bench.yaml`; CLI flags override the file."
\* The last occurrence of a flag counts, then the file that -config names, then the
\* built-in value.  (Of command lines that write every flag as -name=value.)
LastValue(n, otherwise) ==
  LET S == {i \in DOMAIN args : args[i].name = n}
  IN  IF S = {} THEN otherwise ELSE args[CHOOSE i \in S : \A j \in S : j <= i].value
FileValue(n) ==
  LET w == File(LastValue("config", "bench.yaml"))
  IN  IF Has(w, n) THEN w[n] ELSE DefaultConfig[n]

Precedence ==
  /\ pc = "select" \/ Selected
  /\ \A i \in DOMAIN args : args[i].form = "eq"
  /\ \A i, j \in DOMAIN args : args[i].name = "config" /\ args[j].name = "config" => i = j
  => /\ flags.scenario = LastValue("scenario", "")
     /\ flags.skipSetup = LastValue("skipSetup", FileValue("skipSetup"))
     /\ flags.latencyMs = Millis(LastValue("latencyMs", FileValue("latencyMs")))

\* distribute.go:17: "remaining slots (due to integer rounding) go to the last key".
\* Every object has a label, each key its quota rounded down, and the last key at
\* most one slot more for each other key.  (A negative weight makes more labels than
\* objects, which the tasks never read.)
CountOf(k, labels) == Cardinality({i \in DOMAIN labels : labels[i] = k})

SharesFit ==
  pc \in {"steady", "done"} =>
    \A k \in DOMAIN shares :
      LET res   == Resources(Scen)[k]
          n     == Greater(res.count, 0)
          total == Total(res.dist)
      IN  (\A i \in DOMAIN res.dist : res.dist[i].weight >= 0) =>
          /\ Len(shares[k]) = n
          /\ total > 0 => \A i \in DOMAIN res.dist :
               LET excess == CountOf(res.dist[i].key, shares[k]) * total
                                - res.dist[i].weight * n
               IN  IF i < Len(res.dist) THEN excess <= 0 /\ -total < excess
                   ELSE excess >= 0 /\ excess <= total * (i - 1)

\* A run never panics over a scenario that the user left to the built-in values:
\* the selected scenario is one of the file's, and there it has iterations below one,
\* or none in any but the first scenario, or weights that sum to zero, or a negative
\* number of DNSEndpoints.
PanicOnlyIfWritten ==
  pc = "panic" =>
    /\ Has(File(path), "scenarios")
    /\ \E i \in DOMAIN File(path).scenarios :
         LET w == File(path).scenarios[i]
         IN  /\ cfg.scenarios[i] = Scen
             /\ \/ Has(w, "iterations") /\ w.iterations < 1
                \/ i > 1 /\ ~Has(w, "iterations")
                \/ \E f \in {"services", "pods", "dnsendpoints"} :
                     /\ Has(w, f)
                     /\ \/ w[f].dist # <<>> /\ Total(w[f].dist) = 0
                        \/ f = "dnsendpoints" /\ w[f].count < 0

\* cli-flags.md:15: "omit to run all scenarios with `default: true`".
OnlyDeclaredRuns ==
  Selected /\ flags.scenario = "" /\ Has(File(path), "scenarios") =>
    \E i \in DOMAIN File(path).scenarios :
      Has(File(path).scenarios[i], "default") /\ File(path).scenarios[i].default
=============================================================================
