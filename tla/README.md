# Verification of kwok-external-dns-scenarios

The program benchmarks the *sources* of external-dns against a simulated
Kubernetes cluster. One invocation creates a KWOK cluster with `kwokctl`, fills
it with fixtures (pods, services, Istio gateways and virtual services,
DNSEndpoints), builds an external-dns source on it, calls `Endpoints` a number of
times while it counts API requests and scrapes metrics, prints a report and,
if asked to, deletes the cluster.

This directory holds TLA+ modules translated from the Go code, TLC
configurations that check them on small instances, and proofs for TLAPS.
Source positions are relative to `src/`; `internal/` is abbreviated away where it
is clear.

## 1. Inventory

| component | state | operations | talks to |
|---|---|---|---|
| `app.Run` (app/app.go, runners.go, main.go) | step, `clusterExists`, results, ctx | one invocation from flags to exit; `errorf` and the deferred `deleteCluster` | everything below |
| cluster (cluster/cluster.go) | none of its own; the cluster in the world | CheckDocker, Create, Delete (3 tries), KubeconfigPath, WaitReady, ApplyCRDs | subprocesses `kwokctl`, `kubectl`, `docker` |
| proxy (proxy/proxy.go) | toxiproxy server, its ctx goroutine | Start, Endpoint | ctx; benchmark clients |
| metrics (metrics/server.go, scraper.go) | server goroutine, port; last sample | StartServer, Ping, Snapshot, Delta | HTTP on the metrics port |
| fixtures (fixtures/{pod,service,istio,dnsendpoint}) | the objects in the cluster | Setup: a fixed sequence of single requests and fan-outs | API server through the direct client |
| helpers.RunConcurrent, progress.Bar | semaphore channel, WaitGroup, mutex-guarded results, bar | fan out N tasks, collect skip count and first error | ctx; the task functions |
| helpers.RetryUpdateStatus, RetryAfter | the object held by the task | retry UpdateStatus after conflict, 429, EOF | API server, KWOK's controllers |
| bench.Runner (bench/bench.go) | startReqs, durations, bar | First (warmup), Steady (iterations), statistics | the source; `AfterIter` call-back |
| transport.CountingTransport, iterObs | atomic counter, `sync.Map` of call lists; marks, windows, samples, deltas | RoundTrip/record; SnapshotIndexes, CallWindow | every goroutine that makes a request |
| distribute | none | Distribute(n, weights) | service and dnsendpoint fixtures |
| generated addresses (fixtures/helpers, pod, dnsendpoint) | none | IngressIP, NodeExternalIP, PodSvcIP, the targets of annotations | the tasks of the fixtures |
| config, cli | none after parsing | configFileFromArgs, LoadConfig, flag.Parse, SelectScenarios | `app.Run` |
| report | none | statistics, tables, results file | `app.Run` |
| runner/commands, app/print | none | hints printed for the user | - |

How they interact: `main` makes a ctx that an interrupt cancels and calls
`app.Run`, which is a straight line of steps with an error exit after nearly
each. The steps share the ctx with three kinds of goroutines: the tasks of
`RunConcurrent`, the proxy's shutdown goroutine, and the metrics server. While a
source is measured, its informers issue requests at any time through the same
counting transport as the measured call. What outlives the process is the
cluster: `--skip-setup`, `cleanup: false` and crashes mean that a later
invocation meets the objects of earlier ones.

Behaviours that are hard here, and hardly reachable with tests (the repository
has none): an interrupt between any two steps, above all between the dispatch and
the start of a task; reruns over a half-built cluster; conflicts, rate limits and
dropped connections inside the status retry; requests of informers recorded while
a window is being cut; the cleanup decision, which depends on two flags, on
`clusterExists`, and on the place of the error. `PROJECT.json` lists each one with
its line and the properties aimed at it.

What makes each component correct:

- *RunConcurrent*: bounded parallelism; nothing left running after the return;
  results that agree with what the tasks did; termination, cancelled or not;
  a bar that never passes its total (it would panic).
- *status retry*: "created" only if the status was stored; a retry in place cannot
  be overtaken by the request it repeats; an interrupt ends it; it converges.
- *fixtures*: no object refers to one that is missing; nil means complete; no
  request is refused for want of a namespace or an account; a rerun
  finishes what an interrupted run began, and leaves what an undisturbed one would.
- *app.Run, cluster, proxy, metrics*: fixtures only on a prepared cluster; reports
  only over complete data; with cleanup no cluster stays behind, without it none
  is touched, and in no case one that the run neither created nor was told to reuse; a run
  ends, unless a Setup retries for ever and nobody interrupts it.
- *transport, iterObs, bench*: windows disjoint, of non-negative length, and each
  containing exactly its call's requests; totals that cover the calls; deltas
  that chain.
- *config, cli*: exactly one scenario goes on to the run; a value comes from the last
  flag, else from the file, else from the built-in configuration; nothing panics after the
  setup over a value that nobody wrote.
- *distribute, addresses*: one label for each object, shares that keep to the weights; valid
  addresses that no two objects share.
- *report, metrics scraper*: totals that account for every call once, means and
  percentiles within what they summarize, deltas whose sum is the change over the run.

## 2. Modules

| module | models | checked by |
|---|---|---|
| `FanOut` | abstract promise of RunConcurrent | refined by `RunConcurrent` |
| `RunConcurrent` | helpers.go:111-154, progress.Bar | TLC, TLAPS |
| `RunConcurrentProofs` | theorems about it | TLAPS |
| `StatusUpdate` | create-then-update-status tasks, helpers.go:175-233 | TLC, TLAPS |
| `StatusUpdateProofs` | theorems about it | TLAPS |
| `FixtureSetup` | the Setup of all fixtures, as each scenario's runners call it, over several runs | TLC, TLAPS |
| `FixtureSetupProofs` | theorems about it and about `Addresses` | TLAPS |
| `MC_FixtureSetup` | its instances: histories of scenarios | - |
| `Addresses` | the addresses that fixtures make of an index | TLAPS, an assumption of `MC_FixtureSetup` |
| `Lifecycle` | app.Run, cluster, proxy, metrics server | TLC, TLAPS |
| `LifecycleProofs` | theorems about it | TLAPS |
| `Measurement` | runSourceBenchmark, bench.Runner, CountingTransport, iterObs | TLC, TLAPS |
| `MeasurementProofs` | theorems about it | TLAPS |
| `MC_Measurement` | its symmetry | - |
| `Distribute` | distribute.go | through `Startup` |
| `Startup` | cli.MustParse, LoadConfig, SelectScenarios, the split of the fixtures | TLC, TLAPS |
| `StartupProofs` | theorems about it and `Distribute` | TLAPS |
| `MC_Startup` | its instances: command lines and files | - |
| `Reporting` | normalized requests, call statistics, their merges, parsed samples and deltas | TLC, TLAPS |
| `ReportingProofs` | theorems about it | TLAPS |
| `MC_Reporting` | its instances: calls, times, scrapes | - |
| `Loops` | lemmas on loops over slices, for the two above | TLAPS |

The modules meet at named promises rather than by multiplication of their state
spaces. `RunConcurrent` implements `FanOut`. `FixtureSetup` takes each fan-out as
`FanOut` describes it: its pending requests happen in any order, each one
succeeds or fails once, and after an interrupt the rest may be dropped with or
without an error. `Lifecycle` takes a runner's `Setup` as `FixtureSetup` and
`NilMeansAllRan` describe it (`SetupOk`: nil means complete, unless interrupted),
and a runner's benchmark as one step, which `Measurement` opens up. `Startup` ends where
`Lifecycle` begins, with the one selected scenario; between its steps "build" and "steady"
lies the whole of `Lifecycle`. `Reporting` takes the windows and scrapes that `Measurement`
cuts as its input and carries them to the figures that are printed.

An operator that no specification reaches and that stands right before a
similar one (`SemFreeOffByOne` before `SemFree`, `ReturnWithoutWait` before `Return`, ...)
states a plausible mistake in that piece of code. `mutants` in `PROJECT.json` pairs each
property with the mistake that breaks it.

### RunConcurrent, FanOut

One step per statement that touches shared state. The caller's `pc` is `"loop"`
(the `for` with its `select`), `"wait"` or `"giveup"` (the two `wg.Wait()`), and
`"returned"`. A task's goroutine is `"spawned"` (before the `select` on ctx),
`"running"` (in `fn`), `"reporting"` (before the mutex section), `"leaving"`
(before the deferred `<-sem`), `"released"` (before the deferred `wg.Done()`),
`"done"`. `sem` and `wg` are the length of the channel and the WaitGroup counter,
`bar` is `Bar.cur`. The mutex section is one step, since the lock is held and
nothing reads its variables elsewhere before `wg.Wait` has returned; the tick of
the cancelled path has no lock and needs none, `Bar` has its own. Go's `select`
picks any ready case: `Dispatch` stays enabled after cancellation.

`FanOut` has no counters or goroutines: tasks ran, are busy, or failed; at most
`Limit` are busy; `Return` needs none busy, and reports the failure recorded first,
or after cancellation possibly `ctx.Err()`. The mapping is in `RunConcurrent`
(`Ran`, `Busy`, `Bad`, `Result`).

### StatusUpdate

One object, its task, and the server. `rv` is the stored resourceVersion (0: no
object), `copy` the version of the object in the task's hands. `UpdateStatus` is
sent (`Send`) and answered in a second step, so that KWOK's own patches come between.
`RetryAfter`'s verdicts are the `Reply...` actions. A request whose connection
dropped stays in `abandoned` and may still be processed. Runs, crashes and reruns
share the server. `calm` is an environment that has ceased to misbehave, which
is what the liveness property `Converges` is conditional on.

### FixtureSetup

`Plan(s)` is the sequence of calls that the `Setup` of a scenario's runners makes,
each with the set of objects it creates: one for `EnsureNamespace`,
`EnsureDefaultServiceAccount` and `createSharedGateway`, N for a fan-out. It is the
concatenation of `RunnersForScenario(s)`, the calls of each runner's fixture, with the counts that the
constructors in `runner/` hand to it. `Fresh` is what the API server makes of itself, at any time:
the default namespace, its service account, and the Service `default/kubernetes`. The dnsendpoint fixture's loop over its namespaces is one
call for each element, `NoCall` where the namespace has been seen. An
object has an identity and the reference that its spec names (a pod's node, the
service that a gateway selects, a virtual service's gateway). `Create`,
`AlreadyExists`, `Rejected` and `CallFails` are the answers to a request;
`NextStep`/`NextStepFails` are the `if err != nil` after each call; `GiveUp` is the
dispatch loop that sees ctx done. `Rerun` starts the next scenario of `history`
on the same cluster. The names of objects depend on the index alone, so that a
rerun with other counts meets objects whose references it would have chosen
differently.

### Addresses

Operators, no state: `Address(u, i)` is what the task with index `i` writes for the use `u`. Go's `byte(...)` and
`uint16(...)` are `% 2^8` and `% 2^16`; where the code leaves them out (`NodeExternalIP`), so does the
model. `IndexOf` reads an address back; that it finds the index is uniqueness.

### Lifecycle

`pc` is the step of `Run`; `flags`, `clusterExists`, `failed` are its variables.
The world is `cluster` (with `"partial"` for a creation that failed half-way),
`api`, `crds` and `fixtures`. `Errorf` is the closure of app.go:52-58; the pair
`"errorDelete"`, `"deferred"` stands for the deletion inside `errorf` and for the
deferred one, and both run `Delete` with its retries when `Deletes` holds. `created` is history: `Create` returned nil. `clusterExists`
is what the code makes of that, and `DeletesOnlyOwn` holds it against `created`. `Bind`
and `StopProxy` are the other goroutines. `Interrupt` cancels ctx; `Crash` covers
SIGTERM, which main does not catch.

### Measurement

`phase` is 0 for the creation of the source, 1 for the warmup call, then one
per iteration. A request goes through the three statements of `record`
(`CountAdd`, `LoadOrStore`, `AppendDuration`) as separate steps, because the
atomic, the `sync.Map` and the per-key mutex are taken one after another.
`SnapshotIndexes` and `CallWindow` are ranges over the `sync.Map`, one key per
step, in any order, and a key stored during the range may be missed, as the Go
documentation says. `owner[r]` is history: the phase whose call issued `r` and
waited for it, or `None` for an informer's request. A metrics sample is represented by the
phase whose end it was taken at, so that a delta is the pair of the phases it spans.

### Startup, Distribute

An argument is a record of its flag, its form (`-name=value`, `-name`, another word, `--`) and its
value; a file is the record of the fields that are written in it. `ConfigFileFromArgs` is the scan of
the arguments for `-config` that precedes everything else, `Load...` the decoding over
`DefaultConfig()`, with what encoding/json does to the element that the slice of scenarios already
holds. `ParseFlag` is one turn of the loop of flag.Parse, over one flag of each kind: `config` and
`scenario` (strings), `skipSetup` (boolean), `latencyMs` (integer). `SetupFixtures` computes the
labels with `Distributed` and panics where a task would read past their end, or where a negative number of
DNSEndpoints would be the length of a slice; `Steady` panics where
`make` would get a negative capacity. `DisksAssumption` says what encoding/json leaves of a file: every field that
is there has its type (`Written`), and a map of weights has each key once.

A loop over a slice (`Total`, `Shares`, `Defaults`; in `Reporting` `Sum`, `Times`) is a recursive function of the number of its
turns, so that TLAPS can reason about it.

### Reporting

A request is its verb and the segments of its path, of which only those that consist of
lower-case letters are told apart from the others; a line of a scrape is what `parse` extracts from it. `EndWindow` is a window with the scrape
after it (`Baseline` for the first), `MergeWindow` a turn of the loop of `printStats`, `Aggregate`
a turn of the range over the map in `aggregateByMethod`, in any order. Times are integers, so that the
division in each mean rounds down as that of `time.Duration` does. `Sorted(times, k)` says where `sort.Slice` leaves
which time without an algorithm: the one that fewer than `k` times are below and at least `k` are not above.
`TotalsExact` compares keys of requests for collections (`IsCollection`), for which the key is meant: a request for an
object by its name, or for discovery, shares its key with others by design. It takes a resource to be of one group and version
and to be requested in all namespaces or in single ones (`OfOneScope`): one that is requested in both ways has a
key for each.

## 3. Runs

| run | expects | shows |
|---|---|---|
| `fanout` | pass | `TypeOK`, `Accounting`, `BoundedParallelism`, `Quiescent`, `FaithfulResult`, `BarNeverOverruns`, refinement of `FanOut`, `EventuallyReturns` |
| `fanout_nil` | violation | an interrupted RunConcurrent can return nil with tasks that never ran |
| `status` | pass | `TypeOK`, `SuccessMeansReady`, `StaleRequestsRejected`, `CancelEnds`, `Converges` |
| `status_rerun` | violation | a rerun skips an object whose status was never written |
| `lifecycle` | pass | `TypeOK`, `SetupPrepared`, `ReportSound`, `CleanupDone`, `DeletesOnlyOwn`, `EventuallyEnds` |
| `lifecycle_preserve` | violation | an error deletes the cluster although `onError` is off |
| `measurement` | pass | `TypeOK`, `WindowNonNegative`, `WindowsDisjoint`, `OwnWindow`, `TotalCoversCalls`, `DeltasChain` |
| `measurement_labels` | violation | after a failed scrape a delta is printed under the wrong iteration |
| `fixtures` | pass | `TypeOK`, `NoDangling`, `CompleteOnSuccess`, `NeverRejected`, `LeftAsDeclared`, `Recovers` |
| `startup` | pass | `TypeOK`, `SelectedOne`, `Precedence`, `SharesFit`, `PanicOnlyIfWritten` |
| `startup_inherit` | violation | a file that marks no scenario as default runs its first one |
| `reporting` | pass | `TotalsExact`, `MergedMeans`, `Percentiles`, `DeltasTelescope` |

### Bounds, and why they are enough

- `fanout`: 4 tasks, 2 slots. Two slots let tasks overlap, the third task has to
  wait for a slot and the fourth for a slot given back by a task that itself
  waited; an interrupt can find tasks in every state at once. The safety
  properties are proved for all values besides.
- `status`: KWOK and late requests make versions up to 4, which allows a
  conflict, a re-fetch, and a conflict again; two runs, for what the second
  meets. Only the versions are bounded (a guard in `KwokPatch`
  and `LateRequest`); the retry loop itself is not.
- `lifecycle`: every flag combination and source; 3 readiness attempts, one in
  the first half (`/readyz`) and two in the second (`cluster-info`). `DeleteRetries`
  is the code's 3.
- `measurement`: a warmup and two steady iterations, so that every boundary between
  windows occurs and a scrape can fail between two that succeed; two keys, so that a range
  is not atomic; three requests, enough for one in each of three neighbouring
  places. Keys are interchangeable (`SYMMETRY`, safety only). The violation needs
  no requests.
- `fixtures`: histories of two runs: the same scenario twice (what `LeftAsDeclared` is about, with objects that
  refer to others), larger and smaller counts, zero
  services (raised to one by `AtLeast`), and one scenario after another. Counts of
  1 to 3 give a modulo with and without wrap.
  The run also evaluates `AddressesChecked`: uniqueness and validity of the addresses of each use for the indices up
  to 131072, one past the largest limit that a conversion sets within reach (2^17 ingress services).
- `startup`: every command line of at most three of 11 arguments, against 19 files as
  `bench.yaml`. Three arguments make a flag, its repetition or its value, and the argument at which
  parsing stops; the files have no, one or several scenarios, marked or not, with fields left out
  of the first or of a later one, weights that round, sum to zero or are negative, and negative counts.
- `reporting`: inputs aimed at each stage, since the product of all would add nothing: two windows
  of at most two calls from five requests for collections with equal and different keys; up to five times in one
  window (where the ranks of p50 and p99 are at the edge); scrapes around three iterations, each
  complete, without its first line, broken off or lost.

### Fairness

`RunConcurrent`: weak fairness of the caller and of each goroutine: Go runs
runnable goroutines, and `fn` returns. The last is a promise of the task, not of the code of
RunConcurrent: a task that retries UpdateStatus (helpers.go:187 has no limit) keeps it once
failures cease or ctx is done, which `Converges` and `CancelEnds` show; `EventuallyReturns` is conditional on it. Neither the
interrupt nor the choice inside `select` is fair. `StatusUpdate`: weak fairness of the task's
next step, because timers fire and client-go's calls end, in success or in error. `FixtureSetup`: the
same for its requests, but only under `calm`, because a request stands for a task with its retries there.
`Lifecycle`: weak fairness of `Bounded`, the steps of `Run` outside of Setup: polling and deletion count their attempts,
subprocesses and calls end, and NewSource stops waiting for its informers; a `Setup` (`SetupEnds`) is fair only after an
interrupt, since before that its tasks may retry for ever. `EventuallyEnds` therefore says that a run ends or stays in an
uninterrupted Setup for ever, and so that every interrupted run ends. The
environment is never fair; where progress needs it to behave (`Converges`, `Recovers`),
the property says so through `calm`. `Measurement`, `Startup` and `Reporting` state no
liveness: the first depends on when informers fall silent, the others are loops over finite data.

## 4. Proofs

`RunConcurrentProofs` proves for every `N \in Nat` and `Concurrency \in Nat \ {0}`
(`RunConcurrentAssumption`; the callers normalise the flag with `AtLeast(.., 1)`):

- the safety properties of the run `fanout`: `TypeOK`, `Accounting`,
  `BoundedParallelism`, `Quiescent`, `FaithfulResult`, `BarNeverOverruns`;
- `Implementation`: `Spec => ImplementsFanOut`.

They rest on the inductive invariant
`IInv == TypeOK /\ Accounting /\ Frontier /\ Outcomes /\ Errors /\ Returned`.
`Accounting` alone is not inductive: that a dispatched task was `"none"` before,
so that the count of `Holders` grows by one, needs `Frontier` (tasks from `next` on
have no goroutine); the results need `Outcomes` and `Errors` (what `outcome`,
`firstErr` and the point of a goroutine say about each other), and what holds after
the return needs `Returned`, because `wg = 0` is only tested at that one step. The lemmas on
cardinalities (`AddOne`, `RemoveOne`, `MoveCardinality`, `GotoCounts`) say how a count of
goroutines at a set of points changes when one goroutine moves.
`StepSimulation` shows that under `IInv` each step is a step of `FanOut` or a stutter:
`Begin` is its `Start`, `Report` its `Succeed` or `Fail`, `Return` its `Return`, and
every other step leaves the mapped state alone.

`StatusUpdateProofs` proves, for every bound on versions and runs, `TypeOK`,
`SuccessMeansReady` and `StaleRequestsRejected`. Its
`IInv == TypeOK /\ Versions /\ Accepted` adds that versions only grow: the copy
in the task's hands and every version in `abandoned` are at most the stored one, and
real versions rather than 0. `StaleRequestsRejected` is not inductive without it: an accepted update
raises the stored version above everything sent before, which is what `Accepted` keeps.

`LifecycleProofs` proves, for every number of readiness attempts, `TypeOK`, `SetupPrepared`,
`ReportSound`, `CleanupDone` and the action property `DeletesOnlyOwn`. The
`IInv == TypeOK /\ Counters /\ OwnCluster /\ Scraped /\ Progress /\ CleanupDone` says of each step of
`Run` what the steps before it have established: `OwnCluster` that the cluster is up from its
creation on, serving from `WaitReady` on, and never half-made once `clusterExists` is set;
`Progress` which runners the loops have dealt with, where an interrupt leaves the fixtures open until
`NewSource` finds ctx done. `ReportSound` is not inductive without it. `DeletesOnlyOwn`
needs that the deletion inside `errorf` is only reached with cleanup enabled, and that `clusterExists` is never
set without `skipSetup` or a `Create` that returned nil: whatever stands there after a failed one stays.

`MeasurementProofs` proves, for every number of iterations, set of keys and bound on requests, all
properties of the run `measurement`. `WindowsDisjoint` needs `Marks`: what was reported for a
window that is over lies at or below the mark of its key as soon as that mark is set, and a key
that the range misses was stored after it began, with no calls reported. `OwnWindow` needs `Owners`:
the calls of the phase under way lie above the marks, and their keys are among those that the
window's range must visit. `TypeOK` needs `Counts` (the counter is the number of requests past
its increment) and `Sequence` (the bar is the phase). `TotalCoversCalls` rests on `Totals`, proved
over `IInv`: when `NewRunner` reads the counter it has counted the requests of the
creation and none of a call, and when `Finish` reads it, all of them, because each is in its window.

`FixtureSetupProofs` proves, for every set of histories, `TypeOK`, `CompleteOnSuccess` and
`NeverRejected`, and `NoDangling` for histories whose service scenarios have a node (`Staffed`;
section 6 says why). The lemmas `...Founded` say of each Setup,
for all counts, that what a call's objects refer to, and their namespace and account, is created
by an earlier call of the same Setup; that of the dnsendpoint fixture takes the first occurrence of a
namespace, which exists by well-founded induction on indices. `Progress` says that the earlier calls of an
uninterrupted run are complete, and of the current one everything that is no longer to do.

`RetriesLeaveNoTrace` proves `LeftAsDeclared`: by `TypeOK` nothing is stored but the objects of the scenarios run so far and
the API server's, by `Progress` the identity of every object of the scenario is there, and within one scenario the identity
determines the reference (`TaskShape`), so that the object of an earlier try is the one that this run would have made.

The same module holds the theorems about `Addresses`: no two objects get the same address for the same use, up to the counts that
INDEX.md promises (2^24 for pods), and which addresses are invalid: below those counts the parts of
an address are the digits of its index to the base 256.

`StartupProofs` proves, for every set of command lines of any length and of files with any number of scenarios
(`CommandLinesAssumption`, `DisksAssumption`), all properties of the run `startup`. Its
`IInv == TypeOK /\ LoadedOnce /\ ParsedSoFar /\ SelectedWell /\ SharedWell` says of each phase what it has made of its input.
`Precedence` needs `ParsedSoFar`: after each argument a flag has the value of its last occurrence among
those behind, or else its default; that the loop has passed a flag is what `TypeOK` does not know. `SelectedOne` needs
that `Defaults` returns every marked scenario and no other (`DefaultsFacts`), and that the rule of one default was
checked on the very configuration that is selected from (`LoadedOnce`). `SharesFit` is about `Distribute` for all counts and weights: `Layout` counts
the labels of each key and shows, turn by turn, that rounding down the quotas of `i` keys leaves at most `i` slots open,
which is where the excess of the last key comes from; `DistributedSuffices` says that there are labels enough even for negative weights, so that nil, of
weights that sum to zero, is all that can make `types[i]` panic.

`ReportingProofs` proves, for all inputs of the shape that `InputsAssumption` gives (a window for the setup and each iteration, a
scrape after each, lines with integers as values), all properties of the run `reporting`. Its
`IInv == Flow /\ Sampled /\ Windowed /\ Merged /\ Aggregated` carries through both merges what a summary *describes* (`Describes`): the number of
times, their extremes, figures in order, and a mean that has lost less than `2n - 1`. That last term is what makes the bound
inductive: a merge loses less than one, and both of its operands have at least one time. `MergeDescribes` is the step, `WindowDescribed`
the start; `Merged` and `Aggregated` say that the summaries so far describe the calls so far, those of
a key in the windows merged, those of a method over the keys no longer pending, in whatever order the map is ranged over.
`KeysDistinguish` is about the keys themselves, `Ranked` about percentiles, where `Sorted` is shown to exist by the least
value that `k` times do not exceed, and `Telescoped` about the sums of deltas. `Sampled` says that each delta is that of
the sample before, the baseline first, whatever was lost between.

`Loops` is what these two rest on: a recursive function over the turns of a loop exists (`LoopExists`), and what holds at
the start and is kept by every turn holds at the end. The library's induction theorems take an operator, which the provers cannot instantiate;
here the induction is over a *set* of naturals, and the set of the turns at which a claim holds is a term like any other. It follows
from the well-foundedness of the naturals, which WellFoundedInduction states.

Every invariant and every action property that a passing run checks is the conclusion of a theorem, `NoDangling` and
`AddressesAreValid` with the conditions named. Model-checked only: the liveness properties (`EventuallyReturns`, `CancelEnds`,
`Converges`, `Recovers`, `EventuallyEnds`), which are beyond the prover. Integers are unbounded in
`Startup` and `Reporting`: sums of durations, and counts times weights, are taken to be below 2^63.

## 5. Assumptions about the environment

- external-dns (not in this repository): `NewSource` returns after its informers
  have synced (the log line at app.go:205 says so), fails when ctx is done before that, and
  has by then received the answers to its own list requests; `Endpoints` likewise
  waits for the requests it makes. `OwnWindow` and the guard of `NewSource` depend on this.
- API server: optimistic concurrency by resourceVersion; a namespaced
  object needs its namespace; a pod needs the default service account. In
  `StatusUpdate` a request may be processed after its connection dropped; in
  `FixtureSetup` a failed create is stored at once or never.
- `kwokctl` and `kubectl` end, and succeed or fail; a `create` may succeed over a cluster of that name that is up (the
  run takes charge of it then) or fail and leave it as it was; a failed one may leave a partial
  cluster, a failed `delete` changes nothing.
- the scenario has at least one metric name (otherwise no scraper is made).
- exactly one scenario is run: not assumed by itself, `SelectedOne` checks it in `Startup`.
- the scenarios of the run `fixtures` that have pods bound to nodes have nodes.
- flag.Parse and encoding/json behave as documented: first non-flag argument ends the flags, the
  last occurrence counts, a field that the text leaves out keeps its value.

## 6. Disagreements found

Shown by runs (`findings` in `PROJECT.json` quotes the lines):

1. `fanout_nil`: helpers.go:135-138 leaves without an error, so nil does not mean that
   the fixtures exist. The consequence is contained: `ReportSound` holds in
   `Lifecycle`, because the source is then built with a ctx that is done.
2. `status_rerun`: a failure between `Create` and `UpdateStatus` cannot be repaired by a rerun.
3. `lifecycle_preserve`: `defer deleteCluster()` does not know about `onError`.
4. `measurement_labels`: one lost scrape shifts the labels of all later deltas.
5. `startup_inherit`: the first scenario of a file inherits `default: true`, iterations and counts
   from the built-in one where it leaves them out.

Read off the code, without a run because no interleaving is involved:

- helpers.go:113 promises "the first non-nil error encountered"; on cancellation
  `ctx.Err()` takes its place (helpers.go:129). `FanOut!Return` states the weaker promise.
- INDEX.md:128 has toxiproxy start after the fixtures; app.go:116-117 starts it before,
  and crd.go:81 hands the benchmark client to the dnsendpoint fixture, which creates its namespaces with it.
- service.go:44 says that nodes and services are created concurrently; Setup creates one after
  the other, as its own comment at service.go:55 explains.
- `nNodes = 0` creates no node (service.go:56) and binds every pod to `bench-node-0` (service.go:182,
  202), although service.go:45 says that pods "reference node names and must follow node creation".
  `ReferencesExist` is proved under the condition that excludes it.
- server.go:26-30: a metrics port that another process holds is only logged; that process is pinged and scraped.
- istio.go:116: after a rerun with more ingress services existing gateways keep the selector they
  had, since objects that exist are never updated.
- `ResourceCount` is the configured count, reported as the "number of source objects benchmarked" (report.go:49), but a
  source sees more than that: the gateway source the shared gateway, the service source the Service `default/kubernetes`
  that every API server makes (`KubernetesService`), and each of them what an earlier, larger run has left.
- `iterations` below one, or left out of any scenario but the first, gives `make` a negative capacity at bench.go:77
  after the whole setup; weights that sum to zero make the fixtures index nil, and a negative number of DNSEndpoints is the
  length of a slice (`PanicOnlyIfWritten`, a theorem, says that nothing else makes these steps panic).
- `--pause-ms`, `--warmup-timeout`, `--latency-ms`: defined with fs.Int (flags.go:54-60), they reject `500ms`, which their usage
  texts and cli-flags.md:34-36 say they accept. Only the file accepts it.
- `configFileFromArgs` takes the first `--config`, flag.Parse the last; the first is the one that is read.
- configFileFromArgs is there so that "--help is always handled by the full flag set" (flags.go:92);
  with a config file that does not load, `--help` exits with 1 before it.
- report.go:136 adds FirstCall to a WallTime that covers the warmup already (bench.go:71, 101).
- distribute.go:17 gives what rounding leaves to the last key, even if its weight is zero.
- pod.go:46 and dnsendpoint.go:81 give every 256th object a target that ends in 256 (`ValidAddress`).

## 7. Not modelled

- Text: the report's tables and rounding, the results file, the hints (runner/commands.go,
  app/print.go), the usage text, the rewriting of the log lines of `kwokctl` (cluster.go), the rendering of the
  bar. No state depends on it.
- The syntax of YAML and of the Prometheus format: modules start from what was written or
  what `parse` extracts.
- Labels and annotations other than the addresses, container specs.
- TLS and REST configuration, rate limits of the clients, the choice of the proxy's port and its
  toxics: they change when requests are answered, and every model leaves that open already.
- Wall-clock times: `Measurement` orders events, `Reporting` takes durations as given.
- The inside of external-dns, `kwokctl`, `kubectl`, KWOK and the API server, beyond section 5.

What could be added: one specification that composes `Startup`,
`Lifecycle` and `FixtureSetup` over several invocations, which the promises of section 2 stand for now.
