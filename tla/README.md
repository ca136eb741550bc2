# Verification of the recommendation engine

TLA+ models, TLC runs and TLAPS proofs for the recommendation engine: the name
service and its process, the life of the server processes, the channels of the
clients, the Browse call that goes through all of them, the scripts that start and
stop the whole, and the load test. `PROJECT.json` lists the runs, the
source lines behind every definition, the hazards and the proved theorems.

## 1. The system

| component | source | state | operations |
|---|---|---|---|
| name service, store | `src/registry/registry_store.cpp` | `records_` (hash map by service/instance), `rr_index_` per service, `mu_` | Upsert, Remove, Resolve, ListInstances, ListAll |
| name service, HTTP front | `registry_http_server.cpp` | the socket, one connection at a time | accept, read to the blank line, HandleRequest, answer |
| name service, client | `common/registry_client.cpp`, `http_util.cpp` | the registry's address | Register, Deregister, Resolve, ListInstances, ListAll over HttpRequest |
| name service, process | `registry_main.cpp` | the serving thread, `ready`, `g_shutdown` | start, wait for readiness, give up, stop |
| server processes | `ranking_main.cpp`, `video_main.cpp`, `browse_main.cpp` and the `*_server.cpp` | `mu_`, `server_`, `shutdown_requested_`, the signal flags | Run, StartListening, Shutdown, Reload, the control loop |
| registration | `common/server_registration.cpp` | `registered_`, `instance_id_` | RegisterBoundPort, Deregister, ResolveServiceAddress |
| configuration | `common/config.cpp` | the current snapshot | Reload, GetSnapshot, Require* |
| channel cache | `browse_client.cpp`, `ranking_client.cpp`, `video_client.cpp` | `target`, `channel`, `stub` under `mu` | constructor, ConnectLocked, Browse / Rank / Fetch |
| browse pipeline | the service and engine files of the three servers | none of its own | Browse, Ranking, Fetch |
| load balancer set-up | `tools/registry_ctl.cpp`, `tools/run_servers.sh`, `tools/stop_servers.sh` | the nginx configuration and pid, `logs/.pids` | ping, start_bg, setup-lb, stop-all |
| load test | `examples/browse_load_test` | options, worker processes, pipes, statistics | parse, fork, run, merge, report |
| agent, logging, protocol files, build | | | nothing that other parts depend on |

How they interact: a server binds a port, registers it by HTTP at the registry
named in its configuration snapshot, and deregisters when it is shut down. A
client call resolves the address of a service at the registry, gets a channel to
it from the cache it shares with the other calls of its process, waits for the
connection and sends the RPC. Browse calls Ranking, then Video. SIGHUP reloads
the configuration in a control thread, SIGINT shuts the server down from there.
`run_servers.sh` starts the registry if none runs and every server whose pid file
names no running process, has `setup-lb` register an entry per service and starts
nginx between the entries and the instances; `stop_servers.sh` has `stop-all`
signal and deregister what the registry lists, then stops nginx and the registry.

What is hard: the control thread and the main thread race over start and stop;
every call to the registry may fail before or after it took effect; the registry
forgets everything when it stops; names are used again by the next incarnation;
calls of one process replace and drop each other's channels; the order of a hash
map decides who gets the next request; reloads fall into running calls; each
step of a script acts on what an earlier step read, among servers that come and
go, and a script that fails leaves what it has done; a worker of the load test can
be killed at any point and hold a pipe that main waits for.

Some of this the code leaves as it is: a killed server's record stays, a register
request whose reply is lost is not taken back, a failed deregistration is not
repeated, a registry that starts again is empty, rankings fail while
`recommend_count` is unusable, and without expected videos every call is a success.
Such hazards are in the models and in `PROJECT.json`, with a note instead of a
property: nothing the repository says forbids them. The properties name them
as exceptions, so that they hide nothing else.

## 2. Modules

| module | what it is |
|---|---|
| `NameService` | the abstract name service: a book of records and what Resolve may answer |
| `RegistryStore` | the store, with iteration order, rehashing and the rotation index; implements `NameService` |
| `RegistryCalls` | the abstract call: at most one effect, success only after it |
| `RegistryHttp` | the process of the name service: main thread, accept loop, HttpRequest, in front of `NameService`; implements `RegistryCalls` |
| `ServerProcess` | main and control threads, registration, signals, faults of processes and registries |
| `ChannelCache` | the cached channel that concurrent calls share |
| `BrowseFlow` | a Browse call through the three servers, with reloads |
| `Deployment` | the scripts, nginx and the registry's records among servers that come and go |
| `Configuration` | lines, keys and integers of the configuration file |
| `LoadTest` | the load test: main, workers, pipes and the report; reads its file with `Configuration` |
| `MC*` | the small instances TLC checks |
| `*Proofs` | theorems and proofs about the module of that name |

### How they correspond to the code

**RegistryStore.** `records` is `records_`; `position` is the iteration order of
the hash map, which the code does not choose: an insertion may permute it
arbitrarily (a rehash), overwriting and erasing keep it. `rrIndex` counts modulo
`IndexModulus`, the width of `size_t`. `served` is a history variable with the
instances that had a turn in the current round; a round is over when the
instances or their order change, or when the index wraps. One action is one
method, executed under `mu_`.

**RegistryHttp.** `main` is the program counter of `main` in `registry_main.cpp`,
`loop` that of the serving thread, which runs `Run`; `serving` and `backlog` are
the accepted client and the listen queue. `Ready` is the flag of that name: it is
set after `listen` and never reset, so it follows from `loop`. Main gives up when
the flag is not set in time; the joinable thread then ends the process, which is
the same step. After a signal main returns with the serving thread detached
(`Leave`), and between that and the end of the process (`Exit`) the thread may
still answer, from a store that is destroyed. What it finds there is what the
standard library leaves, an empty table, and the process may also die; `Leave`
says so. The state of a client is that of `HttpRequest`. The read loop stops at
the blank line, so `ReadAndHandle` may run before the body is there
(`DeliverPiece`); the answer to such a request is a refusal, or an acceptance with
the end of the address missing (`Cut`). `ReadAndHandle` has the effect at the store and
`Answer` writes the response and closes the connection; in between either side may
die. `AcceptFails` may happen whenever the loop is at `accept`: whatever the error,
the loop ends and its socket is closed. The store is `NameService`, used through
`RegistryCalls!Perform`. An answer is delivered in one piece or not at all.

**ServerProcess.** `main` and `ctl` are the program counters of the two threads,
`mu` the owner of `mu_`. Steps that run under `mu_` without a registry call are
one action; a registry call is a request, its effect at the registry and the
return, with `mu_` held throughout. `snapshot` is the registry address in the
snapshot, `conf` that in the file. A process is one incarnation; `NameOf` says
which incarnations share a `RE_INSTANCE_NAME`. `BootFails` is a process that ends
before it has a server: no log, no configuration or, for ranking, no
`recommend_count`. `Faults` selects what may go wrong
so that a run can show what holds without it. `home`, `cause` and `alone` are history
variables; `alone` tells whether another process under the same name was alive, or had
a call under way, at the same time (`Sharing`). `restart_for_reload_` is never set in the code and has no action. The
stop block's Deregister is modelled by the request it would send, without `mu_` held
meanwhile; `StopFindsDeregistered` shows that it never sends one, so that there is
nothing to hold it for. `registry_ctl stop-all`,
which deregisters names from outside, is in `Deployment`.

**ChannelCache.** The three clients have the same cache and differ in the RPC.
A channel is an object with an identity that may be reused once no `shared_ptr`
refers to it, as the comparison `impl_->channel == channel` compares addresses.
The copies a call makes under the lock are `chan` and `chanStub`. The registry
answers any address of `listed`, which changes at any time.

**BrowseFlow.** A text is a sequence of digits or non-digits, `ValueUpTo` is the
parsing loop with its wrap-around, `Value` its result, `Decimal` is `std::to_string`. Each hop formats and
parses the ids again. A video is the pair of ids it names. A client call that fails for
whatever reason returns an empty list (`RankFails`, `FetchFails`), the engine asks for
no videos if nothing was ranked (`NothingRanked`), and `BrowseAnswers` tells a failure
from a success by the list of videos alone, as the service does. `recommendCount` is
read once per ranking, before its sleep.

**Deployment.** `script` and `step` are the program counter of the script that
runs and of its loop; a script begins when none runs, and ends as it stands when a
command fails (`set -e`, `Fail`): the registry does not answer, there are too few
ports, entries or instances, or nginx does not start. `NginxTooSlow` is the failure of
a script that started nginx and looked for its pid file too early: nginx runs on. `proc` and `port` are the server processes, one
per incarnation, reduced to what the scripts can see of `ServerProcess`: they come
up, register in place of whoever has the name, die, or close and deregister the
name. `instance` and `entry` are the two kinds of record. `picked` are the ports
`PickDistinctLoopbackPorts` found, which are free again when it returns; `draft`
is the configuration in the making, and `nginxs` the configurations of the nginx
processes that run, at most one of which `nginx.pid` names. In `stop-all` one step
lists the records and signals their processes, and `Forget` deregisters each half
a second later, in any order. `stop_servers.sh` calls `nginx -s quit` without the
file it was started with, so it may stop that nginx or not. `excused` is a history
variable: the processes whose record somebody other than their own end has taken.

**Configuration.** A line is whether it is a comment, whether it has a `=`, its
trimmed key, and its text; of a text only the integer at its start and whether
something follows is kept. `LoadedUpTo` is the loop of `LoadFromFile` over the lines, with the map after each.
The snapshot and its readers are in `ServerProcess` and `BrowseFlow`.

**LoadTest.** `main` and `worker` are program counters, `writers` the processes
that hold the write end of each pipe: `fork` copies what main has open. Reading is
over when the pipe has the record or nobody holds its write end. `ToInt` cuts a
`long` to an `int` as the code's cast does. Parsing ends with options, with `Refused`
(exit code 2) or with `Help` (exit code 0), whichever argument comes first. The
defaults of the options are a constant, small numbers in the run. `stats` is a worker's `WorkerStats`,
`total` the merged one; `calls` is a history variable with what really happened.
A call is answered with some number of videos, or not answered. `ParsedUpTo` is the
loop of `ParseArgs`; counts and sums are numbers, their widths are out of reach of
any test that ends.

## 3. Runs

| run | bounds | question |
|---|---|---|
| `RegistryStore` | 3 names of one service, 3 kinds, 2 addresses, a service without records, index modulo 5, symmetry | is the rotation fair, and does the store implement the name service? |
| `RegistryHttp` | 2 clients, 1 name: a server that registers and resolves, and `registry_ctl`, which deregisters and lists; fairness | do calls take effect at most once, is what is acknowledged stored, do calls and the registry end, whoever dies? |
| `ServerFaults` | 2 incarnations of one name, 1 registry, all faults but edits, fairness | which records can outlive their server, and does SIGINT end it? |
| `ServerMoves` | 2 incarnations of one name, 2 registries, edits, reloads, kills and lost requests; symmetry of processes and of registries | what do reloads and earlier incarnations do to registration? |
| `Channel` | 2 threads, 2 addresses, 3 channels, fairness | do calls keep to their channels, does the cache follow a new address? |
| `BrowseAnswers` | 1 call, 11 texts, ids modulo 32, 3 items, counts 0 to 3 or unusable | are answers complete and for the right user? |
| `Deployment` | 2 services, 3 names, 4 incarnations (2 of one name), 4 ports, symmetry of ports | what holds after a start or a stop, whatever dies in between? |
| `LoadTest` | 12 command lines, 7 files, 2 workers, 2 calls each, `int` of 3 bits, `long` to 13; fairness | does the report account for every worker and call? |
| `ServerEarlySigint`, `ServerMovedConf` | 1 process, 1 or 2 registries | violations, see below |
| `StopMissesServers`, `SoloAfterLb` | as `Deployment` | violations, see below |

Why the bounds suffice. Rotation: 5 is no multiple of 2 or 3, so the wrap of the
index falls inside a round, and three instances are the least for which a
permutation can starve one. Three names give entry, instance and a record of
another kind side by side, and a Resolve of the service without records must not see them. HTTP: each kind of request is there (listing instances
differs from listing all in the answer only), a call in the backlog waits for the
one being served, and a client runs any number of calls one after the other. Processes: two incarnations are an old and a new one; two registries are before
and after a move. Channels: one thread
waits or drops while another replaces; a thread may use one channel while the cache
holds a second and a third is made. Deployment: the scripts run any number of
times; two incarnations of one name are the old and the new one, the second
service is the one a loop has not reached yet or has already passed, and four ports
are those of two servers and two entries. Load test: two workers are a pipe
inherited by the other and a merge; two calls give a minimum and a maximum. Numbers
lie on both sides of `IntMax` and of `LongMax`, and every branch of parsing has a line. Browse:
calls share only the snapshot and `Reload` changes it at any time, so one call
sees all that others could do to it. The text "32" wraps to 0, "45" to 13.
Counters of the models are bounded by the code's own widths or reset by it, calls of
the load test by `MaxCalls`; no state constraint is used.

`CHECK_DEADLOCK FALSE`: a system whose processes have all exited, or whose
clients have all died, may stop; so may a load test that has ended and a
deployment without servers left to start.

### Properties

- `FairTurns`: an instance gets a second turn only after every other instance of
  its service had one, while no key is inserted, the instances stay the same and the
  index does not wrap.
- `ImplementsNameService`, `CallsTakeEffectOnce`: refinements, see above.
- `AckedAsSent`: an acknowledged registration is in the book under its name as it was
  sent; if the request came in pieces the end of the address may be missing, but
  nothing else.
- `EveryCallReturns`: a call that was written returns.
- `ReadyMeansBound`: main waits for a signal only if the registry listens.
- `SignalEndsRegistry`: a signal ends the registry, whatever its serving thread
  is blocked in.
- `RecordsLeadToServers`: a record leads to a server that accepts calls unless
  the process was killed, a register reply or a deregister request was lost, or
  its configuration moved.
- `RegisteredIsListed`: `registered_` tells the truth while no registry crashes
  and no other process uses the name at the same time. Incarnations that came before,
  however they ended and whatever record they left, do not disturb it.
- `StopFindsDeregistered`: Deregister is not called twice with effect.
- `ShutdownCompletes`: a SIGINT that is seen after Run began ends the process, with
  every fault but an edited configuration.
- `CallsGoWhereResolved`, `FailedChannelsGo`, `OnlyFailedAreDropped`,
  `CacheConverges`: what concurrent calls may and may not do to the cache.
- `OkIsComplete`, `CountOfOneSnapshot`, `RefusesOnlyNonUsers`: an OK answer has
  one video per ranked item in order, for the user the text denotes, as many as a
  `recommend_count` in force during the call; only texts that are no user id are
  refused.
- `UpMeansReachable`: after a start of the load balancer that succeeded, nginx
  listens on every entry and passes to addresses that instances of that very
  service had registered.
- `ServersStayListed`: however often the scripts run, a serving process keeps its
  record unless the registry ended, its name was deregistered or a stop missed it.
- `StoppedAreForgotten`: of what stop-all listed no process runs and no record is
  left, although names may be registered again while it works.
- `OptionsAsTyped`, `ExpectedAsWritten`: options and `recommend_count` are the
  last ones given, compared with a definition without a loop. A number that does not
  fit an `int` is cut; still there is a worker, main never pauses after every 0
  workers, and the sleeps are a range.
- `ReportAccounts`, `SuccessesWereAnswered`, `ZeroMeansAllGood`,
  `LatenciesAreRight`: what the report and the exit code say of the workers, with
  the exceptions the code makes: a call without an answer is a success if no videos
  are expected, and once a call took 0 ms the minimum may be a later time. Minimum and
  maximum are always times of successful calls, and none took longer than the maximum.
- `MainEnds`: the load test ends, whichever workers are killed and whenever.

### What the code does not do

- `ServerEarlySigint`: `Run` resets `shutdown_requested_`. If the control thread
  called `Shutdown` before, the server registers afterwards, stays, and nothing
  watches for SIGINT any more (`ranking_server.cpp:53`).
- `ServerMovedConf`: `Deregister` uses the snapshot of the moment, so after a
  reload the record can stay at the old registry (`server_registration.cpp:65`).
- `StopMissesServers`: `stop_servers.sh:52` says that all services are stopped.
  `stop-all` knows only what is registered when it looks: a server that registers
  later, or one whose record went with a crashed registry, serves on, and its pid
  file is gone (`registry_ctl.cpp:221`).
- `SoloAfterLb`: `run_servers.sh:139` says that clients resolve instances. After a
  `setup-lb` that failed its entries are still there, the registry is kept, and
  `Resolve` prefers entries (`registry_ctl.cpp:204`).

### Fairness

- `ServerProcess`: both threads are scheduled (they never block but on `mu_`,
  `Wait` and the registry), and a registry call ends: it is served, or fails. The
  code has no timeout there, so a registry that accepts and never answers would hang Shutdown. A
  process need not start, and nothing is assumed of signals and faults. The drain
  ends because the calls in flight do.
- `RegistryHttp`: both threads of the registry run, clients write what they
  connected for and read the answer, the network delivers; nobody need start, signal
  or kill a registry. A client that stays connected and silent would block everyone:
  the loop has no timeout, and the property is about clients that do not do that,
  but may die at any point.
- `ChannelCache`: threads run, a wait succeeds or times out (it has a deadline), an
  RPC ends (it has none), and clients keep calling.
- `LoadTest`: main and the workers are scheduled and a call of Browse ends, as in
  `ChannelCache`. Workers need not be killed.
- `Deployment`: none; its properties are safety.

## 4. Proofs

All proofs are for arbitrary constants, under the named assumptions of the modules,
which TLC evaluates on the runs: names and services are consistent, the set of keys is
finite, the index modulus is positive, null values are distinct from real ones, there
are more channel objects than threads, items are ids, and, of the load test, that
inputs are sequences with integers in them, the defaults are options that parsing
would accept and no accepted command line asks for more than `MaxWorkers`. Every invariant and every action
property a passing run checks, and both refinements, are theorems.

- `RegistryStoreProofs`: `TypeCorrect` by induction, with the lemma that whatever
  disturbs the instances of a service also ends its round (`RoundsStayCurrent`).
  `Implements` maps `records` to `book`: each action of the store is one of
  the name service or a stutter; the turn taken is an instance, and the
  absence of entries is the guard of the abstract answer. `TurnsAreFair` needs to know
  where the round began: `Rounds` says that the instances served are those whose
  place is an index from some `b` on, modulo their number, and that the index is at
  most that number past `b`. An instance is met again only when the index has gone
  round (`NextOfRemainder`), and then everyone was met (`EveryRemainder`).
- `RegistryHttpProofs`: `IInv` adds how the two threads' positions go together
  (`Threads`), that a connection is in one place, in the backlog or served
  (`OnePlace`), that its request is handled once (`AnsweredOnce`), and what an idle and a
  calling client have. `ReadyWhenBound` and `AcknowledgedAsSent` follow.
  `ImplementsRegistryCalls` maps each step of the process, with its reading,
  refusing, dying and resetting, to a step of `RegistryCalls` or a stutter: only
  `ReadAndHandle` performs an operation, on a request that was not handled before.
- `ServerProcessProofs`: `RecordsLeadToServers` is not inductive. `IInv` adds
  how the two threads' positions fit together and with `mu_` (`Threads`), which
  server state and flag go with each position (`ServerPhase`), which call is out
  at each position and where it goes (`CallPhase`), and where the record of each
  process can be (`RecordPlace`): at `home`, or where its register call is out.
  `Inductive` combines one lemma per part; each has one step per action.
  `RecordsLead` and `StopDeregistered` follow from `IInv`. For `RegisteredListed`
  the invariant `Listed` speaks of a process that has its name for itself: its record
  is there when `registered_` is set, and already when the reply is under way. `Solo`
  says what that is: no other process of the name lives or has a call under way, and
  only `Boot` can end it (`OnlyBootWakes`).
- `ChannelCacheProofs`: `IInv` adds to the invariants that the stub belongs to the
  cached channel, that the cached channel leads to `target`, and that a thread
  about to drop has a failed channel. Then `CallsGo`, `FailedGo` and `DropsOwn`.
- `BrowseFlowProofs`: two lemmas carry the proof. `ValueOf` says what one digit more
  does to the parsed value, and `RoundTrip` that parsing what was formatted gives the
  number back, for every width of the ids. `IInv` then says what a call has found out at
  each step (`Progress`); for an OK answer that it has parsed, ranked and fetched.
  `OkComplete`, `CountFromOneSnapshot` and `OnlyNonUsersRefused` follow.
- `DeploymentProofs`: none of the three safety properties is inductive. `Standing`
  adds that a record bears the name of a process that has served, and that the pid
  file of a name is that of its living process unless that one is excused; this is
  why `start_bg` never starts a second process beside one that has its record.
  `Forgetting` says, at every step of a stop, that what was listed has ended and is
  either still to be forgotten or no longer there. `Drafting` says what the
  configuration in the making has at each step of `setup-lb`: the entries as
  registered, or since forgotten, and only processes of the service, which needs
  `Standing`. One lemma per part and per group of actions, then `StayListed`,
  `ListedAreForgotten` and `UpIsReachable`.
- `LoadTestProofs`: the loops first. `TakenUpTo` is the invariant of the loop over the
  arguments, `FileLoaded` that of the loop over the lines, `Cut` shows that cutting to
  an `int` is harmless on what fits one. `Own` says that the statistics of
  a worker are those of its calls (`OneCall` for each call), `Pipes` that a worker
  holds its pipe while it lives, so that main finds a pipe without a record only if
  the worker was killed, and `Merged` that the report so far is the sum, the
  minimum and the maximum over the workers collected so far. `SumGrows` and
  `MergedExtremes` are the step of the induction, the five theorems on the report
  its end.

Parsing, formatting and summing are written as recursive functions over the turns of
a loop (`ValueUpTo`, `Decimal`, `ParsedUpTo`, `LoadedUpTo`, `SumUpTo`). That such a function
exists, and what it computes, is proved by the least counterexample: a nonempty
set of numbers has a least one (`LeastNumber`, from the well-foundedness of `<`).
The library's induction theorems take an operator as a parameter and cannot be used.

Model-checked only: what must happen (`EveryCallReturns`, `SignalEndsRegistry`,
`ShutdownCompletes`, `CacheConverges`, `MainEnds`), because the prover handles neither
fairness nor ENABLED; and the four violations, which are counterexamples. A proof
shows a model right, not the program: that is up to the comparison with the code.

## 5. Not modelled

JSON, HTTP headers, ports as numbers, logging and the binding of sockets; gRPC
below a channel that leads somewhere and a wait that succeeds or times out; an
nginx that ends by itself; the reuse of a pid by a process that is none of ours;
two scripts at once; servers that are started by hand while a script runs. Of the
load test: the pauses between calls and forks, for which `--stagger-ms` and the sleeps
are parsed and never waited; what `--verbose` prints; which file `--config` names, any
file of the run being possible; the printed report and usage; and what workers do after
main has gone, which nobody reads. Of the configuration: the memory
order of the shared pointer. The agent passes one call on and keeps no state;
generated code and build files have no behaviour of their own.

## 6. Plan

Done, in this order: the name service and its store, the server processes, the
channel cache, the HTTP front and the registry's main thread, the browse pipeline,
the deployment scripts, the configuration rules, the load test, and the proofs above.

Next:

1. A composition of `ServerProcess` and `ChannelCache`: calls that resolve while
   servers come and go, and what of both its proofs can use of the two that exist.
2. An abstract specification of the report of the load test, and of an answer of
   Browse, with the refinements: the invariants they would need are proved.
3. Proofs of the safety part of what is only model-checked: for each liveness
   property, that the step it waits for is possible or will be, as an invariant.
