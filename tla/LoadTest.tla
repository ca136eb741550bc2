------------------------------ MODULE LoadTest ------------------------------
(***************************************************************************)
(* The load test (examples/browse_load_test): main reads its options and   *)
(* the configuration, forks the workers with a pipe each, collects what    *)
(* they write in the order they were forked, and reports.  A worker sends  *)
(* Browse calls one after the other and writes its statistics at the end;  *)
(* it may be killed at any point.                                          *)
(*                                                                         *)
(* A pipe is at its end when no process holds its write end any more: a    *)
(* fork hands on every descriptor main has open.  A record of statistics   *)
(* is shorter than PIPE_BUF and arrives whole.  MaxCalls bounds the calls  *)
(* of a worker, Latency and Answers what a call can be.                    *)
(***************************************************************************)
EXTENDS Configuration, FiniteSets

CONSTANTS
  ArgLists,     \* the command lines: sequences of [name, text]
  Files,        \* the configuration files: sequences of lines
  CountKey,     \* "recommend_count"
  LongMax,      \* LONG_MAX, where strtol stops
  Defaults,     \* the options of an empty command line
  MaxWorkers,   \* the largest number of workers of a command line
  MaxCalls,
  Answers,      \* the numbers of videos the servers answer with
  Latency       \* the milliseconds a call takes

Worker == 1 .. MaxWorkers
Main == 0

ASSUME LongMaxAssumption == LongMax \in Nat /\ LongMax >= IntMax
\* Command lines and files are sequences, of arguments with an integer and of lines.
ASSUME InputAssumption ==
  /\ \A list \in ArgLists :
       /\ Len(list) \in Nat /\ DOMAIN list = 1..Len(list)
       /\ \A i \in DOMAIN list : list[i].text.value \in Int
  /\ \A f \in Files : Len(f) \in Nat /\ DOMAIN f = 1..Len(f)

ASSUME MaxAssumption == MaxWorkers \in Nat \ {0} /\ MaxCalls \in Nat \ {0}
ASSUME CallAssumption == Answers \subseteq Nat /\ Latency \subseteq Nat

VARIABLES
  args, file,   \* what main was given; dropped when it has been read
  main,         \* where main is
  options,
  expected,     \* expected_videos
  next,         \* the worker main is about
  got,          \* ReadWorkerStats succeeded
  total, crashed,
  exit,         \* the exit code
  worker,       \* where each worker is
  stats,        \* its statistics
  writers,      \* the processes that hold the write end of its pipe
  pipe,         \* it has been written to the pipe
  calls         \* history: the calls a worker made; ms only of successes

inputVars == <<args, file>>
mainVars == <<main, next, got, total, crashed, exit>>
workerVars == <<worker, stats, pipe, calls>>
vars == <<inputVars, mainVars, options, expected, workerVars, writers>>

-----------------------------------------------------------------------------
(* Options *)

\* The options with a number.  staggerMs and the sleeps are only waited for.
Option == {"workers", "duration", "minSleep", "maxSleep", "staggerBatch", "staggerMs"}

ASSUME DefaultsAssumption ==
  /\ Defaults \in [Option -> 0..IntMax]
  /\ Defaults.workers \in 1..MaxWorkers
  /\ Defaults.staggerBatch > 0
  /\ Defaults.minSleep <= Defaults.maxSleep

\* Mutant of ToInt: the options are unsigned ints.
ToUnsigned(v) == v % (2 * (IntMax + 1))

\* strtol stops at LONG_MAX and the result is cut to an int.
Strtol(text) == IF text.value > LongMax THEN LongMax ELSE text.value
ToInt(v) == ((v + IntMax + 1) % (2 * (IntMax + 1))) - (IntMax + 1)

\* Mutant of IsNonNegative: a sign is not looked at.
IsNumber(text) == text.isNumber /\ ~text.more

IsNonNegative(text) == text.isNumber /\ ~text.more /\ Strtol(text) >= 0

\* How parsing may end early: exit(2), or the usage and exit code 0.
Refused == [refused |-> TRUE]
Help == [help |-> TRUE]
Ended == {Refused, Help}

\* One turn of the loop.  --verbose and --config change nothing that is modelled
\* here: file is the one --config names.  A name without the value it needs is like
\* an unknown one.
ParseArg(opts, arg) ==
  IF opts \in Ended THEN opts
  ELSE IF arg.name = "help" THEN Help
  ELSE IF arg.name \in {"verbose", "config"} THEN opts
  ELSE IF arg.name \notin Option \/ ~IsNonNegative(arg.text) THEN Refused
  ELSE LET v == ToInt(Strtol(arg.text)) IN
       IF arg.name = "staggerBatch" /\ v <= 0 THEN Refused ELSE [opts EXCEPT ![arg.name] = v]

\* The options after each turn.
ParsedUpTo(list) ==
  LET opts[i \in 0..Len(list)] == IF i = 0 THEN Defaults ELSE ParseArg(opts[i - 1], list[i])
  IN  opts

ParseArgs(list) ==
  LET opts == ParsedUpTo(list)[Len(list)] IN
  IF opts \in Ended THEN opts
  ELSE IF opts.workers <= 0 \/ opts.maxSleep < opts.minSleep THEN Refused ELSE opts

ASSUME WorkersAssumption ==
  \A list \in ArgLists : ParseArgs(list) \notin Ended => ParseArgs(list).workers <= MaxWorkers

-----------------------------------------------------------------------------
(* Statistics *)

NoStats == [ok |-> 0, fail |-> 0, sum |-> 0, min |-> 0, max |-> 0]

Least(a, b) == IF a < b THEN a ELSE b
Greatest(a, b) == IF a > b THEN a ELSE b

\* A minimum of 0 stands for none.
LeastOf(a, b) == IF a = 0 THEN b ELSE Least(a, b)

RecordRpc(st, good, ms) ==
  IF good
  THEN [st EXCEPT !.ok = @ + 1, !.sum = @ + ms, !.min = LeastOf(@, ms), !.max = Greatest(@, ms)]
  ELSE [st EXCEPT !.fail = @ + 1]

\* Mutant of Merge: a worker without a minimum has the minimum 0.
MergeAll(into, add) ==
  [ok |-> into.ok + add.ok, fail |-> into.fail + add.fail, sum |-> into.sum + add.sum,
   min |-> Least(into.min, add.min), max |-> Greatest(into.max, add.max)]

Merge(into, add) ==
  [ok |-> into.ok + add.ok, fail |-> into.fail + add.fail, sum |-> into.sum + add.sum,
   min |-> IF add.min > 0 THEN LeastOf(into.min, add.min) ELSE into.min,
   max |-> Greatest(into.max, add.max)]

-----------------------------------------------------------------------------
Init ==
  /\ args \in ArgLists
  /\ file \in Files
  /\ main = "args"
  /\ options = Defaults
  /\ expected = 0
  /\ next = 1
  /\ got = FALSE
  /\ total = NoStats
  /\ crashed = 0
  /\ exit = -1
  /\ worker = [w \in Worker |-> "none"]
  /\ stats = [w \in Worker |-> NoStats]
  /\ writers = [w \in Worker |-> {}]
  /\ pipe = [w \in Worker |-> FALSE]
  /\ calls = [w \in Worker |-> <<>>]

\* main returns or exits: its descriptors are closed.
Leave(code) ==
  /\ main' = "ended"
  /\ exit' = code
  /\ writers' = [w \in Worker |-> writers[w] \ {Main}]

-----------------------------------------------------------------------------
(* main *)

ReadArgs ==
  /\ main = "args"
  /\ ParseArgs(args) \notin Ended
  /\ options' = ParseArgs(args)
  /\ main' = "config"
  /\ UNCHANGED <<inputVars, expected, next, got, total, crashed, exit, workerVars, writers>>

RefuseArgs ==
  /\ main = "args"
  /\ ParseArgs(args) = Refused
  /\ Leave(2)
  /\ UNCHANGED <<inputVars, options, expected, next, got, total, crashed, workerVars>>

\* -h or --help, unless something was refused before it.
ShowHelp ==
  /\ main = "args"
  /\ ParseArgs(args) = Help
  /\ Leave(0)
  /\ UNCHANGED <<inputVars, options, expected, next, got, total, crashed, workerVars>>

\* ExpectedVideoCount
ReadConfig ==
  /\ main = "config"
  /\ LET kv == LoadFromFile(file) IN
       /\ HasNonNegativeInt(kv, CountKey)
       /\ expected' = kv[CountKey].value
  /\ main' = "fork"
  /\ UNCHANGED <<inputVars, options, next, got, total, crashed, exit, workerVars, writers>>

RefuseConfig ==
  /\ main = "config"
  /\ ~HasNonNegativeInt(LoadFromFile(file), CountKey)
  /\ Leave(1)
  /\ UNCHANGED <<inputVars, options, expected, next, got, total, crashed, workerVars>>

\* The child holds what main holds: the new write end, and those main has not
\* closed.
Fork ==
  /\ main = "fork"
  /\ next <= options.workers
  /\ args' = <<>>
  /\ file' = <<>>
  /\ worker' = [worker EXCEPT ![next] = "starting"]
  /\ writers' = [w \in Worker |-> IF w = next THEN {Main, next}
                                  ELSE IF Main \in writers[w] THEN writers[w] \cup {next} ELSE writers[w]]
  /\ main' = "close"
  /\ UNCHANGED <<next, got, total, crashed, exit, options, expected, stats, pipe, calls>>

\* Mutant of CloseWriteEnd: main keeps the write end.
KeepWriteEnd ==
  /\ main = "close"
  /\ next' = next + 1
  /\ main' = "fork"
  /\ UNCHANGED <<inputVars, got, total, crashed, exit, options, expected, workerVars, writers>>

CloseWriteEnd ==
  /\ main = "close"
  /\ writers' = [writers EXCEPT ![next] = @ \ {Main}]
  /\ next' = next + 1
  /\ main' = "fork"
  /\ UNCHANGED <<inputVars, got, total, crashed, exit, options, expected, workerVars>>

\* pipe() or fork() fails: the workers there are go on without main.
ForkFails ==
  /\ main = "fork"
  /\ next <= options.workers
  /\ Leave(1)
  /\ UNCHANGED <<inputVars, options, expected, next, got, total, crashed, workerVars>>

AllForked ==
  /\ main = "fork"
  /\ next > options.workers
  /\ main' = "read"
  /\ next' = 1
  /\ UNCHANGED <<inputVars, got, total, crashed, exit, options, expected, workerVars, writers>>

\* ReadWorkerStats returns: the pipe has all of it, or is at its end.
ReadStats ==
  /\ main = "read"
  /\ next <= options.workers
  /\ pipe[next] \/ writers[next] = {}
  /\ got' = pipe[next]
  /\ main' = "wait"
  /\ UNCHANGED <<inputVars, next, total, crashed, exit, options, expected, workerVars, writers>>

\* Mutant of WaitFor: statistics count even if the worker was killed after
\* it wrote them.
WaitForAny ==
  /\ main = "wait"
  /\ worker[next] \in {"exited", "killed"}
  /\ total' = IF got THEN Merge(total, stats[next]) ELSE total
  /\ crashed' = IF got /\ worker[next] = "exited" THEN crashed ELSE crashed + 1
  /\ next' = next + 1
  /\ main' = "read"
  /\ UNCHANGED <<inputVars, got, exit, options, expected, workerVars, writers>>

\* waitpid returns: what a worker wrote counts if it then exited.
WaitFor ==
  /\ main = "wait"
  /\ worker[next] \in {"exited", "killed"}
  /\ IF got /\ worker[next] = "exited"
     THEN total' = Merge(total, stats[next]) /\ UNCHANGED crashed
     ELSE crashed' = crashed + 1 /\ UNCHANGED total
  /\ next' = next + 1
  /\ main' = "read"
  /\ UNCHANGED <<inputVars, got, exit, options, expected, workerVars, writers>>

\* Mutant of Report: only the failed calls decide.
ReportCalls ==
  /\ main = "read"
  /\ next > options.workers
  /\ Leave(IF total.fail > 0 THEN 1 ELSE 0)
  /\ UNCHANGED <<inputVars, options, expected, next, got, total, crashed, workerVars>>

Report ==
  /\ main = "read"
  /\ next > options.workers
  /\ Leave(IF crashed > 0 \/ total.fail > 0 THEN 1 ELSE 0)
  /\ UNCHANGED <<inputVars, options, expected, next, got, total, crashed, workerVars>>

-----------------------------------------------------------------------------
(* Workers *)

\* What workers do once main has ended is read by nobody, and left out.
At(w, places) == main # "ended" /\ worker[w] \in places

\* Logging or the configuration cannot be set up: a failure of its own.
StartFails(w) ==
  /\ At(w, {"starting"})
  /\ worker' = [worker EXCEPT ![w] = "writing"]
  /\ stats' = [stats EXCEPT ![w].fail = @ + 1]
  /\ UNCHANGED <<inputVars, mainVars, options, expected, pipe, calls, writers>>

Start(w) ==
  /\ At(w, {"starting"})
  /\ worker' = [worker EXCEPT ![w] = "running"]
  /\ UNCHANGED <<inputVars, mainVars, options, expected, stats, pipe, calls, writers>>

\* Mutant of IsOk: any videos will do.
IsAnswer(videos) == videos > 0

IsOk(videos) == videos = expected

\* run_once: an unanswered call returns no videos.
Call(w) ==
  /\ At(w, {"running"})
  /\ Len(calls[w]) < IF options.duration <= 0 THEN 1 ELSE MaxCalls
  /\ \E answered \in BOOLEAN, n \in Answers, ms \in Latency :
       LET videos == IF answered THEN n ELSE 0 IN
         /\ stats' = [stats EXCEPT ![w] = RecordRpc(@, IsOk(videos), ms)]
         /\ calls' = [calls EXCEPT ![w] = Append(@,
                [answered |-> answered, videos |-> videos, ms |-> IF videos = expected THEN ms ELSE 0])]
  /\ UNCHANGED <<inputVars, mainVars, options, expected, worker, pipe, writers>>

\* The deadline has passed, or the only call is made.
Finish(w) ==
  /\ At(w, {"running"})
  /\ options.duration <= 0 => calls[w] # <<>>
  /\ worker' = [worker EXCEPT ![w] = "writing"]
  /\ UNCHANGED <<inputVars, mainVars, options, expected, stats, pipe, calls, writers>>

Write(w) ==
  /\ At(w, {"writing"})
  /\ worker' = [worker EXCEPT ![w] = "written"]
  /\ pipe' = [pipe EXCEPT ![w] = TRUE]
  /\ UNCHANGED <<inputVars, mainVars, options, expected, stats, calls, writers>>

Exit(w) ==
  /\ At(w, {"written"})
  /\ worker' = [worker EXCEPT ![w] = "exited"]
  /\ writers' = [v \in Worker |-> writers[v] \ {w}]
  /\ UNCHANGED <<inputVars, mainVars, options, expected, stats, pipe, calls>>

\* Killed: what it has not written is lost.
Die(w) ==
  /\ At(w, {"starting", "running", "writing", "written"})
  /\ worker' = [worker EXCEPT ![w] = "killed"]
  /\ writers' = [v \in Worker |-> writers[v] \ {w}]
  /\ calls' = [calls EXCEPT ![w] = <<>>]
  /\ stats' = IF pipe[w] THEN stats ELSE [stats EXCEPT ![w] = NoStats]
  /\ UNCHANGED <<inputVars, mainVars, options, expected, pipe>>

-----------------------------------------------------------------------------
MainStep ==
  \/ ReadArgs
  \/ RefuseArgs
  \/ ShowHelp
  \/ ReadConfig
  \/ RefuseConfig
  \/ Fork
  \/ CloseWriteEnd
  \/ ForkFails
  \/ AllForked
  \/ ReadStats
  \/ WaitFor
  \/ Report

WorkerStep(w) ==
  \/ StartFails(w)
  \/ Start(w)
  \/ Call(w)
  \/ Finish(w)
  \/ Write(w)
  \/ Exit(w)

Next ==
  \/ MainStep
  \/ \E w \in Worker : WorkerStep(w)
  \/ \E w \in Worker : Die(w)

\* A call returns in the end, although Browse gives its RPC no deadline, and the
\* clock goes on.
Fairness ==
  /\ WF_vars(MainStep)
  /\ \A w \in Worker : WF_vars(WorkerStep(w))

Spec == Init /\ [][Next]_vars /\ Fairness

-----------------------------------------------------------------------------
TypeOK ==
  /\ main \in {"args", "config", "fork", "close", "read", "wait", "ended"}
  /\ DOMAIN options = Option
  /\ \A o \in DOMAIN options : options[o] \in Int32
  /\ expected \in Nat
  /\ next \in 1 .. MaxWorkers + 1
  /\ got \in BOOLEAN
  /\ crashed \in 0 .. MaxWorkers
  /\ exit \in -1 .. 2
  /\ worker \in [Worker -> {"none", "starting", "running", "writing", "written", "exited", "killed"}]
  /\ \A w \in Worker : DOMAIN stats[w] = DOMAIN NoStats /\ stats[w].ok + stats[w].fail <= MaxCalls
  /\ writers \in [Worker -> SUBSET (Worker \cup {Main})]
  /\ pipe \in [Worker -> BOOLEAN]

(***************************************************************************)
(* A number that fits an int is taken as it was typed, the last one if an  *)
(* option is given twice, and none is negative.  One that does not fit is  *)
(* cut, and may turn out negative or 0; still there is a worker, main      *)
(* never pauses after every 0 workers, and the sleeps are a range: the     *)
(* checks see what is used.                                                *)
(***************************************************************************)
LastOf(list, name) == list[CHOOSE i \in DOMAIN list :
  list[i].name = name /\ \A j \in DOMAIN list : list[j].name = name => j <= i]

OptionsAsTyped ==
  main = "config" =>
    /\ \A o \in Option :
         IF \E i \in DOMAIN args : args[i].name = o
         THEN LastOf(args, o).text.value <= IntMax =>
                options[o] = LastOf(args, o).text.value /\ options[o] >= 0
         ELSE options[o] = Defaults[o]
    /\ options.workers > 0 /\ options.staggerBatch > 0 /\ options.minSleep <= options.maxSleep

(***************************************************************************)
(* The number of videos the test expects stands on the last line that      *)
(* sets recommend_count, comments and lines without a key left aside.      *)
(***************************************************************************)
ExpectedAsWritten ==
  main = "fork" /\ file # <<>> =>
    \E i \in DOMAIN file :
      /\ IsSetting(file[i]) /\ file[i].key = CountKey
      /\ \A j \in DOMAIN file : j > i /\ IsSetting(file[j]) => file[j].key # CountKey
      /\ file[i].text.value = expected

-----------------------------------------------------------------------------
(* What the report says *)

Reported == main = "ended" /\ next > options.workers
Whole == {w \in Worker : worker[w] = "exited" /\ w <= options.workers}
GoodCalls(w) == {i \in DOMAIN calls[w] : calls[w][i].answered /\ calls[w][i].videos = expected}

\* The sum of a function of the workers, up to each of them.
SumUpTo(f) ==
  LET sum[w \in 0..MaxWorkers] == IF w = 0 THEN 0 ELSE sum[w - 1] + f[w] IN sum

SumOf(f) == SumUpTo(f)[MaxWorkers]
OfWhole(f) == SumOf([w \in Worker |-> IF w \in Whole THEN f[w] ELSE 0])

(***************************************************************************)
(* Every worker is in the report once: with all it did if it wrote its     *)
(* statistics and exited, as crashed otherwise, whenever it was killed.    *)
(***************************************************************************)
ReportAccounts ==
  Reported =>
    /\ crashed = options.workers - Cardinality(Whole)
    /\ total.ok + total.fail =
         OfWhole([w \in Worker |-> IF calls[w] = <<>> THEN stats[w].fail ELSE Len(calls[w])])

(***************************************************************************)
(* Unless no videos are expected, a success is a call the servers have     *)
(* answered with the expected number of videos.  (If none are expected an  *)
(* unanswered call is a success too: Browse returns an empty list.)        *)
(***************************************************************************)
SuccessesWereAnswered ==
  Reported /\ expected > 0 => total.ok = OfWhole([w \in Worker |-> Cardinality(GoodCalls(w))])

(***************************************************************************)
(* Exit code 0 after the report: no worker crashed and no call failed.     *)
(***************************************************************************)
ZeroMeansAllGood ==
  Reported /\ exit = 0 =>
    \A w \in 1 .. options.workers :
      worker[w] = "exited" /\ \A i \in DOMAIN calls[w] : calls[w][i].videos = expected

(***************************************************************************)
(* The minimum and the maximum of the report are times of successful       *)
(* calls, in whatever order workers were merged, and none took longer than *)
(* the maximum.  None was faster than the minimum, if none took 0 ms: 0    *)
(* also stands for no minimum, so that the first time after it counts.     *)
(***************************************************************************)
TimesOf(w) == {calls[w][i].ms : i \in {j \in DOMAIN calls[w] : calls[w][j].videos = expected}}
Times == UNION {TimesOf(w) : w \in Whole}

LatenciesAreRight ==
  Reported /\ Times # {} =>
    /\ total.min \in Times /\ total.max \in Times
    /\ \A t \in Times : t <= total.max /\ (0 \notin Times => total.min <= t)

(***************************************************************************)
(* main ends, whichever workers are killed and whenever: no other process  *)
(* keeps a dead worker's pipe open.                                        *)
(***************************************************************************)
MainEnds == <>(main = "ended")
=============================================================================
