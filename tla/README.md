# Verification of lustre_client_exporter

TLA+ models, TLC runs and TLAPS proofs of the Prometheus exporter for Lustre
clients in `../src`. `PROJECT.json` maps every definition to the lines it
translates. Paths below are relative to `src/`.

## 1. The system

    net/http, promhttp, Gather          one goroutine per HTTP scrape      (external)
      collector/collector.go            Registry.Collect: fan out, wait, total
        collector/{client,lnet,...}.go  one goroutine per collector and scrape
          internal/discovery            which files there are
          internal/reader               files, globs and commands under a deadline
          internal/parser               file -> observations
          internal/mapper               observation -> public metric and label values
          internal/emitter              -> prometheus.Metric

Calls go down, values come back. What is shared: between scrapes, the totals of
the scrape durations (`Registry.durations` under `durationMu`) and the cache of
descriptors (`descCache` under `descCacheMu`); between the collectors of one
scrape, its context, its `WaitGroup`, its channel and its map of durations
(under `scrapeDurationMu`); with the world, files that hang, appear and vanish
at any moment. Nothing is persisted and nothing is retried.

| Component | State | Operations | What is hard | What makes it correct |
|---|---|---|---|---|
| Registry | totals; per scrape: WaitGroup, durations, channel | `Collect`, `observeScrapeDurations` | overlapping scrapes, three kinds of synchronisation, hung collectors, strict mode | no duration lost or counted twice, totals never go back, nothing sent after return, complete answers, a hung scrape blocks nobody |
| Reader | goroutine and channel per read, process and pipe per command | `ReadFile`, `Glob`, `RunCommand` | hung system calls, late answers, grandchildren that keep a pipe, two nested deadlines | returns in time, leaves one goroutine at most, gives up nothing early |
| Emitter | `descCache`, RWMutex | `getDesc`, `Emit` | double-checked insertion into a map | no raced access, one descriptor per key, all or nothing |
| LNet collector | recorded source, observations | `Collect` in three modes | fallbacks that depend on which of five sources failed how, and on the time left | no message counted twice or not at all, the label names the source used, optional sources cost nothing |
| Client collector | observations | `Collect` | targets (un)mounted between discovery and read, failures with five different consequences | the verdict table of `docs/metrics.md`, one failure costs one source |
| Discovery | `clientIndex` | `DiscoverClients` | a target seen under several roots, by either of two files, at different moments | one target, with the paths of the first root |
| rpc_stats parser | section, operation, pending operation | `ParseRPCStats` | lines whose meaning depends on lines far above | every line means what a stateless definition says |
| Other parsers | none | `Parse*` | which line spoils its file, which is passed over; which of two places of a file counts | a file is in the answer as a whole or not at all; the current state, none of the history |
| Mapper | constant table | `Map` | three tables written down apart (files, identifiers, public metrics); identifiers that share a public name; labels that are dropped or filled without a word | every observation has the labels of its metric, every metric a source, no two sources the same series, the documented queries join |
| health, sptlrpc, lpcc | none | `Collect` | none of their own | one file lost costs nothing else |
| main.go | command line | validation, wiring | sequential | an invalid command line serves nothing |

## 2. Modules

| Module | Models | State and actions |
|---|---|---|
| `Registry` | `collector/collector.go` | One action per access to shared state: spawn, `recordScrapeSource`, return of `c.Collect`, sends, lock/load/store of `scrapeDurations`, `wg.Done`, `wg.Wait`, lock/load/store/unlock of `durations`, sending, return. `Answer` is Gather and promhttp (external). |
| `ScrapeTotals` | the promise of the summaries | One action: a scrape adds all its durations at one instant and reports what it has just made. |
| `RegistryRefinement` | | `Registry` implements `ScrapeTotals`; the mapping hides what the holder of `durationMu` has stored so far, so the instant is the unlock. |
| `Reader` | `internal/reader/reader.go` | Collector runs that make reads and commands in any order, a clock, the contexts, the goroutine and channel of every read, the process, pipe and WaitDelay timer of a command. os/exec is external, modelled as `RunCommand` uses it. |
| `Emitter` | `internal/emitter/emitter.go` | Goroutines in `Emit` and `getDesc`; a look at and a store into the map take time (begin and end). The RWMutex prefers writers, as Go's does. |
| `LNetCollector` | `collector/lnet.go`, `internal/parser/lnet.go`, path lists | One action per source and outcome; `obs` is the bag of observations; the context may be done at any moment. |
| `Discovery` | `internal/discovery/discovery.go` | The patterns and the `clientIndex` as operators. |
| `ClientCollector` | `collector/client.go` (extends `Discovery`) | One action per glob, match entered into the index, read and file, with every outcome; targets are mounted and unmounted meanwhile; both modes. The matches of one glob are entered in any order: no property depends on it. |
| `RpcStats` | `internal/parser/rpc.go` | One action per line; a file is any sequence of lines. |
| `Parsers` | the other files of `internal/parser` | One operator per parser, from the lines of a file to observations with identifier, labels and source, or to a failure. A line is the outcome of the parser's tests on it. |
| `Mapper` | `internal/mapper` | The whole table of public metrics, and `Map`. |
| `Scrape` | `cmd/lustre_client_exporter/main.go`, `collector/{health,sptlrpc,lpcc}.go`; the paths, the parsers, the mapper and the emitter behind each collector | `Start` (validation), `Edit` (a file of the host changes), `Scrape` (all collectors on the host as it is, down to the labels of every series; Gather is external). |
| `MC*` | | Instances for TLC. |
| `*Proofs` | | Theorems (section 5). |

How they fit together. `Registry` treats `c.Collect` as one long step that
records sources and then succeeds or fails, at a time of its own or never.
`Reader` justifies this for any collector, a sequence of reads and commands: it
returns in time when a deadline is set. `LNetCollector` and `ClientCollector`
treat a read as one step with an outcome (ok, error, timeout, refused);
`Reader` justifies that, too: after the deadline reads are refused at once, and
the one in progress times out or, if its result was ready, is answered.
`Emitter` justifies that the last step of a collector is atomic. `Scrape` has
no concurrency: it composes all that is data. It extends `Discovery`, `Parsers`
and `Mapper` and runs `ParseRPCStats` by the operators of `RpcStats`, so that one
file can be followed from its lines to the answer, and two scrapes before and
after a change of that file can be compared.

Operators named in a comment that begins with "Mistake" are not part of a
specification: they are faulty variants of the definition below them, kept to
show that the properties notice.

## 3. Runs

| Run (cfg) | Shows | Bounds, and why they are enough |
|---|---|---|
| `registry` | `TypeOK`, `DurationsComplete`, `TotalsExact`, `SummariesNeverGoBack`, `NoSendAfterReturn`, `AnswerComplete`, lenient mode | Two overlapping scrapes, two collectors that share the label "sys" and one of which may fall back to "lctl": two goroutines on one entry and on different ones, two scrapes on one total. 583,000 states. More scrapes and collectors: section 5. |
| `registry_strict` | `ImplementsScrapeTotals`, `AnsweredDespiteHang`, and `AnswerComplete` in strict mode | The same with one label, so that a scrape visits up to two keys, success and error; the collectors of one of the two scrapes may hang for ever. |
| `reader` | `TypeOK`, `AtMostOneWorker`, `AbandonedOnlyAtDeadline`, `ReturnsInTime`, `EveryRunReturns`, `WorkersExit` | Two runs of up to three calls: before, across and after the deadline. Timeouts 3 and 2, WaitDelay 1, clock to 5, past every limit. Other timeouts: section 5. |
| `reader_doc` | violates `SourceTimeoutIsUpperBound` (section 7) | One run. |
| `emitter` | `TypeOK`, `NoConcurrentMapAccess`, `OneDescPerKey`, `AllOrNothing`, `EveryEmitReturns` | Three goroutines, two keys in both orders, one key twice, one invalid observation at the end. |
| `lnet` | `TypeOK`, `CountedOnce`, `CountsByNIDWithLNetCtl`, `LabelNamesSource`, `VerdictIsPrimary`, `OnlyTheModesSources` | All modes and outcomes; seven outputs of `net show`, one for each case of the parsers; two parameter files, one with four paths. Longer lists repeat the loop. |
| `lnet_doc` | violates `HungFileLeavesFallback` (section 7) | The same. |
| `client` | `TypeOK`, `DiscoveryFindsFirst`, `VerdictFollowsTable`, `OneFailureCostsOneSource` | A mount, an OSC import and an MDC import without stats, files under different and several roots, one (un)mount at any moment, the matches of a glob in any order. 1.2 million states. Other hosts: section 5. |
| `client_doc` | violates `StrictReturnsNoPartialData` (section 7) | The same. |
| `rpc_stats` | `LinesMeanWhatTheySay`, `MalformedBucketFailsFile` | All files of five lines out of thirteen kinds: announcement, opener, column header and bucket, with one line anywhere between. The types, with the operations that each metric may have, are proved (section 5). |
| `scrape` | `TypeOK`, `LabelsAreExact`, `ContractKept`, `SeriesAreDistinct`, `StatsFilesAreWhole`, `JoinsMatch`, `StateIsCurrent`, `OnlyItsOwnSeriesAreLost` | One mount, one MDC and one OSC import with every file that the exporter knows; the stats of the MDC are under two roots. Every path that decides something has its own contents: absent, unreadable, empty, torn, malformed, repetitive, not UTF-8. Two edits: one to spoil a file and one to spoil a second or to repair the first, with scrapes before, between and after. Six command lines, two of them invalid, in all modes of LNet and both of `-collector.strict`. |
| `scrape_doc` | violates `DuplicatesAreRefused` (section 7) | The same with one edit. |

Deadlock is checked in every run: the only states without a step are those that
a `Quiescent`, `EndOfFile` or `Idle` action names: all calls answered or
returned, a file read, an exporter that exited or has scraped after the last
edit.
Symmetry is used for scrapes, which are all alike, and never in a run of a
liveness property.

The hazards that the properties are for are listed in `PROJECT.json`, each at
its line.

## 4. Fairness

* `Registry`: weak fairness of the steps of every call and of every goroutine
  that has left `c.Collect`, because the Go scheduler runs what can run and
  `sync.Mutex` starves nobody; Gather always receives. That `c.Collect` returns
  is assumed for the `Responsive` scrapes only. Nothing makes a scrape begin.
  `registry_strict` checks it, safety included, under this fairness.
* `Reader`: weak fairness of the exporter's own steps, of each goroutine's send,
  and of the clock. None for reads, commands and pipes: they may hang for ever.
  `WorkersExit` is conditional on the system call.
* `Emitter`: weak fairness of every goroutine; as `sync.RWMutex` lets waiting
  writers pass new readers and then lets those in, neither starves.

## 5. Proofs

Every theorem is for every value of the constants that satisfies the named
assumptions of the modules:

* `RegistryAssumption`: scrapes and collectors are finite, labels are among the
  sources.
* `ReaderAssumption`: the timeouts are natural numbers. `EmitterAssumption`: the
  lists consist of observations.
* `LNetAssumption`, `NamesAssumption`: the parameters are a list without
  repetitions, none named like another kind of observation; "" is valid UTF-8.
* `RpcStatsAssumption`: lines are records of the tests that the parser makes on
  them, a scalar has an operation of its metric (`rpc.go:121-138`), and the number
  of lines is bounded, by any bound.
* `ScrapeAssumption`: files are lists of lines, and so are the lists in the
  documents of `lnetctl` and `lpcc`; the lines of `rpc_stats` and `state` files
  have the forms that their parsers tell apart; the names of targets are finitely
  many, and no name belongs to two components. That is how Lustre names an import;
  nothing in the code makes it so or checks it, and `NoTwoSeriesAreEqual` and
  `QueriesJoin` hold only as long as it does. What the lines say, and how many
  there are, is free.
* `DiscoveryAssumption`: "no path" is not a root. `ClientAssumption`,
  `ParamAssumption`: the layout consists of files, and each component has a list
  of parameter files without repetitions, none named like the files that are read
  otherwise, as `client.go:21-38` has it.

TLC evaluates each of them on its instance.

**Registry** (`RegistryProofs` and, on top of it, `RegistryRefinementProofs`,
which has 6).
1. `ControlInvariant`: types, "wg counts the goroutines between Add and Done",
   and how far the goroutines of a call can be in each of its phases. The type
   of `wg` needs the second, as a counter that is decremented is a natural
   number only if somebody is still counted; the second needs the first for
   cardinalities. `TypeCorrect` and `NothingSentAfterReturn` follow.
2. `MergingInvariant`: the holder of `scrapeDurationMu` has read the current
   entry, and the map has exactly the durations of the goroutines past their
   store. With 1, all have passed when `wg.Wait` returns: `DurationsAreComplete`.
3. `TotallingInvariant`: `durationMu` has one holder, who has loaded the current
   total and visits no key twice; with the exactness of the totals, which is
   `TotalsAreExact`, this is inductive.
4. `PublishingInvariant`: summaries are below their total and ordered as the
   scrapes that made them. `SummariesAreMonotone` follows.
5. `AnsweringInvariant`: what Gather has received is, at any moment, what the
   goroutines have sent where they are, each sample once (`Received`); promhttp has
   answered by what Gather refused (`Answered`); a summary holds its own scrape as 2
   says (`OwnDurations`, which needs that by 3 nobody has added this scrape to that
   total before); no two summaries of a scrape have the same key (`OneSummary`, as
   by 3 no key is visited twice); every key of the map has a summary, is next, or is
   still to be visited (`Covered`). In the end that is `AnswersAreComplete`.
6. `LoopingInvariant`: the loop visits keys of the map only, and while
   `durationMu` is held its summaries are the totals as they stand. With it
   `StepSimulates` shows every step to be a step of `ScrapeTotals` or a stutter:
   a store changes nothing under the mapping, as what the holder has added is
   hidden there; the unlock is the whole abstract step, and needs from 5 and 6
   that the summaries are those of all keys of the goroutines and no others.
   `RegistryImplementsScrapeTotals` follows.

**Reader** (`ReaderProofs`). `WorkersInvariant`: only the goroutine of the last
read may be alive, and it has a caller or the context is done; hence
`OneWorkerLeftBehind` and `AbandonedAtDeadline`. `InTimeInvariant`: where a run
may be at which time, with its timer within WaitDelay of the deadline; hence
`RunsReturnInTime`. The clock steps only when no exporter step is due, so the
proof is about which steps are due when.

**Emitter** (`EmitterProofs`). `Invariance`: `readers` and `writer` are what the
program counters say, the metrics are the prefix of the list that has been
converted, a goroutine about to store finds nothing cached. `MapIsNeverRaced`,
`DescriptorsAreUnique` and `EmitIsAllOrNothing` follow. The two steps that
convert share the lemma `Conversion`, those that only move `MoveKeeps`.

**LNet collector** (`LNetCollectorProofs`). Two strengthenings.
1. `SourcesInOrder`: which sources a run has turned to by which stage, that one
   primary source at most was read, and that the recorded label is that source's.
   `SourcesOfTheMode` follows.
2. `ObservedInvariant`: no observation is in the bag twice, none is there before
   the primary source is read or after a failure, and each is from the source of
   its kind, an interface from an output of `net show` that was merged and a
   parameter from those already visited, so that what a step appends is new. The
   counters per NID are there exactly if merged with lnetctl's statistics, and the
   global count unless they replaced it or the stats file was empty.

`LabelIsTrue`, `NIDsCounted`, `MessagesCountedOnce` and `VerdictOfThePrimary`
follow from both.

**Client collector** (`ClientCollectorProofs`).
1. `TypeInv` has, beside the types, `IndexInv`: the index holds one target per
   key, and a mount in it has stats and no rpc_stats. Without it a run could
   read a file that does not belong to the target it is at.
2. `VerdictInv`: a run that goes on has no error, and a strict one has met no
   hard failure. `VerdictOfTheTable` follows.
3. `AccountInv`: for each stage of the loop, that every target before the current
   one is done with, what of the current one is, and that nothing was observed of
   the targets to come; the last is where one target per key is needed, as the
   sources of two targets with one key would be the same.
   `EverySourceIsTurnedTo` follows.

4. `DiscoveryInv`: while the matches of a glob are entered, the index is what the
   matches entered so far, of the globs so far, say: a key for each target that
   one of them saw, with its files from the first root in which they were seen.
   `DiscoveryIsComplete` follows. A match under a later root changes nothing, as
   the roots are gone through in their order; that needs that the files which a
   glob saw are kept even if the target is unmounted meanwhile, so the invariant
   is about what was seen, not about what is there.

**rpc_stats** (`RpcStatsProofs`). The reference definition `Meaning(i)` looks up
from line `i` for the last opener of a section and the last header before it;
the parser keeps a section instead. `IInv` says that the section is what those
look-ups yield at the line to be read next, and that the observations are those
of the lines read. `LastAbove` is the greatest of a set of line numbers; the
lemma `Least` and its like (every non-empty set of naturals has a least element,
by induction on a natural number) give it a value, and the step lemma about it
(one line more: either that line is the last, or it is the same as before) is
what every action is reduced to. `LinesMeanTheirSection` and `MalformedFails`
follow, and, as `Meaning` gives a metric none but its own operations
(`SaysTyped`), `TypeCorrect`.

**Scrape** (`ScrapeProofs`). Nothing is concurrent here, so the invariants are
short and the work is in the step `Scrape`, which composes the paths, the parsers,
the mapper and the emitter. Its loops are folds and `FlattenSeq` over lists of any
length; the lemmas at the head of the module say what they yield, element by
element, each by induction on the length of a prefix.
1. `TypeInv`: the types. `TypeCorrect` follows.
2. `LabelInv`: what every collector returns has the labels of its metric. There
   is one lemma per parser ("everything that it yields has its labels"), one per
   composition (`ParseFirst`, `All`, `Optional`, `DropGlobalLNetCountStats`), one
   per collector, and the table enters by the lemma that an identifier has one
   entry. `LabelsAgree` follows: 111 metrics, 4 tables written down apart, any
   file.
3. `NoPartOfAStatsFile`: a stats file is either parsed as a whole, and then all of
   its observations are among those of its target, its target's among those of
   the collector; or it is refused, and then the observations of its named lines
   are nowhere, as no other file of this or another target yields one with its
   source.
4. `StatesForAll`: the fold over the lines of a state file ends in the last
   `current_state` line or the first that is no history; only the state file of an
   import yields `target_state`, and only of its own name, which is where the
   assumption about names is needed. `OneCurrentState` follows.
5. `DistinctInv`: of the observations of the last scrape, two that become the
   same series are the same. An observation is its identifier, its labels and its
   source. The name and the label keys of a series give the identifier back
   (`NamesAreUnique`; the counters per NID share only the name with the global
   ones), and with `LabelInv` its labels are the observation's. `Origin` gives the
   source: each identifier belongs to one kind of source (`SourcesAre`), the label
   `target` to one target, as the index has one per key and no name belongs to two
   components (`TargetsAreNamed`); of the roots of a file only the first readable
   one is read, and LNet's counters come from the stats file or from `lnetctl`,
   never from both. `IsLocated` says this of one observation; it is proved parser
   by parser, like 2, and up to `CollectorsAreLocated`. `NoTwoSeriesAreEqual`
   follows, with a bijection between observations and series.
6. `JoinsInv`: the label sets of the contract make the documented joins match for
   any values (`SubjectsJoin`); a line with a sum of seconds yields its count, too,
   and nothing between the line and the answer keeps one without the other
   (`IsPaired`); that no other file yields a sum of seconds is from 5, as its
   source would be a stats file. One count only, because it is determined by its
   labels. `QueriesJoin` follows.

7. `SeenInv`: what the collectors that succeeded have observed is what the host
   of the last scrape gives. `CollectorGave(h, ...)` says that of any host `h`,
   source by source, and not of the variable `host`: an observation is given by
   the first readable place of its source (`Found`) and, for a target, by a root
   and a discovery that are those of `h` (`StatsRootOn`, `IsDiscovered`; that the
   loop over globs and matches ends in the first root of every target is
   `TargetsHaveRoots`, an induction on patterns and, in it, on matches). Two facts
   meet in the step: a collector that does not fail observes exactly what its
   host gives (`CollectorGives`), and what one host gives another one gives, too,
   if no file that decides over its source differs (`CollectorStays`). The
   parameters of an import are the hard case: they stay if another of its files
   still has it discovered, and that file is of the same component because no
   name belongs to two. `OthersAreKept` follows; it is an action property, and
   its second half, that the client collector fails in lenient mode for an
   invalid label only, needs `LabelInv`'s fact that the mapper never fails.

Model-checked only: liveness (`EveryRunReturns`, `WorkersExit`,
`EveryEmitReturns`, `AnsweredDespiteHang`), as TLAPS does not do fairness; and
`ContractKept` of `Scrape`, which says that the healthy host has every metric, so
that it is about an instance, the host of the run.

## 6. How it was built, and what is left

In the order of importance: Registry, Reader, Emitter, LNetCollector, Discovery
and ClientCollector, RpcStats; then, to have the data as well as the control,
Parsers, Mapper and their composition Scrape; proofs first of the modules whose
invariants are about interleavings, failures and order, then of those that
compute: discovery, rpc_stats and the data of Scrape.

The table of metrics is a set of records and not one function put together from
many, as `Registry` in `contract.go` is one literal: a fact about an entry is
then a fact about a member of one of its parts. `LabelsAreExact` (about every
file) is kept apart from `ContractKept` (about the healthy host).

Left: a larger host in `scrape` would repeat what its one mount and two imports
do; the translation of paths by `-path.rootfs` and back (`reader.go`) changes no
property, as it is applied to every path alike.

## 7. Where code and documentation disagree

* `reader_doc`. `docs/design.md` calls the source timeout an "upper bound for
  one collector source"; a command whose child keeps its output open is waited
  for until `commandWaitDelay` (1 s) after it (`reader.go:106-110`). The proved
  bound is the deadline plus WaitDelay.
* `lnet_doc`. The flag's help calls it a timeout for "individual source reads".
  It bounds a whole run of a collector: after a stats file that hangs, auto mode
  has no time left for `lnetctl` and the fallback is refused unread
  (`lnet.go:62-66`, `collector.go:108-113`).
* `client_doc`. "If true, source failures fail the scrape instead of returning
  partial data"; a glob that times out is skipped (`discovery.go:185-188`), and
  its targets are missing from a successful strict scrape.
* `scrape_doc`. `docs/design.md:335` says that the emitter validates "duplicate
  time series". `Emit` compares no series with another (`emitter.go:43-61`); a
  file that repeats a line becomes two equal series of a collector that reports
  success, and Gather then fails the whole scrape, in lenient mode, too.

## 8. Not modelled

* Values. Durations are counted by run, observations by source and labels;
  floating-point rounding of the sums, units and the parsing of numbers are out
  of scope, down to the outcome "is a number". So are help texts.
* The counters that plain `net show` resets to zero where `net show -v 3` gave
  counts (`lnet.go:107`): a matter of values.
* A process in uninterruptible sleep, which SIGKILL does not end
  (`reader.go:109`): in the model it ends at once.
* The number of goroutines over many scrapes of a file system that hangs for
  good: one per collector and scrape, without a bound in the code.
* Panics (`collector.go:125`), logging, the parsing of flags, the index page and
  net/http, and the translation of paths by `-path.rootfs`.
* `internal/reader/fake.go`, a test double.
* In `Scrape`, what happens while a scrape runs: hosts that change, deadlines and
  overlapping scrapes are in `Registry`, `Reader`, `LNetCollector` and
  `ClientCollector`.
