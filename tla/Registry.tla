------------------------------ MODULE Registry ------------------------------
(***************************************************************************)
(* collector/collector.go: Registry.Collect and observeScrapeDurations.    *)
(*                                                                         *)
(* Every HTTP scrape calls Registry.Collect on the same Registry, so calls *)
(* overlap.  One call starts a goroutine per collector, waits for all of   *)
(* them on a WaitGroup, folds the durations they left in a map of its own  *)
(* into the totals that all calls share, and returns; the caller           *)
(* (prometheus.Registry.Gather, outside this repository) then closes the   *)
(* channel and promhttp answers.                                           *)
(*                                                                         *)
(* Abstractions.  A duration is identified with the collector run that     *)
(* took it: a float64 sum of durations is the function that counts how     *)
(* often each run was added.  The metrics of one collector are one sample. *)
(* Gather receives from the channel until it is closed, so a send never    *)
(* blocks.                                                                 *)
(***************************************************************************)
EXTENDS Integers, FiniteSets

CONSTANTS
  Scrapes,       \* calls of Registry.Collect
  Collectors,    \* the registered collectors, r.collectors
  Sources,       \* values of the label "source"
  ScrapeSource,  \* scrapeSourceName(c), for each collector c
  Recordable,    \* what c.Collect may pass to recordScrapeSource
  Strict,        \* -collector.strict
  Responsive     \* scrapes whose collectors are assumed to return

ASSUME RegistryAssumption ==
  /\ IsFiniteSet(Scrapes)
  /\ IsFiniteSet(Collectors)
  /\ Sources # {}
  /\ ScrapeSource \in [Collectors -> Sources]
  /\ Recordable \in [Collectors -> SUBSET Sources]
  /\ Strict \in BOOLEAN
  /\ Responsive \subseteq Scrapes

VARIABLES
  phase,            \* phase[s]: where the call s itself is
  wg,               \* wg[s]: counter of the WaitGroup of s
  pc,               \* pc[s][c]: where the goroutine of c in s is
  source,           \* source[s][c]: the goroutine's scrapeSource
  result,           \* result[s][c]: the result of c.Collect
  scrapeDurationMu, \* scrapeDurationMu[s]: goroutines inside the mutex
  read,             \* read[s][c]: value c read from scrapeDurations[key]
  scrapeDurations,  \* scrapeDurations[s]: the map local to s
  durationMu,       \* calls inside r.durationMu
  durations,        \* r.durations, shared by all calls
  key,              \* key[s]: the loop variable of observeScrapeDurations
  total,            \* total[s]: its local copy of durations[key]
  keys,             \* keys[s]: keys the loop has still to visit
  metrics,          \* metrics[s]: summaries built under the mutex
  sent,             \* sent[s][x]: how often Gather has received the sample x
  summaries,        \* summaries[s]: summaries received by Gather
  response,         \* response[s]: what promhttp answered
  before            \* before[s]: scrapes answered before s began (history)

goroutineVars == <<wg, pc, source, result, scrapeDurationMu, read, scrapeDurations>>
totalVars == <<durationMu, durations, key, total, keys, metrics>>
gatherVars == <<sent, summaries, response>>
vars == <<phase, goroutineVars, totalVars, gatherVars, before>>

-----------------------------------------------------------------------------
Results == {"success", "error"}

\* scrapeDurationKey.
Keys == [source : Sources, result : Results]

\* A sum of durations of one scrape, and of all of them.
Sum == [Collectors -> Nat]
NoSum == [c \in Collectors |-> 0]
GrandSum == [Scrapes -> Sum]
NoGrandSum == [s \in Scrapes |-> NoSum]

\* scrapeDurationTotal, and the summary metric made from one.
Total == [count : Nat, sum : GrandSum]
NoTotal == [count |-> 0, sum |-> NoGrandSum]
Summary == [key : Keys, total : Total]

Kinds == {"metrics", "invalid", "success=1", "success=0", "duration"}
Samples == [kind : Kinds, collector : Collectors]

Phases == {"idle", "spawning", "waiting", "observing", "next key", "store",
           "sending", "returned", "answered"}
Steps == {"unspawned", "collecting", "collected", "reporting", "lock",
          "load", "store", "done", "exited"}

\* scrapeDurationKey{source: source, result: result} of a goroutine.
Key(s, c) == [source |-> source[s][c], result |-> result[s][c]]

\* The keys present in the map scrapeDurations of a call.
MapKeys(s) == {k \in Keys : scrapeDurations[s][k] # NoSum}

TypeOK ==
  /\ phase \in [Scrapes -> Phases]
  /\ wg \in [Scrapes -> Nat]
  /\ pc \in [Scrapes -> [Collectors -> Steps]]
  /\ source \in [Scrapes -> [Collectors -> Sources]]
  /\ result \in [Scrapes -> [Collectors -> Results]]
  /\ scrapeDurationMu \in [Scrapes -> SUBSET Collectors]
  /\ read \in [Scrapes -> [Collectors -> Sum]]
  /\ scrapeDurations \in [Scrapes -> [Keys -> Sum]]
  /\ durationMu \in SUBSET Scrapes
  /\ durations \in [Keys -> Total]
  /\ key \in [Scrapes -> Keys]
  /\ total \in [Scrapes -> Total]
  /\ keys \in [Scrapes -> SUBSET Keys]
  /\ metrics \in [Scrapes -> SUBSET Summary]
  /\ sent \in [Scrapes -> [Samples -> Nat]]
  /\ summaries \in [Scrapes -> SUBSET Summary]
  /\ response \in [Scrapes -> {"none", "200", "500"}]
  /\ before \in [Scrapes -> SUBSET Scrapes]

Init ==
  /\ phase = [s \in Scrapes |-> "idle"]
  /\ wg = [s \in Scrapes |-> 0]
  /\ pc = [s \in Scrapes |-> [c \in Collectors |-> "unspawned"]]
  /\ source = [s \in Scrapes |-> ScrapeSource]
  /\ result = [s \in Scrapes |-> [c \in Collectors |-> "success"]]
  /\ scrapeDurationMu = [s \in Scrapes |-> {}]
  /\ read = [s \in Scrapes |-> [c \in Collectors |-> NoSum]]
  /\ scrapeDurations = [s \in Scrapes |-> [k \in Keys |-> NoSum]]
  /\ durationMu = {}
  /\ durations = [k \in Keys |-> NoTotal]
  /\ key = [s \in Scrapes |-> CHOOSE k \in Keys : TRUE]
  /\ total = [s \in Scrapes |-> NoTotal]
  /\ keys = [s \in Scrapes |-> {}]
  /\ metrics = [s \in Scrapes |-> {}]
  /\ sent = [s \in Scrapes |-> [x \in Samples |-> 0]]
  /\ summaries = [s \in Scrapes |-> {}]
  /\ response = [s \in Scrapes |-> "none"]
  /\ before = [s \in Scrapes |-> {}]

-----------------------------------------------------------------------------
(* Registry.Collect up to wg.Wait: one goroutine per collector.            *)

Goto(s, p) == phase' = [phase EXCEPT ![s] = p]
Step(s, c, from, to) ==
  /\ pc[s][c] = from
  /\ pc' = [pc EXCEPT ![s][c] = to]

\* ch <- sample, received by Gather.
Emit(s, samples) ==
  sent' = [sent EXCEPT ![s] = [x \in Samples |-> @[x] + IF x \in samples THEN 1 ELSE 0]]
Sample(c, kind) == [kind |-> kind, collector |-> c]

StartScrape(s) ==
  /\ phase[s] = "idle"
  /\ Goto(s, "spawning")
  /\ before' = [before EXCEPT ![s] = {t \in Scrapes : phase[t] = "answered"}]
  /\ UNCHANGED <<goroutineVars, totalVars, gatherVars>>

\* Mistake: wg.Add(1) forgotten.
NotAdded(s) == wg[s]

\* wg.Add(1) of the call s.
Added(s) == wg[s] + 1

\* One turn of `for _, c := range r.collectors`.
Spawn(s, c) ==
  /\ phase[s] = "spawning"
  /\ Step(s, c, "unspawned", "collecting")
  /\ wg' = [wg EXCEPT ![s] = Added(s)]
  /\ UNCHANGED <<phase, source, result, scrapeDurationMu, read,
                 scrapeDurations, totalVars, gatherVars, before>>

EndSpawn(s) ==
  /\ phase[s] = "spawning"
  /\ \A c \in Collectors : pc[s][c] # "unspawned"
  /\ Goto(s, "waiting")
  /\ UNCHANGED <<goroutineVars, totalVars, gatherVars, before>>

\* c.Collect calls recordScrapeSource(ctx, src).
RecordScrapeSource(s, c, src) ==
  /\ pc[s][c] = "collecting"
  /\ source' = [source EXCEPT ![s][c] = src]
  /\ UNCHANGED <<phase, wg, pc, result, scrapeDurationMu, read,
                 scrapeDurations, totalVars, gatherVars, before>>

\* c.Collect returns metrics, or an error.
CollectReturns(s, c, res) ==
  /\ Step(s, c, "collecting", "collected")
  /\ result' = [result EXCEPT ![s][c] = res]
  /\ UNCHANGED <<phase, wg, source, scrapeDurationMu, read,
                 scrapeDurations, totalVars, gatherVars, before>>

\* Mistakes: the failure reported whatever the mode; the failure not reported.
OutcomeAlwaysStrict(c, res) ==
  {Sample(c, IF res = "success" THEN "metrics" ELSE "invalid")}
OutcomeNeverStrict(c, res) ==
  IF res = "success" THEN {Sample(c, "metrics")} ELSE {}

\* What the goroutine sends before its own two self metrics.
Outcome(c, res) ==
  CASE res = "success" -> {Sample(c, "metrics")}
    [] res = "error" /\ Strict -> {Sample(c, "invalid")}
    [] OTHER -> {}

SendOutcome(s, c) ==
  /\ Step(s, c, "collected", "reporting")
  /\ Emit(s, Outcome(c, result[s][c]))
  /\ UNCHANGED <<phase, wg, source, result, scrapeDurationMu, read,
                 scrapeDurations, totalVars, summaries, response, before>>

SendSelfMetrics(s, c) ==
  /\ Step(s, c, "reporting", "lock")
  /\ Emit(s, {Sample(c, IF result[s][c] = "success" THEN "success=1" ELSE "success=0"),
              Sample(c, "duration")})
  /\ UNCHANGED <<phase, wg, source, result, scrapeDurationMu, read,
                 scrapeDurations, totalVars, summaries, response, before>>

-----------------------------------------------------------------------------
(* scrapeDurations[key] += duration, under scrapeDurationMu; wg.Done.      *)

\* Mistake: no scrapeDurationMu.
UnlockedDurations(s) == TRUE

CanLockDurations(s) == scrapeDurationMu[s] = {}

LockDurations(s, c) ==
  /\ Step(s, c, "lock", "load")
  /\ CanLockDurations(s)
  /\ scrapeDurationMu' = [scrapeDurationMu EXCEPT ![s] = @ \cup {c}]
  /\ UNCHANGED <<phase, wg, source, result, read, scrapeDurations,
                 totalVars, gatherVars, before>>

LoadDuration(s, c) ==
  /\ Step(s, c, "load", "store")
  /\ read' = [read EXCEPT ![s][c] = scrapeDurations[s][Key(s, c)]]
  /\ UNCHANGED <<phase, wg, source, result, scrapeDurationMu,
                 scrapeDurations, totalVars, gatherVars, before>>

StoreDuration(s, c) ==
  /\ Step(s, c, "store", "done")
  /\ scrapeDurations' =
       [scrapeDurations EXCEPT ![s][Key(s, c)] = [read[s][c] EXCEPT ![c] = @ + 1]]
  /\ scrapeDurationMu' = [scrapeDurationMu EXCEPT ![s] = @ \ {c}]
  /\ UNCHANGED <<phase, wg, source, result, read, totalVars, gatherVars, before>>

\* The deferred wg.Done().
Done(s, c) ==
  /\ Step(s, c, "done", "exited")
  /\ wg' = [wg EXCEPT ![s] = @ - 1]
  /\ UNCHANGED <<phase, source, result, scrapeDurationMu, read,
                 scrapeDurations, totalVars, gatherVars, before>>

-----------------------------------------------------------------------------
(* wg.Wait, observeScrapeDurations and the summaries.                      *)

\* Mistakes: no wg.Wait(); one WaitGroup, a field of Registry, for all calls.
NoWait(s) == TRUE
SharedWaitGroup(s) == \A t \in Scrapes : wg[t] = 0

CanReturnFromWait(s) == wg[s] = 0

\* wg.Wait() returns; observeScrapeDurations lists the keys of the map.
WaitReturns(s) ==
  /\ phase[s] = "waiting"
  /\ CanReturnFromWait(s)
  /\ Goto(s, "observing")
  /\ keys' = [keys EXCEPT ![s] = MapKeys(s)]
  /\ UNCHANGED <<goroutineVars, durationMu, durations, key, total, metrics,
                 gatherVars, before>>

\* Mistake: no durationMu.
UnlockedTotals == TRUE

CanLockTotals == durationMu = {}

LockTotals(s) ==
  /\ phase[s] = "observing"
  /\ CanLockTotals
  /\ durationMu' = durationMu \cup {s}
  /\ Goto(s, "next key")
  /\ UNCHANGED <<goroutineVars, durations, key, total, keys, metrics,
                 gatherVars, before>>

\* total := r.durations[key].  No property depends on the order of the keys.
LoadTotal(s, k) ==
  /\ phase[s] = "next key"
  /\ k \in keys[s]
  /\ Goto(s, "store")
  /\ key' = [key EXCEPT ![s] = k]
  /\ total' = [total EXCEPT ![s] = durations[k]]
  /\ keys' = [keys EXCEPT ![s] = @ \ {k}]
  /\ UNCHANGED <<goroutineVars, durationMu, durations, metrics, gatherVars, before>>

\* total.count++; total.sum += scrapeDurations[key].
NewTotal(s) ==
  [count |-> total[s].count + 1,
   sum |-> [total[s].sum EXCEPT ![s] =
              [c \in Collectors |-> @[c] + scrapeDurations[s][key[s]][c]]]]

\* Mistakes: the total not written back; the mutex released in the loop.
StoreNothing(s) ==
  /\ phase[s] = "store"
  /\ Goto(s, "next key")
  /\ metrics' = [metrics EXCEPT ![s] = @ \cup {[key |-> key[s], total |-> NewTotal(s)]}]
  /\ UNCHANGED <<goroutineVars, durationMu, durations, key, total, keys,
                 gatherVars, before>>
StoreAndUnlock(s) ==
  /\ phase[s] = "store"
  /\ Goto(s, "next key")
  /\ durations' = [durations EXCEPT ![key[s]] = NewTotal(s)]
  /\ metrics' = [metrics EXCEPT ![s] = @ \cup {[key |-> key[s], total |-> NewTotal(s)]}]
  /\ durationMu' = durationMu \ {s}
  /\ UNCHANGED <<goroutineVars, key, total, keys, gatherVars, before>>

\* r.durations[key] = total; metrics = append(metrics, ...).
StoreTotal(s) ==
  /\ phase[s] = "store"
  /\ Goto(s, "next key")
  /\ durations' = [durations EXCEPT ![key[s]] = NewTotal(s)]
  /\ metrics' = [metrics EXCEPT ![s] = @ \cup {[key |-> key[s], total |-> NewTotal(s)]}]
  /\ UNCHANGED <<goroutineVars, durationMu, key, total, keys, gatherVars, before>>

\* The loop ends and the deferred durationMu.Unlock() runs.
UnlockTotals(s) ==
  /\ phase[s] = "next key"
  /\ keys[s] = {}
  /\ durationMu' = durationMu \ {s}
  /\ Goto(s, "sending")
  /\ UNCHANGED <<goroutineVars, durations, key, total, keys, metrics,
                 gatherVars, before>>

SendSummary(s, m) ==
  /\ phase[s] = "sending"
  /\ m \in metrics[s] \ summaries[s]
  /\ summaries' = [summaries EXCEPT ![s] = @ \cup {m}]
  /\ UNCHANGED <<phase, goroutineVars, totalVars, sent, response, before>>

Return(s) ==
  /\ phase[s] = "sending"
  /\ metrics[s] \subseteq summaries[s]
  /\ Goto(s, "returned")
  /\ UNCHANGED <<goroutineVars, totalVars, gatherVars, before>>

\* External: Gather refuses an invalid metric, and a second one with the same
\* name and labels.
Refused(s) ==
  \/ \E x \in Samples : sent[s][x] > IF x.kind = "invalid" THEN 0 ELSE 1
  \/ \E m1, m2 \in summaries[s] : m1 # m2 /\ m1.key = m2.key

\* External: Gather closes the channel, and promhttp turns anything that it
\* refused into a failed scrape.
Answer(s) ==
  /\ phase[s] = "returned"
  /\ Goto(s, "answered")
  /\ response' = [response EXCEPT ![s] = IF Refused(s) THEN "500" ELSE "200"]
  /\ UNCHANGED <<goroutineVars, totalVars, sent, summaries, before>>

-----------------------------------------------------------------------------
\* A goroutine's own steps, once c.Collect has returned.
Report(s, c) ==
  \/ SendOutcome(s, c)
  \/ SendSelfMetrics(s, c)
  \/ LockDurations(s, c)
  \/ LoadDuration(s, c)
  \/ StoreDuration(s, c)
  \/ Done(s, c)

Collecting(s, c) == \E res \in Results : CollectReturns(s, c, res)

\* The steps of the call itself.
Call(s) ==
  \/ \E c \in Collectors : Spawn(s, c)
  \/ EndSpawn(s)
  \/ WaitReturns(s)
  \/ LockTotals(s)
  \/ \E k \in Keys : LoadTotal(s, k)
  \/ StoreTotal(s)
  \/ UnlockTotals(s)
  \/ \E m \in metrics[s] : SendSummary(s, m)
  \/ Return(s)
  \/ Answer(s)

\* Nothing is left to do: every other state in which nobody can step is a
\* deadlock, which TLC reports.
Quiescent ==
  /\ \A s \in Scrapes : phase[s] = "answered"
  /\ UNCHANGED vars

Next ==
  \/ \E s \in Scrapes :
       \/ StartScrape(s)
       \/ Call(s)
       \/ \E c \in Collectors :
            \/ \E src \in Recordable[c] : RecordScrapeSource(s, c, src)
            \/ Collecting(s, c)
            \/ Report(s, c)
  \/ Quiescent

Spec == Init /\ [][Next]_vars

\* The Go scheduler runs every goroutine that can run, and sync.Mutex hands
\* the lock over in bounded time.  That c.Collect returns is assumed of the
\* scrapes in Responsive only; no scrape has to start.
Fairness ==
  \A s \in Scrapes :
    /\ WF_vars(Call(s))
    /\ \A c \in Collectors : WF_vars(Report(s, c))
    /\ s \in Responsive => \A c \in Collectors : WF_vars(Collecting(s, c))

FairSpec == Spec /\ Fairness

-----------------------------------------------------------------------------
(* Properties.                                                             *)

\* The call s is past wg.Wait().
Waited(s) == phase[s] \notin {"idle", "spawning", "waiting"}

\* What the map scrapeDurations of s must hold under k in the end: every run
\* that finished with that source and result, once.
Expected(s, k) == [c \in Collectors |-> IF Key(s, c) = k THEN 1 ELSE 0]

\* When observeScrapeDurations reads the map of its call, the duration of
\* every collector is in it, once and under its own (source, result), although
\* the goroutines add to it concurrently (collector.go:150-157).
DurationsComplete ==
  \A s \in Scrapes :
    Waited(s) => \A k \in Keys : scrapeDurations[s][k] = Expected(s, k)

\* The calls that have added themselves to the total of k.
Observers(k) == {s \in Scrapes : \E m \in metrics[s] : m.key = k}

\* lustre_exporter_scrape_duration_seconds loses and invents nothing: at any
\* moment r.durations[k] is exactly the contributions of the calls that have
\* stored, whatever calls overlap (collector.go:176-184).
TotalsExact ==
  \A k \in Keys :
    durations[k] =
      [count |-> Cardinality(Observers(k)),
       sum |-> [s \in Scrapes |-> IF s \in Observers(k) THEN Expected(s, k) ELSE NoSum]]

\* t1 <= t2, run by run.
SumLeq(t1, t2) ==
  \A s \in Scrapes, c \in Collectors : t1.sum[s][c] <= t2.sum[s][c]

\* A summary is a counter to Prometheus: a scrape that begins after another
\* was answered reports, for the same labels, a larger count and at least the
\* same sum; and no two scrapes ever report the same count
\* (collector.go:186; the metrics are built before the mutex is released).
SummariesNeverGoBack ==
  \A s1, s2 \in Scrapes : \A m1 \in summaries[s1], m2 \in summaries[s2] :
    s1 # s2 /\ m1.key = m2.key =>
      /\ m1.total.count # m2.total.count
      /\ s1 \in before[s2] =>
           m1.total.count < m2.total.count /\ SumLeq(m1.total, m2.total)

\* No goroutine of a call is left, and so none can send on its channel, once
\* the call has returned: Gather closes the channel then, and a send on a
\* closed channel panics (collector.go:106, 157).
NoSendAfterReturn ==
  \A s \in Scrapes :
    phase[s] \in {"returned", "answered"} =>
      \A c \in Collectors : pc[s][c] = "exited"

\* What a complete answer holds of collector c.
ExpectedSamples(s, c) ==
  IF result[s][c] = "success"
  THEN {Sample(c, "metrics"), Sample(c, "success=1"), Sample(c, "duration")}
  ELSE {Sample(c, "success=0"), Sample(c, "duration")}
         \cup IF Strict THEN {Sample(c, "invalid")} ELSE {}

\* An answer accounts for every collector: its metrics or its failure and its
\* self metrics, each sent once, and its duration in exactly one of the
\* summaries, the only one labelled with its source and result.  The scrape
\* fails as a whole exactly in strict mode with a failed collector
\* (collector.go:128-161).
AnswerComplete ==
  \A s \in Scrapes : phase[s] = "answered" =>
    /\ \A x \in Samples :
         sent[s][x] = IF x \in ExpectedSamples(s, x.collector) THEN 1 ELSE 0
    /\ \A c \in Collectors : \E m \in summaries[s] :
         /\ m.key = Key(s, c) /\ m.total.sum[s][c] = 1
         /\ \A other \in summaries[s] \ {m} :
              other.key # Key(s, c) /\ other.total.sum[s][c] = 0
    /\ response[s] =
         IF Strict /\ \E c \in Collectors : result[s][c] = "error"
         THEN "500" ELSE "200"

\* A scrape whose collectors return is answered, even while the collectors of
\* another scrape hang: what the calls share, r.durationMu, is not held while
\* a call waits for its collectors (collector.go:157-159).
AnsweredDespiteHang ==
  \A s \in Responsive : phase[s] = "spawning" ~> phase[s] = "answered"
=============================================================================
