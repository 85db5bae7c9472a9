--------------------------- MODULE LNetCollector ---------------------------
(***************************************************************************)
(* collector/lnet.go: one run of LNetCollector.Collect, with the path       *)
(* lists of internal/discovery and the parsers of internal/parser/lnet.go.  *)
(*                                                                         *)
(* The run turns to up to five sources for LNet counters and interface     *)
(* health, then to the parameter files.  Any of them may fail or be        *)
(* malformed by itself, or fail because the context of the run is done:    *)
(* the read that is then in progress times out, and every later one is     *)
(* refused unread (Reader shows that the reader behaves like this).        *)
(*                                                                         *)
(* Abstractions.  Values are left out.  The three counters that exist      *)
(* globally and per NID are one metric, "count" and "count by nid"; the    *)
(* other global counters are one, "traffic"; the seven health series of an *)
(* interface are one, "ni health".  What a source contains is one of the   *)
(* cases the parsers tell apart.                                           *)
(***************************************************************************)
EXTENDS Integers, Sequences, FiniteSets

CONSTANTS
  Modes,        \* values of -collector.lnet.source
  LNetParamNames, \* the parameter files, in the order of reading
  NetShows,     \* what `lnetctl net show` may print
  InvalidNIDs   \* NIDs that are not valid UTF-8

\* A local NI; nid and status are "" when the output does not name them.
NI == [nid : STRING, status : {"", "up", "down"}, health : BOOLEAN]

\* counts and health: whether ParseLNetCtlNetStats and ParseLNetCtlNetNI,
\* which read different fields, can parse the output.
ASSUME LNetAssumption ==
  /\ Modes \subseteq {"auto", "debugfs", "lnetctl"}
  /\ LNetParamNames \in Seq(STRING)
  /\ \A show \in NetShows :
       /\ show.counts \in BOOLEAN
       /\ show.health \in BOOLEAN
       /\ show.nis \subseteq NI
       /\ \A n1, n2 \in show.nis : n1 # n2 => n1.nid # n2.nid

\* The parameter files have names of their own, as have their metrics
\* (lnetParamMap), and "" is valid UTF-8.
ASSUME NamesAssumption ==
  /\ \A i, j \in DOMAIN LNetParamNames : LNetParamNames[i] = LNetParamNames[j] => i = j
  /\ \A i \in DOMAIN LNetParamNames :
       LNetParamNames[i] \notin {"traffic", "count", "count by nid", "ni up", "ni health"}
  /\ "" \notin InvalidNIDs

VARIABLES
  mode,         \* c.source
  pc,           \* the source the run turns to next
  path,         \* index in the paths of ReadFirstAvailable
  param,        \* index in LNetParamNames
  expired,      \* the context of the run is done
  scrapeSource, \* what the run passed to recordScrapeSource last
  supplemental, \* in collectSupplementalNetNI, not in collectFromLNetCtl
  obs,          \* how often allObs holds an observation
  err,          \* Collect returned an error
  log,          \* how the sources of counters turned out (history)
  shown         \* what net show printed, none or one (history)

vars == <<mode, pc, path, param, expired, scrapeSource, supplemental, obs, err,
          log, shown>>

-----------------------------------------------------------------------------
StatsPaths == <<"debugfs stats", "procfs stats">>
Commands == {"stats show", "net show -v 3", "net show"}
Sources == {"debugfs stats", "procfs stats"} \cup Commands

\* discovery.LNetParamPaths: the file may be under either root, and fail_val
\* may be called fail_max.
LNetParamPaths(name) ==
  IF name = "fail_val"
  THEN <<"debugfs fail_val", "procfs fail_val", "debugfs fail_max", "procfs fail_max">>
  ELSE <<"debugfs", "procfs">>

Failures == {"error", "timeout", "refused"}

NIDs == {n.nid : n \in UNION {show.nis : show \in NetShows}}
Names == {LNetParamNames[i] : i \in DOMAIN LNetParamNames}
Observation ==
  [metric : {"traffic", "count", "count by nid", "ni up", "ni health"} \cup Names,
   nid : NIDs \cup {""},
   from : {"file", "lnetctl"}]

Global(metric, from) == [metric |-> metric, nid |-> "", from |-> from]
ByNID(metric, n) == [metric |-> metric, nid |-> n.nid, from |-> "lnetctl"]

\* ParseLNetStats and ParseLNetCtlStats.
StatsObservations(from) == {Global("traffic", from), Global("count", from)}

Named(show) == {n \in show.nis : n.nid # ""}

\* ParseLNetCtlNetStats and ParseLNetCtlNetNI.
CountObservations(show) == {ByNID("count by nid", n) : n \in Named(show)}
NIObservations(show) ==
  {ByNID("ni up", n) : n \in {n \in Named(show) : n.status # ""}}
    \cup {ByNID("ni health", n) : n \in {n \in Named(show) : n.health}}

InParams == pc = "params" /\ param <= Len(LNetParamNames)

\* The paths that ReadFirstAvailable is working on.
Paths == IF InParams THEN LNetParamPaths(LNetParamNames[param]) ELSE StatsPaths

\* Mistake: the loop takes one path too many.
OnePathTooMany == path <= Len(Paths)

MorePaths == path < Len(Paths)

TypeOK ==
  /\ mode \in Modes
  /\ pc \in {"start", "files", "params", "returned"} \cup Commands
  /\ path \in DOMAIN Paths
  /\ param \in 1..Len(LNetParamNames) + 1
  /\ expired \in BOOLEAN
  /\ scrapeSource \in {"sys", "lctl"}
  /\ supplemental \in BOOLEAN
  /\ obs \in [Observation -> Nat]
  /\ err \in BOOLEAN
  /\ log \in [Sources -> {"unread", "empty", "malformed", "ok"} \cup Failures]
  /\ shown \subseteq NetShows

\* The label before Collect: LNetCollector.ScrapeSource.
Init ==
  /\ mode \in Modes
  /\ pc = "start"
  /\ path = 1
  /\ param = 1
  /\ expired = FALSE
  /\ scrapeSource = IF mode = "lnetctl" THEN "lctl" ELSE "sys"
  /\ supplemental = FALSE
  /\ obs = [o \in Observation |-> 0]
  /\ err = FALSE
  /\ log = [s \in Sources |-> "unread"]
  /\ shown = {}

-----------------------------------------------------------------------------
\* allObs = append(allObs, new...), after dropping what `keep` rejects.
AppendAll(old, new) == [o \in Observation |-> old[o] + IF o \in new THEN 1 ELSE 0]

\* Mistake: nothing is dropped.
DropNothing(bag) == bag

\* dropGlobalLNetCountStats.
DropGlobalLNetCountStats(bag) ==
  [o \in Observation |-> IF o.metric = "count" THEN 0 ELSE bag[o]]

Fail ==
  /\ pc' = "returned"
  /\ err' = TRUE
  /\ obs' = [o \in Observation |-> 0]

\* The reader turns to a source: it times out, is refused, or has an outcome
\* of its own.
Outcome(o) ==
  /\ (o = "refused") = expired
  /\ expired' = (expired \/ o = "timeout")

Log(s, o) == log' = [log EXCEPT ![s] = o]

\* The deadline passes between two reads.
Expire ==
  /\ pc # "returned"
  /\ ~expired
  /\ expired' = TRUE
  /\ UNCHANGED <<mode, pc, path, param, scrapeSource, supplemental, obs, err, log, shown>>

Begin ==
  /\ pc = "start"
  /\ pc' = IF mode = "lnetctl" THEN "stats show" ELSE "files"
  /\ scrapeSource' = IF mode = "lnetctl" THEN "lctl" ELSE "sys"
  /\ UNCHANGED <<mode, path, param, expired, supplemental, obs, err, log, shown>>

-----------------------------------------------------------------------------
(* collectFromDebugFS, and what Collect does with its result.              *)

\* Mistake: debugfs mode takes the fallback of auto mode.
AlwaysFallBack == TRUE

\* Whether a failure of the files sends the run to lnetctl.
FallsBack == mode = "auto"

\* Mistake: the source is recorded once, at the start.
RecordNothing == UNCHANGED scrapeSource

RecordFallback == scrapeSource' = "lctl"

DebugFSFailed ==
  \/ /\ FallsBack
     /\ RecordFallback
     /\ pc' = "stats show"
     /\ UNCHANGED <<obs, err>>
  \/ /\ ~FallsBack
     /\ Fail
     /\ UNCHANGED scrapeSource

\* A path that cannot be read: the next one, or the error of the last one.
StatsUnreadable(o) ==
  /\ pc = "files"
  /\ o \in Failures
  /\ Outcome(o)
  /\ Log(StatsPaths[path], o)
  /\ \/ /\ MorePaths
        /\ path' = path + 1
        /\ UNCHANGED <<pc, scrapeSource, obs, err>>
     \/ /\ ~MorePaths
        /\ path' = 1
        /\ DebugFSFailed
  /\ UNCHANGED <<mode, param, supplemental, shown>>

\* A file that can be read ends the search, even if it is malformed.
StatsMalformed ==
  /\ pc = "files"
  /\ Outcome("malformed")
  /\ Log(StatsPaths[path], "malformed")
  /\ path' = 1
  /\ DebugFSFailed
  /\ UNCHANGED <<mode, param, supplemental, shown>>

StatsRead(o) ==
  /\ pc = "files"
  /\ o \in {"ok", "empty"}
  /\ Outcome(o)
  /\ Log(StatsPaths[path], o)
  /\ path' = 1
  /\ obs' = IF o = "ok" THEN AppendAll(obs, StatsObservations("file")) ELSE obs
  /\ supplemental' = (mode = "auto")
  /\ pc' = IF mode = "auto" THEN "net show -v 3" ELSE "params"
  /\ UNCHANGED <<mode, param, scrapeSource, err, shown>>

-----------------------------------------------------------------------------
(* collectFromLNetCtl and collectSupplementalNetNI.                        *)

StatsShowFails(o) ==
  /\ pc = "stats show"
  /\ o \in Failures \cup {"malformed"}
  /\ Outcome(o)
  /\ Log("stats show", o)
  /\ Fail
  /\ UNCHANGED <<mode, path, param, scrapeSource, supplemental, shown>>

StatsShow ==
  /\ pc = "stats show"
  /\ Outcome("ok")
  /\ Log("stats show", "ok")
  /\ obs' = AppendAll(obs, StatsObservations("lnetctl"))
  /\ supplemental' = FALSE
  /\ pc' = "net show -v 3"
  /\ UNCHANGED <<mode, path, param, scrapeSource, err, shown>>

\* Mistake: a command that fails has its error returned.
NetShowFailureIsFatal(cmd) == Fail

\* -v 3 not available: plain net show; that not available either: do without.
WithoutNetShow(cmd) ==
  /\ pc' = IF cmd = "net show -v 3" THEN "net show" ELSE "params"
  /\ UNCHANGED <<obs, err>>

NetShowFails(cmd, o) ==
  /\ pc = cmd
  /\ o \in Failures
  /\ Outcome(o)
  /\ Log(cmd, o)
  /\ WithoutNetShow(cmd)
  /\ UNCHANGED <<mode, path, param, scrapeSource, supplemental, shown>>

\* Mistake: the per-NID counts appended in supplemental mode, too.
MergeAlways(show) ==
  AppendAll(obs, NIObservations(show) \cup CountObservations(show))

\* What allObs is once net show has printed `show`.
Merge(show) ==
  LET nis == IF show.health THEN NIObservations(show) ELSE {}
      counts == CountObservations(show)
  IN CASE supplemental -> AppendAll(obs, nis)
       [] ~supplemental /\ ~show.counts -> obs
       [] ~supplemental /\ show.counts /\ counts = {} -> AppendAll(obs, nis)
       [] OTHER -> AppendAll(DropGlobalLNetCountStats(obs), counts \cup nis)

NetShow(cmd, show) ==
  /\ pc = cmd
  /\ Outcome("ok")
  /\ Log(cmd, "ok")
  /\ shown' = {show}
  /\ obs' = Merge(show)
  /\ pc' = "params"
  /\ UNCHANGED <<mode, path, param, scrapeSource, supplemental, err>>

-----------------------------------------------------------------------------
(* collectParams, the mapper and the emitter.                              *)

NextParam == param' = param + 1 /\ path' = 1

ParamUnreadable(o) ==
  /\ InParams
  /\ o \in Failures
  /\ Outcome(o)
  /\ \/ /\ MorePaths
        /\ path' = path + 1
        /\ UNCHANGED param
     \/ /\ ~MorePaths
        /\ NextParam
  /\ UNCHANGED <<mode, pc, scrapeSource, supplemental, obs, err, log, shown>>

ParamMalformed ==
  /\ InParams
  /\ Outcome("malformed")
  /\ NextParam
  /\ UNCHANGED <<mode, pc, scrapeSource, supplemental, obs, err, log, shown>>

ParamRead ==
  /\ InParams
  /\ Outcome("ok")
  /\ obs' = AppendAll(obs, {Global(LNetParamNames[param], "file")})
  /\ NextParam
  /\ UNCHANGED <<mode, pc, scrapeSource, supplemental, err, log, shown>>

\* mapper.Map and emitter.Emit: all the observations, or an error.
Return ==
  /\ pc = "params"
  /\ param > Len(LNetParamNames)
  /\ IF \E o \in Observation : obs[o] > 0 /\ o.nid \in InvalidNIDs
     THEN Fail
     ELSE pc' = "returned" /\ UNCHANGED <<obs, err>>
  /\ UNCHANGED <<mode, path, param, expired, scrapeSource, supplemental, log, shown>>

Quiescent ==
  /\ pc = "returned"
  /\ UNCHANGED vars

Next ==
  \/ Expire
  \/ Begin
  \/ \E o \in Failures : StatsUnreadable(o)
  \/ StatsMalformed
  \/ \E o \in {"ok", "empty"} : StatsRead(o)
  \/ \E o \in Failures \cup {"malformed"} : StatsShowFails(o)
  \/ StatsShow
  \/ \E cmd \in {"net show -v 3", "net show"} :
       \/ \E o \in Failures : NetShowFails(cmd, o)
       \/ \E show \in NetShows : NetShow(cmd, show)
  \/ \E o \in Failures : ParamUnreadable(o)
  \/ ParamMalformed
  \/ ParamRead
  \/ Return
  \/ Quiescent

Spec == Init /\ [][Next]_vars

-----------------------------------------------------------------------------
(* Properties.                                                             *)

Present(metric) == {o \in Observation : o.metric = metric /\ obs[o] > 0}

\* Where the global counters of the run come from.
ReadFile == \E s \in {"debugfs stats", "procfs stats"} : log[s] \in {"ok", "empty"}
ReadLNetCtl == log["stats show"] = "ok"

\* Messages are counted globally or per NID and never both, as the two share
\* their public names and a sum over them would count twice; they are always
\* counted, unless the stats file was empty; and no series occurs twice, which
\* would fail the scrape of every collector (lnet.go:71, 123-126, 148-158).
CountedOnce ==
  /\ \A o1, o2 \in Observation :
       obs[o1] > 0 /\ obs[o2] > 0 =>
         /\ obs[o1] = 1
         /\ o1 # o2 => <<o1.metric, o1.nid>> # <<o2.metric, o2.nid>>
  /\ pc = "returned" /\ ~err =>
       /\ Present("count") = {} \/ Present("count by nid") = {}
       /\ (Present("count") \cup Present("count by nid") = {}) =
            ("empty" \in {log[s] : s \in Sources})

\* Per-NID counters appear in the way the table in docs/metrics.md:538-543
\* says: with lnetctl's counters, when net show names an interface, and with
\* its global counts gone then.
CountsByNIDWithLNetCtl ==
  pc = "returned" /\ ~err =>
    Present("count by nid") =
      UNION {CountObservations(show) : show \in {s \in shown : ReadLNetCtl /\ s.counts}}

\* The label `source` of the run's duration names the source that its
\* counters are from, or that it failed at last (lnet.go:47, 54, 61, 65).
LabelNamesSource ==
  pc = "returned" =>
    /\ \A o \in Present("traffic") :
         scrapeSource = IF o.from = "file" THEN "sys" ELSE "lctl"
    /\ err => (scrapeSource = "lctl") = (log["stats show"] # "unread")

\* The verdict on the run is that on its primary source and on the emitter:
\* what is optional never fails it, and without the primary source it fails,
\* before any parameter file is read (docs/metrics.md:500-504, 791-793).
VerdictIsPrimary ==
  /\ pc \in {"params", "net show -v 3", "net show"} => ReadFile \/ ReadLNetCtl
  /\ pc = "returned" /\ ~(ReadFile \/ ReadLNetCtl) => err
  /\ pc = "returned" /\ (ReadFile \/ ReadLNetCtl) /\ err =>
       \E show \in shown : \E n \in show.nis : n.nid \in InvalidNIDs

\* In debugfs mode no command is run, in lnetctl mode no stats file is read
\* (docs/design.md:263-265).
OnlyTheModesSources ==
  /\ mode = "debugfs" => \A c \in Commands : log[c] = "unread"
  /\ mode = "lnetctl" => \A s \in Sources \ Commands : log[s] = "unread"

\* What cmd/lustre_client_exporter/main.go:75 says of -collector.source-timeout:
\* it is the timeout of an individual source read.  A stats file that hangs
\* would then cost its own time only, and auto mode would get to try lnetctl.
HungFileLeavesFallback ==
  pc = "returned" /\ err /\ mode = "auto" => log["stats show"] # "refused"
=============================================================================
