------------------------------- MODULE Scrape -------------------------------
(***************************************************************************)
(* One scrape from end to end: cmd/lustre_client_exporter/main.go wires    *)
(* the collectors together, each of them reads the files of the host and   *)
(* hands them to its parsers, mapper.Map gives the observations their      *)
(* public names and labels, emitter.Emit makes series of them, and Gather  *)
(* (prometheus.Registry, external) puts the series of all collectors into  *)
(* one answer.  The files change between scrapes.                          *)
(*                                                                         *)
(* Registry, Reader, Emitter, LNetCollector and ClientCollector have the   *)
(* concurrency, the deadlines and the changes during a scrape; here a      *)
(* scrape sees the host at one moment, and what it makes of it is followed *)
(* down to the labels of every series.                                     *)
(*                                                                         *)
(* Abstractions.  A path is a tuple: its root, then the rest.  A command   *)
(* is a path under "cmd".                                                  *)
(***************************************************************************)
EXTENDS FiniteSets, Discovery, Mapper, Parsers

CONSTANTS
  Configs,     \* command lines
  Healthy,     \* the files of a host on which everything works
  Contents,    \* Contents[path]: what may be found at a path, otherwise
  Invalid,     \* texts that are not valid UTF-8
  MaxEdits     \* bound on the changes of the host

\* In the order in which run hands them to the registry.
AllCollectors == <<"health", "sptlrpc", "lnet", "client", "lpcc">>
Collectors == ToSet(AllCollectors)

\* The flags that matter.
Config ==
  [enabled : SUBSET Collectors, lnetSource : STRING, strict : BOOLEAN, webConfigFile : BOOLEAN]

\* A file: it does not exist, it cannot be read, or it has these lines.
Absent == [state |-> "absent", lines |-> <<>>]
Unreadable == [state |-> "error", lines |-> <<>>]
Text(lines) == [state |-> "ok", lines |-> lines]

\* What may be found at a path.
FilesAt(path) ==
  {Healthy[path]} \cup (IF path \in DOMAIN Contents THEN Contents[path] ELSE {})

\* The files of targets.
Imports == {path \in DOMAIN Healthy : Len(path) = 4}

\* The commands whose output has lists in it.
NetShow == <<<<"cmd", "net show -v 3">>, <<"cmd", "net show">>>>
LpccStatus == <<<<"cmd", "lpcc status">>>>

IsList(s) == s \in Seq(ToSet(s))

\* A file is a list of lines.  The lines of an rpc_stats file are those of
\* RpcStats (rpc.go:107-139); a line of a state file that is neither a state nor
\* history has a word, as it is not blank (target.go:64-76).
HasLines(path, file) ==
  /\ IsList(file.lines)
  /\ \A line \in ToSet(file.lines) :
       /\ path \in ToSet(NetShow) /\ line.document => IsList(line.nis)
       /\ path \in ToSet(LpccStatus) /\ line.document =>
            IsList(line.mounts) /\ \A m \in ToSet(line.mounts) : IsList(m.caches)
       /\ path \in Imports /\ path[4] = "rpc_stats" =>
            line.scalar \in {"", "rpcs_current", "pending_pages"}
       /\ path \in Imports /\ path[4] = "state" /\ line.start \notin {"current_state:", "history"} =>
            line.token # ""

\* Lustre puts the component into the name of an import, so that no two
\* targets have the same name.  The exporter relies on that and checks it
\* nowhere: the labels of a series name the target.
ASSUME ScrapeAssumption ==
  /\ Configs \subseteq Config
  /\ IsFiniteSet(Names)
  /\ DOMAIN Contents \subseteq DOMAIN Healthy
  /\ \A path \in DOMAIN Healthy : \A file \in FilesAt(path) : HasLines(path, file)
  /\ \A p, q \in Imports : p[3] = q[3] => p[2] = q[2]
  /\ MaxEdits \in Nat

VARIABLES
  config,   \* cfg
  phase,    \* of the exporter
  host,     \* what is at every path
  edits,    \* how often that has changed
  results,  \* what the Collect of every collector returned in the last scrape
  response, \* what promhttp answered then
  seen      \* what the host was then

vars == <<config, phase, host, edits, results, response, seen>>

TypeOK ==
  /\ config \in Configs
  /\ phase \in {"starting", "serving", "collected", "exited"}
  /\ DOMAIN host = DOMAIN Healthy
  /\ edits \in 0..MaxEdits
  /\ DOMAIN seen = DOMAIN Healthy
  /\ response \in {"none", "200", "500"}
  /\ DOMAIN results = IF response = "none" THEN {} ELSE config.enabled
  /\ response # "none" => config.lnetSource \in {"auto", "debugfs", "lnetctl"}

Init ==
  /\ config \in Configs
  /\ phase = "starting"
  /\ host = Healthy
  /\ edits = 0
  /\ results = <<>>
  /\ response = "none"
  /\ seen = Healthy

-----------------------------------------------------------------------------
(* internal/reader, and the paths of internal/discovery.                   *)

State(path) == IF path \in DOMAIN host THEN host[path].state ELSE "absent"
Readable(path) == State(path) = "ok"
Lines(path) == host[path].lines

\* The same file under several roots.
Under(roots, rest) == [i \in DOMAIN roots |-> <<roots[i]>> \o rest]

HealthPath == <<"sys", "health_check">>
SptlrpcPaths == Under(<<"debug", "proc">>, <<"encrypt_page_pools">>)
LDLMCBDStatsPaths == Under(<<"debug", "proc">>, <<"ldlm_cbd">>)
LNetStatsPaths == Under(<<"debug", "proc">>, <<"lnet", "stats">>)

\* Mistake: fail_max is one more parameter.
FailMaxToo ==
  <<"console_backoff", "console_max_delay_centisecs", "console_min_delay_centisecs",
    "console_ratelimit", "debug_mb", "panic_on_lbug", "watchdog_ratelimit", "catastrophe",
    "lnet_memused", "fail_err", "fail_val", "fail_max">>

LNetParamNames ==
  <<"console_backoff", "console_max_delay_centisecs", "console_min_delay_centisecs",
    "console_ratelimit", "debug_mb", "panic_on_lbug", "watchdog_ratelimit", "catastrophe",
    "lnet_memused", "fail_err", "fail_val">>

LNetParamPaths(param) ==
  Under(<<"debug", "proc">>, <<"lnet", param>>)
    \o IF param = "fail_val" THEN Under(<<"debug", "proc">>, <<"lnet", "fail_max">>) ELSE <<>>

\* ReadFirstAvailable, and readParamFile: the first readable path.
Available(paths) == {i \in DOMAIN paths : Readable(paths[i])}
FirstAvailable(paths) == paths[Min(Available(paths))]

\* What it is parsed to; `otherwise` if there is none.
ParseFirst(paths, otherwise, Parse(_, _)) ==
  IF Available(paths) = {} THEN otherwise
  ELSE Parse(Lines(FirstAvailable(paths)), FirstAvailable(paths))

\* The observations of all, or the first failure.
All(parts) ==
  IF \E i \in DOMAIN parts : parts[i].err THEN Failed
  ELSE Parsed(FlattenSeq([i \in DOMAIN parts |-> parts[i].obs]))

\* A failure is logged, and the source left out.
Optional(result) == IF result.err THEN Parsed(<<>>) ELSE result

-----------------------------------------------------------------------------
(* collector/health.go, sptlrpc.go, lpcc.go.                               *)

HealthObservations == ParseFirst(<<HealthPath>>, Failed, ParseHealth)
SptlrpcObservations == ParseFirst(SptlrpcPaths, Failed, ParseEncryptPagePools)

\* A command that fails is no failure.
LpccObservations == ParseFirst(LpccStatus, Parsed(<<>>), ParseLpccStatus)

-----------------------------------------------------------------------------
(* collector/lnet.go                                                       *)

\* Mistake: the NIs are not asked for.
NoSupplement == Parsed(<<>>)

\* collectSupplementalNetNI
SupplementalNetNI == Optional(ParseFirst(NetShow, Failed, ParseLNetCtlNetNI))

CollectFromDebugFS == ParseFirst(LNetStatsPaths, Failed, ParseLNetStats)

IsGlobalCount(o) == o.id \in {"send_count_total", "receive_count_total", "drop_count_total"}

DropGlobalLNetCountStats(obs) ==
  FlattenSeq([i \in DOMAIN obs |-> IF IsGlobalCount(obs[i]) THEN <<>> ELSE <<obs[i]>>])

CollectFromLNetCtl ==
  LET stats == ParseFirst(<<<<"cmd", "stats show">>>>, Failed, ParseLNetCtlStats)
      counts == ParseFirst(NetShow, Failed, ParseLNetCtlNetStats)
  IN IF stats.err \/ counts.err THEN stats
     ELSE All(<<IF counts.obs = <<>> THEN stats
                ELSE Parsed(DropGlobalLNetCountStats(stats.obs) \o counts.obs),
                SupplementalNetNI>>)

CollectParam(param) ==
  Optional(ParseFirst(LNetParamPaths(param), Failed,
                      LAMBDA lines, path : ParseLNetParam(lines, path, param)))

CollectParams == All([i \in DOMAIN LNetParamNames |-> CollectParam(LNetParamNames[i])])

LNetObservations ==
  LET primary ==
        IF config.lnetSource = "debugfs" THEN CollectFromDebugFS
        ELSE IF config.lnetSource = "lnetctl" \/ CollectFromDebugFS.err THEN CollectFromLNetCtl
        ELSE All(<<CollectFromDebugFS, SupplementalNetNI>>)
  IN All(<<primary, CollectParams>>)

-----------------------------------------------------------------------------
(* collector/client.go                                                     *)

lliteSingleFiles ==
  <<"blocksize", "filesfree", "filestotal", "kbytesavail", "kbytesfree", "kbytestotal",
    "checksum_pages", "default_easize", "lazystatfs", "max_easize", "max_read_ahead_mb",
    "max_read_ahead_per_file_mb", "max_read_ahead_whole_mb", "statahead_agl", "statahead_max",
    "xattr_cache">>

\* clientParamFiles
ParamFiles(component) ==
  CASE component = "llite" -> lliteSingleFiles
    [] component = "mdc" -> <<"max_rpcs_in_flight", "max_mod_rpcs_in_flight",
                              "max_pages_per_rpc", "active", "state">>
    [] OTHER -> <<"cur_dirty_bytes", "max_dirty_mb", "max_pages_per_rpc",
                  "max_rpcs_in_flight", "active", "state">>

\* Mistake: a bad file of an import costs the whole import in lenient mode, too.
NeverStrictError(result) == result

\* strictError, for a result that failed.
StrictError(result) == IF config.strict THEN result ELSE Optional(result)

Path(t, root, file) == <<root, t.component, t.name, file>>

\* DiscoverClients
Targets ==
  LET Found(p) == {n \in Names : State(<<p.root, p.component, n, p.file>>) # "absent"}
  IN FoldLeft(LAMBDA idx, p : AddMatches(idx, p, SetToSeq(Found(p))), NewIndex, Patterns).targets

ParseParam(t, file, lines, path) ==
  CASE t.component = "llite" -> ParseLLiteSingleFile(lines, path, file, t.name)
    [] t.component # "llite" /\ file = "state" -> ParseClientState(lines, path, t.name, t.component)
    [] OTHER -> ParseClientSingleFile(lines, path, file, t.name, t.component)

\* A parameter file that is missing or unreadable is left out.
Params(t) ==
  LET files == ParamFiles(t.component)
      Param(file) == StrictError(ParseFirst(Under(ParamRoots, <<t.component, t.name, file>>),
                       Parsed(<<>>), LAMBDA lines, path : ParseParam(t, file, lines, path)))
  IN All([i \in DOMAIN files |-> Param(files[i])])

\* The parameters of a mount are read after its stats.
CollectLLite(t) ==
  All(<<ParseFirst(<<Path(t, t.stats, "stats")>>, Failed,
          LAMBDA lines, path : ParseLLiteStats(lines, path, t.name)),
        Params(t)>>)

CollectOBDStats(t) ==
  IF t.stats = NoPath THEN Parsed(<<>>)
  ELSE ParseFirst(<<Path(t, t.stats, "stats")>>, Failed,
         LAMBDA lines, path : ParseOBDStats(lines, path, t.name, t.component))

CollectRPCStats(t) ==
  IF t.rpc_stats = NoPath THEN Parsed(<<>>)
  ELSE ParseFirst(<<Path(t, t.rpc_stats, "rpc_stats")>>, Failed,
         LAMBDA lines, path : ParseRPCStats(lines, path, t.name, t.component))

CollectTarget(t) ==
  IF t.component = "llite" THEN StrictError(CollectLLite(t))
  ELSE All(<<StrictError(CollectOBDStats(t)), StrictError(CollectRPCStats(t)), Params(t)>>)

ClientObservations ==
  LET targets == Targets
      ldlm == ParseFirst(LDLMCBDStatsPaths, Parsed(<<>>), ParseLDLMCBDStats)
  IN All(<<StrictError(ldlm)>> \o [i \in DOMAIN targets |-> CollectTarget(targets[i])])

-----------------------------------------------------------------------------
(* The answer.                                                             *)

Observations(c) ==
  CASE c = "health" -> HealthObservations
    [] c = "sptlrpc" -> SptlrpcObservations
    [] c = "lnet" -> LNetObservations
    [] c = "client" -> ClientObservations
    [] c = "lpcc" -> LpccObservations

\* Emit: an invalid label value fails all series of the collector.
Emit(mapped) ==
  IF \E i \in DOMAIN mapped.series : \E k \in DOMAIN mapped.series[i].labels :
       mapped.series[i].labels[k] \in Invalid
  THEN [err |-> TRUE, series |-> <<>>]
  ELSE mapped

\* The end of every Collect; the observations are kept for the properties.
Collect(c) ==
  LET result == Observations(c)
      emitted == Emit(Map(result))
  IN [err |-> emitted.err, series |-> emitted.series, obs |-> result.obs]

\* The series that Gather receives.
Gathered ==
  FlattenSeq([i \in DOMAIN AllCollectors |->
    IF AllCollectors[i] \in DOMAIN results THEN results[AllCollectors[i]].series ELSE <<>>])

HasDuplicates(series) == Len(series) # Cardinality(ToSet(series))

\* Gather refuses duplicate series, and the invalid metrics of strict mode.
Refused ==
  \/ HasDuplicates(Gathered)
  \/ config.strict /\ \E c \in DOMAIN results : results[c].err

\* Mistake: the source is not checked; run takes an unknown one for auto.
AnySource == ~config.webConfigFile

\* validateConfig
Valid == ~config.webConfigFile /\ config.lnetSource \in {"auto", "debugfs", "lnetctl"}

Start ==
  /\ phase = "starting"
  /\ phase' = IF Valid THEN "serving" ELSE "exited"
  /\ UNCHANGED <<config, host, edits, results, response, seen>>

Edit(path, file) ==
  /\ phase \in {"serving", "collected"}
  /\ edits < MaxEdits
  /\ host[path] # file
  /\ host' = [host EXCEPT ![path] = file]
  /\ edits' = edits + 1
  /\ phase' = "serving"
  /\ UNCHANGED <<config, results, response, seen>>

Scrape ==
  /\ phase = "serving"
  /\ UNCHANGED <<config, host, edits>>
  /\ phase' = "collected"
  /\ results' = [c \in config.enabled |-> Collect(c)]
  /\ response' = IF Refused' THEN "500" ELSE "200"
  /\ seen' = host

\* The server is never shut down in order.
Idle ==
  /\ \/ phase = "exited"
     \/ phase = "collected" /\ edits = MaxEdits
  /\ UNCHANGED vars

Next ==
  \/ Start
  \/ \E path \in DOMAIN Contents : \E file \in FilesAt(path) : Edit(path, file)
  \/ Scrape
  \/ Idle

Spec == Init /\ [][Next]_vars
-----------------------------------------------------------------------------
(* Properties.                                                             *)

\* The observations behind the series of the collectors that succeeded.
Succeeded == {c \in DOMAIN results : ~results[c].err}
Observed(c) == ToSet(results[c].obs)
AllObserved == UNION {Observed(c) : c \in Succeeded}

\* The host is as in the last scrape, and so are the targets of the client
\* collector, which has succeeded.
ClientIsFresh == phase = "collected" /\ "client" \in Succeeded

\* The observation has exactly the labels of its metric in the contract.
HasItsLabels(o) == o.id \in DOMAIN Registry /\ DOMAIN o.labels = Registry[o.id].labels

\* No label is lost or invented between a parser and the contract, whatever the
\* files are: Map would drop one more and fill a missing one with "", without a
\* word (mapper.go:30-33).
LabelsAreExact == \A o \in AllObserved : HasItsLabels(o)

\* Identifiers that share their public name with one that has more labels.
GlobalCounts == {"send_count_total", "receive_count_total", "drop_count_total"}
CountsByNID == {m.id : m \in LNetStatsByNID}

\* On a host on which everything works each metric of the contract has a series,
\* so that no name of a file, which is written down in two tables
\* (client.go:21-38, llite.go:115-135, target.go:10-21), differs between them: a
\* file that is not in the second one is passed over.
ContractKept ==
  host = Healthy /\ phase = "collected" /\ config.enabled = Collectors =>
    {o.id : o \in AllObserved} =
      DOMAIN Registry \ IF config.lnetSource = "lnetctl" THEN GlobalCounts ELSE CountsByNID

\* No two sources, and no two metrics, ever become the same series, which would
\* fail the whole scrape, in lenient mode, too (collector.go:135): two equal
\* series come from one file that says the same thing twice.
SeriesAreDistinct ==
  Cardinality(AllObserved) = Cardinality({MapObservation(o) : o \in AllObserved})

LNetPrimary == ToSet(LNetStatsPaths) \cup ToSet(NetShow) \cup {<<"cmd", "stats show">>}

\* The file at p decides what is made of the file at q: both are places of the
\* same file; LNet's sources decide over each other; the stats of a mount are
\* read before its parameters; an import has to be discovered.
Decides(p, q) ==
  \/ Tail(p) = Tail(q)
  \/ {p, q} \subseteq ToSet(LNetParamPaths("fail_val"))
  \/ {p, q} \subseteq LNetPrimary
  \/ /\ {p, q} \subseteq Imports
     /\ p[2] = q[2] /\ p[3] = q[3]
     /\ p[4] \in {"stats", "rpc_stats"} /\ q[4] \notin {"stats", "rpc_stats"}
     /\ \/ p[2] = "llite"
        \/ \A i \in DOMAIN Targets : Targets[i].name # q[3]

InvalidIn(observations) ==
  \E o \in observations : \E k \in DOMAIN o.labels : o.labels[k] \in Invalid

\* Whatever happens to one file, no series of another is lost, unless the file
\* decides over that one or the whole collector fails; and in lenient mode the
\* client collector fails for an invalid text in a label only (client.go:107-118,
\* 142-171, lnet.go:152-169).
OnlyItsOwnSeriesAreLost ==
  [][\A c \in Succeeded :
       /\ c \in Succeeded' =>
            \A o \in Observed(c) \ Observed(c)' :
              \E p \in DOMAIN Contents : host[p] # seen[p] /\ Decides(p, o.source)
       /\ c = "client" /\ c \notin Succeeded' =>
            config.strict \/ InvalidIn(Observed(c)')]_vars

\* The series that a line of a stats file has in any case.
Shown(t, line) ==
  \A o \in ToSet(LLiteLine(line, t.name, Path(t, t.stats, "stats"))) : o \in Observed("client")

\* A stats file has all of its series in the answer or none of them, and in
\* strict mode an answer has all of them: no prefix of a torn file, no file with
\* holes (llite.go:38-46, obd_stats.go:25-30, client.go:107-118, 189-200).
StatsFilesAreWhole ==
  ClientIsFresh =>
    \A i \in DOMAIN Targets :
      LET t == Targets[i]
          readable == Readable(Path(t, t.stats, "stats"))
          lines == Lines(Path(t, t.stats, "stats"))
          named == {n \in DOMAIN lines : Named(lines[n])}
          shown == {n \in named : Shown(t, lines[n])}
      IN t.stats # NoPath =>
           /\ readable => shown \in {{}, named}
           /\ config.strict => readable /\ shown = named

\* The joins of docs/metrics.md (247-250, 365-371, 424-428): of the series of two
\* names with these labels ignored.
Joins ==
  { [left |-> "stats_seconds_sum", right |-> "stats_total", ignoring |-> {"type"}],
    [left |-> "osc_dirty_bytes", right |-> "osc_max_dirty_bytes", ignoring |-> {}],
    [left |-> "rpcs_current", right |-> "max_rpcs_in_flight", ignoring |-> {"operation"}],
    [left |-> "rpcs_current", right |-> "max_mod_rpcs_in_flight", ignoring |-> {"operation"}],
    [left |-> "pending_pages", right |-> "osc_dirty_bytes",
     ignoring |-> {"type", "operation"}] }

Without(labels, keys) == [k \in DOMAIN labels \ keys |-> labels[k]]

\* Two series of which the labels that both have are equal.
SameSubject(s, r) ==
  \A k \in DOMAIN s.labels \cap DOMAIN r.labels : s.labels[k] = r.labels[k]

\* Two series about the same target and operation have, but for the labels that
\* the documented query ignores, the same labels, so that the query joins them,
\* with no other: a label more on one side empties the join, a label less makes
\* it ambiguous.  And a sum of seconds has the count of its operation beside it.
JoinsMatch ==
  ClientIsFresh =>
    LET series == ToSet(results["client"].series)
        Series(name) == {s \in series : s.name = name}
    IN /\ \A j \in Joins : \A s \in Series(j.left) : \A r \in Series(j.right) :
            SameSubject(s, r) <=> Without(s.labels, j.ignoring) = r.labels
       /\ \A s \in Series("stats_seconds_sum") :
            Cardinality({r \in Series("stats_total") : SameSubject(s, r)}) = 1

\* The lines of a state file that say what the state is: the last current_state
\* line or, if there is none, the first line that is no history.
StateOf(lines) ==
  LET current == {i \in DOMAIN lines : lines[i].start = "current_state:"}
      other == {i \in DOMAIN lines : lines[i].start # "history"}
  IN CASE current # {} -> lines[CHOOSE i \in current : \A j \in current : j <= i].token
       [] current = {} /\ other # {} -> lines[CHOOSE i \in other : \A j \in other : i <= j].token
       [] OTHER -> ""

\* An import is in one state, the current one: no state of its history, none of
\* another place of the file, and none at all if the file names none
\* (target.go:63-110).
StateIsCurrent ==
  ClientIsFresh =>
    \A i \in DOMAIN Targets :
      LET t == Targets[i]
          places == Under(ParamRoots, <<t.component, t.name, "state">>)
          states == {s.labels.state : s \in {r \in ToSet(results["client"].series) :
                       r.name = "target_state" /\ r.labels.target = t.name}}
      IN t.component # "llite" =>
           states = (IF Available(places) = {} THEN {}
                     ELSE {StateOf(Lines(FirstAvailable(places)))}) \ {""}

\* Refuted (docs/design.md:334-335, the emitter "validates [...] duplicate time
\* series"): the series of a collector that reports success are distinct.
DuplicatesAreRefused ==
  \A c \in DOMAIN results : results[c].err \/ ~HasDuplicates(results[c].series)
=============================================================================
