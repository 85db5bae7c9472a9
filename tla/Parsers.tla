------------------------------ MODULE Parsers ------------------------------
(***************************************************************************)
(* internal/parser: what each source file and command output becomes, as   *)
(* one operator per parser.                                                *)
(*                                                                         *)
(* A parser turns the lines of a file into observations, or fails and      *)
(* returns none: a bad line costs its whole file.  Which lines are bad and *)
(* which are passed over differs from parser to parser.                    *)
(*                                                                         *)
(* Abstractions.  A line is the outcome of the tests that the parser makes *)
(* on it; blank lines are left out.  Values are left out.  The JSON or     *)
(* YAML output of a command is one line, the document; maps and slices in  *)
(* it are sequences, in any order.                                         *)
(***************************************************************************)
EXTENDS Integers, Sequences, SequencesExt

\* A line of a stats file: its name, whether the name ends with "=", the
\* number of its fields, and whether the fields at their positions are the
\* count, the word "samples", a time unit, the minimum and maximum, the sum.
StatsLine ==
  [name : STRING, equals : BOOLEAN, fields : Nat, count : BOOLEAN, samples : BOOLEAN,
   time : BOOLEAN, range : BOOLEAN, sum : BOOLEAN]

\* Observation; err and what is returned with it.
Observation(id, labels, source) == [id |-> id, labels |-> labels, source |-> source]
Failed == [err |-> TRUE, obs |-> <<>>]
Parsed(obs) == [err |-> FALSE, obs |-> obs]
One(id, labels, source) == Parsed(<<Observation(id, labels, source)>>)

Client(target) == [component |-> "client", target |-> target]
LNet == [component |-> "lnet", target |-> "lnet"]

\* The labels, and some more.
With(labels, more) ==
  [k \in DOMAIN labels \cup DOMAIN more |-> IF k \in DOMAIN more THEN more[k] ELSE labels[k]]

\* Observations of one label set, in the order of the identifiers.
Each(ids, labels, source) == [i \in DOMAIN ids |-> Observation(ids[i], labels, source)]

\* The loop of every line parser: the observations of the lines that it takes,
\* or the error of the first bad one of them.
AllLines(lines, Takes(_), Bad(_), Obs(_)) ==
  IF \E i \in DOMAIN lines : Takes(lines[i]) /\ Bad(lines[i]) THEN Failed
  ELSE Parsed(FlattenSeq([i \in DOMAIN lines |->
                IF Takes(lines[i]) THEN Obs(lines[i]) ELSE <<>>]))

\* A file that holds one number.
IsNumber(lines) == Len(lines) = 1 /\ lines[1].number

SingleFile(lines, id, labels, source) ==
  IF IsNumber(lines) THEN One(id, labels, source) ELSE Failed

-----------------------------------------------------------------------------
(* health.go, sptlrpc.go.                                                  *)

\* Any content but "healthy" means unhealthy.
ParseHealth(lines, source) ==
  One("health_check", [component |-> "health", target |-> "lustre"], source)

\* Keys are written with _ for a blank.
sptlrpcKeyMap ==
  [physical_pages |-> "physical_pages", pages_per_pool |-> "pages_per_pool",
   max_pages |-> "maximum_pages", max_pools |-> "maximum_pools",
   pages_in_pools |-> "pages_in_pools", free_pages |-> "free_pages",
   max_pages_reached |-> "maximum_pages_reached_total", grows |-> "grows_total",
   grows_failure |-> "grows_failure_total", shrinks |-> "shrinks_total",
   cache_access |-> "cache_access_total", cache_miss |-> "cache_miss_total",
   free_page_low |-> "free_page_low", max_waitqueue_depth |-> "maximum_waitqueue_depth",
   out_of_mem |-> "out_of_memory_request_total"]

\* A line is its key ("" if it has no colon) and whether its value is a number.
ParseEncryptPagePools(lines, source) ==
  AllLines(lines, LAMBDA line : line.key \in DOMAIN sptlrpcKeyMap,
           LAMBDA line : ~line.number,
           LAMBDA line : <<Observation(sptlrpcKeyMap[line.key], <<>>, source)>>)

-----------------------------------------------------------------------------
(* llite.go, obd_stats.go, ldlm.go: stats files.                           *)

Named(line) == line.fields >= 2 /\ line.name # "snapshot_time"
IsBytes(line) == line.name \in {"read_bytes", "write_bytes"}

\* parseBytesStat, for both kinds of targets.
BytesIDs(line) ==
  IF line.name = "read_bytes"
  THEN <<"read_samples_total", "read_minimum_size_bytes", "read_maximum_size_bytes",
         "read_bytes_total">>
  ELSE <<"write_samples_total", "write_minimum_size_bytes", "write_maximum_size_bytes",
         "write_bytes_total">>

BadStat(line) ==
  \/ ~line.count
  \/ IsBytes(line) /\ ~(line.fields >= 7 /\ line.range /\ line.sum)

\* parseOperationStat
Operation(line, target, source) ==
  Observation("stats_total", With(Client(target), [operation |-> line.name]), source)

LLiteLine(line, target, source) ==
  IF IsBytes(line) THEN Each(BytesIDs(line), Client(target), source)
                   ELSE <<Operation(line, target, source)>>

\* Mistake: a bad line is passed over.
SkipBadLines(lines, source, target) ==
  AllLines(lines, Named, LAMBDA line : FALSE,
           LAMBDA line : IF BadStat(line) THEN <<>> ELSE LLiteLine(line, target, source))

ParseLLiteStats(lines, source, target) ==
  AllLines(lines, Named, BadStat, LAMBDA line : LLiteLine(line, target, source))

\* statsSecondsSum: a line that has no readable sum is no error.
HasSeconds(line) == line.fields >= 7 /\ line.samples /\ line.sum /\ line.time

Seconds(line, target, type, source) ==
  Observation("stats_seconds_sum",
              With(Client(target), [type |-> type, operation |-> line.name]), source)

\* parseOBDStatLine
OBDLine(line, target, type, source) ==
  LLiteLine(line, target, source)
    \o IF ~IsBytes(line) /\ HasSeconds(line) THEN <<Seconds(line, target, type, source)>>
                                             ELSE <<>>

ParseOBDStats(lines, source, target, type) ==
  AllLines(lines, Named, BadStat, LAMBDA line : OBDLine(line, target, type, source))

ParseLDLMCBDStats(lines, source) ==
  AllLines(lines,
           LAMBDA line : /\ line.name # "snapshot_time" /\ ~line.equals
                         /\ line.fields >= 3 /\ line.samples,
           LAMBDA line : ~line.count,
           LAMBDA line : <<Observation("ldlm_cbd_stats", [operation |-> line.name], source)>>)

-----------------------------------------------------------------------------
(* llite.go, target.go: files of a target that hold one value.             *)

lliteSingleFileMap ==
  [blocksize |-> "blocksize_bytes", filesfree |-> "inodes_free",
   filestotal |-> "inodes_maximum", kbytesavail |-> "available_kibibytes",
   kbytesfree |-> "free_kibibytes", kbytestotal |-> "capacity_kibibytes",
   checksum_pages |-> "checksum_pages_enabled", default_easize |-> "default_ea_size_bytes",
   lazystatfs |-> "lazystatfs_enabled", max_easize |-> "maximum_ea_size_bytes",
   max_read_ahead_mb |-> "maximum_read_ahead_megabytes",
   max_read_ahead_per_file_mb |-> "maximum_read_ahead_per_file_megabytes",
   max_read_ahead_whole_mb |-> "maximum_read_ahead_whole_megabytes",
   statahead_agl |-> "statahead_agl_enabled", statahead_max |-> "statahead_maximum",
   xattr_cache |-> "xattr_cache_enabled"]

ParseLLiteSingleFile(lines, source, file, target) ==
  IF file \notin DOMAIN lliteSingleFileMap THEN Parsed(<<>>)
  ELSE SingleFile(lines, lliteSingleFileMap[file], Client(target), source)

clientSingleFileMap ==
  [cur_dirty_bytes |-> "osc_dirty_bytes", max_dirty_mb |-> "osc_max_dirty_bytes",
   max_pages_per_rpc |-> "max_pages_per_rpc", max_rpcs_in_flight |-> "max_rpcs_in_flight",
   max_mod_rpcs_in_flight |-> "max_mod_rpcs_in_flight", active |-> "target_active"]

\* Mistake: the values of all these files have the type of the import.
EveryFileHasType(file) == file \in DOMAIN clientSingleFileMap

HasType(file) == file \notin {"cur_dirty_bytes", "max_dirty_mb"}

ParseClientSingleFile(lines, source, file, target, type) ==
  IF file \notin DOMAIN clientSingleFileMap THEN Parsed(<<>>)
  ELSE SingleFile(lines, clientSingleFileMap[file],
                  IF HasType(file) THEN With(Client(target), [type |-> type]) ELSE Client(target),
                  source)

\* Mistake: the first current_state line wins.
FirstStateWins(s, line) ==
  IF line.start = "current_state:" /\ ~s.foundCurrent
  THEN [s EXCEPT !.foundCurrent = TRUE, !.current = line.token]
  ELSE IF s.foundCurrent \/ s.fallback # "" \/ line.start = "history" THEN s
  ELSE [s EXCEPT !.fallback = line.token]

\* One line of a state file: the last current_state line wins, even an empty
\* one; before the first of them, the first other line is kept.  A line is what
\* it starts with ("history": state_history or an entry of it) and the first
\* word of the rest of it.
StateLine(s, line) ==
  IF line.start = "current_state:"
  THEN [s EXCEPT !.foundCurrent = TRUE, !.current = line.token]
  ELSE IF s.foundCurrent \/ s.fallback # "" \/ line.start = "history" THEN s
  ELSE [s EXCEPT !.fallback = line.token]

ParseClientState(lines, source, target, type) ==
  LET end == FoldLeft(StateLine, [foundCurrent |-> FALSE, current |-> "", fallback |-> ""], lines)
      state == IF end.foundCurrent THEN end.current ELSE end.fallback
  IN IF state = "" THEN Parsed(<<>>)
     ELSE One("target_state", With(Client(target), [type |-> type, state |-> state]), source)

-----------------------------------------------------------------------------
(* rpc.go: RpcStats has the steps of the parser, and what they mean.       *)

R == INSTANCE RpcStats WITH Lines <- {}, MaxLines <- 0, file <- <<>>,
       section <- [name |-> "", operation |-> "", pendingOperation |-> ""],
       observations <- <<>>, err <- FALSE

NoSection == [name |-> "", operation |-> "", pendingOperation |-> ""]

\* One line: the section after it and the observations after it.
RPCStatsLine(s, line) ==
  LET section == R!ApplyHeader(s.section, line)
      bucket == R!IsBucket(section, line)
  IN IF line.start = "snapshot_time" THEN s
     ELSE [section |-> section, err |-> s.err \/ (bucket /\ line.bucket = "malformed"),
           obs |-> s.obs \o R!ScalarObservations(line, line.size)
                     \o IF bucket THEN R!BucketObservations(section, line, line.size) ELSE <<>>]

\* rpcSectionMetric, and the labels of scalars and buckets.
RPCObservation(o, target, type, source) ==
  LET labels == With(Client(target), [operation |-> o.operation])
      typed == With(labels, [type |-> type])
  IN CASE o.metric \in {"rpcs_current", "pending_pages"} -> Observation(o.metric, typed, source)
       [] o.metric = "rpcs_in_flight" -> Observation(o.metric, With(typed, [size |-> o.line]), source)
       [] o.metric = "pages_per_rpc" ->
            Observation("pages_per_rpc_total", With(labels, [size |-> o.line]), source)
       [] OTHER -> Observation(o.metric, With(labels, [size |-> o.line]), source)

\* A line is one of RpcStats, and its size, the key of a bucket.
ParseRPCStats(lines, source, target, type) ==
  LET end == FoldLeft(RPCStatsLine, [section |-> NoSection, err |-> FALSE, obs |-> <<>>], lines)
  IN IF end.err THEN Failed
     ELSE Parsed([i \in DOMAIN end.obs |-> RPCObservation(end.obs[i], target, type, source)])

-----------------------------------------------------------------------------
(* lnet.go                                                                 *)

lnetStatsFields ==
  <<"allocated", "maximum", "errors_total", "send_count_total", "receive_count_total",
    "route_count_total", "drop_count_total", "send_bytes_total", "receive_bytes_total",
    "route_bytes_total", "drop_bytes_total">>

\* A line is the number of its fields and whether all are numbers.
ParseLNetStats(lines, source) ==
  IF lines = <<>> THEN Parsed(<<>>)
  ELSE IF \/ FoldLeft(LAMBDA n, line : n + line.fields, 0, lines) # Len(lnetStatsFields)
          \/ \E i \in DOMAIN lines : ~lines[i].number
  THEN Failed
  ELSE Parsed(Each(lnetStatsFields, LNet, source))

lnetParamMap ==
  [console_backoff |-> "console_backoff_enabled",
   console_max_delay_centisecs |-> "console_max_delay_centiseconds",
   console_min_delay_centisecs |-> "console_min_delay_centiseconds",
   console_ratelimit |-> "console_ratelimit_enabled", debug_mb |-> "debug_megabytes",
   panic_on_lbug |-> "panic_on_lbug_enabled",
   watchdog_ratelimit |-> "watchdog_ratelimit_enabled", catastrophe |-> "catastrophe_enabled",
   lnet_memused |-> "lnet_memory_used_bytes", fail_err |-> "fail_error_total",
   fail_val |-> "fail_maximum", fail_max |-> "fail_maximum"]

ParseLNetParam(lines, source, param) ==
  IF param \notin DOMAIN lnetParamMap THEN Parsed(<<>>)
  ELSE SingleFile(lines, lnetParamMap[param], LNet, source)

IsDocument(lines) == Len(lines) = 1 /\ lines[1].document

\* unmarshalJSONOrYAML: nothing at all is a YAML document, too.
IsJSONOrYAML(lines) == lines = <<>> \/ IsDocument(lines)

\* Counters that the document does not have read zero.
ParseLNetCtlStats(lines, source) ==
  IF IsJSONOrYAML(lines) THEN Parsed(Each(lnetStatsFields, LNet, source)) ELSE Failed

OfNI(ni) == With(LNet, [nid |-> ni.nid])

\* The local NIs of the document.
LocalNIs(lines) == IF lines = <<>> THEN <<>> ELSE lines[1].nis
HasNID(ni) == ni.nid # ""

ParseLNetCtlNetStats(lines, source) ==
  IF ~IsJSONOrYAML(lines) THEN Failed
  ELSE AllLines(LocalNIs(lines), HasNID, LAMBDA ni : FALSE,
         LAMBDA ni : Each(<<"send_count_by_nid_total", "receive_count_by_nid_total",
                            "drop_count_by_nid_total">>, OfNI(ni), source))

\* lnetNIObservations
NIObservations(ni, source) ==
  (IF ni.status = "" THEN <<>> ELSE Each(<<"lnet_ni_up">>, OfNI(ni), source))
    \o IF ~ni.health THEN <<>>
       ELSE Each(<<"lnet_ni_health", "lnet_ni_health_interrupts_total",
                   "lnet_ni_health_dropped_total", "lnet_ni_health_aborted_total",
                   "lnet_ni_health_no_route_total", "lnet_ni_health_timeouts_total",
                   "lnet_ni_health_errors_total">>, OfNI(ni), source)

ParseLNetCtlNetNI(lines, source) ==
  IF ~IsJSONOrYAML(lines) THEN Failed
  ELSE AllLines(LocalNIs(lines), HasNID, LAMBDA ni : FALSE, LAMBDA ni : NIObservations(ni, source))

-----------------------------------------------------------------------------
(* lpcc.go                                                                 *)

pccCache ==
  <<"pcc_status", "pcc_purge_status", "pcc_cache_usage_ratio", "pcc_purge_high_usage_ratio",
    "pcc_purge_low_usage_ratio", "pcc_purge_interval_seconds", "pcc_purge_scan_threads",
    "pcc_purge_scan_times_total", "pcc_purge_total_purged_objs_total",
    "pcc_purge_total_failed_objs_total", "pcc_purge_scanned_objs", "pcc_purge_purged_objs",
    "pcc_cached_files", "pcc_cached_bytes", "pcc_min_cached_file_size_bytes",
    "pcc_max_cached_file_size_bytes", "pcc_average_age_seconds">>

pccMount ==
  <<"pcc_fs_open_count_total", "pcc_fs_real_hit_total", "pcc_fs_open_hit_ratio",
    "pcc_fs_real_hit_bytes_total", "pcc_fs_total_read_bytes_total",
    "pcc_fs_read_hit_bytes_ratio">>

\* A mount is its path and the names of its caches.
MountObservations(m, source) ==
  FlattenSeq([i \in DOMAIN m.caches |->
                Each(pccCache, [mount |-> m.mount, cache |-> m.caches[i]], source)])
    \o Each(pccMount, [mount |-> m.mount], source)

ParseLpccStatus(lines, source) ==
  IF ~IsDocument(lines) THEN Failed
  ELSE AllLines(lines[1].mounts, LAMBDA m : TRUE, LAMBDA m : FALSE,
         LAMBDA m : MountObservations(m, source))
=============================================================================
