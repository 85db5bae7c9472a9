------------------------------- MODULE Mapper -------------------------------
(***************************************************************************)
(* internal/mapper: the table of public metrics (contract.go) and Map,     *)
(* which gives every observation of the parsers its public name and the    *)
(* labels of that name (mapper.go).                                        *)
(*                                                                         *)
(* Abstractions.  Help texts and values are left out, and the prefix       *)
(* "lustre_" of every public name.  The order of the label keys is left    *)
(* out: a series is its name and the function from its keys to its values. *)
(***************************************************************************)
EXTENDS Sequences

\* The metrics `ids`, all of one type and with the same label keys; the public
\* name of a metric is its identifier.
Metrics(type, keys, ids) ==
  {[id |-> id, name |-> id, type |-> type, labels |-> keys] : id \in ids}

OfTarget == {"component", "target"}
OfNID == {"component", "target", "nid"}
OfImport == {"component", "target", "type"}

Health == Metrics("gauge", OfTarget, {"health_check"})

Sptlrpc ==
  Metrics("gauge", {},
    {"physical_pages", "pages_per_pool", "maximum_pages", "maximum_pools", "pages_in_pools",
     "free_pages", "free_page_low", "maximum_waitqueue_depth"})
  \cup Metrics("counter", {},
    {"maximum_pages_reached_total", "grows_total", "grows_failure_total", "shrinks_total",
     "cache_access_total", "cache_miss_total", "out_of_memory_request_total"})

LNetStats ==
  Metrics("gauge", OfTarget, {"allocated", "maximum"})
  \cup Metrics("counter", OfTarget,
    {"errors_total", "send_count_total", "receive_count_total", "route_count_total",
     "drop_count_total", "send_bytes_total", "receive_bytes_total", "route_bytes_total",
     "drop_bytes_total"})

\* The counters per NID share their public names with the global ones.
ByNID(id, name) == {[id |-> id, name |-> name, type |-> "counter", labels |-> OfNID]}

LNetStatsByNID ==
  ByNID("send_count_by_nid_total", "send_count_total")
  \cup ByNID("receive_count_by_nid_total", "receive_count_total")
  \cup ByNID("drop_count_by_nid_total", "drop_count_total")

LNetParams ==
  Metrics("gauge", OfTarget,
    {"console_backoff_enabled", "console_max_delay_centiseconds",
     "console_min_delay_centiseconds", "console_ratelimit_enabled", "debug_megabytes",
     "panic_on_lbug_enabled", "watchdog_ratelimit_enabled", "catastrophe_enabled",
     "lnet_memory_used_bytes", "fail_maximum"})
  \cup Metrics("counter", OfTarget, {"fail_error_total"})

LNetNIs ==
  Metrics("gauge", OfNID, {"lnet_ni_up", "lnet_ni_health"})
  \cup Metrics("counter", OfNID,
    {"lnet_ni_health_interrupts_total", "lnet_ni_health_dropped_total",
     "lnet_ni_health_aborted_total", "lnet_ni_health_no_route_total",
     "lnet_ni_health_timeouts_total", "lnet_ni_health_errors_total"})

\* Client core metrics: capacity and I/O sizes.
ClientCapacityAndIO ==
  Metrics("gauge", OfTarget,
    {"blocksize_bytes", "inodes_free", "inodes_maximum", "available_kibibytes",
     "free_kibibytes", "capacity_kibibytes", "read_minimum_size_bytes",
     "read_maximum_size_bytes", "write_minimum_size_bytes", "write_maximum_size_bytes"})
  \cup Metrics("counter", OfTarget,
    {"read_samples_total", "read_bytes_total", "write_samples_total", "write_bytes_total"})

\* Mistake: the import's type on the counts, which mounts have, too.
TypedOperations ==
  Metrics("counter", OfImport \cup {"operation"}, {"stats_total", "stats_seconds_sum"})
  \cup Metrics("counter", {"operation"}, {"ldlm_cbd_stats"})

ClientOperations ==
  Metrics("counter", OfTarget \cup {"operation"}, {"stats_total"})
  \cup Metrics("counter", OfImport \cup {"operation"}, {"stats_seconds_sum"})
  \cup Metrics("counter", {"operation"}, {"ldlm_cbd_stats"})

ClientTunables ==
  Metrics("gauge", OfTarget,
    {"checksum_pages_enabled", "default_ea_size_bytes", "lazystatfs_enabled",
     "maximum_ea_size_bytes", "maximum_read_ahead_megabytes",
     "maximum_read_ahead_per_file_megabytes", "maximum_read_ahead_whole_megabytes",
     "statahead_agl_enabled", "statahead_maximum", "xattr_cache_enabled"})

RPCStats ==
  Metrics("counter", OfTarget \cup {"operation", "size"},
          {"pages_per_rpc_total", "rpcs_offset"})
  \cup Metrics("counter", OfImport \cup {"operation", "size"}, {"rpcs_in_flight"})
  \cup Metrics("gauge", OfImport \cup {"operation"}, {"rpcs_current", "pending_pages"})

ImportFiles ==
  Metrics("gauge", OfTarget, {"osc_dirty_bytes", "osc_max_dirty_bytes"})
  \cup Metrics("gauge", OfImport,
       {"max_pages_per_rpc", "max_rpcs_in_flight", "max_mod_rpcs_in_flight", "target_active"})
  \cup Metrics("gauge", OfImport \cup {"state"}, {"target_state"})

LpccCaches ==
  Metrics("gauge", {"mount", "cache"},
    {"pcc_status", "pcc_purge_status", "pcc_cache_usage_ratio", "pcc_purge_high_usage_ratio",
     "pcc_purge_low_usage_ratio", "pcc_purge_interval_seconds", "pcc_purge_scan_threads",
     "pcc_purge_scanned_objs", "pcc_purge_purged_objs", "pcc_cached_files", "pcc_cached_bytes",
     "pcc_min_cached_file_size_bytes", "pcc_max_cached_file_size_bytes",
     "pcc_average_age_seconds"})
  \cup Metrics("counter", {"mount", "cache"},
    {"pcc_purge_scan_times_total", "pcc_purge_total_purged_objs_total",
     "pcc_purge_total_failed_objs_total"})

LpccMounts ==
  Metrics("gauge", {"mount"}, {"pcc_fs_open_hit_ratio", "pcc_fs_read_hit_bytes_ratio"})
  \cup Metrics("counter", {"mount"},
    {"pcc_fs_open_count_total", "pcc_fs_real_hit_total", "pcc_fs_real_hit_bytes_total",
     "pcc_fs_total_read_bytes_total"})

Contract ==
  Health \cup Sptlrpc \cup LNetStats \cup LNetStatsByNID \cup LNetParams \cup LNetNIs
  \cup ClientCapacityAndIO \cup ClientOperations \cup ClientTunables \cup RPCStats
  \cup ImportFiles \cup LpccCaches \cup LpccMounts

\* The map, from the identifiers.
Registry == [id \in {m.id : m \in Contract} |-> CHOOSE m \in Contract : m.id = id]

-----------------------------------------------------------------------------
\* Map, on one observation: obs.Labels[k] is "" for a key that it does not
\* have, and the labels that the metric does not have are dropped.
MapObservation(o) ==
  LET def == Registry[o.id]
  IN [name |-> def.name, type |-> def.type,
      labels |-> [k \in def.labels |-> IF k \in DOMAIN o.labels THEN o.labels[k] ELSE ""]]

\* Map: an unknown identifier fails all of them.
Map(result) ==
  IF result.err \/ \E i \in DOMAIN result.obs : result.obs[i].id \notin DOMAIN Registry
  THEN [err |-> TRUE, series |-> <<>>]
  ELSE [err |-> FALSE, series |-> [i \in DOMAIN result.obs |-> MapObservation(result.obs[i])]]
=============================================================================
