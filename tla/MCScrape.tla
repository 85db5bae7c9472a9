------------------------------ MODULE MCScrape ------------------------------
(* Scrape for TLC: a host with one mount, one MDC and one OSC import.      *)
EXTENDS Scrape, TLC

MCNames == {"fs", "mdt", "ost"}

\* The bytes ff fe, which are not UTF-8.
Garbage == "<ff fe>"
MCInvalid == {Garbage}

-----------------------------------------------------------------------------
\* Lines.
Stat(name, unit) ==
  [name |-> name, equals |-> FALSE, fields |-> 8, count |-> TRUE, samples |-> TRUE,
   time |-> unit = "usec", range |-> TRUE, sum |-> TRUE]
SnapshotTime == [Stat("snapshot_time", "") EXCEPT !.samples = FALSE, !.fields = 3]
Reqs(name) == [Stat(name, "reqs") EXCEPT !.fields = 4, !.range = FALSE, !.sum = FALSE]
BadCount(name) == [Reqs(name) EXCEPT !.count = FALSE]
\* A line that ends before its sum.
Torn(line) == [line EXCEPT !.fields = 5, !.sum = FALSE]

Number == Text(<<[number |-> TRUE]>>)
NoNumber == Text(<<[number |-> FALSE]>>)

Pool(key) == [key |-> key, number |-> TRUE]
Pools == FoldSet(LAMBDA key, pools : Append(pools, Pool(key)), <<Pool("")>>, DOMAIN sptlrpcKeyMap)

Rpc(start, size, bucket) ==
  [start |-> start, columns |-> FALSE, scalar |-> "", operation |-> "", bucket |-> bucket,
   size |-> size]
Scalar(start, scalar, operation) ==
  [Rpc(start, "", "none") EXCEPT !.scalar = scalar, !.operation = operation]
Columns == [Rpc("", "", "none") EXCEPT !.columns = TRUE]
Histograms ==
  << Rpc("snapshot_time", "", "none"), Scalar("", "pending_pages", "read"),
     Rpc("pages per rpc", "", "none"), Rpc("", "1", "two"), Rpc("", "2", "two"),
     Columns, Rpc("rpcs in flight", "", "none"), Rpc("", "1", "two"),
     Columns, Rpc("offset", "", "none"), Rpc("", "0", "two") >>
Modify ==
  << Scalar("", "rpcs_current", "modify"), Rpc("modify", "", "none"),
     Rpc("rpcs in flight", "", "none"), Rpc("", "1", "one") >>
InFlight ==
  << Scalar(R!Subsections.read, "rpcs_current", "read"), Rpc("", "1", "one"),
     Scalar(R!Subsections.dio_write, "rpcs_current", "dio_write"), Rpc("", "1", "one") >>

Current(state) == [start |-> "current_state:", token |-> state]
Other(text) == [start |-> "", token |-> text]
History == <<[start |-> "history", token |-> ""], [start |-> "history", token |-> "-"]>>

NIs(nis) == Text(<<[document |-> TRUE, nis |-> nis]>>)
NI(nid, status, health) == [nid |-> nid, status |-> status, health |-> health]
Mounts(mounts) == Text(<<[document |-> TRUE, mounts |-> mounts]>>)
NoDocument == Text(<<[document |-> FALSE]>>)
Nothing == Text(<<>>)

-----------------------------------------------------------------------------
AllAre(paths, file) == [p \in paths |-> file]

StateFile(component, name) == <<"sys", component, name, "state">>
ParamsUnder(component, name) ==
  {<<"sys", component, name, ParamFiles(component)[i]>> : i \in DOMAIN ParamFiles(component)}
    \ {StateFile(component, name)}

MDCState == Text(<<Current("FULL")>> \o History)

\* The stats of the MDC import are under two roots, its rpc_stats under a third
\* one; the legacy places of the LNet and sptlrpc files are empty.
MCHealthy ==
  HealthPath :> Text(<<[healthy |-> TRUE]>>)
  @@ <<"debug", "encrypt_page_pools">> :> Text(Pools)
  @@ <<"proc", "encrypt_page_pools">> :> Absent
  @@ <<"debug", "ldlm_cbd">> :> Text(<<SnapshotTime, Reqs("req_waittime"), Reqs("ldlm_enqueue")>>)
  @@ <<"debug", "lnet", "stats">> :> Text(<<[fields |-> 11, number |-> TRUE]>>)
  @@ <<"proc", "lnet", "stats">> :> Absent
  @@ AllAre({<<"proc", "lnet", LNetParamNames[i]>> : i \in 1..11}, Number)
  @@ <<"debug", "lnet", "fail_max">> :> Number
  @@ <<"cmd", "stats show">> :> Text(<<[document |-> TRUE]>>)
  @@ <<"cmd", "net show -v 3">> :> NIs(<<NI("lo", "up", TRUE), NI("tcp", "up", TRUE), NI("", "", FALSE)>>)
  @@ <<"cmd", "net show">> :> NIs(<<NI("lo", "up", FALSE), NI("tcp", "", FALSE)>>)
  @@ <<"cmd", "lpcc status">> :> Mounts(<<[mount |-> "/mnt", caches |-> <<"nvme">>]>>)
  @@ <<"proc", "llite", "fs", "stats">> :> Text(<<SnapshotTime, Stat("read_bytes", "bytes"), Stat("write_bytes", "bytes"), Stat("open", "usec")>>)
  @@ AllAre(ParamsUnder("llite", "fs"), Number)
  @@ <<"proc", "llite", "fs", "blocksize">> :> Absent
  @@ <<"proc", "mdc", "mdt", "stats">> :> Text(<<SnapshotTime, Stat("req_waittime", "usec"), Reqs("req_active")>>)
  @@ <<"debug", "mdc", "mdt", "stats">> :> Text(<<SnapshotTime, Stat("req_waittime", "usec")>>)
  @@ <<"sys", "mdc", "mdt", "rpc_stats">> :> Text(Modify)
  @@ AllAre(ParamsUnder("mdc", "mdt"), Number)
  @@ StateFile("mdc", "mdt") :> MDCState
  @@ <<"sys", "osc", "ost", "stats">> :> Text(<<Stat("req_waittime", "usec"), Stat("read_bytes", "bytes"), Stat("ost_read", "usec")>>)
  @@ <<"debug", "osc", "ost", "rpc_stats">> :> Text(Histograms)
  @@ AllAre(ParamsUnder("osc", "ost"), Number)
  @@ StateFile("osc", "ost") :> Text(<<Other("FULL")>>)

\* What may become of the files.
MCContents ==
  HealthPath :> {Unreadable}
  @@ <<"debug", "encrypt_page_pools">> :>
       {Unreadable, Text(<<Pool("grows"), [Pool("shrinks") EXCEPT !.number = FALSE]>>), Text(<<Pool("grows"), Pool("grows")>>)}
  @@ <<"proc", "encrypt_page_pools">> :> {Text(<<Pool("grows")>>)}
  @@ <<"debug", "ldlm_cbd">> :>
       {Absent, Text(<<Reqs("req_waittime"), BadCount("ldlm_enqueue")>>), Text(<<Reqs("req_waittime"), Reqs("req_waittime")>>), Text(<<Reqs(Garbage)>>)}
  @@ <<"debug", "lnet", "stats">> :>
       {Absent, Nothing, Text(<<[fields |-> 10, number |-> TRUE]>>), Text(<<[fields |-> 11, number |-> FALSE]>>)}
  @@ <<"proc", "lnet", "stats">> :> {Text(<<[fields |-> 11, number |-> TRUE]>>)}
  @@ AllAre({<<"proc", "lnet", p>> : p \in {"fail_val", "fail_err"}}, {Absent, NoNumber})
  @@ <<"debug", "lnet", "fail_max">> :> {NoNumber}
  @@ <<"cmd", "stats show">> :> {Unreadable, NoDocument}
  @@ <<"cmd", "net show -v 3">> :> {Unreadable, NoDocument, Nothing, NIs(<<NI("tcp", "down", TRUE)>>)}
  @@ <<"cmd", "net show">> :> {Unreadable}
  @@ <<"cmd", "lpcc status">> :>
       {Unreadable, Nothing, Mounts(<<[mount |-> "/mnt", caches |-> <<"nvme", "nvme">>]>>)}
  @@ <<"proc", "llite", "fs", "stats">> :>
       {Absent, Unreadable, Text(<<Stat("open", "usec"), Torn(Stat("read_bytes", "bytes"))>>),
        Text(<<Reqs("open"), Reqs("open")>>), Text(<<Reqs("open"), Reqs(Garbage)>>)}
  @@ <<"sys", "llite", "fs", "blocksize">> :> {Absent, NoNumber}
  @@ <<"proc", "llite", "fs", "blocksize">> :> {Number, NoNumber}
  @@ <<"proc", "mdc", "mdt", "stats">> :> {Absent, Unreadable, Text(<<Torn(Stat("req_waittime", "usec")), BadCount("req_active")>>)}
  @@ <<"debug", "mdc", "mdt", "stats">> :> {Absent}
  @@ <<"sys", "mdc", "mdt", "rpc_stats">> :> {Absent, Unreadable, Text(Modify \o InFlight)}
  @@ <<"sys", "mdc", "mdt", "max_mod_rpcs_in_flight">> :> {Absent, NoNumber}
  @@ StateFile("mdc", "mdt") :>
       {Absent, Unreadable, Nothing, Text(History \o <<Current("IDLE"), Current("FULL")>>), Text(<<Other("EVICTED"), Current("")>>),
        Text(History \o <<Other("DISCONN"), Other("FULL")>>), Text(<<Current(Garbage)>>)}
  @@ <<"sys", "osc", "ost", "stats">> :> {Absent, Text(<<Torn(Stat("ost_read", "usec")), BadCount("req_waittime"), Stat("read_bytes", "bytes")>>)}
  @@ <<"debug", "osc", "ost", "rpc_stats">> :> {Absent, Text(InFlight), Text(Histograms \o <<Rpc("", "2", "malformed")>>)}
  @@ <<"sys", "osc", "ost", "cur_dirty_bytes">> :> {NoNumber}
  @@ <<"sys", "osc", "ost", "max_dirty_mb">> :> {Absent}

-----------------------------------------------------------------------------
CommandLine(enabled, source, strict) ==
  [enabled |-> enabled, lnetSource |-> source, strict |-> strict, webConfigFile |-> FALSE]
Default == CommandLine(Collectors \ {"lpcc"}, "auto", FALSE)

MCConfigs ==
  { Default, CommandLine(Collectors, "auto", TRUE), CommandLine(Collectors, "lnetctl", FALSE),
    CommandLine({"lnet", "client"}, "debugfs", FALSE),
    [Default EXCEPT !.lnetSource = "lctl"], [Default EXCEPT !.webConfigFile = TRUE] }
=============================================================================
