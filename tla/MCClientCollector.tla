------------------------- MODULE MCClientCollector -------------------------
(* ClientCollector for TLC.                                                *)
EXTENDS ClientCollector, TLC

CONSTANTS fs, ost, mdt

F(component, name, rt, file) ==
  [component |-> component, name |-> name, root |-> rt, file |-> file]

\* A mount, and an MDC and an OSC import, the MDC one without stats.  The stats
\* of the mount and the rpc_stats of the OSC import are under two roots each,
\* and the files of the OSC import under different ones.
MCNames == {fs, mdt, ost}
MCLayout ==
  { F("llite", fs, "proc", "stats"), F("llite", fs, "debug", "stats"),
    F("llite", fs, "sys", "blocksize"),
    F("mdc", mdt, "debug", "rpc_stats"),
    F("osc", ost, "sys", "stats"),
    F("osc", ost, "proc", "rpc_stats"), F("osc", ost, "debug", "rpc_stats"),
    F("osc", ost, "sys", "active") }
MCParamFiles == ("llite" :> <<"blocksize">> @@ "mdc" :> <<>> @@ "osc" :> <<"active">>)
=============================================================================
