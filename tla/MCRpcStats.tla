---------------------------- MODULE MCRpcStats -----------------------------
(* RpcStats for TLC: the lines of the files in testdata and of the tests.  *)
EXTENDS RpcStats, TLC

L(start, columns, scalar, operation, bucket) ==
  [start |-> start, columns |-> columns, scalar |-> scalar,
   operation |-> operation, bucket |-> bucket]

Header(start) == L(start, FALSE, "", "", "none")

MCLines ==
  { Header("modify"), Header("pages per rpc"), Header("rpcs in flight"),
    L("", TRUE, "", "", "none"),                                    \* "read   write"
    L("offset", TRUE, "", "", "none"),                              \* "offset  read  write"
    L(Subsections.read, FALSE, "rpcs_current", "read", "none"),     \* with its value
    L(Subsections.dio_write, FALSE, "", "", "none"),                \* without one
    L("", FALSE, "pending_pages", "write", "none"),
    L("", FALSE, "rpcs_current", "modify", "one"),                  \* modify_RPCs_in_flight: 0
    L("snapshot_time", FALSE, "", "", "one"),
    L("", FALSE, "", "", "one"), L("", FALSE, "", "", "two"), L("", FALSE, "", "", "malformed") }
=============================================================================
