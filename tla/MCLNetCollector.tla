-------------------------- MODULE MCLNetCollector --------------------------
(* LNetCollector for TLC.                                                  *)
EXTENDS LNetCollector, TLC

MCModes == {"auto", "debugfs", "lnetctl"}
MCParamNames == <<"catastrophe", "fail_val">>

Eth(status, health) == [nid |-> "tcp", status |-> status, health |-> health]
IB(status, health) == [nid |-> "o2ib", status |-> status, health |-> health]
Nameless == [nid |-> "", status |-> "up", health |-> TRUE]
Garbled == [nid |-> "garbled", status |-> "up", health |-> FALSE]

\* Verbose and plain output, two interfaces, one without a NID, no interface,
\* an interface whose NID cannot be a label value, and fields that only one of the two parsers accepts.
MCNetShows ==
  { [counts |-> TRUE, health |-> TRUE, nis |-> {Eth("up", TRUE), IB("down", TRUE)}],
    [counts |-> TRUE, health |-> TRUE, nis |-> {Eth("up", FALSE), Nameless}],
    [counts |-> TRUE, health |-> TRUE, nis |-> {Nameless}],
    [counts |-> TRUE, health |-> TRUE, nis |-> {}],
    [counts |-> TRUE, health |-> FALSE, nis |-> {Eth("", TRUE)}],
    [counts |-> FALSE, health |-> TRUE, nis |-> {Eth("up", TRUE)}],
    [counts |-> TRUE, health |-> TRUE, nis |-> {Eth("up", TRUE), Garbled}] }
=============================================================================
