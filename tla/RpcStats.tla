----------------------------- MODULE RpcStats ------------------------------
(***************************************************************************)
(* internal/parser/rpc.go: ParseRPCStats, line by line.                    *)
(*                                                                         *)
(* An rpc_stats file is a sequence of histograms.  Which histogram and     *)
(* which operation a bucket line counts for depends on header lines far    *)
(* above it, and headers, scalars and buckets overlap in form: a line such *)
(* as "read RPCs in flight: 3" is a scalar and a header, and               *)
(* "modify_RPCs_in_flight: 3" is a scalar that looks like a bucket.        *)
(*                                                                         *)
(* Abstractions.  A line is the outcome of the tests the parser makes on   *)
(* it.  A value is identified with the line it is on.                      *)
(***************************************************************************)
EXTENDS Integers, Sequences, FiniteSetsExt

CONSTANTS
  Lines,    \* the lines that a file may consist of
  MaxLines  \* bound on the length of a file

\* The operation of a subsection header.
Subsections ==
  [read |-> "read RPCs in flight:", write |-> "write RPCs in flight:",
   dio_read |-> "dio read RPCs in flight:", dio_write |-> "dio write RPCs in flight:"]

\* start: what the line begins with, as far as the parser asks ("modify" is
\* the whole line); columns: it contains "read" and "write"; scalar: what
\* parseRPCScalar finds, "" if nothing; bucket: the columns that parseRPCLine
\* finds in it, if its first field ends with a colon.
Line ==
  [start : {"", "snapshot_time", "modify", "pages per rpc", "rpcs in flight", "offset"}
             \cup {Subsections[op] : op \in DOMAIN Subsections},
   columns : BOOLEAN,
   scalar : {"", "rpcs_current", "pending_pages"},
   operation : {"", "read", "write", "dio_read", "dio_write", "modify"},
   bucket : {"none", "one", "two", "malformed"}]

Operations == {"read", "write", "dio_read", "dio_write", "modify"}
Sections == {"pages_per_rpc", "rpcs_in_flight", "rpcs_offset"}

\* The operations that a metric may have: RPCs are in flight for any of them,
\* pages and offsets are read or written.
MetricOperations ==
  [metric \in Sections \cup {"rpcs_current", "pending_pages"} |->
    IF metric \in {"rpcs_in_flight", "rpcs_current"} THEN Operations ELSE {"read", "write"}]

ASSUME RpcStatsAssumption ==
  /\ Lines \subseteq Line
  /\ \A line \in Lines :
       line.scalar # "" => line.operation \in MetricOperations[line.scalar]
  /\ MaxLines \in Nat

VARIABLES
  file,         \* the lines read so far
  section,      \* rpcStatsSection
  observations, \* those of the lines read so far
  err           \* a bucket line could not be parsed

vars == <<file, section, observations, err>>

\* An observation is of a known metric, has an operation of that metric and
\* comes from a line of the file: no bucket counts before the first section, and
\* no operation of one section reaches the next (rpc.go:41, 60-105, 214-240).
ObservationsTyped ==
  /\ observations \in
       Seq([metric : DOMAIN MetricOperations, operation : Operations, line : 1..Len(file)])
  /\ \A n \in DOMAIN observations :
       observations[n].operation \in MetricOperations[observations[n].metric]

TypeOK ==
  /\ file \in Seq(Lines) /\ Len(file) <= MaxLines
  /\ section.name \in Sections \cup {""}
  /\ section.operation \in (Operations \cup {""})
  /\ section.name # "rpcs_in_flight" => section.operation = ""
  /\ section.pendingOperation \in {"", "modify"}
  /\ ObservationsTyped
  /\ err \in BOOLEAN

Init ==
  /\ file = <<>>
  /\ section = [name |-> "", operation |-> "", pendingOperation |-> ""]
  /\ observations = <<>>
  /\ err = FALSE

-----------------------------------------------------------------------------
\* Mistake: the announced operation stays announced.
EnterKeepsPending(s, name, operation) ==
  [s EXCEPT !.name = name, !.operation = operation]

Enter(s, name, operation) ==
  [name |-> name, operation |-> operation, pendingOperation |-> ""]

IsSubsection(line) == \E op \in DOMAIN Subsections : line.start = Subsections[op]
OperationOf(line) == CHOOSE op \in DOMAIN Subsections : line.start = Subsections[op]

IsHeader(line) == line.start # "snapshot_time" /\ (line.start # "" \/ line.columns)

\* applyHeader: a prefix comes before the test for the column header.
ApplyHeader(s, line) ==
  CASE line.start = "modify" -> [s EXCEPT !.pendingOperation = "modify"]
    [] line.start = "pages per rpc" -> Enter(s, "pages_per_rpc", "")
    [] line.start = "rpcs in flight" -> Enter(s, "rpcs_in_flight", s.pendingOperation)
    [] IsSubsection(line) -> Enter(s, "rpcs_in_flight", OperationOf(line))
    [] line.start = "offset" -> Enter(s, "rpcs_offset", "")
    [] line.start = "" /\ line.columns -> [s EXCEPT !.pendingOperation = ""]
    [] OTHER -> s

Observation(metric, operation, i) == [metric |-> metric, operation |-> operation, line |-> i]

\* rpcLineOperations.
LineOperations(line, single) ==
  CASE line.bucket = "two" -> <<"read", "write">>
    [] line.bucket = "one" /\ single # "" -> <<single>>
    [] OTHER -> <<"read">>

\* parseRPCLine, for the i-th line.
BucketObservations(s, line, i) ==
  LET ops == LineOperations(line, s.operation)
  IN [n \in DOMAIN ops |-> Observation(s.name, ops[n], i)]

ScalarObservations(line, i) ==
  IF line.scalar = "" THEN <<>> ELSE <<Observation(line.scalar, line.operation, i)>>

\* The line counts for the histogram of the section.
IsBucket(s, line) ==
  ~IsHeader(line) /\ line.scalar = "" /\ s.name # "" /\ line.bucket # "none"

Skip(line) ==
  /\ ~err /\ Len(file) < MaxLines
  /\ line.start = "snapshot_time"
  /\ file' = Append(file, line)
  /\ UNCHANGED <<section, observations, err>>

\* Mistake: what was parsed before the line is returned with the error.
KeepOnError(obs) == obs

ReturnOnError(obs) == <<>>

Parse(line) ==
  /\ ~err /\ Len(file) < MaxLines
  /\ line.start # "snapshot_time"
  /\ file' = Append(file, line)
  /\ section' = ApplyHeader(section, line)
  /\ LET i == Len(file) + 1
         seen == observations \o ScalarObservations(line, i)
         bucket == IsBucket(section', line)
     IN \/ /\ bucket /\ line.bucket = "malformed"
           /\ err' = TRUE
           /\ observations' = ReturnOnError(seen)
        \/ /\ bucket /\ line.bucket # "malformed"
           /\ observations' = seen \o BucketObservations(section', line, i)
           /\ UNCHANGED err
        \/ /\ ~bucket
           /\ observations' = seen
           /\ UNCHANGED err

EndOfFile ==
  /\ err \/ Len(file) = MaxLines
  /\ UNCHANGED vars

Next ==
  \/ \E line \in Lines : Skip(line) \/ Parse(line)
  \/ EndOfFile

Spec == Init /\ [][Next]_vars

-----------------------------------------------------------------------------
(* The reference: what a line means, from the lines above it alone.        *)

\* The last line above line i that passes the test, 0 if none does.
LastAbove(i, Test(_)) == Max({0} \cup {j \in 1..(i - 1) : Test(file[j])})

OpensSection(line) ==
  line.start \in {"pages per rpc", "rpcs in flight", "offset"} \/ IsSubsection(line)

\* The line that opens the section of line i.
Opener(i) == LastAbove(i, OpensSection)

\* "modify" stands above the opener, with no other header between them.
Modify(i) ==
  LET above == LastAbove(Opener(i), IsHeader)
  IN above # 0 /\ file[above].start = "modify"

SectionOf(i) ==
  CASE file[Opener(i)].start = "pages per rpc" -> "pages_per_rpc"
    [] file[Opener(i)].start = "offset" -> "rpcs_offset"
    [] OTHER -> "rpcs_in_flight"

SingleOperation(i) ==
  CASE IsSubsection(file[Opener(i)]) -> OperationOf(file[Opener(i)])
    [] file[Opener(i)].start = "rpcs in flight" /\ Modify(i) -> "modify"
    [] OTHER -> "read"

\* The bucket lines of the file.
Buckets ==
  {i \in 1..Len(file) :
    /\ file[i].bucket # "none" /\ file[i].scalar = ""
    /\ file[i].start = "" /\ ~file[i].columns
    /\ Opener(i) # 0}

Meaning(i) ==
  (IF file[i].scalar # "" /\ file[i].start # "snapshot_time"
   THEN {Observation(file[i].scalar, file[i].operation, i)} ELSE {})
    \cup
  (IF i \notin Buckets THEN {}
   ELSE IF file[i].bucket = "two"
        THEN {Observation(SectionOf(i), "read", i), Observation(SectionOf(i), "write", i)}
        ELSE {Observation(SectionOf(i), SingleOperation(i), i)})

-----------------------------------------------------------------------------
(* Properties.                                                             *)

\* Every line yields exactly what it means, once: a bucket counts for the
\* histogram whose header is the last above it and, if it has one column, for
\* the operation that header names or a line "modify" announces; headers and
\* scalars are never buckets (rpc.go:15-105).
LinesMeanWhatTheySay ==
  ~err =>
    /\ {observations[n] : n \in DOMAIN observations} = UNION {Meaning(i) : i \in 1..Len(file)}
    /\ IsInjective(observations)

\* A malformed bucket line fails the file, a malformed line anywhere else does
\* not, and a failed file yields no observation at all (rpc.go:45-48).
MalformedBucketFailsFile ==
  /\ err = \E i \in Buckets : file[i].bucket = "malformed"
  /\ err => observations = <<>>
=============================================================================
