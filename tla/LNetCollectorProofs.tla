------------------------ MODULE LNetCollectorProofs ------------------------
(***************************************************************************)
(* Proofs about LNetCollector, for all parameter files and all outputs of  *)
(* net show.                                                               *)
(***************************************************************************)
EXTENDS LNetCollector, TLAPS

\* A list of two.
LEMMA PairType ==
  ASSUME NEW S, NEW a \in S, NEW b \in S
  PROVE  /\ <<a, b>> \in Seq(S)
         /\ Len(<<a, b>>) = 2
OBVIOUS

\* A list of four.
LEMMA QuadrupleType ==
  ASSUME NEW S, NEW a \in S, NEW b \in S, NEW c \in S, NEW d \in S
  PROVE  <<a, b, c, d>> \in Seq(S) /\ Len(<<a, b, c, d>>) = 4
OBVIOUS

\* The indices of a list that is long enough.
LEMMA Indices ==
  ASSUME NEW S, NEW s \in Seq(S), Len(s) = 2 \/ Len(s) = 4
  PROVE  1 \in DOMAIN s /\ 2 \in DOMAIN s
OBVIOUS

\* The indices of a list of two, and the last of them.
LEMMA PairIndices ==
  ASSUME NEW S, NEW s \in Seq(S), Len(s) = 2, NEW i \in DOMAIN s
  PROVE  i \in {1, 2} /\ (i < Len(s) <=> i = 1)
OBVIOUS

\* An index that is not the last has a successor.
LEMMA NextIndex ==
  ASSUME NEW S, NEW s \in Seq(S), NEW i \in DOMAIN s, i < Len(s)
  PROVE  i + 1 \in DOMAIN s
OBVIOUS

PathNames ==
  {"debugfs stats", "procfs stats", "debugfs", "procfs", "debugfs fail_val",
   "procfs fail_val", "debugfs fail_max", "procfs fail_max"}

\* What the list of stats files is.
LEMMA ListType == StatsPaths \in Seq(PathNames) /\ Len(StatsPaths) = 2
<1>1. "debugfs stats" \in PathNames /\ "procfs stats" \in PathNames
  BY DEF PathNames
<1>2. QED
  BY PairType, <1>1, Zenon DEF StatsPaths

\* There are at least two paths to try for a parameter file.
LEMMA ParamListType ==
  ASSUME NEW name
  PROVE  /\ LNetParamPaths(name) \in Seq(PathNames)
         /\ Len(LNetParamPaths(name)) = 2 \/ Len(LNetParamPaths(name)) = 4
<1>1. CASE name = "fail_val"
  <2>1. LNetParamPaths(name) =
          <<"debugfs fail_val", "procfs fail_val", "debugfs fail_max", "procfs fail_max">>
    BY <1>1 DEF LNetParamPaths
  <2>2. /\ "debugfs fail_val" \in PathNames /\ "procfs fail_val" \in PathNames
        /\ "debugfs fail_max" \in PathNames /\ "procfs fail_max" \in PathNames
    BY DEF PathNames
  <2>3. QED
    BY QuadrupleType, <2>1, <2>2, Zenon
<1>2. CASE name # "fail_val"
  <2>1. LNetParamPaths(name) = <<"debugfs", "procfs">>
    BY <1>2 DEF LNetParamPaths
  <2>2. "debugfs" \in PathNames /\ "procfs" \in PathNames
    BY DEF PathNames
  <2>3. QED
    BY PairType, <2>1, <2>2, Zenon
<1>3. QED
  BY <1>1, <1>2, Zenon

\* The parameters are a list.
LEMMA ParamCount == Len(LNetParamNames) \in Nat
<1>1. LNetParamNames \in Seq(STRING)
  BY LNetAssumption, Zenon
<1>2. QED
  BY <1>1

\* There are at least two paths to try, whatever the run is looking for.
LEMMA PathsType ==
  /\ Paths \in Seq(PathNames)
  /\ 1 \in DOMAIN Paths /\ 2 \in DOMAIN Paths
<1>1. Paths \in Seq(PathNames) /\ (Len(Paths) = 2 \/ Len(Paths) = 4)
  BY ListType, ParamListType, Zenon DEF Paths
<1>2. QED
  BY <1>1, Indices, Zenon

\* While the run looks for the stats file it has two paths to try.
LEMMA StatsPath ==
  ASSUME TypeOK, pc = "files"
  PROVE  /\ path \in {1, 2}
         /\ StatsPaths[path] = IF path = 1 THEN "debugfs stats" ELSE "procfs stats"
         /\ MorePaths <=> path = 1
<1>1. Paths = StatsPaths
  BY DEF Paths, InParams
<1>2. path \in DOMAIN StatsPaths
  BY <1>1, Zenon DEF TypeOK
<1>3. path \in {1, 2} /\ (path < Len(StatsPaths) <=> path = 1)
  BY <1>2, ListType, PairIndices, Zenon
<1>4. MorePaths <=> path = 1
  BY <1>1, <1>3, Zenon DEF MorePaths
<1>5. StatsPaths[path] = IF path = 1 THEN "debugfs stats" ELSE "procfs stats"
  <2>1. StatsPaths[1] = "debugfs stats" /\ StatsPaths[2] = "procfs stats"
    BY DEF StatsPaths
  <2>2. QED
    BY <1>3, <2>1, Zenon
<1>6. QED
  BY <1>3, <1>4, <1>5, Zenon

\* Observations are appended, or dropped, and keep their type.
LEMMA BagType ==
  ASSUME NEW bag \in [Observation -> Nat], NEW new
  PROVE  /\ AppendAll(bag, new) \in [Observation -> Nat]
         /\ DropGlobalLNetCountStats(bag) \in [Observation -> Nat]
BY DEF AppendAll, DropGlobalLNetCountStats

\* What net show printed is merged into the bag.
LEMMA MergeType ==
  ASSUME obs \in [Observation -> Nat], NEW show \in NetShows
  PROVE  Merge(show) \in [Observation -> Nat]
BY BagType, LNetAssumption DEF Merge

\* The log takes any outcome of a source.
LEMMA LogType ==
  ASSUME TypeOK, NEW s \in Sources,
         NEW o \in {"unread", "empty", "malformed", "ok"} \cup Failures, Log(s, o)
  PROVE  /\ log' \in [Sources -> {"unread", "empty", "malformed", "ok"} \cup Failures]
         /\ log'[s] = o
         /\ \A t \in Sources : t # s => log'[t] = log[t]
BY DEF TypeOK, Log

\* The clock keeps its type.
LEMMA OutcomeType ==
  ASSUME TypeOK, NEW o, Outcome(o)
  PROVE  expired' \in BOOLEAN
BY DEF TypeOK, Outcome

\* A failed run returns nothing.
LEMMA FailType ==
  ASSUME Fail
  PROVE  /\ pc' = "returned" /\ err' = TRUE
         /\ obs' \in [Observation -> Nat] /\ \A o \in Observation : obs'[o] = 0
BY DEF Fail

\* Where the path lists are left at their first or second element, the index
\* is one of the next list, too.
LEMMA PathKept ==
  ASSUME path' \in {1, 2}
  PROVE  path' \in DOMAIN Paths'
<1>1. Paths' \in Seq(PathNames) /\ (Len(Paths') = 2 \/ Len(Paths') = 4)
  <2>1. Paths' = LNetParamPaths(LNetParamNames[param']) \/ Paths' = StatsPaths
    BY DEF Paths
  <2>2. QED
    BY <2>1, ListType, ParamListType, Zenon
<1>2. QED
  BY <1>1, Indices, Zenon

\* While the run is not at a parameter file, the index is 1 or 2.
LEMMA PathOutside ==
  ASSUME TypeOK, ~InParams
  PROVE  path \in {1, 2}
<1>1. path \in DOMAIN StatsPaths
  BY Zenon DEF TypeOK, Paths
<1>2. QED
  BY <1>1, ListType, PairIndices, Zenon

\* Every step keeps the types.
LEMMA TypeStep ==
  ASSUME TypeOK, [Next]_vars
  PROVE  TypeOK'
<1> USE DEF Commands
<1>1. CASE Expire
  BY <1>1 DEF Expire, TypeOK, Paths, InParams
<1>2. CASE Begin
  <2>1. path' \in {1, 2}
    BY <1>2, PathOutside DEF Begin, InParams
  <2>2. path' \in DOMAIN Paths'
    BY <2>1, PathKept
  <2>3. QED
    BY <1>2, <2>2 DEF Begin, TypeOK
<1>3. ASSUME NEW o \in Failures, StatsUnreadable(o)
      PROVE  TypeOK'
  <2>1. path' \in {1, 2}
    <3>1. path \in {1, 2} /\ (MorePaths <=> path = 1)
      BY <1>3, StatsPath DEF StatsUnreadable
    <3>2. (MorePaths /\ path' = path + 1) \/ path' = 1
      BY <1>3 DEF StatsUnreadable
    <3>3. QED
      BY <3>1, <3>2
  <2>2. path' \in DOMAIN Paths'
    BY <2>1, PathKept
  <2>3. StatsPaths[path] \in Sources
    BY <1>3, StatsPath DEF StatsUnreadable, Sources
  <2>4. log' \in [Sources -> {"unread", "empty", "malformed", "ok"} \cup Failures]
    BY <1>3, <2>3, LogType DEF StatsUnreadable
  <2>5. expired' \in BOOLEAN
    BY <1>3, OutcomeType DEF StatsUnreadable
  <2>6. CASE MorePaths
    BY <1>3, <2>2, <2>4, <2>5, <2>6 DEF StatsUnreadable, TypeOK
  <2>7. CASE ~MorePaths
    <3>1. DebugFSFailed
      BY <1>3, <2>7 DEF StatsUnreadable
    <3>2. CASE FallsBack
      BY <1>3, <2>2, <2>4, <2>5, <2>7, <3>1, <3>2
      DEF StatsUnreadable, TypeOK, DebugFSFailed, RecordFallback
    <3>3. CASE ~FallsBack
      BY <1>3, <2>2, <2>4, <2>5, <2>7, <3>1, <3>3, FailType
      DEF StatsUnreadable, TypeOK, DebugFSFailed
    <3>4. QED
      BY <3>2, <3>3
  <2>8. QED
    BY <2>6, <2>7
<1>4. CASE StatsMalformed
  <2>1. path' \in DOMAIN Paths'
    BY <1>4, PathKept DEF StatsMalformed
  <2>2. log' \in [Sources -> {"unread", "empty", "malformed", "ok"} \cup Failures]
    BY <1>4, StatsPath, LogType DEF StatsMalformed, Sources
  <2>3. expired' \in BOOLEAN
    BY <1>4, OutcomeType DEF StatsMalformed
  <2>4. DebugFSFailed
    BY <1>4 DEF StatsMalformed
  <2>5. CASE FallsBack
    BY <1>4, <2>1, <2>2, <2>3, <2>4, <2>5
    DEF StatsMalformed, TypeOK, DebugFSFailed, RecordFallback
  <2>6. CASE ~FallsBack
    BY <1>4, <2>1, <2>2, <2>3, <2>4, <2>6, FailType
    DEF StatsMalformed, TypeOK, DebugFSFailed
  <2>7. QED
    BY <2>5, <2>6
<1>5. ASSUME NEW o \in {"ok", "empty"}, StatsRead(o)
      PROVE  TypeOK'
  <2>1. path' \in DOMAIN Paths'
    BY <1>5, PathKept DEF StatsRead
  <2>2. log' \in [Sources -> {"unread", "empty", "malformed", "ok"} \cup Failures]
    BY <1>5, StatsPath, LogType DEF StatsRead, Sources
  <2>3. expired' \in BOOLEAN
    BY <1>5, OutcomeType DEF StatsRead
  <2>4. obs' \in [Observation -> Nat]
    BY <1>5, BagType DEF StatsRead, TypeOK
  <2>5. QED
    BY <1>5, <2>1, <2>2, <2>3, <2>4 DEF StatsRead, TypeOK
<1>6. ASSUME NEW o \in Failures \cup {"malformed"}, StatsShowFails(o)
      PROVE  TypeOK'
  <2>1. path' \in DOMAIN Paths'
    BY <1>6, PathOutside, PathKept DEF StatsShowFails, InParams
  <2>2. log' \in [Sources -> {"unread", "empty", "malformed", "ok"} \cup Failures]
    BY <1>6, LogType DEF StatsShowFails, Sources
  <2>3. expired' \in BOOLEAN
    BY <1>6, OutcomeType DEF StatsShowFails
  <2>4. QED
    BY <1>6, <2>1, <2>2, <2>3, FailType DEF StatsShowFails, TypeOK
<1>7. CASE StatsShow
  <2>1. path' \in DOMAIN Paths'
    BY <1>7, PathOutside, PathKept DEF StatsShow, InParams
  <2>2. log' \in [Sources -> {"unread", "empty", "malformed", "ok"} \cup Failures]
    BY <1>7, LogType DEF StatsShow, Sources
  <2>3. expired' \in BOOLEAN
    BY <1>7, OutcomeType DEF StatsShow
  <2>4. obs' \in [Observation -> Nat]
    BY <1>7, BagType DEF StatsShow, TypeOK
  <2>5. QED
    BY <1>7, <2>1, <2>2, <2>3, <2>4 DEF StatsShow, TypeOK
<1>8. ASSUME NEW cmd \in {"net show -v 3", "net show"}, NEW o \in Failures,
             NetShowFails(cmd, o)
      PROVE  TypeOK'
  <2>1. path' \in DOMAIN Paths'
    BY <1>8, PathOutside, PathKept DEF NetShowFails, InParams
  <2>2. log' \in [Sources -> {"unread", "empty", "malformed", "ok"} \cup Failures]
    BY <1>8, LogType DEF NetShowFails, Sources
  <2>3. expired' \in BOOLEAN
    BY <1>8, OutcomeType DEF NetShowFails
  <2>4. QED
    BY <1>8, <2>1, <2>2, <2>3 DEF NetShowFails, WithoutNetShow, TypeOK
<1>9. ASSUME NEW cmd \in {"net show -v 3", "net show"}, NEW show \in NetShows,
             NetShow(cmd, show)
      PROVE  TypeOK'
  <2>1. path' \in DOMAIN Paths'
    BY <1>9, PathOutside, PathKept DEF NetShow, InParams
  <2>2. log' \in [Sources -> {"unread", "empty", "malformed", "ok"} \cup Failures]
    BY <1>9, LogType DEF NetShow, Sources
  <2>3. expired' \in BOOLEAN
    BY <1>9, OutcomeType DEF NetShow
  <2>4. obs' \in [Observation -> Nat]
    BY <1>9, MergeType DEF NetShow, TypeOK
  <2>5. QED
    BY <1>9, <2>1, <2>2, <2>3, <2>4 DEF NetShow, TypeOK
<1>10. ASSUME NextParam, InParams, UNCHANGED pc
       PROVE  path' \in DOMAIN Paths' /\ param' \in 1..Len(LNetParamNames) + 1
  <2>1. Len(LNetParamNames) \in Nat /\ param \in 1..Len(LNetParamNames) + 1
    BY ParamCount DEF TypeOK
  <2>2. QED
    BY <1>10, <2>1, PathKept DEF NextParam, InParams
<1>11. ASSUME NEW o \in Failures, ParamUnreadable(o)
       PROVE  TypeOK'
  <2>1. expired' \in BOOLEAN
    BY <1>11, OutcomeType DEF ParamUnreadable
  <2>2. path' \in DOMAIN Paths' /\ param' \in 1..Len(LNetParamNames) + 1
    <3>1. CASE MorePaths
      <4>1. path' = path + 1 /\ UNCHANGED <<pc, param>>
        BY <1>11, <3>1 DEF ParamUnreadable
      <4>2. Paths' = Paths
        BY <4>1 DEF Paths, InParams
      <4>3. path \in DOMAIN Paths /\ path < Len(Paths)
        BY <3>1 DEF TypeOK, MorePaths
      <4>4. path + 1 \in DOMAIN Paths
        BY <4>3, PathsType, NextIndex, Zenon
      <4>5. path' \in DOMAIN Paths'
        BY <4>1, <4>2, <4>4
      <4>6. QED
        BY <4>1, <4>5 DEF TypeOK
    <3>2. CASE ~MorePaths
      BY <1>10, <1>11, <3>2 DEF ParamUnreadable
    <3>3. QED
      BY <3>1, <3>2
  <2>3. QED
    BY <1>11, <2>1, <2>2 DEF ParamUnreadable, TypeOK
<1>12. CASE ParamMalformed
  <2>1. expired' \in BOOLEAN
    BY <1>12, OutcomeType DEF ParamMalformed
  <2>2. QED
    BY <1>10, <1>12, <2>1 DEF ParamMalformed, TypeOK
<1>13. CASE ParamRead
  <2>1. expired' \in BOOLEAN
    BY <1>13, OutcomeType DEF ParamRead
  <2>2. obs' \in [Observation -> Nat]
    BY <1>13, BagType DEF ParamRead, TypeOK
  <2>3. QED
    BY <1>10, <1>13, <2>1, <2>2 DEF ParamRead, TypeOK
<1>14. CASE Return
  <2>1. ~InParams
    BY <1>14, LNetAssumption DEF Return, InParams, TypeOK
  <2>2. path' \in DOMAIN Paths'
    BY <1>14, <2>1, PathOutside, PathKept DEF Return
  <2>3. obs' \in [Observation -> Nat] /\ err' \in BOOLEAN /\ pc' = "returned"
    BY <1>14, FailType DEF Return, TypeOK
  <2>4. QED
    BY <1>14, <2>2, <2>3 DEF Return, TypeOK
<1>15. CASE UNCHANGED vars
  BY <1>15 DEF vars, TypeOK, Paths, InParams
<1>16. QED
  BY <1>1, <1>2, <1>3, <1>4, <1>5, <1>6, <1>7, <1>8, <1>9, <1>11, <1>12, <1>13,
     <1>14, <1>15 DEF Next, Quiescent

\* Every variable keeps to its type.
THEOREM TypeCorrect == Spec => []TypeOK
<1>1. ASSUME Init
      PROVE  TypeOK
  <2>1. path \in DOMAIN Paths
    BY <1>1, PathsType DEF Init
  <2>2. param \in 1..Len(LNetParamNames) + 1
    BY <1>1, LNetAssumption DEF Init
  <2>3. QED
    BY <1>1, <2>1, <2>2 DEF Init, TypeOK, Commands
<1>2. TypeOK /\ [Next]_vars => TypeOK'
  BY TypeStep
<1>3. QED
  BY <1>1, <1>2, PTL DEF Spec

-----------------------------------------------------------------------------
\* The order of the sources.

StatsFiles == {"debugfs stats", "procfs stats"}
FirstFile == {"debugfs stats"}

\* Which sources the run may have turned to, given where it is.
ModesOrder ==
  /\ mode = "debugfs" => pc \notin Commands /\ \A c \in Commands : log[c] = "unread"
  /\ mode = "lnetctl" => pc # "files" /\ \A f \in StatsFiles : log[f] = "unread"

\* Until they are read, the sources are unread.
ReadingOrder ==
  /\ pc = "start" => \A s \in Sources : log[s] = "unread"
  /\ pc \in {"files", "stats show"} => \A c \in Commands : log[c] = "unread"
  /\ pc = "files" /\ path = 1 => log["debugfs stats"] = "unread"
  /\ pc = "files" => log["procfs stats"] = "unread"

\* One primary source is read at most, and the run goes on with one only.
OnePrimary ==
  /\ pc \in {"files", "stats show"} => ~ReadFile
  /\ ReadFile => log["stats show"] = "unread"
  /\ pc \in {"net show -v 3", "net show"} => (supplemental <=> ReadFile)
  /\ pc \in {"net show -v 3", "net show", "params"} => ReadFile \/ ReadLNetCtl
  /\ pc = "returned" /\ ~err => ReadFile \/ ReadLNetCtl
  /\ pc # "returned" => ~err

\* The label is set when the run turns to `lnetctl stats show`.
LabelSet ==
  pc # "start" =>
    (scrapeSource = "lctl" <=> pc = "stats show" \/ log["stats show"] # "unread")

Order == ModesOrder /\ ReadingOrder /\ OnePrimary /\ LabelSet

\* A step that does not read a source of counters does not disturb the order.
LEMMA OrderKept ==
  ASSUME Order, UNCHANGED <<mode, log, scrapeSource, supplemental, err, pc>>,
         pc = "files" => UNCHANGED path
  PROVE  Order'
BY DEF Order, ModesOrder, ReadingOrder, OnePrimary, LabelSet, ReadFile, ReadLNetCtl, Commands

\* The log of one source does not change what the others are.
LEMMA OrderOfLog ==
  ASSUME TypeOK, NEW s \in Sources,
         NEW o \in {"unread", "empty", "malformed", "ok"} \cup Failures, Log(s, o)
  PROVE  /\ log'[s] = o
         /\ \A t \in Sources : t # s => log'[t] = log[t]
         /\ s # "stats show" => ReadLNetCtl' = ReadLNetCtl
         /\ s \in Commands => ReadFile' = ReadFile
         /\ s \in StatsFiles => \A c \in Commands : log'[c] = log[c]
         /\ s \in Commands => \A f \in StatsFiles : log'[f] = log[f]
<1>1. log'[s] = o /\ \A t \in Sources : t # s => log'[t] = log[t]
  BY LogType
<1>2. QED
  BY <1>1 DEF ReadLNetCtl, ReadFile, Commands, StatsFiles, Sources

\* A stats file that the run does without.
LEMMA OrderAfterBadFile ==
  ASSUME TypeOK, Order, pc = "files", NEW o \in Failures \cup {"malformed"},
         NEW s \in StatsFiles, path \in {1, 2}, path = 1 => s \in FirstFile,
         Log(s, o), UNCHANGED <<mode, supplemental>>
  PROVE  /\ DebugFSFailed => Order'
         /\ path = 1 /\ path' = 2 /\ UNCHANGED <<pc, scrapeSource, err>> => Order'
<1>1. s \in StatsFiles /\ s \in Sources
  BY DEF StatsFiles, Sources
<1>2. /\ log'[s] = o /\ \A t \in Sources : t # s => log'[t] = log[t]
      /\ ReadLNetCtl' = ReadLNetCtl /\ \A c \in Commands : log'[c] = log[c]
  BY <1>1, OrderOfLog DEF StatsFiles
<1>3. /\ mode # "lnetctl" /\ ~ReadFile /\ ~err /\ scrapeSource = "sys"
      /\ \A c \in Commands : log'[c] = "unread"
  BY <1>2, LNetAssumption DEF Order, ModesOrder, ReadingOrder, OnePrimary, LabelSet, TypeOK, Commands
<1>4. ~ReadFile'
  <2>1. o \notin {"ok", "empty"}
    BY DEF Failures
  <2>2. QED
    BY <1>1, <1>2, <1>3, <2>1 DEF ReadFile, Sources
<1>5. log'["stats show"] = "unread" /\ ~ReadLNetCtl'
  BY <1>3 DEF Commands, ReadLNetCtl
<1>6. ASSUME DebugFSFailed
      PROVE  Order'
  <2>1. CASE FallsBack
    <3>1. mode' = "auto" /\ scrapeSource' = "lctl" /\ pc' = "stats show" /\ ~err'
      <4>1. mode' = mode /\ mode = "auto" /\ scrapeSource' = "lctl" /\ pc' = "stats show"
            /\ err' = err
        BY <1>6, <2>1 DEF DebugFSFailed, FallsBack, RecordFallback
      <4>2. QED
        BY <1>3, <4>1, Zenon
    <3>2. QED
      BY <1>3, <1>4, <1>5, <3>1 DEF Order, ModesOrder, ReadingOrder, OnePrimary, LabelSet, Commands
  <2>2. CASE ~FallsBack
    <3>1. mode' = mode /\ scrapeSource' = "sys" /\ pc' = "returned" /\ err'
      BY <1>3, <1>6, <2>2, FailType DEF DebugFSFailed
    <3>2. QED
      BY <1>3, <1>4, <1>5, <3>1 DEF Order, ModesOrder, ReadingOrder, OnePrimary, LabelSet, Commands
  <2>3. QED
    BY <2>1, <2>2
<1>7. ASSUME path = 1, path' = 2, UNCHANGED <<pc, scrapeSource, err>>
      PROVE  Order'
  <2>1. path' = 2 /\ pc' = "files" /\ log'["procfs stats"] = log["procfs stats"]
    BY <1>1, <1>2, <1>7 DEF Sources, FirstFile
  <2>2. log'["procfs stats"] = "unread"
    BY <2>1 DEF Order, ReadingOrder
  <2>3. mode' = mode /\ scrapeSource' = "sys" /\ ~err'
    BY <1>3, <1>7, Zenon
  <2>4. ModesOrder'
    BY <1>3, <2>1, <2>3 DEF ModesOrder, Commands
  <2>5. ReadingOrder'
    <3>1. path' # 1
      BY <1>7
    <3>2. pc' # "start"
      BY <2>1
    <3>3. QED
      BY <1>3, <2>2, <3>1, <3>2, Zenon DEF ReadingOrder
  <2>6. OnePrimary'
    BY <1>4, <2>1, <2>3 DEF OnePrimary
  <2>7. LabelSet'
    BY <1>5, <2>1, <2>3 DEF LabelSet
  <2>8. QED
    BY <2>4, <2>5, <2>6, <2>7 DEF Order
<1>8. QED
  BY <1>6, <1>7

\* Every step keeps the order.
LEMMA OrderStep ==
  ASSUME TypeOK, Order, [Next]_vars
  PROVE  Order'
<1>1. CASE Expire
  BY <1>1, OrderKept DEF Expire
<1>2. CASE Begin
  <2>1. \A s \in Sources : log[s] = "unread"
    BY <1>2 DEF Begin, Order, ReadingOrder
  <2>2. /\ log' = log /\ mode' = mode /\ err' = err /\ ~err /\ supplemental' = supplemental
        /\ ~ReadFile' /\ ~ReadLNetCtl'
    BY <1>2, <2>1 DEF Begin, Order, OnePrimary, ReadFile, ReadLNetCtl, Sources, Commands
  <2>3. log["stats show"] = "unread"
    BY <2>1 DEF Sources, Commands
  <2>4. CASE mode = "lnetctl"
    <3>1. pc' = "stats show" /\ scrapeSource' = "lctl"
      BY <1>2, <2>4 DEF Begin
    <3>2. QED
      BY <2>1, <2>2, <2>3, <2>4, <3>1
      DEF Order, ModesOrder, ReadingOrder, OnePrimary, LabelSet, Sources, Commands, StatsFiles
  <2>5. CASE mode # "lnetctl"
    <3>1. pc' = "files" /\ scrapeSource' = "sys"
      BY <1>2, <2>5 DEF Begin
    <3>2. QED
      BY <2>1, <2>2, <2>3, <2>5, <3>1
      DEF Order, ModesOrder, ReadingOrder, OnePrimary, LabelSet, Sources, Commands, StatsFiles
  <2>6. QED
    BY <2>4, <2>5
<1>3. ASSUME NEW o \in Failures, StatsUnreadable(o)
      PROVE  Order'
  <2> DEFINE s == StatsPaths[path]
  <2>1. pc = "files" /\ Log(s, o) /\ UNCHANGED <<mode, supplemental>>
    BY <1>3 DEF StatsUnreadable
  <2>2. s \in StatsFiles /\ path \in {1, 2} /\ (path = 1 => s \in FirstFile)
    BY <2>1, StatsPath, Zenon DEF StatsFiles, FirstFile
  <2>3. DebugFSFailed \/ (path = 1 /\ path' = 2 /\ UNCHANGED <<pc, scrapeSource, err>>)
    <3>1. MorePaths => path = 1
      BY <2>1, StatsPath, Zenon
    <3>2. DebugFSFailed \/ (MorePaths /\ path' = path + 1 /\ UNCHANGED <<pc, scrapeSource, err>>)
      BY <1>3 DEF StatsUnreadable
    <3>3. path = 1 => path + 1 = 2
      OBVIOUS
    <3>4. QED
      BY <3>1, <3>2, <3>3, Zenon
  <2>4. HIDE DEF s
  <2>5. QED
    BY <2>1, <2>2, <2>3, OrderAfterBadFile
<1>4. CASE StatsMalformed
  <2> DEFINE s == StatsPaths[path]
  <2>1. pc = "files" /\ Log(s, "malformed") /\ DebugFSFailed /\ UNCHANGED <<mode, supplemental>>
    BY <1>4 DEF StatsMalformed
  <2>2. s \in StatsFiles /\ path \in {1, 2} /\ (path = 1 => s \in FirstFile)
    BY <2>1, StatsPath, Zenon DEF StatsFiles, FirstFile
  <2>3. HIDE DEF s
  <2>4. QED
    BY <2>1, <2>2, OrderAfterBadFile
<1>5. ASSUME NEW o \in {"ok", "empty"}, StatsRead(o)
      PROVE  Order'
  <2> DEFINE s == StatsPaths[path]
  <2>1. s \in StatsFiles /\ s \in Sources
    BY <1>5, StatsPath DEF StatsRead, StatsFiles, Sources
  <2>2. /\ log'[s] = o /\ \A c \in Commands : log'[c] = log[c]
    BY <1>5, <2>1, OrderOfLog DEF StatsRead
  <2>3. ReadFile'
    BY <2>1, <2>2 DEF ReadFile, StatsFiles
  <2>4. /\ mode # "lnetctl" /\ mode' = mode /\ ~err' /\ scrapeSource' = "sys"
        /\ \A c \in Commands : log'[c] = "unread"
    BY <1>5, <2>2 DEF StatsRead, Order, ModesOrder, ReadingOrder, OnePrimary, LabelSet, TypeOK, Commands
  <2>5. /\ pc' \in {"net show -v 3", "params"} /\ (mode = "debugfs" => pc' = "params")
        /\ (pc' = "net show -v 3" => supplemental')
    BY <1>5 DEF StatsRead
  <2>6. QED
    BY <2>3, <2>4, <2>5
    DEF Order, ModesOrder, ReadingOrder, OnePrimary, LabelSet, Commands
<1>6. ASSUME NEW o \in Failures \cup {"malformed"}, StatsShowFails(o)
      PROVE  Order'
  <2>1. /\ log'["stats show"] = o /\ \A t \in Sources : t # "stats show" => log'[t] = log[t]
        /\ ReadFile' = ReadFile
    BY <1>6, OrderOfLog DEF StatsShowFails, Sources, Commands
  <2>2. o \notin {"unread", "ok"}
    BY DEF Failures
  <2>3. /\ mode # "debugfs" /\ mode' = mode /\ scrapeSource' = "lctl" /\ pc' = "returned" /\ err'
        /\ ~ReadFile'
    BY <1>6, <2>1, FailType DEF StatsShowFails, Order, ModesOrder, OnePrimary, LabelSet, Commands
  <2>4. mode = "lnetctl" => \A f \in StatsFiles : log'[f] = "unread"
    BY <2>1 DEF Order, ModesOrder, StatsFiles, Sources
  <2>5. QED
    BY <2>1, <2>2, <2>3, <2>4 DEF Order, ModesOrder, ReadingOrder, OnePrimary, LabelSet
<1>7. CASE StatsShow
  <2>1. /\ log'["stats show"] = "ok" /\ \A t \in Sources : t # "stats show" => log'[t] = log[t]
        /\ ReadFile' = ReadFile
    BY <1>7, OrderOfLog DEF StatsShow, Sources, Commands
  <2>2. /\ mode # "debugfs" /\ mode' = mode /\ scrapeSource' = "lctl" /\ pc' = "net show -v 3"
        /\ ~err' /\ ~ReadFile' /\ ~supplemental' /\ ReadLNetCtl'
    BY <1>7, <2>1 DEF StatsShow, Order, ModesOrder, OnePrimary, LabelSet, Commands, ReadLNetCtl
  <2>3. mode = "lnetctl" => \A f \in StatsFiles : log'[f] = "unread"
    BY <2>1 DEF Order, ModesOrder, StatsFiles, Sources
  <2>4. QED
    BY <2>1, <2>2, <2>3 DEF Order, ModesOrder, ReadingOrder, OnePrimary, LabelSet
<1>8. ASSUME NEW cmd \in {"net show -v 3", "net show"},
             NEW o \in Failures \cup {"ok"}, pc = cmd, Log(cmd, o),
             pc' \in {"net show", "params"},
             UNCHANGED <<mode, scrapeSource, supplemental, err>>
      PROVE  Order'
  <2>1. cmd \in Sources /\ cmd # "stats show" /\ cmd \in Commands
    BY DEF Sources, Commands
  <2>2. /\ ReadFile' = ReadFile /\ ReadLNetCtl' = ReadLNetCtl
        /\ \A f \in StatsFiles : log'[f] = log[f]
        /\ log'["stats show"] = log["stats show"]
    <3>1. \A t \in Sources : t # cmd => log'[t] = log[t]
      BY <1>8, <2>1, OrderOfLog
    <3>2. "stats show" \in Sources
      BY DEF Sources, Commands
    <3>3. QED
      BY <1>8, <2>1, <3>1, <3>2, OrderOfLog
  <2>3. /\ mode # "debugfs" /\ ~err' /\ (supplemental <=> ReadFile) /\ (ReadFile \/ ReadLNetCtl)
        /\ (ReadFile => log["stats show"] = "unread")
        /\ (scrapeSource = "lctl" <=> log["stats show"] # "unread")
    BY <1>8 DEF Order, ModesOrder, OnePrimary, LabelSet, Commands
  <2>4. mode = "lnetctl" => \A f \in StatsFiles : log'[f] = "unread"
    BY <2>2 DEF Order, ModesOrder
  <2>5. QED
    BY <1>8, <2>2, <2>3, <2>4 DEF Order, ModesOrder, ReadingOrder, OnePrimary, LabelSet
<1>9. ASSUME NEW cmd \in {"net show -v 3", "net show"}, NEW o \in Failures,
             NetShowFails(cmd, o)
      PROVE  Order'
  BY <1>8, <1>9 DEF NetShowFails, WithoutNetShow
<1>10. ASSUME NEW cmd \in {"net show -v 3", "net show"}, NEW show \in NetShows,
              NetShow(cmd, show)
       PROVE  Order'
  BY <1>8, <1>10 DEF NetShow
<1>11. ASSUME NEW o \in Failures, ParamUnreadable(o)
       PROVE  Order'
  BY <1>11, OrderKept DEF ParamUnreadable, InParams
<1>12. CASE ParamMalformed
  BY <1>12, OrderKept DEF ParamMalformed, InParams
<1>13. CASE ParamRead
  BY <1>13, OrderKept DEF ParamRead, InParams
<1>14. CASE Return
  <2>1. pc' = "returned" /\ UNCHANGED <<mode, log, scrapeSource, supplemental>>
    BY <1>14, FailType DEF Return
  <2>2. ReadFile' = ReadFile /\ ReadLNetCtl' = ReadLNetCtl /\ (ReadFile \/ ReadLNetCtl) /\ pc = "params"
    BY <1>14, <2>1 DEF Return, ReadFile, ReadLNetCtl, Order, OnePrimary
  <2>3. QED
    BY <2>1, <2>2 DEF Order, ModesOrder, ReadingOrder, OnePrimary, LabelSet, Commands
<1>15. CASE UNCHANGED vars
  BY <1>15, OrderKept DEF vars
<1>16. QED
  BY <1>1, <1>2, <1>3, <1>4, <1>5, <1>6, <1>7, <1>9, <1>10, <1>11, <1>12, <1>13,
     <1>14, <1>15 DEF Next, Quiescent

\* A run reads its sources in their order, one of them as the primary one.
THEOREM SourcesInOrder == Spec => []Order
<1>1. Init => Order
  BY DEF Init, Order, ModesOrder, ReadingOrder, OnePrimary, LabelSet, ReadFile, ReadLNetCtl,
         Sources, Commands, StatsFiles
<1>2. TypeOK /\ Order /\ [Next]_vars => Order'
  BY OrderStep
<1>3. QED
  BY <1>1, <1>2, TypeCorrect, PTL DEF Spec

\* In debugfs mode no command is run, in lnetctl mode no stats file is read.
THEOREM SourcesOfTheMode == Spec => []OnlyTheModesSources
<1>1. Order => OnlyTheModesSources
  BY DEF Order, ModesOrder, OnlyTheModesSources, Sources, Commands, StatsFiles
<1>2. QED
  BY <1>1, SourcesInOrder, PTL

-----------------------------------------------------------------------------
\* What the observations are.

GlobalMetrics == {"traffic", "count"}
NIMetrics == {"count by nid", "ni up", "ni health"}

\* Names of metrics are disjoint.
LEMMA MetricsDiffer ==
  /\ GlobalMetrics \cap NIMetrics = {}
  /\ GlobalMetrics \cap Names = {}
  /\ NIMetrics \cap Names = {}
BY NamesAssumption DEF GlobalMetrics, NIMetrics, Names

\* Every observation is of one of the three kinds.
LEMMA Kinds ==
  ASSUME NEW o \in Observation
  PROVE  o.metric \in GlobalMetrics \/ o.metric \in NIMetrics \/ o.metric \in Names
BY DEF Observation, GlobalMetrics, NIMetrics

\* An observation of a global metric, and the only one of its kind.
LEMMA GlobalType ==
  ASSUME NEW metric \in GlobalMetrics \cup Names, NEW from \in {"file", "lnetctl"}
  PROVE  /\ Global(metric, from) \in Observation
         /\ Global(metric, from).metric = metric
         /\ Global(metric, from).nid = ""
         /\ Global(metric, from).from = from
         /\ \A o \in Observation :
              o.metric = metric /\ o.nid = "" /\ o.from = from => o = Global(metric, from)
<1>1. Global(metric, from) \in Observation
  BY DEF Global, Observation, GlobalMetrics
<1>2. ASSUME NEW o \in Observation, o.metric = metric, o.nid = "", o.from = from
      PROVE  o = Global(metric, from)
  <2>1. o = [metric |-> o.metric, nid |-> o.nid, from |-> o.from]
    BY DEF Observation
  <2>2. QED
    BY <1>2, <2>1, Zenon DEF Global
<1>3. QED
  BY <1>1, <1>2 DEF Global

\* An observation of an interface.
LEMMA ByNIDType ==
  ASSUME NEW show \in NetShows, NEW n \in show.nis, NEW metric \in NIMetrics
  PROVE  /\ ByNID(metric, n) \in Observation
         /\ ByNID(metric, n).metric = metric
         /\ ByNID(metric, n).nid = n.nid
         /\ ByNID(metric, n).from = "lnetctl"
<1>1. n.nid \in NIDs
  BY DEF NIDs
<1>2. QED
  BY <1>1 DEF ByNID, Observation, NIMetrics

\* The counts of the interfaces.
LEMMA CountObservationsType ==
  ASSUME NEW show \in NetShows, NEW o \in CountObservations(show)
  PROVE  /\ o \in Observation /\ o.metric = "count by nid" /\ o.from = "lnetctl"
         /\ \E n \in show.nis : n.nid = o.nid
<1>1. PICK n \in show.nis : o = ByNID("count by nid", n)
  BY DEF CountObservations, Named
<1>2. "count by nid" \in NIMetrics
  BY DEF NIMetrics
<1>3. QED
  BY <1>1, <1>2, ByNIDType, Zenon

\* Whether the interfaces are up, and their health.
LEMMA NIObservationsType ==
  ASSUME NEW show \in NetShows, NEW o \in NIObservations(show)
  PROVE  /\ o \in Observation /\ o.metric \in {"ni up", "ni health"} /\ o.from = "lnetctl"
         /\ \E n \in show.nis : n.nid = o.nid
<1>1. PICK n \in show.nis : o = ByNID("ni up", n) \/ o = ByNID("ni health", n)
  BY DEF NIObservations, Named
<1>2. "ni up" \in NIMetrics /\ "ni health" \in NIMetrics
  BY DEF NIMetrics
<1>3. PICK m \in {"ni up", "ni health"} : o = ByNID(m, n) /\ m \in NIMetrics
  BY <1>1, <1>2
<1>4. /\ o \in Observation /\ o.metric = m /\ o.from = "lnetctl" /\ o.nid = n.nid
  BY <1>3, ByNIDType, Zenon
<1>5. QED
  BY <1>4, Zenon

\* An observation that is there once is there.
LEMMA ZeroIsNotOne == 0 # 1
OBVIOUS

\* Appending what is not there yet.
LEMMA AppendOnce ==
  ASSUME NEW bag \in [Observation -> Nat], \A o \in Observation : bag[o] \in {0, 1},
         NEW new, \A o \in Observation : o \in new => bag[o] = 0
  PROVE  \A o \in Observation :
           /\ AppendAll(bag, new)[o] \in {0, 1}
           /\ AppendAll(bag, new)[o] = 1 <=> bag[o] = 1 \/ o \in new
BY DEF AppendAll

\* Whether the counts of the interfaces replace the global ones.
Replaces(show) == ~supplemental /\ show.counts /\ CountObservations(show) # {}

\* The cases of what net show's output does to the observations.
LEMMA MergeCases ==
  ASSUME NEW show \in NetShows, NEW nis,
         nis = (IF show.health THEN NIObservations(show) ELSE {})
  PROVE  /\ Replaces(show) =>
              Merge(show) = AppendAll(DropGlobalLNetCountStats(obs), CountObservations(show) \cup nis)
         /\ ~Replaces(show) => Merge(show) = AppendAll(obs, nis) \/ Merge(show) = obs
<1>1. show.counts \in BOOLEAN
  BY LNetAssumption
<1>2. CASE supplemental
  BY <1>2 DEF Merge, Replaces
<1>3. CASE ~supplemental /\ ~show.counts
  BY <1>3 DEF Merge, Replaces
<1>4. CASE ~supplemental /\ show.counts /\ CountObservations(show) = {}
  BY <1>4 DEF Merge, Replaces
<1>5. CASE Replaces(show)
  BY <1>5 DEF Merge, Replaces
<1>6. QED
  BY <1>1, <1>2, <1>3, <1>4, <1>5 DEF Replaces

\* What net show's output does to each observation.
LEMMA MergeFacts ==
  ASSUME TypeOK, NEW show \in NetShows,
         \A o \in Observation : obs[o] \in {0, 1},
         \A o \in Observation : o.metric \in NIMetrics => obs[o] = 0
  PROVE  \A o \in Observation :
           /\ Merge(show)[o] \in {0, 1}
           /\ o.metric \notin NIMetrics /\ o.metric # "count" => Merge(show)[o] = obs[o]
           /\ o.metric = "count" => Merge(show)[o] = IF Replaces(show) THEN 0 ELSE obs[o]
           /\ o.metric = "count by nid" =>
                (Merge(show)[o] = 1 <=> Replaces(show) /\ o \in CountObservations(show))
           /\ o.metric \in NIMetrics /\ Merge(show)[o] = 1 =>
                o.from = "lnetctl" /\ \E n \in show.nis : n.nid = o.nid
<1> DEFINE nis == IF show.health THEN NIObservations(show) ELSE {}
<1>1. obs \in [Observation -> Nat]
  BY DEF TypeOK
<1>2. \A o \in nis : o.metric \in {"ni up", "ni health"} /\ o.from = "lnetctl"
                       /\ \E n \in show.nis : n.nid = o.nid
  BY NIObservationsType
<1>3. \A o \in CountObservations(show) : o.metric = "count by nid" /\ o.from = "lnetctl"
                       /\ \E n \in show.nis : n.nid = o.nid
  BY CountObservationsType
<1>4. "count" \notin NIMetrics /\ "count by nid" \in NIMetrics
      /\ "ni up" \in NIMetrics /\ "ni health" \in NIMetrics
      /\ "count by nid" \notin {"ni up", "ni health"}
  BY DEF NIMetrics
<1>5. /\ Replaces(show) =>
            Merge(show) = AppendAll(DropGlobalLNetCountStats(obs), CountObservations(show) \cup nis)
      /\ ~Replaces(show) => Merge(show) = AppendAll(obs, nis) \/ Merge(show) = obs
  BY MergeCases
<1> HIDE DEF nis
<1>6. CASE Replaces(show)
  <2> DEFINE kept == DropGlobalLNetCountStats(obs)
             new == CountObservations(show) \cup nis
  <2>1. /\ kept \in [Observation -> Nat]
        /\ \A o \in Observation : kept[o] = IF o.metric = "count" THEN 0 ELSE obs[o]
    BY <1>1 DEF DropGlobalLNetCountStats
  <2>2. Merge(show) = AppendAll(kept, new)
    BY <1>5, <1>6
  <2>3. \A o \in new : o.metric \in NIMetrics
    BY <1>2, <1>3, <1>4
  <2> HIDE DEF kept
  <2>4. \A o \in Observation : kept[o] \in {0, 1} /\ (o \in new => kept[o] = 0)
    BY <1>4, <2>1, <2>3
  <2> HIDE DEF new
  <2>5. \A o \in Observation :
          Merge(show)[o] \in {0, 1} /\ (Merge(show)[o] = 1 <=> kept[o] = 1 \/ o \in new)
    BY <2>1, <2>2, <2>4, AppendOnce
  <2>6. \A o : o \in new <=> o \in CountObservations(show) \/ o \in nis
    BY DEF new
  <2>7. ASSUME NEW o \in Observation
        PROVE  /\ Merge(show)[o] \in {0, 1}
               /\ o.metric \notin NIMetrics /\ o.metric # "count" => Merge(show)[o] = obs[o]
               /\ o.metric = "count" => Merge(show)[o] = 0
    BY <2>1, <2>3, <2>5, <1>4
  <2>8. ASSUME NEW o \in Observation, o.metric = "count by nid"
        PROVE  Merge(show)[o] = 1 <=> o \in CountObservations(show)
    <3>1. kept[o] # 1
      <4>1. o.metric \in NIMetrics
        BY <1>4, <2>8, Zenon
      <4>2. QED
        BY <2>1, <4>1
    <3>2. o \notin nis
      BY <1>2, <1>4, <2>8, Zenon
    <3>3. QED
      BY <2>5, <2>6, <3>1, <3>2
  <2>9. ASSUME NEW o \in Observation, o.metric \in NIMetrics, Merge(show)[o] = 1
        PROVE  o.from = "lnetctl" /\ \E n \in show.nis : n.nid = o.nid
    <3>1. kept[o] # 1
      BY <2>1, <2>9
    <3>2. QED
      BY <1>2, <1>3, <2>5, <2>6, <2>9, <3>1, Zenon
  <2>10. QED
    BY <1>6, <2>7, <2>8, <2>9
<1>7. CASE ~Replaces(show)
  <2>1. \A o \in Observation : o \in nis => obs[o] = 0
    BY <1>2, <1>4
  <2>2. \A o \in Observation :
          /\ Merge(show)[o] \in {0, 1}
          /\ Merge(show)[o] = 1 => obs[o] = 1 \/ o \in nis
          /\ obs[o] = 1 => Merge(show)[o] = 1
    BY <1>1, <1>5, <1>7, <2>1, AppendOnce
  <2>3. ASSUME NEW o \in Observation
        PROVE  /\ Merge(show)[o] \in {0, 1}
               /\ o.metric \notin NIMetrics /\ o.metric # "count" => Merge(show)[o] = obs[o]
               /\ o.metric = "count" => Merge(show)[o] = obs[o]
    <3>1. o.metric \notin NIMetrics => o \notin nis
      BY <1>2, <1>4
    <3>2. QED
      BY <1>4, <2>2, <3>1
  <2>4. ASSUME NEW o \in Observation, o.metric = "count by nid"
        PROVE  Merge(show)[o] # 1
    <3>1. o \notin nis
      BY <1>2, <1>4, <2>4, Zenon
    <3>2. obs[o] # 1
      <4>1. o.metric \in NIMetrics
        BY <1>4, <2>4, Zenon
      <4>2. QED
        BY <4>1
    <3>3. QED
      BY <2>2, <3>1, <3>2
  <2>5. ASSUME NEW o \in Observation, o.metric \in NIMetrics, Merge(show)[o] = 1
        PROVE  o.from = "lnetctl" /\ \E n \in show.nis : n.nid = o.nid
    <3>1. obs[o] # 1
      BY <2>5
    <3>2. QED
      BY <1>2, <2>2, <2>5, <3>1, Zenon
  <2>6. QED
    BY <1>7, <2>3, <2>4, <2>5
<1>8. QED
  BY <1>6, <1>7

-----------------------------------------------------------------------------
\* What the run has observed, given what it has read.

Early == pc \in {"start", "files", "stats show"}
BeforeParams == pc \in {"start", "files", "stats show", "net show -v 3", "net show"}

\* Where the counters are from, and whether the stats file was empty.
SourceTag == IF ReadFile THEN "file" ELSE "lnetctl"
Empty == \E f \in StatsFiles : log[f] = "empty"

\* What the run knows of an interface by the output of net show.
CountedByNID(o) == \E show \in shown : ReadLNetCtl /\ show.counts /\ o \in CountObservations(show)
ReplacedByNID == \E show \in shown : ReadLNetCtl /\ show.counts /\ CountObservations(show) # {}

Once == \A o \in Observation : obs[o] \in {0, 1}

Starts ==
  /\ Early \/ err => \A o \in Observation : obs[o] = 0
  /\ BeforeParams => shown = {}
  /\ \A c \in Commands : log[c] # "empty"

Globals ==
  \A o \in Observation : o.metric \in GlobalMetrics /\ obs[o] = 1 =>
    o.nid = "" /\ o.from = SourceTag

Interfaces ==
  \A o \in Observation : o.metric \in NIMetrics /\ obs[o] = 1 =>
    o.from = "lnetctl" /\ \E show \in shown : \E n \in show.nis : n.nid = o.nid

Parameters ==
  \A o \in Observation : o.metric \in Names /\ obs[o] = 1 =>
    /\ ~BeforeParams /\ o.nid = "" /\ o.from = "file"
    /\ \E i \in DOMAIN LNetParamNames : i < param /\ o.metric = LNetParamNames[i]

Counts ==
  ~err =>
    /\ \A o \in Observation : o.metric = "count by nid" => (obs[o] = 1 <=> CountedByNID(o))
    /\ ~Early => (obs[Global("count", SourceTag)] = 1 <=> ~ReplacedByNID /\ ~Empty)

Observed == Once /\ Starts /\ Globals /\ Interfaces /\ Parameters /\ Counts

\* Before the primary source is read, and after a failure, nothing is observed.
LEMMA NothingObserved ==
  ASSUME \A o \in Observation : obs'[o] = 0,
         \A c \in Commands : log'[c] # "empty",
         BeforeParams' => shown' = {},
         err' \/ (Early' /\ shown' = {})
  PROVE  Observed'
<1>1. \A o \in Observation : obs'[o] \in {0, 1} /\ obs'[o] # 1
  OBVIOUS
<1>2. Once' /\ Starts' /\ Globals' /\ Interfaces' /\ Parameters'
  BY <1>1, Zenon DEF Once, Starts, Globals, Interfaces, Parameters
<1>3. Counts'
  <2>1. ASSUME ~err'
        PROVE  Early' /\ shown' = {}
    BY <2>1
  <2>2. ASSUME shown' = {}, NEW o \in Observation
        PROVE  obs'[o] # 1 /\ ~CountedByNID(o)'
    BY <1>1, <2>2, Zenon DEF CountedByNID
  <2>3. QED
    BY <2>1, <2>2 DEF Counts
<1>4. QED
  BY <1>2, <1>3 DEF Observed

\* What the run has observed does not change with what it has not read.
LEMMA ObservedKept ==
  ASSUME TypeOK, Observed, UNCHANGED <<obs, err, shown>>,
         ReadFile' = ReadFile, ReadLNetCtl' = ReadLNetCtl, Empty' = Empty,
         \A c \in Commands : log'[c] # "empty",
         Early' => Early, BeforeParams' => BeforeParams, Early => Early',
         param' >= param, param' \in Int
  PROVE  Observed'
<1>1. Once' /\ Globals' /\ Interfaces'
  BY DEF Observed, Once, Globals, Interfaces, SourceTag
<1>2. Starts'
  BY DEF Observed, Starts
<1>3. Parameters'
  <2>1. param \in Int /\ \A i \in DOMAIN LNetParamNames : i \in Int
    <3>1. LNetParamNames \in Seq(STRING)
      BY LNetAssumption, Zenon
    <3>2. QED
      BY <3>1, ParamCount DEF TypeOK
  <2>2. \A i \in DOMAIN LNetParamNames : i < param => i < param'
    BY <2>1
  <2>3. QED
    BY <2>2, Zenon DEF Observed, Parameters
<1>4. Counts'
  <2>1. ReplacedByNID' = ReplacedByNID /\ SourceTag' = SourceTag
    BY DEF ReplacedByNID, SourceTag
  <2>2. \A o : CountedByNID(o)' = CountedByNID(o)
    BY DEF CountedByNID
  <2>3. QED
    BY <2>1, <2>2, Zenon DEF Observed, Counts
<1>5. QED
  BY <1>1, <1>2, <1>3, <1>4 DEF Observed

\* The primary source has been read: its counts are the global ones.
LEMMA PrimaryObserved ==
  ASSUME TypeOK, Observed, Early, shown' = {}, ~err', ~Early',
         NEW new, obs' = AppendAll(obs, new),
         new = {} \/ new = StatsObservations(SourceTag'),
         Empty' <=> new = {},
         \A c \in Commands : log'[c] # "empty"
  PROVE  Observed'
<1> DEFINE tag == SourceTag'
<1>1. tag \in {"file", "lnetctl"}
  BY DEF SourceTag
<1>2. "traffic" \in GlobalMetrics /\ "count" \in GlobalMetrics
  BY DEF GlobalMetrics
<1>3. \A o \in StatsObservations(tag) :
        o \in Observation /\ o.metric \in GlobalMetrics /\ o.nid = "" /\ o.from = tag
  <2>1. ASSUME NEW o \in StatsObservations(tag)
        PROVE  o = Global("traffic", tag) \/ o = Global("count", tag)
    BY DEF StatsObservations
  <2>2. ASSUME NEW m \in GlobalMetrics
        PROVE  LET g == Global(m, tag)
               IN g \in Observation /\ g.metric \in GlobalMetrics /\ g.nid = "" /\ g.from = tag
    <3>1. m \in GlobalMetrics \cup Names
      OBVIOUS
    <3>2. PICK g : g = Global(m, tag)
      BY Zenon
    <3>3. g \in Observation /\ g.metric = m /\ g.nid = "" /\ g.from = tag
      <4> HIDE DEF tag
      <4>1. QED
        BY <1>1, <3>1, <3>2, GlobalType
    <3>4. QED
      BY <3>2, <3>3, Zenon
  <2>3. QED
    BY <1>2, <2>1, <2>2, Zenon
<1>4. Global("count", tag) \in StatsObservations(tag) /\ Global("count", tag) \in Observation
  BY <1>1, <1>2, GlobalType DEF StatsObservations
<1> HIDE DEF tag
<1>5. \A o \in Observation : obs'[o] \in {0, 1} /\ (obs'[o] = 1 <=> o \in new)
  <2>1. obs \in [Observation -> Nat] /\ \A o \in Observation : obs[o] = 0
    BY DEF TypeOK, Observed, Starts
  <2>2. QED
    BY <2>1, AppendOnce
<1>6. \A o \in new : o.metric \in GlobalMetrics /\ o.nid = "" /\ o.from = tag
  BY <1>3 DEF tag
<1>7. Once' /\ Interfaces' /\ Parameters'
  BY <1>5, <1>6, MetricsDiffer DEF Once, Interfaces, Parameters
<1>8. Globals'
  BY <1>5, <1>6 DEF Globals, tag
<1>9. Starts'
  BY DEF Starts
<1>10. Counts'
  <2>1. ASSUME NEW o \in Observation, o.metric = "count by nid"
        PROVE  obs'[o] # 1 /\ ~CountedByNID(o)'
    <3>1. o.metric \notin GlobalMetrics
      BY <2>1 DEF GlobalMetrics
    <3>2. QED
      BY <1>5, <1>6, <3>1 DEF CountedByNID
  <2>2. ~ReplacedByNID'
    BY DEF ReplacedByNID
  <2>3. obs'[Global("count", tag)] = 1 <=> ~Empty'
    <3>1. Global("count", tag) \in new <=> new # {}
      BY <1>4 DEF tag
    <3>2. QED
      BY <1>4, <1>5, <3>1
  <2>4. QED
    BY <2>1, <2>2, <2>3, Zenon DEF Counts, tag
<1>11. QED
  BY <1>7, <1>8, <1>9, <1>10 DEF Observed

\* The output of net show is merged into what the run has observed.
LEMMA MergeObserved ==
  ASSUME TypeOK, Order, Observed, NEW cmd \in {"net show -v 3", "net show"},
         NEW show \in NetShows, NetShow(cmd, show)
  PROVE  Observed'
<1>1. /\ obs' = Merge(show) /\ shown' = {show} /\ err' = err
      /\ pc' = "params" /\ pc \in {"net show -v 3", "net show"} /\ Log(cmd, "ok")
  BY DEF NetShow
<1>2. /\ log'[cmd] = "ok" /\ \A t \in Sources : t # cmd => log'[t] = log[t]
      /\ ReadLNetCtl' = ReadLNetCtl /\ ReadFile' = ReadFile
      /\ \A f \in StatsFiles : log'[f] = log[f]
  <2>1. cmd \in Sources /\ cmd \in Commands /\ cmd # "stats show"
    BY DEF Sources, Commands
  <2>2. QED
    BY <1>1, <2>1, OrderOfLog
<1>3. SourceTag' = SourceTag /\ (Empty' <=> Empty) /\ \A c \in Commands : log'[c] # "empty"
  <2>1. \A c \in Commands : log'[c] = log[c] \/ log'[c] = "ok"
    BY <1>2, Zenon DEF Sources
  <2>2. \A c \in Commands : log[c] # "empty"
    BY DEF Observed, Starts
  <2>3. QED
    BY <1>2, <2>1, <2>2 DEF SourceTag, Empty
<1>4. ~supplemental <=> ReadLNetCtl
  BY <1>1 DEF Order, OnePrimary, ReadLNetCtl
<1>5. shown = {} /\ (~err => ~ReplacedByNID)
  BY <1>1 DEF Observed, Starts, BeforeParams, ReplacedByNID
<1>6. \A o \in Observation : obs[o] \in {0, 1} /\ (o.metric \in NIMetrics => obs[o] = 0)
  BY <1>5 DEF Observed, Once, Interfaces
<1>7. \A o \in Observation :
        /\ obs'[o] \in {0, 1}
        /\ o.metric \notin NIMetrics /\ o.metric # "count" => obs'[o] = obs[o]
        /\ o.metric = "count" => obs'[o] = IF Replaces(show) THEN 0 ELSE obs[o]
        /\ o.metric = "count by nid" =>
             (obs'[o] = 1 <=> Replaces(show) /\ o \in CountObservations(show))
        /\ o.metric \in NIMetrics /\ obs'[o] = 1 =>
             o.from = "lnetctl" /\ \E n \in show.nis : n.nid = o.nid
  BY <1>1, <1>6, MergeFacts
<1>8. Once'
  BY <1>7 DEF Once
<1>9. Starts'
  BY <1>1, <1>3 DEF Starts, Early, BeforeParams, Order, OnePrimary
<1>10. \A o \in Observation : o.metric \notin NIMetrics /\ obs'[o] = 1 => obs[o] = 1
  <2>1. ASSUME NEW o \in Observation, o.metric \notin NIMetrics, obs'[o] = 1
        PROVE  obs[o] = 1
    <3>1. CASE o.metric = "count"
      <4>1. obs'[o] = IF Replaces(show) THEN 0 ELSE obs[o]
        BY <1>7, <3>1
      <4>2. QED
        BY <2>1, <4>1, ZeroIsNotOne, Zenon
    <3>2. CASE o.metric # "count"
      BY <1>7, <2>1, <3>2
    <3>3. QED
      BY <3>1, <3>2
  <2>2. QED
    BY <2>1
<1>11. Globals'
  BY <1>3, <1>10, MetricsDiffer DEF Observed, Globals
<1>12. Interfaces'
  BY <1>1, <1>7 DEF Interfaces
<1>13. \A o \in Observation : o.metric \in Names => obs'[o] # 1
  BY <1>1, <1>10, MetricsDiffer DEF Observed, Parameters, BeforeParams
<1>14. Parameters'
  BY <1>13, Zenon DEF Parameters
<1>15. Replaces(show) <=> ReplacedByNID'
  BY <1>1, <1>2, <1>4 DEF Replaces, ReplacedByNID
<1>16. ASSUME ~err, NEW o \in Observation, o.metric = "count by nid"
       PROVE  obs'[o] = 1 <=> CountedByNID(o)'
  <2>1. obs'[o] = 1 <=> Replaces(show) /\ o \in CountObservations(show)
    BY <1>7, <1>16
  <2>2. CountedByNID(o)' <=> ReadLNetCtl /\ show.counts /\ o \in CountObservations(show)
    BY <1>1, <1>2 DEF CountedByNID
  <2>3. QED
    BY <1>4, <2>1, <2>2 DEF Replaces
<1>17. ASSUME ~err
       PROVE  obs'[Global("count", SourceTag')] = 1 <=> ~ReplacedByNID' /\ ~Empty'
  <2> DEFINE g == Global("count", SourceTag)
  <2>1. g \in Observation /\ g.metric = "count"
    <3>1. "count" \in GlobalMetrics \cup Names /\ SourceTag \in {"file", "lnetctl"}
      BY DEF GlobalMetrics, SourceTag
    <3>2. QED
      BY <3>1, GlobalType, Zenon
  <2>2. obs[g] = 1 <=> ~Empty
    BY <1>1, <1>5, <1>17 DEF Observed, Counts, Early
  <2> HIDE DEF g
  <2>3. obs'[g] = IF Replaces(show) THEN 0 ELSE obs[g]
    BY <1>7, <2>1
  <2>4. obs'[g] = 1 <=> ~Replaces(show) /\ ~Empty
    BY <2>2, <2>3, ZeroIsNotOne, Zenon
  <2>5. QED
    BY <1>3, <1>15, <2>4 DEF g
<1>18. Counts'
  BY <1>1, <1>16, <1>17, Zenon DEF Counts
<1>19. QED
  BY <1>8, <1>9, <1>11, <1>12, <1>14, <1>18 DEF Observed

\* A parameter file has been read.
LEMMA ParamObserved ==
  ASSUME TypeOK, Order, Observed, ParamRead
  PROVE  Observed'
<1> DEFINE name == LNetParamNames[param]
           g == Global(name, "file")
<1>1. /\ obs' = AppendAll(obs, {g}) /\ param' = param + 1 /\ pc' = pc /\ pc = "params"
      /\ err' = err /\ shown' = shown /\ log' = log
  BY DEF ParamRead, NextParam, InParams
<1>2. /\ param \in DOMAIN LNetParamNames /\ param \in Int
      /\ \A i \in DOMAIN LNetParamNames : i \in Int
  <2>1. LNetParamNames \in Seq(STRING)
    BY LNetAssumption, Zenon
  <2>2. param \in 1..Len(LNetParamNames) + 1 /\ param <= Len(LNetParamNames)
    BY DEF TypeOK, ParamRead, InParams
  <2>3. QED
    BY <2>1, <2>2, ParamCount
<1>3. name \in Names
  BY <1>2 DEF Names
<1>4. /\ g \in Observation /\ g.metric = name /\ g.nid = "" /\ g.from = "file"
  <2>1. name \in GlobalMetrics \cup Names /\ "file" \in {"file", "lnetctl"}
    BY <1>3
  <2>2. QED
    BY <2>1, GlobalType, Zenon
<1>5. obs[g] # 1
  <2>1. SUFFICES ASSUME obs[g] = 1
                 PROVE  FALSE
    OBVIOUS
  <2>2. PICK i \in DOMAIN LNetParamNames : i < param /\ name = LNetParamNames[i]
    BY <1>3, <1>4, <2>1, Zenon DEF Observed, Parameters
  <2>3. i = param
    BY <1>2, <2>2, NamesAssumption
  <2>4. QED
    BY <1>2, <2>2, <2>3
<1>6. \A o \in Observation : obs'[o] \in {0, 1} /\ (obs'[o] = 1 <=> obs[o] = 1 \/ o = g)
  <2>1. obs \in [Observation -> Nat] /\ \A o \in Observation : obs[o] \in {0, 1}
    BY DEF TypeOK, Observed, Once
  <2>2. \A o \in Observation : o \in {g} => obs[o] = 0
    BY <1>5, <2>1
  <2>3. QED
    BY <1>1, <2>1, <2>2, AppendOnce
<1> HIDE DEF name, g
<1>7. g.metric \notin GlobalMetrics /\ g.metric \notin NIMetrics
  BY <1>3, <1>4, MetricsDiffer
<1>8. ReadFile' = ReadFile /\ ReadLNetCtl' = ReadLNetCtl /\ Empty' = Empty
  BY <1>1 DEF ReadFile, ReadLNetCtl, Empty
<1>9. Once' /\ Starts'
  BY <1>1, <1>6 DEF Observed, Once, Starts, Early, BeforeParams, Order, OnePrimary
<1>10. Globals' /\ Interfaces'
  BY <1>1, <1>6, <1>7, <1>8 DEF Observed, Globals, Interfaces, SourceTag
<1>11. Parameters'
  <2>1. ASSUME NEW o \in Observation, o.metric \in Names, obs'[o] = 1
        PROVE  /\ o.nid = "" /\ o.from = "file"
               /\ \E i \in DOMAIN LNetParamNames : i < param' /\ o.metric = LNetParamNames[i]
    <3>1. \A i \in DOMAIN LNetParamNames : i <= param => i < param'
      BY <1>1, <1>2
    <3>2. CASE obs[o] = 1
      <4>1. \A i \in DOMAIN LNetParamNames : i < param => i < param'
        BY <1>2, <3>1
      <4>2. QED
        BY <2>1, <3>2, <4>1, Zenon DEF Observed, Parameters
    <3>3. CASE o = g
      <4>1. param < param'
        BY <1>1, <1>2
      <4>2. QED
        BY <1>2, <1>4, <3>3, <4>1, Zenon DEF name
    <3>4. QED
      BY <1>6, <2>1, <3>2, <3>3
  <2>2. ~BeforeParams'
    BY <1>1 DEF BeforeParams
  <2>3. QED
    BY <2>1, <2>2, Zenon DEF Parameters
<1>12. Counts'
  <2> DEFINE c == Global("count", SourceTag)
  <2>1. c \in Observation /\ c.metric \in GlobalMetrics
    <3>1. "count" \in GlobalMetrics /\ SourceTag \in {"file", "lnetctl"}
      BY DEF GlobalMetrics, SourceTag
    <3>2. "count" \in GlobalMetrics \cup Names
      BY <3>1
    <3>3. QED
      BY <3>1, <3>2, GlobalType, Zenon
  <2> HIDE DEF c
  <2>2. obs'[c] = 1 <=> obs[c] = 1
    BY <1>6, <1>7, <2>1
  <2>3. \A o \in Observation : o.metric = "count by nid" => (obs'[o] = 1 <=> obs[o] = 1)
    <3>1. g.metric # "count by nid"
      BY <1>7 DEF NIMetrics
    <3>2. QED
      BY <1>6, <3>1, Zenon
  <2>4. /\ ReplacedByNID' = ReplacedByNID /\ SourceTag' = SourceTag /\ Early' = Early
        /\ \A o : CountedByNID(o)' = CountedByNID(o)
    BY <1>1, <1>8 DEF ReplacedByNID, CountedByNID, SourceTag, Early
  <2>5. QED
    BY <1>1, <1>8, <2>2, <2>3, <2>4, Zenon DEF Observed, Counts, c
<1>13. QED
  BY <1>9, <1>10, <1>11, <1>12 DEF Observed

\* A failed source, or the deadline, disturbs nothing that was observed.
LEMMA FailureObserved ==
  ASSUME TypeOK, Order, Observed, ~err
  PROVE  /\ \A o \in Failures : StatsUnreadable(o) => Observed'
         /\ StatsMalformed => Observed'
         /\ \A o \in Failures \cup {"malformed"} : StatsShowFails(o) => Observed'
<1>1. ASSUME NEW o \in Failures \cup {"malformed"}, pc = "files", Log(StatsPaths[path], o),
             UNCHANGED shown,
             DebugFSFailed \/ UNCHANGED <<pc, obs, err>>
      PROVE  Observed'
  <2>1. StatsPaths[path] \in StatsFiles /\ StatsPaths[path] \in Sources
    BY <1>1, StatsPath, Zenon DEF StatsFiles, Sources
  <2>2. \A c \in Commands : log'[c] = log[c]
    BY <1>1, <2>1, OrderOfLog
  <2>3. /\ \A c \in Commands : log'[c] # "empty"
        /\ \A x \in Observation : obs[x] = 0
        /\ shown' = {}
    BY <1>1, <2>2 DEF Observed, Starts, Early, BeforeParams
  <2>4. /\ \A x \in Observation : obs'[x] = 0
        /\ err' \/ Early'
    <3>1. CASE DebugFSFailed /\ FallsBack
      BY <2>3, <3>1 DEF DebugFSFailed, Early
    <3>2. CASE DebugFSFailed /\ ~FallsBack
      BY <3>2, FailType DEF DebugFSFailed
    <3>3. CASE UNCHANGED <<pc, obs, err>>
      BY <1>1, <2>3, <3>3 DEF Early
    <3>4. QED
      BY <1>1, <3>1, <3>2, <3>3
  <2>5. QED
    BY <2>3, <2>4, NothingObserved
<1>2. ASSUME NEW o \in Failures, StatsUnreadable(o)
      PROVE  Observed'
  BY <1>1, <1>2 DEF StatsUnreadable
<1>3. ASSUME StatsMalformed
      PROVE  Observed'
  BY <1>1, <1>3 DEF StatsMalformed
<1>4. ASSUME NEW o \in Failures \cup {"malformed"}, StatsShowFails(o)
      PROVE  Observed'
  <2>1. /\ pc = "stats show" /\ Log("stats show", o) /\ shown' = shown
        /\ err' /\ \A x \in Observation : obs'[x] = 0
    BY <1>4, FailType DEF StatsShowFails
  <2>2. log'["stats show"] = o /\ \A t \in Sources : t # "stats show" => log'[t] = log[t]
    BY <2>1, OrderOfLog DEF Sources, Commands
  <2>3. o # "empty"
    BY DEF Failures
  <2>4. \A c \in Commands : log'[c] # "empty"
    BY <2>2, <2>3 DEF Observed, Starts, Sources, Commands
  <2>5. shown' = {}
    BY <2>1 DEF Observed, Starts, BeforeParams
  <2>6. QED
    BY <2>1, <2>4, <2>5, NothingObserved
<1>5. QED
  BY <1>2, <1>3, <1>4

\* The primary source has been read.
LEMMA PrimaryRead ==
  ASSUME TypeOK, Order, Observed
  PROVE  /\ \A o \in {"ok", "empty"} : StatsRead(o) => Observed'
         /\ StatsShow => Observed'
<1>1. ASSUME NEW o \in {"ok", "empty"}, StatsRead(o)
      PROVE  Observed'
  <2> DEFINE f == StatsPaths[path]
             new == IF o = "ok" THEN StatsObservations("file") ELSE {}
  <2>1. pc = "files" /\ Log(f, o)
    BY <1>1 DEF StatsRead
  <2>2. f \in StatsFiles /\ f \in Sources
    BY <2>1, StatsPath, Zenon DEF StatsFiles, Sources
  <2> HIDE DEF f
  <2>3. log'[f] = o /\ (\A t \in Sources : t # f => log'[t] = log[t])
        /\ \A c \in Commands : log'[c] = log[c]
    BY <2>1, <2>2, OrderOfLog
  <2>4. /\ Early /\ ~ReadFile /\ shown = {} /\ ~err
        /\ \A c \in Commands : log'[c] # "empty"
    BY <2>1, <2>3 DEF Observed, Starts, Order, OnePrimary, Early, BeforeParams
  <2>5. ReadFile' /\ SourceTag' = "file"
    BY <2>2, <2>3 DEF ReadFile, StatsFiles, SourceTag
  <2>6. Empty' <=> o = "empty"
    <3>1. \A x \in StatsFiles : x # f => log'[x] # "empty"
      BY <2>3, <2>4 DEF ReadFile, StatsFiles, Sources
    <3>2. QED
      BY <2>2, <2>3, <3>1, Zenon DEF Empty
  <2>7. obs' = AppendAll(obs, new)
    <3>1. CASE o = "ok"
      BY <1>1, <3>1 DEF StatsRead
    <3>2. CASE o = "empty"
      <4>1. obs \in [Observation -> Nat]
        BY DEF TypeOK
      <4>2. AppendAll(obs, {}) = obs
        BY <4>1 DEF AppendAll
      <4>3. obs' = obs /\ new = {}
        BY <1>1, <3>2 DEF StatsRead
      <4>4. QED
        BY <4>2, <4>3
    <3>3. QED
      BY <3>1, <3>2
  <2>8. StatsObservations("file") # {}
    BY DEF StatsObservations
  <2>9. (new = {} \/ new = StatsObservations(SourceTag')) /\ (new = {} <=> o = "empty")
    BY <2>5, <2>8
  <2>10. shown' = {} /\ ~err' /\ ~Early'
    BY <1>1, <2>4 DEF StatsRead, Early
  <2> HIDE DEF new
  <2>11. QED
    BY <2>4, <2>6, <2>7, <2>9, <2>10, PrimaryObserved, Zenon
<1>2. ASSUME StatsShow
      PROVE  Observed'
  <2>1. /\ pc = "stats show" /\ Log("stats show", "ok") /\ pc' = "net show -v 3"
        /\ obs' = AppendAll(obs, StatsObservations("lnetctl"))
        /\ err' = err /\ shown' = shown
    BY <1>2 DEF StatsShow
  <2>2. /\ log'["stats show"] = "ok" /\ \A t \in Sources : t # "stats show" => log'[t] = log[t]
        /\ \A f \in StatsFiles : log'[f] = log[f]
        /\ ReadFile' = ReadFile
    BY <2>1, OrderOfLog DEF Sources, Commands
  <2>3. Early /\ ~ReadFile /\ shown' = {} /\ ~err' /\ ~Early'
    BY <2>1 DEF Observed, Starts, Order, OnePrimary, Early, BeforeParams
  <2>4. \A c \in Commands : log'[c] # "empty"
    BY <2>2 DEF Observed, Starts, Sources, Commands
  <2>5. SourceTag' = "lnetctl"
    BY <2>2, <2>3 DEF SourceTag
  <2>6. ~Empty'
    BY <2>2, <2>3 DEF Empty, ReadFile, StatsFiles
  <2>7. StatsObservations("lnetctl") # {}
    BY DEF StatsObservations
  <2>8. QED
    BY <2>1, <2>3, <2>4, <2>5, <2>6, <2>7, PrimaryObserved
<1>3. QED
  BY <1>1, <1>2

\* An index that stays or moves on.
LEMMA SameOrNext ==
  ASSUME NEW n \in Nat, NEW i \in 1..n + 1, NEW j, j = i \/ j = i + 1
  PROVE  j >= i /\ j \in Int
OBVIOUS

\* A step that reads no counters, or is a failure that the run does without.
LEMMA OtherObserved ==
  ASSUME TypeOK, Observed, UNCHANGED <<obs, err, shown>>,
         \/ log' = log
         \/ \E cmd \in {"net show -v 3", "net show"}, o \in Failures : Log(cmd, o),
         Early' <=> Early, BeforeParams' => BeforeParams,
         param' = param \/ param' = param + 1
  PROVE  Observed'
<1>0. param' >= param /\ param' \in Int
  <2>1. param \in 1..Len(LNetParamNames) + 1
    BY DEF TypeOK
  <2>2. QED
    BY <2>1, ParamCount, SameOrNext, Zenon
<1>1. CASE log' = log
  BY <1>0, <1>1, ObservedKept DEF ReadFile, ReadLNetCtl, Empty, Observed, Starts
<1>2. ASSUME NEW cmd \in {"net show -v 3", "net show"}, NEW o \in Failures, Log(cmd, o)
      PROVE  Observed'
  <2>1. cmd \in Sources /\ cmd \in Commands /\ cmd # "stats show"
    BY DEF Sources, Commands
  <2>2. log'[cmd] = o /\ \A t \in Sources : t # cmd => log'[t] = log[t]
    BY <1>2, <2>1, OrderOfLog
  <2>3. ReadFile' = ReadFile /\ ReadLNetCtl' = ReadLNetCtl /\ \A f \in StatsFiles : log'[f] = log[f]
    BY <1>2, <2>1, OrderOfLog
  <2>4. Empty' = Empty
    BY <2>3 DEF Empty
  <2>5. o # "empty"
    BY DEF Failures
  <2>6. \A c \in Commands : log[c] # "empty" /\ c \in Sources
    BY DEF Observed, Starts, Sources
  <2>7. \A c \in Commands : log'[c] # "empty"
    BY <2>2, <2>5, <2>6, Zenon
  <2>8. QED
    BY <1>0, <2>3, <2>4, <2>7, ObservedKept
<1>3. QED
  BY <1>1, <1>2

\* Every step keeps the observations and the sources in agreement.
LEMMA ObservedStep ==
  ASSUME TypeOK, Order, Observed, [Next]_vars
  PROVE  Observed'
<1>0. pc # "returned" => ~err
  BY DEF Order, OnePrimary
<1>1. CASE Expire
  <2>1. UNCHANGED <<obs, err, shown, log, pc, param>>
    BY <1>1 DEF Expire
  <2>2. QED
    BY <2>1, OtherObserved DEF Early, BeforeParams
<1>2. CASE Begin
  <2>1. Early' /\ Early /\ (BeforeParams' => BeforeParams)
    BY <1>2 DEF Begin, Early, BeforeParams
  <2>2. UNCHANGED <<obs, err, shown, log, param>>
    BY <1>2 DEF Begin
  <2>3. QED
    BY <2>1, <2>2, OtherObserved
<1>3. ASSUME NEW o \in Failures, StatsUnreadable(o)
      PROVE  Observed'
  BY <1>0, <1>3, FailureObserved DEF StatsUnreadable
<1>4. CASE StatsMalformed
  BY <1>0, <1>4, FailureObserved DEF StatsMalformed
<1>5. ASSUME NEW o \in {"ok", "empty"}, StatsRead(o)
      PROVE  Observed'
  BY <1>5, PrimaryRead
<1>6. ASSUME NEW o \in Failures \cup {"malformed"}, StatsShowFails(o)
      PROVE  Observed'
  BY <1>0, <1>6, FailureObserved DEF StatsShowFails
<1>7. CASE StatsShow
  BY <1>7, PrimaryRead
<1>8. ASSUME NEW cmd \in {"net show -v 3", "net show"}, NEW o \in Failures,
             NetShowFails(cmd, o)
      PROVE  Observed'
  <2>1. /\ UNCHANGED <<obs, err, shown, param>> /\ Log(cmd, o) /\ pc = cmd
        /\ pc' \in {"net show", "params"}
    BY <1>8 DEF NetShowFails, WithoutNetShow
  <2>2. ~Early /\ ~Early' /\ BeforeParams
    BY <2>1 DEF Early, BeforeParams
  <2>3. QED
    BY <2>1, <2>2, OtherObserved
<1>9. ASSUME NEW cmd \in {"net show -v 3", "net show"}, NEW show \in NetShows,
             NetShow(cmd, show)
      PROVE  Observed'
  BY <1>9, MergeObserved
<1>10. ASSUME NEW o \in Failures, ParamUnreadable(o)
       PROVE  Observed'
  <2>1. UNCHANGED <<obs, err, shown, log, pc>> /\ (param' = param \/ param' = param + 1)
    BY <1>10 DEF ParamUnreadable, NextParam
  <2>2. QED
    BY <2>1, OtherObserved DEF Early, BeforeParams
<1>11. CASE ParamMalformed
  <2>1. UNCHANGED <<obs, err, shown, log, pc>> /\ param' = param + 1
    BY <1>11 DEF ParamMalformed, NextParam
  <2>2. QED
    BY <2>1, OtherObserved DEF Early, BeforeParams
<1>12. CASE ParamRead
  BY <1>12, ParamObserved
<1>13. CASE Return
  <2>1. /\ pc = "params" /\ pc' = "returned" /\ UNCHANGED <<shown, log, param>>
    BY <1>13, FailType DEF Return
  <2>2. ~Early /\ ~Early' /\ ~BeforeParams'
    BY <2>1 DEF Early, BeforeParams
  <2>3. CASE UNCHANGED <<obs, err>>
    BY <2>1, <2>2, <2>3, OtherObserved
  <2>4. CASE Fail
    <3>1. \A c \in Commands : log'[c] # "empty"
      BY <2>1 DEF Observed, Starts
    <3>2. QED
      BY <2>2, <2>4, <3>1, FailType, NothingObserved
  <2>5. QED
    BY <1>13, <2>3, <2>4 DEF Return
<1>14. CASE UNCHANGED vars
  <2>1. UNCHANGED <<obs, err, shown, log, pc, param>>
    BY <1>14 DEF vars
  <2>2. QED
    BY <2>1, OtherObserved DEF Early, BeforeParams
<1>15. QED
  BY <1>1, <1>2, <1>3, <1>4, <1>5, <1>6, <1>7, <1>8, <1>9, <1>10, <1>11, <1>12, <1>13,
     <1>14 DEF Next, Quiescent

\* What a run observes is determined by the sources it has read.
THEOREM ObservedInvariant == Spec => []Observed
<1>1. ASSUME Init
      PROVE  Observed
  <2>1. /\ \A o \in Observation : obs[o] = 0 /\ obs[o] \in {0, 1} /\ obs[o] # 1
        /\ Early /\ shown = {}
    BY <1>1 DEF Init, Early
  <2>2. \A c \in Commands : log[c] # "empty"
    BY <1>1 DEF Init, Sources
  <2>3. \A o : ~CountedByNID(o)
    BY <2>1 DEF CountedByNID
  <2>4. QED
    BY <2>1, <2>2, <2>3, Zenon
    DEF Observed, Once, Starts, Globals, Interfaces, Parameters, Counts
<1>2. TypeOK /\ Order /\ Observed /\ [Next]_vars => Observed'
  BY ObservedStep
<1>3. QED
  BY <1>1, <1>2, TypeCorrect, SourcesInOrder, PTL DEF Spec

-----------------------------------------------------------------------------
\* What follows for a run that has returned.

\* The label of the run names the source that its counters are from.
THEOREM LabelIsTrue == Spec => []LabelNamesSource
<1>1. ASSUME TypeOK, Order, Observed
      PROVE  LabelNamesSource
  <2>1. SUFFICES ASSUME pc = "returned"
                 PROVE  /\ \A o \in Present("traffic") :
                             scrapeSource = IF o.from = "file" THEN "sys" ELSE "lctl"
                        /\ err => (scrapeSource = "lctl") = (log["stats show"] # "unread")
    BY DEF LabelNamesSource
  <2>2. scrapeSource = "lctl" <=> log["stats show"] # "unread"
    BY <1>1, <2>1 DEF Order, LabelSet
  <2>3. ASSUME NEW o \in Present("traffic")
        PROVE  scrapeSource = IF o.from = "file" THEN "sys" ELSE "lctl"
    <3>1. /\ o \in Observation /\ obs[o] \in {0, 1} /\ obs[o] > 0
          /\ o.metric \in GlobalMetrics
      BY <1>1 DEF Present, Observed, Once, GlobalMetrics
    <3>2. obs[o] = 1
      BY <3>1
    <3>3. ~err
      BY <1>1, <3>1, <3>2, ZeroIsNotOne DEF Observed, Starts
    <3>4. o.from = SourceTag
      BY <1>1, <3>1, <3>2, Zenon DEF Observed, Globals
    <3>5. /\ ReadFile \/ ReadLNetCtl
          /\ ReadFile => log["stats show"] = "unread"
      BY <1>1, <2>1, <3>3 DEF Order, OnePrimary
    <3>6. CASE ReadFile
      <4>1. o.from = "file" /\ scrapeSource # "lctl"
        BY <2>2, <3>4, <3>5, <3>6 DEF SourceTag
      <4>2. QED
        BY <1>1, <4>1 DEF TypeOK
    <3>7. CASE ~ReadFile
      <4>1. o.from = "lnetctl" /\ scrapeSource = "lctl"
        BY <2>2, <3>4, <3>5, <3>7 DEF SourceTag, ReadLNetCtl
      <4>2. QED
        BY <4>1
    <3>8. QED
      BY <3>6, <3>7
  <2>4. QED
    BY <2>2, <2>3
<1>2. QED
  BY <1>1, TypeCorrect, SourcesInOrder, ObservedInvariant, PTL

\* Per-NID counters appear with lnetctl's counters only, and as net show names
\* the interfaces.
THEOREM NIDsCounted == Spec => []CountsByNIDWithLNetCtl
<1>1. ASSUME TypeOK, Order, Observed
      PROVE  CountsByNIDWithLNetCtl
  <2>1. SUFFICES ASSUME pc = "returned", ~err
                 PROVE  Present("count by nid") =
                          UNION {CountObservations(show) :
                                   show \in {s \in shown : ReadLNetCtl /\ s.counts}}
    BY DEF CountsByNIDWithLNetCtl
  <2>2. \A o \in Observation : (obs[o] > 0 <=> obs[o] = 1)
    <3>1. \A o \in Observation : obs[o] \in {0, 1}
      BY <1>1 DEF Observed, Once
    <3>2. QED
      BY <3>1
  <2>3. \A o \in Observation : o.metric = "count by nid" => (obs[o] = 1 <=> CountedByNID(o))
    BY <1>1, <2>1, Zenon DEF Observed, Counts
  <2>4. \A o : o \in Present("count by nid") <=>
                 o \in Observation /\ o.metric = "count by nid" /\ CountedByNID(o)
    BY <2>2, <2>3 DEF Present
  <2>5. \A o : CountedByNID(o) => o \in Observation /\ o.metric = "count by nid"
    <3>1. shown \subseteq NetShows
      BY <1>1 DEF TypeOK
    <3>2. QED
      BY <3>1, CountObservationsType DEF CountedByNID
  <2>6. \A o : o \in UNION {CountObservations(show) :
                              show \in {s \in shown : ReadLNetCtl /\ s.counts}}
                <=> CountedByNID(o)
    BY DEF CountedByNID
  <2>7. QED
    BY <2>4, <2>5, <2>6
<1>2. QED
  BY <1>1, TypeCorrect, SourcesInOrder, ObservedInvariant, PTL

\* Messages are counted globally or per NID, and no series occurs twice.
THEOREM MessagesCountedOnce == Spec => []CountedOnce
<1>1. ASSUME TypeOK, Order, Observed, NEW o1 \in Observation, NEW o2 \in Observation,
             obs[o1] > 0, obs[o2] > 0
      PROVE  /\ obs[o1] = 1
             /\ o1 # o2 => <<o1.metric, o1.nid>> # <<o2.metric, o2.nid>>
  <2>1. obs[o1] = 1 /\ obs[o2] = 1
    <3>1. obs[o1] \in {0, 1} /\ obs[o2] \in {0, 1}
      BY <1>1 DEF Observed, Once
    <3>2. QED
      BY <1>1, <3>1
  <2>2. ASSUME o1.metric = o2.metric, o1.nid = o2.nid
        PROVE  o1.from = o2.from
    <3>1. CASE o1.metric \in GlobalMetrics
      BY <1>1, <2>1, <2>2, <3>1, Zenon DEF Observed, Globals
    <3>2. CASE o1.metric \in NIMetrics
      BY <1>1, <2>1, <2>2, <3>2, Zenon DEF Observed, Interfaces
    <3>3. CASE o1.metric \in Names
      BY <1>1, <2>1, <2>2, <3>3, Zenon DEF Observed, Parameters
    <3>4. QED
      BY <3>1, <3>2, <3>3, Kinds
  <2>3. ASSUME o1.metric = o2.metric, o1.nid = o2.nid, o1.from = o2.from
        PROVE  o1 = o2
    <3>1. o1 = [metric |-> o1.metric, nid |-> o1.nid, from |-> o1.from]
      BY DEF Observation
    <3>2. o2 = [metric |-> o2.metric, nid |-> o2.nid, from |-> o2.from]
      BY DEF Observation
    <3>3. QED
      BY <2>3, <3>1, <3>2, Zenon
  <2>4. QED
    BY <2>1, <2>2, <2>3
<1>2. ASSUME TypeOK, Order, Observed, pc = "returned", ~err
      PROVE  /\ Present("count") = {} \/ Present("count by nid") = {}
             /\ (Present("count") \cup Present("count by nid") = {}) =
                  ("empty" \in {log[s] : s \in Sources})
  <2> DEFINE g == Global("count", SourceTag)
  <2>1. \A o \in Observation : (obs[o] > 0 <=> obs[o] = 1)
    <3>1. \A o \in Observation : obs[o] \in {0, 1}
      BY <1>2 DEF Observed, Once
    <3>2. QED
      BY <3>1
  <2>2. "count" \in GlobalMetrics \cup Names /\ "count" \in GlobalMetrics /\ SourceTag \in {"file", "lnetctl"}
    BY DEF GlobalMetrics, SourceTag
  <2>3. /\ g \in Observation /\ g.metric = "count"
        /\ \A o \in Observation : o.metric = "count" /\ o.nid = "" /\ o.from = SourceTag => o = g
    BY <2>2, GlobalType, Zenon
  <2>4. obs[g] = 1 <=> ~ReplacedByNID /\ ~Empty
    BY <1>2 DEF Observed, Counts, Early
  <2> HIDE DEF g
  <2>5. Present("count") # {} <=> ~ReplacedByNID /\ ~Empty
    <3>1. \A o \in Observation : o.metric = "count" /\ obs[o] = 1 => o = g
      BY <1>2, <2>2, <2>3, Zenon DEF Observed, Globals
    <3>2. \A o : o \in Present("count") <=> o \in Observation /\ o.metric = "count" /\ obs[o] = 1
      BY <2>1 DEF Present
    <3>3. Present("count") # {} <=> obs[g] = 1
      BY <2>3, <3>1, <3>2
    <3>4. QED
      BY <2>4, <3>3
  <2>6. Present("count by nid") # {} <=> ReplacedByNID
    <3>1. \A o \in Observation : o.metric = "count by nid" => (obs[o] = 1 <=> CountedByNID(o))
      BY <1>2, Zenon DEF Observed, Counts
    <3>2. \A o : o \in Present("count by nid") <=>
                   o \in Observation /\ o.metric = "count by nid" /\ CountedByNID(o)
      BY <2>1, <3>1 DEF Present
    <3>3. \A o : CountedByNID(o) => o \in Observation /\ o.metric = "count by nid"
      <4>1. shown \subseteq NetShows
        BY <1>2 DEF TypeOK
      <4>2. QED
        BY <4>1, CountObservationsType DEF CountedByNID
    <3>4. ReplacedByNID <=> \E o : CountedByNID(o)
      BY DEF ReplacedByNID, CountedByNID
    <3>5. QED
      BY <3>2, <3>3, <3>4
  <2>7. Empty <=> "empty" \in {log[s] : s \in Sources}
    BY <1>2 DEF Observed, Starts, Empty, Sources, StatsFiles
  <2>8. Empty => ~ReplacedByNID
    BY <1>2 DEF Empty, ReplacedByNID, Order, OnePrimary, ReadFile, ReadLNetCtl, StatsFiles
  <2>9. Present("count") \cup Present("count by nid") = {} <=> Empty
    BY <2>5, <2>6, <2>8
  <2>10. Present("count") = {} \/ Present("count by nid") = {}
    BY <2>5, <2>6
  <2>11. (Present("count") \cup Present("count by nid") = {}) = ("empty" \in {log[s] : s \in Sources})
    <3> DEFINE logged == "empty" \in {log[s] : s \in Sources}
    <3>1. Present("count") \cup Present("count by nid") = {} <=> logged
      BY <2>7, <2>9
    <3> HIDE DEF logged
    <3>2. (Present("count") \cup Present("count by nid") = {}) = logged
      BY <3>1, Zenon
    <3>3. QED
      BY <3>2 DEF logged
  <2>12. QED
    BY <2>10, <2>11
<1>3. TypeOK /\ Order /\ Observed => CountedOnce
  BY <1>1, <1>2 DEF CountedOnce
<1>4. QED
  BY <1>3, TypeCorrect, SourcesInOrder, ObservedInvariant, PTL

-----------------------------------------------------------------------------
\* The verdict on the run.

\* A run that has read its primary source fails over an invalid NID alone.
Refused ==
  pc = "returned" /\ (ReadFile \/ ReadLNetCtl) /\ err =>
    \E show \in shown : \E n \in show.nis : n.nid \in InvalidNIDs

\* Every step that fails the run fails it over its primary source or a NID.
LEMMA RefusedStep ==
  ASSUME TypeOK, Order, Order', Observed, Refused, [Next]_vars
  PROVE  Refused'
<1>1. CASE pc = "returned"
  <2>1. UNCHANGED vars
    BY <1>1 DEF Next, Quiescent, Expire, Begin, StatsUnreadable, StatsMalformed, StatsRead,
           StatsShowFails, StatsShow, NetShowFails, NetShow, ParamUnreadable, ParamMalformed,
           ParamRead, InParams, Return
  <2>2. QED
    BY <2>1 DEF Refused, vars, ReadFile, ReadLNetCtl
<1>2. CASE Return
  <2>1. CASE Fail
    <3>1. PICK o \in Observation : obs[o] > 0 /\ o.nid \in InvalidNIDs
      BY <1>2, <2>1 DEF Return, Order, OnePrimary, Fail
    <3>2. obs[o] = 1
      BY <3>1 DEF Observed, Once
    <3>3. o.nid # ""
      BY <3>1, NamesAssumption
    <3>4. o.metric \in NIMetrics
      BY <3>2, <3>3, Kinds, Zenon DEF Observed, Globals, Parameters
    <3>5. \E show \in shown : \E n \in show.nis : n.nid = o.nid
      BY <3>2, <3>4, Zenon DEF Observed, Interfaces
    <3>6. QED
      BY <1>2, <3>1, <3>5 DEF Refused, Return
  <2>2. CASE ~Fail
    <3>1. err' = err /\ pc = "params"
      BY <1>2, <2>2 DEF Return
    <3>2. QED
      BY <3>1 DEF Refused, Order, OnePrimary
  <2>3. QED
    BY <2>1, <2>2
<1>3. ASSUME NEW o \in Failures \cup {"malformed"}, pc = "files", Log(StatsPaths[path], o)
      PROVE  ~ReadFile' /\ ~ReadLNetCtl'
  <2> DEFINE f == StatsPaths[path]
  <2>1. f \in StatsFiles /\ f \in Sources
    BY <1>3, StatsPath, Zenon DEF StatsFiles, Sources
  <2>2. Log(f, o)
    BY <1>3
  <2> HIDE DEF f
  <2>3. /\ log'[f] = o /\ \A t \in Sources : t # f => log'[t] = log[t]
        /\ ReadLNetCtl' = ReadLNetCtl
    BY <2>1, <2>2, OrderOfLog DEF StatsFiles
  <2>4. o \notin {"ok", "empty"}
    BY DEF Failures
  <2>5. ~ReadFile /\ ~ReadLNetCtl
    BY <1>3 DEF Order, OnePrimary, ReadingOrder, ReadLNetCtl, Commands
  <2>6. QED
    BY <2>3, <2>4, <2>5 DEF ReadFile, Sources
<1>4. ASSUME NEW o \in Failures, StatsUnreadable(o)
      PROVE  Refused'
  BY <1>3, <1>4 DEF StatsUnreadable, Refused
<1>5. CASE StatsMalformed
  BY <1>3, <1>5 DEF StatsMalformed, Refused
<1>6. ASSUME NEW o \in Failures \cup {"malformed"}, StatsShowFails(o)
      PROVE  Refused'
  <2>1. log'["stats show"] = o /\ ReadFile' = ReadFile
    BY <1>6, OrderOfLog DEF StatsShowFails, Sources, Commands
  <2>2. ~ReadFile' /\ ~ReadLNetCtl'
    BY <1>6, <2>1 DEF StatsShowFails, Order, OnePrimary, ReadLNetCtl, Failures
  <2>3. QED
    BY <2>2 DEF Refused
<1>7. CASE pc' # "returned"
  BY <1>7 DEF Refused
<1>8. CASE pc # "returned" /\ pc' = "returned"
  <2>1. \/ Return \/ StatsMalformed \/ \E o \in Failures : StatsUnreadable(o)
        \/ \E o \in Failures \cup {"malformed"} : StatsShowFails(o)
    BY <1>8 DEF Next, Quiescent, vars, Expire, Begin, StatsRead, StatsShow, NetShowFails,
           WithoutNetShow, NetShow, ParamUnreadable, ParamMalformed, ParamRead, InParams
  <2>2. QED
    BY <1>2, <1>4, <1>5, <1>6, <2>1
<1>9. QED
  BY <1>1, <1>7, <1>8

\* The verdict on a run is that on its primary source and on the emitter.
THEOREM VerdictOfThePrimary == Spec => []VerdictIsPrimary
<1>1. Init => Refused
  BY DEF Init, Refused
<1>2. TypeOK /\ Order /\ Order' /\ Observed /\ Refused /\ [Next]_vars => Refused'
  BY RefusedStep
<1>3. Order /\ Refused => VerdictIsPrimary
  BY DEF Order, OnePrimary, Refused, VerdictIsPrimary
<1>4. QED
  BY <1>1, <1>2, <1>3, TypeCorrect, SourcesInOrder, ObservedInvariant, PTL DEF Spec
=============================================================================
