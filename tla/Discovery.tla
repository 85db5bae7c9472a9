----------------------------- MODULE Discovery -----------------------------
(***************************************************************************)
(* internal/discovery/discovery.go: the index in which DiscoverClients      *)
(* collects the targets that its globs find.                               *)
(*                                                                         *)
(* A path is named by its root, its component, the target and the file:    *)
(* the rest of it follows.  The key "component/name" of the map is the     *)
(* pair of both.                                                           *)
(***************************************************************************)
EXTENDS Integers, Sequences, SequencesExt

CONSTANTS
  Names,   \* names of mounts and imports
  NoPath   \* the empty StatsPath or RpcStatsPath

Components == {"llite", "mdc", "osc"}
Roots == <<"proc", "sys", "debug">>
ParamRoots == <<"proc", "sys">>
RootNames == {"proc", "sys", "debug"}

ASSUME DiscoveryAssumption == NoPath \notin RootNames

\* ClientTarget; a path is given by its root.
ClientTarget ==
  [component : Components, name : Names,
   stats : RootNames \cup {NoPath}, rpc_stats : RootNames \cup {NoPath}]

\* One pattern handed to Glob.
Pattern == [file : {"stats", "rpc_stats"}, component : Components, root : RootNames]

PatternsOf(file, component) ==
  << [file |-> file, component |-> component, root |-> "proc"],
     [file |-> file, component |-> component, root |-> "sys"],
     [file |-> file, component |-> component, root |-> "debug"] >>

\* The patterns in the order in which DiscoverClients globs them.
Patterns ==
  PatternsOf("stats", "llite") \o PatternsOf("stats", "mdc") \o PatternsOf("stats", "osc")
    \o PatternsOf("rpc_stats", "mdc") \o PatternsOf("rpc_stats", "osc")

-----------------------------------------------------------------------------
\* clientIndex: its targets, and the map from keys to positions in them.
NewIndex == [targets |-> <<>>, seen |-> <<>>]

Seen(idx, key) == key \in DOMAIN idx.seen

\* Mistake: the position taken after the target was appended.
AddThenCount(idx, key, target) ==
  [targets |-> Append(idx.targets, target),
   seen |-> [k \in DOMAIN idx.seen \cup {key} |->
               IF k = key THEN Len(idx.targets) + 2 ELSE idx.seen[k]]]

AddTarget(idx, key, target) ==
  [targets |-> Append(idx.targets, target),
   seen |-> [k \in DOMAIN idx.seen \cup {key} |->
               IF k = key THEN Len(idx.targets) + 1 ELSE idx.seen[k]]]

\* The first stats file found for a target wins.
AddStats(idx, pattern, name) ==
  LET key == <<pattern.component, name>> IN
  IF Seen(idx, key) THEN idx
  ELSE AddTarget(idx, key, [component |-> pattern.component, name |-> name,
                            stats |-> pattern.root, rpc_stats |-> NoPath])

\* Mistake: the last rpc_stats file found wins.
LastRPCStatsWins(idx, pattern, name) ==
  LET key == <<pattern.component, name>> IN
  IF Seen(idx, key)
  THEN [idx EXCEPT !.targets[idx.seen[key]].rpc_stats = pattern.root]
  ELSE AddTarget(idx, key, [component |-> pattern.component, name |-> name,
                            stats |-> NoPath, rpc_stats |-> pattern.root])

\* The first rpc_stats file found wins, wherever the stats file was found.
AddRPCStats(idx, pattern, name) ==
  LET key == <<pattern.component, name>> IN
  IF ~Seen(idx, key)
  THEN AddTarget(idx, key, [component |-> pattern.component, name |-> name,
                            stats |-> NoPath, rpc_stats |-> pattern.root])
  ELSE IF idx.targets[idx.seen[key]].rpc_stats # NoPath THEN idx
  ELSE [idx EXCEPT !.targets[idx.seen[key]].rpc_stats = pattern.root]

\* One match of a pattern.
AddMatch(idx, pattern, name) ==
  IF pattern.file = "stats" THEN AddStats(idx, pattern, name) ELSE AddRPCStats(idx, pattern, name)

\* The matches of one pattern, in the order in which Glob returns them.
AddMatches(idx, pattern, matches) ==
  FoldLeft(LAMBDA x, name : AddMatch(x, pattern, name), idx, matches)
=============================================================================
