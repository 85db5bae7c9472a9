-------------------------- MODULE ClientCollector --------------------------
(***************************************************************************)
(* collector/client.go: one run of ClientCollector.Collect, on a host whose *)
(* file systems are mounted and unmounted meanwhile.                       *)
(*                                                                         *)
(* The run discovers the targets with a sequence of globs and then reads   *)
(* the callback statistics and, target by target, the files it found and   *)
(* the parameter files.  A read fails by itself, or because the context of *)
(* the run is done; a file may be gone since it was found.                 *)
(*                                                                         *)
(* Abstractions.  The observations of one file are one.  What a file       *)
(* contains is one of the cases that the code tells apart: it parses, it   *)
(* does not, or it parses to a label value that is not valid UTF-8, which  *)
(* the emitter refuses ("garbled").  A glob sees the file systems at one   *)
(* moment.                                                                 *)
(***************************************************************************)
EXTENDS Discovery, FiniteSets

CONSTANTS
  Layout,      \* the files that exist while their target is mounted
  ParamFiles,  \* the parameter files read for a component
  MaxChanges   \* bound on the mounts and unmounts during the run

\* The files of a target that the collector reads.
FileNames ==
  {"stats", "rpc_stats"} \cup UNION {ToSet(ParamFiles[component]) : component \in Components}
File == [component : Components, name : Names, root : RootNames, file : FileNames]

ASSUME ClientAssumption ==
  /\ Layout \subseteq File
  /\ ParamFiles \in [Components -> Seq(STRING)]
  /\ MaxChanges \in Nat

\* No parameter file is called like a statistics file, and none is read twice.
ASSUME ParamAssumption ==
  \A component \in Components :
    /\ \A i \in DOMAIN ParamFiles[component] :
         ParamFiles[component][i] \notin {"stats", "rpc_stats", "ldlm_cbd", "glob"}
    /\ \A i, j \in DOMAIN ParamFiles[component] :
         ParamFiles[component][i] = ParamFiles[component][j] => i = j

Keys == Components \X Names

VARIABLES
  strict,    \* c.strict
  mounted,   \* the targets that exist now
  changes,   \* how often that has changed
  expired,   \* the context of the run is done
  pc,        \* what the run reads next
  pattern,   \* index in Patterns
  matches,   \* the matches of the last pattern that are not in idx yet
  idx,       \* the clientIndex
  target,    \* index in idx.targets
  param,     \* index in the parameter files of the target
  root,      \* index in the roots tried for one file
  obs,       \* allObs
  garbled,   \* some observation has an invalid label value
  err,       \* Collect returned an error
  globbed,   \* globbed[p]: what the glob of pattern p found (history)
  failed     \* the failures of its globs and reads (history)

hostVars == <<mounted, changes>>
discoveryVars == <<pattern, matches, idx, globbed>>
loopVars == <<target, param, root>>
resultVars == <<obs, garbled, err>>
vars == <<strict, hostVars, expired, pc, discoveryVars, loopVars, resultVars, failed>>

-----------------------------------------------------------------------------
\* A source, for which obs holds an observation and failed a failure: a file
\* of a target, the callback statistics, or the globs.
Source ==
  [component : Components, name : Names, file : FileNames]
    \cup [component : {""}, name : {""}, file : {"ldlm_cbd", "glob"}]
SourceOf(t, file) == [component |-> t.component, name |-> t.name, file |-> file]
LDLM == [component |-> "", name |-> "", file |-> "ldlm_cbd"]
Globs == [component |-> "", name |-> "", file |-> "glob"]

Unreadable == {"not exist", "error", "timeout", "refused"}
Parsed == {"ok", "garbled"}
Outcomes == Unreadable \cup Parsed \cup {"malformed"}

Current == idx.targets[target]
Params == ParamFiles[Current.component]

TypeOK ==
  /\ strict \in BOOLEAN
  /\ mounted \subseteq Keys
  /\ changes \in 0..MaxChanges
  /\ expired \in BOOLEAN
  /\ pc \in {"glob", "ldlm", "stats", "rpc_stats", "params", "returned"}
  /\ pattern \in 1..Len(Patterns) + 1
  /\ matches \subseteq Names /\ (matches # {} => pattern > 1)
  /\ idx.targets \in Seq(ClientTarget)
  /\ idx.seen \in [DOMAIN idx.seen -> DOMAIN idx.targets]
  /\ DOMAIN idx.seen \subseteq Keys
  /\ target \in 1..Len(idx.targets) + 1
  /\ pc = "params" => param \in 1..Len(Params) + 1
  /\ root \in DOMAIN ParamRoots
  /\ obs \subseteq Source
  /\ garbled \in BOOLEAN
  /\ err \in BOOLEAN
  /\ globbed \in [Pattern -> SUBSET Names]
  /\ failed \subseteq Source \X (Outcomes \ Parsed)

Init ==
  /\ strict \in BOOLEAN
  /\ mounted \in SUBSET {<<f.component, f.name>> : f \in Layout}
  /\ changes = 0
  /\ expired = FALSE
  /\ pc = "glob"
  /\ pattern = 1
  /\ matches = {}
  /\ idx = NewIndex
  /\ target = 1
  /\ param = 1
  /\ root = 1
  /\ obs = {}
  /\ garbled = FALSE
  /\ err = FALSE
  /\ globbed = [p \in Pattern |-> {}]
  /\ failed = {}

-----------------------------------------------------------------------------
(* The host, and the clock.                                                *)

Exists(component, name, rt, file) ==
  /\ <<component, name>> \in mounted
  /\ [component |-> component, name |-> name, root |-> rt, file |-> file] \in Layout

Remount(key) ==
  /\ pc # "returned"
  /\ changes < MaxChanges
  /\ changes' = changes + 1
  /\ mounted' = IF key \in mounted THEN mounted \ {key} ELSE mounted \cup {key}
  /\ UNCHANGED <<strict, expired, pc, discoveryVars, loopVars, resultVars, failed>>

Expire ==
  /\ pc # "returned"
  /\ ~expired
  /\ expired' = TRUE
  /\ UNCHANGED <<strict, hostVars, pc, discoveryVars, loopVars, resultVars, failed>>

\* The reader turns to a source, which exists or not.
Read(source, exists, o) ==
  /\ (o = "refused") = expired
  /\ (o = "not exist") = (~expired /\ ~exists)
  /\ expired' = (expired \/ o = "timeout")
  /\ failed' = IF o \in Parsed THEN failed ELSE failed \cup {<<source, o>>}

ReadOf(t, rt, file, o) ==
  Read(SourceOf(t, file), Exists(t.component, t.name, rt, file), o)

\* allObs = append(allObs, ...)
Observe(source, o) ==
  /\ obs' = obs \cup {source}
  /\ garbled' = (garbled \/ o = "garbled")
  /\ UNCHANGED err

Fail ==
  /\ pc' = "returned"
  /\ err' = TRUE
  /\ obs' = {}
  /\ UNCHANGED <<garbled, loopVars>>

-----------------------------------------------------------------------------
(* DiscoverClients.                                                        *)

Found(p) == {n \in Names : Exists(p.component, n, p.root, p.file)}

Glob ==
  /\ pc = "glob"
  /\ pattern <= Len(Patterns)
  /\ matches = {}
  /\ ~expired
  /\ matches' = Found(Patterns[pattern])
  /\ globbed' = [globbed EXCEPT ![Patterns[pattern]] = Found(Patterns[pattern])]
  /\ pattern' = pattern + 1
  /\ UNCHANGED <<strict, hostVars, expired, pc, idx, loopVars, resultVars, failed>>

\* globAll goes on with the next pattern.
GlobFails(o) ==
  /\ pc = "glob"
  /\ pattern <= Len(Patterns)
  /\ matches = {}
  /\ o \in {"timeout", "refused"}
  /\ Read(Globs, TRUE, o)
  /\ pattern' = pattern + 1
  /\ UNCHANGED <<strict, hostVars, pc, matches, idx, globbed, loopVars, resultVars>>

\* idx.addStats or idx.addRPCStats of one match.  The globs do not read the
\* index, and within a pattern no match depends on another.
Index(name) ==
  /\ pc = "glob"
  /\ name \in matches
  /\ idx' = AddMatch(idx, Patterns[pattern - 1], name)
  /\ matches' = matches \ {name}
  /\ UNCHANGED <<strict, hostVars, expired, pc, pattern, globbed, loopVars, resultVars, failed>>

EndDiscovery ==
  /\ pc = "glob"
  /\ pattern > Len(Patterns)
  /\ matches = {}
  /\ pc' = "ldlm"
  /\ UNCHANGED <<strict, hostVars, expired, discoveryVars, loopVars, resultVars, failed>>

-----------------------------------------------------------------------------
(* collectLDLMCBD: found under two roots, or not at all.                   *)

NextTarget(t) ==
  /\ target' = t
  /\ param' = 1
  /\ root' = 1
  /\ pc' = "stats"

ReadLDLM(o) ==
  /\ pc = "ldlm"
  /\ \E exists \in BOOLEAN : Read(LDLM, exists, o)
  /\ \/ /\ o \in Unreadable
        /\ \/ root = 1 /\ root' = 2 /\ UNCHANGED <<pc, target, param>>
           \/ root = 2 /\ NextTarget(1)
        /\ UNCHANGED resultVars
     \/ /\ o \in Parsed
        /\ Observe(LDLM, o)
        /\ NextTarget(1)
     \/ /\ o = "malformed" /\ strict
        /\ Fail
     \/ /\ o = "malformed" /\ ~strict
        /\ NextTarget(1)
        /\ UNCHANGED resultVars
  /\ UNCHANGED <<strict, hostVars, discoveryVars>>

-----------------------------------------------------------------------------
(* collectTarget.                                                          *)

AtTarget(stage) == pc = stage /\ target <= Len(idx.targets)
IsMount == Current.component = "llite"

\* strictError: the error in strict mode, else the run goes on elsewhere.
StrictError(stage) ==
  \/ strict /\ Fail
  \/ /\ ~strict
     /\ UNCHANGED resultVars
     /\ IF stage = "next target" THEN NextTarget(target + 1)
                                 ELSE pc' = stage /\ UNCHANGED loopVars

\* An import that has no stats file.
SkipStats ==
  /\ AtTarget("stats")
  /\ Current.stats = NoPath
  /\ pc' = "rpc_stats"
  /\ UNCHANGED <<strict, hostVars, expired, discoveryVars, loopVars, resultVars, failed>>

\* Mistake: an import whose stats cannot be read is given up, like a mount.
GiveUpTarget == "next target"

\* Where the run goes on after bad stats: a mount is skipped, an import not.
AfterBadStats == IF IsMount THEN "next target" ELSE "rpc_stats"

ReadStats(o) ==
  /\ AtTarget("stats")
  /\ Current.stats # NoPath
  /\ ReadOf(Current, Current.stats, "stats", o)
  /\ \/ /\ o \in Parsed
        /\ Observe(SourceOf(Current, "stats"), o)
        /\ pc' = IF IsMount THEN "params" ELSE "rpc_stats"
        /\ UNCHANGED loopVars
     \/ /\ o \notin Parsed
        /\ StrictError(AfterBadStats)
  /\ UNCHANGED <<strict, hostVars, discoveryVars>>

SkipRPCStats ==
  /\ AtTarget("rpc_stats")
  /\ Current.rpc_stats = NoPath
  /\ pc' = "params"
  /\ UNCHANGED <<strict, hostVars, expired, discoveryVars, loopVars, resultVars, failed>>

\* Mistake: a file that is gone is an error like any other.
NothingTolerated == {}

\* errors.Is(err, fs.ErrNotExist)
Tolerated == {"not exist"}

ReadRPCStats(o) ==
  /\ AtTarget("rpc_stats")
  /\ Current.rpc_stats # NoPath
  /\ ReadOf(Current, Current.rpc_stats, "rpc_stats", o)
  /\ \/ /\ o \in Parsed
        /\ Observe(SourceOf(Current, "rpc_stats"), o)
        /\ pc' = "params"
        /\ UNCHANGED loopVars
     \/ /\ o \in Tolerated
        /\ pc' = "params"
        /\ UNCHANGED <<loopVars, resultVars>>
     \/ /\ o \notin Parsed \cup Tolerated
        /\ StrictError("params")
  /\ UNCHANGED <<strict, hostVars, discoveryVars>>

NextParam == param' = param + 1 /\ root' = 1 /\ UNCHANGED <<pc, target>>

ReadParam(o) ==
  /\ AtTarget("params")
  /\ param <= Len(Params)
  /\ ReadOf(Current, ParamRoots[root], Params[param], o)
  /\ \/ /\ o \in Unreadable
        /\ \/ /\ root < Len(ParamRoots)
              /\ root' = root + 1
              /\ UNCHANGED <<pc, target, param>>
           \/ /\ root = Len(ParamRoots)
              /\ NextParam
        /\ UNCHANGED resultVars
     \/ /\ o \in Parsed
        /\ Observe(SourceOf(Current, Params[param]), o)
        /\ NextParam
     \/ /\ o = "malformed" /\ strict
        /\ Fail
     \/ /\ o = "malformed" /\ ~strict
        /\ NextParam
        /\ UNCHANGED resultVars
  /\ UNCHANGED <<strict, hostVars, discoveryVars>>

EndTarget ==
  /\ AtTarget("params")
  /\ param > Len(Params)
  /\ NextTarget(target + 1)
  /\ UNCHANGED <<strict, hostVars, expired, discoveryVars, resultVars, failed>>

\* mapper.Map and emitter.Emit: every observation, or an error and none.
Emit ==
  /\ pc' = "returned"
  /\ err' = garbled
  /\ obs' = IF garbled THEN {} ELSE obs

Return ==
  /\ pc = "stats"
  /\ target > Len(idx.targets)
  /\ Emit
  /\ UNCHANGED <<strict, hostVars, expired, discoveryVars, loopVars, garbled, failed>>

Quiescent ==
  /\ pc = "returned"
  /\ UNCHANGED vars

Next ==
  \/ \E key \in {<<f.component, f.name>> : f \in Layout} : Remount(key)
  \/ Expire
  \/ Glob
  \/ \E o \in {"timeout", "refused"} : GlobFails(o)
  \/ \E name \in Names : Index(name)
  \/ EndDiscovery
  \/ SkipStats
  \/ SkipRPCStats
  \/ \E o \in Outcomes : ReadLDLM(o) \/ ReadStats(o) \/ ReadRPCStats(o) \/ ReadParam(o)
  \/ EndTarget
  \/ Return
  \/ Quiescent

Spec == Init /\ [][Next]_vars

-----------------------------------------------------------------------------
(* Properties.                                                             *)

\* The first root under which a glob found the file, or NoPath.
FirstRoot(file, key) ==
  LET found == {i \in DOMAIN Roots :
        key[2] \in globbed[[file |-> file, component |-> key[1], root |-> Roots[i]]]}
  IN IF found = {} THEN NoPath ELSE Roots[Min(found)]

KeysFound ==
  {key \in Keys : \E file \in {"stats", "rpc_stats"} : FirstRoot(file, key) # NoPath}

\* Discovery yields one target for every mount and import that any glob saw,
\* once, with the stats file and, independently, the rpc_stats file of the
\* first root in which each was seen, although targets come and go between
\* the globs; and the map leads to it (discovery.go:162-235).
DiscoveryFindsFirst ==
  pc # "glob" =>
    /\ ToSet(idx.targets) =
         {[component |-> key[1], name |-> key[2], stats |-> FirstRoot("stats", key),
           rpc_stats |-> FirstRoot("rpc_stats", key)] : key \in KeysFound}
    /\ Len(idx.targets) = Cardinality(KeysFound)
    /\ \A key \in KeysFound :
         LET t == idx.targets[idx.seen[key]] IN <<t.component, t.name>> = key

\* The failures that are errors in strict mode (docs/metrics.md:792).
Hard ==
  {f \in failed :
    \/ f[2] = "malformed"
    \/ f[1].file = "stats"
    \/ f[1].file = "rpc_stats" /\ f[2] # "not exist"}

\* The run fails if the emitter refuses a label value, and in strict mode if a
\* discovered file cannot be read or any file cannot be parsed; never in
\* lenient mode for the files, and never for a file that may be missing
\* (docs/metrics.md:791-793).
VerdictFollowsTable ==
  pc = "returned" => err = (garbled \/ (strict /\ Hard # {}))

\* The run accounts for the source: by an observation or by a failure.
Accounted(t, file) ==
  SourceOf(t, file) \in obs \cup {f[1] : f \in failed}

\* A run that returns metrics has turned to every file there is, whatever
\* failed before it: the sources of an import do not depend on each other, and
\* a mount has no parameters without its stats (client.go:95-109, 187-209).
OneFailureCostsOneSource ==
  pc = "returned" /\ ~err =>
    \A t \in ToSet(idx.targets) :
      /\ t.stats # NoPath => Accounted(t, "stats")
      /\ t.rpc_stats # NoPath => Accounted(t, "rpc_stats")
      /\ \A file \in ToSet(ParamFiles[t.component]) :
           IF t.component = "llite" /\ SourceOf(t, "stats") \notin obs
           THEN SourceOf(t, file) \notin obs
           ELSE Accounted(t, file)

\* What docs/design.md:67 says of -collector.strict: source failures fail the
\* scrape instead of returning partial data.  Here: a discovery that could not
\* be completed.
StrictReturnsNoPartialData ==
  pc = "returned" /\ strict /\ <<Globs, "timeout">> \in failed => err
=============================================================================
