----------------------- MODULE ClientCollectorProofs -----------------------
(***************************************************************************)
(* Proofs about ClientCollector, for any file systems, files, parameter    *)
(* files and number of mounts and unmounts.                                *)
(***************************************************************************)
EXTENDS ClientCollector, FiniteSetTheorems, TLAPS

-----------------------------------------------------------------------------
(* The patterns.                                                           *)

\* A mount has no rpc_stats.
SearchPattern == {p \in Pattern : p.file = "rpc_stats" => p.component # "llite"}

\* A list of three.
LEMMA TripleType ==
  ASSUME NEW S, NEW a \in S, NEW b \in S, NEW c \in S
  PROVE  <<a, b, c>> \in Seq(S) /\ Len(<<a, b, c>>) = 3
OBVIOUS

\* Lists one after the other are a list.
LEMMA ConcatType ==
  ASSUME NEW S, NEW s \in Seq(S), NEW t \in Seq(S)
  PROVE  s \o t \in Seq(S)
OBVIOUS

\* The patterns of one file of one component.
LEMMA PatternsOfType ==
  ASSUME NEW file \in {"stats", "rpc_stats"}, NEW component \in Components,
         file = "rpc_stats" => component # "llite"
  PROVE  PatternsOf(file, component) \in Seq(SearchPattern)
<1> DEFINE P(rt) == [file |-> file, component |-> component, root |-> rt]
<1>1. \A rt \in RootNames : P(rt) \in SearchPattern
  BY DEF Pattern, SearchPattern
<1>2. "proc" \in RootNames /\ "sys" \in RootNames /\ "debug" \in RootNames
  BY DEF RootNames
<1>3. P("proc") \in SearchPattern /\ P("sys") \in SearchPattern /\ P("debug") \in SearchPattern
  BY <1>1, <1>2, Zenon
<1>4. PatternsOf(file, component) = <<P("proc"), P("sys"), P("debug")>>
  BY Zenon DEF PatternsOf
<1> HIDE DEF P
<1>5. QED
  BY TripleType, <1>3, <1>4, Zenon

\* DiscoverClients looks for rpc_stats files of imports only.
LEMMA PatternsType == Patterns \in Seq(SearchPattern)
<1>1. "llite" \in Components /\ "mdc" \in Components /\ "osc" \in Components
  BY DEF Components
<1>2. /\ PatternsOf("stats", "llite") \in Seq(SearchPattern)
      /\ PatternsOf("stats", "mdc") \in Seq(SearchPattern)
      /\ PatternsOf("stats", "osc") \in Seq(SearchPattern)
      /\ PatternsOf("rpc_stats", "mdc") \in Seq(SearchPattern)
      /\ PatternsOf("rpc_stats", "osc") \in Seq(SearchPattern)
  <2>1. \A component \in Components : PatternsOf("stats", component) \in Seq(SearchPattern)
    BY PatternsOfType
  <2>2. \A component \in Components :
          component # "llite" => PatternsOf("rpc_stats", component) \in Seq(SearchPattern)
    BY PatternsOfType
  <2>3. "mdc" # "llite" /\ "osc" # "llite"
    OBVIOUS
  <2>4. QED
    BY <1>1, <2>1, <2>2, <2>3, Zenon
<1>3. QED
  BY <1>2, ConcatType, Zenon DEF Patterns

\* An index of a list is that of one of its elements.
LEMMA ElementType ==
  ASSUME NEW S, NEW s \in Seq(S)
  PROVE  /\ Len(s) \in Nat
         /\ DOMAIN s = 1..Len(s)
         /\ \A i \in 1..Len(s) : s[i] \in S
OBVIOUS

\* The index after that of an element is that of an element, or the next one.
LEMMA NextIndex ==
  ASSUME NEW n \in Nat, NEW i \in 1..n
  PROVE  i + 1 \in 1..n + 1
OBVIOUS

\* An index that is not past the end is that of an element.
LEMMA IndexBelow ==
  ASSUME NEW n \in Nat, NEW i \in 1..n + 1, i <= n
  PROVE  i \in 1..n
OBVIOUS

\* An index is past the end or it is not.
LEMMA PastTheEnd ==
  ASSUME NEW n \in Nat, NEW i \in 1..n + 1, i > n
  PROVE  ~(i <= n)
OBVIOUS

\* An index is a number.
LEMMA PositiveIndex ==
  ASSUME NEW n, NEW i \in 1..n
  PROVE  i \in Nat
OBVIOUS

\* All elements are before an index that is past the end.
LEMMA AllBefore ==
  ASSUME NEW S, NEW s \in Seq(S), NEW i \in 1..Len(s) + 1, i > Len(s)
  PROVE  \A j \in DOMAIN s : j < i
OBVIOUS

-----------------------------------------------------------------------------
(* The index.                                                              *)

KeyOf(t) == <<t.component, t.name>>

\* The index holds one target for each of its keys, and a mount in it has its
\* stats and no rpc_stats.
IndexInv(x) ==
  /\ x = [targets |-> x.targets, seen |-> x.seen]
  /\ x.targets \in Seq(ClientTarget)
  /\ x.seen \in [DOMAIN x.seen -> DOMAIN x.targets]
  /\ DOMAIN x.seen \subseteq Keys
  /\ \A i \in DOMAIN x.targets : KeyOf(x.targets[i]) \in DOMAIN x.seen
  /\ \A key \in DOMAIN x.seen : KeyOf(x.targets[x.seen[key]]) = key
  /\ \A i, j \in DOMAIN x.targets : KeyOf(x.targets[i]) = KeyOf(x.targets[j]) => i = j
  /\ \A i \in DOMAIN x.targets :
       x.targets[i].component = "llite" =>
         x.targets[i].stats # NoPath /\ x.targets[i].rpc_stats = NoPath

\* An update below a field is an update of the field.
LEMMA NestedUpdate ==
  ASSUME NEW x, NEW i, NEW v
  PROVE  [x EXCEPT !.targets[i].rpc_stats = v]
         = [x EXCEPT !.targets = [x.targets EXCEPT ![i] = [x.targets[i] EXCEPT !.rpc_stats = v]]]
OBVIOUS

\* The empty index.
LEMMA NewIndexInv == IndexInv(NewIndex)
BY DEF IndexInv, NewIndex

\* A new target under a new key.
LEMMA AddTargetInv ==
  ASSUME NEW x, IndexInv(x), NEW key \in Keys, ~Seen(x, key),
         NEW t \in ClientTarget, KeyOf(t) = key,
         t.component = "llite" => t.stats # NoPath /\ t.rpc_stats = NoPath
  PROVE  IndexInv(AddTarget(x, key, t))
<1> DEFINE y == AddTarget(x, key, t)
<1>1. /\ y.targets = Append(x.targets, t)
      /\ y.seen = [k \in DOMAIN x.seen \cup {key} |->
                    IF k = key THEN Len(x.targets) + 1 ELSE x.seen[k]]
      /\ y = [targets |-> y.targets, seen |-> y.seen]
  BY DEF AddTarget
<1> HIDE DEF y
<1>2. /\ Len(x.targets) \in Nat
      /\ y.targets \in Seq(ClientTarget)
      /\ DOMAIN x.targets = 1..Len(x.targets)
      /\ DOMAIN y.targets = 1..Len(x.targets) + 1
      /\ \A i \in DOMAIN x.targets : y.targets[i] = x.targets[i]
      /\ y.targets[Len(x.targets) + 1] = t
  BY <1>1 DEF IndexInv
<1>3. /\ DOMAIN y.seen = DOMAIN x.seen \cup {key}
      /\ y.seen \in [DOMAIN y.seen -> DOMAIN y.targets]
  BY <1>1, <1>2 DEF IndexInv
<1>4. \A i \in DOMAIN y.targets : i \in DOMAIN x.targets \/ i = Len(x.targets) + 1
  BY <1>2
<1>5. \A i \in DOMAIN y.targets : KeyOf(y.targets[i]) \in DOMAIN y.seen
  BY <1>2, <1>3, <1>4, Zenon DEF IndexInv
<1>6. \A i, j \in DOMAIN y.targets : KeyOf(y.targets[i]) = KeyOf(y.targets[j]) => i = j
  <2>1. \A i \in DOMAIN x.targets : KeyOf(y.targets[i]) # key
    BY <1>2, Zenon DEF IndexInv, Seen
  <2>2. KeyOf(y.targets[Len(x.targets) + 1]) = key
    BY <1>2, Zenon
  <2>3. \A i, j \in DOMAIN x.targets : KeyOf(y.targets[i]) = KeyOf(y.targets[j]) => i = j
    BY <1>2, Zenon DEF IndexInv
  <2>4. QED
    BY <1>4, <2>1, <2>2, <2>3, Zenon
<1>7. \A i \in DOMAIN y.targets :
        y.targets[i].component = "llite" =>
          y.targets[i].stats # NoPath /\ y.targets[i].rpc_stats = NoPath
  BY <1>2, <1>4, Zenon DEF IndexInv
<1>8. \A k \in DOMAIN y.seen : KeyOf(y.targets[y.seen[k]]) = k
  <2>1. y.seen[key] = Len(x.targets) + 1
    BY <1>1, <1>3, Zenon
  <2>2. \A k \in DOMAIN x.seen :
          /\ k # key
          /\ y.seen[k] = x.seen[k]
          /\ x.seen[k] \in DOMAIN x.targets
    <3>1. \A k \in DOMAIN x.seen : k # key /\ x.seen[k] \in DOMAIN x.targets
      BY DEF IndexInv, Seen
    <3>2. \A k \in DOMAIN x.seen : k # key => y.seen[k] = x.seen[k]
      BY <1>1, Zenon
    <3>3. QED
      BY <3>1, <3>2, Zenon
  <2>3. KeyOf(y.targets[y.seen[key]]) = key
    BY <1>2, <2>1
  <2>4. \A k \in DOMAIN x.seen : KeyOf(y.targets[y.seen[k]]) = KeyOf(x.targets[x.seen[k]])
    BY <1>2, <2>2, Zenon
  <2>5. \A k \in DOMAIN x.seen : KeyOf(y.targets[y.seen[k]]) = k
    BY <2>4, Zenon DEF IndexInv
  <2>6. QED
    BY <1>3, <2>3, <2>5, Zenon
<1>9. DOMAIN y.seen \subseteq Keys
  BY <1>3, Zenon DEF IndexInv
<1>10. QED
  BY <1>1, <1>2, <1>3, <1>5, <1>6, <1>7, <1>8, <1>9, Zenon DEF IndexInv, y

\* A match of a pattern.
LEMMA AddMatchInv ==
  ASSUME NEW x, IndexInv(x), NEW p \in SearchPattern, NEW name \in Names
  PROVE  IndexInv(AddMatch(x, p, name))
<1> DEFINE key == <<p.component, name>>
<1>1. /\ p.component \in Components /\ p.root \in RootNames /\ p.root # NoPath
      /\ p.file = "rpc_stats" => p.component # "llite"
      /\ p.file \in {"stats", "rpc_stats"}
  BY DiscoveryAssumption DEF SearchPattern, Pattern
<1>2. key \in Keys
  BY <1>1 DEF Keys
<1>3. CASE p.file = "stats"
  <2> DEFINE t == [component |-> p.component, name |-> name,
                   stats |-> p.root, rpc_stats |-> NoPath]
  <2>1. t \in ClientTarget
    BY <1>1 DEF ClientTarget
  <2>2. KeyOf(t) = key /\ t.stats # NoPath /\ t.rpc_stats = NoPath
    BY <1>1 DEF KeyOf
  <2>3. AddMatch(x, p, name) = IF Seen(x, key) THEN x ELSE AddTarget(x, key, t)
    BY <1>3 DEF AddMatch, AddStats
  <2> HIDE DEF t, key
  <2>4. QED
    BY <1>2, <2>1, <2>2, <2>3, AddTargetInv, Zenon
<1>4. CASE p.file = "rpc_stats"
  <2> DEFINE t == [component |-> p.component, name |-> name,
                   stats |-> NoPath, rpc_stats |-> p.root]
             i == x.seen[key]
             y == [x EXCEPT !.targets[i].rpc_stats = p.root]
  <2>1. t \in ClientTarget
    BY <1>1 DEF ClientTarget
  <2>2. KeyOf(t) = key /\ t.component # "llite"
    BY <1>1, <1>4 DEF KeyOf
  <2>3. AddMatch(x, p, name) =
          IF ~Seen(x, key) THEN AddTarget(x, key, t)
          ELSE IF x.targets[i].rpc_stats # NoPath THEN x ELSE y
    BY <1>4 DEF AddMatch, AddRPCStats
  <2>4. CASE ~Seen(x, key)
    <3> HIDE DEF t, key
    <3>1. QED
      BY <1>2, <2>1, <2>2, <2>3, <2>4, AddTargetInv, Zenon
  <2>5. CASE Seen(x, key)
    <3>1. /\ x.targets \in Seq(ClientTarget)
          /\ i \in DOMAIN x.targets
          /\ x.targets[i] \in ClientTarget
      BY <2>5 DEF IndexInv, Seen
    <3> DEFINE u == [x.targets[i] EXCEPT !.rpc_stats = p.root]
    <3>2. /\ u \in ClientTarget
          /\ KeyOf(u) = KeyOf(x.targets[i])
          /\ u.component = x.targets[i].component
      BY <1>1, <3>1 DEF ClientTarget, KeyOf
    <3>3. y = [targets |-> [x.targets EXCEPT ![i] = u], seen |-> x.seen]
      <4>1. x = [targets |-> x.targets, seen |-> x.seen]
        BY Zenon DEF IndexInv
      <4>2. y = [x EXCEPT !.targets = [x.targets EXCEPT ![i] = u]]
        BY NestedUpdate, Zenon
      <4> HIDE DEF y, u, i
      <4>3. QED
        BY <4>1, <4>2
    <3>4. /\ y.targets \in Seq(ClientTarget)
          /\ DOMAIN y.targets = DOMAIN x.targets
          /\ y.seen = x.seen
          /\ y = [targets |-> y.targets, seen |-> y.seen]
          /\ \A j \in DOMAIN y.targets : y.targets[j] = IF j = i THEN u ELSE x.targets[j]
      <4>1. y.targets = [x.targets EXCEPT ![i] = u] /\ y.seen = x.seen
        BY <3>3
      <4>2. y = [targets |-> y.targets, seen |-> y.seen]
        BY <3>3, <4>1, Zenon
      <4> HIDE DEF y, u, i
      <4>3. /\ [x.targets EXCEPT ![i] = u] \in Seq(ClientTarget)
            /\ DOMAIN [x.targets EXCEPT ![i] = u] = DOMAIN x.targets
            /\ \A j \in DOMAIN x.targets :
                 [x.targets EXCEPT ![i] = u][j] = IF j = i THEN u ELSE x.targets[j]
        BY <3>1, <3>2
      <4>4. QED
        BY <4>1, <4>2, <4>3, Zenon
    <3> HIDE DEF y, u
    <3>5. \A j \in DOMAIN y.targets :
            /\ KeyOf(y.targets[j]) = KeyOf(x.targets[j])
            /\ y.targets[j].component = x.targets[j].component
      BY <3>2, <3>4, Zenon
    <3>6. x.targets[i].component # "llite"
      <4>1. KeyOf(x.targets[i]) = key
        BY <2>5, Zenon DEF IndexInv, Seen
      <4>2. QED
        BY <1>1, <1>4, <4>1 DEF KeyOf
    <3>7. IndexInv(y)
      <4>1. /\ y.seen \in [DOMAIN y.seen -> DOMAIN y.targets]
            /\ DOMAIN y.seen \subseteq Keys
        BY <3>4, Zenon DEF IndexInv
      <4>2. \A j \in DOMAIN y.targets : KeyOf(y.targets[j]) \in DOMAIN y.seen
        BY <3>4, <3>5, Zenon DEF IndexInv
      <4>3. \A k \in DOMAIN y.seen : KeyOf(y.targets[y.seen[k]]) = k
        BY <3>4, <3>5, <4>1, Zenon DEF IndexInv
      <4>4. \A j, n \in DOMAIN y.targets : KeyOf(y.targets[j]) = KeyOf(y.targets[n]) => j = n
        BY <3>4, <3>5, Zenon DEF IndexInv
      <4>5. ASSUME NEW j \in DOMAIN y.targets, y.targets[j].component = "llite"
            PROVE  y.targets[j].stats # NoPath /\ y.targets[j].rpc_stats = NoPath
        <5>1. x.targets[j].component = "llite" /\ j \in DOMAIN x.targets
          BY <3>4, <3>5, <4>5, Zenon
        <5>2. j # i
          BY <3>6, <5>1
        <5>3. y.targets[j] = x.targets[j]
          BY <3>4, <4>5, <5>2, Zenon
        <5>4. QED
          BY <5>1, <5>3, Zenon DEF IndexInv
      <4>6. QED
        BY <3>4, <4>1, <4>2, <4>3, <4>4, <4>5, Zenon DEF IndexInv
    <3>8. QED
      BY <2>3, <2>5, <3>7, Zenon
  <2>6. QED
    BY <2>4, <2>5
<1>5. QED
  BY <1>1, <1>3, <1>4, Zenon

-----------------------------------------------------------------------------
(* Types.                                                                  *)

HostOK ==
  /\ strict \in BOOLEAN
  /\ mounted \subseteq Keys
  /\ changes \in 0..MaxChanges
  /\ expired \in BOOLEAN

IndexOK ==
  /\ pattern \in 1..Len(Patterns) + 1
  /\ matches \subseteq Names
  /\ matches # {} => pattern > 1
  /\ IndexInv(idx)
  /\ globbed \in [Pattern -> SUBSET Names]

\* Where the run is: it has no target before discovery is over, and always one
\* whose files it reads.
LoopOK ==
  /\ pc \in {"glob", "ldlm", "stats", "rpc_stats", "params", "returned"}
  /\ target \in 1..Len(idx.targets) + 1
  /\ pc \in {"glob", "ldlm"} => target = 1
  /\ pc \in {"rpc_stats", "params"} => target \in 1..Len(idx.targets)
  /\ pc \in {"glob", "ldlm", "stats", "rpc_stats"} => param = 1
  /\ pc = "params" => param \in 1..Len(Params) + 1
  /\ root \in DOMAIN ParamRoots

ResultOK ==
  /\ obs \subseteq Source
  /\ garbled \in BOOLEAN
  /\ err \in BOOLEAN
  /\ failed \subseteq Source \X (Outcomes \ Parsed)

TypeInv == HostOK /\ IndexOK /\ LoopOK /\ ResultOK

\* TypeInv is the type invariant, with what it rests on.
LEMMA TypeInvImpliesTypeOK ==
  ASSUME TypeInv
  PROVE  TypeOK
<1>1. HostOK /\ IndexOK /\ LoopOK /\ ResultOK
  BY Zenon DEF TypeInv
<1>2. matches \subseteq Names /\ (matches # {} => pattern > 1)
  BY <1>1, Zenon DEF IndexOK
<1>3. /\ idx.targets \in Seq(ClientTarget)
      /\ idx.seen \in [DOMAIN idx.seen -> DOMAIN idx.targets]
      /\ DOMAIN idx.seen \subseteq Keys
  BY <1>1, Zenon DEF IndexOK, IndexInv
<1>4. QED
  BY <1>1, <1>2, <1>3, Zenon DEF TypeOK, HostOK, IndexOK, LoopOK, ResultOK

\* The target the run is at.
LEMMA CurrentType ==
  ASSUME IndexOK, target \in 1..Len(idx.targets)
  PROVE  /\ Current \in ClientTarget
         /\ Current.component \in Components
         /\ Current.name \in Names
         /\ Params \in Seq(STRING)
<1>1. idx.targets \in Seq(ClientTarget)
  BY Zenon DEF IndexOK, IndexInv
<1>2. Current \in ClientTarget
  BY <1>1, ElementType, Zenon DEF Current
<1>3. Current.component \in Components /\ Current.name \in Names
  BY <1>2 DEF ClientTarget
<1>4. Params \in Seq(STRING)
  BY <1>3, ClientAssumption, Zenon DEF Params
<1>5. QED
  BY <1>2, <1>3, <1>4

\* The numbers of targets, parameters and patterns.
LEMMA Lengths ==
  ASSUME IndexOK
  PROVE  /\ Len(idx.targets) \in Nat
         /\ Len(Patterns) \in Nat
         /\ target \in 1..Len(idx.targets) => Len(Params) \in Nat
<1>1. idx.targets \in Seq(ClientTarget)
  BY Zenon DEF IndexOK, IndexInv
<1>2. QED
  BY <1>1, CurrentType, PatternsType, ElementType, Zenon

\* A parameter of a target is one of the files.
LEMMA ParamType ==
  ASSUME IndexOK, target \in 1..Len(idx.targets), NEW i \in 1..Len(Params)
  PROVE  Params[i] \in FileNames /\ Params[i] \in ToSet(Params) /\ i \in DOMAIN Params
<1>1. Current.component \in Components /\ Params \in Seq(STRING)
  BY CurrentType
<1>2. i \in DOMAIN Params
  BY <1>1, ElementType, Zenon
<1>3. Params[i] \in ToSet(Params)
  BY <1>2, Zenon DEF ToSet
<1>4. ToSet(Params) \in {ToSet(ParamFiles[component]) : component \in Components}
  BY <1>1, Zenon DEF Params
<1>5. QED
  BY <1>2, <1>3, <1>4, Zenon DEF FileNames

\* No parameter file is called like a statistics file.
LEMMA ParamNotStats ==
  ASSUME IndexOK, target \in 1..Len(idx.targets), NEW i \in 1..Len(Params)
  PROVE  Params[i] \notin {"stats", "rpc_stats"}
<1>1. Current.component \in Components /\ Params \in Seq(STRING)
  BY CurrentType
<1>2. i \in DOMAIN Params
  BY <1>1, ElementType, Zenon
<1>3. Params[i] \notin {"stats", "rpc_stats", "ldlm_cbd", "glob"}
  BY <1>1, <1>2, ParamAssumption, Zenon DEF Params
<1>4. QED
  BY <1>3, Zenon

\* The sources.
LEMMA SourceType ==
  /\ \A t \in ClientTarget : \A file \in FileNames : SourceOf(t, file) \in Source
  /\ LDLM \in Source
  /\ Globs \in Source
BY DEF SourceOf, LDLM, Globs, Source, ClientTarget

\* A read, of whatever source, is a failure or none.
LEMMA ReadType ==
  ASSUME HostOK, ResultOK, NEW s \in Source, NEW e, NEW o \in Outcomes, Read(s, e, o)
  PROVE  /\ expired' \in BOOLEAN
         /\ failed \subseteq failed'
         /\ failed' \subseteq Source \X (Outcomes \ Parsed)
         /\ o \in Parsed => failed' = failed
         /\ o \notin Parsed => failed' = failed \cup {<<s, o>>}
<1>1. expired' \in BOOLEAN
  BY Zenon DEF Read
<1>2. failed' = IF o \in Parsed THEN failed ELSE failed \cup {<<s, o>>}
  BY Zenon DEF Read
<1>3. failed \subseteq Source \X (Outcomes \ Parsed)
  BY Zenon DEF ResultOK
<1>4. o \notin Parsed => <<s, o>> \in Source \X (Outcomes \ Parsed)
  BY Zenon
<1>5. QED
  BY <1>1, <1>2, <1>3, <1>4, Zenon

\* The first states.
LEMMA InitTypeInv ==
  ASSUME Init
  PROVE  TypeInv
<1>1. HostOK
  <2> DEFINE all == {<<f.component, f.name>> : f \in Layout}
  <2>1. all \subseteq Keys /\ mounted \in SUBSET all
    BY ClientAssumption DEF File, Keys, Init
  <2> HIDE DEF all
  <2>2. mounted \subseteq Keys
    BY <2>1
  <2>3. strict \in BOOLEAN /\ expired \in BOOLEAN /\ changes = 0
    BY Zenon DEF Init
  <2>4. 0 \in 0..MaxChanges
    <3>1. MaxChanges \in Nat
      BY ClientAssumption, Zenon
    <3>2. QED
      BY <3>1
  <2>5. QED
    BY <2>2, <2>3, <2>4, Zenon DEF HostOK
<1>2. IndexOK
  <2>1. Len(Patterns) \in Nat
    BY PatternsType, ElementType, Zenon
  <2>2. 1 \in 1..Len(Patterns) + 1
    BY <2>1
  <2>3. QED
    BY <2>2, NewIndexInv, Zenon DEF Init, IndexOK
<1>3. LoopOK
  <2>1. Len(idx.targets) = 0
    BY DEF Init, NewIndex
  <2>2. target = 1 /\ param = 1 /\ root = 1 /\ pc = "glob"
    BY DEF Init
  <2>3. QED
    BY <2>1, <2>2 DEF LoopOK, ParamRoots
<1>4. ResultOK
  BY DEF Init, ResultOK
<1>5. QED
  BY <1>1, <1>2, <1>3, <1>4, Zenon DEF TypeInv

\* What a step does to the host and the clock.
LEMMA HostStep ==
  ASSUME TypeInv, [Next]_vars
  PROVE  HostOK'
<1>1. HostOK /\ ResultOK
  BY Zenon DEF TypeInv
<1>2. ASSUME NEW key \in {<<f.component, f.name>> : f \in Layout}, Remount(key)
      PROVE  HostOK'
  <2>1. key \in Keys
    BY <1>2, ClientAssumption DEF File, Keys
  <2>2. changes' \in 0..MaxChanges
    BY <1>1, <1>2, ClientAssumption DEF HostOK, Remount
  <2>3. QED
    BY <1>1, <1>2, <2>1, <2>2 DEF HostOK, Remount
<1>3. ASSUME Expire \/ Glob \/ (\E name \in Names : Index(name)) \/ EndDiscovery
               \/ SkipStats \/ SkipRPCStats \/ EndTarget \/ Return \/ UNCHANGED vars
      PROVE  HostOK'
  BY <1>1, <1>3 DEF HostOK, Expire, Glob, Index, EndDiscovery, SkipStats, SkipRPCStats,
     EndTarget, Return, vars, hostVars
<1>4. ASSUME UNCHANGED <<strict, hostVars>>, NEW s, NEW e, NEW o, Read(s, e, o)
      PROVE  HostOK'
  <2>1. expired' \in BOOLEAN
    BY <1>4, Zenon DEF Read
  <2>2. QED
    BY <1>1, <1>4, <2>1 DEF HostOK, hostVars
<1>5. ASSUME NEW o, GlobFails(o)
      PROVE  HostOK'
  BY <1>4, <1>5, Zenon DEF GlobFails
<1>6. ASSUME NEW o, ReadLDLM(o)
      PROVE  HostOK'
  BY <1>4, <1>6, Zenon DEF ReadLDLM
<1>7. ASSUME NEW o, ReadStats(o) \/ ReadRPCStats(o) \/ ReadParam(o)
      PROVE  HostOK'
  BY <1>4, <1>7, Zenon DEF ReadStats, ReadRPCStats, ReadParam, ReadOf
<1>8. QED
  BY <1>2, <1>3, <1>5, <1>6, <1>7, Zenon DEF Next, Quiescent

\* What a step does to the index.
LEMMA IndexStep ==
  ASSUME TypeInv, [Next]_vars
  PROVE  IndexOK'
<1>1. IndexOK
  BY Zenon DEF TypeInv
<1>2. CASE UNCHANGED discoveryVars
  BY <1>1, <1>2, Zenon DEF IndexOK, discoveryVars
<1>3. CASE Glob
  <2>1. Len(Patterns) \in Nat /\ pattern \in 1..Len(Patterns)
    BY <1>1, <1>3, Lengths DEF IndexOK, Glob
  <2>2. Found(Patterns[pattern]) \subseteq Names
    BY Zenon DEF Found
  <2>3. pattern' \in 1..Len(Patterns) + 1 /\ pattern' > 1
    BY <1>3, <2>1 DEF Glob
  <2>4. globbed' \in [Pattern -> SUBSET Names]
    BY <1>1, <1>3, <2>2 DEF Glob, IndexOK
  <2>5. QED
    BY <1>1, <1>3, <2>2, <2>3, <2>4, Zenon DEF IndexOK, Glob
<1>4. ASSUME NEW o, GlobFails(o)
      PROVE  IndexOK'
  <2>1. Len(Patterns) \in Nat /\ pattern \in 1..Len(Patterns)
    BY <1>1, <1>4, Lengths DEF IndexOK, GlobFails
  <2>2. pattern' \in 1..Len(Patterns) + 1 /\ pattern' > 1
    BY <1>4, <2>1 DEF GlobFails
  <2>3. QED
    BY <1>1, <1>4, <2>2, Zenon DEF IndexOK, GlobFails
<1>5. ASSUME NEW name \in Names, Index(name)
      PROVE  IndexOK'
  <2>1. pattern - 1 \in 1..Len(Patterns)
    BY <1>1, <1>5, Lengths DEF IndexOK, Index
  <2>2. Patterns[pattern - 1] \in SearchPattern
    BY <2>1, PatternsType, ElementType, Zenon
  <2>3. IndexInv(idx')
    BY <1>1, <1>5, <2>2, AddMatchInv, Zenon DEF IndexOK, Index
  <2>4. matches' \subseteq Names /\ (matches' # {} => pattern' > 1)
    BY <1>1, <1>5 DEF IndexOK, Index
  <2>5. QED
    BY <1>1, <1>5, <2>3, <2>4, Zenon DEF IndexOK, Index
<1>6. CASE ~(UNCHANGED discoveryVars)
  <2>1. Glob \/ (\E o : GlobFails(o)) \/ (\E name \in Names : Index(name))
    BY <1>6, Zenon DEF Next, vars, Remount, Expire, EndDiscovery, SkipStats, SkipRPCStats,
       ReadLDLM, ReadStats, ReadRPCStats, ReadParam, EndTarget, Return, Quiescent
  <2>2. QED
    BY <2>1, <1>3, <1>4, <1>5, Zenon
<1>7. QED
  BY <1>2, <1>6, Zenon

\* What a step does to the place of the run that goes on with some target.
LEMMA NextTargetType ==
  ASSUME TypeInv, NEW t \in 1..Len(idx.targets) + 1, NextTarget(t), UNCHANGED idx
  PROVE  LoopOK'
BY DEF NextTarget, LoopOK, ParamRoots

\* A run that has returned is nowhere.
LEMMA ReturnedType ==
  ASSUME LoopOK, IndexOK, pc' = "returned", UNCHANGED loopVars, UNCHANGED idx
  PROVE  LoopOK'
BY DEF LoopOK, loopVars

\* A run that goes on with the next kind of files of its target.
LEMMA NextStageType ==
  ASSUME LoopOK, IndexOK, target \in 1..Len(idx.targets), param = 1,
         pc' \in {"rpc_stats", "params"}, UNCHANGED loopVars, UNCHANGED idx
  PROVE  LoopOK'
<1>1. Params' = Params
  BY Zenon DEF Params, Current, loopVars
<1>2. 1 \in 1..Len(Params) + 1
  BY Lengths
<1>3. pc' = "params" => param' \in 1..Len(Params') + 1
  BY <1>1, <1>2, Zenon DEF loopVars
<1>4. QED
  BY <1>3 DEF LoopOK, loopVars

\* A strict run fails, a lenient one goes on.
LEMMA StrictErrorType ==
  ASSUME TypeInv, target \in 1..Len(idx.targets), param = 1,
         NEW stage \in {"next target", "rpc_stats", "params"},
         StrictError(stage), UNCHANGED idx
  PROVE  LoopOK'
<1>1. LoopOK /\ IndexOK
  BY Zenon DEF TypeInv
<1>2. CASE Fail
  BY <1>1, <1>2, ReturnedType, Zenon DEF Fail
<1>3. CASE NextTarget(target + 1)
  <2>1. target + 1 \in 1..Len(idx.targets) + 1
    BY <1>1, Lengths, NextIndex, Zenon
  <2>2. QED
    BY <1>3, <2>1, NextTargetType, Zenon
<1>4. CASE stage \in {"rpc_stats", "params"} /\ pc' = stage /\ UNCHANGED loopVars
  BY <1>1, <1>4, NextStageType, Zenon
<1>5. stage = "next target" \/ stage \in {"rpc_stats", "params"}
  BY Zenon
<1>6. QED
  BY <1>2, <1>3, <1>4, <1>5, Zenon DEF StrictError

\* What a step does to the place of the run.
LEMMA LoopStep ==
  ASSUME TypeInv, [Next]_vars
  PROVE  LoopOK'
<1>1. LoopOK /\ IndexOK /\ IndexOK'
  BY IndexStep, Zenon DEF TypeInv
<1>2. CASE UNCHANGED <<pc, idx, loopVars>>
  <2>1. Params' = Params
    BY <1>2, Zenon DEF Params, Current, loopVars
  <2>2. UNCHANGED <<pc, target, param, root, idx>>
    BY <1>2, Zenon DEF loopVars
  <2>3. pc' = "params" => param' \in 1..Len(Params') + 1
    BY <1>1, <2>1, <2>2, Zenon DEF LoopOK
  <2>4. QED
    BY <1>1, <2>2, <2>3, Zenon DEF LoopOK
<1>3. ASSUME NEW name \in Names, Index(name)
      PROVE  LoopOK'
  <2>1. Len(idx'.targets) \in Nat
    <3>1. idx'.targets \in Seq(ClientTarget)
      BY <1>1, Zenon DEF IndexOK, IndexInv
    <3>2. QED
      BY <3>1, ElementType, Zenon
  <2>2. pc' = "glob" /\ target' = 1 /\ param' = 1 /\ root' = root
    BY <1>1, <1>3 DEF Index, LoopOK, loopVars
  <2>3. target' \in 1..Len(idx'.targets) + 1
    BY <2>1, <2>2
  <2>4. QED
    BY <1>1, <2>2, <2>3 DEF LoopOK
<1>4. CASE EndDiscovery
  BY <1>1, <1>4 DEF EndDiscovery, LoopOK, discoveryVars, loopVars
<1>5. 1 \in 1..Len(idx.targets) + 1 /\ target \in 1..Len(idx.targets) + 1
  BY <1>1, Lengths DEF LoopOK
<1>6. ASSUME NEW o, ReadLDLM(o)
      PROVE  LoopOK'
  <2>1. pc = "ldlm" /\ UNCHANGED idx
    BY <1>6 DEF ReadLDLM, discoveryVars
  <2>2. \/ root' = 2 /\ UNCHANGED <<pc, target, param>>
        \/ NextTarget(1)
        \/ Fail
    BY <1>6, Zenon DEF ReadLDLM
  <2>3. CASE root' = 2 /\ UNCHANGED <<pc, target, param>>
    BY <1>1, <2>1, <2>3 DEF LoopOK, ParamRoots
  <2>4. QED
    BY <1>1, <1>5, <2>1, <2>2, <2>3, NextTargetType, ReturnedType, Zenon DEF Fail
<1>7. ASSUME NEW o, ReadStats(o)
      PROVE  LoopOK'
  <2>1. pc = "stats" /\ target <= Len(idx.targets) /\ UNCHANGED idx
    BY <1>7, Zenon DEF ReadStats, AtTarget, discoveryVars
  <2>2. target \in 1..Len(idx.targets) /\ param = 1
    <3>1. param = 1
      BY <1>1, <2>1 DEF LoopOK
    <3>2. QED
      BY <1>1, <2>1, <3>1, Lengths, IndexBelow, Zenon DEF LoopOK
  <2>3. \/ pc' \in {"params", "rpc_stats"} /\ UNCHANGED loopVars
        \/ StrictError(AfterBadStats)
    BY <1>7, Zenon DEF ReadStats
  <2>4. AfterBadStats \in {"next target", "rpc_stats", "params"}
    BY Zenon DEF AfterBadStats
  <2>5. QED
    BY <1>1, <2>1, <2>2, <2>3, <2>4, NextStageType, StrictErrorType, Zenon
<1>8. ASSUME NEW o, ReadRPCStats(o)
      PROVE  LoopOK'
  <2>1. pc = "rpc_stats" /\ UNCHANGED idx
    BY <1>8, Zenon DEF ReadRPCStats, AtTarget, discoveryVars
  <2>2. target \in 1..Len(idx.targets) /\ param = 1
    BY <1>1, <2>1 DEF LoopOK
  <2>3. \/ pc' = "params" /\ UNCHANGED loopVars
        \/ StrictError("params")
    BY <1>8, Zenon DEF ReadRPCStats
  <2>4. QED
    BY <1>1, <2>1, <2>2, <2>3, NextStageType, StrictErrorType, Zenon
<1>9. CASE SkipStats
  <2>1. pc = "stats" /\ target <= Len(idx.targets)
    BY <1>9, Zenon DEF SkipStats, AtTarget
  <2>2. target \in 1..Len(idx.targets) /\ param = 1
    <3>1. param = 1
      BY <1>1, <2>1 DEF LoopOK
    <3>2. QED
      BY <1>1, <2>1, <3>1, Lengths, IndexBelow, Zenon DEF LoopOK
  <2>3. pc' = "rpc_stats" /\ UNCHANGED loopVars /\ UNCHANGED idx
    BY <1>9, Zenon DEF SkipStats, discoveryVars
  <2>4. QED
    BY <1>1, <2>2, <2>3, NextStageType, Zenon
<1>10. CASE SkipRPCStats
  <2>1. pc = "rpc_stats" /\ pc' = "params" /\ UNCHANGED loopVars /\ UNCHANGED idx
    BY <1>10, Zenon DEF SkipRPCStats, AtTarget, discoveryVars
  <2>2. target \in 1..Len(idx.targets) /\ param = 1
    BY <1>1, <2>1 DEF LoopOK
  <2>3. QED
    BY <1>1, <2>1, <2>2, NextStageType, Zenon
<1>11. ASSUME NEW o, ReadParam(o)
       PROVE  LoopOK'
  <2>1. /\ pc = "params" /\ param <= Len(Params)
        /\ UNCHANGED idx
    BY <1>11, Zenon DEF ReadParam, AtTarget, discoveryVars
  <2>2. target \in 1..Len(idx.targets) /\ param \in 1..Len(Params) + 1 /\ Len(Params) \in Nat
    BY <1>1, <2>1, Lengths, Zenon DEF LoopOK
  <2>3. param \in 1..Len(Params)
    BY <2>1, <2>2, IndexBelow, Zenon
  <2>4. \/ /\ root < Len(ParamRoots) /\ root' = root + 1
           /\ UNCHANGED <<pc, target, param>>
        \/ NextParam
        \/ Fail
    BY <1>11, Zenon DEF ReadParam
  <2>5. UNCHANGED target => Params' = Params
    BY <2>1, Zenon DEF Params, Current
  <2>6. CASE /\ root < Len(ParamRoots) /\ root' = root + 1
             /\ UNCHANGED <<pc, target, param>>
    <3>1. root' \in DOMAIN ParamRoots
      BY <1>1, <2>6 DEF LoopOK, ParamRoots
    <3>2. UNCHANGED <<pc, target, param, idx, Params>>
      BY <2>1, <2>5, <2>6, Zenon
    <3>3. QED
      BY <1>1, <3>1, <3>2, Zenon DEF LoopOK
  <2>7. CASE NextParam
    <3>1. UNCHANGED <<pc, target, idx, Params>>
      BY <2>1, <2>5, <2>7, Zenon DEF NextParam
    <3>2. param' \in 1..Len(Params) + 1
      BY <2>2, <2>3, <2>7, NextIndex, Zenon DEF NextParam
    <3>3. root' \in DOMAIN ParamRoots
      BY <2>7 DEF NextParam, ParamRoots
    <3>4. pc' = "params"
      BY <2>1, <3>1, Zenon
    <3>5. pc' \notin {"glob", "ldlm", "stats", "rpc_stats"}
      BY <3>4
    <3>6. target' \in 1..Len(idx'.targets) + 1 /\ target' \in 1..Len(idx'.targets)
      BY <1>1, <2>2, <3>1, Zenon DEF LoopOK
    <3>7. QED
      BY <3>1, <3>2, <3>3, <3>4, <3>5, <3>6 DEF LoopOK
  <2>8. QED
    BY <1>1, <2>1, <2>4, <2>6, <2>7, ReturnedType, Zenon DEF Fail
<1>12. CASE EndTarget
  <2>1. pc = "params" /\ NextTarget(target + 1) /\ UNCHANGED idx
    BY <1>12, Zenon DEF EndTarget, AtTarget, discoveryVars
  <2>2. target \in 1..Len(idx.targets)
    BY <1>1, <2>1 DEF LoopOK
  <2>3. target + 1 \in 1..Len(idx.targets) + 1
    BY <1>1, <2>2, Lengths, NextIndex, Zenon
  <2>4. QED
    BY <2>1, <2>3, NextTargetType, Zenon
<1>13. CASE Return
  BY <1>1, <1>13, ReturnedType, Zenon DEF Return, Emit, discoveryVars
<1>14. CASE \/ \E key \in {<<f.component, f.name>> : f \in Layout} : Remount(key)
            \/ Expire \/ Glob \/ (\E o : GlobFails(o)) \/ UNCHANGED vars
  BY <1>2, <1>14, Zenon DEF Remount, Expire, Glob, GlobFails, vars, discoveryVars
<1>15. QED
  BY <1>3, <1>4, <1>6, <1>7, <1>8, <1>9, <1>10, <1>11, <1>12, <1>13, <1>14, Zenon
     DEF Next, Quiescent

\* The file that a run reads is a source.
LEMMA ReadingType ==
  ASSUME TypeInv
  PROVE  /\ \A o : ReadStats(o) => SourceOf(Current, "stats") \in Source
         /\ \A o : ReadRPCStats(o) => SourceOf(Current, "rpc_stats") \in Source
         /\ \A o : ReadParam(o) =>
              /\ SourceOf(Current, Params[param]) \in Source
              /\ param \in 1..Len(Params)
              /\ Params[param] \in FileNames
         /\ \A o : ReadStats(o) \/ ReadRPCStats(o) \/ ReadParam(o) =>
              target \in 1..Len(idx.targets)
<1>1. IndexOK /\ LoopOK
  BY Zenon DEF TypeInv
<1>2. \A o : ReadStats(o) \/ ReadRPCStats(o) \/ ReadParam(o) => target \in 1..Len(idx.targets)
  <2>1. \A o : ReadStats(o) \/ ReadRPCStats(o) \/ ReadParam(o) => target <= Len(idx.targets)
    BY Zenon DEF ReadStats, ReadRPCStats, ReadParam, AtTarget
  <2>2. QED
    BY <1>1, <2>1, Lengths, IndexBelow, Zenon DEF LoopOK
<1>3. target \in 1..Len(idx.targets) =>
        /\ Current \in ClientTarget
        /\ Params \in Seq(STRING)
        /\ Len(Params) \in Nat
  BY <1>1, CurrentType, Lengths, Zenon
<1>4. "stats" \in FileNames /\ "rpc_stats" \in FileNames
  BY DEF FileNames
<1>5. ASSUME NEW o, ReadParam(o)
      PROVE  param \in 1..Len(Params) /\ Params[param] \in FileNames
  <2>1. pc = "params" /\ param <= Len(Params)
    BY <1>5, Zenon DEF ReadParam, AtTarget
  <2>2. param \in 1..Len(Params) + 1
    BY <1>1, <2>1, Zenon DEF LoopOK
  <2>3. param \in 1..Len(Params)
    BY <1>2, <1>3, <1>5, <2>1, <2>2, IndexBelow, Zenon
  <2>4. QED
    BY <1>1, <1>2, <1>5, <2>3, ParamType, Zenon
<1>6. QED
  BY <1>2, <1>3, <1>4, <1>5, SourceType, Zenon

\* What is observed is a source.
LEMMA ObserveType ==
  ASSUME ResultOK, NEW s \in Source, NEW o, Observe(s, o)
  PROVE  /\ obs' = obs \cup {s}
         /\ obs' \subseteq Source
         /\ garbled' \in BOOLEAN
         /\ err' = err
<1>1. obs' = obs \cup {s} /\ err' = err
  BY Zenon DEF Observe
<1>2. obs' \subseteq Source
  BY <1>1 DEF ResultOK
<1>3. garbled' \in BOOLEAN
  BY Zenon DEF Observe
<1>4. QED
  BY <1>1, <1>2, <1>3, Zenon

\* What a read of a source does to the results.
LEMMA ReadResultType ==
  ASSUME HostOK, ResultOK, NEW s \in Source, NEW e, NEW o \in Outcomes, Read(s, e, o),
         Observe(s, o) \/ UNCHANGED resultVars \/ Fail
  PROVE  ResultOK'
<1>1. failed' \subseteq Source \X (Outcomes \ Parsed)
  BY ReadType, Zenon
<1>2. CASE Observe(s, o)
  BY <1>1, <1>2, ObserveType, Zenon DEF ResultOK
<1>3. CASE UNCHANGED resultVars
  BY <1>1, <1>3, Zenon DEF ResultOK, resultVars
<1>4. CASE Fail
  <2>1. obs' = {} /\ err' \in BOOLEAN /\ garbled' = garbled
    BY <1>4, Zenon DEF Fail
  <2>2. QED
    BY <1>1, <2>1, Zenon DEF ResultOK
<1>5. QED
  BY <1>2, <1>3, <1>4, Zenon

\* A strict run fails, and a lenient one keeps its results.
LEMMA StrictErrorResult ==
  ASSUME NEW stage, StrictError(stage)
  PROVE  UNCHANGED resultVars \/ Fail
BY Zenon DEF StrictError

\* What a step does to the results.
LEMMA ResultStep ==
  ASSUME TypeInv, [Next]_vars
  PROVE  ResultOK'
<1>1. HostOK /\ ResultOK
  BY Zenon DEF TypeInv
<1>2. CASE UNCHANGED <<resultVars, failed>>
  BY <1>1, <1>2, Zenon DEF ResultOK, resultVars
<1>3. ASSUME NEW o \in {"timeout", "refused"}, GlobFails(o)
      PROVE  ResultOK'
  <2>1. o \in Outcomes
    BY DEF Outcomes, Unreadable
  <2>2. QED
    BY <1>1, <1>3, <2>1, SourceType, ReadResultType, Zenon DEF GlobFails
<1>4. ASSUME NEW o \in Outcomes, ReadLDLM(o)
      PROVE  ResultOK'
  BY <1>1, <1>4, SourceType, ReadResultType, Zenon DEF ReadLDLM
<1>5. ASSUME NEW o \in Outcomes, ReadStats(o)
      PROVE  ResultOK'
  BY <1>1, <1>5, ReadingType, StrictErrorResult, ReadResultType, Zenon DEF ReadStats, ReadOf
<1>6. ASSUME NEW o \in Outcomes, ReadRPCStats(o)
      PROVE  ResultOK'
  BY <1>1, <1>6, ReadingType, StrictErrorResult, ReadResultType, Zenon
     DEF ReadRPCStats, ReadOf, resultVars
<1>7. ASSUME NEW o \in Outcomes, ReadParam(o)
      PROVE  ResultOK'
  BY <1>1, <1>7, ReadingType, ReadResultType, Zenon DEF ReadParam, ReadOf
<1>8. CASE Return
  <2>1. /\ obs' = {} \/ obs' = obs
        /\ err' = garbled /\ garbled' = garbled /\ failed' = failed
    BY <1>8, Zenon DEF Return, Emit
  <2>2. QED
    BY <1>1, <2>1 DEF ResultOK
<1>9. CASE \/ \E key \in {<<f.component, f.name>> : f \in Layout} : Remount(key)
           \/ Expire \/ Glob \/ (\E name \in Names : Index(name)) \/ EndDiscovery
           \/ SkipStats \/ SkipRPCStats \/ EndTarget \/ UNCHANGED vars
  BY <1>2, <1>9, Zenon DEF Remount, Expire, Glob, Index, EndDiscovery, SkipStats,
     SkipRPCStats, EndTarget, vars
<1>10. QED
  BY <1>3, <1>4, <1>5, <1>6, <1>7, <1>8, <1>9, Zenon DEF Next, Quiescent

\* A step of the collector keeps the type invariant.
LEMMA TypeInvStep ==
  ASSUME TypeInv, [Next]_vars
  PROVE  TypeInv'
BY HostStep, IndexStep, LoopStep, ResultStep, Zenon DEF TypeInv

\* The variables of the client collector keep their types, and it is never at a
\* target or a parameter that its lists do not have (client.go:60-91, 254-270).
THEOREM TypeCorrect == Spec => []TypeOK
<1>1. Init => TypeInv
  BY InitTypeInv
<1>2. TypeInv /\ [Next]_vars => TypeInv'
  BY TypeInvStep
<1>3. TypeInv => TypeOK
  BY TypeInvImpliesTypeOK
<1>4. QED
  BY <1>1, <1>2, <1>3, PTL DEF Spec

-----------------------------------------------------------------------------
(* The verdict.                                                            *)

\* The failure of a read is one that docs/metrics.md:792 calls hard.
IsHard(s, o) ==
  \/ o = "malformed"
  \/ s.file = "stats"
  \/ s.file = "rpc_stats" /\ o # "not exist"

\* A run that goes on has no error, and a strict one has met no hard failure.
VerdictInv ==
  /\ pc # "returned" => ~err
  /\ pc # "returned" /\ strict => Hard = {}
  /\ VerdictFollowsTable

\* What one more failure does to the hard ones.
LEMMA HardStep ==
  ASSUME NEW s, NEW o, NEW e, Read(s, e, o)
  PROVE  /\ o \in Parsed => Hard' = Hard
         /\ o \notin Parsed /\ IsHard(s, o) => Hard' # {}
         /\ o \notin Parsed /\ ~IsHard(s, o) => Hard' = Hard
<1>1. /\ o \in Parsed => failed' = failed
      /\ o \notin Parsed => failed' = failed \cup {<<s, o>>}
  BY Zenon DEF Read
<1>2. CASE o \in Parsed
  BY <1>1, <1>2, Zenon DEF Hard
<1>3. CASE o \notin Parsed
  <2> DEFINE f == <<s, o>>
  <2>1. f[1] = s /\ f[2] = o
    OBVIOUS
  <2> HIDE DEF f
  <2>2. IsHard(f[1], f[2]) <=> IsHard(s, o)
    BY <2>1, Zenon
  <2>3. /\ \A x : x \in Hard <=> x \in failed /\ IsHard(x[1], x[2])
        /\ \A x : x \in Hard' <=> x \in failed' /\ IsHard(x[1], x[2])
    BY Zenon DEF Hard, IsHard
  <2>4. failed' = failed \cup {f}
    BY <1>1, <1>3, Zenon DEF f
  <2>5. \A x : x \in Hard' <=> x \in Hard \/ (x = f /\ IsHard(s, o))
    BY <2>2, <2>3, <2>4, Zenon
  <2>6. QED
    BY <1>3, <2>5, Zenon
<1>4. QED
  BY <1>2, <1>3, Zenon

\* A run that goes on after a read.
LEMMA GoesOn ==
  ASSUME VerdictInv, pc # "returned", UNCHANGED <<strict, err>>, pc' # "returned",
         NEW s, NEW o, NEW e, Read(s, e, o), strict => o \in Parsed \/ ~IsHard(s, o)
  PROVE  VerdictInv'
<1>1. strict => Hard' = Hard
  BY HardStep, Zenon
<1>2. ~err' /\ (strict' => Hard' = {})
  BY <1>1, Zenon DEF VerdictInv
<1>3. QED
  BY <1>2, Zenon DEF VerdictInv, VerdictFollowsTable

\* A strict run that fails over a read.
LEMMA Fails ==
  ASSUME strict, UNCHANGED strict, Fail,
         NEW s, NEW o, NEW e, Read(s, e, o), o \notin Parsed, IsHard(s, o)
  PROVE  VerdictInv'
<1>1. Hard' # {}
  BY HardStep, Zenon
<1>2. pc' = "returned" /\ err' = TRUE /\ strict'
  BY Zenon DEF Fail
<1>3. err' = (garbled' \/ (strict' /\ Hard' # {}))
  BY <1>1, <1>2, Zenon
<1>4. QED
  BY <1>2, <1>3, Zenon DEF VerdictInv, VerdictFollowsTable

\* A run that reads nothing.
LEMMA ReadsNothing ==
  ASSUME VerdictInv, pc # "returned", UNCHANGED <<strict, err, failed>>, pc' # "returned"
  PROVE  VerdictInv'
<1>1. Hard' = Hard
  BY Zenon DEF Hard
<1>2. QED
  BY <1>1, Zenon DEF VerdictInv, VerdictFollowsTable

\* What the outcomes are.
LEMMA OutcomeKinds ==
  ASSUME NEW o
  PROVE  /\ o \in Unreadable => o # "malformed" /\ o \notin Parsed
         /\ o \in {"timeout", "refused"} => o # "malformed"
         /\ o = "malformed" => o \notin Parsed
BY DEF Unreadable, Parsed

\* Which files are which.
LEMMA FileKinds ==
  /\ LDLM.file \notin {"stats", "rpc_stats"}
  /\ Globs.file \notin {"stats", "rpc_stats"}
  /\ \A t, file : SourceOf(t, file).file = file
BY DEF LDLM, Globs, SourceOf

\* What a strict run does with a failure, and a lenient one.
LEMMA StrictErrorVerdict ==
  ASSUME VerdictInv, pc # "returned", UNCHANGED strict,
         NEW s, NEW o, NEW e, Read(s, e, o), o \notin Parsed, IsHard(s, o),
         NEW stage \in {"next target", "rpc_stats", "params"}, StrictError(stage)
  PROVE  VerdictInv'
<1>1. CASE strict /\ Fail
  BY <1>1, Fails, Zenon
<1>2. CASE ~strict /\ UNCHANGED resultVars /\ pc' \in {"stats", "rpc_stats", "params"}
  <2>1. pc' # "returned"
    BY <1>2
  <2>2. QED
    BY <1>2, <2>1, GoesOn, Zenon DEF resultVars
<1>3. QED
  BY <1>1, <1>2, Zenon DEF StrictError, NextTarget

\* A step keeps the verdict in line with the failures.
LEMMA VerdictStep ==
  ASSUME TypeInv, VerdictInv, [Next]_vars
  PROVE  VerdictInv'
<1>1. CASE UNCHANGED vars
  <2>1. Hard' = Hard
    BY <1>1, Zenon DEF Hard, vars
  <2>2. QED
    BY <1>1, <2>1, Zenon DEF VerdictInv, VerdictFollowsTable, vars, resultVars
<1>2. CASE \/ \E key \in {<<f.component, f.name>> : f \in Layout} : Remount(key)
           \/ Expire
  BY <1>2, ReadsNothing, Zenon DEF Remount, Expire, resultVars
<1>3. CASE \/ Glob \/ (\E name \in Names : Index(name)) \/ EndDiscovery
           \/ SkipStats \/ SkipRPCStats \/ EndTarget
  <2>1. /\ pc \in {"glob", "stats", "rpc_stats", "params"}
        /\ pc' \in {"glob", "ldlm", "stats", "rpc_stats", "params"}
    <3>1. /\ pc \in {"glob", "stats", "rpc_stats", "params"}
          /\ pc' \in {pc, "ldlm", "stats", "rpc_stats", "params"}
      BY <1>3, Zenon DEF Glob, Index, EndDiscovery, SkipStats, SkipRPCStats, EndTarget,
         NextTarget, AtTarget
    <3>2. QED
      BY <3>1
  <2>2. UNCHANGED <<strict, err, failed>>
    BY <1>3, Zenon DEF Glob, Index, EndDiscovery, SkipStats, SkipRPCStats, EndTarget, resultVars
  <2>3. pc # "returned" /\ pc' # "returned"
    BY <2>1
  <2>4. QED
    BY <2>2, <2>3, ReadsNothing, Zenon
<1>4. ASSUME NEW o \in {"timeout", "refused"}, GlobFails(o)
      PROVE  VerdictInv'
  <2>1. /\ pc = "glob" /\ UNCHANGED <<pc, strict, err>>
        /\ Read(Globs, TRUE, o)
    BY <1>4, Zenon DEF GlobFails, resultVars
  <2>2. ~IsHard(Globs, o)
    BY FileKinds, OutcomeKinds, Zenon DEF IsHard
  <2>3. pc # "returned" /\ pc' # "returned"
    BY <2>1
  <2>4. QED
    BY <2>1, <2>2, <2>3, GoesOn, Zenon
<1>5. ASSUME NEW o \in Outcomes, ReadLDLM(o)
      PROVE  VerdictInv'
  <2>1. /\ pc = "ldlm" /\ UNCHANGED strict
        /\ \E e : Read(LDLM, e, o)
    BY <1>5, Zenon DEF ReadLDLM
  <2>2. PICK e : Read(LDLM, e, o)
    BY <2>1
  <2>3. IsHard(LDLM, o) <=> o = "malformed"
    BY FileKinds, Zenon DEF IsHard
  <2>4. \/ /\ o # "malformed" \/ ~strict
           /\ pc' \in {"ldlm", "stats"} /\ UNCHANGED err
        \/ o = "malformed" /\ strict /\ Fail
    <3>1. o \in Unreadable \cup Parsed => o # "malformed"
      BY OutcomeKinds
    <3>2. QED
      BY <1>5, <2>1, <3>1, Zenon DEF ReadLDLM, NextTarget, Observe, resultVars
  <2>5. pc # "returned"
    BY <2>1
  <2>6. CASE /\ o # "malformed" \/ ~strict
             /\ pc' \in {"ldlm", "stats"} /\ UNCHANGED err
    <3>1. pc' # "returned"
      BY <2>6
    <3>2. QED
      BY <2>1, <2>2, <2>3, <2>5, <2>6, <3>1, GoesOn, Zenon
  <2>7. CASE o = "malformed" /\ strict /\ Fail
    BY <2>1, <2>2, <2>3, <2>7, Fails, OutcomeKinds, Zenon
  <2>8. QED
    BY <2>4, <2>6, <2>7, Zenon
<1>6. ASSUME NEW o \in Outcomes, ReadStats(o)
      PROVE  VerdictInv'
  <2> DEFINE s == SourceOf(Current, "stats")
  <2>1. pc = "stats" /\ UNCHANGED strict
    BY <1>6, Zenon DEF ReadStats, AtTarget
  <2>2. PICK e : Read(s, e, o)
    BY <1>6, Zenon DEF ReadStats, ReadOf
  <2>3. IsHard(s, o)
    BY FileKinds, Zenon DEF IsHard
  <2>4. AfterBadStats \in {"next target", "rpc_stats", "params"}
    BY Zenon DEF AfterBadStats
  <2>5. pc # "returned"
    BY <2>1
  <2>6. CASE o \notin Parsed
    <3>1. StrictError(AfterBadStats)
      BY <1>6, <2>6, Zenon DEF ReadStats
    <3>2. QED
      BY <2>1, <2>2, <2>3, <2>4, <2>5, <2>6, <3>1, StrictErrorVerdict, Zenon
  <2>7. CASE o \in Parsed
    <3>1. pc' \in {"rpc_stats", "params"} /\ UNCHANGED err
      BY <1>6, <2>7, Zenon DEF ReadStats, Observe
    <3>2. pc' # "returned"
      BY <3>1
    <3>3. QED
      BY <2>1, <2>2, <2>5, <2>7, <3>1, <3>2, GoesOn, Zenon
  <2>8. QED
    BY <2>6, <2>7, Zenon
<1>7. ASSUME NEW o \in Outcomes, ReadRPCStats(o)
      PROVE  VerdictInv'
  <2> DEFINE s == SourceOf(Current, "rpc_stats")
  <2>1. pc = "rpc_stats" /\ UNCHANGED strict
    BY <1>7, Zenon DEF ReadRPCStats, AtTarget
  <2>2. PICK e : Read(s, e, o)
    BY <1>7, Zenon DEF ReadRPCStats, ReadOf
  <2>3. IsHard(s, o) <=> o # "not exist"
    <3>1. s.file = "rpc_stats" /\ "rpc_stats" # "stats"
      BY FileKinds
    <3>2. "not exist" # "malformed"
      OBVIOUS
    <3>3. QED
      BY <3>1, <3>2, Zenon DEF IsHard
  <2>4. "params" \in {"next target", "rpc_stats", "params"}
    OBVIOUS
  <2>5. pc # "returned"
    BY <2>1
  <2>6. CASE o \notin Parsed \cup Tolerated
    <3>1. StrictError("params")
      BY <1>7, <2>6, Zenon DEF ReadRPCStats
    <3>2. o \notin Parsed /\ o # "not exist"
      BY <2>6, Zenon DEF Tolerated
    <3>3. QED
      BY <2>1, <2>2, <2>3, <2>4, <2>5, <3>1, <3>2, StrictErrorVerdict, Zenon
  <2>7. CASE o \in Parsed \cup Tolerated
    <3>1. pc' = "params" /\ UNCHANGED err
      BY <1>7, <2>7, Zenon DEF ReadRPCStats, Observe, resultVars
    <3>2. pc' # "returned"
      BY <3>1
    <3>3. o \in Parsed \/ o = "not exist"
      BY <2>7, Zenon DEF Tolerated
    <3>4. QED
      BY <2>1, <2>2, <2>3, <2>5, <3>1, <3>2, <3>3, GoesOn, Zenon
  <2>8. QED
    BY <2>6, <2>7, Zenon
<1>8. ASSUME NEW o \in Outcomes, ReadParam(o)
      PROVE  VerdictInv'
  <2> DEFINE s == SourceOf(Current, Params[param])
  <2>1. pc = "params" /\ UNCHANGED strict
    BY <1>8, Zenon DEF ReadParam, AtTarget
  <2>2. PICK e : Read(s, e, o)
    BY <1>8, Zenon DEF ReadParam, ReadOf
  <2>3. IsHard(s, o) <=> o = "malformed"
    <3>1. s.file \notin {"stats", "rpc_stats"}
      BY <1>8, ReadingType, ParamNotStats, FileKinds, Zenon DEF TypeInv
    <3>2. QED
      BY <3>1, Zenon DEF IsHard
  <2>4. \/ /\ o # "malformed" \/ ~strict
           /\ pc' = "params" /\ UNCHANGED err
        \/ o = "malformed" /\ strict /\ Fail
    <3>1. o \in Unreadable \cup Parsed => o # "malformed"
      BY OutcomeKinds
    <3>2. QED
      BY <1>8, <2>1, <3>1, Zenon DEF ReadParam, NextParam, Observe, resultVars
  <2>5. pc # "returned"
    BY <2>1
  <2>6. CASE /\ o # "malformed" \/ ~strict
             /\ pc' = "params" /\ UNCHANGED err
    <3>1. pc' # "returned"
      BY <2>6
    <3>2. QED
      BY <2>1, <2>2, <2>3, <2>5, <2>6, <3>1, GoesOn, Zenon
  <2>7. CASE o = "malformed" /\ strict /\ Fail
    BY <2>1, <2>2, <2>3, <2>7, Fails, OutcomeKinds, Zenon
  <2>8. QED
    BY <2>4, <2>6, <2>7, Zenon
<1>9. CASE Return
  <2>1. /\ pc = "stats" /\ pc' = "returned" /\ err' = garbled
        /\ UNCHANGED <<strict, garbled, failed>>
    BY <1>9, Zenon DEF Return, Emit
  <2>2. Hard' = Hard
    BY <2>1, Zenon DEF Hard
  <2>3. pc # "returned"
    BY <2>1
  <2>4. strict => Hard = {}
    BY <2>3, Zenon DEF VerdictInv
  <2>5. garbled \in BOOLEAN /\ strict \in BOOLEAN
    BY Zenon DEF TypeInv, ResultOK, HostOK
  <2>6. err' = (garbled' \/ (strict' /\ Hard' # {}))
    BY <2>1, <2>2, <2>4, <2>5, Zenon
  <2>7. QED
    BY <2>1, <2>6, Zenon DEF VerdictInv, VerdictFollowsTable
<1>10. QED
  BY <1>1, <1>2, <1>3, <1>4, <1>5, <1>6, <1>7, <1>8, <1>9, Zenon DEF Next, Quiescent

\* The run fails if the emitter refuses a label value, and in strict mode if a
\* discovered file cannot be read or any file cannot be parsed, whatever the
\* order of the failures and whatever is mounted and unmounted meanwhile
\* (client.go:60-122, docs/metrics.md:791-793).
THEOREM VerdictOfTheTable == Spec => []VerdictFollowsTable
<1>1. Init => TypeInv /\ VerdictInv
  <2>1. ASSUME Init PROVE VerdictInv
    <3>1. pc # "returned" /\ ~err /\ failed = {}
      BY <2>1 DEF Init
    <3>2. Hard = {}
      BY <3>1, Zenon DEF Hard
    <3>3. QED
      BY <3>1, <3>2, Zenon DEF VerdictInv, VerdictFollowsTable
  <2>2. QED
    BY <2>1, InitTypeInv, Zenon
<1>2. TypeInv /\ VerdictInv /\ [Next]_vars => (TypeInv /\ VerdictInv)'
  BY TypeInvStep, VerdictStep, Zenon
<1>3. VerdictInv => VerdictFollowsTable
  BY Zenon DEF VerdictInv
<1>4. QED
  BY <1>1, <1>2, <1>3, PTL DEF Spec

-----------------------------------------------------------------------------
(* Every source is accounted for.                                          *)

\* The sources that the run accounts for.
Turned == obs \cup {f[1] : f \in failed}

\* The run is done with a target, for what it has observed and turned to.
DoneWith(o, turned, t) ==
  /\ t.stats # NoPath => SourceOf(t, "stats") \in turned
  /\ t.rpc_stats # NoPath => SourceOf(t, "rpc_stats") \in turned
  /\ \A file \in ToSet(ParamFiles[t.component]) :
       IF t.component = "llite" /\ SourceOf(t, "stats") \notin o
       THEN SourceOf(t, file) \notin o
       ELSE SourceOf(t, file) \in turned

DoneBefore(o, turned, x, n) ==
  \A i \in DOMAIN x.targets : i < n => DoneWith(o, turned, x.targets[i])

\* What was observed belongs to the first n targets.
ObservedOf(o, x, n) ==
  \A s \in o :
    \/ s = LDLM
    \/ \E i \in DOMAIN x.targets :
         /\ i <= n
         /\ s.component = x.targets[i].component
         /\ s.name = x.targets[i].name

\* The run is past the stats of a target, and got them if it is a mount.
StatsDone(o, turned, t) ==
  /\ t.stats # NoPath => SourceOf(t, "stats") \in turned
  /\ t.component = "llite" => SourceOf(t, "stats") \in o

\* The run is past the rpc_stats of a target and its first parameters.
ParamsDone(turned, t, n) ==
  /\ t.rpc_stats # NoPath => SourceOf(t, "rpc_stats") \in turned
  /\ \A i \in DOMAIN ParamFiles[t.component] :
       i < n => SourceOf(t, ParamFiles[t.component][i]) \in turned

\* What a run has accounted for at each of its stages.
AccountInv ==
  /\ pc \in {"glob", "ldlm"} => obs = {}
  /\ pc # "returned" => DoneBefore(obs, Turned, idx, target)
  /\ pc = "stats" => ObservedOf(obs, idx, target - 1)
  /\ pc \in {"rpc_stats", "params"} =>
       ObservedOf(obs, idx, target) /\ StatsDone(obs, Turned, Current)
  /\ pc = "params" => ParamsDone(Turned, Current, param)
  /\ pc = "returned" /\ ~err => \A t \in ToSet(idx.targets) : DoneWith(obs, Turned, t)

\* The last part of AccountInv is the property.
LEMMA AccountInvImplies ==
  ASSUME AccountInv
  PROVE  OneFailureCostsOneSource
BY Zenon DEF AccountInv, OneFailureCostsOneSource, DoneWith, Accounted, Turned

\* The source of a target names it.
LEMMA SourceFields ==
  ASSUME NEW t \in ClientTarget, NEW file
  PROVE  /\ SourceOf(t, file).component = t.component
         /\ SourceOf(t, file).name = t.name
         /\ SourceOf(t, file) # LDLM
BY DEF SourceOf, LDLM, ClientTarget, Components

\* What the observations are from, one more file of a target included.
LEMMA ObservedMore ==
  ASSUME NEW x, IndexInv(x), NEW n \in DOMAIN x.targets, NEW o, NEW o2, NEW file,
         ObservedOf(o, x, n), o2 = o \/ o2 = o \cup {SourceOf(x.targets[n], file)}
  PROVE  ObservedOf(o2, x, n)
<1>1. x.targets \in Seq(ClientTarget)
  BY Zenon DEF IndexInv
<1>2. x.targets[n] \in ClientTarget /\ n \in Nat
  BY <1>1
<1> DEFINE s == SourceOf(x.targets[n], file)
<1>3. s.component = x.targets[n].component /\ s.name = x.targets[n].name
  BY <1>2, SourceFields, Zenon
<1>4. n <= n
  BY <1>2
<1> HIDE DEF s
<1>5. QED
  BY <1>3, <1>4, Zenon DEF ObservedOf, s

\* Nothing was observed of the targets to come.
LEMMA NothingYet ==
  ASSUME NEW x, IndexInv(x), NEW n, NEW i \in DOMAIN x.targets, ~(i <= n),
         NEW o, ObservedOf(o, x, n), NEW file
  PROVE  SourceOf(x.targets[i], file) \notin o
<1>1. x.targets \in Seq(ClientTarget)
  BY Zenon DEF IndexInv
<1>2. x.targets[i] \in ClientTarget
  BY <1>1
<1>3. SUFFICES ASSUME SourceOf(x.targets[i], file) \in o PROVE FALSE
  BY Zenon
<1> DEFINE s == SourceOf(x.targets[i], file)
<1>4. s # LDLM /\ s.component = x.targets[i].component /\ s.name = x.targets[i].name
  BY <1>2, SourceFields, Zenon
<1> HIDE DEF s
<1>5. s \in o
  BY <1>3, Zenon DEF s
<1>6. PICK j \in DOMAIN x.targets :
        j <= n /\ s.component = x.targets[j].component /\ s.name = x.targets[j].name
  BY <1>4, <1>5, Zenon DEF ObservedOf
<1>7. /\ j <= n
      /\ x.targets[i].component = x.targets[j].component
      /\ x.targets[i].name = x.targets[j].name
  BY <1>4, <1>6, Zenon
<1>8. i = j
  BY <1>7, Zenon DEF IndexInv, KeyOf
<1>9. QED
  BY <1>7, <1>8, Zenon

\* The run stays done with a target if nothing more of it is observed.
LEMMA DoneGrows ==
  ASSUME NEW t, NEW o, NEW o2, NEW a, NEW a2, a \subseteq a2, o \subseteq o2,
         \A file : SourceOf(t, file) \in o2 => SourceOf(t, file) \in o,
         DoneWith(o, a, t)
  PROVE  DoneWith(o2, a2, t)
BY Zenon DEF DoneWith

\* Observing a file of one target leaves the run done with those before it.
LEMMA OthersKept ==
  ASSUME NEW x, IndexInv(x), NEW n \in DOMAIN x.targets, NEW o, NEW o2, NEW file,
         o2 = o \/ o2 = o \cup {SourceOf(x.targets[n], file)},
         NEW a, NEW a2, a \subseteq a2, DoneBefore(o, a, x, n)
  PROVE  DoneBefore(o2, a2, x, n)
<1>1. SUFFICES ASSUME NEW i \in DOMAIN x.targets, i < n
               PROVE  DoneWith(o2, a2, x.targets[i])
  BY Zenon DEF DoneBefore
<1>2. x.targets \in Seq(ClientTarget)
  BY Zenon DEF IndexInv
<1>3. x.targets[i] \in ClientTarget /\ x.targets[n] \in ClientTarget /\ i # n
  BY <1>1, <1>2
<1>4. ASSUME NEW g, SourceOf(x.targets[i], g) = SourceOf(x.targets[n], file)
      PROVE  FALSE
  <2>1. /\ x.targets[i].component = x.targets[n].component
        /\ x.targets[i].name = x.targets[n].name
    BY <1>4 DEF SourceOf
  <2>2. QED
    BY <1>3, <2>1, Zenon DEF IndexInv, KeyOf
<1>5. \A g : SourceOf(x.targets[i], g) \in o2 => SourceOf(x.targets[i], g) \in o
  <2>1. \A g : SourceOf(x.targets[i], g) # SourceOf(x.targets[n], file)
    BY <1>4, Zenon
  <2>2. CASE o2 = o
    BY <2>2, Zenon
  <2>3. CASE o2 = o \cup {SourceOf(x.targets[n], file)}
    BY <2>1, <2>3, Zenon
  <2>4. QED
    BY <2>2, <2>3, Zenon
<1>6. o \subseteq o2
  BY Zenon
<1>7. DoneWith(o, a, x.targets[i])
  BY <1>1, Zenon DEF DoneBefore
<1>8. QED
  BY <1>5, <1>6, <1>7, DoneGrows, Zenon

\* A read accounts for its source, and forgets none.
LEMMA TurnedGrows ==
  ASSUME NEW s, NEW e, NEW o, Read(s, e, o),
         obs' = obs \/ obs' = obs \cup {s}, o \in Parsed => obs' = obs \cup {s}
  PROVE  /\ Turned \subseteq Turned'
         /\ s \in Turned'
         /\ obs \subseteq obs'
<1>1. failed' = IF o \in Parsed THEN failed ELSE failed \cup {<<s, o>>}
  BY Zenon DEF Read
<1>2. <<s, o>>[1] = s
  OBVIOUS
<1>3. obs \subseteq obs' /\ failed \subseteq failed'
  BY <1>1, Zenon
<1>4. Turned \subseteq Turned'
  BY <1>3, Zenon DEF Turned
<1>5. CASE o \in Parsed
  BY <1>3, <1>4, <1>5, Zenon DEF Turned
<1>6. CASE o \notin Parsed
  <2>1. <<s, o>> \in failed'
    BY <1>1, <1>6, Zenon
  <2>2. <<s, o>>[1] \in {f[1] : f \in failed'}
    BY <2>1, Zenon
  <2>3. QED
    BY <1>2, <1>3, <1>4, <2>2, Zenon DEF Turned
<1>7. QED
  BY <1>5, <1>6, Zenon

\* What a read of a file of the current target leaves true.
LEMMA ReadKeeps ==
  ASSUME TypeInv, AccountInv, target \in 1..Len(idx.targets),
         pc \in {"stats", "rpc_stats", "params"},
         NEW file, NEW e, NEW o, Read(SourceOf(Current, file), e, o),
         IF o \in Parsed THEN Observe(SourceOf(Current, file), o) ELSE UNCHANGED obs
  PROVE  /\ Turned \subseteq Turned'
         /\ SourceOf(Current, file) \in Turned'
         /\ obs \subseteq obs'
         /\ o \in Parsed => SourceOf(Current, file) \in obs'
         /\ DoneBefore(obs', Turned', idx, target)
         /\ ObservedOf(obs', idx, target)
<1> DEFINE s == SourceOf(Current, file)
<1>1. /\ obs' = obs \/ obs' = obs \cup {s}
      /\ o \in Parsed => obs' = obs \cup {s}
  BY Zenon DEF Observe
<1>2. Turned \subseteq Turned' /\ s \in Turned' /\ obs \subseteq obs'
  BY <1>1, TurnedGrows, Zenon
<1>3. IndexInv(idx)
  BY Zenon DEF TypeInv, IndexOK
<1>4. target \in DOMAIN idx.targets
  <2>1. idx.targets \in Seq(ClientTarget)
    BY <1>3, Zenon DEF IndexInv
  <2>2. QED
    BY <2>1, ElementType, Zenon
<1>5. pc # "returned" /\ pc \in {"stats", "rpc_stats", "params"}
  OBVIOUS
<1>6. DoneBefore(obs, Turned, idx, target)
  BY <1>5, Zenon DEF AccountInv
<1>7. DoneBefore(obs', Turned', idx, target)
  BY <1>1, <1>2, <1>3, <1>4, <1>6, OthersKept, Zenon DEF Current
<1>8. ObservedOf(obs, idx, target)
  <2>1. CASE pc = "stats"
    <3>1. ObservedOf(obs, idx, target - 1)
      BY <2>1, Zenon DEF AccountInv
    <3>2. \A i \in DOMAIN idx.targets : i <= target - 1 => i <= target
      <4>1. idx.targets \in Seq(ClientTarget)
        BY <1>3, Zenon DEF IndexInv
      <4>2. DOMAIN idx.targets \subseteq Nat
        BY <4>1
      <4>3. QED
        BY <1>4, <4>2
    <3>3. QED
      BY <3>1, <3>2, Zenon DEF ObservedOf
  <2>2. CASE pc \in {"rpc_stats", "params"}
    BY <2>2, Zenon DEF AccountInv
  <2>3. QED
    BY <1>5, <2>1, <2>2, Zenon
<1>9. ObservedOf(obs', idx, target)
  BY <1>1, <1>3, <1>4, <1>8, ObservedMore, Zenon DEF Current
<1>10. QED
  BY <1>1, <1>2, <1>7, <1>9, Zenon

\* Before the first target the run is done with none.
LEMMA NoneBefore ==
  ASSUME NEW x, IndexInv(x), NEW o, NEW a
  PROVE  DoneBefore(o, a, x, 1)
<1>1. x.targets \in Seq(ClientTarget)
  BY Zenon DEF IndexInv
<1>2. \A i \in DOMAIN x.targets : ~(i < 1)
  BY <1>1
<1>3. QED
  BY <1>2, Zenon DEF DoneBefore

\* The run is done with one more target.
LEMMA OneMoreDone ==
  ASSUME NEW x, IndexInv(x), NEW o, NEW a, NEW n \in DOMAIN x.targets,
         DoneBefore(o, a, x, n), DoneWith(o, a, x.targets[n])
  PROVE  DoneBefore(o, a, x, n + 1)
<1>1. x.targets \in Seq(ClientTarget)
  BY Zenon DEF IndexInv
<1>2. \A i \in DOMAIN x.targets : i < n + 1 => i < n \/ i = n
  BY <1>1
<1>3. QED
  BY <1>2, Zenon DEF DoneBefore

\* What is done of a target stays done.
LEMMA StagesGrow ==
  ASSUME NEW t, NEW o, NEW o2, NEW a, NEW a2, a \subseteq a2, o \subseteq o2, NEW n
  PROVE  /\ StatsDone(o, a, t) => StatsDone(o2, a2, t)
         /\ ParamsDone(a, t, n) => ParamsDone(a2, t, n)
BY Zenon DEF StatsDone, ParamsDone

\* The run goes on with the next target.
LEMMA AccountNextTarget ==
  ASSUME TypeInv, TypeInv', UNCHANGED idx, target \in 1..Len(idx.targets),
         NextTarget(target + 1),
         DoneBefore(obs', Turned', idx, target), ObservedOf(obs', idx, target),
         DoneWith(obs', Turned', Current)
  PROVE  AccountInv'
<1>1. IndexInv(idx) /\ target \in DOMAIN idx.targets
  <2>1. IndexInv(idx)
    BY Zenon DEF TypeInv, IndexOK
  <2>2. idx.targets \in Seq(ClientTarget)
    BY <2>1, Zenon DEF IndexInv
  <2>3. QED
    BY <2>1, <2>2, ElementType, Zenon
<1>2. DoneBefore(obs', Turned', idx', target')
  BY <1>1, OneMoreDone, Zenon DEF NextTarget, Current
<1>3. target' - 1 = target /\ pc' = "stats"
  <2>1. target \in Nat
    <3>1. Len(idx.targets) \in Nat
      BY Lengths, Zenon DEF TypeInv
    <3>2. QED
      BY <3>1
  <2>2. QED
    BY <2>1 DEF NextTarget
<1>4. ObservedOf(obs', idx', target' - 1)
  BY <1>3, Zenon
<1>5. pc' \notin {"glob", "ldlm", "rpc_stats", "params", "returned"}
  BY <1>3
<1>6. QED
  BY <1>2, <1>4, <1>5, Zenon DEF AccountInv

\* The run has failed and returns nothing.
LEMMA AccountFails ==
  ASSUME Fail
  PROVE  AccountInv'
<1>1. pc' = "returned" /\ err'
  BY Zenon DEF Fail
<1>2. pc' \notin {"glob", "ldlm", "stats", "rpc_stats", "params"}
  BY <1>1
<1>3. QED
  BY <1>1, <1>2, Zenon DEF AccountInv

\* The run goes on with the rpc_stats of its target.
LEMMA AccountRPCStats ==
  ASSUME UNCHANGED idx, UNCHANGED loopVars, pc' = "rpc_stats",
         DoneBefore(obs', Turned', idx, target), ObservedOf(obs', idx, target),
         StatsDone(obs', Turned', Current)
  PROVE  AccountInv'
<1>1. pc' \notin {"glob", "ldlm", "stats", "params", "returned"}
  OBVIOUS
<1>2. Current' = Current /\ target' = target
  BY Zenon DEF Current, loopVars
<1>3. QED
  BY <1>1, <1>2, Zenon DEF AccountInv

\* The run is at the parameter files of its target.
LEMMA AccountParams ==
  ASSUME UNCHANGED <<idx, target>>, pc' = "params",
         DoneBefore(obs', Turned', idx, target), ObservedOf(obs', idx, target),
         StatsDone(obs', Turned', Current), ParamsDone(Turned', Current, param')
  PROVE  AccountInv'
<1>1. pc' \notin {"glob", "ldlm", "stats", "rpc_stats", "returned"}
  OBVIOUS
<1>2. Current' = Current
  BY Zenon DEF Current
<1>3. QED
  BY <1>1, <1>2, Zenon DEF AccountInv

\* A mount whose stats were not observed is done with.
LEMMA MountWithoutStats ==
  ASSUME NEW t, NEW o, NEW a, t.component = "llite", t.rpc_stats = NoPath,
         SourceOf(t, "stats") \in a, \A file : SourceOf(t, file) \notin o
  PROVE  DoneWith(o, a, t)
BY Zenon DEF DoneWith

\* A target whose last parameter was read is done with.
LEMMA LastParamDone ==
  ASSUME NEW t, NEW o, NEW a, NEW n \in Nat, ParamFiles[t.component] \in Seq(STRING),
         ~(n <= Len(ParamFiles[t.component])), StatsDone(o, a, t), ParamsDone(a, t, n)
  PROVE  DoneWith(o, a, t)
<1> DEFINE ps == ParamFiles[t.component]
<1>1. Len(ps) \in Nat /\ DOMAIN ps = 1..Len(ps)
  BY ElementType, Zenon
<1> HIDE DEF ps
<1>2. ~(n <= Len(ps))
  BY Zenon DEF ps
<1>3. \A i \in DOMAIN ps : i < n
  BY <1>1, <1>2
<1>4. \A file \in ToSet(ps) : SourceOf(t, file) \in a
  <2>1. TAKE file \in ToSet(ps)
  <2>2. PICK i \in DOMAIN ps : file = ps[i]
    BY <2>1, Zenon DEF ToSet
  <2>3. QED
    BY <1>3, <2>2, Zenon DEF ParamsDone, ps
<1>5. QED
  BY <1>4, Zenon DEF DoneWith, StatsDone, ParamsDone, ps

\* Before the first parameter file, only the rpc_stats count.
LEMMA FirstParam ==
  ASSUME NEW t, NEW a, ParamFiles[t.component] \in Seq(STRING),
         t.rpc_stats # NoPath => SourceOf(t, "rpc_stats") \in a
  PROVE  ParamsDone(a, t, 1)
<1> DEFINE ps == ParamFiles[t.component]
<1>1. Len(ps) \in Nat /\ DOMAIN ps = 1..Len(ps)
  BY ElementType, Zenon
<1> HIDE DEF ps
<1>2. \A i \in DOMAIN ps : ~(i < 1)
  BY <1>1
<1>3. QED
  BY <1>2, Zenon DEF ParamsDone, ps

\* One more parameter file.
LEMMA NextParamDone ==
  ASSUME NEW t, NEW a, NEW n, ParamFiles[t.component] \in Seq(STRING),
         n \in DOMAIN ParamFiles[t.component], ParamsDone(a, t, n),
         SourceOf(t, ParamFiles[t.component][n]) \in a
  PROVE  ParamsDone(a, t, n + 1)
<1> DEFINE ps == ParamFiles[t.component]
<1>1. Len(ps) \in Nat /\ DOMAIN ps = 1..Len(ps)
  BY ElementType, Zenon
<1>2. n \in DOMAIN ps
  BY Zenon
<1> HIDE DEF ps
<1>3. \A i \in DOMAIN ps : i < n + 1 => i < n \/ i = n
  BY <1>1, <1>2
<1>4. QED
  BY <1>3, Zenon DEF ParamsDone, ps

\* What is known of the target that a run is at.
LEMMA CurrentFacts ==
  ASSUME TypeInv, target \in 1..Len(idx.targets)
  PROVE  /\ target \in DOMAIN idx.targets
         /\ IndexInv(idx)
         /\ Current.component = "llite" => Current.stats # NoPath /\ Current.rpc_stats = NoPath
         /\ ParamFiles[Current.component] \in Seq(STRING)
<1>1. IndexInv(idx) /\ IndexOK
  BY Zenon DEF TypeInv, IndexOK
<1>2. idx.targets \in Seq(ClientTarget)
  BY <1>1, Zenon DEF IndexInv
<1>3. target \in DOMAIN idx.targets
  BY <1>2, ElementType, Zenon
<1>4. QED
  BY <1>1, <1>3, CurrentType, Zenon DEF IndexInv, Current, Params

\* Reading the stats of a target accounts for them.
LEMMA AccountStats ==
  ASSUME TypeInv, TypeInv', AccountInv, NEW o \in Outcomes, ReadStats(o)
  PROVE  AccountInv'
<1> DEFINE s == SourceOf(Current, "stats")
<1>1. /\ pc = "stats" /\ UNCHANGED idx
      /\ Current.stats # NoPath
      /\ \E e : Read(s, e, o)
  BY Zenon DEF ReadStats, AtTarget, ReadOf, discoveryVars
<1>2. target \in 1..Len(idx.targets)
  BY ReadingType, Zenon
<1>3. /\ target \in DOMAIN idx.targets /\ IndexInv(idx)
      /\ IsMount => Current.rpc_stats = NoPath
      /\ ParamFiles[Current.component] \in Seq(STRING)
  BY <1>2, CurrentFacts, Zenon DEF IsMount
<1>4. pc \in {"stats", "rpc_stats", "params"}
  BY <1>1
<1>5. CASE o \in Parsed
  <2>1. /\ Observe(s, o) /\ UNCHANGED loopVars
        /\ pc' = IF IsMount THEN "params" ELSE "rpc_stats"
    BY <1>5, Zenon DEF ReadStats
  <2>2. /\ s \in Turned' /\ s \in obs'
        /\ DoneBefore(obs', Turned', idx, target)
        /\ ObservedOf(obs', idx, target)
    BY <1>1, <1>2, <1>4, <1>5, <2>1, ReadKeeps, Zenon
  <2>3. StatsDone(obs', Turned', Current)
    BY <2>2, Zenon DEF StatsDone
  <2>4. CASE IsMount
    <3>1. param' = 1
      BY <1>1, <2>1 DEF TypeInv, LoopOK, loopVars
    <3>2. ParamsDone(Turned', Current, param')
      BY <1>3, <2>4, <3>1, FirstParam, Zenon
    <3>3. QED
      BY <1>1, <2>1, <2>2, <2>3, <2>4, <3>2, AccountParams, Zenon DEF loopVars
  <2>5. CASE ~IsMount
    BY <1>1, <2>1, <2>2, <2>3, <2>5, AccountRPCStats, Zenon
  <2>6. QED
    BY <2>4, <2>5, Zenon
<1>6. CASE Fail
  BY <1>6, AccountFails, Zenon
<1>7. CASE o \notin Parsed /\ ~Fail
  <2>1. UNCHANGED obs
    BY <1>7, StrictErrorResult, Zenon DEF ReadStats, resultVars
  <2>2. /\ s \in Turned'
        /\ DoneBefore(obs', Turned', idx, target)
        /\ ObservedOf(obs', idx, target)
    BY <1>1, <1>2, <1>4, <1>7, <2>1, ReadKeeps, Zenon
  <2>3. CASE IsMount
    <3>1. NextTarget(target + 1)
      <4>1. AfterBadStats = "next target"
        BY <2>3, Zenon DEF AfterBadStats
      <4>2. StrictError("next target")
        BY <1>7, <4>1, Zenon DEF ReadStats
      <4>3. QED
        BY <1>7, <4>2, Zenon DEF StrictError
    <3>2. ~(target <= target - 1)
      BY <1>2, Lengths DEF TypeInv
    <3>3. \A file : SourceOf(Current, file) \notin obs'
      BY <1>1, <1>3, <2>1, <3>2, NothingYet, Zenon DEF AccountInv, Current
    <3>4. DoneWith(obs', Turned', Current)
      BY <1>3, <2>2, <2>3, <3>3, MountWithoutStats, Zenon DEF IsMount
    <3>5. QED
      BY <1>1, <1>2, <2>2, <3>1, <3>4, AccountNextTarget, Zenon
  <2>4. CASE ~IsMount
    <3>1. pc' = "rpc_stats" /\ UNCHANGED loopVars
      <4>1. AfterBadStats = "rpc_stats"
        BY <2>4, Zenon DEF AfterBadStats
      <4>2. StrictError("rpc_stats")
        BY <1>7, <4>1, Zenon DEF ReadStats
      <4>3. "rpc_stats" # "next target"
        OBVIOUS
      <4>4. QED
        BY <1>7, <4>2, <4>3, Zenon DEF StrictError
    <3>2. StatsDone(obs', Turned', Current)
      BY <2>2, <2>4, Zenon DEF StatsDone, IsMount
    <3>3. QED
      BY <1>1, <2>2, <3>1, <3>2, AccountRPCStats, Zenon
  <2>5. QED
    BY <2>3, <2>4, Zenon
<1>8. QED
  BY <1>5, <1>6, <1>7, Zenon

\* Reading the rpc_stats of a target accounts for them.
LEMMA AccountReadRPCStats ==
  ASSUME TypeInv, AccountInv, NEW o \in Outcomes, ReadRPCStats(o)
  PROVE  AccountInv'
<1> DEFINE s == SourceOf(Current, "rpc_stats")
<1>1. /\ pc = "rpc_stats" /\ UNCHANGED idx
      /\ \E e : Read(s, e, o)
  BY Zenon DEF ReadRPCStats, AtTarget, ReadOf, discoveryVars
<1>2. target \in 1..Len(idx.targets)
  BY ReadingType, Zenon
<1>3. ParamFiles[Current.component] \in Seq(STRING)
  BY <1>2, CurrentFacts, Zenon
<1>4. pc \in {"stats", "rpc_stats", "params"} /\ pc \in {"rpc_stats", "params"}
  BY <1>1
<1>5. CASE Fail
  BY <1>5, AccountFails, Zenon
<1>6. CASE ~Fail
  <2>1. pc' = "params" /\ UNCHANGED loopVars
    <3>1. "params" # "next target"
      OBVIOUS
    <3>2. QED
      BY <1>6, <3>1, Zenon DEF ReadRPCStats, StrictError
  <2>2. IF o \in Parsed THEN Observe(s, o) ELSE UNCHANGED obs
    <3>1. o \in Tolerated => o \notin Parsed
      BY DEF Tolerated, Parsed
    <3>2. QED
      BY <1>6, <3>1, StrictErrorResult, Zenon DEF ReadRPCStats, resultVars
  <2>3. /\ Turned \subseteq Turned' /\ s \in Turned' /\ obs \subseteq obs'
        /\ DoneBefore(obs', Turned', idx, target)
        /\ ObservedOf(obs', idx, target)
    BY <1>1, <1>2, <1>4, <2>2, ReadKeeps, Zenon
  <2>4. StatsDone(obs', Turned', Current)
    BY <1>4, <2>3, StagesGrow, Zenon DEF AccountInv
  <2>5. param' = 1
    BY <1>1, <2>1 DEF TypeInv, LoopOK, loopVars
  <2>6. ParamsDone(Turned', Current, param')
    BY <1>3, <2>3, <2>5, FirstParam, Zenon
  <2>7. QED
    BY <1>1, <2>1, <2>3, <2>4, <2>6, AccountParams, Zenon DEF loopVars
<1>7. QED
  BY <1>5, <1>6, Zenon

\* Reading a parameter file of a target accounts for it, at its last root.
LEMMA AccountReadParam ==
  ASSUME TypeInv, AccountInv, NEW o \in Outcomes, ReadParam(o)
  PROVE  AccountInv'
<1> DEFINE s == SourceOf(Current, Params[param])
<1>1. /\ pc = "params" /\ UNCHANGED idx
      /\ \E e : Read(s, e, o)
  BY Zenon DEF ReadParam, AtTarget, ReadOf, discoveryVars
<1>2. target \in 1..Len(idx.targets) /\ param \in 1..Len(Params)
  BY ReadingType, Zenon
<1>3. ParamFiles[Current.component] \in Seq(STRING)
  BY <1>2, CurrentFacts, Zenon
<1>4. pc \in {"stats", "rpc_stats", "params"} /\ pc \in {"rpc_stats", "params"}
  BY <1>1
<1>5. CASE Fail
  BY <1>5, AccountFails, Zenon
<1>6. CASE ~Fail
  <2>1. /\ UNCHANGED <<pc, target>>
        /\ UNCHANGED param \/ param' = param + 1
    BY <1>6, Zenon DEF ReadParam, NextParam
  <2>2. IF o \in Parsed THEN Observe(s, o) ELSE UNCHANGED obs
    BY <1>6, OutcomeKinds, Zenon DEF ReadParam, resultVars
  <2>3. /\ Turned \subseteq Turned' /\ s \in Turned' /\ obs \subseteq obs'
        /\ DoneBefore(obs', Turned', idx, target)
        /\ ObservedOf(obs', idx, target)
    BY <1>1, <1>2, <1>4, <2>2, ReadKeeps, Zenon
  <2>4. StatsDone(obs', Turned', Current)
    BY <1>4, <2>3, StagesGrow, Zenon DEF AccountInv
  <2>5. ParamsDone(Turned', Current, param)
    BY <1>1, <2>3, StagesGrow, Zenon DEF AccountInv
  <2>6. param \in DOMAIN ParamFiles[Current.component]
    BY <1>2, <1>3, ElementType, Zenon DEF Params
  <2>7. ParamsDone(Turned', Current, param + 1)
    BY <1>3, <2>3, <2>5, <2>6, NextParamDone, Zenon DEF Params
  <2>8. ParamsDone(Turned', Current, param')
    BY <2>1, <2>5, <2>7, Zenon
  <2>9. pc' = "params"
    BY <1>1, <2>1, Zenon
  <2>10. QED
    BY <1>1, <2>1, <2>3, <2>4, <2>8, <2>9, AccountParams, Zenon
<1>7. QED
  BY <1>5, <1>6, Zenon

\* A step accounts for what it turns to.
LEMMA AccountStep ==
  ASSUME TypeInv, AccountInv, [Next]_vars
  PROVE  AccountInv'
<1>1. TypeInv'
  BY TypeInvStep
<1>2. IndexInv(idx) /\ IndexInv(idx')
  BY <1>1, Zenon DEF TypeInv, IndexOK
<1>3. CASE UNCHANGED <<pc, idx, target, param, obs, err, failed>>
  <2>1. Turned' = Turned /\ Current' = Current
    BY <1>3, Zenon DEF Turned, Current
  <2>2. QED
    BY <1>3, <2>1, Zenon DEF AccountInv
<1>4. CASE \/ \E key \in {<<f.component, f.name>> : f \in Layout} : Remount(key)
           \/ Expire \/ UNCHANGED vars
  BY <1>3, <1>4, Zenon DEF Remount, Expire, vars, discoveryVars, loopVars, resultVars
<1>5. CASE /\ pc = "glob" /\ pc' \in {"glob", "ldlm"} /\ UNCHANGED <<obs, target>>
  <2>1. obs' = {} /\ target' = 1
    <3>1. pc \in {"glob", "ldlm"}
      BY <1>5
    <3>2. QED
      BY <1>5, <3>1, Zenon DEF AccountInv, TypeInv, LoopOK
  <2>2. DoneBefore(obs', Turned', idx', target')
    BY <1>2, <2>1, NoneBefore, Zenon
  <2>3. pc' \notin {"stats", "rpc_stats", "params", "returned"}
    BY <1>5
  <2>4. QED
    BY <2>1, <2>2, <2>3, Zenon DEF AccountInv
<1>6. CASE \/ Glob \/ (\E o \in {"timeout", "refused"} : GlobFails(o))
           \/ (\E name \in Names : Index(name)) \/ EndDiscovery
  BY <1>5, <1>6, Zenon DEF Glob, GlobFails, Index, EndDiscovery, loopVars, resultVars
<1>7. ASSUME NEW o \in Outcomes, ReadLDLM(o)
      PROVE  AccountInv'
  <2>1. pc = "ldlm" /\ UNCHANGED idx
    BY <1>7, Zenon DEF ReadLDLM, discoveryVars
  <2>2. obs = {} /\ target = 1
    <3>1. pc \in {"glob", "ldlm"}
      BY <2>1
    <3>2. QED
      BY <3>1, Zenon DEF AccountInv, TypeInv, LoopOK
  <2>3. CASE Fail
    BY <2>3, AccountFails, Zenon
  <2>4. CASE UNCHANGED <<pc, target, obs>>
    <3>1. obs' = {} /\ target' = 1
      BY <2>2, <2>4, Zenon
    <3>2. DoneBefore(obs', Turned', idx', target')
      BY <1>2, <3>1, NoneBefore, Zenon
    <3>3. pc' \notin {"stats", "rpc_stats", "params", "returned"}
      BY <2>1, <2>4
    <3>4. QED
      BY <3>1, <3>2, <3>3, Zenon DEF AccountInv
  <2>5. CASE NextTarget(1) /\ obs' \subseteq {LDLM}
    <3>1. target' = 1 /\ pc' = "stats"
      BY <2>5, Zenon DEF NextTarget
    <3>2. DoneBefore(obs', Turned', idx', target')
      BY <1>2, <3>1, NoneBefore, Zenon
    <3>3. ObservedOf(obs', idx', target' - 1)
      BY <2>5, Zenon DEF ObservedOf
    <3>4. pc' \notin {"glob", "ldlm", "rpc_stats", "params", "returned"}
      BY <3>1
    <3>5. QED
      BY <3>1, <3>2, <3>3, <3>4, Zenon DEF AccountInv
  <2>6. Fail \/ UNCHANGED <<pc, target, obs>> \/ (NextTarget(1) /\ obs' \subseteq {LDLM})
    <3>1. UNCHANGED resultVars => obs' = {}
      BY <2>2, Zenon DEF resultVars
    <3>2. Observe(LDLM, o) => obs' = {LDLM}
      <4>1. Observe(LDLM, o) => obs' = obs \cup {LDLM}
        BY Zenon DEF Observe
      <4>2. QED
        BY <2>2, <4>1
    <3>3. QED
      BY <1>7, <2>2, <3>1, <3>2, Zenon DEF ReadLDLM
  <2>7. QED
    BY <2>3, <2>4, <2>5, <2>6, Zenon
<1>8. CASE SkipStats
  <2>1. /\ pc = "stats" /\ pc' = "rpc_stats" /\ Current.stats = NoPath
        /\ UNCHANGED <<idx, loopVars, obs, failed>>
    BY <1>8, Zenon DEF SkipStats, AtTarget, discoveryVars, resultVars
  <2>2. target \in 1..Len(idx.targets)
    BY <1>8, Lengths, IndexBelow, Zenon DEF SkipStats, AtTarget, TypeInv, LoopOK
  <2>3. StatsDone(obs', Turned', Current)
    BY <2>1, <2>2, CurrentFacts, Zenon DEF StatsDone
  <2>4. obs' = obs /\ Turned' = Turned /\ idx' = idx
    BY <2>1, Zenon DEF Turned
  <2>5. pc # "returned"
    BY <2>1
  <2>6. DoneBefore(obs', Turned', idx, target)
    BY <2>4, <2>5, Zenon DEF AccountInv
  <2>7. ObservedOf(obs', idx, target)
    <3>1. ObservedOf(obs, idx, target - 1)
      BY <2>1, Zenon DEF AccountInv
    <3>2. \A i \in DOMAIN idx.targets : i <= target - 1 => i <= target
      <4>1. idx.targets \in Seq(ClientTarget)
        BY <1>2, Zenon DEF IndexInv
      <4>2. DOMAIN idx.targets \subseteq Nat
        BY <4>1
      <4>3. target \in DOMAIN idx.targets
        BY <2>2, CurrentFacts, Zenon
      <4>4. QED
        BY <4>2, <4>3
    <3>3. QED
      BY <2>4, <3>1, <3>2, Zenon DEF ObservedOf
  <2>8. QED
    BY <2>1, <2>3, <2>6, <2>7, AccountRPCStats, Zenon
<1>9. CASE SkipRPCStats
  <2>1. /\ pc = "rpc_stats" /\ pc' = "params" /\ Current.rpc_stats = NoPath
        /\ UNCHANGED <<idx, loopVars, obs, failed>>
    BY <1>9, Zenon DEF SkipRPCStats, AtTarget, discoveryVars, resultVars
  <2>2. target \in 1..Len(idx.targets) /\ param' = 1
    BY <2>1 DEF TypeInv, LoopOK, loopVars
  <2>3. obs' = obs /\ Turned' = Turned /\ UNCHANGED <<idx, target>>
    BY <2>1, Zenon DEF Turned, loopVars
  <2>4. pc # "returned" /\ pc \in {"rpc_stats", "params"}
    BY <2>1
  <2>5. /\ DoneBefore(obs', Turned', idx, target) /\ ObservedOf(obs', idx, target)
        /\ StatsDone(obs', Turned', Current)
    BY <2>3, <2>4, Zenon DEF AccountInv
  <2>6. ParamsDone(Turned', Current, param')
    BY <2>1, <2>2, CurrentFacts, FirstParam, Zenon
  <2>7. QED
    BY <2>1, <2>3, <2>5, <2>6, AccountParams, Zenon
<1>10. CASE EndTarget
  <2>1. /\ pc = "params" /\ ~(param <= Len(Params)) /\ NextTarget(target + 1)
        /\ UNCHANGED <<idx, obs, failed>>
    <3>1. /\ pc = "params" /\ param > Len(Params) /\ NextTarget(target + 1)
          /\ UNCHANGED <<idx, obs, failed>>
      BY <1>10, Zenon DEF EndTarget, AtTarget, discoveryVars, resultVars
    <3>2. param \in 1..Len(Params) + 1 /\ Len(Params) \in Nat
      BY <3>1, Lengths, Zenon DEF TypeInv, LoopOK
    <3>3. ~(param <= Len(Params))
      BY <3>1, <3>2, PastTheEnd, Zenon
    <3>4. QED
      BY <3>1, <3>3, Zenon
  <2>2. target \in 1..Len(idx.targets) /\ pc # "returned" /\ pc \in {"rpc_stats", "params"}
    BY <2>1 DEF TypeInv, LoopOK
  <2>3. obs' = obs /\ Turned' = Turned
    BY <2>1, Zenon DEF Turned
  <2>4. /\ DoneBefore(obs', Turned', idx, target) /\ ObservedOf(obs', idx, target)
        /\ StatsDone(obs', Turned', Current) /\ ParamsDone(Turned', Current, param)
    BY <2>1, <2>2, <2>3, Zenon DEF AccountInv
  <2>5. param \in Nat
    <3>1. param \in 1..Len(Params) + 1
      BY <2>1, Zenon DEF TypeInv, LoopOK
    <3>2. QED
      BY <3>1, PositiveIndex, Zenon
  <2>6. DoneWith(obs', Turned', Current)
    BY <2>1, <2>2, <2>4, <2>5, CurrentFacts, LastParamDone, Zenon DEF Params
  <2>7. QED
    BY <1>1, <2>1, <2>2, <2>4, <2>6, AccountNextTarget, Zenon
<1>11. CASE Return
  <2>1. /\ pc = "stats" /\ target > Len(idx.targets) /\ pc' = "returned" /\ err' = garbled
        /\ obs' = IF garbled THEN {} ELSE obs
        /\ UNCHANGED <<idx, failed>>
    BY <1>11, Zenon DEF Return, Emit, discoveryVars
  <2>2. ASSUME ~err' PROVE \A t \in ToSet(idx.targets) : DoneWith(obs', Turned', t)
    <3>1. obs' = obs /\ Turned' = Turned
      BY <2>1, <2>2, Zenon DEF Turned
    <3>2. pc # "returned"
      BY <2>1
    <3>3. \A i \in DOMAIN idx.targets : i < target
      <4>1. idx.targets \in Seq(ClientTarget)
        BY <1>2, Zenon DEF IndexInv
      <4>2. target \in 1..Len(idx.targets) + 1
        BY Zenon DEF TypeInv, LoopOK
      <4>3. QED
        BY <2>1, <4>1, <4>2, AllBefore, Zenon
    <3>4. \A i \in DOMAIN idx.targets : DoneWith(obs', Turned', idx.targets[i])
      BY <3>1, <3>2, <3>3, Zenon DEF AccountInv, DoneBefore
    <3>5. QED
      BY <3>4, Zenon DEF ToSet
  <2>3. pc' \notin {"glob", "ldlm", "stats", "rpc_stats", "params"}
    BY <2>1
  <2>4. QED
    BY <2>1, <2>2, <2>3, Zenon DEF AccountInv
<1>12. QED
  BY <1>1, <1>4, <1>6, <1>7, <1>8, <1>9, <1>10, <1>11, AccountStats, AccountReadRPCStats,
     AccountReadParam, Zenon DEF Next, Quiescent

\* A run that returns metrics has turned to every file of every target it
\* found, whatever failed before: an import gives its rpc_stats and parameters
\* without its stats, a mount gives nothing without them (client.go:95-109,
\* 187-209).
THEOREM EverySourceIsTurnedTo == Spec => []OneFailureCostsOneSource
<1>1. Init => TypeInv /\ AccountInv
  <2>1. ASSUME Init PROVE AccountInv
    <3>1. pc = "glob" /\ target = 1 /\ obs = {}
      BY <2>1 DEF Init
    <3>2. IndexInv(idx)
      BY <2>1, NewIndexInv, Zenon DEF Init
    <3>3. DoneBefore(obs, Turned, idx, target)
      BY <3>1, <3>2, NoneBefore, Zenon
    <3>4. pc \notin {"stats", "rpc_stats", "params", "returned"}
      BY <3>1
    <3>5. QED
      BY <3>1, <3>3, <3>4, Zenon DEF AccountInv
  <2>2. QED
    BY <2>1, InitTypeInv, Zenon
<1>2. TypeInv /\ AccountInv /\ [Next]_vars => (TypeInv /\ AccountInv)'
  BY TypeInvStep, AccountStep, Zenon
<1>3. AccountInv => OneFailureCostsOneSource
  BY AccountInvImplies
<1>4. QED
  BY <1>1, <1>2, <1>3, PTL DEF Spec

-----------------------------------------------------------------------------
(* The order of the patterns.                                              *)

RootRank(rt) == IF rt = "proc" THEN 1 ELSE IF rt = "sys" THEN 2 ELSE 3

Group(file, component) ==
  IF file = "stats" THEN IF component = "llite" THEN 0 ELSE IF component = "mdc" THEN 1 ELSE 2
                    ELSE IF component = "mdc" THEN 3 ELSE 4

\* The position of a pattern.
Code(p) == 3 * Group(p.file, p.component) + RootRank(p.root)

Coded(s) == s \in Seq(SearchPattern) /\ \A i \in 1..Len(s) : Code(s[i]) = i

\* The three patterns of one file of one component, which come after n others.
Three(s, n) ==
  Len(s) = 3 /\ Code(s[1]) = n + 1 /\ Code(s[2]) = n + 2 /\ Code(s[3]) = n + 3

\* They are in the order of the roots.
LEMMA PatternsOfCode ==
  ASSUME NEW file, NEW component, NEW n, n = 3 * Group(file, component)
  PROVE  Three(PatternsOf(file, component), n)
<1> DEFINE P(rt) == [file |-> file, component |-> component, root |-> rt]
<1>1. \A rt : P(rt).file = file /\ P(rt).component = component /\ P(rt).root = rt
  OBVIOUS
<1>2. PICK a, b, c : a = P("proc") /\ b = P("sys") /\ c = P("debug")
  BY Zenon
<1>3. PICK s : s = PatternsOf(file, component)
  BY Zenon
<1>4. s = <<a, b, c>>
  BY <1>2, <1>3, Zenon DEF PatternsOf
<1>5. Len(s) = 3 /\ s[1] = a /\ s[2] = b /\ s[3] = c
  BY <1>4
<1>6. Code(a) = n + 1 /\ Code(b) = n + 2 /\ Code(c) = n + 3
  <2>1. RootRank(a.root) = 1 /\ RootRank(b.root) = 2 /\ RootRank(c.root) = 3
    BY <1>1, <1>2 DEF RootRank
  <2>2. /\ Code(a) = n + RootRank(a.root)
        /\ Code(b) = n + RootRank(b.root)
        /\ Code(c) = n + RootRank(c.root)
    BY <1>1, <1>2, Zenon DEF Code
  <2>3. QED
    BY <2>1, <2>2, Zenon
<1>7. QED
  BY <1>3, <1>5, <1>6, Zenon DEF Three

\* A list after a list.
LEMMA Concat ==
  ASSUME NEW S, NEW s \in Seq(S), NEW t \in Seq(S)
  PROVE  /\ s \o t \in Seq(S)
         /\ Len(s \o t) = Len(s) + Len(t)
         /\ \A i \in 1..Len(s) : (s \o t)[i] = s[i]
<1>1. s \o t \in Seq(S) /\ Len(s \o t) = Len(s) + Len(t)
  OBVIOUS
<1>2. \A i \in 1..Len(s) : (s \o t)[i] = s[i]
  OBVIOUS
<1>3. QED
  BY <1>1, <1>2

\* Its second part.
LEMMA ConcatSecond ==
  ASSUME NEW S, NEW s \in Seq(S), NEW t \in Seq(S), NEW k \in 1..Len(t)
  PROVE  (s \o t)[Len(s) + k] = t[k]
OBVIOUS

\* The indices up to three more.
LEMMA ThreeMore ==
  ASSUME NEW n \in Nat, NEW i \in 1..n + 3
  PROVE  i \in 1..n \/ i = n + 1 \/ i = n + 2 \/ i = n + 3
OBVIOUS

\* The patterns of one more file of a component.
LEMMA CodeAppend ==
  ASSUME NEW s, Coded(s), NEW t \in Seq(SearchPattern), Three(t, Len(s))
  PROVE  Coded(s \o t) /\ Len(s \o t) = Len(s) + 3
<1>1. s \in Seq(SearchPattern) /\ \A i \in 1..Len(s) : Code(s[i]) = i
  BY Zenon DEF Coded
<1>2. PICK n : n = Len(s)
  BY Zenon
<1>3. n \in Nat
  BY <1>1, <1>2
<1>4. Len(t) = 3 /\ Code(t[1]) = n + 1 /\ Code(t[2]) = n + 2 /\ Code(t[3]) = n + 3
  BY <1>2, Zenon DEF Three
<1>5. \A i \in 1..n : (s \o t)[i] = s[i]
  BY <1>1, <1>2, Concat, Zenon
<1>7. (s \o t)[n + 1] = t[1] /\ (s \o t)[n + 2] = t[2] /\ (s \o t)[n + 3] = t[3]
  <2>1. 1 \in 1..Len(t) /\ 2 \in 1..Len(t) /\ 3 \in 1..Len(t)
    BY <1>4
  <2>2. \A k \in 1..Len(t) : (s \o t)[Len(s) + k] = t[k]
    BY <1>1, ConcatSecond, Zenon
  <2>3. QED
    BY <1>2, <2>1, <2>2, Zenon
<1>8. \A i \in 1..n + 3 : Code((s \o t)[i]) = i
  BY <1>1, <1>2, <1>3, <1>4, <1>5, <1>7, ThreeMore, Zenon
<1>9. s \o t \in Seq(SearchPattern) /\ Len(s \o t) = Len(s) + Len(t)
  BY <1>1, Concat
<1>10. Len(s \o t) = n + 3
  BY <1>2, <1>4, <1>9, Zenon
<1>11. QED
  BY <1>2, <1>8, <1>9, <1>10, Zenon DEF Coded

\* No patterns.
LEMMA CodeNone == Coded(<<>>) /\ Len(<<>>) = 0
BY DEF Coded

\* The i-th pattern has the code i.
LEMMA PatternsCode == Coded(Patterns) /\ Len(Patterns) = 15
<1>1. PICK a, b, c, d, e :
        /\ a = PatternsOf("stats", "llite") /\ b = PatternsOf("stats", "mdc")
        /\ c = PatternsOf("stats", "osc") /\ d = PatternsOf("rpc_stats", "mdc")
        /\ e = PatternsOf("rpc_stats", "osc")
  BY Zenon
<1>2. /\ a \in Seq(SearchPattern) /\ b \in Seq(SearchPattern) /\ c \in Seq(SearchPattern)
      /\ d \in Seq(SearchPattern) /\ e \in Seq(SearchPattern)
  <2>1. \A component \in Components : PatternsOf("stats", component) \in Seq(SearchPattern)
    BY PatternsOfType
  <2>2. \A component \in Components :
          component # "llite" => PatternsOf("rpc_stats", component) \in Seq(SearchPattern)
    BY PatternsOfType
  <2>3. "llite" \in Components /\ "mdc" \in Components /\ "osc" \in Components
    BY DEF Components
  <2>4. "mdc" # "llite" /\ "osc" # "llite"
    OBVIOUS
  <2>5. QED
    BY <1>1, <2>1, <2>2, <2>3, <2>4, Zenon
<1>3. /\ 0 = 3 * Group("stats", "llite") /\ 3 = 3 * Group("stats", "mdc")
      /\ 6 = 3 * Group("stats", "osc") /\ 9 = 3 * Group("rpc_stats", "mdc")
      /\ 12 = 3 * Group("rpc_stats", "osc")
  BY DEF Group
<1>4. Three(a, 0)
  BY <1>1, <1>3, PatternsOfCode, Zenon
<1>5. Three(b, 3)
  BY <1>1, <1>3, PatternsOfCode, Zenon
<1>6. Three(c, 6)
  BY <1>1, <1>3, PatternsOfCode, Zenon
<1>7. Three(d, 9)
  BY <1>1, <1>3, PatternsOfCode, Zenon
<1>8. Three(e, 12)
  BY <1>1, <1>3, PatternsOfCode, Zenon
<1>9. 3 \in Nat /\ 6 \in Nat /\ 9 \in Nat /\ 12 \in Nat
      /\ 3 + 3 = 6 /\ 6 + 3 = 9 /\ 9 + 3 = 12 /\ 12 + 3 = 15
  OBVIOUS
<1>10. Coded(a) /\ Len(a) = 3
  <2>1. <<>> \o a = a
    BY <1>2
  <2>2. Coded(<<>> \o a) /\ Len(<<>> \o a) = Len(<<>>) + 3
    BY <1>2, <1>4, CodeNone, CodeAppend, Zenon
  <2>3. Len(<<>>) + 3 = 3
    OBVIOUS
  <2>4. QED
    BY <2>1, <2>2, <2>3, Zenon
<1>11. Coded(a \o b) /\ Len(a \o b) = 6
  BY <1>2, <1>5, <1>9, <1>10, CodeAppend, Zenon
<1>12. Coded((a \o b) \o c) /\ Len((a \o b) \o c) = 9
  BY <1>2, <1>6, <1>9, <1>11, CodeAppend, Zenon
<1>13. Coded(((a \o b) \o c) \o d) /\ Len(((a \o b) \o c) \o d) = 12
  BY <1>2, <1>7, <1>9, <1>12, CodeAppend, Zenon
<1>14. Coded((((a \o b) \o c) \o d) \o e) /\ Len((((a \o b) \o c) \o d) \o e) = 15
  BY <1>2, <1>8, <1>9, <1>13, CodeAppend, Zenon
<1>15. Patterns = (((a \o b) \o c) \o d) \o e
  BY <1>1, Zenon DEF Patterns
<1>16. QED
  BY <1>14, <1>15, Zenon

-----------------------------------------------------------------------------
(* What the globs have found.                                              *)

Place(file, key, rt) == [file |-> file, component |-> key[1], root |-> rt]

\* A glob found the file of a target under a root.
FoundAt(g, file, key, rt) == key[2] \in g[Place(file, key, rt)]

FirstOf(g, file, key) ==
  IF FoundAt(g, file, key, "proc") THEN "proc"
  ELSE IF FoundAt(g, file, key, "sys") THEN "sys"
  ELSE IF FoundAt(g, file, key, "debug") THEN "debug"
  ELSE NoPath

\* No root is the empty path.
LEMMA RootsAreNoPath == "proc" # NoPath /\ "sys" # NoPath /\ "debug" # NoPath
BY DiscoveryAssumption DEF RootNames

\* The least of a set of indices of roots.
LEMMA LeastRoot ==
  ASSUME NEW S \in SUBSET (1..3), S # {}
  PROVE  Min(S) = IF 1 \in S THEN 1 ELSE IF 2 \in S THEN 2 ELSE 3
<1> DEFINE m == IF 1 \in S THEN 1 ELSE IF 2 \in S THEN 2 ELSE 3
<1>1. m \in S /\ \A y \in S : m <= y
  <2>1. \A y \in S : y = 1 \/ y = 2 \/ y = 3
    <3>1. \A y \in 1..3 : y = 1 \/ y = 2 \/ y = 3
      OBVIOUS
    <3>2. QED
      BY <3>1, Zenon
  <2>2. m \in S
    BY <2>1, Zenon
  <2>3. 1 <= 1 /\ 1 <= 2 /\ 1 <= 3 /\ 2 <= 2 /\ 2 <= 3 /\ 3 <= 3
    OBVIOUS
  <2>4. \A y \in S : m <= y
    BY <2>1, <2>3, Zenon
  <2>5. QED
    BY <2>2, <2>4
<1>2. Min(S) \in S /\ \A y \in S : Min(S) <= y
  <2>1. \E x \in S : \A y \in S : x <= y
    BY <1>1, Zenon
  <2>2. QED
    BY <2>1, Zenon DEF Min
<1>3. \A x, y \in S : x <= y /\ y <= x => x = y
  <2>1. S \subseteq Int
    OBVIOUS
  <2>2. QED
    BY <2>1
<1>4. QED
  BY <1>1, <1>2, <1>3, Zenon

\* The first root is the first of the three.
LEMMA FirstRootIs ==
  ASSUME NEW file, NEW key
  PROVE  FirstRoot(file, key) = FirstOf(globbed, file, key)
<1> DEFINE at(rt) == FoundAt(globbed, file, key, rt)
           found == {i \in DOMAIN Roots : at(Roots[i])}
<1>1. DOMAIN Roots = 1..3 /\ Roots[1] = "proc" /\ Roots[2] = "sys" /\ Roots[3] = "debug"
  BY DEF Roots
<1>2. FirstRoot(file, key) = IF found = {} THEN NoPath ELSE Roots[Min(found)]
  BY Zenon DEF FirstRoot, FoundAt, Place
<1>3. found \in SUBSET (1..3)
  BY <1>1, Zenon
<1>4. (1 \in found <=> at("proc")) /\ (2 \in found <=> at("sys")) /\ (3 \in found <=> at("debug"))
  <2>1. 1 \in 1..3 /\ 2 \in 1..3 /\ 3 \in 1..3
    OBVIOUS
  <2>2. QED
    BY <1>1, <2>1, Zenon
<1> HIDE DEF found
<1>5. FirstOf(globbed, file, key) =
        IF 1 \in found THEN Roots[1] ELSE IF 2 \in found THEN Roots[2]
        ELSE IF 3 \in found THEN Roots[3] ELSE NoPath
  BY <1>1, <1>4, Zenon DEF FirstOf
<1>6. CASE found = {}
  BY <1>2, <1>5, <1>6, Zenon
<1>7. CASE found # {}
  <2>1. Min(found) = IF 1 \in found THEN 1 ELSE IF 2 \in found THEN 2 ELSE 3
    BY <1>3, <1>7, LeastRoot, Zenon
  <2>2. 1 \in found \/ 2 \in found \/ 3 \in found
    <3>1. \A y \in 1..3 : y = 1 \/ y = 2 \/ y = 3
      OBVIOUS
    <3>2. QED
      BY <1>3, <1>7, <3>1, Zenon
  <2>3. QED
    BY <1>2, <1>5, <1>7, <2>1, <2>2, Zenon
<1>8. QED
  BY <1>6, <1>7

\* Patterns of one file of one component are in the order of their roots, and
\* those of stats files come before those of rpc_stats files.
LEMMA CodeOrder ==
  ASSUME NEW p \in Pattern, NEW q \in Pattern, Code(q) <= Code(p)
  PROVE  /\ q.file = p.file /\ q.component = p.component => RootRank(q.root) <= RootRank(p.root)
         /\ p.file = "stats" => q.file = "stats"
<1>1. \A r \in Pattern :
        /\ RootRank(r.root) \in 1..3
        /\ Group(r.file, r.component) \in IF r.file = "stats" THEN 0..2 ELSE 3..4
        /\ r.file \in {"stats", "rpc_stats"}
  BY DEF RootRank, Group, Pattern
<1>2. PICK i, j : i = Group(q.file, q.component) /\ j = Group(p.file, p.component)
  BY Zenon
<1>3. PICK k, l : k = RootRank(q.root) /\ l = RootRank(p.root)
  BY Zenon
<1>4. 3 * i + k <= 3 * j + l
  BY <1>2, <1>3, Zenon DEF Code
<1>5. i \in Nat /\ j \in Nat /\ k \in 1..3 /\ l \in 1..3
  BY <1>1, <1>2, <1>3
<1>6. q.file = p.file /\ q.component = p.component => k <= l
  <2>1. ASSUME i = j PROVE k <= l
    BY <1>4, <1>5, <2>1
  <2>2. QED
    BY <1>2, <2>1, Zenon
<1>7. p.file = "stats" => q.file = "stats"
  BY <1>1, <1>2, <1>4, <1>5
<1>8. QED
  BY <1>3, <1>6, <1>7, Zenon

\* One more match of a pattern.
WithMatch(g, p, name) == [g EXCEPT ![p] = @ \cup {name}]

\* The root of a file after it.
After(g, p, name, file, key) ==
  IF file = p.file /\ key = <<p.component, name>> /\ FirstOf(g, file, key) = NoPath
  THEN p.root ELSE FirstOf(g, file, key)

\* One more match of the last pattern that was globbed: the file of that target
\* is under the root where it was, or under the root of the pattern.
LEMMA FirstAfter ==
  ASSUME NEW g \in [Pattern -> SUBSET Names], NEW p \in Pattern, NEW name \in Names,
         \A q \in Pattern : g[q] # {} => Code(q) <= Code(p),
         NEW file \in {"stats", "rpc_stats"}, NEW key \in Keys
  PROVE  FirstOf(WithMatch(g, p, name), file, key) = After(g, p, name, file, key)
<1> DEFINE h == WithMatch(g, p, name)
<1>0. \A q \in Pattern : h[q] = IF q = p THEN g[q] \cup {name} ELSE g[q]
  BY DEF WithMatch
<1> HIDE DEF h
<1> DEFINE was(rt) == FoundAt(g, file, key, rt)
           is(rt) == FoundAt(h, file, key, rt)
           here == file = p.file /\ key = <<p.component, name>>
<1>1. "proc" \in RootNames /\ "sys" \in RootNames /\ "debug" \in RootNames
  BY DEF RootNames
<1>2. \A rt \in RootNames :
        /\ Place(file, key, rt) \in Pattern
        /\ Place(file, key, rt).file = file
        /\ Place(file, key, rt).component = key[1]
        /\ Place(file, key, rt).root = rt
  BY DEF Place, Pattern, Keys
<1>3. \A rt \in RootNames : Place(file, key, rt) = p <=> file = p.file /\ key[1] = p.component /\ rt = p.root
  BY <1>2 DEF Place, Pattern
<1>4. key = <<p.component, name>> <=> key[1] = p.component /\ key[2] = name
  BY DEF Keys
<1>6. \A rt \in RootNames : is(rt) <=> was(rt) \/ (here /\ rt = p.root)
  <2> SUFFICES ASSUME NEW rt \in RootNames
               PROVE  is(rt) <=> was(rt) \/ (here /\ rt = p.root)
    OBVIOUS
  <2>1. PICK q : q = Place(file, key, rt)
    BY Zenon
  <2>2. q \in Pattern /\ (q = p <=> file = p.file /\ key[1] = p.component /\ rt = p.root)
    BY <1>2, <1>3, <2>1, Zenon
  <2>3. key[2] \in h[q] <=> key[2] \in g[q] \/ (q = p /\ key[2] = name)
    BY <1>0, <2>2, Zenon
  <2>4. QED
    BY <1>4, <2>1, <2>2, <2>3, Zenon DEF FoundAt
<1>7. CASE ~here
  <2>1. (is("proc") <=> was("proc")) /\ (is("sys") <=> was("sys")) /\ (is("debug") <=> was("debug"))
    BY <1>1, <1>6, <1>7, Zenon
  <2>2. FirstOf(h, file, key) = FirstOf(g, file, key)
    BY <2>1, Zenon DEF FirstOf
  <2>3. QED
    BY <1>7, <2>2, Zenon DEF After, h
<1>8. CASE here
  <2>1. \A rt \in RootNames : was(rt) => RootRank(rt) <= RootRank(p.root)
    <3> SUFFICES ASSUME NEW rt \in RootNames, was(rt)
                 PROVE  RootRank(rt) <= RootRank(p.root)
      OBVIOUS
    <3>1. PICK q : q = Place(file, key, rt)
      BY Zenon
    <3>2. q \in Pattern /\ q.file = p.file /\ q.component = p.component /\ q.root = rt
      BY <1>2, <1>4, <1>8, <3>1, Zenon
    <3>3. g[q] # {}
      BY <3>1, Zenon DEF FoundAt
    <3>4. QED
      BY <3>2, <3>3, CodeOrder, Zenon
  <2>2. p.root \in RootNames
    BY DEF Pattern
  <2>3. (is("proc") <=> was("proc") \/ p.root = "proc")
        /\ (is("sys") <=> was("sys") \/ p.root = "sys")
        /\ (is("debug") <=> was("debug") \/ p.root = "debug")
    BY <1>1, <1>6, <1>8, Zenon
  <2> HIDE DEF was, is, here
  <2>4. FirstOf(g, file, key) = IF was("proc") THEN "proc" ELSE IF was("sys") THEN "sys"
                                ELSE IF was("debug") THEN "debug" ELSE NoPath
    BY Zenon DEF FirstOf, was
  <2>5. FirstOf(h, file, key) = IF is("proc") THEN "proc" ELSE IF is("sys") THEN "sys"
                                ELSE IF is("debug") THEN "debug" ELSE NoPath
    BY Zenon DEF FirstOf, is
  <2>6. FirstOf(h, file, key) = IF FirstOf(g, file, key) = NoPath THEN p.root
                                ELSE FirstOf(g, file, key)
    <3>1. CASE p.root = "proc"
      <4>1. ~was("sys") /\ ~was("debug")
        BY <1>1, <2>1, <3>1 DEF RootRank
      <4>2. is("proc")
        BY <2>3, <3>1, Zenon
      <4>3. QED
        BY <2>4, <2>5, <3>1, <4>1, <4>2, RootsAreNoPath, Zenon
    <3>2. CASE p.root = "sys"
      <4>1. ~was("debug")
        BY <1>1, <2>1, <3>2 DEF RootRank
      <4>2. is("sys") /\ (is("proc") <=> was("proc"))
        BY <2>3, <3>2
      <4>3. QED
        BY <2>4, <2>5, <3>2, <4>1, <4>2, RootsAreNoPath, Zenon
    <3>3. CASE p.root = "debug"
      <4>1. is("debug") /\ (is("proc") <=> was("proc")) /\ (is("sys") <=> was("sys"))
        BY <2>3, <3>3
      <4>2. QED
        BY <2>4, <2>5, <3>3, <4>1, RootsAreNoPath, Zenon
    <3>4. QED
      BY <2>2, <3>1, <3>2, <3>3, Zenon DEF RootNames
  <2>7. QED
    BY <1>8, <2>6, Zenon DEF here, After, h
<1>9. QED
  BY <1>7, <1>8, Zenon

-----------------------------------------------------------------------------
(* Discovery.                                                              *)

\* The first root of a file of each target.
Firsts(g, file) == [key \in Keys |-> FirstOf(g, file, key)]

\* The index has the targets for which s or r has a root, and those roots.
Reflects(x, s, r) ==
  /\ \A key \in Keys : key \in DOMAIN x.seen <=> s[key] # NoPath \/ r[key] # NoPath
  /\ \A key \in DOMAIN x.seen : /\ x.targets[x.seen[key]].stats = s[key]
                                /\ x.targets[x.seen[key]].rpc_stats = r[key]

\* u and v are s and r with the roots of the target t, which has some.
Placed(s, r, key, t, u, v) ==
  /\ \A k \in Keys : k # key => u[k] = s[k] /\ v[k] = r[k]
  /\ u[key] = t.stats /\ v[key] = t.rpc_stats
  /\ u[key] # NoPath \/ v[key] # NoPath

\* A new target.
LEMMA AddTargetReflects ==
  ASSUME NEW x, IndexInv(x), NEW s, NEW r, Reflects(x, s, r),
         NEW key \in Keys, ~Seen(x, key), NEW t,
         NEW u, NEW v, Placed(s, r, key, t, u, v)
  PROVE  Reflects(AddTarget(x, key, t), u, v)
<1>0. /\ \A k \in Keys : k # key => u[k] = s[k] /\ v[k] = r[k]
      /\ u[key] = t.stats /\ v[key] = t.rpc_stats
      /\ u[key] # NoPath \/ v[key] # NoPath
  BY Zenon DEF Placed
<1> DEFINE y == AddTarget(x, key, t)
<1>1. /\ y.targets = Append(x.targets, t)
      /\ y.seen = [k \in DOMAIN x.seen \cup {key} |->
                    IF k = key THEN Len(x.targets) + 1 ELSE x.seen[k]]
  BY DEF AddTarget
<1> HIDE DEF y
<1>2. PICK n : n = Len(x.targets) + 1
  BY Zenon
<1>3. x.targets \in Seq(ClientTarget) /\ x.seen \in [DOMAIN x.seen -> DOMAIN x.targets]
  BY Zenon DEF IndexInv
<1>4. y.targets[n] = t /\ \A i \in DOMAIN x.targets : y.targets[i] = x.targets[i]
  BY <1>1, <1>2, <1>3
<1>5. DOMAIN y.seen = DOMAIN x.seen \cup {key} /\ y.seen[key] = n
  BY <1>1, <1>2
<1>6. \A k \in DOMAIN x.seen : k # key /\ y.seen[k] = x.seen[k] /\ x.seen[k] \in DOMAIN x.targets
  BY <1>1, <1>3 DEF Seen
<1>7. ASSUME NEW k \in Keys
      PROVE  k \in DOMAIN y.seen <=> u[k] # NoPath \/ v[k] # NoPath
  <2>1. CASE k = key
    BY <1>0, <1>5, <2>1, Zenon
  <2>2. CASE k # key
    BY <1>0, <1>5, <2>2, Zenon DEF Reflects
  <2>3. QED
    BY <2>1, <2>2, Zenon
<1>8. ASSUME NEW k \in DOMAIN y.seen
      PROVE  y.targets[y.seen[k]].stats = u[k] /\ y.targets[y.seen[k]].rpc_stats = v[k]
  <2>1. CASE k = key
    BY <1>0, <1>4, <1>5, <2>1, Zenon
  <2>2. CASE k # key
    <3>1. k \in DOMAIN x.seen /\ k \in Keys
      BY <1>5, <2>2, Zenon DEF IndexInv
    <3>2. y.targets[y.seen[k]] = x.targets[x.seen[k]]
      BY <1>4, <1>6, <3>1, Zenon
    <3>3. QED
      BY <1>0, <2>2, <3>1, <3>2, Zenon DEF Reflects
  <2>3. QED
    BY <2>1, <2>2, Zenon
<1>9. QED
  BY <1>7, <1>8, Zenon DEF Reflects, y

\* v is r with a root for the target of a key.
Updated(r, key, rt, v) == \A k \in Keys : v[k] = IF k = key THEN rt ELSE r[k]

\* An rpc_stats file for a target that has none.
LEMMA SetRPCStatsReflects ==
  ASSUME NEW x, IndexInv(x), NEW s, NEW r, Reflects(x, s, r),
         NEW key \in DOMAIN x.seen, NEW rt, rt # NoPath,
         NEW v, Updated(r, key, rt, v)
  PROVE  Reflects([x EXCEPT !.targets[x.seen[key]].rpc_stats = rt], s, v)
<1>0. \A k \in Keys : v[k] = IF k = key THEN rt ELSE r[k]
  BY Zenon DEF Updated
<1> DEFINE i == x.seen[key]
           y == [x EXCEPT !.targets[x.seen[key]].rpc_stats = rt]
           u == [x.targets[i] EXCEPT !.rpc_stats = rt]
<1>1. /\ x.targets \in Seq(ClientTarget)
      /\ \A k \in DOMAIN x.seen : x.seen[k] \in DOMAIN x.targets
      /\ x = [targets |-> x.targets, seen |-> x.seen]
  BY DEF IndexInv
<1>2. x.targets[i] \in ClientTarget
  BY <1>1
<1>3. u.rpc_stats = rt /\ u.stats = x.targets[i].stats
  BY <1>2 DEF ClientTarget
<1>4. y = [x EXCEPT !.targets = [x.targets EXCEPT ![i] = u]]
  BY NestedUpdate, Zenon
<1> HIDE DEF y, u, i
<1>5. y.targets = [x.targets EXCEPT ![i] = u] /\ y.seen = x.seen
  BY <1>1, <1>4
<1>6. \A j \in DOMAIN x.targets : y.targets[j] = IF j = i THEN u ELSE x.targets[j]
  BY <1>1, <1>5
<1>7. \A j, k \in DOMAIN x.seen : x.seen[j] = x.seen[k] => j = k
  BY Zenon DEF IndexInv
<1>8. ASSUME NEW k \in DOMAIN y.seen
      PROVE  y.targets[y.seen[k]].stats = s[k] /\ y.targets[y.seen[k]].rpc_stats = v[k]
  <2>1. k \in DOMAIN x.seen /\ k \in Keys /\ y.seen[k] = x.seen[k] /\ x.seen[k] \in DOMAIN x.targets
    BY <1>1, <1>5, Zenon DEF IndexInv
  <2>2. CASE k = key
    <3>1. y.targets[y.seen[k]] = u /\ x.targets[i] = x.targets[x.seen[k]]
      BY <1>6, <2>1, <2>2, Zenon DEF i
    <3>2. QED
      BY <1>0, <1>3, <2>1, <2>2, <3>1, Zenon DEF Reflects
  <2>3. CASE k # key
    <3>1. y.targets[y.seen[k]] = x.targets[x.seen[k]]
      BY <1>6, <1>7, <2>1, <2>3, Zenon DEF i
    <3>2. QED
      BY <1>0, <2>1, <2>3, <3>1, Zenon DEF Reflects
  <2>4. QED
    BY <2>2, <2>3, Zenon
<1>9. ASSUME NEW k \in Keys
      PROVE  k \in DOMAIN y.seen <=> s[k] # NoPath \/ v[k] # NoPath
  <2>1. k \in DOMAIN x.seen <=> s[k] # NoPath \/ r[k] # NoPath
    BY Zenon DEF Reflects
  <2>2. QED
    BY <1>0, <1>5, <2>1, Zenon
<1>10. QED
  BY <1>8, <1>9, Zenon DEF Reflects, y

\* Reflects depends on the roots of the keys only.
LEMMA ReflectsSame ==
  ASSUME NEW x, DOMAIN x.seen \subseteq Keys, NEW s, NEW r, Reflects(x, s, r),
         NEW u, NEW v, \A k \in Keys : u[k] = s[k] /\ v[k] = r[k]
  PROVE  Reflects(x, u, v)
BY Zenon DEF Reflects

\* One match is added to the index as it is added to what the globs have found:
\* a stats file counts if no file of the target was found before, which is the
\* case if no stats file was; an rpc_stats file if no rpc_stats file was.
LEMMA AddMatchReflects ==
  ASSUME NEW x, IndexInv(x), NEW p \in SearchPattern, NEW name \in Names,
         NEW g \in [Pattern -> SUBSET Names],
         \A q \in Pattern : g[q] # {} => Code(q) <= Code(p),
         Reflects(x, Firsts(g, "stats"), Firsts(g, "rpc_stats"))
  PROVE  Reflects(AddMatch(x, p, name), Firsts(WithMatch(g, p, name), "stats"),
                  Firsts(WithMatch(g, p, name), "rpc_stats"))
<1> DEFINE h == WithMatch(g, p, name)
<1>1. PICK s, r, u, v : /\ s = Firsts(g, "stats") /\ r = Firsts(g, "rpc_stats")
                        /\ u = Firsts(h, "stats") /\ v = Firsts(h, "rpc_stats")
  BY Zenon
<1>2. PICK key : key = <<p.component, name>>
  BY Zenon
<1>3. /\ p \in Pattern /\ p.component \in Components
      /\ p.root \in RootNames /\ p.root # NoPath /\ p.file \in {"stats", "rpc_stats"}
  BY DiscoveryAssumption DEF SearchPattern, Pattern
<1>4. key \in Keys
  BY <1>2, <1>3 DEF Keys
<1>5. \A k \in Keys :
        u[k] = IF "stats" = p.file /\ k = key /\ s[k] = NoPath THEN p.root ELSE s[k]
  <2>1. "stats" \in {"stats", "rpc_stats"}
    OBVIOUS
  <2>2. \A k \in Keys : s[k] = FirstOf(g, "stats", k) /\ u[k] = FirstOf(h, "stats", k)
    BY <1>1, Zenon DEF Firsts
  <2>3. \A k \in Keys : FirstOf(h, "stats", k) = After(g, p, name, "stats", k)
    BY <1>3, <2>1, FirstAfter, Zenon
  <2>4. QED
    BY <1>2, <2>2, <2>3, Zenon DEF After
<1>6. \A k \in Keys :
        v[k] = IF "rpc_stats" = p.file /\ k = key /\ r[k] = NoPath THEN p.root ELSE r[k]
  <2>1. "rpc_stats" \in {"stats", "rpc_stats"}
    OBVIOUS
  <2>2. \A k \in Keys : r[k] = FirstOf(g, "rpc_stats", k) /\ v[k] = FirstOf(h, "rpc_stats", k)
    BY <1>1, Zenon DEF Firsts
  <2>3. \A k \in Keys : FirstOf(h, "rpc_stats", k) = After(g, p, name, "rpc_stats", k)
    BY <1>3, <2>1, FirstAfter, Zenon
  <2>4. QED
    BY <1>2, <2>2, <2>3, Zenon DEF After
<1>7. Reflects(x, s, r) /\ DOMAIN x.seen \subseteq Keys
  BY <1>1, Zenon DEF IndexInv
<1>8. Seen(x, key) <=> s[key] # NoPath \/ r[key] # NoPath
  BY <1>4, <1>7, Zenon DEF Seen, Reflects
<1>9. "stats" # "rpc_stats"
  OBVIOUS
<1>10. CASE p.file = "stats"
  <2>1. r[key] = NoPath
    <3>1. ASSUME NEW rt \in RootNames, FoundAt(g, "rpc_stats", key, rt) PROVE FALSE
      <4>1. PICK q : q = Place("rpc_stats", key, rt)
        BY Zenon
      <4>2. q \in Pattern /\ q.file = "rpc_stats"
        BY <1>4, <4>1 DEF Place, Pattern, Keys
      <4>3. g[q] # {}
        BY <3>1, <4>1, Zenon DEF FoundAt
      <4>4. Code(q) <= Code(p)
        BY <4>2, <4>3, Zenon
      <4>5. q.file = "stats"
        BY <1>3, <1>10, <4>2, <4>4, CodeOrder, Zenon
      <4>6. QED
        BY <1>9, <4>2, <4>5, Zenon
    <3>2. "proc" \in RootNames /\ "sys" \in RootNames /\ "debug" \in RootNames
      BY DEF RootNames
    <3>3. FirstOf(g, "rpc_stats", key) = NoPath
      BY <3>1, <3>2, Zenon DEF FirstOf
    <3>4. QED
      BY <1>1, <1>4, <3>3, Zenon DEF Firsts
  <2>2. \A k \in Keys : v[k] = r[k]
    BY <1>6, <1>9, <1>10, Zenon
  <2>3. \A k \in Keys : k # key => u[k] = s[k]
    BY <1>5, Zenon
  <2> DEFINE t == [component |-> p.component, name |-> name,
                   stats |-> p.root, rpc_stats |-> NoPath]
  <2>4. t.stats = p.root /\ t.rpc_stats = NoPath
    OBVIOUS
  <2>5. AddMatch(x, p, name) = IF Seen(x, key) THEN x ELSE AddTarget(x, key, t)
    BY <1>2, <1>10, Zenon DEF AddMatch, AddStats
  <2> HIDE DEF t
  <2>6. CASE Seen(x, key)
    <3>1. s[key] # NoPath
      BY <1>8, <2>1, <2>6, Zenon
    <3>2. \A k \in Keys : u[k] = s[k] /\ v[k] = r[k]
      BY <1>5, <2>2, <3>1, Zenon
    <3>3. Reflects(x, u, v)
      BY <1>7, <3>2, ReflectsSame, Zenon
    <3>4. QED
      BY <1>1, <2>5, <2>6, <3>3, Zenon
  <2>7. CASE ~Seen(x, key)
    <3>1. s[key] = NoPath
      BY <1>8, <2>7, Zenon
    <3>2. u[key] = p.root /\ v[key] = NoPath
      <4>1. u[key] = p.root
        BY <1>4, <1>5, <1>10, <3>1, Zenon
      <4>2. v[key] = NoPath
        BY <1>4, <2>1, <2>2, Zenon
      <4>3. QED
        BY <4>1, <4>2, Zenon
    <3>3. Reflects(AddTarget(x, key, t), u, v)
      <4>1. t.stats = u[key] /\ t.rpc_stats = v[key] /\ (u[key] # NoPath \/ v[key] # NoPath)
        BY <1>3, <2>4, <3>2, Zenon
      <4>2. \A k \in Keys : k # key => u[k] = s[k] /\ v[k] = r[k]
        BY <2>2, <2>3, Zenon
      <4>3. Placed(s, r, key, t, u, v)
        BY <4>1, <4>2, Zenon DEF Placed
      <4>4. QED
        BY <1>4, <1>7, <2>7, <4>3, AddTargetReflects, Zenon
    <3>4. QED
      BY <1>1, <2>5, <2>7, <3>3, Zenon
  <2>8. QED
    BY <2>6, <2>7, Zenon
<1>11. CASE p.file = "rpc_stats"
  <2>1. \A k \in Keys : u[k] = s[k]
    BY <1>5, <1>9, <1>11, Zenon
  <2>2. \A k \in Keys : k # key => v[k] = r[k]
    BY <1>6, Zenon
  <2> DEFINE t == [component |-> p.component, name |-> name,
                   stats |-> NoPath, rpc_stats |-> p.root]
  <2>3. t.stats = NoPath /\ t.rpc_stats = p.root
    OBVIOUS
  <2>4. AddMatch(x, p, name) =
          IF ~Seen(x, key) THEN AddTarget(x, key, t)
          ELSE IF x.targets[x.seen[key]].rpc_stats # NoPath THEN x
          ELSE [x EXCEPT !.targets[x.seen[key]].rpc_stats = p.root]
    BY <1>2, <1>9, <1>11, Zenon DEF AddMatch, AddRPCStats
  <2> HIDE DEF t
  <2>5. CASE ~Seen(x, key)
    <3>1. s[key] = NoPath /\ r[key] = NoPath
      BY <1>8, <2>5, Zenon
    <3>2. u[key] = NoPath /\ v[key] = p.root
      <4>1. u[key] = NoPath
        BY <1>4, <2>1, <3>1, Zenon
      <4>2. v[key] = p.root
        BY <1>4, <1>6, <1>11, <3>1, Zenon
      <4>3. QED
        BY <4>1, <4>2, Zenon
    <3>3. Reflects(AddTarget(x, key, t), u, v)
      <4>1. t.stats = u[key] /\ t.rpc_stats = v[key] /\ (u[key] # NoPath \/ v[key] # NoPath)
        BY <1>3, <2>3, <3>2, Zenon
      <4>2. \A k \in Keys : k # key => u[k] = s[k] /\ v[k] = r[k]
        BY <2>1, <2>2, Zenon
      <4>3. Placed(s, r, key, t, u, v)
        BY <4>1, <4>2, Zenon DEF Placed
      <4>4. QED
        BY <1>4, <1>7, <2>5, <4>3, AddTargetReflects, Zenon
    <3>4. QED
      BY <1>1, <2>4, <2>5, <3>3, Zenon
  <2>6. CASE Seen(x, key) /\ r[key] # NoPath
    <3>1. x.targets[x.seen[key]].rpc_stats # NoPath
      BY <1>7, <2>6, Zenon DEF Reflects, Seen
    <3>2. \A k \in Keys : u[k] = s[k] /\ v[k] = r[k]
      BY <1>6, <2>1, <2>6, Zenon
    <3>3. Reflects(x, u, v)
      BY <1>7, <3>2, ReflectsSame, Zenon
    <3>4. QED
      BY <1>1, <2>4, <2>6, <3>1, <3>3, Zenon
  <2>7. CASE Seen(x, key) /\ r[key] = NoPath
    <3> DEFINE y == [x EXCEPT !.targets[x.seen[key]].rpc_stats = p.root]
    <3>1. x.targets[x.seen[key]].rpc_stats = NoPath /\ key \in DOMAIN x.seen
      BY <1>7, <2>7, Zenon DEF Reflects, Seen
    <3>2. Updated(r, key, p.root, v)
      BY <1>6, <1>11, <2>7, Zenon DEF Updated
    <3>3. Reflects(x, u, r)
      <4>1. \A k \in Keys : u[k] = s[k] /\ r[k] = r[k]
        BY <2>1, Zenon
      <4>2. QED
        BY <1>7, <4>1, ReflectsSame, Zenon
    <3>4. Reflects(y, u, v)
      BY <1>3, <3>1, <3>2, <3>3, SetRPCStatsReflects, Zenon
    <3>5. QED
      BY <1>1, <2>4, <2>7, <3>1, <3>4, Zenon
  <2>8. QED
    BY <2>5, <2>6, <2>7, Zenon
<1>12. QED
  BY <1>3, <1>10, <1>11, Zenon

\* What the globs have found, without the matches that are not in the index yet:
\* those of the last pattern.
DoneOf(g, m, n) == [p \in Pattern |-> IF p = Patterns[n - 1] THEN g[p] \ m ELSE g[p]]

DoneReflects(x, g, m, n) ==
  Reflects(x, Firsts(DoneOf(g, m, n), "stats"), Firsts(DoneOf(g, m, n), "rpc_stats"))

\* The index reflects what the globs have found, and they have gone through the
\* patterns in their order.
DiscoveryInv ==
  /\ \A name \in matches : name \in globbed[Patterns[pattern - 1]]
  /\ \A q \in Pattern : globbed[q] # {} => Code(q) < pattern
  /\ DoneReflects(idx, globbed, matches, pattern)
  /\ pc # "glob" => matches = {}

\* When no match is left, the index reflects all of it.
LEMMA DoneOfNone ==
  ASSUME NEW g \in [Pattern -> SUBSET Names], NEW n
  PROVE  DoneOf(g, {}, n) = g
<1>1. DoneOf(g, {}, n) \in [Pattern -> SUBSET Names]
  BY DEF DoneOf
<1>2. \A p \in Pattern : DoneOf(g, {}, n)[p] = g[p]
  BY DEF DoneOf
<1>3. QED
  BY <1>1, <1>2

\* The next pattern has the next code.
LEMMA NextPattern ==
  ASSUME NEW i \in 1..Len(Patterns)
  PROVE  Patterns[i] \in SearchPattern /\ Patterns[i] \in Pattern /\ Code(Patterns[i]) = i
<1>1. Patterns[i] \in SearchPattern
  BY PatternsType, ElementType, Zenon
<1>2. Patterns[i] \in Pattern
  BY <1>1, Zenon DEF SearchPattern
<1>3. QED
  BY <1>1, <1>2, PatternsCode, Zenon DEF Coded

\* Before the first glob.
LEMMA DiscoveryInit ==
  ASSUME Init
  PROVE  DiscoveryInv
<1>1. matches = {} /\ idx = NewIndex /\ pc = "glob" /\ globbed = [p \in Pattern |-> {}]
  BY Zenon DEF Init
<1>2. globbed \in [Pattern -> SUBSET Names]
  BY <1>1
<1>3. DoneOf(globbed, matches, pattern) = globbed
  BY <1>1, <1>2, DoneOfNone, Zenon
<1>4. \A q \in Pattern : globbed[q] = {}
  BY <1>1
<1>5. ASSUME NEW file \in {"stats", "rpc_stats"}, NEW key \in Keys
      PROVE  Firsts(globbed, file)[key] = NoPath
  <2>1. \A rt \in RootNames : Place(file, key, rt) \in Pattern
    BY DEF Place, Pattern, Keys
  <2>2. \A rt \in RootNames : ~FoundAt(globbed, file, key, rt)
    BY <1>4, <2>1, Zenon DEF FoundAt
  <2>3. "proc" \in RootNames /\ "sys" \in RootNames /\ "debug" \in RootNames
    BY DEF RootNames
  <2>4. FirstOf(globbed, file, key) = NoPath
    BY <2>2, <2>3, Zenon DEF FirstOf
  <2>5. QED
    BY <2>4, Zenon DEF Firsts
<1>6. DOMAIN idx.seen = {}
  BY <1>1 DEF NewIndex
<1>7. "stats" \in {"stats", "rpc_stats"} /\ "rpc_stats" \in {"stats", "rpc_stats"}
  OBVIOUS
<1>8. Reflects(idx, Firsts(globbed, "stats"), Firsts(globbed, "rpc_stats"))
  BY <1>5, <1>6, <1>7, Zenon DEF Reflects
<1>9. QED
  BY <1>1, <1>3, <1>4, <1>8, Zenon DEF DiscoveryInv, DoneReflects

\* A glob, whose matches are not in the index yet.
LEMMA DiscoveryGlob ==
  ASSUME TypeInv, DiscoveryInv, Glob
  PROVE  DiscoveryInv'
<1>1. /\ pattern \in 1..Len(Patterns) + 1 /\ Len(Patterns) \in Nat
      /\ globbed \in [Pattern -> SUBSET Names]
  BY Lengths, Zenon DEF TypeInv, IndexOK
<1>2. /\ matches = {} /\ pattern <= Len(Patterns) /\ pattern' = pattern + 1
      /\ matches' = Found(Patterns[pattern])
      /\ globbed' = [globbed EXCEPT ![Patterns[pattern]] = Found(Patterns[pattern])]
      /\ pc = "glob" /\ pc' = pc /\ idx' = idx
  BY Zenon DEF Glob
<1>3. pattern \in 1..Len(Patterns) /\ pattern' - 1 = pattern
  BY <1>1, <1>2
<1>4. PICK p : p = Patterns[pattern]
  BY Zenon
<1>5. p \in Pattern /\ Code(p) = pattern /\ p = Patterns[pattern' - 1]
  BY <1>3, <1>4, NextPattern, Zenon
<1>6. \A q \in Pattern : globbed'[q] = IF q = p THEN matches' ELSE globbed[q]
  BY <1>1, <1>2, <1>4, <1>5
<1>7. \A name \in matches' : name \in globbed'[Patterns[pattern' - 1]]
  BY <1>5, <1>6, Zenon
<1>8. ASSUME NEW q \in Pattern, globbed'[q] # {}
      PROVE  Code(q) < pattern'
  <2>1. CASE q = p
    BY <1>1, <1>2, <1>5, <2>1
  <2>2. CASE q # p
    <3>1. Code(q) < pattern
      BY <1>6, <1>8, <2>2, Zenon DEF DiscoveryInv
    <3>2. Code(q) \in Int
      BY DEF Code, Group, RootRank
    <3>3. QED
      BY <1>1, <1>2, <3>1, <3>2
  <2>3. QED
    BY <2>1, <2>2, Zenon
<1>9. globbed[p] = {}
  <2>1. globbed[p] # {} => Code(p) < pattern
    BY <1>5, Zenon DEF DiscoveryInv
  <2>2. ~(pattern < pattern)
    BY <1>1
  <2>3. QED
    BY <1>5, <2>1, <2>2, Zenon
<1>10. DoneOf(globbed', matches', pattern') = globbed
  <2>1. \A q \in Pattern : DoneOf(globbed', matches', pattern')[q] = globbed[q]
    <3>1. \A q \in Pattern : DoneOf(globbed', matches', pattern')[q] =
            IF q = p THEN globbed'[q] \ matches' ELSE globbed'[q]
      BY <1>5, Zenon DEF DoneOf
    <3>2. QED
      BY <1>6, <1>9, <3>1
  <2>2. DOMAIN DoneOf(globbed', matches', pattern') = Pattern
    BY DEF DoneOf
  <2>3. DoneOf(globbed', matches', pattern') = [q \in Pattern |-> globbed[q]]
    <3>1. DoneOf(globbed', matches', pattern')
            = [q \in Pattern |-> DoneOf(globbed', matches', pattern')[q]]
      BY DEF DoneOf
    <3>2. QED
      BY <2>1, <3>1
  <2>4. QED
    BY <1>1, <2>3
<1>11. DoneOf(globbed, matches, pattern) = globbed
  BY <1>1, <1>2, DoneOfNone, Zenon
<1>12. DoneReflects(idx', globbed', matches', pattern')
  BY <1>2, <1>10, <1>11, Zenon DEF DiscoveryInv, DoneReflects
<1>13. QED
  BY <1>2, <1>7, <1>8, <1>12, Zenon DEF DiscoveryInv

\* A glob that fails, after which the next pattern is tried.
LEMMA DiscoveryGlobFails ==
  ASSUME TypeInv, DiscoveryInv, NEW o, GlobFails(o)
  PROVE  DiscoveryInv'
<1>1. /\ pattern \in 1..Len(Patterns) + 1 /\ Len(Patterns) \in Nat
      /\ globbed \in [Pattern -> SUBSET Names]
  BY Lengths, Zenon DEF TypeInv, IndexOK
<1>2. /\ matches = {} /\ matches' = {} /\ pattern' = pattern + 1 /\ globbed' = globbed
      /\ pc = "glob" /\ pc' = pc /\ idx' = idx
  BY Zenon DEF GlobFails
<1>3. ASSUME NEW q \in Pattern, globbed'[q] # {}
      PROVE  Code(q) < pattern'
  <2>1. Code(q) < pattern
    BY <1>2, <1>3, Zenon DEF DiscoveryInv
  <2>2. Code(q) \in Int
    BY DEF Code, Group, RootRank
  <2>3. QED
    BY <1>1, <1>2, <2>1, <2>2
<1>4. DoneOf(globbed, matches, pattern) = globbed
  BY <1>1, <1>2, DoneOfNone, Zenon
<1>5. DoneOf(globbed', matches', pattern') = globbed
  BY <1>1, <1>2, DoneOfNone, Zenon
<1>6. DoneReflects(idx', globbed', matches', pattern')
  BY <1>2, <1>4, <1>5, Zenon DEF DiscoveryInv, DoneReflects
<1>7. QED
  BY <1>2, <1>3, <1>6, Zenon DEF DiscoveryInv

\* One match of the last glob goes into the index.
LEMMA DiscoveryIndex ==
  ASSUME TypeInv, DiscoveryInv, NEW name \in Names, Index(name)
  PROVE  DiscoveryInv'
<1>1. /\ pattern \in 1..Len(Patterns) + 1 /\ Len(Patterns) \in Nat
      /\ globbed \in [Pattern -> SUBSET Names] /\ (matches # {} => pattern > 1)
      /\ IndexInv(idx)
  BY Lengths, Zenon DEF TypeInv, IndexOK
<1>2. /\ name \in matches /\ matches' = matches \ {name} /\ pc = "glob" /\ pc' = pc
      /\ idx' = AddMatch(idx, Patterns[pattern - 1], name)
      /\ pattern' = pattern /\ globbed' = globbed
  BY Zenon DEF Index
<1>3. PICK i : i = pattern - 1
  BY Zenon
<1>4. i \in 1..Len(Patterns) /\ pattern = i + 1 /\ i \in Int
  <2>1. pattern > 1
    BY <1>1, <1>2, Zenon
  <2>2. QED
    BY <1>1, <1>3, <2>1
<1>5. PICK p : p = Patterns[i]
  BY Zenon
<1>6. p \in SearchPattern /\ p \in Pattern /\ Code(p) = i
  BY <1>4, <1>5, NextPattern, Zenon
<1>7. PICK g : g = DoneOf(globbed, matches, pattern)
  BY Zenon
<1>8. /\ g \in [Pattern -> SUBSET Names]
      /\ \A q \in Pattern : g[q] = IF q = p THEN globbed[q] \ matches ELSE globbed[q]
  <2>1. g = [q \in Pattern |-> IF q = p THEN globbed[q] \ matches ELSE globbed[q]]
    BY <1>3, <1>5, <1>7, Zenon DEF DoneOf
  <2>2. QED
    BY <1>1, <2>1
<1>9. ASSUME NEW q \in Pattern, g[q] # {}
      PROVE  Code(q) <= Code(p)
  <2>1. globbed[q] # {}
    BY <1>8, <1>9
  <2>2. Code(q) < pattern
    BY <2>1, Zenon DEF DiscoveryInv
  <2>3. Code(q) \in Int
    BY DEF Code, Group, RootRank
  <2>4. QED
    BY <1>4, <1>6, <2>2, <2>3
<1>10. Reflects(idx, Firsts(g, "stats"), Firsts(g, "rpc_stats"))
  BY <1>7, Zenon DEF DiscoveryInv, DoneReflects
<1>11. Reflects(AddMatch(idx, p, name), Firsts(WithMatch(g, p, name), "stats"),
                Firsts(WithMatch(g, p, name), "rpc_stats"))
  BY <1>1, <1>6, <1>8, <1>9, <1>10, AddMatchReflects, Zenon
<1>12. name \in globbed[p]
  BY <1>2, <1>3, <1>5, Zenon DEF DiscoveryInv
<1>13. DoneOf(globbed', matches', pattern') = WithMatch(g, p, name)
  <2>1. DoneOf(globbed', matches', pattern')
          = [q \in Pattern |-> IF q = p THEN globbed[q] \ (matches \ {name}) ELSE globbed[q]]
    BY <1>2, <1>3, <1>5, Zenon DEF DoneOf
  <2>2. WithMatch(g, p, name) = [q \in Pattern |-> IF q = p THEN g[q] \cup {name} ELSE g[q]]
    BY <1>6, <1>8 DEF WithMatch
  <2>3. ASSUME NEW q \in Pattern
        PROVE  (IF q = p THEN globbed[q] \ (matches \ {name}) ELSE globbed[q])
               = IF q = p THEN g[q] \cup {name} ELSE g[q]
    BY <1>8, <1>12
  <2>4. QED
    BY <2>1, <2>2, <2>3
<1>14. DoneReflects(idx', globbed', matches', pattern')
  BY <1>2, <1>3, <1>5, <1>11, <1>13, Zenon DEF DoneReflects
<1>15. \A n \in matches' : n \in globbed'[Patterns[pattern' - 1]]
  BY <1>2, Zenon DEF DiscoveryInv
<1>16. \A q \in Pattern : globbed'[q] # {} => Code(q) < pattern'
  BY <1>2, Zenon DEF DiscoveryInv
<1>17. QED
  BY <1>2, <1>14, <1>15, <1>16, Zenon DEF DiscoveryInv

\* Every other step leaves the index and the globs alone.
LEMMA DiscoveryStep ==
  ASSUME TypeInv, DiscoveryInv, [Next]_vars
  PROVE  DiscoveryInv'
<1>1. CASE UNCHANGED discoveryVars /\ (pc' # "glob" => pc # "glob" \/ matches = {})
  BY <1>1, Zenon DEF DiscoveryInv, discoveryVars
<1>2. CASE ~(UNCHANGED discoveryVars)
  <2>1. Glob \/ (\E o : GlobFails(o)) \/ (\E name \in Names : Index(name))
    BY <1>2, Zenon DEF Next, vars, Remount, Expire, EndDiscovery, SkipStats, SkipRPCStats,
       ReadLDLM, ReadStats, ReadRPCStats, ReadParam, EndTarget, Return, Quiescent
  <2>2. QED
    BY <2>1, DiscoveryGlob, DiscoveryGlobFails, DiscoveryIndex, Zenon
<1>3. CASE ~(pc' # "glob" => pc # "glob" \/ matches = {})
  <2>1. pc = "glob" /\ pc' # "glob" /\ matches # {}
    BY <1>3, Zenon
  <2>2. pc # "ldlm" /\ pc # "stats" /\ pc # "rpc_stats" /\ pc # "params" /\ pc # "returned"
    BY <2>1
  <2>3. ~EndDiscovery /\ ~(UNCHANGED pc)
    BY <2>1, Zenon DEF EndDiscovery
  <2>4. FALSE
    BY <2>2, <2>3, Zenon DEF Next, vars, Remount, Expire, Glob, GlobFails, Index, SkipStats,
       SkipRPCStats, ReadLDLM, ReadStats, ReadRPCStats, ReadParam, EndTarget, Return, Quiescent,
       AtTarget
  <2>5. QED
    BY <2>4
<1>4. QED
  BY <1>1, <1>2, <1>3, Zenon

\* A list that has an element for each of a set counts it.
LEMMA CountList ==
  ASSUME NEW S, NEW n \in Nat, NEW f \in [1..n -> S],
         \A i, j \in 1..n : f[i] = f[j] => i = j,
         \A y \in S : \E i \in 1..n : f[i] = y
  PROVE  Cardinality(S) = n
<1>1. f \in Bijection(1..n, S)
  BY DEF Bijection, Injection, Surjection, IsInjective
<1>2. ExistsBijection(1..n, S)
  BY <1>1, Zenon DEF ExistsBijection
<1>3. QED
  BY <1>2, FS_CountingElements, Zenon

\* After discovery the index is what DiscoveryFindsFirst asks for.
LEMMA DiscoveryInvImplies ==
  ASSUME TypeInv, DiscoveryInv
  PROVE  DiscoveryFindsFirst
<1> SUFFICES ASSUME pc # "glob"
             PROVE  /\ ToSet(idx.targets) =
                         {[component |-> key[1], name |-> key[2],
                           stats |-> FirstRoot("stats", key),
                           rpc_stats |-> FirstRoot("rpc_stats", key)] : key \in KeysFound}
                    /\ Len(idx.targets) = Cardinality(KeysFound)
                    /\ \A key \in KeysFound :
                         LET t == idx.targets[idx.seen[key]] IN <<t.component, t.name>> = key
  BY Zenon DEF DiscoveryFindsFirst
<1>1. /\ idx.targets \in Seq(ClientTarget)
      /\ idx.seen \in [DOMAIN idx.seen -> DOMAIN idx.targets]
      /\ DOMAIN idx.seen \subseteq Keys
      /\ \A i \in DOMAIN idx.targets : KeyOf(idx.targets[i]) \in DOMAIN idx.seen
      /\ \A key \in DOMAIN idx.seen : KeyOf(idx.targets[idx.seen[key]]) = key
      /\ \A i, j \in DOMAIN idx.targets : KeyOf(idx.targets[i]) = KeyOf(idx.targets[j]) => i = j
  BY Zenon DEF TypeInv, IndexOK, IndexInv
<1>2. PICK ts : ts = idx.targets
  BY Zenon
<1>3. PICK n : n = Len(ts)
  BY Zenon
<1>4. n \in Nat /\ DOMAIN ts = 1..n /\ \A i \in 1..n : ts[i] \in ClientTarget
  BY <1>1, <1>2, <1>3
<1>5. \A key \in DOMAIN idx.seen : idx.seen[key] \in DOMAIN ts
  BY <1>1, <1>2, Zenon
<1>6. Reflects(idx, Firsts(globbed, "stats"), Firsts(globbed, "rpc_stats"))
  <2>1. matches = {} /\ globbed \in [Pattern -> SUBSET Names]
    BY Zenon DEF DiscoveryInv, TypeInv, IndexOK
  <2>2. DoneOf(globbed, matches, pattern) = globbed
    BY <2>1, DoneOfNone, Zenon
  <2>3. QED
    BY <2>2, Zenon DEF DiscoveryInv, DoneReflects
<1>7. \A key \in Keys : /\ Firsts(globbed, "stats")[key] = FirstRoot("stats", key)
                        /\ Firsts(globbed, "rpc_stats")[key] = FirstRoot("rpc_stats", key)
  BY FirstRootIs, Zenon DEF Firsts
<1>8. KeysFound = DOMAIN idx.seen
  <2>1. ASSUME NEW key \in Keys
        PROVE  key \in KeysFound <=> key \in DOMAIN idx.seen
    <3>1. key \in KeysFound <=> FirstRoot("stats", key) # NoPath \/ FirstRoot("rpc_stats", key) # NoPath
      BY Zenon DEF KeysFound
    <3>2. QED
      BY <1>6, <1>7, <3>1, Zenon DEF Reflects
  <2>2. KeysFound \subseteq Keys
    BY Zenon DEF KeysFound
  <2>3. QED
    BY <1>1, <2>1, <2>2, Zenon
<1> DEFINE T(key) == [component |-> key[1], name |-> key[2], stats |-> FirstRoot("stats", key),
                      rpc_stats |-> FirstRoot("rpc_stats", key)]
<1>9. \A t \in ClientTarget :
        t = [component |-> KeyOf(t)[1], name |-> KeyOf(t)[2], stats |-> t.stats,
             rpc_stats |-> t.rpc_stats]
  BY DEF ClientTarget, KeyOf
<1>10. ASSUME NEW key \in DOMAIN idx.seen
       PROVE  ts[idx.seen[key]] = T(key)
  <2>1. PICK t : t = ts[idx.seen[key]]
    BY Zenon
  <2>2. t \in ClientTarget /\ KeyOf(t) = key
    BY <1>1, <1>2, <1>4, <1>5, <2>1, Zenon
  <2>3. t.stats = FirstRoot("stats", key) /\ t.rpc_stats = FirstRoot("rpc_stats", key)
    <3>1. key \in Keys
      BY <1>1, Zenon
    <3>2. QED
      BY <1>2, <1>6, <1>7, <2>1, <3>1, Zenon DEF Reflects
  <2>4. QED
    BY <1>9, <2>1, <2>2, <2>3, Zenon
<1> HIDE DEF T
<1>11. \A i \in DOMAIN ts : \E key \in DOMAIN idx.seen : i = idx.seen[key]
  BY <1>1, <1>2, <1>5, Zenon
<1>12. ToSet(ts) = {T(key) : key \in KeysFound}
  <2>1. ASSUME NEW i \in DOMAIN ts PROVE ts[i] \in {T(key) : key \in KeysFound}
    BY <1>8, <1>10, <1>11, Zenon
  <2>2. ASSUME NEW key \in KeysFound PROVE \E i \in DOMAIN ts : ts[i] = T(key)
    BY <1>5, <1>8, <1>10, Zenon
  <2>3. ToSet(ts) = {ts[i] : i \in DOMAIN ts}
    BY Zenon DEF ToSet
  <2>4. QED
    BY <2>1, <2>2, <2>3, Zenon
<1>13. n = Cardinality(KeysFound)
  <2> DEFINE f == [i \in 1..n |-> KeyOf(ts[i])]
  <2>1. f \in [1..n -> DOMAIN idx.seen]
    BY <1>1, <1>2, <1>4, Zenon
  <2>2. \A i \in 1..n : f[i] = KeyOf(ts[i])
    BY Zenon
  <2> HIDE DEF f
  <2>3. \A i, j \in 1..n : f[i] = f[j] => i = j
    <3>1. \A i, j \in DOMAIN ts : KeyOf(ts[i]) = KeyOf(ts[j]) => i = j
      BY <1>1, <1>2, Zenon
    <3>2. ASSUME NEW i \in 1..n, NEW j \in 1..n, f[i] = f[j] PROVE i = j
      <4>1. KeyOf(ts[i]) = KeyOf(ts[j])
        BY <2>2, <3>2, Zenon
      <4>2. i \in DOMAIN ts /\ j \in DOMAIN ts
        BY <1>4, Zenon
      <4>3. QED
        BY <3>1, <4>1, <4>2, Zenon
    <3>3. QED
      BY <3>2, Zenon
  <2>4. \A key \in DOMAIN idx.seen : \E i \in 1..n : f[i] = key
    <3>1. \A key \in DOMAIN idx.seen : idx.seen[key] \in 1..n /\ f[idx.seen[key]] = key
      BY <1>1, <1>2, <1>4, <1>5, <2>2, Zenon
    <3>2. QED
      BY <3>1, Zenon
  <2>5. Cardinality(DOMAIN idx.seen) = n
    BY <1>4, <2>1, <2>3, <2>4, CountList
  <2>6. QED
    BY <1>8, <2>5, Zenon
<1>14. \A key \in KeysFound :
         LET t == idx.targets[idx.seen[key]] IN <<t.component, t.name>> = key
  BY <1>1, <1>8, Zenon DEF KeyOf
<1>15. QED
  BY <1>2, <1>3, <1>12, <1>13, <1>14, Zenon DEF T

\* Discovery yields every mount and import that a glob saw, once, with the files
\* of the first roots in which they were seen, although targets come and go
\* between the globs (discovery.go:77-91, 162-235).
THEOREM DiscoveryIsComplete == Spec => []DiscoveryFindsFirst
<1>1. Init => TypeInv /\ DiscoveryInv
  BY InitTypeInv, DiscoveryInit, Zenon
<1>2. TypeInv /\ DiscoveryInv /\ [Next]_vars => (TypeInv /\ DiscoveryInv)'
  BY TypeInvStep, DiscoveryStep, Zenon
<1>3. TypeInv /\ DiscoveryInv => DiscoveryFindsFirst
  BY DiscoveryInvImplies
<1>4. QED
  BY <1>1, <1>2, <1>3, PTL DEF Spec
=============================================================================
