---------------------- MODULE RegistryRefinementProofs ----------------------
(***************************************************************************)
(* Registry implements ScrapeTotals, for every set of scrapes and          *)
(* collectors: each step is a step of ScrapeTotals under the mapping of    *)
(* RegistryRefinement, or changes nothing there.                           *)
(***************************************************************************)
EXTENDS RegistryRefinement, RegistryProofs

\* The loop of a call visits keys of its map only, and while it holds
\* durationMu its summaries are the totals as they stand.
LoopingBy(s) ==
  /\ keys[s] \subseteq MapKeys(s)
  /\ phase[s] = "store" => key[s] \in MapKeys(s)
  /\ \A m \in metrics[s] : m.key \in MapKeys(s)
  /\ phase[s] \in {"next key", "store"} =>
       \A m \in metrics[s] : m.total = durations[m.key]

Looping == \A s \in Scrapes : Waited(s) => LoopingBy(s)

-----------------------------------------------------------------------------
\* A call that has waited and does not change keeps its summaries current, as
\* long as nobody changes the totals under its lock.
LEMMA LoopingUnchanged ==
  ASSUME Control, Looping, [Next]_vars, NEW s \in Scrapes, Waited(s),
         phase'[s] = phase[s], keys'[s] = keys[s], key'[s] = key[s],
         metrics'[s] = metrics[s],
         phase[s] \in {"next key", "store"} => durations' = durations
  PROVE  LoopingBy(s)'
<1>1. MapKeys(s)' = MapKeys(s)
  BY MapSettled DEF MapKeys
<1>2. LoopingBy(s)
  BY DEF Looping
<1>3. QED
  BY <1>1, <1>2 DEF LoopingBy

\* Every step keeps the loop to the keys of the map and its summaries current.
LEMMA LoopingStep ==
  ASSUME Control, Totalling, Looping, [Next]_vars
  PROVE  Looping'
<1>0. /\ TypeOK /\ TotalsMutex /\ Visiting
      /\ key \in [Scrapes -> Keys] /\ keys \in [Scrapes -> SUBSET Keys]
      /\ metrics \in [Scrapes -> SUBSET Summary]
  BY DEF Control, Totalling, TypeOK
<1>1. ASSUME NEW s \in Scrapes,
             \A t \in Scrapes : t # s => phase'[t] = phase[t],
             \A t \in Scrapes : t # s => keys'[t] = keys[t],
             \A t \in Scrapes : t # s => key'[t] = key[t],
             \A t \in Scrapes : t # s => metrics'[t] = metrics[t],
             \A t \in Scrapes :
               t # s /\ phase[t] \in {"next key", "store"} => durations' = durations,
             Waited(s)' => LoopingBy(s)'
      PROVE  Looping'
  <2>1. ASSUME NEW t \in Scrapes, t # s, Waited(t)'
        PROVE  LoopingBy(t)'
    <3>1. Waited(t)
      BY <1>1, <2>1 DEF Waited
    <3>2. QED
      BY <1>1, <2>1, <3>1, LoopingUnchanged
  <2>2. QED
    BY <1>1, <2>1 DEF Looping
<1>2. CASE UNCHANGED <<phase, totalVars, summaries, before>>
  <2>1. ASSUME NEW t \in Scrapes, Waited(t)'
        PROVE  LoopingBy(t)'
    <3>1. Waited(t)
      BY <1>2, <2>1 DEF Waited
    <3>2. QED
      BY <1>2, <3>1, LoopingUnchanged DEF totalVars
  <2>2. QED
    BY <2>1 DEF Looping
<1>3. ASSUME NEW s \in Scrapes, NEW p, Goto(s, p), UNCHANGED <<keys, key, metrics, durations>>,
             Waited(s)' => LoopingBy(s)'
      PROVE  Looping'
  BY <1>0, <1>1, <1>3, GotoEffect
<1>4. ASSUME NEW s \in Scrapes, StartScrape(s) \/ EndSpawn(s)
      PROVE  Looping'
  <2>1. PICK p \in {"spawning", "waiting"} : Goto(s, p)
    BY <1>4, Zenon DEF StartScrape, EndSpawn
  <2>2. ~ Waited(s)'
    BY <1>0, <2>1, GotoEffect DEF Waited
  <2>3. UNCHANGED <<keys, key, metrics, durations>>
    BY <1>4, Zenon DEF StartScrape, EndSpawn, totalVars
  <2>4. QED
    BY <1>3, <2>1, <2>2, <2>3
<1>5. ASSUME NEW s \in Scrapes, WaitReturns(s)
      PROVE  Looping'
  <2>1. /\ phase[s] = "waiting" /\ Goto(s, "observing")
        /\ UNCHANGED <<key, metrics, durations, scrapeDurations>>
        /\ keys' = [keys EXCEPT ![s] = MapKeys(s)]
    BY <1>5, Zenon DEF WaitReturns, goroutineVars
  <2>2. \A t \in Scrapes : phase'[t] = IF t = s THEN "observing" ELSE phase[t]
    BY <1>0, <2>1, GotoEffect
  <2>3. keys'[s] = MapKeys(s) /\ \A t \in Scrapes : t # s => keys'[t] = keys[t]
    BY <1>0, <2>1
  <2>4. MapKeys(s)' = MapKeys(s)
    BY <2>1 DEF MapKeys
  <2>5. metrics[s] = {}
    BY <1>0, <2>1 DEF Visiting, VisitingBy, Waited
  <2>6. LoopingBy(s)'
    BY <2>1, <2>2, <2>3, <2>4, <2>5 DEF LoopingBy
  <2>7. QED
    BY <1>1, <2>1, <2>2, <2>3, <2>6
<1>6. ASSUME NEW s \in Scrapes, LockTotals(s)
      PROVE  Looping'
  <2>1. /\ phase[s] = "observing" /\ Goto(s, "next key")
        /\ UNCHANGED <<keys, key, metrics, durations>>
    BY <1>6, Zenon DEF LockTotals
  <2>2. phase'[s] = "next key"
    BY <1>0, <2>1, GotoEffect
  <2>3. Waited(s) /\ metrics[s] = {}
    BY <1>0, <2>1 DEF Visiting, VisitingBy, Waited
  <2>4. MapKeys(s)' = MapKeys(s)
    BY <2>3, MapSettled DEF MapKeys
  <2>5. LoopingBy(s)'
    BY <2>1, <2>2, <2>3, <2>4 DEF Looping, LoopingBy
  <2>6. QED
    BY <1>3, <2>1, <2>5
<1>7. ASSUME NEW s \in Scrapes, NEW k \in Keys, LoadTotal(s, k)
      PROVE  Looping'
  <2>1. /\ phase[s] = "next key" /\ k \in keys[s] /\ Goto(s, "store")
        /\ UNCHANGED <<metrics, durations>>
        /\ key' = [key EXCEPT ![s] = k]
        /\ keys' = [keys EXCEPT ![s] = @ \ {k}]
    BY <1>7, Zenon DEF LoadTotal
  <2>2. \A t \in Scrapes : phase'[t] = IF t = s THEN "store" ELSE phase[t]
    BY <1>0, <2>1, GotoEffect
  <2>3. /\ key'[s] = k /\ keys'[s] = keys[s] \ {k}
        /\ \A t \in Scrapes : t # s => key'[t] = key[t] /\ keys'[t] = keys[t]
    BY <1>0, <2>1
  <2>4. Waited(s)
    BY <2>1 DEF Waited
  <2>5. MapKeys(s)' = MapKeys(s) /\ LoopingBy(s)
    BY <2>4, MapSettled DEF MapKeys, Looping
  <2>6. keys'[s] \subseteq MapKeys(s)' /\ key'[s] \in MapKeys(s)'
    BY <2>1, <2>3, <2>5 DEF LoopingBy
  <2>7. \A m \in metrics'[s] : m.key \in MapKeys(s)' /\ m.total = durations'[m.key]
    BY <2>1, <2>5 DEF LoopingBy
  <2>8. LoopingBy(s)'
    BY <2>6, <2>7 DEF LoopingBy
  <2>9. QED
    BY <1>1, <2>1, <2>2, <2>3, <2>8
<1>8. ASSUME NEW s \in Scrapes, StoreTotal(s)
      PROVE  Looping'
  <2>0. PICK m0 : m0 = [key |-> key[s], total |-> NewTotal(s)]
    BY Zenon
  <2>1. /\ phase[s] = "store" /\ Goto(s, "next key") /\ UNCHANGED <<key, keys>>
    BY <1>8, Zenon DEF StoreTotal
  <2>2. \A t \in Scrapes : phase'[t] = IF t = s THEN "next key" ELSE phase[t]
    BY <1>0, <2>1, GotoEffect
  <2>3. /\ key[s] \in Keys
        /\ \A k \in Keys : durations'[k] = IF k = key[s] THEN NewTotal(s) ELSE durations[k]
        /\ \A t \in Scrapes : metrics'[t] = IF t = s THEN metrics[s] \cup {m0} ELSE metrics[t]
    BY <1>0, <1>8, <2>0, StoreEffect
  <2>4. m0.key = key[s] /\ m0.total = NewTotal(s)
    BY <2>0
  <2>5. Waited(s)
    BY <2>1 DEF Waited
  <2>6. MapKeys(s)' = MapKeys(s)
    BY <2>5, MapSettled DEF MapKeys
  <2>7. \A m \in metrics[s] : m.key \in Keys /\ m.key # key[s]
    <3>1. \A m \in metrics[s] : m.key \in Keys
      BY <1>0 DEF Summary
    <3>2. \A m \in metrics[s] : m.key # key[s]
      BY <1>0, <2>1 DEF Visiting, VisitingBy
    <3>3. QED
      BY <3>1, <3>2
  <2>8. ASSUME NEW m \in metrics'[s]
        PROVE  m.key \in MapKeys(s)' /\ m.total = durations'[m.key]
    <3>1. CASE m = m0
      BY <2>1, <2>3, <2>4, <2>5, <2>6, <3>1 DEF Looping, LoopingBy
    <3>2. CASE m \in metrics[s]
      BY <2>1, <2>3, <2>5, <2>6, <2>7, <3>2 DEF Looping, LoopingBy
    <3>3. QED
      BY <2>3, <3>1, <3>2
  <2>9. LoopingBy(s)'
    BY <2>1, <2>2, <2>5, <2>6, <2>8 DEF Looping, LoopingBy
  <2>10. \A t \in Scrapes : t # s => phase[t] \notin {"next key", "store"}
    BY <1>0, <2>1, OnlyHolderStores
  <2>11. QED
    BY <1>1, <2>1, <2>2, <2>3, <2>9, <2>10
<1>9. ASSUME NEW s \in Scrapes, UnlockTotals(s) \/ Return(s) \/ Answer(s)
      PROVE  Looping'
  <2>1. PICK p \in {"sending", "returned", "answered"} : Goto(s, p)
    BY <1>9, Zenon DEF UnlockTotals, Return, Answer
  <2>2. UNCHANGED <<keys, key, metrics, durations>>
    BY <1>9, Zenon DEF UnlockTotals, Return, Answer, totalVars
  <2>3. phase'[s] = p
    BY <1>0, <2>1, GotoEffect
  <2>4. Waited(s)
    BY <1>9 DEF Waited, UnlockTotals, Return, Answer
  <2>5. MapKeys(s)' = MapKeys(s)
    BY <2>4, MapSettled DEF MapKeys
  <2>6. LoopingBy(s)'
    BY <2>1, <2>2, <2>3, <2>4, <2>5 DEF Looping, LoopingBy
  <2>7. QED
    BY <1>3, <2>1, <2>2, <2>6
<1>10. ASSUME NEW s \in Scrapes, NEW m \in metrics[s], SendSummary(s, m)
       PROVE  Looping'
  <2>1. UNCHANGED <<phase, keys, key, metrics, durations>> /\ Waited(s)
    BY <1>10 DEF SendSummary, totalVars, Waited
  <2>2. QED
    BY <1>1, <2>1, LoopingUnchanged
<1>11. QED
  BY <1>2, <1>4, <1>5, <1>6, <1>7, <1>8, <1>9, <1>10, TotalCases

\* The loop of every call keeps to the keys of its map, with summaries that
\* are current while it holds durationMu (collector.go:176-188).
THEOREM LoopingInvariant == Spec => []Looping
<1>1. Init => Looping
  BY DEF Init, Looping, Waited
<1>2. Control /\ Totalling /\ Looping /\ [Next]_vars => Looping'
  BY LoopingStep
<1>3. QED
  BY <1>1, <1>2, ControlInvariant, TotallingInvariant, PTL DEF Spec

-----------------------------------------------------------------------------
(* The mapping.                                                            *)

\* What the mapping says of the totals, when nobody holds durationMu.
LEMMA SettledUnlocked ==
  ASSUME TypeOK, durationMu = {}
  PROVE  SettledTotals = durations /\ SettledMetrics = metrics
BY DEF TypeOK, SettledTotals, SettledMetrics

\* What the mapping says of the totals, when s holds durationMu.
LEMMA SettledLocked ==
  ASSUME TypeOK, NEW s \in Scrapes, durationMu = {s}
  PROVE  /\ \A k \in Keys : SettledTotals[k] =
              IF \E m \in metrics[s] : m.key = k
              THEN [count |-> durations[k].count - 1,
                    sum |-> [durations[k].sum EXCEPT ![s] = NoSum]]
              ELSE durations[k]
         /\ \A t \in Scrapes : SettledMetrics[t] = IF t = s THEN {} ELSE metrics[t]
<1>1. \A k \in Keys : durations[k].sum \in GrandSum
  BY DEF TypeOK, Total
<1>2. \A k \in Keys :
        [t \in Scrapes |-> IF t \in durationMu THEN NoSum ELSE durations[k].sum[t]]
        = [durations[k].sum EXCEPT ![s] = NoSum]
  BY <1>1 DEF GrandSum
<1>3. QED
  BY <1>2 DEF SettledTotals, SettledMetrics

\* The holder of durationMu is the only one.
LEMMA HolderAlone ==
  ASSUME TotalsMutex, NEW s \in Scrapes, phase[s] \in {"next key", "store"}
  PROVE  durationMu = {s}
BY DEF TotalsMutex

\* A step that leaves mutex, totals and summaries alone leaves the mapping.
LEMMA MappingUnchanged ==
  ASSUME UNCHANGED <<durationMu, durations, metrics>>
  PROVE  UNCHANGED <<SettledTotals, SettledMetrics>>
BY DEF SettledTotals, SettledMetrics

\* Taking durationMu changes nothing in the mapping: the call has made no
\* summary yet.
LEMMA LockMaps ==
  ASSUME TypeOK, TypeOK', Visiting, NEW s \in Scrapes, LockTotals(s)
  PROVE  UNCHANGED <<SettledTotals, SettledMetrics>>
<1>1. /\ phase[s] = "observing" /\ durationMu = {}
      /\ durationMu' = durationMu \cup {s} /\ UNCHANGED <<durations, metrics>>
  BY Zenon DEF LockTotals, CanLockTotals
<1>2. durationMu' = {s} /\ metrics[s] = {}
  BY <1>1 DEF Visiting, VisitingBy
<1>3. SettledTotals = durations /\ SettledMetrics = metrics
  BY <1>1, SettledUnlocked
<1>4. SettledTotals' = durations
  <2>1. \A k \in Keys : ~ \E t \in durationMu' : \E m \in metrics'[t] : m.key = k
    BY <1>1, <1>2
  <2>2. SettledTotals' = [k \in Keys |-> durations'[k]]
    BY <2>1 DEF SettledTotals
  <2>3. QED
    BY <1>1, <2>2 DEF TypeOK
<1>5. SettledMetrics' = metrics
  BY <1>1, <1>2 DEF SettledMetrics, TypeOK
<1>6. QED
  BY <1>3, <1>4, <1>5

\* A store under durationMu changes nothing in the mapping: what it adds is
\* hidden until the release.
LEMMA StoreMaps ==
  ASSUME Control, Totalling, NEW s \in Scrapes, StoreTotal(s)
  PROVE  UNCHANGED <<SettledTotals, SettledMetrics>>
<1>0. /\ TypeOK /\ TotalsMutex /\ Visiting
      /\ durations \in [Keys -> Total] /\ metrics \in [Scrapes -> SUBSET Summary]
  BY DEF Control, Totalling, TypeOK
<1>1. PICK k0 : k0 = key[s]
  BY Zenon
<1>2. PICK m0 : m0 = [key |-> k0, total |-> NewTotal(s)]
  BY Zenon
<1>3. /\ phase[s] = "store" /\ k0 \in Keys
      /\ \A k \in Keys : durations'[k] = IF k = k0 THEN NewTotal(s) ELSE durations[k]
      /\ \A t \in Scrapes : metrics'[t] = IF t = s THEN metrics[s] \cup {m0} ELSE metrics[t]
  BY <1>0, <1>1, <1>2, StoreEffect
<1>4. m0.key = k0 /\ UNCHANGED durationMu
  BY <1>2 DEF StoreTotal
<1>5. durationMu = {s}
  BY <1>0, <1>3, HolderAlone
<1>6. total[s] = durations[k0] /\ \A m \in metrics[s] : m.key # k0
  BY <1>0, <1>1, <1>3 DEF Visiting, VisitingBy
<1>7. SettledMetrics' = SettledMetrics
  BY <1>3, <1>4, <1>5 DEF SettledMetrics
<1>8. ASSUME NEW k \in Keys, k # k0
      PROVE  /\ durations'[k] = durations[k]
             /\ (\E t \in durationMu' : \E m \in metrics'[t] : m.key = k)
                <=> (\E t \in durationMu : \E m \in metrics[t] : m.key = k)
  BY <1>3, <1>4, <1>5, <1>8
<1>9. /\ \E t \in durationMu' : \E m \in metrics'[t] : m.key = k0
      /\ ~ \E t \in durationMu : \E m \in metrics[t] : m.key = k0
  BY <1>3, <1>4, <1>5, <1>6
<1>10. /\ NewTotal(s).count - 1 = durations[k0].count
       /\ [t \in Scrapes |-> IF t \in durationMu THEN NoSum ELSE NewTotal(s).sum[t]]
          = durations[k0].sum
  <2>1. durations[k0] \in Total
    BY <1>0, <1>3
  <2>2. NewTotal(s).count = durations[k0].count + 1 /\ durations[k0].count \in Nat
    BY <1>6, <2>1 DEF NewTotal, Total
  <2>3. durations[k0].sum \in [Scrapes -> Sum]
    BY <2>1 DEF Total, GrandSum
  <2>4. \A t \in Scrapes : t # s => NewTotal(s).sum[t] = durations[k0].sum[t]
    BY <1>6, <2>3 DEF NewTotal
  <2>5. durations[k0].sum[s] = NoSum
    <3>1. s \notin Observers(k0)
      BY <1>6 DEF Observers
    <3>2. durations[k0] =
            [count |-> Cardinality(Observers(k0)),
             sum |-> [t \in Scrapes |-> IF t \in Observers(k0) THEN Expected(t, k0) ELSE NoSum]]
      BY <1>3 DEF Totalling, TotalsExact
    <3>3. QED
      BY <3>1, <3>2
  <2>6. \A t \in Scrapes :
          (IF t \in durationMu THEN NoSum ELSE NewTotal(s).sum[t]) = durations[k0].sum[t]
    BY <1>5, <2>4, <2>5
  <2>7. QED
    BY <2>2, <2>3, <2>6
<1>11. \A k \in Keys : SettledTotals'[k] = SettledTotals[k]
  <2>1. ASSUME NEW k \in Keys, k # k0
        PROVE  SettledTotals'[k] = SettledTotals[k]
    BY <1>4, <1>8, <2>1 DEF SettledTotals
  <2>2. SettledTotals'[k0] = [count |-> NewTotal(s).count - 1,
          sum |-> [t \in Scrapes |-> IF t \in durationMu THEN NoSum ELSE NewTotal(s).sum[t]]]
    BY <1>3, <1>4, <1>9 DEF SettledTotals
  <2>3. SettledTotals[k0] = durations[k0]
    BY <1>3, <1>9 DEF SettledTotals
  <2>4. durations[k0] = [count |-> durations[k0].count, sum |-> durations[k0].sum]
    BY <1>0, <1>3 DEF Total
  <2>5. QED
    BY <1>10, <2>1, <2>2, <2>3, <2>4
<1>12. SettledTotals' = SettledTotals
  BY <1>11 DEF SettledTotals
<1>13. QED
  BY <1>7, <1>12

-----------------------------------------------------------------------------
(* The release of durationMu.                                              *)

\* The keys of the map of a call that has waited are those of its goroutines.
LEMMA KeysOfTheMap ==
  ASSUME Control, Merging, NEW s \in Scrapes, Waited(s), NEW k \in Keys
  PROVE  k \in MapKeys(s) <=> \E c \in Collectors : Key(s, c) = k
<1>1. scrapeDurations[s][k] = Expected(s, k)
  BY MergedIsExpected DEF DurationsComplete
<1>2. ASSUME NEW c \in Collectors, Key(s, c) = k
      PROVE  Expected(s, k) # NoSum
  <2>1. Expected(s, k)[c] = 1 /\ NoSum[c] = 0
    BY <1>2 DEF Expected, NoSum
  <2>2. QED
    BY <2>1
<1>3. ASSUME \A c \in Collectors : Key(s, c) # k
      PROVE  Expected(s, k) = NoSum
  BY <1>3 DEF Expected, NoSum
<1>4. QED
  BY <1>1, <1>2, <1>3 DEF MapKeys

\* At the end of its loop a call has a summary for each key of its goroutines,
\* and no other.
LEMMA OneSummaryPerKey ==
  ASSUME Control, Merging, Looping, Covered, NEW s \in Scrapes,
         phase[s] = "next key", keys[s] = {}, NEW k \in Keys
  PROVE  (\E c \in Collectors : Key(s, c) = k) <=> (\E m \in metrics[s] : m.key = k)
<1>1. Waited(s)
  BY DEF Waited
<1>2. LoopingBy(s) /\ CoveredBy(s)
  BY <1>1 DEF Looping, Covered
<1>3. k \in MapKeys(s) <=> \E m \in metrics[s] : m.key = k
  BY <1>2 DEF LoopingBy, CoveredBy
<1>4. QED
  BY <1>1, <1>3, KeysOfTheMap

\* What a scrape has added to the total of a key under which it has a summary.
LEMMA AddedOnce ==
  ASSUME TypeOK, TotalsExact, NEW s \in Scrapes, NEW k \in Keys,
         \E m \in metrics[s] : m.key = k
  PROVE  durations[k].sum[s] = Expected(s, k)
<1>1. s \in Observers(k)
  BY DEF Observers
<1>2. durations[k] =
        [count |-> Cardinality(Observers(k)),
         sum |-> [t \in Scrapes |-> IF t \in Observers(k) THEN Expected(t, k) ELSE NoSum]]
  BY DEF TotalsExact
<1>3. QED
  BY <1>1, <1>2

\* The release of durationMu is the step of the abstract specification: all
\* durations of the scrape enter the totals at once, and are reported.
LEMMA UnlockMaps ==
  ASSUME Control, Merging, Totalling, Looping, Covered, NEW s \in Scrapes, UnlockTotals(s)
  PROVE  Abstract!Observe(s, [c \in Collectors |-> Key(s, c)])
<1>0. /\ TypeOK /\ TotalsMutex /\ TotalsExact
      /\ durations \in [Keys -> Total] /\ metrics \in [Scrapes -> SUBSET Summary]
  BY DEF Control, Totalling, TypeOK
<1>1. /\ phase[s] = "next key" /\ keys[s] = {}
      /\ durationMu' = durationMu \ {s} /\ UNCHANGED <<durations, metrics>>
  BY Zenon DEF UnlockTotals
<1>2. durationMu = {s} /\ durationMu' = {}
  BY <1>0, <1>1, HolderAlone
<1>3. PICK label : label = [c \in Collectors |-> Key(s, c)]
  BY Zenon
<1>4. PICK touched : touched = {label[c] : c \in Collectors}
  BY Zenon
<1>5. \A k : k \in touched <=> \E c \in Collectors : Key(s, c) = k
  BY <1>3, <1>4
<1>6. touched \subseteq Keys
  BY <1>0, <1>5, KeyType
<1>7. \A k \in Keys : k \in touched <=> \E m \in metrics[s] : m.key = k
  BY <1>1, <1>5, OneSummaryPerKey
<1>8. SettledTotals' = durations /\ SettledMetrics' = metrics
  <2>1. SettledTotals' = [k \in Keys |-> durations[k]]
    BY <1>1, <1>2 DEF SettledTotals
  <2>2. SettledMetrics' = [t \in Scrapes |-> metrics[t]]
    BY <1>1, <1>2 DEF SettledMetrics
  <2>3. QED
    BY <1>0, <2>1, <2>2
<1>9. /\ SettledMetrics \in [Scrapes -> SUBSET Summary]
      /\ SettledMetrics[s] = {}
      /\ \A t \in Scrapes : t # s => SettledMetrics[t] = metrics[t]
  BY <1>0, <1>2 DEF SettledMetrics
<1>10. ASSUME NEW k \in Keys, k \in touched
       PROVE  durations[k] = [count |-> SettledTotals[k].count + 1,
                sum |-> [SettledTotals[k].sum EXCEPT ![s] =
                           [c \in Collectors |-> IF label[c] = k THEN 1 ELSE 0]]]
  <2>1. durations[k] \in Total
    BY <1>0
  <2>2. /\ durations[k] = [count |-> durations[k].count, sum |-> durations[k].sum]
        /\ durations[k].count \in Nat /\ durations[k].sum \in [Scrapes -> Sum]
    BY <2>1 DEF Total, GrandSum
  <2>3. SettledTotals[k] = [count |-> durations[k].count - 1,
                            sum |-> [durations[k].sum EXCEPT ![s] = NoSum]]
    BY <1>0, <1>2, <1>7, <1>10, SettledLocked
  <2>4. [c \in Collectors |-> IF label[c] = k THEN 1 ELSE 0] = Expected(s, k)
    BY <1>3 DEF Expected
  <2>5. durations[k].sum[s] = Expected(s, k)
    BY <1>0, <1>7, <1>10, AddedOnce
  <2>6. [[durations[k].sum EXCEPT ![s] = NoSum] EXCEPT ![s] = durations[k].sum[s]]
        = durations[k].sum
    BY <2>2
  <2>7. durations[k].count - 1 + 1 = durations[k].count
    BY <2>2
  <2>8. QED
    BY <2>2, <2>3, <2>4, <2>5, <2>6, <2>7
<1>11. ASSUME NEW k \in Keys, k \notin touched
       PROVE  durations[k] = SettledTotals[k]
  <2>1. ~ \E m \in metrics[s] : m.key = k
    BY <1>7, <1>11, Zenon
  <2>2. QED
    BY <1>0, <1>2, <2>1, SettledLocked
<1>12. SettledTotals' =
         [k \in Keys |->
            IF k \in touched
            THEN [count |-> SettledTotals[k].count + 1,
                  sum |-> [SettledTotals[k].sum EXCEPT ![s] =
                             [c \in Collectors |-> IF label[c] = k THEN 1 ELSE 0]]]
            ELSE SettledTotals[k]]
  <2>1. durations = [k \in Keys |-> durations[k]]
    BY <1>0
  <2>2. QED
    BY <1>8, <1>10, <1>11, <2>1
<1>13. metrics[s] = {[key |-> k, total |-> durations[k]] : k \in touched}
  <2>1. \A m \in metrics[s] : m = [key |-> m.key, total |-> m.total] /\ m.key \in Keys
    BY <1>0 DEF Summary
  <2>2. \A m \in metrics[s] : m.total = durations[m.key]
    BY <1>1 DEF Looping, LoopingBy, Waited
  <2>3. \A m \in metrics[s] : m = [key |-> m.key, total |-> durations[m.key]]
    BY <2>1, <2>2
  <2>4. ASSUME NEW m \in metrics[s]
        PROVE  m \in {[key |-> k, total |-> durations[k]] : k \in touched}
    <3>1. m.key \in touched
      BY <1>7, <2>1
    <3>2. QED
      BY <2>3, <3>1
  <2>5. ASSUME NEW k \in touched
        PROVE  [key |-> k, total |-> durations[k]] \in metrics[s]
    <3>1. PICK m \in metrics[s] : m.key = k
      BY <1>6, <1>7
    <3>2. QED
      BY <2>3, <3>1
  <2>6. QED
    BY <2>4, <2>5
<1>14. SettledMetrics' = [SettledMetrics EXCEPT ![s] =
         {[key |-> k, total |-> SettledTotals'[k]] : k \in touched}]
  BY <1>0, <1>8, <1>9, <1>13
<1>15. Abstract!Observe(s, label)
  BY <1>4, <1>9, <1>12, <1>14, Zenon DEF Abstract!Observe
<1>16. QED
  BY <1>3, <1>15, Zenon

-----------------------------------------------------------------------------
\* Every step is a step of ScrapeTotals or leaves the mapping alone.
LEMMA StepSimulates ==
  ASSUME Control, Control', Merging, Totalling, Looping, Covered, [Next]_vars
  PROVE  [Abstract!Next]_<<SettledTotals, SettledMetrics>>
<1>0. TypeOK /\ TypeOK' /\ Visiting
  BY DEF Control, Totalling
<1>1. ASSUME NEW s \in Scrapes, UnlockTotals(s)
      PROVE  Abstract!Next
  <2>1. [c \in Collectors |-> Key(s, c)] \in [Collectors -> Keys]
    BY <1>0, KeyType
  <2>2. Abstract!Observe(s, [c \in Collectors |-> Key(s, c)])
    BY <1>1, UnlockMaps
  <2>3. QED
    BY <2>1, <2>2, Zenon DEF Abstract!Next
<1>2. ASSUME NEW s \in Scrapes, StoreTotal(s)
      PROVE  UNCHANGED <<SettledTotals, SettledMetrics>>
  BY <1>2, StoreMaps
<1>3. ASSUME NEW s \in Scrapes, LockTotals(s)
      PROVE  UNCHANGED <<SettledTotals, SettledMetrics>>
  BY <1>0, <1>3, LockMaps
<1>4. ASSUME NEW s \in Scrapes,
             \/ StartScrape(s)
             \/ EndSpawn(s)
             \/ WaitReturns(s)
             \/ \E k \in Keys : LoadTotal(s, k)
             \/ \E m \in metrics[s] : SendSummary(s, m)
             \/ Return(s)
             \/ Answer(s)
      PROVE  UNCHANGED <<durationMu, durations, metrics>>
  BY <1>4, Zenon DEF StartScrape, EndSpawn, WaitReturns, LoadTotal, SendSummary, Return,
     Answer, totalVars
<1>5. CASE UNCHANGED <<durationMu, durations, metrics>>
  BY <1>5, MappingUnchanged
<1>6. CASE UNCHANGED <<phase, totalVars, summaries, before>>
  BY <1>5, <1>6, Zenon DEF totalVars
<1>7. QED
  BY <1>1, <1>2, <1>3, <1>4, <1>5, <1>6, TotalCases, Zenon

\* At first nothing is in the totals, in both specifications.
LEMMA InitSimulates == Init => Abstract!Init
<1> SUFFICES ASSUME Init PROVE Abstract!Init
  OBVIOUS
<1>1. /\ durationMu = {} /\ durations = [k \in Keys |-> NoTotal]
      /\ metrics = [s \in Scrapes |-> {}]
  BY DEF Init
<1>2. SettledTotals = [k \in Keys |-> NoTotal] /\ SettledMetrics = [s \in Scrapes |-> {}]
  BY <1>1 DEF SettledTotals, SettledMetrics
<1>3. NoTotal = [count |-> 0, sum |-> [s \in Scrapes |-> [c \in Collectors |-> 0]]]
  BY DEF NoTotal, NoGrandSum, NoSum
<1>4. QED
  BY <1>2, <1>3 DEF Abstract!Init, Abstract!NoSum

\* Overlapping scrapes add to and report the shared totals one after the other,
\* each with all its collectors at one instant, the release of durationMu
\* (collector.go:164-189).
THEOREM RegistryImplementsScrapeTotals == Spec => ImplementsScrapeTotals
<1>1. Control /\ Control' /\ Merging /\ Totalling /\ Looping /\ Covered /\ [Next]_vars
      => [Abstract!Next]_<<SettledTotals, SettledMetrics>>
  BY StepSimulates
<1>2. Answering => Covered
  BY DEF Answering
<1>3. QED
  BY <1>1, <1>2, InitSimulates, ControlInvariant, MergingInvariant, TotallingInvariant,
     LoopingInvariant, AnsweringInvariant, PTL
     DEF Spec, ImplementsScrapeTotals, Abstract!Spec
=============================================================================
