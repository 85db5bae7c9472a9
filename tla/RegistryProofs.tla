--------------------------- MODULE RegistryProofs ---------------------------
(***************************************************************************)
(* Proofs about Registry, for every set of scrapes and collectors.         *)
(***************************************************************************)
EXTENDS Registry, FiniteSetTheorems, TLAPS

\* The goroutines of s between wg.Add and wg.Done.
Live(s) == {c \in Collectors : pc[s][c] \notin {"unspawned", "exited"}}

\* wg counts them.
WaitGroup == \A s \in Scrapes : wg[s] = Cardinality(Live(s))

\* How far the goroutines of s may be, given where s itself is.
Progress ==
  \A s \in Scrapes :
    /\ phase[s] = "idle" => \A c \in Collectors : pc[s][c] = "unspawned"
    /\ phase[s] = "waiting" => \A c \in Collectors : pc[s][c] # "unspawned"
    /\ Waited(s) => \A c \in Collectors : pc[s][c] = "exited"

Control == TypeOK /\ WaitGroup /\ Progress

-----------------------------------------------------------------------------
\* Nat-valued counters stay so: a goroutine that calls wg.Done is counted.
LEMMA DoneIsCounted ==
  ASSUME Control, NEW s \in Scrapes, NEW c \in Collectors, pc[s][c] = "done"
  PROVE  wg[s] - 1 \in Nat
<1>1. IsFiniteSet(Live(s)) /\ c \in Live(s)
  BY RegistryAssumption, FS_Subset DEF Live
<1>2. Cardinality(Live(s)) \in Nat /\ Cardinality(Live(s)) # 0
  BY <1>1, FS_CardinalityType, FS_EmptySet
<1>3. QED
  BY <1>2 DEF Control, WaitGroup

\* Assigning to one component of a table.
LEMMA TableUpdate ==
  ASSUME NEW A, NEW B, NEW V, NEW f \in [A -> [B -> V]],
         NEW a \in A, NEW b \in B, NEW v \in V
  PROVE  [f EXCEPT ![a][b] = v] \in [A -> [B -> V]]
OBVIOUS

\* What the entries of such a table are afterwards.
LEMMA TableEntry ==
  ASSUME NEW A, NEW B, NEW V, NEW f \in [A -> [B -> V]],
         NEW a \in A, NEW b \in B, NEW v, NEW x \in A, NEW y \in B
  PROVE  [f EXCEPT ![a][b] = v][x][y] = IF x = a /\ y = b THEN v ELSE f[x][y]
OBVIOUS

\* A step of one goroutine keeps the type of the program counters.
LEMMA StepType ==
  ASSUME pc \in [Scrapes -> [Collectors -> Steps]],
         NEW s \in Scrapes, NEW c \in Collectors, NEW from, NEW to \in Steps,
         Step(s, c, from, to)
  PROVE  pc' \in [Scrapes -> [Collectors -> Steps]]
BY TableUpdate DEF Step

\* The key of a goroutine is a key.
LEMMA KeyType ==
  ASSUME TypeOK, NEW s \in Scrapes, NEW c \in Collectors
  PROVE  Key(s, c) \in Keys
<1>1. source[s][c] \in Sources /\ result[s][c] \in Results
  BY DEF TypeOK
<1>2. QED
  BY <1>1 DEF Key, Keys

\* What has been sent stays a number of each sample.
LEMMA EmitType ==
  ASSUME TypeOK, NEW s \in Scrapes, NEW more, Emit(s, more)
  PROVE  sent' \in [Scrapes -> [Samples -> Nat]]
<1>1. sent \in [Scrapes -> [Samples -> Nat]]
  BY DEF TypeOK
<1>2. [x \in Samples |-> sent[s][x] + IF x \in more THEN 1 ELSE 0] \in [Samples -> Nat]
  BY <1>1
<1>3. QED
  BY <1>1, <1>2 DEF Emit

\* The empty sums and the empty total have their types.
LEMMA SumTypes == NoSum \in Sum /\ NoGrandSum \in GrandSum /\ NoTotal \in Total
BY DEF NoSum, Sum, NoGrandSum, GrandSum, NoTotal, Total

\* The total that observeScrapeDurations stores is a total.
LEMMA NewTotalType ==
  ASSUME TypeOK, NEW s \in Scrapes
  PROVE  NewTotal(s) \in Total
<1>1. total[s] \in Total /\ key[s] \in Keys /\ scrapeDurations[s][key[s]] \in Sum
  BY DEF TypeOK
<1>2. [c \in Collectors |-> total[s].sum[s][c] + scrapeDurations[s][key[s]][c]] \in Sum
  BY <1>1 DEF Total, GrandSum, Sum
<1>3. [total[s].sum EXCEPT ![s] =
         [c \in Collectors |-> @[c] + scrapeDurations[s][key[s]][c]]] \in GrandSum
  BY <1>1, <1>2 DEF Total, GrandSum
<1>4. QED
  BY <1>1, <1>3 DEF NewTotal, Total

\* Every step keeps the types, given that wg.Done is called by goroutines that
\* were added.
LEMMA TypeStep ==
  ASSUME Control, [Next]_vars
  PROVE  TypeOK'
<1>0. TypeOK
  BY DEF Control
<1>1. ASSUME NEW s \in Scrapes, StartScrape(s)
      PROVE  TypeOK'
  BY <1>0, <1>1 DEF StartScrape, Goto, Phases, TypeOK, goroutineVars, totalVars, gatherVars
<1>2. ASSUME NEW s \in Scrapes, NEW c \in Collectors,
             Spawn(s, c)
      PROVE  TypeOK'
  <2>1. pc' \in [Scrapes -> [Collectors -> Steps]]
    BY <1>0, <1>2, StepType DEF Spawn, Steps, TypeOK
  <2>2. wg' \in [Scrapes -> Nat]
    BY <1>0, <1>2 DEF Spawn, Added, TypeOK
  <2>3. QED
    BY <1>0, <1>2, <2>1, <2>2 DEF Spawn, TypeOK, goroutineVars, totalVars, gatherVars
<1>3. ASSUME NEW s \in Scrapes, EndSpawn(s)
      PROVE  TypeOK'
  BY <1>0, <1>3 DEF EndSpawn, Goto, Phases, TypeOK, goroutineVars, totalVars, gatherVars
<1>4. ASSUME NEW s \in Scrapes, NEW c \in Collectors, NEW src \in Recordable[c],
             RecordScrapeSource(s, c, src)
      PROVE  TypeOK'
  <2>1. src \in Sources
    BY RegistryAssumption
  <2>2. source \in [Scrapes -> [Collectors -> Sources]]
    BY <1>0 DEF TypeOK
  <2>3. source' \in [Scrapes -> [Collectors -> Sources]]
    BY <1>4, <2>1, <2>2, TableUpdate DEF RecordScrapeSource
  <2>4. QED
    BY <1>0, <1>4, <2>3 DEF RecordScrapeSource, TypeOK, goroutineVars, totalVars, gatherVars
<1>5. ASSUME NEW s \in Scrapes, NEW c \in Collectors, NEW res \in Results,
             CollectReturns(s, c, res)
      PROVE  TypeOK'
  <2>1. pc' \in [Scrapes -> [Collectors -> Steps]]
    BY <1>0, <1>5, StepType DEF CollectReturns, Steps, TypeOK
  <2>2. result \in [Scrapes -> [Collectors -> Results]]
    BY <1>0 DEF TypeOK
  <2>3. result' \in [Scrapes -> [Collectors -> Results]]
    BY <1>5, <2>2, TableUpdate DEF CollectReturns
  <2>4. QED
    BY <1>0, <1>5, <2>1, <2>2, <2>3 DEF CollectReturns, TypeOK, goroutineVars, totalVars, gatherVars
<1>6. ASSUME NEW s \in Scrapes, NEW c \in Collectors,
             SendOutcome(s, c)
      PROVE  TypeOK'
  <2>1. pc' \in [Scrapes -> [Collectors -> Steps]]
    BY <1>0, <1>6, StepType DEF SendOutcome, Steps, TypeOK
  <2>2. result[s][c] \in Results
    BY <1>0 DEF TypeOK
  <2>3. sent' \in [Scrapes -> [Samples -> Nat]]
    BY <1>0, <1>6, EmitType DEF SendOutcome
  <2>4. QED
    BY <1>0, <1>6, <2>1, <2>2, <2>3 DEF SendOutcome, TypeOK, goroutineVars, totalVars, gatherVars
<1>7. ASSUME NEW s \in Scrapes, NEW c \in Collectors,
             SendSelfMetrics(s, c)
      PROVE  TypeOK'
  <2>1. pc' \in [Scrapes -> [Collectors -> Steps]]
    BY <1>0, <1>7, StepType DEF SendSelfMetrics, Steps, TypeOK
  <2>2. result[s][c] \in Results
    BY <1>0 DEF TypeOK
  <2>3. sent' \in [Scrapes -> [Samples -> Nat]]
    BY <1>0, <1>7, EmitType DEF SendSelfMetrics
  <2>4. QED
    BY <1>0, <1>7, <2>1, <2>2, <2>3 DEF SendSelfMetrics, TypeOK, goroutineVars, totalVars, gatherVars
<1>8. ASSUME NEW s \in Scrapes, NEW c \in Collectors,
             LockDurations(s, c)
      PROVE  TypeOK'
  <2>1. pc' \in [Scrapes -> [Collectors -> Steps]]
    BY <1>0, <1>8, StepType DEF LockDurations, Steps, TypeOK
  <2>2. scrapeDurationMu' \in [Scrapes -> SUBSET Collectors]
    BY <1>0, <1>8 DEF LockDurations, TypeOK
  <2>3. QED
    BY <1>0, <1>8, <2>1, <2>2 DEF LockDurations, TypeOK, goroutineVars, totalVars, gatherVars
<1>9. ASSUME NEW s \in Scrapes, NEW c \in Collectors,
             LoadDuration(s, c)
      PROVE  TypeOK'
  <2>1. pc' \in [Scrapes -> [Collectors -> Steps]]
    BY <1>0, <1>9, StepType DEF LoadDuration, Steps, TypeOK
  <2>2. scrapeDurations[s][Key(s, c)] \in Sum
    BY <1>0, KeyType DEF TypeOK
  <2>3. read \in [Scrapes -> [Collectors -> Sum]]
    BY <1>0 DEF TypeOK
  <2>4. read' \in [Scrapes -> [Collectors -> Sum]]
    BY <1>9, <2>2, <2>3, TableUpdate DEF LoadDuration
  <2>5. QED
    BY <1>0, <1>9, <2>1, <2>2, <2>3, <2>4 DEF LoadDuration, TypeOK, goroutineVars, totalVars, gatherVars
<1>10. ASSUME NEW s \in Scrapes, NEW c \in Collectors,
             StoreDuration(s, c)
      PROVE  TypeOK'
  <2>1. pc' \in [Scrapes -> [Collectors -> Steps]]
    BY <1>0, <1>10, StepType DEF StoreDuration, Steps, TypeOK
  <2>2. read[s][c] \in Sum
    BY <1>0 DEF TypeOK
  <2>3. [read[s][c] EXCEPT ![c] = @ + 1] \in Sum
    BY <2>2 DEF Sum
  <2>4. scrapeDurations \in [Scrapes -> [Keys -> Sum]]
    BY <1>0 DEF TypeOK
  <2>5. scrapeDurations' \in [Scrapes -> [Keys -> Sum]]
    BY <1>0, <1>10, <2>3, <2>4, KeyType, TableUpdate DEF StoreDuration
  <2>6. scrapeDurationMu' \in [Scrapes -> SUBSET Collectors]
    BY <1>0, <1>10 DEF StoreDuration, TypeOK
  <2>7. QED
    BY <1>0, <1>10, <2>1, <2>2, <2>3, <2>4, <2>5, <2>6 DEF StoreDuration, TypeOK, goroutineVars, totalVars, gatherVars
<1>11. ASSUME NEW s \in Scrapes, NEW c \in Collectors,
             Done(s, c)
      PROVE  TypeOK'
  <2>1. pc' \in [Scrapes -> [Collectors -> Steps]]
    BY <1>0, <1>11, StepType DEF Done, Steps, TypeOK
  <2>2. wg[s] - 1 \in Nat
    BY <1>11, DoneIsCounted DEF Done, Step
  <2>3. wg' \in [Scrapes -> Nat]
    BY <1>0, <1>11, <2>2 DEF Done, TypeOK
  <2>4. QED
    BY <1>0, <1>11, <2>1, <2>2, <2>3 DEF Done, TypeOK, goroutineVars, totalVars, gatherVars
<1>12. ASSUME NEW s \in Scrapes, WaitReturns(s)
       PROVE  TypeOK'
  <2>1. MapKeys(s) \subseteq Keys
    BY DEF MapKeys
  <2>2. QED
    BY <1>0, <1>12, <2>1 DEF WaitReturns, Goto, Phases, TypeOK, goroutineVars, totalVars, gatherVars
<1>13. ASSUME NEW s \in Scrapes, LockTotals(s)
      PROVE  TypeOK'
  BY <1>0, <1>13 DEF LockTotals, Goto, Phases, TypeOK, goroutineVars, totalVars, gatherVars
<1>14. ASSUME NEW s \in Scrapes, NEW k \in Keys, LoadTotal(s, k)
      PROVE  TypeOK'
  BY <1>0, <1>14 DEF LoadTotal, Goto, Phases, TypeOK, goroutineVars, totalVars, gatherVars
<1>15. ASSUME NEW s \in Scrapes, StoreTotal(s)
       PROVE  TypeOK'
  <2>1. NewTotal(s) \in Total /\ key[s] \in Keys
    BY <1>0, NewTotalType DEF TypeOK
  <2>2. [key |-> key[s], total |-> NewTotal(s)] \in Summary
    BY <2>1 DEF Summary
  <2>3. durations' \in [Keys -> Total] /\ metrics' \in [Scrapes -> SUBSET Summary]
    BY <1>0, <1>15, <2>1, <2>2 DEF StoreTotal, TypeOK
  <2>4. QED
    BY <1>0, <1>15, <2>3 DEF StoreTotal, Goto, Phases, TypeOK, goroutineVars, totalVars, gatherVars
<1>16. ASSUME NEW s \in Scrapes, UnlockTotals(s)
      PROVE  TypeOK'
  BY <1>0, <1>16 DEF UnlockTotals, Goto, Phases, TypeOK, goroutineVars, totalVars, gatherVars
<1>17. ASSUME NEW s \in Scrapes, NEW m \in metrics[s], SendSummary(s, m)
      PROVE  TypeOK'
  BY <1>0, <1>17 DEF SendSummary, Goto, TypeOK, goroutineVars, totalVars, gatherVars
<1>18. ASSUME NEW s \in Scrapes, Return(s)
      PROVE  TypeOK'
  BY <1>0, <1>18 DEF Return, Goto, Phases, TypeOK, goroutineVars, totalVars, gatherVars
<1>19. ASSUME NEW s \in Scrapes, Answer(s)
      PROVE  TypeOK'
  BY <1>0, <1>19 DEF Answer, Goto, Phases, TypeOK, goroutineVars, totalVars, gatherVars
<1>20. CASE UNCHANGED vars
  BY <1>0, <1>20 DEF vars, TypeOK, goroutineVars, totalVars, gatherVars
<1>21. QED
  BY <1>1, <1>2, <1>3, <1>4, <1>5, <1>6, <1>7, <1>8, <1>9, <1>10, <1>11, <1>12,
     <1>13, <1>14, <1>15, <1>16, <1>17, <1>18, <1>19, <1>20
  DEF Next, Call, Collecting, Report, Quiescent

-----------------------------------------------------------------------------
\* The WaitGroup and the progress of the goroutines.

\* A step of one goroutine moves its pc and no other.
LEMMA StepEffect ==
  ASSUME pc \in [Scrapes -> [Collectors -> Steps]],
         NEW s \in Scrapes, NEW c \in Collectors, NEW from, NEW to,
         Step(s, c, from, to)
  PROVE  /\ pc[s][c] = from
         /\ \A t \in Scrapes, d \in Collectors :
              pc'[t][d] = IF t = s /\ d = c THEN to ELSE pc[t][d]
BY DEF Step

\* What a step does to the control state: it moves one goroutine, possibly
\* with a change of its WaitGroup, or it moves one call, or neither.
Moves(s, c, from, to) == Step(s, c, from, to) /\ phase' = phase

Running == {"collecting", "collected", "reporting", "lock", "load", "store", "done"}

\* Every step, as far as the control of calls and goroutines sees it.
LEMMA ControlCases ==
  ASSUME TypeOK, [Next]_vars
  PROVE
  \/ UNCHANGED <<phase, pc, wg>>
  \/ \E s \in Scrapes, c \in Collectors :
       /\ phase[s] = "spawning"
       /\ Moves(s, c, "unspawned", "collecting")
       /\ wg' = [wg EXCEPT ![s] = wg[s] + 1]
  \/ \E s \in Scrapes, c \in Collectors, from, to \in Running :
       Moves(s, c, from, to) /\ wg' = wg
  \/ \E s \in Scrapes, c \in Collectors :
       /\ Moves(s, c, "done", "exited")
       /\ wg' = [wg EXCEPT ![s] = wg[s] - 1]
  \/ \E s \in Scrapes, p \in Phases :
       /\ Goto(s, p)
       /\ UNCHANGED <<pc, wg>>
       /\ \/ phase[s] = "idle" /\ p = "spawning"
          \/ /\ phase[s] = "spawning" /\ p = "waiting"
             /\ \A c \in Collectors : pc[s][c] # "unspawned"
          \/ phase[s] = "waiting" /\ wg[s] = 0 /\ p = "observing"
          \/ Waited(s) /\ p \in Phases \ {"idle", "spawning", "waiting"}
<1> USE DEF goroutineVars
<1> DEFINE Case1 == UNCHANGED <<phase, pc, wg>>
           Case2 == \E s \in Scrapes, c \in Collectors :
                      /\ phase[s] = "spawning"
                      /\ Moves(s, c, "unspawned", "collecting")
                      /\ wg' = [wg EXCEPT ![s] = wg[s] + 1]
           Case3 == \E s \in Scrapes, c \in Collectors, from, to \in Running :
                      Moves(s, c, from, to) /\ wg' = wg
           Case4 == \E s \in Scrapes, c \in Collectors :
                      /\ Moves(s, c, "done", "exited")
                      /\ wg' = [wg EXCEPT ![s] = wg[s] - 1]
           Case5 == \E s \in Scrapes, p \in Phases :
                      /\ Goto(s, p)
                      /\ UNCHANGED <<pc, wg>>
                      /\ \/ phase[s] = "idle" /\ p = "spawning"
                         \/ /\ phase[s] = "spawning" /\ p = "waiting"
                            /\ \A c \in Collectors : pc[s][c] # "unspawned"
                         \/ phase[s] = "waiting" /\ wg[s] = 0 /\ p = "observing"
                         \/ /\ Waited(s)
                            /\ p \in Phases \ {"idle", "spawning", "waiting"}
<1> SUFFICES Case1 \/ Case2 \/ Case3 \/ Case4 \/ Case5
  OBVIOUS
<1>1. ASSUME NEW s \in Scrapes, StartScrape(s)
      PROVE  Case5
  BY <1>1 DEF StartScrape, Goto, Phases, Waited
<1>2. ASSUME NEW s \in Scrapes, NEW c \in Collectors, Spawn(s, c)
      PROVE  Case2
  BY <1>2 DEF Spawn, Moves, Added
<1>3. ASSUME NEW s \in Scrapes, EndSpawn(s)
      PROVE  Case5
  BY <1>3 DEF EndSpawn, Goto, Phases, Waited
<1>4. ASSUME NEW s \in Scrapes, NEW c \in Collectors, NEW src \in Recordable[c],
             RecordScrapeSource(s, c, src)
      PROVE  Case1
  BY <1>4 DEF RecordScrapeSource
<1>5. ASSUME NEW s \in Scrapes, NEW c \in Collectors, NEW res \in Results,
             CollectReturns(s, c, res)
      PROVE  Case3
  BY <1>5 DEF CollectReturns, Moves, Running
<1>6. ASSUME NEW s \in Scrapes, NEW c \in Collectors, SendOutcome(s, c)
      PROVE  Case3
  BY <1>6 DEF SendOutcome, Moves, Running
<1>7. ASSUME NEW s \in Scrapes, NEW c \in Collectors, SendSelfMetrics(s, c)
      PROVE  Case3
  BY <1>7 DEF SendSelfMetrics, Moves, Running
<1>8. ASSUME NEW s \in Scrapes, NEW c \in Collectors, LockDurations(s, c)
      PROVE  Case3
  BY <1>8 DEF LockDurations, Moves, Running
<1>9. ASSUME NEW s \in Scrapes, NEW c \in Collectors, LoadDuration(s, c)
      PROVE  Case3
  BY <1>9 DEF LoadDuration, Moves, Running
<1>10. ASSUME NEW s \in Scrapes, NEW c \in Collectors, StoreDuration(s, c)
      PROVE  Case3
  BY <1>10 DEF StoreDuration, Moves, Running
<1>11. ASSUME NEW s \in Scrapes, NEW c \in Collectors, Done(s, c)
      PROVE  Case4
  BY <1>11 DEF Done, Moves
<1>12. ASSUME NEW s \in Scrapes, WaitReturns(s)
      PROVE  Case5
  BY <1>12 DEF WaitReturns, Goto, Phases, Waited, CanReturnFromWait
<1>13. ASSUME NEW s \in Scrapes, LockTotals(s)
      PROVE  Case5
  BY <1>13 DEF LockTotals, Goto, Phases, Waited
<1>14. ASSUME NEW s \in Scrapes, NEW k \in Keys, LoadTotal(s, k)
      PROVE  Case5
  BY <1>14 DEF LoadTotal, Goto, Phases, Waited
<1>15. ASSUME NEW s \in Scrapes, StoreTotal(s)
      PROVE  Case5
  BY <1>15 DEF StoreTotal, Goto, Phases, Waited
<1>16. ASSUME NEW s \in Scrapes, UnlockTotals(s)
      PROVE  Case5
  BY <1>16 DEF UnlockTotals, Goto, Phases, Waited
<1>17. ASSUME NEW s \in Scrapes, NEW m \in metrics[s], SendSummary(s, m)
      PROVE  Case1
  BY <1>17 DEF SendSummary
<1>18. ASSUME NEW s \in Scrapes, Return(s)
      PROVE  Case5
  BY <1>18 DEF Return, Goto, Phases, Waited
<1>19. ASSUME NEW s \in Scrapes, Answer(s)
      PROVE  Case5
  BY <1>19 DEF Answer, Goto, Phases, Waited
<1>20. CASE UNCHANGED vars
  BY <1>20 DEF vars
<1>21. QED
  BY <1>1, <1>2, <1>3, <1>4, <1>5, <1>6, <1>7, <1>8, <1>9, <1>10, <1>11, <1>12, <1>13, <1>14, <1>15, <1>16, <1>17, <1>18, <1>19, <1>20
  DEF Next, Call, Collecting, Report, Quiescent

\* The goroutines of a call that are running are finitely many.
LEMMA LiveFinite ==
  ASSUME NEW s \in Scrapes
  PROVE  IsFiniteSet(Live(s)) /\ IsFiniteSet(Live(s)')
<1>1. Live(s) \in SUBSET Collectors /\ Live(s)' \in SUBSET Collectors
  BY DEF Live
<1>2. QED
  BY <1>1, RegistryAssumption, FS_Subset

\* Every step keeps the WaitGroup counter equal to the goroutines running.
LEMMA WaitGroupStep ==
  ASSUME Control, [Next]_vars
  PROVE  WaitGroup'
<1>0. TypeOK /\ WaitGroup
  BY DEF Control
<1>1. pc \in [Scrapes -> [Collectors -> Steps]] /\ wg \in [Scrapes -> Nat]
  BY <1>0 DEF TypeOK
<1>2. CASE UNCHANGED <<phase, pc, wg>>
  BY <1>0, <1>2 DEF WaitGroup, Live
<1>3. ASSUME NEW s \in Scrapes, NEW c \in Collectors,
             Moves(s, c, "unspawned", "collecting"),
             wg' = [wg EXCEPT ![s] = wg[s] + 1]
      PROVE  WaitGroup'
  <2>1. Live(s)' = Live(s) \cup {c} /\ c \notin Live(s)
    BY <1>1, <1>3, StepEffect DEF Moves, Live
  <2>2. Cardinality(Live(s)') = Cardinality(Live(s)) + 1
    BY <2>1, LiveFinite, FS_AddElement
  <2>3. \A t \in Scrapes \ {s} : Live(t)' = Live(t)
    BY <1>1, <1>3, StepEffect DEF Moves, Live
  <2>4. QED
    BY <1>0, <1>1, <1>3, <2>2, <2>3 DEF WaitGroup
<1>4. ASSUME NEW s \in Scrapes, NEW c \in Collectors,
             NEW from \in Running, NEW to \in Running,
             Moves(s, c, from, to), wg' = wg
      PROVE  WaitGroup'
  <2>1. \A t \in Scrapes : Live(t)' = Live(t)
    BY <1>1, <1>4, StepEffect DEF Moves, Live, Running
  <2>2. QED
    BY <1>0, <1>4, <2>1 DEF WaitGroup
<1>5. ASSUME NEW s \in Scrapes, NEW c \in Collectors,
             Moves(s, c, "done", "exited"),
             wg' = [wg EXCEPT ![s] = wg[s] - 1]
      PROVE  WaitGroup'
  <2>1. Live(s)' = Live(s) \ {c} /\ c \in Live(s)
    BY <1>1, <1>5, StepEffect DEF Moves, Live
  <2>2. Cardinality(Live(s)') = Cardinality(Live(s)) - 1
    BY <2>1, LiveFinite, FS_RemoveElement
  <2>3. \A t \in Scrapes \ {s} : Live(t)' = Live(t)
    BY <1>1, <1>5, StepEffect DEF Moves, Live
  <2>4. QED
    BY <1>0, <1>1, <1>5, <2>2, <2>3 DEF WaitGroup
<1>6. CASE UNCHANGED <<pc, wg>>
  BY <1>0, <1>6 DEF WaitGroup, Live
<1>7. QED
  BY <1>0, <1>2, <1>3, <1>4, <1>5, <1>6, ControlCases

\* Every step keeps calls and their goroutines in order: all are spawned before
\* the call waits and have exited when it goes on.
LEMMA ProgressStep ==
  ASSUME Control, [Next]_vars
  PROVE  Progress'
<1>0. TypeOK /\ WaitGroup /\ Progress
  BY DEF Control
<1>1. pc \in [Scrapes -> [Collectors -> Steps]] /\ phase \in [Scrapes -> Phases]
  BY <1>0 DEF TypeOK
<1>2. CASE UNCHANGED <<phase, pc, wg>>
  BY <1>0, <1>2 DEF Progress, Waited
<1>3. ASSUME NEW s \in Scrapes, NEW c \in Collectors, phase[s] = "spawning",
             Moves(s, c, "unspawned", "collecting")
      PROVE  Progress'
  BY <1>0, <1>1, <1>3, StepEffect DEF Progress, Moves, Waited
<1>4. ASSUME NEW s \in Scrapes, NEW c \in Collectors,
             NEW from \in Running, NEW to \in Running \cup {"exited"},
             Moves(s, c, from, to)
      PROVE  Progress'
  BY <1>0, <1>1, <1>4, StepEffect DEF Progress, Moves, Waited, Running
<1>5. ASSUME NEW s \in Scrapes, NEW p \in Phases, Goto(s, p), UNCHANGED <<pc, wg>>,
             \/ phase[s] = "idle" /\ p = "spawning"
             \/ /\ phase[s] = "spawning" /\ p = "waiting"
                /\ \A c \in Collectors : pc[s][c] # "unspawned"
             \/ phase[s] = "waiting" /\ wg[s] = 0 /\ p = "observing"
             \/ Waited(s) /\ p \in Phases \ {"idle", "spawning", "waiting"}
      PROVE  Progress'
  <2>1. ASSUME phase[s] = "waiting", wg[s] = 0
        PROVE  \A c \in Collectors : pc[s][c] = "exited"
    <3>1. Live(s) = {}
      BY <1>0, <2>1, LiveFinite, FS_EmptySet DEF WaitGroup
    <3>2. QED
      BY <1>0, <2>1, <3>1 DEF Live, Progress
  <2>2. \A t \in Scrapes : phase'[t] = IF t = s THEN p ELSE phase[t]
    BY <1>1, <1>5 DEF Goto
  <2>3. QED
    BY <1>0, <1>5, <2>1, <2>2 DEF Progress, Waited
<1>6. QED
  <2>1. "done" \in Running
    BY DEF Running
  <2>2. QED
    BY <1>0, <1>2, <1>3, <1>4, <1>5, <2>1, ControlCases

\* The control invariant holds at first.
LEMMA ControlInit == Init => Control
<1> SUFFICES ASSUME Init PROVE Control
  OBVIOUS
<1>1. TypeOK
  <2>1. (CHOOSE k \in Keys : TRUE) \in Keys
    <3>1. PICK src \in Sources : TRUE
      BY RegistryAssumption
    <3>2. [source |-> src, result |-> "error"] \in Keys
      BY DEF Keys, Results
    <3>3. QED
      BY <3>2
  <2>2. QED
    BY <2>1, SumTypes, RegistryAssumption
    DEF Init, TypeOK, Phases, Steps, Results, GrandSum
<1>2. WaitGroup
  <2>1. \A s \in Scrapes : Live(s) = {} /\ wg[s] = 0
    BY DEF Init, Live
  <2>2. QED
    BY <2>1, FS_EmptySet DEF WaitGroup
<1>3. Progress
  BY DEF Init, Progress, Waited
<1>4. QED
  BY <1>1, <1>2, <1>3 DEF Control

\* The types, and the WaitGroup as the number of goroutines that the call still
\* has to wait for (collector.go:103-157).
THEOREM ControlInvariant == Spec => []Control
<1>1. Control /\ [Next]_vars => Control'
  BY TypeStep, WaitGroupStep, ProgressStep DEF Control
<1>2. QED
  BY <1>1, ControlInit, PTL DEF Spec

\* Every variable keeps to its type; in particular a WaitGroup counter is never
\* negative, which Go punishes with a panic.
THEOREM TypeCorrect == Spec => []TypeOK
BY ControlInvariant, PTL DEF Control

\* A call that has returned has left no goroutine behind.
THEOREM NothingSentAfterReturn == Spec => []NoSendAfterReturn
<1>1. Control => NoSendAfterReturn
  BY DEF Control, Progress, Waited, NoSendAfterReturn
<1>2. QED
  BY <1>1, ControlInvariant, PTL

-----------------------------------------------------------------------------
\* The map local to a call.

\* scrapeDurationMu is a mutex: its holder is the goroutine between Lock and
\* Unlock, and there is one at most.
DurationMutex ==
  \A s \in Scrapes :
    /\ \A c \in Collectors : c \in scrapeDurationMu[s] <=> pc[s][c] \in {"load", "store"}
    /\ \A c, d \in scrapeDurationMu[s] : c = d

\* What the holder has read is still what the map holds.
DurationRead ==
  \A s \in Scrapes, c \in Collectors :
    pc[s][c] = "store" => read[s][c] = scrapeDurations[s][Key(s, c)]

\* The map holds the runs that have been merged, each under its own key.
DurationMerged ==
  \A s \in Scrapes, k \in Keys, c \in Collectors :
    scrapeDurations[s][k][c] =
      IF pc[s][c] \in {"done", "exited"} /\ Key(s, c) = k THEN 1 ELSE 0

Merging == DurationMutex /\ DurationRead /\ DurationMerged

MergeVars == <<pc, source, result, scrapeDurationMu, read, scrapeDurations>>

\* Steps that touch no duration keep the invariant of the merge.
LEMMA MergingUnchanged ==
  ASSUME Merging, UNCHANGED MergeVars
  PROVE  Merging'
BY DEF Merging, MergeVars, DurationMutex, DurationRead, DurationMerged, Key

\* Before the lock, neither the pc nor the key of a goroutine matters.
Early == {"unspawned", "collecting", "collected", "reporting", "lock"}

\* So do changes to a goroutine that is not yet at the lock.
LEMMA MergingEarly ==
  ASSUME TypeOK, Merging, NEW s \in Scrapes, NEW c \in Collectors,
         pc[s][c] \in Early, pc'[s][c] \in Early,
         \A t \in Scrapes, d \in Collectors :
           t # s \/ d # c => pc'[t][d] = pc[t][d] /\ Key(t, d)' = Key(t, d),
         UNCHANGED <<scrapeDurationMu, read, scrapeDurations>>
  PROVE  Merging'
<1>1. DurationMutex'
  BY DEF Merging, DurationMutex, Early
<1>2. DurationRead'
  BY DEF Merging, DurationRead, Early
<1>3. DurationMerged'
  BY DEF Merging, DurationMerged, Early
<1>4. QED
  BY <1>1, <1>2, <1>3 DEF Merging

\* And so does the step that brings it there, or anywhere before.
LEMMA MergingEarlyStep ==
  ASSUME TypeOK, Merging, NEW s \in Scrapes, NEW c \in Collectors,
         NEW from \in Early, NEW to \in Early, Step(s, c, from, to),
         \A t \in Scrapes, d \in Collectors :
           t # s \/ d # c => Key(t, d)' = Key(t, d),
         UNCHANGED <<scrapeDurationMu, read, scrapeDurations>>
  PROVE  Merging'
<1>1. pc \in [Scrapes -> [Collectors -> Steps]]
  BY DEF TypeOK
<1>2. /\ pc[s][c] = from
      /\ \A t \in Scrapes, d \in Collectors :
           pc'[t][d] = IF t = s /\ d = c THEN to ELSE pc[t][d]
  BY <1>1, StepEffect
<1>3. QED
  BY <1>2, MergingEarly

\* Every step keeps the invariant of the merge.
LEMMA MergingStep ==
  ASSUME Control, Merging, [Next]_vars
  PROVE  Merging'
<1>0. /\ TypeOK
      /\ pc \in [Scrapes -> [Collectors -> Steps]]
      /\ scrapeDurationMu \in [Scrapes -> SUBSET Collectors]
      /\ read \in [Scrapes -> [Collectors -> Sum]]
      /\ scrapeDurations \in [Scrapes -> [Keys -> Sum]]
      /\ source \in [Scrapes -> [Collectors -> Sources]]
      /\ result \in [Scrapes -> [Collectors -> Results]]
  BY DEF Control, TypeOK
<1>1. ASSUME NEW s \in Scrapes, NEW c \in Collectors, Spawn(s, c)
      PROVE  Merging'
  <2>1. Step(s, c, "unspawned", "collecting") /\ {"unspawned", "collecting"} \subseteq Early
    BY <1>1 DEF Spawn, Early
  <2>2. UNCHANGED <<source, result, scrapeDurationMu, read, scrapeDurations>>
    BY <1>1 DEF Spawn
  <2>3. \A t \in Scrapes, d \in Collectors : Key(t, d)' = Key(t, d)
    BY <2>2 DEF Key
  <2>4. QED
    BY <1>0, <2>1, <2>2, <2>3, MergingEarlyStep
<1>2. ASSUME NEW s \in Scrapes, NEW c \in Collectors, NEW src \in Recordable[c],
             RecordScrapeSource(s, c, src)
      PROVE  Merging'
  <2>1. \A t \in Scrapes, d \in Collectors :
          t # s \/ d # c => source'[t][d] = source[t][d]
    BY <1>0, <1>2 DEF RecordScrapeSource
  <2>2. /\ pc[s][c] = "collecting" /\ "collecting" \in Early
        /\ UNCHANGED <<pc, result, scrapeDurationMu, read, scrapeDurations>>
    BY <1>2 DEF RecordScrapeSource, Early
  <2>3. \A t \in Scrapes, d \in Collectors :
          t # s \/ d # c => Key(t, d)' = Key(t, d)
    BY <2>1, <2>2 DEF Key
  <2>4. QED
    BY <1>0, <2>2, <2>3, MergingEarly
<1>3. ASSUME NEW s \in Scrapes, NEW c \in Collectors, NEW res \in Results,
             CollectReturns(s, c, res)
      PROVE  Merging'
  <2>1. \A t \in Scrapes, d \in Collectors :
          t # s \/ d # c => result'[t][d] = result[t][d]
    BY <1>0, <1>3 DEF CollectReturns
  <2>2. Step(s, c, "collecting", "collected") /\ {"collecting", "collected"} \subseteq Early
    BY <1>3 DEF CollectReturns, Early
  <2>3. UNCHANGED <<source, scrapeDurationMu, read, scrapeDurations>>
    BY <1>3 DEF CollectReturns
  <2>4. \A t \in Scrapes, d \in Collectors :
          t # s \/ d # c => Key(t, d)' = Key(t, d)
    BY <2>1, <2>3 DEF Key
  <2>5. QED
    BY <1>0, <2>2, <2>3, <2>4, MergingEarlyStep
<1>4. ASSUME NEW s \in Scrapes, NEW c \in Collectors, SendOutcome(s, c)
      PROVE  Merging'
  <2>1. Step(s, c, "collected", "reporting") /\ {"collected", "reporting"} \subseteq Early
    BY <1>4 DEF SendOutcome, Early
  <2>2. UNCHANGED <<source, result, scrapeDurationMu, read, scrapeDurations>>
    BY <1>4 DEF SendOutcome
  <2>3. \A t \in Scrapes, d \in Collectors : Key(t, d)' = Key(t, d)
    BY <2>2 DEF Key
  <2>4. QED
    BY <1>0, <2>1, <2>2, <2>3, MergingEarlyStep
<1>5. ASSUME NEW s \in Scrapes, NEW c \in Collectors, SendSelfMetrics(s, c)
      PROVE  Merging'
  <2>1. Step(s, c, "reporting", "lock") /\ {"reporting", "lock"} \subseteq Early
    BY <1>5 DEF SendSelfMetrics, Early
  <2>2. UNCHANGED <<source, result, scrapeDurationMu, read, scrapeDurations>>
    BY <1>5 DEF SendSelfMetrics
  <2>3. \A t \in Scrapes, d \in Collectors : Key(t, d)' = Key(t, d)
    BY <2>2 DEF Key
  <2>4. QED
    BY <1>0, <2>1, <2>2, <2>3, MergingEarlyStep
<1>6. ASSUME NEW s \in Scrapes, NEW c \in Collectors, LockDurations(s, c)
      PROVE  Merging'
  <2>1. \A t \in Scrapes, d \in Collectors :
          pc'[t][d] = IF t = s /\ d = c THEN "load" ELSE pc[t][d]
    BY <1>0, <1>6, StepEffect DEF LockDurations
  <2>2. pc[s][c] = "lock" /\ UNCHANGED <<source, result, read, scrapeDurations>>
    BY <1>6 DEF LockDurations, Step
  <2>3. scrapeDurationMu[s] = {} /\ scrapeDurationMu'[s] = {c}
        /\ \A t \in Scrapes : t # s => scrapeDurationMu'[t] = scrapeDurationMu[t]
    BY <1>0, <1>6 DEF LockDurations, CanLockDurations
  <2>4. DurationMutex'
    BY <2>1, <2>2, <2>3 DEF Merging, DurationMutex
  <2>5. DurationRead' /\ DurationMerged'
    BY <2>1, <2>2 DEF Merging, DurationRead, DurationMerged, Key
  <2>6. QED
    BY <2>4, <2>5 DEF Merging
<1>7. ASSUME NEW s \in Scrapes, NEW c \in Collectors, LoadDuration(s, c)
      PROVE  Merging'
  <2>1. \A t \in Scrapes, d \in Collectors :
          pc'[t][d] = IF t = s /\ d = c THEN "store" ELSE pc[t][d]
    BY <1>0, <1>7, StepEffect DEF LoadDuration
  <2>2. pc[s][c] = "load"
        /\ UNCHANGED <<source, result, scrapeDurationMu, scrapeDurations>>
    BY <1>7 DEF LoadDuration, Step
  <2>3. \A t \in Scrapes, d \in Collectors :
          read'[t][d] = IF t = s /\ d = c THEN scrapeDurations[s][Key(s, c)]
                                         ELSE read[t][d]
    BY <1>0, <1>7 DEF LoadDuration
  <2>4. DurationMutex' /\ DurationMerged'
    BY <2>1, <2>2 DEF Merging, DurationMutex, DurationMerged, Key
  <2>5. DurationRead'
    BY <2>1, <2>2, <2>3 DEF Merging, DurationRead, Key
  <2>6. QED
    BY <2>4, <2>5 DEF Merging
<1>8. ASSUME NEW s \in Scrapes, NEW c \in Collectors, StoreDuration(s, c)
      PROVE  Merging'
  <2>1. \A t \in Scrapes, d \in Collectors :
          pc'[t][d] = IF t = s /\ d = c THEN "done" ELSE pc[t][d]
    BY <1>0, <1>8, StepEffect DEF StoreDuration
  <2>2. pc[s][c] = "store" /\ UNCHANGED <<source, result, read>>
    BY <1>8 DEF StoreDuration, Step
  <2>3. \A t \in Scrapes, d \in Collectors : Key(t, d)' = Key(t, d) /\ Key(t, d) \in Keys
    BY <1>0, <2>2, KeyType DEF Key
  <2>4. \A t \in Scrapes :
          scrapeDurationMu'[t] = IF t = s THEN scrapeDurationMu[s] \ {c}
                                          ELSE scrapeDurationMu[t]
    BY <1>0, <1>8 DEF StoreDuration
  <2>5. read[s][c] = scrapeDurations[s][Key(s, c)]
    BY <2>2 DEF Merging, DurationRead
  <2>6. \A t \in Scrapes, k \in Keys :
          scrapeDurations'[t][k] =
            IF t = s /\ k = Key(s, c)
            THEN [scrapeDurations[s][k] EXCEPT ![c] = @ + 1]
            ELSE scrapeDurations[t][k]
    <3>1. PICK k0 : k0 = Key(s, c)
      BY Zenon
    <3>2. PICK v0 : v0 = [scrapeDurations[s][k0] EXCEPT ![c] = @ + 1]
      BY Zenon
    <3>3. scrapeDurations' = [scrapeDurations EXCEPT ![s][k0] = v0]
      BY <1>8, <2>5, <3>1, <3>2 DEF StoreDuration
    <3>4. scrapeDurations \in [Scrapes -> [Keys -> Sum]] /\ k0 \in Keys
      BY <1>0, <2>3, <3>1
    <3>5. ASSUME NEW t \in Scrapes, NEW k \in Keys
          PROVE  scrapeDurations'[t][k] =
                   IF t = s /\ k = k0 THEN v0 ELSE scrapeDurations[t][k]
      BY <3>3, <3>4, TableEntry
    <3>6. QED
      BY <3>1, <3>2, <3>5
  <2>7. DurationMutex'
    <3>1. c \in scrapeDurationMu[s] /\ \A d \in scrapeDurationMu[s] : d = c
      BY <2>2 DEF Merging, DurationMutex
    <3>2. scrapeDurationMu'[s] = {}
      BY <2>4, <3>1
    <3>3. \A d \in Collectors : d # c => pc[s][d] \notin {"load", "store"}
      BY <3>1 DEF Merging, DurationMutex
    <3>4. \A d \in Collectors : pc'[s][d] \notin {"load", "store"}
      BY <2>1, <3>3
    <3>5. QED
      BY <2>1, <2>4, <3>2, <3>4 DEF Merging, DurationMutex
  <2>8. DurationRead'
    <3> SUFFICES ASSUME NEW t \in Scrapes, NEW d \in Collectors, pc'[t][d] = "store"
                 PROVE  read[t][d] = scrapeDurations'[t][Key(t, d)]
      BY <2>2, <2>3 DEF DurationRead
    <3>1. pc[t][d] = "store" /\ t # s
      BY <2>1, <2>2 DEF Merging, DurationMutex
    <3>2. QED
      BY <2>3, <2>6, <3>1 DEF Merging, DurationRead
  <2>9. DurationMerged'
    <3> SUFFICES ASSUME NEW t \in Scrapes, NEW k \in Keys, NEW d \in Collectors
                 PROVE  scrapeDurations'[t][k][d] =
                          IF pc'[t][d] \in {"done", "exited"} /\ Key(t, d) = k
                          THEN 1 ELSE 0
      BY <2>3 DEF DurationMerged
    <3>1. CASE t = s /\ k = Key(s, c)
      <4>1. scrapeDurations[s][k] \in [Collectors -> Nat]
        BY <1>0 DEF Sum
      <4>2. scrapeDurations'[t][k][d] =
              IF d = c THEN scrapeDurations[s][k][c] + 1 ELSE scrapeDurations[s][k][d]
        BY <2>6, <3>1, <4>1
      <4>3. scrapeDurations[s][k][c] = 0
        BY <2>2 DEF Merging, DurationMerged
      <4>4. QED
        BY <2>1, <2>2, <3>1, <4>2, <4>3 DEF Merging, DurationMerged
    <3>2. CASE ~(t = s /\ k = Key(s, c))
      <4>1. scrapeDurations'[t][k] = scrapeDurations[t][k]
        BY <2>6, <3>2
      <4>2. QED
        BY <2>1, <2>2, <3>2, <4>1 DEF Merging, DurationMerged
    <3>3. QED
      BY <3>1, <3>2
  <2>10. QED
    BY <2>7, <2>8, <2>9 DEF Merging
<1>9. ASSUME NEW s \in Scrapes, NEW c \in Collectors, Done(s, c)
      PROVE  Merging'
  <2>1. \A t \in Scrapes, d \in Collectors :
          pc'[t][d] = IF t = s /\ d = c THEN "exited" ELSE pc[t][d]
    BY <1>0, <1>9, StepEffect DEF Done
  <2>2. pc[s][c] = "done"
        /\ UNCHANGED <<source, result, scrapeDurationMu, read, scrapeDurations>>
    BY <1>9 DEF Done, Step
  <2>3. QED
    BY <2>1, <2>2 DEF Merging, DurationMutex, DurationRead, DurationMerged, Key
<1>10. ASSUME NEW s \in Scrapes, StartScrape(s) \/ Call(s), ~ \E c \in Collectors : Spawn(s, c)
       PROVE  UNCHANGED MergeVars
  BY <1>10
  DEF Call, StartScrape, EndSpawn, WaitReturns, LockTotals, LoadTotal, StoreTotal,
      UnlockTotals, SendSummary, Return, Answer, MergeVars, goroutineVars
<1>11. CASE UNCHANGED vars
  BY <1>11, MergingUnchanged DEF vars, goroutineVars, MergeVars
<1>12. QED
  <2>1. ASSUME NEW s \in Scrapes, StartScrape(s) \/ Call(s)
        PROVE  Merging'
    BY <1>1, <1>10, <2>1, MergingUnchanged
  <2>2. QED
    BY <1>2, <1>3, <1>4, <1>5, <1>6, <1>7, <1>8, <1>9, <1>11, <2>1
    DEF Next, Collecting, Report, Quiescent

\* The invariant of the merge holds at first.
LEMMA MergingInit == Init => Merging
<1> SUFFICES ASSUME Init PROVE Merging
  OBVIOUS
<1>1. /\ \A s \in Scrapes : scrapeDurationMu[s] = {}
      /\ \A s \in Scrapes, c \in Collectors : pc[s][c] = "unspawned"
      /\ \A s \in Scrapes, k \in Keys, c \in Collectors : scrapeDurations[s][k][c] = 0
  BY DEF Init, NoSum
<1>2. QED
  BY <1>1 DEF Merging, DurationMutex, DurationRead, DurationMerged

\* The goroutine inside scrapeDurationMu holds the current value of its entry,
\* and the map has the durations of those that have left it
\* (collector.go:150-153).
THEOREM MergingInvariant == Spec => []Merging
<1>1. Control /\ Merging /\ [Next]_vars => Merging'
  BY MergingStep
<1>2. QED
  BY <1>1, MergingInit, ControlInvariant, PTL DEF Spec

\* With all goroutines gone, the merged durations are all there are.
LEMMA MergedIsExpected ==
  ASSUME Control, Merging
  PROVE  DurationsComplete
<1> SUFFICES ASSUME NEW s \in Scrapes, Waited(s), NEW k \in Keys
             PROVE  scrapeDurations[s][k] = Expected(s, k)
  BY DEF DurationsComplete
<1>1. \A c \in Collectors : pc[s][c] = "exited"
  BY DEF Control, Progress
<1>2. scrapeDurations[s][k] \in [Collectors -> Nat]
  BY DEF Control, TypeOK, Sum
<1>3. \A c \in Collectors :
        scrapeDurations[s][k][c] = IF Key(s, c) = k THEN 1 ELSE 0
  BY <1>1 DEF Merging, DurationMerged
<1>4. QED
  BY <1>2, <1>3 DEF Expected

\* When a call folds its map into the totals, every collector's duration is in
\* the map, once and under its own (source, result), however the goroutines
\* interleaved.
THEOREM DurationsAreComplete == Spec => []DurationsComplete
BY MergedIsExpected, MergingInvariant, ControlInvariant, PTL

-----------------------------------------------------------------------------
(* The totals that all scrapes share.                                      *)

\* durationMu is a mutex, held from the lock to the end of the loop.
TotalsMutex ==
  /\ \A s \in Scrapes : s \in durationMu <=> phase[s] \in {"next key", "store"}
  /\ \A s, t \in durationMu : s = t

\* A call visits no key twice, and what it has loaded stays the value of the
\* shared map until it stores.
VisitingBy(s) ==
  /\ ~Waited(s) \/ phase[s] = "observing" => metrics[s] = {}
  /\ \A m \in metrics[s] : m.key \notin keys[s]
  /\ phase[s] = "store" =>
       /\ total[s] = durations[key[s]]
       /\ key[s] \notin keys[s]
       /\ \A m \in metrics[s] : m.key # key[s]

Visiting == \A s \in Scrapes : VisitingBy(s)

Totalling == TotalsMutex /\ Visiting /\ TotalsExact

-----------------------------------------------------------------------------
\* Every step, as far as the totals see it.
LEMMA TotalCases ==
  ASSUME [Next]_vars
  PROVE  \/ UNCHANGED <<phase, totalVars, summaries, before>>
         \/ \E s \in Scrapes :
              \/ StartScrape(s)
              \/ EndSpawn(s)
              \/ WaitReturns(s)
              \/ LockTotals(s)
              \/ \E k \in Keys : LoadTotal(s, k)
              \/ StoreTotal(s)
              \/ UnlockTotals(s)
              \/ \E m \in metrics[s] : SendSummary(s, m)
              \/ Return(s)
              \/ Answer(s)
<1>1. ASSUME NEW s \in Scrapes, NEW c \in Collectors,
             \/ Spawn(s, c)
             \/ \E src \in Recordable[c] : RecordScrapeSource(s, c, src)
             \/ Collecting(s, c)
             \/ Report(s, c)
      PROVE  UNCHANGED <<phase, totalVars, summaries, before>>
  BY <1>1
  DEF Spawn, RecordScrapeSource, Collecting, CollectReturns, Report, SendOutcome,
      SendSelfMetrics, LockDurations, LoadDuration, StoreDuration, Done, gatherVars
<1>2. CASE UNCHANGED vars
  BY <1>2 DEF vars, gatherVars
<1>3. QED
  BY <1>1, <1>2 DEF Next, Call, Quiescent

\* A collector's source and result are settled once its call has waited for it.
LEMMA ExpectedSettled ==
  ASSUME Control, [Next]_vars, NEW s \in Scrapes, Waited(s), NEW k \in Keys
  PROVE  Expected(s, k)' = Expected(s, k)
<1>0. /\ source \in [Scrapes -> [Collectors -> Sources]]
      /\ result \in [Scrapes -> [Collectors -> Results]]
      /\ \A c \in Collectors : pc[s][c] = "exited"
  BY DEF Control, TypeOK, Progress
<1>1. source'[s] = source[s] /\ result'[s] = result[s]
  <2>1. ASSUME NEW t \in Scrapes, NEW c \in Collectors, NEW src \in Recordable[c],
               RecordScrapeSource(t, c, src)
        PROVE  source'[s] = source[s] /\ result' = result
    BY <1>0, <2>1 DEF RecordScrapeSource
  <2>2. ASSUME NEW t \in Scrapes, NEW c \in Collectors, NEW res \in Results,
               CollectReturns(t, c, res)
        PROVE  source' = source /\ result'[s] = result[s]
    BY <1>0, <2>2 DEF CollectReturns, Step
  <2>3. ASSUME NEW t \in Scrapes, NEW c \in Collectors, Report(t, c)
        PROVE  UNCHANGED <<source, result>>
    BY <2>3 DEF Report, SendOutcome, SendSelfMetrics, LockDurations, LoadDuration,
                StoreDuration, Done
  <2>4. ASSUME NEW t \in Scrapes, StartScrape(t) \/ Call(t)
        PROVE  UNCHANGED <<source, result>>
    BY <2>4 DEF StartScrape, Call, Spawn, EndSpawn, WaitReturns, LockTotals,
                LoadTotal, StoreTotal, UnlockTotals, SendSummary, Return, Answer,
                goroutineVars
  <2>5. CASE UNCHANGED vars
    BY <2>5 DEF vars, goroutineVars
  <2>6. QED
    BY <2>1, <2>2, <2>3, <2>4, <2>5 DEF Next, Collecting, Quiescent
<1>2. QED
  BY <1>1 DEF Expected, Key

\* A call that moves on leaves the other calls where they are.
LEMMA GotoEffect ==
  ASSUME TypeOK, NEW s \in Scrapes, NEW p, Goto(s, p)
  PROVE  \A t \in Scrapes : phase'[t] = IF t = s THEN p ELSE phase[t]
BY DEF TypeOK, Goto

-----------------------------------------------------------------------------
\* Every step keeps the holder of durationMu unique and where it belongs.
LEMMA TotalsMutexStep ==
  ASSUME Control, Totalling, [Next]_vars
  PROVE  TotalsMutex'
<1>0. TypeOK /\ TotalsMutex
  BY DEF Control, Totalling
<1>1. CASE UNCHANGED <<phase, totalVars, summaries, before>>
  BY <1>0, <1>1 DEF TotalsMutex, totalVars
<1>2. ASSUME NEW s \in Scrapes, NEW p, Goto(s, p), durationMu' = durationMu,
             phase[s] \in {"next key", "store"} <=> p \in {"next key", "store"}
      PROVE  TotalsMutex'
  BY <1>0, <1>2, GotoEffect DEF TotalsMutex
<1>3. ASSUME NEW s \in Scrapes, LockTotals(s)
      PROVE  TotalsMutex'
  BY <1>0, <1>3, GotoEffect DEF TotalsMutex, LockTotals, CanLockTotals
<1>4. ASSUME NEW s \in Scrapes, UnlockTotals(s)
      PROVE  TotalsMutex'
  <2>1. \A t \in Scrapes : phase'[t] = IF t = s THEN "sending" ELSE phase[t]
    BY <1>0, <1>4, GotoEffect DEF UnlockTotals
  <2>2. phase[s] = "next key" /\ durationMu' = durationMu \ {s}
    BY <1>4 DEF UnlockTotals
  <2>3. QED
    BY <1>0, <2>1, <2>2 DEF TotalsMutex
<1>5. ASSUME NEW s \in Scrapes,
             \/ StartScrape(s)
             \/ EndSpawn(s)
             \/ WaitReturns(s)
             \/ \E k \in Keys : LoadTotal(s, k)
             \/ StoreTotal(s)
             \/ Return(s)
             \/ Answer(s)
      PROVE  TotalsMutex'
  BY <1>2, <1>5 DEF StartScrape, EndSpawn, WaitReturns, LoadTotal, StoreTotal,
                    Return, Answer, totalVars
<1>6. ASSUME NEW s \in Scrapes, NEW m \in metrics[s], SendSummary(s, m)
      PROVE  TotalsMutex'
  BY <1>0, <1>6 DEF TotalsMutex, SendSummary, totalVars
<1>7. QED
  BY <1>1, <1>3, <1>4, <1>5, <1>6, TotalCases

\* Only the holder of durationMu is at its store.
LEMMA OnlyHolderStores ==
  ASSUME TotalsMutex, NEW s \in Scrapes, NEW t \in Scrapes,
         phase[s] \in {"next key", "store"}, phase[t] \in {"next key", "store"}
  PROVE  t = s
BY DEF TotalsMutex

\* Every step keeps the loop from visiting a key twice, and what it has loaded
\* current.
LEMMA VisitingStep ==
  ASSUME Control, Totalling, [Next]_vars
  PROVE  Visiting'
<1>0. /\ TypeOK /\ TotalsMutex /\ Visiting
      /\ durations \in [Keys -> Total] /\ key \in [Scrapes -> Keys]
      /\ total \in [Scrapes -> Total] /\ keys \in [Scrapes -> SUBSET Keys]
      /\ metrics \in [Scrapes -> SUBSET Summary]
  BY DEF Control, Totalling, TypeOK
<1>1. CASE UNCHANGED <<phase, totalVars, summaries, before>>
  BY <1>0, <1>1 DEF Visiting, VisitingBy, Waited, totalVars
<1>2. ASSUME NEW s \in Scrapes, NEW p, Goto(s, p), UNCHANGED totalVars,
             p # "store",
             ~Waited(s) => p \in {"idle", "spawning", "waiting", "observing"},
             Waited(s) => p \notin {"idle", "spawning", "waiting", "observing"}
                          /\ phase[s] # "observing"
      PROVE  Visiting'
  BY <1>0, <1>2, GotoEffect DEF Visiting, VisitingBy, Waited, totalVars
<1>3. ASSUME NEW s \in Scrapes, StartScrape(s) \/ EndSpawn(s) \/ Return(s) \/ Answer(s)
      PROVE  Visiting'
  BY <1>2, <1>3 DEF StartScrape, EndSpawn, Return, Answer, Waited
<1>4. ASSUME NEW s \in Scrapes, WaitReturns(s)
      PROVE  Visiting'
  <2>1. metrics[s] = {} /\ UNCHANGED <<durations, key, total, metrics>>
    BY <1>0, <1>4 DEF WaitReturns, Visiting, VisitingBy, Waited
  <2>2. \A t \in Scrapes : t # s => keys'[t] = keys[t]
    BY <1>0, <1>4 DEF WaitReturns
  <2>3. \A t \in Scrapes : phase'[t] = IF t = s THEN "observing" ELSE phase[t]
    BY <1>0, <1>4, GotoEffect DEF WaitReturns
  <2>4. QED
    BY <1>0, <2>1, <2>2, <2>3 DEF Visiting, VisitingBy, Waited
<1>5. ASSUME NEW s \in Scrapes, LockTotals(s) \/ UnlockTotals(s)
      PROVE  Visiting'
  <2>1. UNCHANGED <<durations, key, total, keys, metrics>>
    BY <1>5 DEF LockTotals, UnlockTotals
  <2>2. PICK p \in {"next key", "sending"} : Goto(s, p)
    BY <1>5 DEF LockTotals, UnlockTotals
  <2>3. \A t \in Scrapes : phase'[t] = IF t = s THEN p ELSE phase[t]
    BY <1>0, <2>2, GotoEffect
  <2>4. QED
    BY <1>0, <2>1, <2>3 DEF Visiting, VisitingBy, Waited
<1>6. ASSUME NEW s \in Scrapes, NEW k \in Keys, LoadTotal(s, k)
      PROVE  Visiting'
  <2>1. phase[s] = "next key" /\ k \in keys[s] /\ UNCHANGED <<durations, metrics>>
    BY <1>6 DEF LoadTotal
  <2>2. \A t \in Scrapes :
          /\ key'[t] = IF t = s THEN k ELSE key[t]
          /\ total'[t] = IF t = s THEN durations[k] ELSE total[t]
          /\ keys'[t] = IF t = s THEN keys[s] \ {k} ELSE keys[t]
    BY <1>0, <1>6 DEF LoadTotal
  <2>3. \A t \in Scrapes : phase'[t] = IF t = s THEN "store" ELSE phase[t]
    BY <1>0, <1>6, GotoEffect DEF LoadTotal
  <2>4. ASSUME NEW t \in Scrapes, t # s
        PROVE  /\ phase'[t] = phase[t] /\ key'[t] = key[t]
               /\ total'[t] = total[t] /\ keys'[t] = keys[t]
    BY <2>2, <2>3, <2>4
  <2>5. /\ key'[s] = k /\ total'[s] = durations[k] /\ keys'[s] = keys[s] \ {k}
        /\ phase'[s] = "store"
    BY <2>2, <2>3
  <2>6. ASSUME NEW t \in Scrapes, t # s
        PROVE  VisitingBy(t)'
    <3>1. /\ metrics'[t] = metrics[t] /\ durations' = durations
          /\ phase'[t] = phase[t] /\ key'[t] = key[t]
          /\ total'[t] = total[t] /\ keys'[t] = keys[t]
      BY <2>1, <2>4, <2>6
    <3>2. VisitingBy(t)
      BY <1>0 DEF Visiting
    <3>3. Waited(t)' = Waited(t)
      BY <3>1 DEF Waited
    <3>4. QED
      BY <3>1, <3>2, <3>3, Zenon DEF VisitingBy
  <2>7. VisitingBy(s)'
    <3>1. \A m \in metrics[s] : m.key \notin keys[s]
      BY <1>0 DEF Visiting, VisitingBy
    <3>2. metrics'[s] = metrics[s] /\ durations'[k] = durations[k]
      BY <2>1
    <3>3. \A m \in metrics'[s] : m.key \notin keys'[s] /\ m.key # k
      BY <2>1, <2>5, <3>1, <3>2
    <3>4. k \notin keys'[s]
      BY <2>5
    <3>5. Waited(s)' /\ phase'[s] # "observing"
      BY <2>5 DEF Waited
    <3>6. QED
      BY <2>5, <3>2, <3>3, <3>4, <3>5 DEF VisitingBy
  <2>8. QED
    BY <2>6, <2>7 DEF Visiting
<1>7. ASSUME NEW s \in Scrapes, StoreTotal(s)
      PROVE  Visiting'
  <2>1. phase[s] = "store" /\ UNCHANGED <<key, total, keys>>
    BY <1>7 DEF StoreTotal
  <2>2. \A t \in Scrapes :
          metrics'[t] = IF t = s
                        THEN metrics[s] \cup {[key |-> key[s], total |-> NewTotal(s)]}
                        ELSE metrics[t]
    BY <1>0, <1>7 DEF StoreTotal
  <2>3. \A t \in Scrapes : phase'[t] = IF t = s THEN "next key" ELSE phase[t]
    BY <1>0, <1>7, GotoEffect DEF StoreTotal
  <2>4. \A t \in Scrapes : t # s => phase[t] # "store"
    BY <1>0, <2>1, OnlyHolderStores
  <2>5. ASSUME NEW t \in Scrapes, t # s
        PROVE  phase'[t] = phase[t] /\ phase'[t] # "store" /\ metrics'[t] = metrics[t]
    BY <2>2, <2>3, <2>4, <2>5
  <2>6. /\ phase'[s] = "next key"
        /\ \A m \in metrics'[s] : m \in metrics[s] \/ m.key = key[s]
    <3>1. [key |-> key[s], total |-> NewTotal(s)].key = key[s]
      OBVIOUS
    <3>2. QED
      BY <2>2, <2>3, <3>1 DEF StoreTotal
  <2>7. ASSUME NEW t \in Scrapes, t # s
        PROVE  VisitingBy(t)'
    <3>1. VisitingBy(t)
      BY <1>0 DEF Visiting
    <3>2. phase'[t] = phase[t] /\ phase'[t] # "store" /\ metrics'[t] = metrics[t]
      BY <2>5, <2>7
    <3>3. QED
      BY <2>1, <3>1, <3>2 DEF VisitingBy, Waited
  <2>8. VisitingBy(s)'
    BY <1>0, <2>1, <2>6 DEF Visiting, VisitingBy, Waited
  <2>9. QED
    BY <2>7, <2>8 DEF Visiting
<1>8. ASSUME NEW s \in Scrapes, NEW m \in metrics[s], SendSummary(s, m)
      PROVE  Visiting'
  BY <1>0, <1>8 DEF Visiting, VisitingBy, Waited, SendSummary, totalVars
<1>9. QED
  BY <1>1, <1>3, <1>4, <1>5, <1>6, <1>7, <1>8, TotalCases

-----------------------------------------------------------------------------
\* The exactness of the totals.

ExactAt(k) ==
  durations[k] =
    [count |-> Cardinality(Observers(k)),
     sum |-> [s \in Scrapes |-> IF s \in Observers(k) THEN Expected(s, k) ELSE NoSum]]

\* A scrape that has contributed to a total has waited for its collectors.
LEMMA ObserversWaited ==
  ASSUME Visiting, NEW k \in Keys, NEW s \in Observers(k)
  PROVE  s \in Scrapes /\ Waited(s)
BY DEF Visiting, VisitingBy, Observers

\* A total is exact as long as it, its observers and their durations stay.
LEMMA ExactUnchanged ==
  ASSUME Control, Totalling, [Next]_vars, NEW k \in Keys, ExactAt(k),
         durations'[k] = durations[k], Observers(k)' = Observers(k)
  PROVE  ExactAt(k)'
<1>1. \A s \in Observers(k) : Expected(s, k)' = Expected(s, k)
  BY ExpectedSettled, ObserversWaited DEF Totalling
<1>2. [s \in Scrapes |-> IF s \in Observers(k)' THEN Expected(s, k)' ELSE NoSum]
      = [s \in Scrapes |-> IF s \in Observers(k) THEN Expected(s, k) ELSE NoSum]
  BY <1>1
<1>3. QED
  BY <1>2 DEF ExactAt

\* What a store changes in the totals and the summaries.
LEMMA StoreEffect ==
  ASSUME TypeOK, NEW s \in Scrapes, StoreTotal(s)
  PROVE  /\ phase[s] = "store" /\ key[s] \in Keys
         /\ \A k \in Keys :
              durations'[k] = IF k = key[s] THEN NewTotal(s) ELSE durations[k]
         /\ \A t \in Scrapes :
              metrics'[t] = IF t = s
                            THEN metrics[s] \cup {[key |-> key[s], total |-> NewTotal(s)]}
                            ELSE metrics[t]
BY DEF StoreTotal, TypeOK

\* Every step keeps the totals exact.
LEMMA TotalsExactStep ==
  ASSUME Control, Merging, Totalling, [Next]_vars
  PROVE  TotalsExact'
<1>0. TypeOK /\ Visiting /\ \A k \in Keys : ExactAt(k)
  BY DEF Control, Totalling, TotalsExact, ExactAt
<1>1. ASSUME UNCHANGED <<durations, metrics>>
      PROVE  TotalsExact'
  <2>1. \A k \in Keys : Observers(k)' = Observers(k)
    BY <1>1 DEF Observers
  <2>2. \A k \in Keys : ExactAt(k)'
    BY <1>0, <1>1, <2>1, ExactUnchanged
  <2>3. QED
    BY <2>2 DEF TotalsExact, ExactAt
<1>2. ASSUME NEW s \in Scrapes, StoreTotal(s)
      PROVE  TotalsExact'
  <2> DEFINE k0 == key[s]
             old == Observers(k0)
             m0 == [key |-> k0, total |-> NewTotal(s)]
  <2>1. /\ k0 \in Keys /\ phase[s] = "store" /\ m0.key = k0
        /\ \A k \in Keys : durations'[k] = IF k = k0 THEN NewTotal(s) ELSE durations[k]
        /\ \A t \in Scrapes :
             metrics'[t] = IF t = s THEN metrics[s] \cup {m0} ELSE metrics[t]
    BY <1>0, <1>2, StoreEffect
  <2>2. s \notin old /\ total[s] = durations[k0]
    BY <1>0, <2>1 DEF Visiting, VisitingBy, Observers
  <2>3. ASSUME NEW k \in Keys, k # k0
        PROVE  ExactAt(k)'
    <3>1. Observers(k)' = Observers(k)
      <4>1. \A t \in Scrapes :
              (\E m \in metrics'[t] : m.key = k) <=> (\E m \in metrics[t] : m.key = k)
        BY <2>1, <2>3
      <4>2. QED
        BY <4>1 DEF Observers
    <3>2. durations'[k] = durations[k]
      BY <2>1, <2>3
    <3>3. QED
      BY <1>0, <3>1, <3>2, ExactUnchanged
  <2>4. ASSUME NEW k \in Keys, k = k0
        PROVE  ExactAt(k)'
    <3>1. Observers(k)' = old \cup {s}
      <4>1. \A t \in Scrapes :
              (\E m \in metrics'[t] : m.key = k)
              <=> t = s \/ (\E m \in metrics[t] : m.key = k)
        BY <2>1, <2>4
      <4>2. QED
        BY <2>4, <4>1 DEF Observers
    <3>2. Cardinality(Observers(k)') = Cardinality(old) + 1
      <4>1. IsFiniteSet(old)
        BY RegistryAssumption, FS_Subset DEF Observers
      <4>2. QED
        BY <2>2, <2>4, <3>1, <4>1, FS_AddElement
    <3>3. scrapeDurations[s][k] = Expected(s, k)
      BY <2>1, <2>4, MergedIsExpected DEF DurationsComplete, Waited
    <3>4. \A t \in old \cup {s} : Expected(t, k)' = Expected(t, k)
      BY <1>0, <2>1, <2>4, ExpectedSettled, ObserversWaited DEF Waited
    <3>5. total[s] = [count |-> Cardinality(old),
                      sum |-> [t \in Scrapes |->
                                 IF t \in old THEN Expected(t, k) ELSE NoSum]]
      BY <1>0, <2>1, <2>4, <2>2 DEF ExactAt
    <3>6. [c \in Collectors |-> total[s].sum[s][c] + scrapeDurations[s][k][c]]
          = Expected(s, k)
      <4>1. total[s].sum[s] = NoSum
        <5>1. [t \in Scrapes |-> IF t \in old THEN Expected(t, k) ELSE NoSum][s] = NoSum
          BY <2>2, <2>4
        <5>2. QED
          BY <3>5, <5>1
      <4>2. \A c \in Collectors :
              total[s].sum[s][c] + scrapeDurations[s][k][c] = Expected(s, k)[c]
        BY <3>3, <4>1 DEF NoSum, Expected
      <4>3. QED
        BY <4>2 DEF Expected
    <3>7. [total[s].sum EXCEPT ![s] =
             [c \in Collectors |-> @[c] + scrapeDurations[s][k][c]]]
          = [t \in Scrapes |-> IF t \in old \cup {s} THEN Expected(t, k) ELSE NoSum]
      <4>1. total[s].sum =
              [t \in Scrapes |-> IF t \in old THEN Expected(t, k) ELSE NoSum]
        BY <3>5
      <4>2. [total[s].sum EXCEPT ![s] =
               [c \in Collectors |-> @[c] + scrapeDurations[s][k][c]]]
            = [total[s].sum EXCEPT ![s] = Expected(s, k)]
        BY <3>6
      <4>3. [total[s].sum EXCEPT ![s] = Expected(s, k)]
            = [t \in Scrapes |-> IF t \in old \cup {s} THEN Expected(t, k) ELSE NoSum]
        BY <4>1
      <4>4. QED
        BY <4>2, <4>3
    <3>8. NewTotal(s) =
            [count |-> Cardinality(old) + 1,
             sum |-> [t \in Scrapes |->
                        IF t \in old \cup {s} THEN Expected(t, k) ELSE NoSum]]
      BY <2>4, <3>5, <3>7 DEF NewTotal
    <3>9. [t \in Scrapes |-> IF t \in old \cup {s} THEN Expected(t, k) ELSE NoSum]
          = [t \in Scrapes |->
               IF t \in Observers(k)' THEN Expected(t, k)' ELSE NoSum]
      BY <3>1, <3>4
    <3>10. durations'[k] = NewTotal(s)
      BY <2>1, <2>4
    <3>11. durations'[k] =
             [count |-> Cardinality(Observers(k)'),
              sum |-> [t \in Scrapes |->
                         IF t \in Observers(k)' THEN Expected(t, k)' ELSE NoSum]]
      BY <3>2, <3>8, <3>9, <3>10
    <3>12. QED
      BY <3>11 DEF ExactAt
  <2>5. \A k \in Keys : ExactAt(k)'
    BY <2>3, <2>4
  <2>6. QED
    BY <2>5 DEF TotalsExact, ExactAt
<1>3. ASSUME NEW s \in Scrapes,
             \/ StartScrape(s)
             \/ EndSpawn(s)
             \/ WaitReturns(s)
             \/ LockTotals(s)
             \/ \E k \in Keys : LoadTotal(s, k)
             \/ UnlockTotals(s)
             \/ \E m \in metrics[s] : SendSummary(s, m)
             \/ Return(s)
             \/ Answer(s)
      PROVE  UNCHANGED <<durations, metrics>>
  BY <1>3 DEF StartScrape, EndSpawn, WaitReturns, LockTotals, LoadTotal, UnlockTotals,
              SendSummary, Return, Answer, totalVars
<1>4. QED
  BY <1>1, <1>2, <1>3, TotalCases DEF totalVars

\* The invariant of the totals holds at first.
LEMMA TotallingInit == Init => Totalling
<1> SUFFICES ASSUME Init PROVE Totalling
  OBVIOUS
<1>1. /\ durationMu = {}
      /\ \A s \in Scrapes : phase[s] = "idle" /\ metrics[s] = {}
      /\ durations = [k \in Keys |-> NoTotal]
  BY DEF Init
<1>2. TotalsMutex /\ Visiting
  BY <1>1 DEF TotalsMutex, Visiting, VisitingBy, Waited
<1>3. TotalsExact
  <2>1. \A k \in Keys : Observers(k) = {}
    BY <1>1 DEF Observers
  <2>2. QED
    BY <1>1, <2>1, FS_EmptySet DEF TotalsExact, NoTotal, NoGrandSum
<1>4. QED
  BY <1>2, <1>3 DEF Totalling

\* The mutex, the loop over the keys and the totals agree at all times
\* (collector.go:176-188).
THEOREM TotallingInvariant == Spec => []Totalling
<1>1. Control /\ Merging /\ Totalling /\ [Next]_vars => Totalling'
  BY TotalsMutexStep, VisitingStep, TotalsExactStep DEF Totalling
<1>2. QED
  BY <1>1, TotallingInit, ControlInvariant, MergingInvariant, PTL DEF Spec

\* The summary totals are exactly what the scrapes have contributed: no update
\* is lost or doubled, however many scrapes overlap.
THEOREM TotalsAreExact == Spec => []TotalsExact
BY TotallingInvariant, PTL DEF Totalling

-----------------------------------------------------------------------------
\* The order of the summaries.

\* No summary is ahead of the totals.
Bounded ==
  \A s \in Scrapes : \A m \in metrics[s] :
    m.total.count <= durations[m.key].count /\ SumLeq(m.total, durations[m.key])

\* The scrapes that a scrape follows are over, and stay as they are.
History ==
  /\ \A s \in Scrapes : \A t \in before[s] : phase[t] = "answered"
  /\ \A s \in Scrapes : summaries[s] \subseteq metrics[s]

Follows(s1, s2, m1, m2) ==
  s1 # s2 /\ m1.key = m2.key =>
    /\ m1.total.count # m2.total.count
    /\ s1 \in before[s2] => m1.total.count < m2.total.count /\ SumLeq(m1.total, m2.total)

Ordered ==
  \A s1, s2 \in Scrapes : \A m1 \in metrics[s1], m2 \in metrics[s2] :
    Follows(s1, s2, m1, m2)

Publishing == Bounded /\ History /\ Ordered

\* The order of the totals is transitive.
LEMMA SumLeqTransitive ==
  ASSUME NEW t1 \in Total, NEW t2 \in Total, NEW t3 \in Total,
         SumLeq(t1, t2), SumLeq(t2, t3)
  PROVE  SumLeq(t1, t3)
<1>1. \A s \in Scrapes, c \in Collectors :
        t1.sum[s][c] \in Nat /\ t2.sum[s][c] \in Nat /\ t3.sum[s][c] \in Nat
  BY DEF Total, GrandSum, Sum
<1>2. QED
  BY <1>1 DEF SumLeq

\* A new total is above the one it replaces.
LEMMA NewTotalGrows ==
  ASSUME TypeOK, NEW s \in Scrapes, NEW k \in Keys, key[s] = k, total[s] = durations[k]
  PROVE  /\ NewTotal(s).count = durations[k].count + 1
         /\ SumLeq(durations[k], NewTotal(s))
<1>1. /\ durations[k] \in Total
      /\ scrapeDurations[s][k] \in [Collectors -> Nat]
  BY DEF TypeOK, Sum
<1>2. /\ durations[k].sum \in [Scrapes -> [Collectors -> Nat]]
      /\ durations[k].count \in Nat
  BY <1>1 DEF Total, GrandSum, Sum
<1>3. /\ NewTotal(s).count = durations[k].count + 1
      /\ NewTotal(s).sum =
           [durations[k].sum EXCEPT ![s] =
              [c \in Collectors |-> durations[k].sum[s][c] + scrapeDurations[s][k][c]]]
  BY DEF NewTotal
<1>4. \A t \in Scrapes, c \in Collectors :
        NewTotal(s).sum[t][c] =
          IF t = s THEN durations[k].sum[s][c] + scrapeDurations[s][k][c]
                   ELSE durations[k].sum[t][c]
  BY <1>2, <1>3
<1>5. \A t \in Scrapes, c \in Collectors :
        durations[k].sum[t][c] \in Nat /\ scrapeDurations[s][k][c] \in Nat
  BY <1>1, <1>2
<1>6. QED
  BY <1>3, <1>4, <1>5 DEF SumLeq

\* The order of the totals is reflexive.
LEMMA SumLeqReflexive ==
  ASSUME NEW t \in Total
  PROVE  SumLeq(t, t)
<1>1. \A s \in Scrapes, c \in Collectors : t.sum[s][c] \in Nat
  BY DEF Total, GrandSum, Sum
<1>2. QED
  BY <1>1 DEF SumLeq

\* A store keeps the published summaries in order.
LEMMA PublishingStore ==
  ASSUME Control, Totalling, Publishing, NEW s \in Scrapes, StoreTotal(s)
  PROVE  Publishing'
<1> DEFINE m0 == [key |-> key[s], total |-> NewTotal(s)]
<1>0. TypeOK /\ Visiting /\ Bounded /\ History /\ Ordered
  BY DEF Control, Totalling, Publishing
<1>1. PICK k \in Keys : k = key[s]
  BY DEF Control, TypeOK
<1>2. /\ phase[s] = "store" /\ UNCHANGED <<summaries, before>>
      /\ \A j \in Keys : durations'[j] = IF j = k THEN NewTotal(s) ELSE durations[j]
      /\ \A t \in Scrapes :
           metrics'[t] = IF t = s THEN metrics[s] \cup {m0} ELSE metrics[t]
      /\ m0.key = k /\ m0.total = NewTotal(s)
  <2>1. m0.key = key[s] /\ m0.total = NewTotal(s)
    OBVIOUS
  <2>2. UNCHANGED <<summaries, before>>
    BY DEF StoreTotal, gatherVars
  <2>3. /\ phase[s] = "store"
        /\ \A j \in Keys :
             durations'[j] = IF j = key[s] THEN NewTotal(s) ELSE durations[j]
        /\ \A t \in Scrapes :
             metrics'[t] = IF t = s THEN metrics[s] \cup {m0} ELSE metrics[t]
    BY <1>0, StoreEffect
  <2> HIDE DEF m0
  <2>4. QED
    BY <1>1, <2>1, <2>2, <2>3
<1>3. /\ NewTotal(s).count = durations[k].count + 1
      /\ SumLeq(durations[k], NewTotal(s))
      /\ NewTotal(s) \in Total
      /\ durations \in [Keys -> Total]
  <2>1. total[s] = durations[k] /\ durations \in [Keys -> Total]
    BY <1>0, <1>1, <1>2 DEF Visiting, VisitingBy, TypeOK
  <2>2. QED
    BY <1>0, <1>1, <2>1, NewTotalGrows, NewTotalType
<1> HIDE DEF m0
<1>4. \A t \in Scrapes : \A m \in metrics[t] : m.key \in Keys /\ m.total \in Total
  BY <1>0 DEF TypeOK, Summary
<1>5. \A j \in Keys : durations[j] \in Total /\ durations[j].count \in Nat
  BY <1>3 DEF Total
<1>6. \A t \in Scrapes : \A m \in metrics[t] : m.total.count \in Nat
  BY <1>4 DEF Total
<1>7. ASSUME NEW t \in Scrapes, NEW m \in metrics[t], m.key = k
      PROVE  m.total.count < NewTotal(s).count /\ SumLeq(m.total, NewTotal(s))
  <2>1. m.total.count <= durations[k].count /\ SumLeq(m.total, durations[k])
    BY <1>0, <1>7 DEF Bounded
  <2>2. QED
    BY <1>3, <1>4, <1>5, <1>6, <2>1, SumLeqTransitive
<1>8. Bounded'
  <2> SUFFICES ASSUME NEW t \in Scrapes, NEW m \in metrics'[t]
               PROVE  m.total.count <= durations'[m.key].count
                      /\ SumLeq(m.total, durations'[m.key])
    BY DEF Bounded, SumLeq
  <2>1. CASE m \in metrics[t] /\ m.key = k
    BY <1>2, <1>3, <1>5, <1>6, <1>7, <2>1
  <2>2. CASE m \in metrics[t] /\ m.key # k
    BY <1>0, <1>2, <1>4, <2>2 DEF Bounded
  <2>3. CASE m = m0
    BY <1>2, <1>3, <1>5, <2>3, SumLeqReflexive
  <2>4. QED
    BY <1>2, <2>1, <2>2, <2>3
<1>9. History'
  <2>1. \A t \in Scrapes : phase[t] = "answered" => phase'[t] = "answered"
    BY <1>0, <1>2, GotoEffect DEF StoreTotal
  <2>2. \A t \in Scrapes : before[t] \subseteq Scrapes
    BY <1>0 DEF TypeOK
  <2>3. QED
    BY <1>0, <1>2, <2>1, <2>2 DEF History
<1>10. Ordered'
  <2> SUFFICES ASSUME NEW t1 \in Scrapes, NEW t2 \in Scrapes,
                      NEW m1 \in metrics'[t1], NEW m2 \in metrics'[t2],
                      t1 # t2, m1.key = m2.key
               PROVE  /\ m1.total.count # m2.total.count
                      /\ t1 \in before[t2] =>
                           m1.total.count < m2.total.count /\ SumLeq(m1.total, m2.total)
    BY <1>2 DEF Ordered, Follows, SumLeq
  <2>1. CASE m1 \in metrics[t1] /\ m2 \in metrics[t2]
    BY <1>0, <2>1 DEF Ordered, Follows
  <2>2. CASE t2 = s /\ m2 = m0 /\ m1 \in metrics[t1]
    BY <1>2, <1>3, <1>5, <1>6, <1>7, <2>2
  <2>3. CASE t1 = s /\ m1 = m0 /\ m2 \in metrics[t2]
    <3>1. t1 \notin before[t2]
      BY <1>0, <1>2, <2>3 DEF History
    <3>2. QED
      BY <1>2, <1>3, <1>5, <1>6, <1>7, <2>3, <3>1
  <2>4. QED
    BY <1>2, <2>1, <2>2, <2>3
<1>11. QED
  BY <1>8, <1>9, <1>10 DEF Publishing

\* Every step keeps the published summaries in order.
LEMMA PublishingStep ==
  ASSUME Control, Totalling, Publishing, [Next]_vars
  PROVE  Publishing'
<1>0. TypeOK /\ Visiting /\ Bounded /\ History /\ Ordered
  BY DEF Control, Totalling, Publishing
<1>1. ASSUME UNCHANGED <<durations, metrics, before>>,
             \A s \in Scrapes : summaries'[s] \subseteq metrics[s],
             \A s \in Scrapes : phase[s] = "answered" => phase'[s] = "answered"
      PROVE  Publishing'
  <2>1. \A s \in Scrapes : before[s] \subseteq Scrapes
    BY <1>0 DEF TypeOK
  <2>2. Bounded'
    BY <1>0, <1>1 DEF Bounded, SumLeq
  <2>3. Ordered'
    BY <1>0, <1>1 DEF Ordered, Follows, SumLeq
  <2>4. History'
    BY <1>0, <1>1, <2>1 DEF History
  <2>5. QED
    BY <2>2, <2>3, <2>4 DEF Publishing
<1>2. ASSUME NEW s \in Scrapes, StartScrape(s)
      PROVE  Publishing'
  <2>1. /\ UNCHANGED <<durations, metrics, summaries>>
        /\ metrics[s] = {}
        /\ \A t \in Scrapes : phase'[t] = IF t = s THEN "spawning" ELSE phase[t]
        /\ phase[s] = "idle"
    BY <1>0, <1>2, GotoEffect
    DEF StartScrape, totalVars, gatherVars, Visiting, VisitingBy, Waited
  <2>2. \A t \in Scrapes :
          /\ before[t] \subseteq Scrapes
          /\ before'[t] = IF t = s THEN {u \in Scrapes : phase[u] = "answered"}
                                   ELSE before[t]
    BY <1>0, <1>2 DEF StartScrape, TypeOK
  <2>3. Bounded'
    BY <1>0, <2>1 DEF Bounded, SumLeq
  <2>4. Ordered'
    <3> SUFFICES ASSUME NEW t1 \in Scrapes, NEW t2 \in Scrapes,
                        NEW m1 \in metrics[t1], NEW m2 \in metrics[t2],
                        t1 # t2, m1.key = m2.key
                 PROVE  /\ m1.total.count # m2.total.count
                        /\ t1 \in before'[t2] =>
                             m1.total.count < m2.total.count /\ SumLeq(m1.total, m2.total)
      BY <2>1 DEF Ordered, Follows, SumLeq
    <3>1. before'[t2] = before[t2]
      BY <2>1, <2>2
    <3>2. QED
      BY <1>0, <3>1 DEF Ordered, Follows
  <2>5. History'
    <3>1. \A t \in Scrapes : phase[t] = "answered" => phase'[t] = "answered"
      BY <2>1
    <3>2. \A t \in Scrapes : \A u \in before'[t] :
            u \in Scrapes /\ phase[u] = "answered"
      <4> SUFFICES ASSUME NEW t \in Scrapes, NEW u \in before'[t]
                   PROVE  u \in Scrapes /\ phase[u] = "answered"
        OBVIOUS
      <4>1. CASE t = s
        BY <2>2, <4>1
      <4>2. CASE t # s
        <5>1. u \in before[t] /\ before[t] \subseteq Scrapes
          BY <2>2, <4>2
        <5>2. QED
          BY <1>0, <5>1 DEF History
      <4>3. QED
        BY <4>1, <4>2
    <3>3. \A t \in Scrapes : \A u \in before'[t] : phase'[u] = "answered"
      BY <3>1, <3>2
    <3>4. QED
      BY <1>0, <2>1, <3>3 DEF History
  <2>6. QED
    BY <2>3, <2>4, <2>5 DEF Publishing
<1>3. ASSUME NEW s \in Scrapes, NEW p, Goto(s, p),
             UNCHANGED <<durations, metrics, summaries, before>>,
             phase[s] = "answered" => p = "answered"
      PROVE  Publishing'
  BY <1>0, <1>1, <1>3, GotoEffect DEF History
<1>4. ASSUME NEW s \in Scrapes,
             \/ EndSpawn(s)
             \/ WaitReturns(s)
             \/ LockTotals(s)
             \/ \E k \in Keys : LoadTotal(s, k)
             \/ UnlockTotals(s)
             \/ Return(s)
             \/ Answer(s)
      PROVE  Publishing'
  BY <1>3, <1>4 DEF EndSpawn, WaitReturns, LockTotals, LoadTotal, UnlockTotals,
                    Return, Answer, totalVars, gatherVars
<1>5. ASSUME NEW s \in Scrapes, NEW m \in metrics[s], SendSummary(s, m)
      PROVE  Publishing'
  <2>1. \A t \in Scrapes : summaries'[t] \subseteq metrics[t]
    <3>1. /\ summaries \in [Scrapes -> SUBSET Summary]
          /\ summaries' = [summaries EXCEPT ![s] = @ \cup {m}]
      BY <1>0, <1>5 DEF SendSummary, TypeOK
    <3>2. \A t \in Scrapes :
            summaries'[t] = IF t = s THEN summaries[s] \cup {m} ELSE summaries[t]
      BY <3>1
    <3>3. QED
      BY <1>0, <3>2 DEF History
  <2>2. QED
    BY <1>1, <1>5, <2>1 DEF SendSummary, totalVars
<1>6. CASE UNCHANGED <<phase, totalVars, summaries, before>>
  BY <1>0, <1>1, <1>6 DEF totalVars, History
<1>7. QED
  BY <1>2, <1>4, <1>5, <1>6, PublishingStore, TotalCases

\* The invariant of the summaries holds at first.
LEMMA PublishingInit == Init => Publishing
BY DEF Init, Publishing, Bounded, History, Ordered

\* Every summary is below its total, and the summaries are in the order of the
\* scrapes that made them (collector.go:164-189).
THEOREM PublishingInvariant == Spec => []Publishing
<1>1. Control /\ Totalling /\ Publishing /\ [Next]_vars => Publishing'
  BY PublishingStep
<1>2. QED
  BY <1>1, PublishingInit, ControlInvariant, TotallingInvariant, PTL DEF Spec

\* A summary never goes back between one scrape and a later one, and no two
\* scrapes report the same count, although they share the totals.
THEOREM SummariesAreMonotone == Spec => []SummariesNeverGoBack
<1>1. Publishing => SummariesNeverGoBack
  BY DEF Publishing, History, Ordered, Follows, SummariesNeverGoBack
<1>2. QED
  BY <1>1, PublishingInvariant, PTL

-----------------------------------------------------------------------------
(* What an answer holds.                                                   *)

\* What a goroutine has sent, given where it is and what its collector
\* returned.
SelfMetrics(c, res) ==
  {Sample(c, IF res = "success" THEN "success=1" ELSE "success=0"), Sample(c, "duration")}

SentBy(c, step, res) ==
  (IF step \in {"unspawned", "collecting", "collected"} THEN {} ELSE Outcome(c, res))
    \cup
  (IF step \in {"unspawned", "collecting", "collected", "reporting"} THEN {}
   ELSE SelfMetrics(c, res))

\* The goroutine of its collector has sent the sample.
IsSent(s, x) ==
  x \in SentBy(x.collector, pc[s][x.collector], result[s][x.collector])

\* Gather has received what the goroutines have sent, once, and nothing else.
Received ==
  \A s \in Scrapes : \A x \in Samples : sent[s][x] = IF IsSent(s, x) THEN 1 ELSE 0

\* promhttp has answered by what Gather received.
Answered ==
  \A s \in Scrapes :
    phase[s] = "answered" => response[s] = IF Refused(s) THEN "500" ELSE "200"

\* A summary holds the durations of its scrape, once.
OwnDurations ==
  \A s \in Scrapes : \A m \in metrics[s] :
    m.key \in Keys /\ m.total.sum[s] = Expected(s, m.key)

\* Every key of the map of a call that has waited has a summary, or is about
\* to have one; the loop and the send go on to the end.
CoveredBy(s) ==
  /\ \A k \in MapKeys(s) :
       \/ k \in keys[s]
       \/ phase[s] = "store" /\ key[s] = k
       \/ \E m \in metrics[s] : m.key = k
  /\ phase[s] \in {"sending", "returned", "answered"} => keys[s] = {}
  /\ phase[s] \in {"returned", "answered"} => metrics[s] \subseteq summaries[s]

Covered == \A s \in Scrapes : Waited(s) => CoveredBy(s)

\* A scrape has one summary of a key.
OneSummary ==
  \A s \in Scrapes : \A m1, m2 \in metrics[s] : m1.key = m2.key => m1 = m2

Answering == Received /\ Answered /\ OwnDurations /\ OneSummary /\ Covered

-----------------------------------------------------------------------------
(* What Gather receives.                                                   *)

\* Gather receives the samples of `more` from s, each once.
Sends(s, more) ==
  /\ \A x \in Samples : sent'[s][x] = sent[s][x] + IF x \in more THEN 1 ELSE 0
  /\ \A t \in Scrapes : t # s => sent'[t] = sent[t]

\* All of `more` is of the collector c, and new at that step.
NewAt(c, step, res, more) ==
  \A x \in more : x.collector = c /\ x \notin SentBy(c, step, res)

\* One goroutine moves on, and sends what it had not sent.
LEMMA OneSends ==
  ASSUME Received, NEW s \in Scrapes, NEW c \in Collectors, NEW more, Sends(s, more),
         \A t \in Scrapes, d \in Collectors :
           t # s \/ d # c => SentBy(d, pc'[t][d], result'[t][d]) = SentBy(d, pc[t][d], result[t][d]),
         NewAt(c, pc[s][c], result[s][c], more),
         SentBy(c, pc'[s][c], result'[s][c]) = SentBy(c, pc[s][c], result[s][c]) \cup more
  PROVE  Received'
<1>1. SUFFICES ASSUME NEW t \in Scrapes, NEW x \in Samples
               PROVE  sent'[t][x] = IF IsSent(t, x)' THEN 1 ELSE 0
  BY Zenon DEF Received
<1>2. sent[t][x] = IF IsSent(t, x) THEN 1 ELSE 0
  BY Zenon DEF Received
<1>3. PICK d \in Collectors : d = x.collector
  BY DEF Samples
<1>4. CASE t # s
  <2>1. sent'[t] = sent[t]
    BY <1>4, Zenon DEF Sends
  <2>2. IsSent(t, x)' <=> IsSent(t, x)
    BY <1>3, <1>4, Zenon DEF IsSent
  <2>3. QED
    BY <1>2, <2>1, <2>2, Zenon
<1>5. CASE t = s
  <2>1. sent'[s][x] = sent[s][x] + IF x \in more THEN 1 ELSE 0
    BY Zenon DEF Sends
  <2>2. CASE x \in more
    <3>1. d = c /\ ~IsSent(s, x) /\ IsSent(s, x)'
      BY <1>3, <2>2, Zenon DEF NewAt, IsSent
    <3>2. QED
      BY <1>2, <1>5, <2>1, <2>2, <3>1
  <2>3. CASE x \notin more
    <3>1. IsSent(s, x)' <=> IsSent(s, x)
      BY <1>3, <2>3, Zenon DEF IsSent
    <3>2. QED
      BY <1>2, <1>5, <2>1, <2>3, <3>1
  <2>4. QED
    BY <2>2, <2>3
<1>6. QED
  BY <1>4, <1>5, Zenon

\* What a step of one goroutine leaves of the others.
LEMMA OthersStay ==
  ASSUME TypeOK, NEW s \in Scrapes, NEW c \in Collectors, NEW from, NEW to,
         Step(s, c, from, to)
  PROVE  /\ pc[s][c] = from /\ pc'[s][c] = to
         /\ \A t \in Scrapes, d \in Collectors : t # s \/ d # c => pc'[t][d] = pc[t][d]
BY DEF TypeOK, Step

\* What sending does to what Gather has received.
LEMMA EmitEffect ==
  ASSUME TypeOK, NEW s \in Scrapes, NEW more, Emit(s, more)
  PROVE  Sends(s, more)
BY DEF TypeOK, Emit, Sends

\* Sending nothing.
LEMMA SendsNothing ==
  ASSUME TypeOK, UNCHANGED sent, NEW s \in Scrapes
  PROVE  Sends(s, {})
BY DEF TypeOK, Sends

\* What a goroutine sends is its own, and the self metrics are none of the
\* samples before them.
LEMMA SamplesAreNew ==
  ASSUME NEW c \in Collectors, NEW res
  PROVE  /\ NewAt(c, "collected", res, Outcome(c, res))
         /\ NewAt(c, "reporting", res, SelfMetrics(c, res))
<1>1. \A kind : Sample(c, kind).kind = kind /\ Sample(c, kind).collector = c
  BY DEF Sample
<1>2. \A x \in Outcome(c, res) : x.collector = c /\ x.kind \in {"metrics", "invalid"}
  BY <1>1 DEF Outcome
<1>3. \A x \in SelfMetrics(c, res) :
        x.collector = c /\ x.kind \in {"success=1", "success=0", "duration"}
  BY <1>1 DEF SelfMetrics
<1>4. SentBy(c, "collected", res) = {} /\ SentBy(c, "reporting", res) = Outcome(c, res)
  BY DEF SentBy
<1>5. \A x \in SelfMetrics(c, res) : x \notin Outcome(c, res)
  BY <1>2, <1>3
<1>6. QED
  BY <1>2, <1>3, <1>4, <1>5 DEF NewAt

\* Every step of a goroutine sends what SentBy says.
LEMMA ReceivedStep ==
  ASSUME Control, Received, [Next]_vars
  PROVE  Received'
<1>0. TypeOK
  BY DEF Control
<1>1. CASE UNCHANGED <<sent, pc, result>>
  BY <1>1, Zenon DEF Received, IsSent
<1>2. ASSUME NEW s \in Scrapes, NEW c \in Collectors, NEW from, NEW to, Step(s, c, from, to),
             NEW more, Sends(s, more),
             UNCHANGED result,
             NewAt(c, from, result[s][c], more),
             SentBy(c, to, result[s][c]) = SentBy(c, from, result[s][c]) \cup more
      PROVE  Received'
  <2>1. /\ pc[s][c] = from /\ pc'[s][c] = to
        /\ \A t \in Scrapes, d \in Collectors : t # s \/ d # c => pc'[t][d] = pc[t][d]
    <3>1. Step(s, c, from, to)
      BY <1>2
    <3>2. QED
      BY <1>0, <3>1, OthersStay
  <2>2. /\ result' = result
        /\ SentBy(c, to, result[s][c]) = SentBy(c, from, result[s][c]) \cup more
    BY <1>2
  <2>3. SentBy(c, pc'[s][c], result'[s][c]) = SentBy(c, pc[s][c], result[s][c]) \cup more
    BY <2>1, <2>2, Zenon
  <2>4. ASSUME NEW t \in Scrapes, NEW d \in Collectors, t # s \/ d # c
        PROVE  SentBy(d, pc'[t][d], result'[t][d]) = SentBy(d, pc[t][d], result[t][d])
    <3>1. pc'[t][d] = pc[t][d] /\ result'[t][d] = result[t][d]
      BY <2>1, <2>2, <2>4, Zenon
    <3>2. QED
      BY <3>1, Zenon
  <2>5. Sends(s, more) /\ NewAt(c, pc[s][c], result[s][c], more)
    BY <1>2, <2>1, Zenon
  <2>6. QED
    BY <2>3, <2>4, <2>5, OneSends
<1>3. ASSUME NEW s \in Scrapes, NEW c \in Collectors, NEW from, NEW to, Step(s, c, from, to),
             UNCHANGED <<sent, result>>,
             SentBy(c, to, result[s][c]) = SentBy(c, from, result[s][c])
      PROVE  Received'
  <2>1. Sends(s, {}) /\ NewAt(c, from, result[s][c], {})
    BY <1>0, <1>3, SendsNothing, Zenon DEF NewAt
  <2>2. SentBy(c, to, result[s][c]) = SentBy(c, from, result[s][c]) \cup {}
    BY <1>3, Zenon
  <2>3. QED
    BY <1>2, <1>3, <2>1, <2>2, Zenon
<1>4. ASSUME NEW s \in Scrapes, NEW c \in Collectors, Spawn(s, c)
      PROVE  Received'
  <2>1. SentBy(c, "collecting", result[s][c]) = SentBy(c, "unspawned", result[s][c])
    BY DEF SentBy
  <2>2. QED
    BY <1>3, <1>4, <2>1, Zenon DEF Spawn, gatherVars
<1>5. ASSUME NEW s \in Scrapes, NEW c \in Collectors, NEW res \in Results,
             CollectReturns(s, c, res)
      PROVE  Received'
  <2>1. /\ pc[s][c] = "collecting" /\ pc'[s][c] = "collected"
        /\ \A t \in Scrapes, d \in Collectors : t # s \/ d # c => pc'[t][d] = pc[t][d]
    BY <1>0, <1>5, OthersStay, Zenon DEF CollectReturns
  <2>2. \A t \in Scrapes, d \in Collectors : t # s \/ d # c => result'[t][d] = result[t][d]
    BY <1>0, <1>5 DEF CollectReturns, TypeOK
  <2>3. SentBy(c, pc'[s][c], result'[s][c]) = SentBy(c, pc[s][c], result[s][c])
    BY <2>1 DEF SentBy
  <2>4. \A t \in Scrapes, d \in Collectors :
          SentBy(d, pc'[t][d], result'[t][d]) = SentBy(d, pc[t][d], result[t][d])
    BY <2>1, <2>2, <2>3, Zenon
  <2>5. Sends(s, {}) /\ NewAt(c, pc[s][c], result[s][c], {})
    BY <1>0, <1>5, SendsNothing, Zenon DEF CollectReturns, gatherVars, NewAt
  <2>6. SentBy(c, pc'[s][c], result'[s][c]) = SentBy(c, pc[s][c], result[s][c]) \cup {}
    BY <2>3, Zenon
  <2>7. QED
    BY <2>4, <2>5, <2>6, OneSends
<1>6. ASSUME NEW s \in Scrapes, NEW c \in Collectors, SendOutcome(s, c)
      PROVE  Received'
  <2>1. SentBy(c, "reporting", result[s][c]) =
          SentBy(c, "collected", result[s][c]) \cup Outcome(c, result[s][c])
    BY DEF SentBy
  <2>2. /\ Sends(s, Outcome(c, result[s][c]))
        /\ NewAt(c, "collected", result[s][c], Outcome(c, result[s][c]))
    BY <1>0, <1>6, EmitEffect, SamplesAreNew, Zenon DEF SendOutcome
  <2>3. QED
    BY <1>2, <1>6, <2>1, <2>2, Zenon DEF SendOutcome
<1>7. ASSUME NEW s \in Scrapes, NEW c \in Collectors, SendSelfMetrics(s, c)
      PROVE  Received'
  <2>1. SentBy(c, "lock", result[s][c]) =
          SentBy(c, "reporting", result[s][c]) \cup SelfMetrics(c, result[s][c])
    BY DEF SentBy
  <2>2. /\ Sends(s, SelfMetrics(c, result[s][c]))
        /\ NewAt(c, "reporting", result[s][c], SelfMetrics(c, result[s][c]))
    BY <1>0, <1>7, EmitEffect, SamplesAreNew, Zenon DEF SendSelfMetrics, SelfMetrics
  <2>3. QED
    BY <1>2, <1>7, <2>1, <2>2, Zenon DEF SendSelfMetrics
<1>8. ASSUME NEW s \in Scrapes, NEW c \in Collectors,
             LockDurations(s, c) \/ LoadDuration(s, c) \/ StoreDuration(s, c) \/ Done(s, c)
      PROVE  Received'
  <2>1. /\ SentBy(c, "load", result[s][c]) = SentBy(c, "lock", result[s][c])
        /\ SentBy(c, "store", result[s][c]) = SentBy(c, "load", result[s][c])
        /\ SentBy(c, "done", result[s][c]) = SentBy(c, "store", result[s][c])
        /\ SentBy(c, "exited", result[s][c]) = SentBy(c, "done", result[s][c])
    BY DEF SentBy
  <2>2. QED
    BY <1>3, <1>8, <2>1, Zenon DEF LockDurations, LoadDuration, StoreDuration, Done, gatherVars
<1>9. ASSUME NEW s \in Scrapes, NEW c \in Collectors, NEW src, RecordScrapeSource(s, c, src)
      PROVE  Received'
  BY <1>1, <1>9, Zenon DEF RecordScrapeSource, gatherVars
<1>10. ASSUME NEW s \in Scrapes,
              \/ StartScrape(s)
              \/ EndSpawn(s)
              \/ WaitReturns(s)
              \/ LockTotals(s)
              \/ \E k \in Keys : LoadTotal(s, k)
              \/ StoreTotal(s)
              \/ UnlockTotals(s)
              \/ \E m \in metrics[s] : SendSummary(s, m)
              \/ Return(s)
              \/ Answer(s)
       PROVE  Received'
  BY <1>1, <1>10, Zenon DEF StartScrape, EndSpawn, WaitReturns, LockTotals, LoadTotal,
     StoreTotal, UnlockTotals, SendSummary, Return, Answer, goroutineVars, gatherVars
<1>11. CASE UNCHANGED vars
  BY <1>1, <1>11, Zenon DEF vars, goroutineVars, gatherVars
<1>12. QED
  BY <1>4, <1>5, <1>6, <1>7, <1>8, <1>9, <1>10, <1>11, Zenon
     DEF Next, Call, Collecting, Report, Quiescent

\* Every step answers by what was received.
LEMMA AnsweredStep ==
  ASSUME Control, Answered, [Next]_vars
  PROVE  Answered'
<1>0. TypeOK
  BY DEF Control
<1>1. CASE UNCHANGED <<phase, sent, summaries, response>>
  BY <1>1, Zenon DEF Answered, Refused
<1>2. ASSUME NEW s \in Scrapes, NEW p, Goto(s, p), p # "answered",
             UNCHANGED <<sent, summaries, response>>
      PROVE  Answered'
  <2>1. \A t \in Scrapes : phase'[t] = "answered" => phase[t] = "answered"
    BY <1>0, <1>2, GotoEffect
  <2>2. QED
    BY <1>2, <2>1, Zenon DEF Answered, Refused
<1>3. ASSUME NEW s \in Scrapes,
             \/ StartScrape(s)
             \/ EndSpawn(s)
             \/ WaitReturns(s)
             \/ LockTotals(s)
             \/ \E k \in Keys : LoadTotal(s, k)
             \/ StoreTotal(s)
             \/ UnlockTotals(s)
             \/ Return(s)
      PROVE  Answered'
  <2>1. "answered" \notin {"spawning", "waiting", "observing", "next key", "store", "sending",
                          "returned"}
    OBVIOUS
  <2>2. \E p \in {"spawning", "waiting", "observing", "next key", "store", "sending", "returned"} :
          Goto(s, p)
    BY <1>3, Zenon DEF StartScrape, EndSpawn, WaitReturns, LockTotals, LoadTotal, StoreTotal,
       UnlockTotals, Return
  <2>3. UNCHANGED <<sent, summaries, response>>
    BY <1>3, Zenon DEF StartScrape, EndSpawn, WaitReturns, LockTotals, LoadTotal, StoreTotal,
       UnlockTotals, Return, gatherVars
  <2>4. QED
    BY <1>2, <2>1, <2>2, <2>3, Zenon
<1>4. ASSUME NEW s \in Scrapes, Answer(s)
      PROVE  Answered'
  <2> DEFINE verdict == IF Refused(s) THEN "500" ELSE "200"
  <2>1. /\ Goto(s, "answered") /\ UNCHANGED <<sent, summaries>>
        /\ response' = [response EXCEPT ![s] = verdict]
    BY <1>4, Zenon DEF Answer
  <2> HIDE DEF verdict
  <2>2. /\ \A t \in Scrapes : phase'[t] = IF t = s THEN "answered" ELSE phase[t]
        /\ \A t \in Scrapes : response'[t] = IF t = s THEN verdict ELSE response[t]
    <3>1. response \in [Scrapes -> {"none", "200", "500"}]
      BY <1>0 DEF TypeOK
    <3>2. \A t \in Scrapes : response'[t] = IF t = s THEN verdict ELSE response[t]
      BY <2>1, <3>1
    <3>3. QED
      BY <1>0, <2>1, <3>2, GotoEffect, Zenon
  <2>3. SUFFICES ASSUME NEW t \in Scrapes, phase'[t] = "answered"
                 PROVE  response'[t] = IF Refused(t)' THEN "500" ELSE "200"
    BY Zenon DEF Answered
  <2>4. Refused(t)' <=> Refused(t)
    BY <2>1, Zenon DEF Refused
  <2>5. CASE t = s
    BY <2>2, <2>4, <2>5, Zenon DEF verdict
  <2>6. CASE t # s
    BY <2>2, <2>3, <2>4, <2>6, Zenon DEF Answered
  <2>7. QED
    BY <2>5, <2>6, Zenon
<1>5. ASSUME NEW s \in Scrapes, phase[s] # "answered", phase' = phase, response' = response,
             \A t \in Scrapes : t # s => sent'[t] = sent[t] /\ summaries'[t] = summaries[t]
      PROVE  Answered'
  BY <1>5, Zenon DEF Answered, Refused
<1>6. ASSUME NEW s \in Scrapes, NEW m, SendSummary(s, m)
      PROVE  Answered'
  <2>1. /\ phase[s] = "sending" /\ UNCHANGED <<phase, response, sent>>
        /\ summaries' = [summaries EXCEPT ![s] = @ \cup {m}]
    BY <1>6, Zenon DEF SendSummary
  <2>2. \A t \in Scrapes : t # s => summaries'[t] = summaries[t]
    BY <1>0, <2>1 DEF TypeOK
  <2>3. phase[s] # "answered"
    BY <2>1
  <2>4. QED
    BY <1>5, <2>1, <2>2, <2>3, Zenon
<1>7. ASSUME NEW s \in Scrapes, NEW c \in Collectors, SendOutcome(s, c) \/ SendSelfMetrics(s, c)
      PROVE  Answered'
  <2>1. pc[s][c] \in {"collected", "reporting"} /\ UNCHANGED <<phase, response, summaries>>
    BY <1>7, Zenon DEF SendOutcome, SendSelfMetrics, Step
  <2>2. \A t \in Scrapes : t # s => sent'[t] = sent[t]
    <3>1. PICK more : Emit(s, more)
      BY <1>7, Zenon DEF SendOutcome, SendSelfMetrics
    <3>2. Sends(s, more)
      BY <1>0, <3>1, EmitEffect
    <3>3. QED
      BY <3>2, Zenon DEF Sends
  <2>3. phase[s] # "answered"
    BY <2>1 DEF Control, Progress, Waited
  <2>4. QED
    BY <1>5, <2>1, <2>2, <2>3, Zenon
<1>8. ASSUME NEW s \in Scrapes, NEW c \in Collectors,
             \/ Spawn(s, c)
             \/ \E src : RecordScrapeSource(s, c, src)
             \/ Collecting(s, c)
             \/ LockDurations(s, c) \/ LoadDuration(s, c) \/ StoreDuration(s, c) \/ Done(s, c)
      PROVE  Answered'
  BY <1>1, <1>8, Zenon DEF Spawn, RecordScrapeSource, Collecting, CollectReturns, LockDurations,
     LoadDuration, StoreDuration, Done, gatherVars
<1>9. CASE UNCHANGED vars
  BY <1>1, <1>9, Zenon DEF vars, gatherVars
<1>10. QED
  BY <1>3, <1>4, <1>6, <1>7, <1>8, <1>9, Zenon DEF Next, Call, Report, Quiescent

-----------------------------------------------------------------------------
(* What a summary holds of its scrape, and which summaries there are.      *)

\* A call whose goroutines are gone keeps its map.
LEMMA MapSettled ==
  ASSUME Control, [Next]_vars, NEW s \in Scrapes, Waited(s)
  PROVE  scrapeDurations'[s] = scrapeDurations[s]
<1>0. /\ scrapeDurations \in [Scrapes -> [Keys -> Sum]]
      /\ \A c \in Collectors : pc[s][c] = "exited"
  BY DEF Control, TypeOK, Progress
<1>1. CASE UNCHANGED scrapeDurations
  BY <1>1
<1>2. ASSUME NEW t \in Scrapes, NEW c \in Collectors, StoreDuration(t, c)
      PROVE  scrapeDurations'[s] = scrapeDurations[s]
  <2>1. t # s
    BY <1>0, <1>2 DEF StoreDuration, Step
  <2>2. PICK v : scrapeDurations' = [scrapeDurations EXCEPT ![t][Key(t, c)] = v]
    BY <1>2, Zenon DEF StoreDuration
  <2>3. QED
    BY <1>0, <2>1, <2>2
<1>3. ASSUME NEW t \in Scrapes,
             \/ StartScrape(t)
             \/ Call(t)
             \/ \E c \in Collectors :
                  \/ \E src \in Recordable[c] : RecordScrapeSource(t, c, src)
                  \/ Collecting(t, c)
                  \/ SendOutcome(t, c)
                  \/ SendSelfMetrics(t, c)
                  \/ LockDurations(t, c)
                  \/ LoadDuration(t, c)
                  \/ Done(t, c)
      PROVE  UNCHANGED scrapeDurations
  BY <1>3, Zenon DEF StartScrape, Call, Spawn, EndSpawn, WaitReturns, LockTotals, LoadTotal,
     StoreTotal, UnlockTotals, SendSummary, Return, Answer, RecordScrapeSource, Collecting,
     CollectReturns, SendOutcome, SendSelfMetrics, LockDurations, LoadDuration, Done, goroutineVars
<1>4. CASE UNCHANGED vars
  BY <1>1, <1>4, Zenon DEF vars, goroutineVars
<1>5. QED
  BY <1>1, <1>2, <1>3, <1>4, Zenon DEF Next, Report, Quiescent

\* What a summary made by s holds of s itself.
LEMMA NewTotalIsOwn ==
  ASSUME Control, Merging, Totalling, NEW s \in Scrapes, StoreTotal(s)
  PROVE  NewTotal(s).sum[s] = Expected(s, key[s])
<1>0. /\ total[s] \in Total /\ key[s] \in Keys /\ phase[s] = "store"
      /\ scrapeDurations[s][key[s]] \in Sum
  <2>1. total[s] \in Total /\ key[s] \in Keys
    BY DEF Control, TypeOK
  <2>2. scrapeDurations \in [Scrapes -> [Keys -> Sum]]
    BY DEF Control, TypeOK
  <2>3. phase[s] = "store"
    BY Zenon DEF StoreTotal
  <2>4. QED
    BY <2>1, <2>2, <2>3
<1>1. total[s] = durations[key[s]] /\ \A m \in metrics[s] : m.key # key[s]
  BY <1>0 DEF Totalling, Visiting, VisitingBy
<1>2. total[s].sum[s] = NoSum
  <2>1. s \notin Observers(key[s])
    BY <1>1 DEF Observers
  <2>2. durations[key[s]] =
          [count |-> Cardinality(Observers(key[s])),
           sum |-> [t \in Scrapes |-> IF t \in Observers(key[s])
                                      THEN Expected(t, key[s]) ELSE NoSum]]
    BY <1>0 DEF Totalling, TotalsExact
  <2>3. QED
    BY <1>1, <2>1, <2>2
<1>3. scrapeDurations[s][key[s]] = Expected(s, key[s])
  BY <1>0, MergedIsExpected DEF DurationsComplete, Waited
<1>4. NewTotal(s).sum[s] =
        [c \in Collectors |-> total[s].sum[s][c] + scrapeDurations[s][key[s]][c]]
  BY <1>0 DEF NewTotal, Total, GrandSum
<1>5. \A c \in Collectors : 0 + Expected(s, key[s])[c] = Expected(s, key[s])[c]
  BY DEF Expected
<1>6. [c \in Collectors |-> total[s].sum[s][c] + scrapeDurations[s][key[s]][c]]
      = [c \in Collectors |-> Expected(s, key[s])[c]]
  BY <1>2, <1>3, <1>5 DEF NoSum
<1>7. QED
  BY <1>4, <1>6 DEF Expected

\* Every step keeps what a summary holds of its scrape.
LEMMA OwnDurationsStep ==
  ASSUME Control, Merging, Totalling, OwnDurations, [Next]_vars
  PROVE  OwnDurations'
<1>0. TypeOK /\ Visiting
  BY DEF Control, Totalling
<1>1. ASSUME NEW s \in Scrapes, NEW m \in metrics[s]
      PROVE  m.key \in Keys /\ m.total.sum[s] = Expected(s, m.key)'
  <2>1. m.key \in Keys /\ m.total.sum[s] = Expected(s, m.key)
    BY DEF OwnDurations
  <2>2. Waited(s)
    BY <1>0 DEF Visiting, VisitingBy
  <2>3. QED
    BY <2>1, <2>2, ExpectedSettled
<1>2. CASE UNCHANGED metrics
  BY <1>1, <1>2 DEF OwnDurations
<1>3. ASSUME NEW s \in Scrapes, StoreTotal(s)
      PROVE  OwnDurations'
  <2>0. PICK m0 : m0 = [key |-> key[s], total |-> NewTotal(s)]
    BY Zenon
  <2>1. /\ phase[s] = "store" /\ key[s] \in Keys
        /\ \A t \in Scrapes : metrics'[t] = IF t = s THEN metrics[s] \cup {m0} ELSE metrics[t]
    BY <1>0, <1>3, <2>0, StoreEffect
  <2>2. m0.key = key[s] /\ m0.total = NewTotal(s)
    BY <2>0
  <2>3. NewTotal(s).sum[s] = Expected(s, key[s])
    BY <1>3, NewTotalIsOwn
  <2>4. m0.key \in Keys /\ m0.total.sum[s] = Expected(s, m0.key)'
    <3>1. PICK k \in Keys : k = key[s]
      BY <2>1
    <3>2. Expected(s, k)' = Expected(s, k)
      BY <2>1, ExpectedSettled DEF Waited
    <3>3. QED
      BY <2>2, <2>3, <3>1, <3>2
  <2>5. QED
    BY <1>1, <2>1, <2>4 DEF OwnDurations
<1>4. ASSUME NEW s \in Scrapes,
             \/ StartScrape(s)
             \/ EndSpawn(s)
             \/ WaitReturns(s)
             \/ LockTotals(s)
             \/ \E k \in Keys : LoadTotal(s, k)
             \/ UnlockTotals(s)
             \/ \E m \in metrics[s] : SendSummary(s, m)
             \/ Return(s)
             \/ Answer(s)
      PROVE  UNCHANGED metrics
  BY <1>4, Zenon DEF StartScrape, EndSpawn, WaitReturns, LockTotals, LoadTotal, UnlockTotals,
              SendSummary, Return, Answer, totalVars
<1>5. QED
  BY <1>2, <1>3, <1>4, TotalCases DEF totalVars

\* A call makes its next summary of a key for which it has none.
LEMMA OneSummaryStep ==
  ASSUME Control, Totalling, OneSummary, [Next]_vars
  PROVE  OneSummary'
<1>0. TypeOK /\ Visiting
  BY DEF Control, Totalling
<1>1. CASE UNCHANGED metrics
  BY <1>1, Zenon DEF OneSummary
<1>2. ASSUME NEW s \in Scrapes, StoreTotal(s)
      PROVE  OneSummary'
  <2>1. PICK m0 : m0 = [key |-> key[s], total |-> NewTotal(s)]
    BY Zenon
  <2>2. /\ phase[s] = "store" /\ m0.key = key[s]
        /\ \A t \in Scrapes : metrics'[t] = IF t = s THEN metrics[s] \cup {m0} ELSE metrics[t]
    BY <1>0, <1>2, <2>1, StoreEffect
  <2>3. \A m \in metrics[s] : m.key # m0.key
    BY <1>0, <2>2 DEF Visiting, VisitingBy
  <2>4. QED
    BY <2>2, <2>3 DEF OneSummary
<1>3. ASSUME NEW s \in Scrapes,
             \/ StartScrape(s)
             \/ EndSpawn(s)
             \/ WaitReturns(s)
             \/ LockTotals(s)
             \/ \E k \in Keys : LoadTotal(s, k)
             \/ UnlockTotals(s)
             \/ \E m \in metrics[s] : SendSummary(s, m)
             \/ Return(s)
             \/ Answer(s)
      PROVE  UNCHANGED metrics
  BY <1>3, Zenon DEF StartScrape, EndSpawn, WaitReturns, LockTotals, LoadTotal, UnlockTotals,
              SendSummary, Return, Answer, totalVars
<1>4. QED
  BY <1>1, <1>2, <1>3, TotalCases DEF totalVars

\* A call that has waited and does not change is as covered as it was.
LEMMA CoveredUnchanged ==
  ASSUME Control, Covered, [Next]_vars, NEW s \in Scrapes, Waited(s),
         phase'[s] = phase[s], keys'[s] = keys[s], key'[s] = key[s],
         metrics[s] = metrics'[s], summaries[s] \subseteq summaries'[s]
  PROVE  CoveredBy(s)'
<1>1. MapKeys(s)' = MapKeys(s)
  BY MapSettled DEF MapKeys
<1>2. CoveredBy(s)
  BY DEF Covered
<1>3. QED
  BY <1>1, <1>2 DEF CoveredBy

\* Every step keeps the keys of a map covered.
LEMMA CoveredStep ==
  ASSUME Control, Covered, [Next]_vars
  PROVE  Covered'
<1>0. /\ TypeOK
      /\ key \in [Scrapes -> Keys] /\ keys \in [Scrapes -> SUBSET Keys]
      /\ metrics \in [Scrapes -> SUBSET Summary]
      /\ summaries \in [Scrapes -> SUBSET Summary]
  BY DEF Control, TypeOK
<1>1. ASSUME NEW s \in Scrapes,
             \A t \in Scrapes : t # s => phase'[t] = phase[t],
             \A t \in Scrapes : t # s => keys'[t] = keys[t],
             \A t \in Scrapes : t # s => key'[t] = key[t],
             \A t \in Scrapes : t # s => metrics'[t] = metrics[t],
             \A t \in Scrapes : t # s => summaries'[t] = summaries[t],
             Waited(s)' => CoveredBy(s)'
      PROVE  Covered'
  <2>1. ASSUME NEW t \in Scrapes, t # s, Waited(t)'
        PROVE  CoveredBy(t)'
    <3>1. Waited(t)
      BY <1>1, <2>1 DEF Waited
    <3>2. QED
      BY <1>1, <2>1, <3>1, CoveredUnchanged
  <2>2. QED
    BY <1>1, <2>1 DEF Covered
<1>2. CASE UNCHANGED <<phase, totalVars, summaries, before>>
  <2>1. ASSUME NEW t \in Scrapes, Waited(t)'
        PROVE  CoveredBy(t)'
    <3>1. Waited(t)
      BY <1>2, <2>1 DEF Waited
    <3>2. QED
      BY <1>2, <3>1, CoveredUnchanged DEF totalVars
  <2>2. QED
    BY <2>1 DEF Covered
<1>3. ASSUME NEW s \in Scrapes, NEW p, Goto(s, p), UNCHANGED <<keys, key, metrics, summaries>>,
             Waited(s)' => CoveredBy(s)'
      PROVE  Covered'
  BY <1>0, <1>1, <1>3, GotoEffect
<1>4. ASSUME NEW s \in Scrapes, StartScrape(s) \/ EndSpawn(s)
      PROVE  Covered'
  <2>1. PICK p \in {"spawning", "waiting"} : Goto(s, p)
    BY <1>4, Zenon DEF StartScrape, EndSpawn
  <2>2. ~ Waited(s)'
    BY <1>0, <2>1, GotoEffect DEF Waited
  <2>3. UNCHANGED <<keys, key, metrics, summaries>>
    BY <1>4, Zenon DEF StartScrape, EndSpawn, totalVars, gatherVars
  <2>4. QED
    BY <1>3, <2>1, <2>2, <2>3
<1>5. ASSUME NEW s \in Scrapes, WaitReturns(s)
      PROVE  Covered'
  <2>1. /\ Goto(s, "observing") /\ UNCHANGED <<key, metrics, summaries, scrapeDurations>>
        /\ keys' = [keys EXCEPT ![s] = MapKeys(s)]
    BY <1>5, Zenon DEF WaitReturns, gatherVars, goroutineVars
  <2>2. \A t \in Scrapes : phase'[t] = IF t = s THEN "observing" ELSE phase[t]
    BY <1>0, <2>1, GotoEffect
  <2>3. keys'[s] = MapKeys(s) /\ \A t \in Scrapes : t # s => keys'[t] = keys[t]
    BY <1>0, <2>1
  <2>4. MapKeys(s)' = MapKeys(s)
    BY <2>1 DEF MapKeys
  <2>5. CoveredBy(s)'
    BY <2>2, <2>3, <2>4 DEF CoveredBy
  <2>6. QED
    BY <1>1, <2>1, <2>2, <2>3, <2>5
<1>6. ASSUME NEW s \in Scrapes, LockTotals(s)
      PROVE  Covered'
  <2>1. /\ phase[s] = "observing" /\ Goto(s, "next key")
        /\ UNCHANGED <<keys, key, metrics, summaries>>
    BY <1>6, Zenon DEF LockTotals, gatherVars
  <2>2. phase'[s] = "next key"
    BY <1>0, <2>1, GotoEffect
  <2>3. Waited(s)
    BY <2>1 DEF Waited
  <2>4. MapKeys(s)' = MapKeys(s)
    BY <2>3, MapSettled DEF MapKeys
  <2>5. CoveredBy(s)'
    BY <2>1, <2>2, <2>3, <2>4 DEF Covered, CoveredBy
  <2>6. QED
    BY <1>3, <2>1, <2>5
<1>7. ASSUME NEW s \in Scrapes, NEW k \in Keys, LoadTotal(s, k)
      PROVE  Covered'
  <2>1. /\ phase[s] = "next key" /\ Goto(s, "store") /\ UNCHANGED <<metrics, summaries>>
        /\ key' = [key EXCEPT ![s] = k]
        /\ keys' = [keys EXCEPT ![s] = @ \ {k}]
    BY <1>7, Zenon DEF LoadTotal, gatherVars
  <2>2. \A t \in Scrapes : phase'[t] = IF t = s THEN "store" ELSE phase[t]
    BY <1>0, <2>1, GotoEffect
  <2>3. /\ key'[s] = k /\ keys'[s] = keys[s] \ {k}
        /\ \A t \in Scrapes : t # s => key'[t] = key[t] /\ keys'[t] = keys[t]
    BY <1>0, <2>1
  <2>4. Waited(s)
    BY <2>1 DEF Waited
  <2>5. MapKeys(s)' = MapKeys(s)
    BY <2>4, MapSettled DEF MapKeys
  <2>6. CoveredBy(s)'
    BY <2>1, <2>2, <2>3, <2>4, <2>5 DEF Covered, CoveredBy
  <2>7. QED
    BY <1>1, <2>1, <2>2, <2>3, <2>6
<1>8. ASSUME NEW s \in Scrapes, StoreTotal(s)
      PROVE  Covered'
  <2>0. PICK m0 : m0 = [key |-> key[s], total |-> NewTotal(s)]
    BY Zenon
  <2>1. /\ phase[s] = "store" /\ Goto(s, "next key") /\ UNCHANGED <<key, keys, summaries>>
    BY <1>8, Zenon DEF StoreTotal, gatherVars
  <2>2. \A t \in Scrapes : phase'[t] = IF t = s THEN "next key" ELSE phase[t]
    BY <1>0, <2>1, GotoEffect
  <2>3. \A t \in Scrapes : metrics'[t] = IF t = s THEN metrics[s] \cup {m0} ELSE metrics[t]
    BY <1>0, <1>8, <2>0, StoreEffect
  <2>4. m0.key = key[s]
    BY <2>0
  <2>5. Waited(s)
    BY <2>1 DEF Waited
  <2>6. MapKeys(s)' = MapKeys(s)
    BY <2>5, MapSettled DEF MapKeys
  <2>7. CoveredBy(s)'
    BY <2>1, <2>2, <2>3, <2>4, <2>5, <2>6 DEF Covered, CoveredBy
  <2>8. QED
    BY <1>1, <2>1, <2>2, <2>3, <2>7
<1>9. ASSUME NEW s \in Scrapes, UnlockTotals(s) \/ Return(s) \/ Answer(s)
      PROVE  Covered'
  <2>1. PICK p \in {"sending", "returned", "answered"} :
          /\ Goto(s, p)
          /\ p = "sending" => phase[s] = "next key" /\ keys[s] = {}
          /\ p = "returned" => phase[s] = "sending" /\ metrics[s] \subseteq summaries[s]
          /\ p = "answered" => phase[s] = "returned"
    <3>1. CASE UnlockTotals(s)
      BY <3>1 DEF UnlockTotals
    <3>2. CASE Return(s)
      BY <3>2 DEF Return
    <3>3. CASE Answer(s)
      BY <3>3 DEF Answer
    <3>4. QED
      BY <1>9, <3>1, <3>2, <3>3
  <2>2. UNCHANGED <<keys, key, metrics, summaries>>
    BY <1>9, Zenon DEF UnlockTotals, Return, Answer, totalVars, gatherVars
  <2>3. phase'[s] = p
    BY <1>0, <2>1, GotoEffect
  <2>4. Waited(s) /\ phase[s] # "store"
    BY <2>1 DEF Waited
  <2>5. MapKeys(s)' = MapKeys(s)
    BY <2>4, MapSettled DEF MapKeys
  <2>6. CoveredBy(s)'
    BY <2>1, <2>2, <2>3, <2>4, <2>5 DEF Covered, CoveredBy
  <2>7. QED
    BY <1>3, <2>1, <2>2, <2>6
<1>10. ASSUME NEW s \in Scrapes, NEW m \in metrics[s], SendSummary(s, m)
       PROVE  Covered'
  <2>1. /\ phase[s] = "sending" /\ UNCHANGED <<phase, keys, key, metrics>>
        /\ summaries' = [summaries EXCEPT ![s] = @ \cup {m}]
    BY <1>10, Zenon DEF SendSummary, totalVars
  <2>2. /\ summaries[s] \subseteq summaries'[s]
        /\ \A t \in Scrapes : t # s => summaries'[t] = summaries[t]
    BY <1>0, <2>1
  <2>3. Waited(s)
    BY <2>1 DEF Waited
  <2>4. CoveredBy(s)'
    BY <2>1, <2>2, <2>3, CoveredUnchanged
  <2>5. QED
    BY <1>1, <2>1, <2>2, <2>4
<1>11. QED
  BY <1>2, <1>4, <1>5, <1>6, <1>7, <1>8, <1>9, <1>10, TotalCases

-----------------------------------------------------------------------------
\* What Gather has received, the summaries and the answer hold at first.
LEMMA AnsweringInit == Init => Answering
<1> SUFFICES ASSUME Init PROVE Answering
  OBVIOUS
<1>1. /\ \A s \in Scrapes : phase[s] = "idle" /\ metrics[s] = {}
      /\ \A s \in Scrapes, x \in Samples : sent[s][x] = 0
      /\ \A s \in Scrapes, c \in Collectors : pc[s][c] = "unspawned"
  BY DEF Init
<1>2. Received
  <2>1. \A x \in Samples : x.collector \in Collectors
    BY DEF Samples
  <2>2. \A s \in Scrapes, x \in Samples : ~IsSent(s, x)
    BY <1>1, <2>1 DEF IsSent, SentBy
  <2>3. QED
    BY <1>1, <2>2 DEF Received
<1>3. Answered /\ OwnDurations /\ OneSummary /\ Covered
  BY <1>1 DEF Answered, OwnDurations, OneSummary, Covered, Waited
<1>4. QED
  BY <1>2, <1>3 DEF Answering

\* What Gather has received, the summaries and the answer agree at all times
\* with what the goroutines of the scrape have done (collector.go:106-189).
THEOREM AnsweringInvariant == Spec => []Answering
<1>1. Control /\ Merging /\ Totalling /\ Answering /\ [Next]_vars => Answering'
  BY ReceivedStep, AnsweredStep, OwnDurationsStep, OneSummaryStep, CoveredStep
     DEF Answering
<1>2. QED
  BY <1>1, AnsweringInit, ControlInvariant, MergingInvariant, TotallingInvariant, PTL DEF Spec

\* What a goroutine that has exited has sent.
LEMMA SentInTheEnd ==
  ASSUME TypeOK, NEW s \in Scrapes, NEW c \in Collectors
  PROVE  SentBy(c, "exited", result[s][c]) = ExpectedSamples(s, c)
<1>1. result[s][c] \in {"success", "error"}
  BY DEF TypeOK, Results
<1>2. CASE result[s][c] = "success"
  BY <1>2 DEF SentBy, ExpectedSamples, SelfMetrics, Outcome
<1>3. CASE result[s][c] = "error"
  BY <1>3 DEF SentBy, ExpectedSamples, SelfMetrics, Outcome
<1>4. QED
  BY <1>1, <1>2, <1>3

\* An invalid metric is that of a failed collector, in strict mode.
LEMMA InvalidIsStrictFailure ==
  ASSUME TypeOK, NEW s \in Scrapes
  PROVE  (\E x \in Samples : x.kind = "invalid" /\ x \in ExpectedSamples(s, x.collector))
         <=> Strict /\ \E c \in Collectors : result[s][c] = "error"
<1>1. \A c \in Collectors : result[s][c] \in {"success", "error"}
  BY DEF TypeOK, Results
<1>2. \A c, kind : Sample(c, kind).kind = kind /\ Sample(c, kind).collector = c
  BY DEF Sample
<1>3. ASSUME NEW c \in Collectors
      PROVE  (\E x \in ExpectedSamples(s, c) : x.kind = "invalid")
             <=> Strict /\ result[s][c] = "error"
  <2>1. CASE result[s][c] = "success"
    BY <1>2, <2>1 DEF ExpectedSamples
  <2>2. CASE result[s][c] = "error"
    BY <1>2, <2>2 DEF ExpectedSamples
  <2>3. QED
    BY <1>1, <2>1, <2>2
<1>4. \A x \in Samples : x.collector \in Collectors
  BY DEF Samples
<1>5. ASSUME NEW c \in Collectors, NEW x \in ExpectedSamples(s, c)
      PROVE  x \in Samples /\ x.collector = c
  <2>1. PICK kind \in Kinds : x = Sample(c, kind)
    BY <1>5 DEF ExpectedSamples, Kinds
  <2>2. QED
    BY <2>1 DEF Sample, Samples
<1>6. ASSUME NEW x \in Samples, x.kind = "invalid", x \in ExpectedSamples(s, x.collector)
      PROVE  Strict /\ \E c \in Collectors : result[s][c] = "error"
  <2>1. PICK c \in Collectors : c = x.collector
    BY <1>4
  <2>2. QED
    BY <1>3, <1>6, <2>1, Zenon
<1>7. ASSUME Strict, NEW c \in Collectors, result[s][c] = "error"
      PROVE  \E x \in Samples : x.kind = "invalid" /\ x \in ExpectedSamples(s, x.collector)
  <2>1. PICK x \in ExpectedSamples(s, c) : x.kind = "invalid"
    BY <1>3, <1>7
  <2>2. x \in Samples /\ x.collector = c
    BY <1>5
  <2>3. QED
    BY <2>1, <2>2
<1>8. QED
  BY <1>6, <1>7

\* What a scrape that was answered holds of its collectors.
HoldsAllOnce(s) ==
  /\ \A x \in Samples : sent[s][x] = IF x \in ExpectedSamples(s, x.collector) THEN 1 ELSE 0
  /\ \A c \in Collectors : \E m \in summaries[s] :
       /\ m.key = Key(s, c) /\ m.total.sum[s][c] = 1
       /\ \A other \in summaries[s] \ {m} :
            other.key # Key(s, c) /\ other.total.sum[s][c] = 0

\* The answer to a scrape accounts for every collector, whatever the others
\* and the other scrapes do: its outcome and its self metrics once, and its
\* duration in the one summary with its source and result; it is refused for a
\* failed collector in strict mode only (collector.go:128-161).
THEOREM AnswersAreComplete == Spec => []AnswerComplete
<1>1. ASSUME Control, Merging, Publishing, Answering
      PROVE  AnswerComplete
  <2>0. TypeOK /\ RegistryAssumption
    BY <1>1, RegistryAssumption DEF Control
  <2>1. SUFFICES ASSUME NEW s \in Scrapes, phase[s] = "answered"
                 PROVE  /\ HoldsAllOnce(s)
                        /\ response[s] =
                             IF Strict /\ \E c \in Collectors : result[s][c] = "error"
                             THEN "500" ELSE "200"
    BY Zenon DEF AnswerComplete, HoldsAllOnce
  <2>2. Waited(s)
    BY <2>1 DEF Waited
  <2>3. \A c \in Collectors : pc[s][c] = "exited"
    BY <1>1, <2>2 DEF Control, Progress
  <2>4. ASSUME NEW x \in Samples
        PROVE  sent[s][x] = IF x \in ExpectedSamples(s, x.collector) THEN 1 ELSE 0
    <3>1. PICK c \in Collectors : c = x.collector
      BY DEF Samples
    <3>2. SentBy(c, pc[s][c], result[s][c]) = ExpectedSamples(s, c)
      BY <2>0, <2>3, SentInTheEnd, Zenon
    <3>3. sent[s][x] = IF IsSent(s, x) THEN 1 ELSE 0
      BY <1>1, Zenon DEF Answering, Received
    <3>4. QED
      BY <3>1, <3>2, <3>3, Zenon DEF IsSent
  <2>5. summaries[s] \subseteq metrics[s]
    BY <1>1 DEF Publishing, History
  <2>6. ASSUME NEW m \in summaries[s], NEW c \in Collectors
        PROVE  m.total.sum[s][c] = IF m.key = Key(s, c) THEN 1 ELSE 0
    <3>1. m.total.sum[s] = Expected(s, m.key)
      BY <1>1, <2>5 DEF Answering, OwnDurations
    <3>2. QED
      BY <3>1 DEF Expected
  <2>7. \A m1, m2 \in summaries[s] : m1.key = m2.key => m1 = m2
    BY <1>1, <2>5, Zenon DEF Answering, OneSummary
  <2>8. ASSUME NEW c \in Collectors
        PROVE  \E m \in summaries[s] :
                 /\ m.key = Key(s, c) /\ m.total.sum[s][c] = 1
                 /\ \A other \in summaries[s] \ {m} :
                      other.key # Key(s, c) /\ other.total.sum[s][c] = 0
    <3>1. PICK k \in Keys : k = Key(s, c)
      BY <2>0, KeyType
    <3>2. scrapeDurations[s][k] = Expected(s, k)
      BY <1>1, <2>2, MergedIsExpected DEF DurationsComplete
    <3>3. k \in MapKeys(s)
      <4>1. Expected(s, k)[c] = 1 /\ NoSum[c] = 0
        BY <3>1 DEF Expected, NoSum
      <4>2. QED
        BY <3>2, <4>1 DEF MapKeys
    <3>4. CoveredBy(s)
      BY <1>1, <2>2 DEF Answering, Covered
    <3>5. PICK m \in metrics[s] : m.key = k
      BY <2>1, <3>3, <3>4 DEF CoveredBy
    <3>6. m \in summaries[s]
      BY <2>1, <3>4 DEF CoveredBy
    <3>7. m.key = Key(s, c) /\ m.total.sum[s][c] = 1
      BY <2>6, <3>1, <3>5, <3>6
    <3>8. ASSUME NEW other \in summaries[s], other # m
          PROVE  other.key # Key(s, c) /\ other.total.sum[s][c] = 0
      <4>1. other.key # Key(s, c)
        BY <2>7, <3>6, <3>7, <3>8, Zenon
      <4>2. QED
        BY <2>6, <4>1
    <3>9. QED
      BY <3>6, <3>7, <3>8
  <2>9. Refused(s) <=> Strict /\ \E c \in Collectors : result[s][c] = "error"
    <3>1. \A x \in Samples :
            sent[s][x] > (IF x.kind = "invalid" THEN 0 ELSE 1)
            <=> x.kind = "invalid" /\ x \in ExpectedSamples(s, x.collector)
      BY <2>4
    <3>2. Refused(s) <=>
            \E x \in Samples : x.kind = "invalid" /\ x \in ExpectedSamples(s, x.collector)
      BY <2>7, <3>1, Zenon DEF Refused
    <3>3. QED
      BY <2>0, <3>2, InvalidIsStrictFailure, Zenon
  <2>10. response[s] = IF Strict /\ \E c \in Collectors : result[s][c] = "error"
                       THEN "500" ELSE "200"
    BY <1>1, <2>1, <2>9, Zenon DEF Answering, Answered
  <2>11. HoldsAllOnce(s)
    BY <2>4, <2>8, Zenon DEF HoldsAllOnce
  <2>12. QED
    BY <2>10, <2>11
<1>2. QED
  BY <1>1, ControlInvariant, MergingInvariant, PublishingInvariant, AnsweringInvariant, PTL
=============================================================================
