---------------------------- MODULE ReaderProofs ----------------------------
(***************************************************************************)
(* Proofs about Reader, for every timeout and every number of calls.       *)
(***************************************************************************)
EXTENDS Reader, FiniteSetTheorems, TLAPS

\* Assigning to one component of a table.
LEMMA TableUpdate ==
  ASSUME NEW A, NEW B, NEW V, NEW f \in [A -> [B -> V]],
         NEW a \in A, NEW b \in B, NEW v \in V
  PROVE  /\ [f EXCEPT ![a][b] = v] \in [A -> [B -> V]]
         /\ \A x \in A, y \in B :
              [f EXCEPT ![a][b] = v][x][y] = IF x = a /\ y = b THEN v ELSE f[x][y]
OBVIOUS

\* The deadline of a run is the earlier of the two timeouts that are set.
LEMMA DeadlineType ==
  /\ Deadline \in Nat
  /\ HasDeadline /\ ScrapeTimeout > 0 => Deadline <= ScrapeTimeout
  /\ HasDeadline /\ SourceTimeout > 0 => Deadline <= SourceTimeout
BY ReaderAssumption DEF Deadline, HasDeadline

\* A move changes where one run is, and no other.
LEMMA MoveType ==
  ASSUME TypeOK, NEW c \in Callers, NEW from,
         NEW to \in {"running", "select", "process", "output", "returned"},
         Move(c, from, to)
  PROVE  /\ pc' \in [Callers -> {"running", "select", "process", "output", "returned"}]
         /\ pc[c] = from /\ pc'[c] = to
         /\ \A d \in Callers : d # c => pc'[d] = pc[d]
BY DEF TypeOK, Move

\* A call that begins has a number within the bound.
LEMMA TurnType ==
  ASSUME TypeOK, NEW c \in Callers, BeginCall(c)
  PROVE  /\ Turn(c) \in CallIndex
         /\ calls' \in [Callers -> 0..MaxCalls]
         /\ calls'[c] = Turn(c)
         /\ \A d \in Callers : d # c => calls'[d] = calls[d]
<1>1. calls[c] \in 0..MaxCalls /\ calls[c] < MaxCalls
  BY DEF TypeOK, BeginCall
<1>2. Turn(c) \in CallIndex /\ Turn(c) \in 0..MaxCalls
  BY <1>1, ReaderAssumption DEF Turn, CallIndex
<1>3. QED
  BY <1>2 DEF BeginCall, TypeOK

\* Every step keeps the types.
LEMMA TypeStep ==
  ASSUME TypeOK, [Next]_vars
  PROVE  TypeOK'
<1> USE DEF callVars, readVars, commandVars
<1>1. ASSUME NEW c \in Callers, ContextExpires(c)
      PROVE  TypeOK'
  BY <1>1 DEF ContextExpires, TypeOK
<1>2. ASSUME NEW c \in Callers, Refuse(c)
      PROVE  TypeOK'
  BY <1>2, TurnType DEF Refuse, TypeOK
<1>3. ASSUME NEW c \in Callers, Return(c)
      PROVE  TypeOK'
  BY <1>3, MoveType DEF Return, TypeOK
<1>4. ASSUME NEW c \in Callers, BeginRead(c)
      PROVE  TypeOK'
  <2>1. worker' \in [Callers -> [CallIndex -> {"none", "io", "send", "exited"}]]
    BY <1>4, TurnType, TableUpdate DEF BeginRead, TypeOK
  <2>2. QED
    BY <1>4, <2>1, TurnType, MoveType DEF BeginRead, TypeOK
<1>5. ASSUME NEW c \in Callers, NEW i \in CallIndex, Send(c, i)
      PROVE  TypeOK'
  <2>1. /\ worker' \in [Callers -> [CallIndex -> {"none", "io", "send", "exited"}]]
        /\ ch' \in [Callers -> [CallIndex -> {"empty", "full"}]]
    BY <1>5, TableUpdate DEF Send, TypeOK
  <2>2. QED
    BY <1>5, <2>1 DEF Send, TypeOK
<1>6. ASSUME NEW c \in Callers, Receive(c)
      PROVE  TypeOK'
  <2>1. ch' \in [Callers -> [CallIndex -> {"empty", "full"}]]
    BY <1>6 DEF Receive, TypeOK
  <2>2. QED
    BY <1>6, <2>1, MoveType DEF Receive, TypeOK
<1>7. ASSUME NEW c \in Callers, Abandon(c)
      PROVE  TypeOK'
  BY <1>7, MoveType DEF Abandon, TypeOK
<1>8. ASSUME NEW c \in Callers, StartCommand(c)
      PROVE  TypeOK'
  BY <1>8, TurnType, MoveType DEF StartCommand, TypeOK, NoTimer
<1>9. ASSUME NEW c \in Callers, Kill(c)
      PROVE  TypeOK'
  <2>1. timer' \in [Callers -> Int]
    BY <1>9, ReaderAssumption DEF Kill, TypeOK
  <2>2. QED
    BY <1>9, <2>1 DEF Kill, Exits, TypeOK
<1>10. ASSUME NEW c \in Callers, ProcessWaited(c)
      PROVE  TypeOK'
  <2>1. timer' \in [Callers -> Int]
    BY <1>10, ReaderAssumption DEF ProcessWaited, TypeOK
  <2>2. QED
    BY <1>10, <2>1, MoveType DEF ProcessWaited, TypeOK
<1>11. ASSUME NEW c \in Callers, OutputRead(c)
      PROVE  TypeOK'
  BY <1>11, MoveType DEF OutputRead, TypeOK
<1>12. ASSUME NEW c \in Callers, GiveUp(c)
      PROVE  TypeOK'
  BY <1>12, MoveType DEF GiveUp, TypeOK
<1>13. ASSUME NEW c \in Callers, NEW i \in CallIndex, ReadCompletes(c, i)
      PROVE  TypeOK'
  <2>1. worker' \in [Callers -> [CallIndex -> {"none", "io", "send", "exited"}]]
    BY <1>13, TableUpdate DEF ReadCompletes, TypeOK
  <2>2. QED
    BY <1>13, <2>1 DEF ReadCompletes, TypeOK
<1>14. ASSUME NEW c \in Callers, CommandExits(c)
      PROVE  TypeOK'
  BY <1>14 DEF CommandExits, TypeOK, Exits
<1>15. ASSUME NEW c \in Callers, OutputCloses(c)
      PROVE  TypeOK'
  BY <1>15 DEF OutputCloses, TypeOK
<1>16. CASE Tick
  BY <1>16, ReaderAssumption DEF Tick, TypeOK
<1>17. CASE UNCHANGED vars
  BY <1>17 DEF vars, TypeOK
<1>18. QED
  BY <1>1, <1>2, <1>3, <1>4, <1>5, <1>6, <1>7, <1>8, <1>9, <1>10, <1>11, <1>12, <1>13, <1>14, <1>15, <1>16, <1>17
  DEF Next, Exporter, Environment, Quiescent

\* Every variable keeps to its type.
THEOREM TypeCorrect == Spec => []TypeOK
<1>1. Init => TypeOK
  BY ReaderAssumption DEF Init, TypeOK, NoTimer
<1>2. TypeOK /\ [Next]_vars => TypeOK'
  BY TypeStep
<1>3. QED
  BY <1>1, <1>2, PTL DEF Spec

-----------------------------------------------------------------------------
\* The read goroutines of one collector run.

WorkersOf(c) ==
  /\ \A i \in CallIndex : i > calls[c] => worker[c][i] = "none" /\ ch[c][i] = "empty"
  /\ \A i \in CallIndex : ch[c][i] = "full" => worker[c][i] = "exited"
  /\ \A i \in LiveWorkers(c) : done[c] \/ (pc[c] = "select" /\ calls[c] = i)
  /\ \A i, j \in LiveWorkers(c) : i = j

Workers == \A c \in Callers : WorkersOf(c)

\* A step of another run leaves those of c alone.
LEMMA WorkersUnchanged ==
  ASSUME NEW c \in Callers, WorkersOf(c),
         pc'[c] = pc[c], calls'[c] = calls[c], done[c] => done'[c],
         worker'[c] = worker[c], ch'[c] = ch[c]
  PROVE  WorkersOf(c)'
BY DEF WorkersOf, LiveWorkers

\* Every step keeps what is known of the reading goroutines.
LEMMA WorkersStep ==
  ASSUME TypeOK, Workers, [Next]_vars
  PROVE  Workers'
<1> USE DEF callVars, readVars, commandVars
<1>0. /\ calls \in [Callers -> 0..MaxCalls]
      /\ worker \in [Callers -> [CallIndex -> {"none", "io", "send", "exited"}]]
      /\ ch \in [Callers -> [CallIndex -> {"empty", "full"}]]
      /\ done \in [Callers -> BOOLEAN]
      /\ \A c \in Callers : WorkersOf(c)
  BY DEF TypeOK, Workers
<1>1. ASSUME NEW c \in Callers, ContextExpires(c)
      PROVE  Workers'
  <2>1. \A d \in Callers : done[d] => done'[d]
    BY <1>0, <1>1 DEF ContextExpires
  <2>2. QED
    BY <1>0, <1>1, <2>1, WorkersUnchanged DEF ContextExpires, Workers
<1>2. ASSUME NEW c \in Callers, Refuse(c)
      PROVE  Workers'
  <2>1. done[c] /\ calls'[c] = calls[c] + 1
        /\ UNCHANGED <<done, pc, worker, ch>>
        /\ \A d \in Callers : d # c => calls'[d] = calls[d]
    BY <1>2, TurnType DEF Refuse, Admit, Turn
  <2>2. WorkersOf(c)'
    BY <1>0, <2>1 DEF WorkersOf, LiveWorkers, CallIndex
  <2>3. QED
    BY <1>0, <2>1, <2>2, WorkersUnchanged DEF Workers
<1>3. ASSUME NEW c \in Callers, Return(c)
      PROVE  Workers'
  <2>1. done'[c] /\ pc[c] = "running" /\ UNCHANGED <<calls, worker, ch>>
        /\ \A d \in Callers : d # c => pc'[d] = pc[d] /\ done'[d] = done[d]
    BY <1>0, <1>3, MoveType DEF Return
  <2>2. WorkersOf(c)'
    BY <1>0, <2>1 DEF WorkersOf, LiveWorkers
  <2>3. QED
    BY <1>0, <2>1, <2>2, WorkersUnchanged DEF Workers
<1>4. ASSUME NEW c \in Callers, BeginRead(c)
      PROVE  Workers'
  <2>1. /\ ~done[c] /\ pc[c] = "running" /\ pc'[c] = "select"
        /\ calls'[c] = Turn(c) /\ Turn(c) = calls[c] + 1 /\ Turn(c) \in CallIndex
        /\ UNCHANGED <<done, ch>>
        /\ \A d \in Callers : d # c => pc'[d] = pc[d] /\ calls'[d] = calls[d]
    BY <1>4, TurnType, MoveType DEF BeginRead, Admit, Turn
  <2>2. \A d \in Callers, i \in CallIndex :
          worker'[d][i] = IF d = c /\ i = Turn(c) THEN "io" ELSE worker[d][i]
    BY <1>0, <1>4, <2>1, TableUpdate DEF BeginRead
  <2>3. \A d \in Callers : d # c => worker'[d] = worker[d]
    BY <1>0, <1>4 DEF BeginRead
  <2>4. LiveWorkers(c) = {}
    BY <1>0, <2>1 DEF WorkersOf
  <2>5. LiveWorkers(c)' = {Turn(c)}
    BY <2>1, <2>2, <2>4 DEF LiveWorkers
  <2>6. ch[c][Turn(c)] = "empty"
    BY <1>0, <2>1 DEF WorkersOf
  <2>7. calls[c] \in Nat
    BY <1>0
  <2>8. WorkersOf(c)'
    <3>1. \A i \in CallIndex :
            i > calls'[c] => worker'[c][i] = "none" /\ ch'[c][i] = "empty"
      BY <1>0, <2>1, <2>2, <2>7 DEF WorkersOf, CallIndex
    <3>2. \A i \in CallIndex : ch'[c][i] = "full" => worker'[c][i] = "exited"
      BY <1>0, <2>1, <2>2, <2>6 DEF WorkersOf
    <3>3. QED
      BY <2>1, <2>5, <3>1, <3>2 DEF WorkersOf
  <2>9. QED
    BY <1>0, <2>1, <2>3, <2>8, WorkersUnchanged DEF Workers
<1>5. ASSUME NEW c \in Callers, NEW i \in CallIndex, ReadCompletes(c, i)
      PROVE  Workers'
  <2>1. worker[c][i] = "io" /\ UNCHANGED <<done, pc, calls, ch>>
    BY <1>5 DEF ReadCompletes
  <2>2. \A d \in Callers, j \in CallIndex :
          worker'[d][j] = IF d = c /\ j = i THEN "send" ELSE worker[d][j]
    BY <1>0, <1>5, TableUpdate DEF ReadCompletes
  <2>3. \A d \in Callers : LiveWorkers(d)' = LiveWorkers(d)
    BY <2>1, <2>2 DEF LiveWorkers
  <2>4. QED
    BY <1>0, <2>1, <2>2, <2>3 DEF Workers, WorkersOf
<1>6. ASSUME NEW c \in Callers, NEW i \in CallIndex, Send(c, i)
      PROVE  Workers'
  <2>1. worker[c][i] = "send" /\ UNCHANGED <<done, pc, calls>>
    BY <1>6 DEF Send
  <2>2. \A d \in Callers, j \in CallIndex :
          /\ worker'[d][j] = IF d = c /\ j = i THEN "exited" ELSE worker[d][j]
          /\ ch'[d][j] = IF d = c /\ j = i THEN "full" ELSE ch[d][j]
    BY <1>0, <1>6, TableUpdate DEF Send
  <2>3. \A d \in Callers : LiveWorkers(d)' \subseteq LiveWorkers(d)
    BY <2>1, <2>2 DEF LiveWorkers
  <2>4. QED
    BY <1>0, <2>1, <2>2, <2>3 DEF Workers, WorkersOf
<1>7. ASSUME NEW c \in Callers, Receive(c)
      PROVE  Workers'
  <2>1. /\ pc[c] = "select" /\ ch[c][calls[c]] = "full" /\ UNCHANGED <<done, calls, worker>>
        /\ \A d \in Callers : d # c => pc'[d] = pc[d] /\ ch'[d] = ch[d]
    BY <1>0, <1>7, MoveType DEF Receive
  <2>2. \A i \in CallIndex :
          ch'[c][i] = IF i = calls[c] THEN "empty" ELSE ch[c][i]
    BY <1>0, <1>7 DEF Receive
  <2>3. \A i \in LiveWorkers(c) : done[c]
    BY <1>0, <2>1 DEF WorkersOf, LiveWorkers
  <2>4. WorkersOf(c)'
    BY <1>0, <2>1, <2>2, <2>3 DEF WorkersOf, LiveWorkers
  <2>5. QED
    BY <1>0, <2>1, <2>4, WorkersUnchanged DEF Workers
<1>8. ASSUME NEW c \in Callers, Abandon(c)
      PROVE  Workers'
  <2>1. /\ pc[c] = "select" /\ UNCHANGED <<done, calls, worker, ch>>
        /\ \A d \in Callers : d # c => pc'[d] = pc[d]
    BY <1>8, MoveType DEF Abandon
  <2>2. WorkersOf(c)'
    BY <1>0, <1>8, <2>1 DEF WorkersOf, LiveWorkers, Abandon, CanAbandon
  <2>3. QED
    BY <1>0, <2>1, <2>2, WorkersUnchanged DEF Workers
<1>9. ASSUME NEW c \in Callers, StartCommand(c)
      PROVE  Workers'
  <2>1. /\ pc[c] = "running" /\ ~done[c]
        /\ calls'[c] = calls[c] + 1 /\ calls[c] \in Nat
        /\ UNCHANGED <<done, worker, ch>>
        /\ \A d \in Callers : d # c => pc'[d] = pc[d] /\ calls'[d] = calls[d]
    BY <1>0, <1>9, TurnType, MoveType DEF StartCommand, Admit, Turn
  <2>2. WorkersOf(c)'
    BY <1>0, <2>1 DEF WorkersOf, LiveWorkers, CallIndex
  <2>3. QED
    BY <1>0, <2>1, <2>2, WorkersUnchanged DEF Workers
<1>10. ASSUME NEW c \in Callers, ProcessWaited(c)
      PROVE  Workers'
  <2>1. /\ pc[c] = "process" /\ UNCHANGED <<done, calls, worker, ch>>
        /\ \A d \in Callers : d # c => pc'[d] = pc[d]
    BY <1>10, MoveType DEF ProcessWaited
  <2>2. WorkersOf(c)'
    BY <1>0, <2>1 DEF WorkersOf, LiveWorkers
  <2>3. QED
    BY <1>0, <2>1, <2>2, WorkersUnchanged DEF Workers
<1>11. ASSUME NEW c \in Callers, OutputRead(c)
      PROVE  Workers'
  <2>1. /\ pc[c] = "output" /\ UNCHANGED <<done, calls, worker, ch>>
        /\ \A d \in Callers : d # c => pc'[d] = pc[d]
    BY <1>11, MoveType DEF OutputRead
  <2>2. WorkersOf(c)'
    BY <1>0, <2>1 DEF WorkersOf, LiveWorkers
  <2>3. QED
    BY <1>0, <2>1, <2>2, WorkersUnchanged DEF Workers
<1>12. ASSUME NEW c \in Callers, GiveUp(c)
      PROVE  Workers'
  <2>1. /\ pc[c] = "output" /\ UNCHANGED <<done, calls, worker, ch>>
        /\ \A d \in Callers : d # c => pc'[d] = pc[d]
    BY <1>12, MoveType DEF GiveUp
  <2>2. WorkersOf(c)'
    BY <1>0, <2>1 DEF WorkersOf, LiveWorkers
  <2>3. QED
    BY <1>0, <2>1, <2>2, WorkersUnchanged DEF Workers
<1>13. ASSUME NEW c \in Callers, Kill(c) \/ CommandExits(c) \/ OutputCloses(c)
      PROVE  UNCHANGED <<done, pc, calls, worker, ch>>
  BY <1>13 DEF Kill, CommandExits, OutputCloses
<1>14. CASE Tick \/ UNCHANGED vars
  BY <1>0, <1>14 DEF Tick, vars, Workers, WorkersOf, LiveWorkers
<1>15. CASE UNCHANGED <<done, pc, calls, worker, ch>>
  BY <1>0, <1>15 DEF Workers, WorkersOf, LiveWorkers
<1>16. QED
  BY <1>1, <1>2, <1>3, <1>4, <1>5, <1>6, <1>7, <1>8, <1>9, <1>10, <1>11, <1>12, <1>13, <1>14, <1>15
  DEF Next, Exporter, Environment, Quiescent

\* Only the goroutine of the last read of a run may still be alive, and it has
\* a caller unless the context of the run is done (reader.go:42-63).
THEOREM WorkersInvariant == Spec => []Workers
<1>1. Init => Workers
  BY DEF Init, Workers, WorkersOf, LiveWorkers
<1>2. TypeOK /\ Workers /\ [Next]_vars => Workers'
  BY WorkersStep
<1>3. QED
  BY <1>1, <1>2, TypeCorrect, PTL DEF Spec

\* However many files a collector run tries, hung reads and a passed deadline
\* cost it one goroutine at most.
THEOREM OneWorkerLeftBehind == Spec => []AtMostOneWorker
<1>1. Workers => AtMostOneWorker
  <2> SUFFICES ASSUME Workers, NEW c \in Callers
               PROVE  Cardinality(LiveWorkers(c)) <= 1
    BY DEF AtMostOneWorker
  <2>1. CASE LiveWorkers(c) = {}
    BY <2>1, FS_EmptySet
  <2>2. CASE LiveWorkers(c) # {}
    <3>1. PICK i \in LiveWorkers(c) : TRUE
      BY <2>2
    <3>2. LiveWorkers(c) = {i}
      BY <3>1 DEF Workers, WorkersOf
    <3>3. Cardinality({i}) = 1
      BY FS_Singleton
    <3>4. QED
      BY <3>2, <3>3
  <2>3. QED
    BY <2>1, <2>2
<1>2. QED
  BY <1>1, WorkersInvariant, PTL

\* A read goes on without a caller only after the deadline.
THEOREM AbandonedAtDeadline == Spec => []AbandonedOnlyAtDeadline
<1>1. Workers => AbandonedOnlyAtDeadline
  BY DEF Workers, WorkersOf, AbandonedOnlyAtDeadline
<1>2. QED
  BY <1>1, WorkersInvariant, PTL

-----------------------------------------------------------------------------
\* The deadline.

\* Before the deadline nothing is said.  After it the context is done, and the
\* run is at most waiting for output, until its timer fires.
InTimeOf(c) ==
  /\ pc[c] \in {"select", "process"} => now <= Deadline
  /\ pc[c] = "process" /\ timer[c] # NoTimer => timer[c] <= Deadline + WaitDelay
  /\ pc[c] = "output" => timer[c] <= Deadline + WaitDelay
  /\ pc[c] # "returned" => now <= Deadline + WaitDelay
  /\ pc[c] # "returned" /\ now > Deadline => done[c]

InTime == HasDeadline => \A c \in Callers : InTimeOf(c)

\* A step that leaves a run and the clock alone keeps it in time.
LEMMA InTimeUnchanged ==
  ASSUME NEW c \in Callers, InTimeOf(c), now' = now,
         pc'[c] = pc[c], timer'[c] = timer[c], done[c] => done'[c]
  PROVE  InTimeOf(c)'
BY DEF InTimeOf, Deadline

\* Every step keeps every run in time.
LEMMA InTimeStep ==
  ASSUME TypeOK, InTime, HasDeadline, [Next]_vars
  PROVE  \A c \in Callers : InTimeOf(c)'
<1> USE DEF callVars, readVars, commandVars
<1>0. /\ now \in Nat /\ WaitDelay \in Nat /\ Deadline \in Nat
      /\ timer \in [Callers -> Int] /\ done \in [Callers -> BOOLEAN]
      /\ \A c \in Callers : InTimeOf(c)
  BY ReaderAssumption, DeadlineType DEF TypeOK, InTime
<1>1. Deadline' = Deadline
  BY DEF Deadline
<1>2. ASSUME NEW c \in Callers, ContextExpires(c)
      PROVE  \A d \in Callers : InTimeOf(d)'
  BY <1>0, <1>2, InTimeUnchanged DEF ContextExpires
<1>3. ASSUME NEW c \in Callers, Refuse(c)
      PROVE  \A d \in Callers : InTimeOf(d)'
  BY <1>0, <1>3, InTimeUnchanged DEF Refuse
<1>4. ASSUME NEW c \in Callers, Return(c)
      PROVE  \A d \in Callers : InTimeOf(d)'
  <2>1. /\ pc'[c] = "returned" /\ UNCHANGED <<now, timer>>
        /\ \A d \in Callers : d # c => pc'[d] = pc[d] /\ done'[d] = done[d]
    BY <1>0, <1>4, MoveType DEF Return
  <2>2. InTimeOf(c)'
    BY <2>1 DEF InTimeOf
  <2>3. QED
    BY <1>0, <2>1, <2>2, InTimeUnchanged
<1>5. ASSUME NEW c \in Callers, BeginRead(c)
      PROVE  \A d \in Callers : InTimeOf(d)'
  <2>1. /\ ~done[c] /\ pc[c] = "running" /\ pc'[c] = "select"
        /\ UNCHANGED <<now, done, timer>>
        /\ \A d \in Callers : d # c => pc'[d] = pc[d]
    BY <1>5, MoveType DEF BeginRead, Admit
  <2>2. InTimeOf(c)'
    BY <1>0, <1>1, <2>1 DEF InTimeOf
  <2>3. QED
    BY <1>0, <2>1, <2>2, InTimeUnchanged
<1>6. ASSUME NEW c \in Callers, NEW i \in CallIndex, ReadCompletes(c, i)
      PROVE  \A d \in Callers : InTimeOf(d)'
  BY <1>0, <1>6, InTimeUnchanged DEF ReadCompletes
<1>7. ASSUME NEW c \in Callers, NEW i \in CallIndex, Send(c, i)
      PROVE  \A d \in Callers : InTimeOf(d)'
  BY <1>0, <1>7, InTimeUnchanged DEF Send
<1>8. ASSUME NEW c \in Callers, Receive(c)
      PROVE  \A d \in Callers : InTimeOf(d)'
  <2>1. /\ pc[c] = "select" /\ pc'[c] = "running" /\ UNCHANGED <<now, done, timer>>
        /\ \A d \in Callers : d # c => pc'[d] = pc[d]
    BY <1>8, MoveType DEF Receive
  <2>2. InTimeOf(c)'
    BY <1>0, <1>1, <2>1 DEF InTimeOf
  <2>3. QED
    BY <1>0, <2>1, <2>2, InTimeUnchanged
<1>9. ASSUME NEW c \in Callers, Abandon(c)
      PROVE  \A d \in Callers : InTimeOf(d)'
  <2>1. /\ pc[c] = "select" /\ pc'[c] = "running" /\ UNCHANGED <<now, done, timer>>
        /\ \A d \in Callers : d # c => pc'[d] = pc[d]
    BY <1>9, MoveType DEF Abandon
  <2>2. InTimeOf(c)'
    BY <1>0, <1>1, <2>1 DEF InTimeOf
  <2>3. QED
    BY <1>0, <2>1, <2>2, InTimeUnchanged
<1>10. ASSUME NEW c \in Callers, StartCommand(c)
      PROVE  \A d \in Callers : InTimeOf(d)'
  <2>1. /\ ~done[c] /\ pc[c] = "running" /\ pc'[c] = "process"
        /\ timer'[c] = NoTimer /\ UNCHANGED <<now, done>>
        /\ \A d \in Callers : d # c => pc'[d] = pc[d] /\ timer'[d] = timer[d]
    BY <1>0, <1>10, MoveType DEF StartCommand, Admit
  <2>2. InTimeOf(c)'
    BY <1>0, <1>1, <2>1 DEF InTimeOf
  <2>3. QED
    BY <1>0, <2>1, <2>2, InTimeUnchanged
<1>11. ASSUME NEW c \in Callers, Kill(c)
      PROVE  \A d \in Callers : InTimeOf(d)'
  <2>1. /\ pc[c] = "process" /\ timer'[c] = now + WaitDelay /\ UNCHANGED <<now, pc, done>>
        /\ \A d \in Callers : d # c => timer'[d] = timer[d]
    BY <1>0, <1>11 DEF Kill
  <2>2. InTimeOf(c)'
    BY <1>0, <1>1, <2>1 DEF InTimeOf
  <2>3. QED
    BY <1>0, <2>1, <2>2, InTimeUnchanged
<1>12. ASSUME NEW c \in Callers, ProcessWaited(c)
      PROVE  \A d \in Callers : InTimeOf(d)'
  <2>1. /\ pc[c] = "process" /\ pc'[c] = "output" /\ UNCHANGED <<now, done>>
        /\ timer'[c] = IF timer[c] = NoTimer THEN now + WaitDelay ELSE timer[c]
        /\ \A d \in Callers : d # c => pc'[d] = pc[d] /\ timer'[d] = timer[d]
    BY <1>0, <1>12, MoveType DEF ProcessWaited
  <2>2. InTimeOf(c)'
    BY <1>0, <1>1, <2>1 DEF InTimeOf
  <2>3. QED
    BY <1>0, <2>1, <2>2, InTimeUnchanged
<1>13. ASSUME NEW c \in Callers, OutputRead(c)
      PROVE  \A d \in Callers : InTimeOf(d)'
  <2>1. /\ pc[c] = "output" /\ pc'[c] = "running" /\ UNCHANGED <<now, done, timer>>
        /\ \A d \in Callers : d # c => pc'[d] = pc[d]
    BY <1>13, MoveType DEF OutputRead
  <2>2. InTimeOf(c)'
    BY <1>0, <1>1, <2>1 DEF InTimeOf
  <2>3. QED
    BY <1>0, <2>1, <2>2, InTimeUnchanged
<1>14. ASSUME NEW c \in Callers, GiveUp(c)
      PROVE  \A d \in Callers : InTimeOf(d)'
  <2>1. /\ pc[c] = "output" /\ pc'[c] = "running" /\ UNCHANGED <<now, done, timer>>
        /\ \A d \in Callers : d # c => pc'[d] = pc[d]
    BY <1>14, MoveType DEF GiveUp
  <2>2. InTimeOf(c)'
    BY <1>0, <1>1, <2>1 DEF InTimeOf
  <2>3. QED
    BY <1>0, <2>1, <2>2, InTimeUnchanged
<1>15. ASSUME NEW c \in Callers, CommandExits(c) \/ OutputCloses(c)
      PROVE  \A d \in Callers : InTimeOf(d)'
  BY <1>0, <1>15, InTimeUnchanged DEF CommandExits, OutputCloses
<1>16. CASE Tick
  <2>1. now' = now + 1 /\ UNCHANGED <<done, pc, timer>>
    BY <1>16 DEF Tick
  <2>2. ASSUME NEW c \in Callers
        PROVE  InTimeOf(c)'
    <3>1. ~Due(c)
      BY <1>16 DEF Tick
    <3>2. CASE pc[c] = "returned"
      BY <2>1, <3>2 DEF InTimeOf
    <3>3. CASE pc[c] \in {"select", "process"}
      <4>1. ~done[c] /\ now < Deadline
        BY <1>0, <3>1, <3>3 DEF Due, CanAbandon
      <4>2. QED
        BY <1>0, <1>1, <2>1, <3>3, <4>1 DEF InTimeOf
    <3>4. CASE pc[c] = "output"
      <4>1. now < timer[c] /\ (done[c] \/ now < Deadline)
        BY <1>0, <3>1, <3>4 DEF Due, WaitDelayOver
      <4>2. QED
        BY <1>0, <1>1, <2>1, <3>4, <4>1 DEF InTimeOf
    <3>5. pc[c] # "running"
      BY <3>1 DEF Due
    <3>6. QED
      BY <3>2, <3>3, <3>4, <3>5 DEF TypeOK
  <2>3. QED
    BY <2>2
<1>17. CASE UNCHANGED vars
  BY <1>0, <1>17, InTimeUnchanged DEF vars
<1>18. QED
  BY <1>2, <1>3, <1>4, <1>5, <1>6, <1>7, <1>8, <1>9, <1>10, <1>11, <1>12, <1>13, <1>14, <1>15, <1>16, <1>17
  DEF Next, Exporter, Environment, Quiescent

\* The clock never passes the deadline, or the WaitDelay after it, while a run
\* is where it may not be any more (reader.go:57-62, 106-110).
THEOREM InTimeInvariant == Spec => []InTime
<1>1. Init => InTime
  BY ReaderAssumption, DeadlineType DEF Init, InTime, InTimeOf, NoTimer
<1>2. TypeOK /\ InTime /\ [Next]_vars => InTime'
  BY InTimeStep DEF InTime, HasDeadline
<1>3. QED
  BY <1>1, <1>2, TypeCorrect, PTL DEF Spec

\* A collector run is over WaitDelay after its deadline at the latest, for all
\* timeouts, whatever hangs.
THEOREM RunsReturnInTime == Spec => []ReturnsInTime
<1>1. TypeOK /\ InTime => ReturnsInTime
  BY ReaderAssumption, DeadlineType DEF TypeOK, InTime, InTimeOf, ReturnsInTime
<1>2. QED
  BY <1>1, InTimeInvariant, TypeCorrect, PTL
=============================================================================
