--------------------------- MODULE EmitterProofs ---------------------------
(***************************************************************************)
(* Safety of Emit and getDesc, for any goroutines, keys and observations.  *)
(***************************************************************************)
EXTENDS Emitter, TLAPS

InGetDesc == {"looking", "missed", "waiting", "looking again", "storing"}

\* Who is where in the locked sections is what the lock believes.
LockInv ==
  /\ \A g \in Goroutines : g \in readers <=> pc[g] = "looking"
  /\ \A g \in Goroutines :
       writer = g <=> pc[g] \in {"waiting", "looking again", "storing"}
  /\ \A g \in Goroutines : pc[g] \in {"looking again", "storing"} => readers = {}

\* What Emit has converted, and what it converts now.
ConvertInv ==
  \A g \in Goroutines :
    /\ Len(metrics[g]) <= Len(mapped[g])
    /\ \A n \in 1..Len(metrics[g]) :
         metrics[g][n].key = mapped[g][n].key /\ mapped[g][n].valid
    /\ pc[g] \in InGetDesc => Turn(g) \in 1..Len(mapped[g])
    /\ err[g] => /\ pc[g] = "returned"
                 /\ metrics[g] = <<>>
                 /\ \E i \in DOMAIN mapped[g] : ~mapped[g][i].valid
    /\ pc[g] = "returned" /\ ~err[g] => Len(metrics[g]) = Len(mapped[g])

\* Nothing is stored over a descriptor.
StoreInv == \A g \in Goroutines : pc[g] = "storing" => Cached(g) = NoOne

Inv == TypeOK /\ LockInv /\ ConvertInv /\ StoreInv /\ OneDescPerKey

-----------------------------------------------------------------------------
\* The observation that a goroutine in getDesc converts is one of its list.
LEMMA CurrentTyped ==
  ASSUME TypeOK, ConvertInv, NEW g \in Goroutines, pc[g] \in InGetDesc
  PROVE  /\ Turn(g) \in 1..Len(mapped[g])
         /\ Current(g) \in Observation
         /\ Current(g).key \in Keys
         /\ Current(g).valid \in BOOLEAN
         /\ Current(g) = mapped[g][Len(metrics[g]) + 1]
         /\ Cached(g) \in Goroutines \cup {NoOne}
<1>1. mapped[g] \in Seq(Observation)
  BY EmitterAssumption DEF TypeOK
<1>2. Turn(g) \in 1..Len(mapped[g])
  BY DEF ConvertInv
<1>3. Current(g) \in Observation
  BY <1>1, <1>2 DEF Current
<1>4. Current(g).key \in Keys /\ Current(g).valid \in BOOLEAN
  BY <1>3 DEF Observation
<1> QED
  BY <1>2, <1>3, <1>4 DEF Current, Turn, Cached, TypeOK

\* What Convert does to the goroutine that calls it, given a descriptor.
LEMMA Conversion ==
  ASSUME TypeOK, ConvertInv, NEW g \in Goroutines, pc[g] \in InGetDesc,
         NEW d \in Goroutines, Convert(g, d), UNCHANGED mapped
  PROVE  /\ pc' \in [Goroutines -> {"next", "looking", "missed", "waiting",
                                    "looking again", "storing", "returned"}]
         /\ metrics' \in [Goroutines -> Seq(Metric)]
         /\ err' \in [Goroutines -> BOOLEAN]
         /\ \A h \in Goroutines \ {g} :
              pc'[h] = pc[h] /\ metrics'[h] = metrics[h] /\ err'[h] = err[h]
         /\ pc'[g] \in {"next", "returned"}
         /\ \A n \in DOMAIN metrics'[g] :
              \/ n \in DOMAIN metrics[g] /\ metrics'[g][n] = metrics[g][n]
              \/ metrics'[g][n] = [key |-> Current(g).key, desc |-> d]
         /\ ConvertInv'
<1>1. metrics[g] \in Seq(Metric) /\ err[g] \in BOOLEAN
  BY DEF TypeOK
<1>2. /\ Turn(g) \in 1..Len(mapped[g])
      /\ Current(g).key \in Keys
      /\ Current(g).valid \in BOOLEAN
      /\ Current(g) = mapped[g][Len(metrics[g]) + 1]
  BY CurrentTyped
<1>3. mapped[g] \in Seq(Observation)
  BY EmitterAssumption DEF TypeOK
<1> DEFINE m == [key |-> Current(g).key, desc |-> d]
<1>4. m \in Metric
  BY <1>2 DEF Metric
<1>5. CASE Current(g).valid
  <2>1. /\ metrics' = [metrics EXCEPT ![g] = Append(@, m)]
        /\ pc' = [pc EXCEPT ![g] = "next"]
        /\ err' = err
    BY <1>5 DEF Convert
  <2>2. Append(metrics[g], m) \in Seq(Metric)
    BY <1>1, <1>4
  <2>3. metrics'[g] = Append(metrics[g], m) /\ pc'[g] = "next"
    BY <2>1 DEF TypeOK
  <2>4. /\ Len(metrics'[g]) = Len(metrics[g]) + 1
        /\ metrics'[g][Len(metrics[g]) + 1] = m
        /\ \A n \in 1..Len(metrics[g]) : metrics'[g][n] = metrics[g][n]
        /\ DOMAIN metrics'[g] = 1..Len(metrics[g]) + 1
    BY <2>3, <1>1, <1>4
  <2>5. \A h \in Goroutines \ {g} : pc'[h] = pc[h] /\ metrics'[h] = metrics[h]
    BY <2>1 DEF TypeOK
  <2>6. ~err[g]
    BY DEF ConvertInv, InGetDesc
  <2>7. Len(metrics[g]) + 1 <= Len(mapped[g])
    BY <1>1, <1>2, <1>3 DEF Turn
  <2>8. \A n \in 1..Len(metrics[g]) + 1 :
           metrics'[g][n].key = mapped[g][n].key /\ mapped[g][n].valid
    <3>1. m.key = mapped[g][Len(metrics[g]) + 1].key /\ mapped[g][Len(metrics[g]) + 1].valid
      BY <1>2, <1>5
    <3>2. \A n \in 1..Len(metrics[g]) :
             metrics'[g][n].key = mapped[g][n].key /\ mapped[g][n].valid
      BY <2>4 DEF ConvertInv
    <3>3. metrics'[g][Len(metrics[g]) + 1].key = mapped[g][Len(metrics[g]) + 1].key
      BY <2>4, <3>1
    <3>4. Len(metrics[g]) \in Nat
      BY <1>1
    <3> HIDE DEF m
    <3>5. \A n \in 1..Len(metrics[g]) + 1 :
            n \in 1..Len(metrics[g]) \/ n = Len(metrics[g]) + 1
      BY <3>4
    <3> QED
      BY <3>1, <3>2, <3>3, <3>5, Zenon
  <2>9. ConvertInv'
    <3> SUFFICES ASSUME NEW h \in Goroutines
                 PROVE  /\ Len(metrics'[h]) <= Len(mapped[h])
                        /\ \A n \in 1..Len(metrics'[h]) :
                             metrics'[h][n].key = mapped[h][n].key /\ mapped[h][n].valid
                        /\ pc'[h] \in InGetDesc => Turn(h)' \in 1..Len(mapped[h])
                        /\ err[h] => /\ pc'[h] = "returned"
                                     /\ metrics'[h] = <<>>
                                     /\ \E i \in DOMAIN mapped[h] : ~mapped[h][i].valid
                        /\ pc'[h] = "returned" /\ ~err[h] => Len(metrics'[h]) = Len(mapped[h])
      BY <2>1 DEF ConvertInv
    <3>1. CASE h = g
      BY <3>1, <2>3, <2>4, <2>6, <2>7, <2>8 DEF InGetDesc
    <3>2. CASE h # g
      BY <3>2, <2>5 DEF ConvertInv, Turn
    <3> QED
      BY <3>1, <3>2
  <2>10. /\ pc' \in [Goroutines -> {"next", "looking", "missed", "waiting",
                                      "looking again", "storing", "returned"}]
         /\ metrics' \in [Goroutines -> Seq(Metric)]
         /\ err' \in [Goroutines -> BOOLEAN]
    BY <2>1, <2>2 DEF TypeOK
  <2>11. \A n \in DOMAIN metrics'[g] :
           \/ n \in DOMAIN metrics[g] /\ metrics'[g][n] = metrics[g][n]
           \/ metrics'[g][n] = m
    BY <2>4, <1>1
  <2>12. \A h \in Goroutines \ {g} : err'[h] = err[h]
    BY <2>1
  <2> QED
    BY <2>3, <2>5, <2>9, <2>10, <2>11, <2>12
<1>6. CASE ~Current(g).valid
  <2>1. /\ metrics' = [metrics EXCEPT ![g] = <<>>]
        /\ pc' = [pc EXCEPT ![g] = "returned"]
        /\ err' = [err EXCEPT ![g] = TRUE]
    BY <1>6 DEF Convert
  <2>2. metrics'[g] = <<>> /\ pc'[g] = "returned" /\ err'[g] = TRUE
    BY <2>1 DEF TypeOK
  <2>3. \A h \in Goroutines \ {g} :
           pc'[h] = pc[h] /\ metrics'[h] = metrics[h] /\ err'[h] = err[h]
    BY <2>1 DEF TypeOK
  <2>4. \E i \in DOMAIN mapped[g] : ~mapped[g][i].valid
    BY <1>2, <1>3, <1>6 DEF Turn
  <2>5. <<>> \in Seq(Metric) /\ Len(<<>>) = 0 /\ DOMAIN metrics'[g] = {}
    BY <2>2
  <2>6. ConvertInv'
    <3> SUFFICES ASSUME NEW h \in Goroutines
                 PROVE  /\ Len(metrics'[h]) <= Len(mapped[h])
                        /\ \A n \in 1..Len(metrics'[h]) :
                             metrics'[h][n].key = mapped[h][n].key /\ mapped[h][n].valid
                        /\ pc'[h] \in InGetDesc => Turn(h)' \in 1..Len(mapped[h])
                        /\ err'[h] => /\ pc'[h] = "returned"
                                      /\ metrics'[h] = <<>>
                                      /\ \E i \in DOMAIN mapped[h] : ~mapped[h][i].valid
                        /\ pc'[h] = "returned" /\ ~err'[h] => Len(metrics'[h]) = Len(mapped[h])
      BY DEF ConvertInv
    <3>1. CASE h = g
      <4>1. Len(mapped[g]) \in Nat
        BY <1>3
      <4>2. Len(metrics'[g]) = 0 /\ err'[g] /\ metrics'[g] = <<>> /\ pc'[g] = "returned"
        BY <2>2, <2>5
      <4>a. Len(metrics'[g]) = 0
        BY <4>2
      <4>b. 1..Len(metrics'[g]) = {}
        BY <4>a
      <4>3. 1..Len(metrics'[g]) = {} /\ "returned" \notin InGetDesc
        BY <4>b DEF InGetDesc
      <4>4. Len(metrics'[g]) <= Len(mapped[g])
        BY <4>1, <4>2
      <4>5. \A n \in 1..Len(metrics'[g]) :
               metrics'[g][n].key = mapped[g][n].key /\ mapped[g][n].valid
        BY <4>3
      <4>6. ~(pc'[g] \in InGetDesc)
        BY <4>2, <4>3
      <4> QED
        BY <3>1, <2>4, <4>2, <4>4, <4>5, <4>6, Zenon
    <3>2. CASE h # g
      BY <3>2, <2>3 DEF ConvertInv, Turn
    <3> QED
      BY <3>1, <3>2
  <2> QED
    BY <2>1, <2>2, <2>3, <2>5, <2>6 DEF TypeOK
<1> QED
  BY <1>2, <1>5, <1>6

\* Convert keeps one descriptor per key if the one it is given is cached and
\* no cached one is replaced.
LEMMA ConversionKeepsDescs ==
  ASSUME TypeOK, ConvertInv, OneDescPerKey, NEW g \in Goroutines, pc[g] \in InGetDesc,
         NEW d \in Goroutines, Convert(g, d), UNCHANGED mapped,
         descCache'[Current(g).key] = d,
         \A k \in Keys : descCache[k] # NoOne => descCache'[k] = descCache[k]
  PROVE  OneDescPerKey'
<1>1. /\ \A h \in Goroutines \ {g} : metrics'[h] = metrics[h]
      /\ \A n \in DOMAIN metrics'[g] :
           \/ n \in DOMAIN metrics[g] /\ metrics'[g][n] = metrics[g][n]
           \/ metrics'[g][n] = [key |-> Current(g).key, desc |-> d]
  BY Conversion
<1>2. \A h \in Goroutines : \A n \in DOMAIN metrics[h] :
         descCache'[metrics[h][n].key] = metrics[h][n].desc
  <2> SUFFICES ASSUME NEW h \in Goroutines, NEW n \in DOMAIN metrics[h]
               PROVE  descCache'[metrics[h][n].key] = metrics[h][n].desc
    OBVIOUS
  <2>1. metrics[h][n] \in Metric
    <3>1. metrics[h] \in Seq(Metric)
      BY DEF TypeOK
    <3> QED
      BY <3>1
  <2>2. metrics[h][n].key \in Keys /\ metrics[h][n].desc # NoOne
    BY <2>1, EmitterAssumption DEF Metric
  <2> QED
    BY <2>2 DEF OneDescPerKey
<1> QED
  BY <1>1, <1>2 DEF OneDescPerKey

-----------------------------------------------------------------------------
\* The invariant holds before the first call of Emit.
LEMMA InitInv == Init => Inv
<1> SUFFICES ASSUME Init PROVE Inv
  OBVIOUS
<1>1. \A g \in Goroutines : mapped[g] \in Seq(Observation)
  BY EmitterAssumption DEF Init
<1>2. ASSUME NEW g \in Goroutines PROVE Len(mapped[g]) \in Nat
  <2>1. mapped[g] \in Seq(Observation)
    BY <1>1
  <2> QED
    BY <2>1
<1>3. ASSUME NEW g \in Goroutines
      PROVE  metrics[g] = <<>> /\ Len(metrics[g]) = 0 /\ DOMAIN metrics[g] = {}
  <2>1. metrics[g] = <<>>
    BY DEF Init
  <2> QED
    BY <2>1
<1>4. TypeOK
  BY DEF Init, TypeOK
<1>5. LockInv
  BY EmitterAssumption DEF Init, LockInv
<1>6. ConvertInv
  <2> SUFFICES ASSUME NEW g \in Goroutines
               PROVE  /\ Len(metrics[g]) <= Len(mapped[g])
                      /\ \A n \in 1..Len(metrics[g]) :
                           metrics[g][n].key = mapped[g][n].key /\ mapped[g][n].valid
                      /\ pc[g] = "next" /\ ~err[g]
    BY DEF ConvertInv, InGetDesc
  <2>1. Len(metrics[g]) <= Len(mapped[g]) /\ 1..Len(metrics[g]) = {}
    BY <1>2, <1>3
  <2> QED
    BY <2>1 DEF Init
<1>7. StoreInv
  BY DEF Init, StoreInv
<1>8. OneDescPerKey
  BY <1>3 DEF OneDescPerKey
<1> QED
  BY <1>4, <1>5, <1>6, <1>7, <1>8 DEF Inv

\* The steps that move one goroutine between the states of getDesc, convert
\* nothing and leave the cache alone.
LEMMA MoveKeeps ==
  ASSUME TypeOK, ConvertInv, StoreInv, OneDescPerKey, NEW g \in Goroutines,
         NEW p \in InGetDesc \cup {"returned"}, pc' = [pc EXCEPT ![g] = p],
         UNCHANGED <<mapped, metrics, err, descCache>>, ~err[g],
         p = "storing" => Cached(g) = NoOne,
         p \in InGetDesc => Turn(g) \in 1..Len(mapped[g]),
         p = "returned" => Len(metrics[g]) = Len(mapped[g])
  PROVE  /\ pc' \in [Goroutines -> {"next", "looking", "missed", "waiting",
                                     "looking again", "storing", "returned"}]
         /\ ConvertInv'
         /\ StoreInv'
         /\ OneDescPerKey'
<1>1. pc'[g] = p /\ \A h \in Goroutines \ {g} : pc'[h] = pc[h]
  BY DEF TypeOK
<1>2. ConvertInv'
  <2>1. ASSUME NEW h \in Goroutines
        PROVE  /\ pc'[h] \in InGetDesc => Turn(h) \in 1..Len(mapped[h])
               /\ err[h] => pc'[h] = "returned"
               /\ pc'[h] = "returned" /\ ~err[h] => Len(metrics[h]) = Len(mapped[h])
    <3>1. CASE h = g
      <4>1. p \in InGetDesc => p # "returned"
        BY DEF InGetDesc
      <4>2. QED
        BY <1>1, <3>1, <4>1
    <3>2. CASE h # g
      BY <1>1, <3>2 DEF ConvertInv
    <3>3. QED
      BY <3>1, <3>2
  <2>2. metrics' = metrics /\ mapped' = mapped /\ err' = err
    OBVIOUS
  <2>3. \A h \in Goroutines : Turn(h)' = Turn(h)
    BY <2>2 DEF Turn
  <2>4. ASSUME NEW h \in Goroutines
        PROVE  /\ Len(metrics'[h]) <= Len(mapped'[h])
               /\ \A n \in 1..Len(metrics'[h]) :
                    metrics'[h][n].key = mapped'[h][n].key /\ mapped'[h][n].valid
               /\ err'[h] => /\ metrics'[h] = <<>>
                             /\ \E i \in DOMAIN mapped'[h] : ~mapped'[h][i].valid
    BY <2>2 DEF ConvertInv
  <2>5. ASSUME NEW h \in Goroutines
        PROVE  /\ pc'[h] \in InGetDesc => Turn(h)' \in 1..Len(mapped'[h])
               /\ err'[h] => pc'[h] = "returned"
               /\ pc'[h] = "returned" /\ ~err'[h] => Len(metrics'[h]) = Len(mapped'[h])
    BY <2>1, <2>2, <2>3, Zenon
  <2>6. QED
    BY <2>4, <2>5, Zenon DEF ConvertInv
<1>3. StoreInv'
  BY <1>1 DEF StoreInv, Cached, Current, Turn
<1>4. OneDescPerKey'
  BY DEF OneDescPerKey
<1> QED
  BY <1>2, <1>3, <1>4 DEF TypeOK, InGetDesc

\* Every step of Emit and getDesc keeps the invariant.
LEMMA StepInv == Inv /\ [Next]_vars => Inv'
<1> SUFFICES ASSUME Inv, [Next]_vars PROVE Inv'
  OBVIOUS
<1> USE EmitterAssumption
<1>0. TypeOK /\ LockInv /\ ConvertInv /\ StoreInv /\ OneDescPerKey
  BY DEF Inv
<1>a. ASSUME NEW g \in Goroutines PROVE pc[g] # "returned" => ~err[g]
  BY <1>0 DEF ConvertInv
<1>b. ASSUME NEW g \in Goroutines
      PROVE  Len(metrics[g]) \in Nat /\ Len(mapped[g]) \in Nat
  <2>1. metrics[g] \in Seq(Metric) /\ mapped[g] \in Seq(Observation)
    BY <1>0 DEF TypeOK
  <2> QED
    BY <2>1
<1>1. ASSUME NEW g \in Goroutines, BeginLook(g) PROVE Inv'
  <2>1. Turn(g) \in 1..Len(mapped[g])
    BY <1>1, <1>b DEF BeginLook, Turn
  <2>2. ConvertInv' /\ StoreInv' /\ OneDescPerKey' /\ TypeOK'
    BY <1>0, <1>1, <1>a, <2>1, MoveKeeps DEF BeginLook, Goto, InGetDesc, TypeOK
  <2>3. LockInv'
    BY <1>0, <1>1 DEF BeginLook, Goto, LockInv, TypeOK, CanReadLock
  <2> QED
    BY <2>2, <2>3 DEF Inv
<1>2. ASSUME NEW g \in Goroutines, Miss(g) PROVE Inv'
  <2>1. Turn(g) \in 1..Len(mapped[g])
    BY <1>0, <1>2 DEF ConvertInv, InGetDesc, Miss, Goto
  <2>2. ConvertInv' /\ StoreInv' /\ OneDescPerKey' /\ TypeOK'
    BY <1>0, <1>2, <1>a, <2>1, MoveKeeps DEF Miss, Goto, InGetDesc, TypeOK
  <2>3. LockInv'
    BY <1>0, <1>2 DEF Miss, Goto, LockInv, TypeOK
  <2> QED
    BY <2>2, <2>3 DEF Inv
<1>3. ASSUME NEW g \in Goroutines, AskWriteLock(g) PROVE Inv'
  <2>1. Turn(g) \in 1..Len(mapped[g])
    BY <1>0, <1>3 DEF ConvertInv, InGetDesc, AskWriteLock, Goto
  <2>2. ConvertInv' /\ StoreInv' /\ OneDescPerKey' /\ TypeOK'
    BY <1>0, <1>3, <1>a, <2>1, MoveKeeps DEF AskWriteLock, Goto, InGetDesc, TypeOK
  <2>3. LockInv'
    BY <1>0, <1>3 DEF AskWriteLock, Goto, LockInv, TypeOK
  <2> QED
    BY <2>2, <2>3 DEF Inv
<1>4. ASSUME NEW g \in Goroutines, GetWriteLock(g) PROVE Inv'
  <2>1. Turn(g) \in 1..Len(mapped[g])
    BY <1>0, <1>4 DEF ConvertInv, InGetDesc, GetWriteLock, Goto
  <2>2. ConvertInv' /\ StoreInv' /\ OneDescPerKey' /\ TypeOK'
    BY <1>0, <1>4, <1>a, <2>1, MoveKeeps DEF GetWriteLock, Goto, InGetDesc, TypeOK, lockVars
  <2>3. LockInv'
    BY <1>0, <1>4 DEF GetWriteLock, Goto, LockInv, TypeOK, lockVars
  <2> QED
    BY <2>2, <2>3 DEF Inv
<1>5. ASSUME NEW g \in Goroutines, BeginStore(g) PROVE Inv'
  <2>1. Turn(g) \in 1..Len(mapped[g]) /\ Cached(g) = NoOne
    BY <1>0, <1>5 DEF ConvertInv, InGetDesc, BeginStore, Goto, StoredMeanwhile
  <2>2. ConvertInv' /\ StoreInv' /\ OneDescPerKey' /\ TypeOK'
    BY <1>0, <1>5, <1>a, <2>1, MoveKeeps DEF BeginStore, Goto, InGetDesc, TypeOK, lockVars
  <2>3. LockInv'
    BY <1>0, <1>5 DEF BeginStore, Goto, LockInv, TypeOK, lockVars
  <2> QED
    BY <2>2, <2>3 DEF Inv
<1>6. ASSUME NEW g \in Goroutines, Return(g) PROVE Inv'
  <2>1. Len(metrics[g]) = Len(mapped[g])
    BY <1>0, <1>6, <1>b DEF ConvertInv, Return, Turn
  <2>2. ConvertInv' /\ StoreInv' /\ OneDescPerKey' /\ TypeOK'
    BY <1>0, <1>6, <1>a, <2>1, MoveKeeps DEF Return, Goto, InGetDesc, TypeOK, lockVars
  <2>3. LockInv'
    BY <1>0, <1>6 DEF Return, Goto, LockInv, TypeOK, lockVars
  <2> QED
    BY <2>2, <2>3 DEF Inv
<1>7. ASSUME NEW g \in Goroutines, Hit(g) \/ SecondHit(g) PROVE Inv'
  <2> DEFINE d == Cached(g)
  <2>1. /\ pc[g] \in {"looking", "looking again"}
        /\ d # NoOne
        /\ Convert(g, d)
        /\ UNCHANGED <<mapped, descCache>>
    BY <1>7 DEF Hit, SecondHit, Present, StoredMeanwhile
  <2>2. d \in Goroutines /\ Current(g).key \in Keys
    BY <1>0, <2>1, CurrentTyped DEF InGetDesc
  <2>3. /\ pc' \in [Goroutines -> {"next", "looking", "missed", "waiting",
                                    "looking again", "storing", "returned"}]
        /\ metrics' \in [Goroutines -> Seq(Metric)]
        /\ err' \in [Goroutines -> BOOLEAN]
        /\ \A h \in Goroutines \ {g} : pc'[h] = pc[h] /\ metrics'[h] = metrics[h]
        /\ pc'[g] \in {"next", "returned"}
        /\ ConvertInv'
    BY <1>0, <2>1, <2>2, Conversion DEF InGetDesc
  <2>4. OneDescPerKey'
    BY <1>0, <2>1, <2>2, ConversionKeepsDescs DEF InGetDesc, Cached
  <2>5. TypeOK'
    BY <1>0, <1>7, <2>1, <2>3 DEF TypeOK, Hit, SecondHit
  <2>6. StoreInv'
    BY <1>0, <2>1, <2>3 DEF StoreInv, Cached, Current, Turn
  <2>7. LockInv'
    <3>1. CASE Hit(g)
      BY <1>0, <3>1, <2>3 DEF Hit, LockInv, TypeOK
    <3>2. CASE SecondHit(g)
      BY <1>0, <3>2, <2>3 DEF SecondHit, LockInv, TypeOK
    <3> QED
      BY <1>7, <3>1, <3>2
  <2> QED
    BY <2>3, <2>4, <2>5, <2>6, <2>7 DEF Inv
<1>8. ASSUME NEW g \in Goroutines, EndStore(g) PROVE Inv'
  <2>1. /\ pc[g] = "storing"
        /\ descCache' = [descCache EXCEPT ![Current(g).key] = g]
        /\ Convert(g, g)
        /\ writer' = NoOne
        /\ UNCHANGED <<mapped, readers>>
    BY <1>8 DEF EndStore
  <2>2. Current(g).key \in Keys
    BY <1>0, <2>1, CurrentTyped DEF InGetDesc
  <2>3. /\ pc' \in [Goroutines -> {"next", "looking", "missed", "waiting",
                                    "looking again", "storing", "returned"}]
        /\ metrics' \in [Goroutines -> Seq(Metric)]
        /\ err' \in [Goroutines -> BOOLEAN]
        /\ \A h \in Goroutines \ {g} : pc'[h] = pc[h] /\ metrics'[h] = metrics[h]
        /\ pc'[g] \in {"next", "returned"}
        /\ ConvertInv'
    BY <1>0, <2>1, Conversion DEF InGetDesc
  <2>4. OneDescPerKey'
    <3>1. descCache'[Current(g).key] = g /\ descCache[Current(g).key] = NoOne
      BY <1>0, <2>1, <2>2 DEF TypeOK, StoreInv, Cached
    <3>2. \A k \in Keys : descCache[k] # NoOne => descCache'[k] = descCache[k]
      BY <1>0, <2>1, <2>2, <3>1 DEF TypeOK
    <3> QED
      BY <1>0, <2>1, <3>1, <3>2, ConversionKeepsDescs DEF InGetDesc
  <2>5. TypeOK'
    BY <1>0, <2>1, <2>2, <2>3 DEF TypeOK
  <2>6. \A h \in Goroutines : pc'[h] # "storing"
    BY <1>0, <2>1, <2>3 DEF LockInv
  <2>7. StoreInv'
    BY <2>6 DEF StoreInv
  <2>8. LockInv'
    BY <1>0, <2>1, <2>3 DEF LockInv, TypeOK
  <2> QED
    BY <2>3, <2>4, <2>5, <2>7, <2>8 DEF Inv
<1>9. CASE UNCHANGED vars
  <2>1. TypeOK' /\ LockInv'
    BY <1>0, <1>9 DEF vars, lockVars, TypeOK, LockInv
  <2>2. ConvertInv'
    BY <1>0, <1>9 DEF vars, lockVars, ConvertInv, Turn
  <2>3. StoreInv' /\ OneDescPerKey'
    BY <1>0, <1>9 DEF vars, lockVars, StoreInv, OneDescPerKey, Cached, Current, Turn
  <2> QED
    BY <2>1, <2>2, <2>3 DEF Inv
<1> QED
  BY <1>1, <1>2, <1>3, <1>4, <1>5, <1>6, <1>7, <1>8, <1>9 DEF Next, Emit, Quiescent

-----------------------------------------------------------------------------
\* The lock, the lists and the cache of getDesc and Emit agree at all times
\* (emitter.go:18-63).
THEOREM Invariance == Spec => []Inv
<1>1. Init => Inv
  BY InitInv
<1>2. Inv /\ [Next]_vars => Inv'
  BY StepInv
<1> QED
  BY <1>1, <1>2, PTL DEF Spec

\* The types of the emitter's state, for any goroutines and observations.
THEOREM TypeCorrect == Spec => []TypeOK
<1>1. Inv => TypeOK
  BY DEF Inv
<1> QED
  BY <1>1, Invariance, PTL

\* descCache is never written while it is read or written (emitter.go:20-34).
THEOREM MapIsNeverRaced == Spec => []NoConcurrentMapAccess
<1>1. Inv => NoConcurrentMapAccess
  BY DEF Inv, LockInv, NoConcurrentMapAccess, Looking, Storing
<1> QED
  BY <1>1, Invariance, PTL

\* All metrics of one key have one descriptor (emitter.go:27-33).
THEOREM DescriptorsAreUnique == Spec => []OneDescPerKey
<1>1. Inv => OneDescPerKey
  BY DEF Inv
<1> QED
  BY <1>1, Invariance, PTL

\* Emit returns everything or an error (emitter.go:56-62).
THEOREM EmitIsAllOrNothing == Spec => []AllOrNothing
<1>1. Inv => AllOrNothing
  <2> SUFFICES ASSUME Inv, NEW g \in Goroutines, pc[g] = "returned"
               PROVE  IF \E i \in DOMAIN mapped[g] : ~mapped[g][i].valid
                      THEN err[g] /\ metrics[g] = <<>>
                      ELSE /\ ~err[g]
                           /\ Len(metrics[g]) = Len(mapped[g])
                           /\ \A i \in DOMAIN mapped[g] :
                                metrics[g][i].key = mapped[g][i].key
    BY DEF AllOrNothing
  <2>1. TypeOK /\ ConvertInv
    BY DEF Inv
  <2>2. mapped[g] \in Seq(Observation) /\ metrics[g] \in Seq(Metric)
    BY <2>1, EmitterAssumption DEF TypeOK
  <2>3. DOMAIN mapped[g] = 1..Len(mapped[g])
    BY <2>2
  <2>4. CASE err[g]
    BY <2>1, <2>4 DEF ConvertInv
  <2>5. CASE ~err[g]
    BY <2>1, <2>3, <2>5 DEF ConvertInv
  <2> QED
    BY <2>4, <2>5
<1> QED
  BY <1>1, Invariance, PTL
=============================================================================
