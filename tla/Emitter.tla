------------------------------ MODULE Emitter ------------------------------
(***************************************************************************)
(* internal/emitter/emitter.go: Emit and the cache of descriptors behind   *)
(* getDesc.                                                                *)
(*                                                                         *)
(* The goroutines of all collectors of all scrapes call Emit, and share    *)
(* descCache: a Go map, on which a write concurrent with any other access  *)
(* ends the process.  descCacheMu is a sync.RWMutex (external): a goroutine *)
(* that asks for the write lock first keeps new readers out and then waits *)
(* for the ones inside.                                                    *)
(*                                                                         *)
(* Abstractions.  A descriptor is identified with the goroutine whose      *)
(* NewDesc made it.  An observation is its cache key and whether           *)
(* NewConstMetric accepts its label values.                                *)
(***************************************************************************)
EXTENDS Integers, Sequences

CONSTANTS
  Goroutines,  \* collector goroutines, of any scrape
  Keys,        \* keys of descCache
  NoOne,       \* no goroutine, no descriptor
  Mappings     \* what a goroutine may ask Emit to convert

Observation == [key : Keys, valid : BOOLEAN]

ASSUME EmitterAssumption ==
  /\ NoOne \notin Goroutines
  /\ Mappings \subseteq Seq(Observation)

VARIABLES
  pc,        \* pc[g]: where g is in Emit and getDesc
  mapped,    \* mapped[g]: the observations Emit has to convert
  metrics,   \* metrics[g]: the metrics made so far, the return value
  err,       \* err[g]: Emit returned an error
  descCache, \* descCache[k]: the descriptor under k, NoOne if there is none
  readers,   \* goroutines that hold the read lock of descCacheMu
  writer     \* the goroutine that holds or waits for its write lock

lockVars == <<readers, writer>>
vars == <<pc, mapped, metrics, err, descCache, lockVars>>

Metric == [key : Keys, desc : Goroutines]

TypeOK ==
  /\ pc \in [Goroutines -> {"next", "looking", "missed", "waiting", "looking again",
                            "storing", "returned"}]
  /\ mapped \in [Goroutines -> Mappings]
  /\ metrics \in [Goroutines -> Seq(Metric)]
  /\ err \in [Goroutines -> BOOLEAN]
  /\ descCache \in [Keys -> Goroutines \cup {NoOne}]
  /\ readers \subseteq Goroutines
  /\ writer \in Goroutines \cup {NoOne}

Init ==
  /\ pc = [g \in Goroutines |-> "next"]
  /\ mapped \in [Goroutines -> Mappings]
  /\ metrics = [g \in Goroutines |-> <<>>]
  /\ err = [g \in Goroutines |-> FALSE]
  /\ descCache = [k \in Keys |-> NoOne]
  /\ readers = {}
  /\ writer = NoOne

-----------------------------------------------------------------------------
\* The observation that Emit converts next.
Turn(g) == Len(metrics[g]) + 1
Current(g) == mapped[g][Turn(g)]
Cached(g) == descCache[Current(g).key]

\* Mistake: an observation that is refused is left out, and Emit goes on.
SkipInvalid(g, d) ==
  /\ metrics' = [metrics EXCEPT ![g] = Append(@, [key |-> Current(g).key, desc |-> d])]
  /\ pc' = [pc EXCEPT ![g] = "next"]
  /\ UNCHANGED err

\* getDesc returned d: NewConstMetric, which fails on invalid label values, and
\* then Emit returns at once and without the metrics made before.
Convert(g, d) ==
  IF Current(g).valid
  THEN /\ metrics' = [metrics EXCEPT ![g] = Append(@, [key |-> Current(g).key, desc |-> d])]
       /\ pc' = [pc EXCEPT ![g] = "next"]
       /\ UNCHANGED err
  ELSE /\ metrics' = [metrics EXCEPT ![g] = <<>>]
       /\ pc' = [pc EXCEPT ![g] = "returned"]
       /\ err' = [err EXCEPT ![g] = TRUE]

Goto(g, from, to) ==
  /\ pc[g] = from
  /\ pc' = [pc EXCEPT ![g] = to]

\* Mistake: the first look without descCacheMu.RLock.
AlwaysReadLock == TRUE

CanReadLock == writer = NoOne

\* descCacheMu.RLock(), and the look begins.
BeginLook(g) ==
  /\ Goto(g, "next", "looking")
  /\ Turn(g) <= Len(mapped[g])
  /\ CanReadLock
  /\ readers' = readers \cup {g}
  /\ UNCHANGED <<mapped, metrics, err, descCache, writer>>

\* Mistake: d, _ := descCache[key], without the test of ok.
AlwaysPresent(g) == TRUE

\* d, ok := descCache[key]; ok
Present(g) == Cached(g) # NoOne

\* The look ends; descCacheMu.RUnlock().
Hit(g) ==
  /\ pc[g] = "looking"
  /\ Present(g)
  /\ Convert(g, Cached(g))
  /\ readers' = readers \ {g}
  /\ UNCHANGED <<mapped, descCache, writer>>

\* Mistake: a miss waits for another goroutine to store the descriptor.
MissRetries(g) ==
  /\ Goto(g, "looking", "next")
  /\ ~Present(g)
  /\ readers' = readers \ {g}
  /\ UNCHANGED <<mapped, metrics, err, descCache, writer>>

Miss(g) ==
  /\ Goto(g, "looking", "missed")
  /\ ~Present(g)
  /\ readers' = readers \ {g}
  /\ UNCHANGED <<mapped, metrics, err, descCache, writer>>

\* descCacheMu.Lock() announces itself ...
AskWriteLock(g) ==
  /\ Goto(g, "missed", "waiting")
  /\ writer = NoOne
  /\ writer' = g
  /\ UNCHANGED <<mapped, metrics, err, descCache, readers>>

\* ... and returns when the readers have left.
GetWriteLock(g) ==
  /\ Goto(g, "waiting", "looking again")
  /\ readers = {}
  /\ UNCHANGED <<mapped, metrics, err, descCache, lockVars>>

\* Mistake: no second look under the write lock.
NeverSecondHit(g) == FALSE

\* Another goroutine stored the descriptor between the two locks.
StoredMeanwhile(g) == Cached(g) # NoOne

SecondHit(g) ==
  /\ pc[g] = "looking again"
  /\ StoredMeanwhile(g)
  /\ Convert(g, Cached(g))
  /\ writer' = NoOne
  /\ UNCHANGED <<mapped, descCache, readers>>

\* prometheus.NewDesc, and the store begins.
BeginStore(g) ==
  /\ Goto(g, "looking again", "storing")
  /\ ~StoredMeanwhile(g)
  /\ UNCHANGED <<mapped, metrics, err, descCache, lockVars>>

\* The store ends; the deferred descCacheMu.Unlock().
EndStore(g) ==
  /\ pc[g] = "storing"
  /\ descCache' = [descCache EXCEPT ![Current(g).key] = g]
  /\ Convert(g, g)
  /\ writer' = NoOne
  /\ UNCHANGED <<mapped, readers>>

Return(g) ==
  /\ Goto(g, "next", "returned")
  /\ Turn(g) > Len(mapped[g])
  /\ UNCHANGED <<mapped, metrics, err, descCache, lockVars>>

Emit(g) ==
  \/ BeginLook(g)
  \/ Hit(g)
  \/ Miss(g)
  \/ AskWriteLock(g)
  \/ GetWriteLock(g)
  \/ SecondHit(g)
  \/ BeginStore(g)
  \/ EndStore(g)
  \/ Return(g)

Quiescent ==
  /\ \A g \in Goroutines : pc[g] = "returned"
  /\ UNCHANGED vars

Next ==
  \/ \E g \in Goroutines : Emit(g)
  \/ Quiescent

Spec == Init /\ [][Next]_vars

\* Every goroutine runs; sync.RWMutex starves neither readers nor writers.
FairSpec == Spec /\ \A g \in Goroutines : WF_vars(Emit(g))

-----------------------------------------------------------------------------
(* Properties.                                                             *)

Looking == {g \in Goroutines : pc[g] \in {"looking", "looking again"}}
Storing == {g \in Goroutines : pc[g] = "storing"}

\* No goroutine writes the map while another reads or writes it, which the Go
\* runtime punishes with an unrecoverable "concurrent map read and map write"
\* (emitter.go:20-34).
NoConcurrentMapAccess ==
  \A w \in Storing : Looking = {} /\ Storing = {w}

\* However many goroutines miss the same key at once, one descriptor is made
\* for it, and every metric ever made under that key has that one
\* (emitter.go:27-33).
OneDescPerKey ==
  \A g \in Goroutines : \A n \in DOMAIN metrics[g] :
    descCache[metrics[g][n].key] = metrics[g][n].desc

\* Emit returns the metrics of all its observations, or an error and none of
\* them, and the error exactly if one of them is invalid (emitter.go:56-62).
AllOrNothing ==
  \A g \in Goroutines : pc[g] = "returned" =>
    IF \E i \in DOMAIN mapped[g] : ~mapped[g][i].valid
    THEN err[g] /\ metrics[g] = <<>>
    ELSE /\ ~err[g]
         /\ Len(metrics[g]) = Len(mapped[g])
         /\ \A i \in DOMAIN mapped[g] : metrics[g][i].key = mapped[g][i].key

\* Every call of Emit returns: nobody waits for a lock for ever.
EveryEmitReturns == \A g \in Goroutines : <>(pc[g] = "returned")
=============================================================================
