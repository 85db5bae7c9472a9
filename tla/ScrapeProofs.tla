---------------------------- MODULE ScrapeProofs ----------------------------
(***************************************************************************)
(* Theorems about Scrape.  A scrape is one step, so that what has to be    *)
(* proved is what the parsers and collectors compute: first lemmas about   *)
(* lists and folds, then what each operator between a file and the         *)
(* observations of the client collector keeps.                             *)
(***************************************************************************)
EXTENDS Scrape, FiniteSetTheorems, TLAPS

-----------------------------------------------------------------------------
(* Numbers and lists.                                                      *)

\* A set of naturals has a least element.
LEMMA Least ==
  ASSUME NEW T, T \subseteq Nat, T # {}
  PROVE  \E x \in T : \A y \in T : x <= y
<1>1. PICK F : F = {0..n : n \in T}
  BY Zenon
<1>2. F \subseteq FiniteSubsetsOf(Nat)
  <2>1. ASSUME NEW n \in T
        PROVE  0..n \in SUBSET Nat /\ IsFiniteSet(0..n)
    <3>1. n \in Int /\ 0 \in Int
      OBVIOUS
    <3>2. QED
      BY <3>1, FS_Interval
  <2>2. QED
    BY <1>1, <2>1 DEF FiniteSubsetsOf
<1>3. F # {}
  BY <1>1
<1>4. IsWellFoundedOn(StrictSubsetOrdering(Nat), FiniteSubsetsOf(Nat))
  BY FS_StrictSubsetOrderingWellFounded, Zenon
<1>5. PICK S \in F : \A U \in F : <<U, S>> \notin StrictSubsetOrdering(Nat)
  BY <1>2, <1>3, <1>4, WFMin, Zenon
<1>6. PICK n \in T : S = 0..n
  BY <1>1
<1>7. ASSUME NEW m \in T, ~ (n <= m)
      PROVE  FALSE
  <2>1. 0..m \in F
    BY <1>1
  <2>2. 0..m \subseteq 0..n /\ 0..m # 0..n
    BY <1>7
  <2>3. 0..m \in SUBSET Nat /\ 0..n \in SUBSET Nat
    OBVIOUS
  <2>4. <<0..m, 0..n>> \in StrictSubsetOrdering(Nat)
    BY <2>2, <2>3 DEF StrictSubsetOrdering
  <2>5. QED
    BY <1>5, <1>6, <2>1, <2>4, Zenon
<1>8. QED
  BY <1>7

\* Induction over the natural numbers, for a set.
LEMMA SetInduction ==
  ASSUME NEW L, 0 \in L, \A n \in Nat : n \in L => n + 1 \in L
  PROVE  Nat \subseteq L
<1>1. SUFFICES ASSUME NEW k \in Nat, k \notin L
               PROVE  FALSE
  OBVIOUS
<1>2. PICK x \in {n \in Nat : n \notin L} : \A y \in {n \in Nat : n \notin L} : x <= y
  BY <1>1, Least
<1>3. x # 0 /\ x - 1 \in Nat
  BY <1>2
<1>4. x - 1 \in L
  BY <1>2, <1>3
<1>5. QED
  BY <1>2, <1>3, <1>4

\* The greatest of some positions of a list.
LEMMA Greatest ==
  ASSUME NEW n \in Nat, NEW T, T \subseteq 1..n, T # {}
  PROVE  Max(T) \in T /\ \A y \in T : Max(T) >= y
<1>1. PICK B : B = {k \in Nat : \A y \in T : k >= y}
  OBVIOUS
<1>2. n \in B /\ B \subseteq Nat
  BY <1>1
<1>3. PICK x \in B : \A y \in B : x <= y
  BY <1>2, Least, Zenon
<1>4. x \in T
  <2>1. SUFFICES ASSUME x \notin T
                 PROVE  FALSE
    OBVIOUS
  <2>2. x # 0 /\ x - 1 \in Nat
    <3>1. PICK y \in T : TRUE
      OBVIOUS
    <3>2. y \in 1..n /\ x >= y /\ x \in Nat
      BY <1>1, <1>2, <1>3, <3>1
    <3>3. QED
      BY <3>2
  <2>3. x - 1 \in B
    BY <1>1, <2>1, <2>2
  <2>4. QED
    BY <1>2, <1>3, <2>2, <2>3
<1>5. \A y \in T : x >= y
  BY <1>1
<1>6. QED
  BY <1>4, <1>5 DEF Max

\* The greatest position is the one that no other exceeds.
LEMMA GreatestIs ==
  ASSUME NEW n \in Nat, NEW T, T \subseteq 1..n, NEW x \in T, \A y \in T : x >= y
  PROVE  Max(T) = x
<1>1. PICK m : m = Max(T)
  OBVIOUS
<1>2. m \in T /\ m >= x /\ x >= m
  BY <1>1, Greatest
<1>3. m \in 1..n /\ x \in 1..n
  BY <1>2
<1>4. QED
  BY <1>1, <1>2, <1>3

\* Two sequences, position by position.
LEMMA ConcatPositions ==
  ASSUME NEW V, NEW s \in Seq(V), NEW t \in Seq(V)
  PROVE  /\ Len(s \o t) = Len(s) + Len(t)
         /\ DOMAIN (s \o t) = 1..(Len(s) + Len(t))
         /\ \A i \in 1..(Len(s) + Len(t)) :
              (s \o t)[i] = IF i <= Len(s) THEN s[i] ELSE t[i - Len(s)]
OBVIOUS

\* The members of two sequences, one after the other.
LEMMA ConcatMembers ==
  ASSUME NEW V, NEW s \in Seq(V), NEW t \in Seq(V)
  PROVE  /\ s \o t \in Seq(V)
         /\ ToSet(s \o t) = ToSet(s) \cup ToSet(t)
<1>1. /\ Len(s) \in Nat /\ Len(t) \in Nat
      /\ DOMAIN s = 1..Len(s) /\ DOMAIN t = 1..Len(t)
      /\ s \o t \in Seq(V) /\ DOMAIN (s \o t) = 1..(Len(s) + Len(t))
  OBVIOUS
<1>2. \A i \in 1..Len(s) : (s \o t)[i] = s[i]
  BY <1>1
<1>3. \A i \in 1..Len(t) : (s \o t)[Len(s) + i] = t[i] /\ Len(s) + i \in 1..(Len(s) + Len(t))
  BY <1>1
<1>4. ASSUME NEW i \in 1..(Len(s) + Len(t))
      PROVE  (s \o t)[i] \in ToSet(s) \cup ToSet(t)
  <2>1. CASE i <= Len(s)
    BY <2>1, <1>1, <1>2 DEF ToSet
  <2>2. CASE ~(i <= Len(s))
    <3>1. i - Len(s) \in 1..Len(t) /\ Len(s) + (i - Len(s)) = i
      BY <1>1, <2>2
    <3>2. (s \o t)[i] = t[i - Len(s)]
      BY <3>1, <1>3
    <3>3. QED
      BY <3>1, <3>2, <1>1 DEF ToSet
  <2>3. QED
    BY <2>1, <2>2
<1>5. ToSet(s \o t) \subseteq ToSet(s) \cup ToSet(t)
  BY <1>1, <1>4 DEF ToSet
<1>6. ToSet(s) \subseteq ToSet(s \o t)
  BY <1>1, <1>2 DEF ToSet
<1>7. ToSet(t) \subseteq ToSet(s \o t)
  BY <1>1, <1>3 DEF ToSet
<1>8. QED
  BY <1>1, <1>5, <1>6, <1>7

\* FlattenSeq keeps exactly the members of the sequences.
LEMMA FlattenMembers ==
  ASSUME NEW V, NEW ss \in Seq(Seq(V))
  PROVE  /\ FlattenSeq(ss) \in Seq(V)
         /\ ToSet(FlattenSeq(ss)) = UNION {ToSet(ss[i]) : i \in DOMAIN ss}
<1>1. CASE Len(ss) = 0
  <2>1. ss = <<>> /\ FlattenSeq(ss) = ss
    BY <1>1 DEF FlattenSeq
  <2>2. <<>> \in Seq(V) /\ DOMAIN <<>> = {}
    OBVIOUS
  <2>3. ToSet(FlattenSeq(ss)) = {} /\ DOMAIN ss = {}
    BY <2>1, <2>2 DEF ToSet
  <2>4. QED
    BY <2>1, <2>2, <2>3
<1>2. CASE Len(ss) # 0
  <2>1. PICK n : n = Len(ss)
    OBVIOUS
  <2>2. n \in Nat /\ n # 0 /\ DOMAIN ss = 1..n /\ \A i \in 1..n : ss[i] \in Seq(V)
    BY <1>2, <2>1
  <2> DEFINE Step(g, i) == IF i = 1 THEN ss[i] ELSE g[i - 1] \o ss[i]
             Flat(g, k) == g \in [1..k -> Seq(V)] /\ \A i \in 1..k : g[i] = Step(g, i)
             L == {k \in Nat : k \in 1..n => \E g : Flat(g, k)}
  <2>3. 0 \in L
    OBVIOUS
  <2>4. ASSUME NEW k \in Nat, k \in L
        PROVE  k + 1 \in L
    <3>1. SUFFICES ASSUME k + 1 \in 1..n
                   PROVE  \E g : Flat(g, k + 1)
      <4> HIDE DEF Flat
      <4>1. QED
        OBVIOUS
    <3>2. CASE k = 0
      <4>1. Flat([i \in 1..1 |-> ss[i]], 1)
        BY <2>2
      <4>2. k + 1 = 1
        BY <3>2
      <4> HIDE DEF Flat
      <4>3. QED
        BY <4>1, <4>2, Zenon
    <3>3. CASE k # 0
      <4>1. k \in 1..n
        BY <2>2, <3>1, <3>3
      <4>2. PICK g : Flat(g, k)
        BY <2>4, <4>1
      <4>3. PICK h : h = [i \in 1..(k + 1) |-> IF i = k + 1 THEN g[k] \o ss[i] ELSE g[i]]
        OBVIOUS
      <4>4. \A i \in 1..(k + 1) : i # k + 1 => i \in 1..k
        OBVIOUS
      <4>5. h \in [1..(k + 1) -> Seq(V)]
        <5>1. g[k] \in Seq(V) /\ ss[k + 1] \in Seq(V)
          BY <2>2, <3>1, <3>3, <4>2
        <5>2. g[k] \o ss[k + 1] \in Seq(V)
          BY <5>1
        <5>3. \A i \in 1..k : g[i] \in Seq(V)
          BY <4>2
        <5>4. QED
          BY <4>3, <4>4, <5>2, <5>3
      <4>6. ASSUME NEW i \in 1..(k + 1)
            PROVE  h[i] = Step(h, i)
        <5>1. CASE i = k + 1
          <6>1. h[k] = g[k] /\ i # 1 /\ i - 1 = k
            BY <3>3, <4>3, <5>1
          <6>2. h[i] = g[k] \o ss[i]
            BY <4>3, <5>1
          <6>3. QED
            BY <6>1, <6>2
        <5>2. CASE i # k + 1
          <6>1. i \in 1..k /\ h[i] = g[i]
            BY <4>3, <4>4, <5>2
          <6>2. g[i] = Step(g, i)
            BY <4>2, <6>1
          <6>3. i # 1 => h[i - 1] = g[i - 1]
            BY <4>3, <6>1
          <6>4. QED
            BY <6>1, <6>2, <6>3
        <5>3. QED
          BY <5>1, <5>2
      <4>7. QED
        BY <4>5, <4>6
    <3>4. QED
      BY <3>2, <3>3
  <2>5. PICK g : Flat(g, n)
    <3>1. n \in L
      <4> HIDE DEF L
      <4>1. QED
        BY <2>2, <2>3, <2>4, SetInduction
    <3>2. n \in 1..n
      BY <2>2
    <3> HIDE DEF Flat
    <3>3. QED
      BY <3>1, <3>2
  <2>6. PICK f : /\ f = (CHOOSE h : h = [i \in 1..Len(ss) |-> IF i = 1 THEN ss[i] ELSE h[i - 1] \o ss[i]])
                 /\ FlattenSeq(ss) = f[Len(ss)]
    BY <1>2 DEF FlattenSeq
  <2>7. \A i \in 1..n : f[i] = Step(f, i)
    <3>1. g = [i \in 1..Len(ss) |-> IF i = 1 THEN ss[i] ELSE g[i - 1] \o ss[i]]
      BY <2>1, <2>5
    <3>2. f = [i \in 1..Len(ss) |-> IF i = 1 THEN ss[i] ELSE f[i - 1] \o ss[i]]
      BY <2>6, <3>1
    <3>3. QED
      BY <2>1, <3>2
  <2> DEFINE M == {k \in Nat : k \in 1..n =>
                     /\ f[k] \in Seq(V)
                     /\ ToSet(f[k]) = UNION {ToSet(ss[i]) : i \in 1..k}}
  <2>8. 0 \in M
    OBVIOUS
  <2>9. ASSUME NEW k \in Nat, k \in M
        PROVE  k + 1 \in M
    <3>1. SUFFICES ASSUME k + 1 \in 1..n
                   PROVE  /\ f[k + 1] \in Seq(V)
                          /\ ToSet(f[k + 1]) = UNION {ToSet(ss[i]) : i \in 1..(k + 1)}
      BY DEF M
    <3>2. CASE k = 0
      <4>1. f[1] = ss[1] /\ ss[1] \in Seq(V)
        BY <2>2, <2>7
      <4>2. QED
        BY <3>2, <4>1
    <3>3. CASE k # 0
      <4>1. k \in 1..n
        BY <2>2, <3>1, <3>3
      <4>2. f[k + 1] = f[k] \o ss[k + 1]
        <5>1. f[k + 1] = Step(f, k + 1) /\ k + 1 # 1 /\ (k + 1) - 1 = k
          BY <2>7, <3>1, <3>3
        <5>2. QED
          BY <5>1
      <4>3. f[k] \in Seq(V) /\ ToSet(f[k]) = UNION {ToSet(ss[i]) : i \in 1..k}
        BY <2>9, <4>1
      <4>4. ss[k + 1] \in Seq(V)
        BY <2>2, <3>1
      <4>5. f[k + 1] \in Seq(V) /\ ToSet(f[k + 1]) = ToSet(f[k]) \cup ToSet(ss[k + 1])
        BY <4>2, <4>3, <4>4, ConcatMembers
      <4>6. 1..(k + 1) = 1..k \cup {k + 1}
        OBVIOUS
      <4>7. QED
        BY <4>3, <4>5, <4>6
    <3>4. QED
      BY <3>2, <3>3
  <2>10. n \in M
    <3> HIDE DEF M
    <3>1. QED
      BY <2>2, <2>8, <2>9, SetInduction
  <2>11. f[n] \in Seq(V) /\ ToSet(f[n]) = UNION {ToSet(ss[i]) : i \in 1..n}
    BY <2>2, <2>10
  <2>12. QED
    BY <2>1, <2>2, <2>6, <2>11
<1>3. QED
  BY <1>1, <1>2

-----------------------------------------------------------------------------
(* Folds.  FoldLeft goes through the subsets of the positions; what it     *)
(* makes of the prefixes is what a loop makes of them.                     *)

\* The folds over lists: a step of the loop, by the name of its operator.
StepOf(fold, x, i) ==
  IF fold.by = "RPCStatsLine" THEN RPCStatsLine(x, fold.over[i])
  ELSE IF fold.by = "StateLine" THEN StateLine(x, fold.over[i])
  ELSE IF fold.by = "AddMatch" THEN AddMatch(x, fold.pattern, fold.over[i])
  ELSE AddMatches(x, fold.over[i], fold.matches[i])

IsFold(fold, base, n, g) ==
  g = [s \in SUBSET (1..n) |-> IF s = {} THEN base
                               ELSE StepOf(fold, g[s \ {Max(s)}], Max(s))]

\* g[1..k] is what the first k turns of the loop make.
IsLoop(fold, base, n, g) ==
  /\ g[1..0] = base
  /\ \A k \in 1..n : g[1..k] = StepOf(fold, g[1..(k - 1)], k)

\* The function by which MapThenFoldSet defines a fold exists.
LEMMA FoldExists ==
  ASSUME NEW fold, NEW base, NEW n \in Nat
  PROVE  \E g : IsFold(fold, base, n, g)
<1> DEFINE L == {k \in Nat : \E g : IsFold(fold, base, k, g)}
<1>1. 0 \in L
  <2>1. PICK g : g = [s \in {{}} |-> base]
    OBVIOUS
  <2>2. SUBSET (1..0) = {{}}
    OBVIOUS
  <2>3. IsFold(fold, base, 0, g)
    BY <2>1, <2>2 DEF IsFold
  <2>4. QED
    BY <2>3
<1>2. ASSUME NEW k \in Nat, k \in L
      PROVE  k + 1 \in L
  <2>1. PICK g : IsFold(fold, base, k, g)
    BY <1>2
  <2>2. PICK h : h = [s \in SUBSET (1..(k + 1)) |->
                        IF k + 1 \in s THEN StepOf(fold, g[s \ {k + 1}], k + 1) ELSE g[s]]
    OBVIOUS
  <2>3. ASSUME NEW s \in SUBSET (1..(k + 1)), s # {}, k + 1 \in s
        PROVE  h[s] = StepOf(fold, h[s \ {Max(s)}], Max(s))
    <3>1. Max(s) = k + 1
      <4>1. k + 1 \in Nat /\ s \subseteq 1..(k + 1) /\ \A y \in s : k + 1 >= y
        OBVIOUS
      <4>2. QED
        BY <2>3, <4>1, GreatestIs
    <3>2. s \ {k + 1} \in SUBSET (1..(k + 1)) /\ k + 1 \notin s \ {k + 1}
      OBVIOUS
    <3>3. h[s \ {k + 1}] = g[s \ {k + 1}]
      BY <2>2, <3>2
    <3>4. QED
      BY <2>2, <2>3, <3>1, <3>3
  <2>4. ASSUME NEW s \in SUBSET (1..(k + 1)), s # {}, k + 1 \notin s
        PROVE  h[s] = StepOf(fold, h[s \ {Max(s)}], Max(s))
    <3>1. s \in SUBSET (1..k)
      BY <2>4
    <3>2. Max(s) \in s
      BY <2>4, <3>1, Greatest
    <3>3. h[s] = g[s] /\ h[s \ {Max(s)}] = g[s \ {Max(s)}]
      BY <2>2, <2>4
    <3>4. g[s] = StepOf(fold, g[s \ {Max(s)}], Max(s))
      BY <2>1, <2>4, <3>1 DEF IsFold
    <3>5. QED
      BY <3>3, <3>4
  <2>5. h[{}] = base
    <3>1. {} \in SUBSET (1..(k + 1)) /\ {} \in SUBSET (1..k)
      OBVIOUS
    <3>2. g[{}] = base
      BY <2>1, <3>1 DEF IsFold
    <3>3. QED
      BY <2>2, <3>1, <3>2
  <2>6. IsFold(fold, base, k + 1, h)
    <3>1. \A s \in SUBSET (1..(k + 1)) :
            h[s] = IF s = {} THEN base ELSE StepOf(fold, h[s \ {Max(s)}], Max(s))
      BY <2>3, <2>4, <2>5
    <3>2. h = [s \in SUBSET (1..(k + 1)) |-> h[s]]
      BY <2>2
    <3>3. QED
      BY <3>1, <3>2 DEF IsFold
  <2>7. QED
    BY <2>6
<1> HIDE DEF L
<1>3. n \in L
  BY <1>1, <1>2, SetInduction
<1>4. QED
  BY <1>3 DEF L

\* On the prefixes it is the loop.
LEMMA FoldSteps ==
  ASSUME NEW fold, NEW base, NEW n \in Nat, NEW g, IsFold(fold, base, n, g)
  PROVE  IsLoop(fold, base, n, g)
<1>1. g[1..0] = base
  BY DEF IsFold
<1>2. ASSUME NEW k \in 1..n
      PROVE  g[1..k] = StepOf(fold, g[1..(k - 1)], k)
  <2>1. 1..k \in SUBSET (1..n) /\ k \in 1..k /\ 1..k # {}
    BY <1>2
  <2>2. Max(1..k) = k
    <3>1. k \in Nat /\ 1..k \subseteq 1..k /\ \A y \in 1..k : k >= y
      BY <1>2
    <3>2. QED
      BY <2>1, <3>1, GreatestIs
  <2>3. (1..k) \ {k} = 1..(k - 1)
    BY <1>2
  <2>4. g[1..k] = StepOf(fold, g[(1..k) \ {Max(1..k)}], Max(1..k))
    BY <2>1 DEF IsFold
  <2>5. QED
    BY <2>2, <2>3, <2>4
<1>3. QED
  BY <1>1, <1>2 DEF IsLoop
-----------------------------------------------------------------------------
(* The folds of Scrape.                                                    *)

\* A sequence over any set is a list of what it has.
LEMMA IsListOf ==
  ASSUME NEW V, NEW s \in Seq(V)
  PROVE  IsList(s)
BY DEF IsList, ToSet

\* Two lists, one after the other.
LEMMA ConcatLists ==
  ASSUME NEW s, NEW t, IsList(s), IsList(t)
  PROVE  IsList(s \o t) /\ ToSet(s \o t) = ToSet(s) \cup ToSet(t)
<1>1. PICK V : V = ToSet(s) \cup ToSet(t)
  OBVIOUS
<1>2. s \in Seq(V) /\ t \in Seq(V)
  BY <1>1 DEF IsList
<1>3. QED
  BY <1>2, ConcatMembers, IsListOf

\* Lists of no and of one member.
LEMMA ShortLists ==
  /\ IsList(<<>>) /\ ToSet(<<>>) = {}
  /\ \A x : IsList(<<x>>) /\ ToSet(<<x>>) = {x}
<1>1. \A x : <<x>> \in Seq({x}) /\ DOMAIN <<x>> = {1} /\ <<x>>[1] = x
  OBVIOUS
<1>2. <<>> \in Seq({}) /\ DOMAIN <<>> = {}
  OBVIOUS
<1>3. QED
  BY <1>1, <1>2, IsListOf DEF ToSet

\* A function of the positions of a list is a list.
LEMMA MappedList ==
  ASSUME NEW s, NEW n \in Nat, DOMAIN s = 1..n, s = [i \in DOMAIN s |-> s[i]]
  PROVE  IsList(s)
<1>1. s \in [1..n -> ToSet(s)]
  BY DEF ToSet
<1>2. QED
  BY <1>1 DEF IsList

\* What the parser of an rpc_stats file has: a section and a list of observations.
RPCSections == {"", "pages_per_rpc", "rpcs_in_flight", "rpcs_offset"}
RPCMetrics == {"rpcs_current", "pending_pages", "pages_per_rpc", "rpcs_in_flight", "rpcs_offset"}

IsRPCState(s) ==
  /\ IsList(s.obs)
  /\ "name" \in DOMAIN s.section /\ s.section.name \in RPCSections
  /\ \A o \in ToSet(s.obs) : o.metric \in RPCMetrics

HasScalar(line) == line.scalar \in {"", "rpcs_current", "pending_pages"}

\* A section that is entered has the name with which it is.
LEMMA EnterNames ==
  ASSUME NEW s, NEW name, NEW operation
  PROVE  /\ "name" \in DOMAIN R!Enter(s, name, operation)
         /\ R!Enter(s, name, operation).name = name
BY DEF R!Enter

\* A line of the file keeps it so.
LEMMA RPCLineKeeps ==
  ASSUME NEW s, NEW line, IsRPCState(s), HasScalar(line)
  PROVE  IsRPCState(RPCStatsLine(s, line))
<1>1. PICK section : section = R!ApplyHeader(s.section, line)
  OBVIOUS
<1>2. PICK scalars : scalars = R!ScalarObservations(line, line.size)
  OBVIOUS
<1>3. PICK buckets : buckets = IF R!IsBucket(section, line)
                               THEN R!BucketObservations(section, line, line.size) ELSE <<>>
  OBVIOUS
<1>4. "name" \in DOMAIN section /\ section.name \in RPCSections
  <2>1. PICK old : old = s.section
    OBVIOUS
  <2>2. "name" \in DOMAIN old /\ old.name \in RPCSections
    BY <2>1 DEF IsRPCState
  <2>3. ASSUME NEW name \in RPCSections, NEW operation, section = R!Enter(old, name, operation)
        PROVE  "name" \in DOMAIN section /\ section.name \in RPCSections
    BY <2>3, EnterNames
  <2>4. ASSUME NEW operation, section = [old EXCEPT !.pendingOperation = operation]
        PROVE  "name" \in DOMAIN section /\ section.name \in RPCSections
    BY <2>2, <2>4
  <2>5. PICK pages, waiting, single, offset, modify, columns :
          /\ pages = R!Enter(old, "pages_per_rpc", "")
          /\ waiting = R!Enter(old, "rpcs_in_flight", old.pendingOperation)
          /\ single = R!Enter(old, "rpcs_in_flight", R!OperationOf(line))
          /\ offset = R!Enter(old, "rpcs_offset", "")
          /\ modify = [old EXCEPT !.pendingOperation = "modify"]
          /\ columns = [old EXCEPT !.pendingOperation = ""]
    OBVIOUS
  <2>6. section \in {pages, waiting, single, offset, modify, columns, old}
    BY <1>1, <2>1, <2>5 DEF R!ApplyHeader
  <2>7. /\ section \in {modify, columns} => \E operation : section = [old EXCEPT !.pendingOperation = operation]
        /\ section = pages => \E operation : section = R!Enter(old, "pages_per_rpc", operation)
        /\ section \in {waiting, single} => \E operation : section = R!Enter(old, "rpcs_in_flight", operation)
        /\ section = offset => \E operation : section = R!Enter(old, "rpcs_offset", operation)
    <3>1. section \in {modify, columns} => \E operation : section = [old EXCEPT !.pendingOperation = operation]
      BY <2>5
    <3>2. /\ section = pages => \E operation : section = R!Enter(old, "pages_per_rpc", operation)
          /\ section \in {waiting, single} => \E operation : section = R!Enter(old, "rpcs_in_flight", operation)
          /\ section = offset => \E operation : section = R!Enter(old, "rpcs_offset", operation)
      BY <2>5
    <3>3. QED
      BY <3>1, <3>2
  <2>8. "pages_per_rpc" \in RPCSections /\ "rpcs_in_flight" \in RPCSections /\ "rpcs_offset" \in RPCSections
    BY DEF RPCSections
  <2>9. QED
    BY <2>2, <2>3, <2>4, <2>6, <2>7, <2>8
<1>5. IsList(scalars) /\ \A o \in ToSet(scalars) : o.metric \in RPCMetrics
  <2>1. CASE line.scalar = ""
    BY <1>2, <2>1, ShortLists DEF R!ScalarObservations
  <2>2. CASE line.scalar # ""
    <3>1. PICK o : o = R!Observation(line.scalar, line.operation, line.size)
      OBVIOUS
    <3>2. o.metric = line.scalar
      BY <3>1 DEF R!Observation
    <3>3. o.metric \in RPCMetrics
      BY <2>2, <3>2 DEF HasScalar, RPCMetrics
    <3>4. QED
      BY <1>2, <2>2, <3>1, <3>3, ShortLists DEF R!ScalarObservations
  <2>3. QED
    BY <2>1, <2>2
<1>6. IsList(buckets) /\ \A o \in ToSet(buckets) : o.metric \in RPCMetrics
  <2>1. CASE ~R!IsBucket(section, line)
    BY <1>3, <2>1, ShortLists
  <2>2. CASE R!IsBucket(section, line)
    <3>1. section.name \in RPCMetrics
      BY <1>4, <2>2 DEF R!IsBucket, RPCSections, RPCMetrics
    <3>2. PICK ops : ops = R!LineOperations(line, section.operation)
      OBVIOUS
    <3>3. DOMAIN ops = 1..1 \/ DOMAIN ops = 1..2
      <4>1. ops = <<"read", "write">> \/ ops = <<section.operation>> \/ ops = <<"read">>
        BY <3>2 DEF R!LineOperations
      <4>2. /\ DOMAIN <<"read", "write">> = 1..2 /\ DOMAIN <<"read">> = 1..1
            /\ DOMAIN <<section.operation>> = 1..1
        OBVIOUS
      <4>3. QED
        BY <4>1, <4>2
    <3>4. buckets = [n \in DOMAIN ops |-> R!Observation(section.name, ops[n], line.size)]
      BY <1>3, <2>2, <3>2 DEF R!BucketObservations
    <3>5. IsList(buckets)
      BY <3>3, <3>4, MappedList
    <3>6. \A op : R!Observation(section.name, op, line.size).metric = section.name
      BY DEF R!Observation
    <3>7. \A o \in ToSet(buckets) : o.metric = section.name
      BY <3>4, <3>6 DEF ToSet
    <3>8. QED
      BY <3>1, <3>5, <3>7
  <2>3. QED
    BY <2>1, <2>2
<1>7. PICK obs : obs = (s.obs \o scalars) \o buckets
  OBVIOUS
<1>8. IsList(obs) /\ ToSet(obs) = (ToSet(s.obs) \cup ToSet(scalars)) \cup ToSet(buckets)
  BY <1>5, <1>6, <1>7, ConcatLists DEF IsRPCState
<1>9. CASE line.start = "snapshot_time"
  BY <1>9 DEF RPCStatsLine
<1>10. CASE line.start # "snapshot_time"
  <2>1. RPCStatsLine(s, line).obs = obs /\ RPCStatsLine(s, line).section = section
    BY <1>1, <1>2, <1>3, <1>7, <1>10 DEF RPCStatsLine
  <2>2. QED
    BY <1>4, <1>5, <1>6, <1>8, <2>1 DEF IsRPCState
<1>11. QED
  BY <1>9, <1>10

\* And so do all lines of the file.
LEMMA RPCFold ==
  ASSUME NEW lines, IsList(lines), \A line \in ToSet(lines) : HasScalar(line),
         NEW base, IsRPCState(base)
  PROVE  IsRPCState(FoldLeft(RPCStatsLine, base, lines))
<1>1. PICK n \in Nat : DOMAIN lines = 1..n
  BY DEF IsList
<1>2. PICK fold : fold = [by |-> "RPCStatsLine", over |-> lines]
  OBVIOUS
<1>3. \A x, i : StepOf(fold, x, i) = RPCStatsLine(x, lines[i])
  BY <1>2 DEF StepOf
<1>4. PICK f : f = (CHOOSE g : g = [s \in SUBSET (DOMAIN lines) |->
                      IF s = {} THEN base ELSE RPCStatsLine(g[s \ {Max(s)}], lines[Max(s)])])
  OBVIOUS
<1>5. FoldLeft(RPCStatsLine, base, lines) = f[DOMAIN lines]
  BY <1>4 DEF FoldLeft, MapThenFoldSet
<1>6. IsFold(fold, base, n, f)
  <2>1. PICK g : IsFold(fold, base, n, g)
    BY FoldExists
  <2>2. g = [s \in SUBSET (DOMAIN lines) |->
               IF s = {} THEN base ELSE RPCStatsLine(g[s \ {Max(s)}], lines[Max(s)])]
    BY <1>1, <1>3, <2>1 DEF IsFold
  <2>3. f = [s \in SUBSET (DOMAIN lines) |->
               IF s = {} THEN base ELSE RPCStatsLine(f[s \ {Max(s)}], lines[Max(s)])]
    BY <1>4, <2>2
  <2>4. QED
    BY <1>1, <1>3, <2>3 DEF IsFold
<1>7. f[1..0] = base /\ \A k \in 1..n : f[1..k] = RPCStatsLine(f[1..(k - 1)], lines[k])
  <2>1. IsLoop(fold, base, n, f)
    BY <1>6, FoldSteps, Zenon
  <2>2. QED
    BY <1>3, <2>1 DEF IsLoop
<1> DEFINE L == {k \in Nat : k \in 0..n => IsRPCState(f[1..k])}
<1>8. 0 \in L
  BY <1>7
<1>9. ASSUME NEW k \in Nat, k \in L
      PROVE  k + 1 \in L
  <2>1. SUFFICES ASSUME k + 1 \in 0..n
                 PROVE  IsRPCState(f[1..(k + 1)])
    OBVIOUS
  <2>2. k + 1 \in 1..n /\ (k + 1) - 1 = k /\ IsRPCState(f[1..k])
    BY <1>9, <2>1
  <2>3. f[1..(k + 1)] = RPCStatsLine(f[1..k], lines[k + 1])
    BY <1>7, <2>2
  <2>4. HasScalar(lines[k + 1])
    BY <1>1, <2>2 DEF ToSet
  <2>5. QED
    BY <2>2, <2>3, <2>4, RPCLineKeeps
<1> HIDE DEF L
<1>10. n \in L
  BY <1>8, <1>9, SetInduction
<1>11. QED
  BY <1>1, <1>5, <1>10 DEF L

-----------------------------------------------------------------------------
(* Results: what a parser, a source or a collector returns.                *)

\* A list of observations or an error, and nothing with the error.
IsResult(r) ==
  /\ r.err \in BOOLEAN
  /\ IsList(r.obs)
  /\ r.err => r.obs = <<>>

\* All observations are of one of the paths.
From(r, paths) == \A o \in ToSet(r.obs) : o.source \in paths

\* Lists, one after the other.
LEMMA FlattenLists ==
  ASSUME NEW n \in Nat, NEW ss, DOMAIN ss = 1..n, ss = [i \in DOMAIN ss |-> ss[i]],
         \A i \in 1..n : IsList(ss[i])
  PROVE  /\ IsList(FlattenSeq(ss))
         /\ ToSet(FlattenSeq(ss)) = UNION {ToSet(ss[i]) : i \in 1..n}
<1>1. PICK V : V = UNION {ToSet(ss[i]) : i \in 1..n}
  OBVIOUS
<1>2. \A i \in 1..n : ss[i] \in Seq(V)
  <2>1. ASSUME NEW i \in 1..n
        PROVE  ss[i] \in Seq(V)
    <3>1. ss[i] \in Seq(ToSet(ss[i])) /\ ToSet(ss[i]) \subseteq V
      BY <1>1 DEF IsList
    <3>2. QED
      BY <3>1
  <2>2. QED
    BY <2>1
<1>3. ss \in [1..n -> Seq(V)]
  BY <1>2
<1>4. ss \in Seq(Seq(V))
  BY <1>3
<1>5. QED
  BY <1>1, <1>4, FlattenMembers, IsListOf

\* The empty result is no failure.
LEMMA Results ==
  /\ IsResult(Failed) /\ Failed.err /\ ToSet(Failed.obs) = {}
  /\ \A obs : Parsed(obs).err = FALSE /\ Parsed(obs).obs = obs
  /\ \A obs : IsList(obs) => IsResult(Parsed(obs))
BY ShortLists DEF IsResult, Failed, Parsed

\* All fails if a part does, and has the observations of all parts otherwise.
LEMMA AllIs ==
  ASSUME NEW n \in Nat, NEW parts, DOMAIN parts = 1..n,
         \A i \in 1..n : IsResult(parts[i])
  PROVE  /\ IsResult(All(parts))
         /\ All(parts).err <=> \E i \in 1..n : parts[i].err
         /\ ~All(parts).err =>
              ToSet(All(parts).obs) = UNION {ToSet(parts[i].obs) : i \in 1..n}
<1>1. PICK ss : ss = [i \in DOMAIN parts |-> parts[i].obs]
  OBVIOUS
<1>2. /\ IsList(FlattenSeq(ss))
      /\ ToSet(FlattenSeq(ss)) = UNION {ToSet(ss[i]) : i \in 1..n}
  <2>1. DOMAIN ss = 1..n /\ ss = [i \in DOMAIN ss |-> ss[i]] /\ \A i \in 1..n : IsList(ss[i])
    BY <1>1 DEF IsResult
  <2>2. QED
    BY <2>1, FlattenLists
<1>3. CASE \E i \in 1..n : parts[i].err
  BY <1>3, Results DEF All
<1>4. CASE ~\E i \in 1..n : parts[i].err
  <2>1. All(parts) = Parsed(FlattenSeq(ss))
    BY <1>1, <1>4 DEF All
  <2>2. UNION {ToSet(ss[i]) : i \in 1..n} = UNION {ToSet(parts[i].obs) : i \in 1..n}
    BY <1>1
  <2>3. QED
    BY <1>2, <1>4, <2>1, <2>2, Results
<1>5. QED
  BY <1>3, <1>4

\* The path that ReadFirstAvailable takes is one of them and readable.
LEMMA FirstIs ==
  ASSUME NEW paths, DOMAIN paths \subseteq Nat, Available(paths) # {}
  PROVE  \E i \in DOMAIN paths : FirstAvailable(paths) = paths[i] /\ Readable(paths[i])
<1>1. Available(paths) \subseteq Nat
  BY DEF Available
<1>2. PICK x \in Available(paths) : \A y \in Available(paths) : x <= y
  BY <1>1, Least
<1>3. Min(Available(paths)) \in Available(paths)
  BY <1>2 DEF Min
<1>4. QED
  BY <1>3 DEF FirstAvailable, Available

-----------------------------------------------------------------------------
(* Stats files.                                                            *)

\* A line of a stats file has at least one series, and all are of the file.
LEMMA LLiteLineIs ==
  ASSUME NEW line, NEW name, NEW path
  PROVE  /\ IsList(LLiteLine(line, name, path))
         /\ ToSet(LLiteLine(line, name, path)) # {}
         /\ \A o \in ToSet(LLiteLine(line, name, path)) : o.source = path
<1>1. CASE IsBytes(line)
  <2>1. PICK ids : ids = BytesIDs(line)
    OBVIOUS
  <2>2. DOMAIN ids = 1..4
    BY <2>1 DEF BytesIDs
  <2>3. PICK s : s = LLiteLine(line, name, path)
    OBVIOUS
  <2>4. s = [i \in 1..4 |-> Observation(ids[i], Client(name), path)]
    BY <1>1, <2>1, <2>2, <2>3 DEF LLiteLine, Each
  <2>5. IsList(s)
    BY <2>4, MappedList
  <2>6. \A o \in ToSet(s) : o.source = path
    BY <2>4 DEF ToSet, Observation
  <2>7. s[1] \in ToSet(s)
    BY <2>4 DEF ToSet
  <2>8. QED
    BY <2>3, <2>5, <2>6, <2>7
<1>2. CASE ~IsBytes(line)
  <2>1. LLiteLine(line, name, path) = <<Operation(line, name, path)>>
    BY <1>2 DEF LLiteLine
  <2>2. Operation(line, name, path).source = path
    BY DEF Operation, Observation
  <2>3. QED
    BY <2>1, <2>2, ShortLists
<1>3. QED
  BY <1>1, <1>2

\* An import has one more for a sum of seconds.
LEMMA OBDLineIs ==
  ASSUME NEW line, NEW name, NEW type, NEW path
  PROVE  /\ IsList(OBDLine(line, name, type, path))
         /\ ToSet(LLiteLine(line, name, path)) \subseteq ToSet(OBDLine(line, name, type, path))
         /\ \A o \in ToSet(OBDLine(line, name, type, path)) : o.source = path
<1>1. PICK more : more = IF ~IsBytes(line) /\ HasSeconds(line)
                         THEN <<Seconds(line, name, type, path)>> ELSE <<>>
  OBVIOUS
<1>2. Seconds(line, name, type, path).source = path
  BY DEF Seconds, Observation
<1>3. IsList(more) /\ \A o \in ToSet(more) : o.source = path
  BY <1>1, <1>2, ShortLists
<1>4. OBDLine(line, name, type, path) = LLiteLine(line, name, path) \o more
  BY <1>1 DEF OBDLine
<1>5. QED
  BY <1>3, <1>4, LLiteLineIs, ConcatLists

\* A stats file with these lines is lost.
IsTorn(lines) == \E n \in DOMAIN lines : Named(lines[n]) /\ BadStat(lines[n])

\* What a stats file at the path becomes: nothing if it is torn, and the series
\* of all its lines otherwise.
IsWhole(r, lines, name, path) ==
  /\ IsResult(r)
  /\ From(r, {path})
  /\ r.err <=> IsTorn(lines)
  /\ ~r.err => \A n \in DOMAIN lines :
                 Named(lines[n]) => ToSet(LLiteLine(lines[n], name, path)) \subseteq ToSet(r.obs)

\* The stats of a mount.
LEMMA LLiteStatsAreWhole ==
  ASSUME NEW lines, IsList(lines), NEW name, NEW path
  PROVE  IsWhole(ParseLLiteStats(lines, path, name), lines, name, path)
<1>1. PICK n \in Nat : DOMAIN lines = 1..n
  BY DEF IsList
<1>2. PICK r : r = ParseLLiteStats(lines, path, name)
  OBVIOUS
<1>3. PICK ss : ss = [i \in DOMAIN lines |-> IF Named(lines[i]) THEN LLiteLine(lines[i], name, path)
                                                               ELSE <<>>]
  OBVIOUS
<1>4. r = IF IsTorn(lines) THEN Failed ELSE Parsed(FlattenSeq(ss))
  BY <1>2, <1>3 DEF ParseLLiteStats, AllLines, IsTorn
<1>5. \A i \in 1..n : IsList(ss[i]) /\ \A o \in ToSet(ss[i]) : o.source = path
  BY <1>1, <1>3, LLiteLineIs, ShortLists
<1>6. /\ IsList(FlattenSeq(ss))
      /\ ToSet(FlattenSeq(ss)) = UNION {ToSet(ss[i]) : i \in 1..n}
  BY <1>1, <1>3, <1>5, FlattenLists
<1>7. \A i \in 1..n : Named(lines[i]) =>
        ToSet(LLiteLine(lines[i], name, path)) \subseteq UNION {ToSet(ss[k]) : k \in 1..n}
  BY <1>1, <1>3
<1>8. CASE IsTorn(lines)
  BY <1>2, <1>4, <1>8, Results DEF IsWhole, From
<1>9. CASE ~IsTorn(lines)
  <2>1. r = Parsed(FlattenSeq(ss))
    BY <1>4, <1>9
  <2>2. IsResult(r) /\ ~r.err /\ r.obs = FlattenSeq(ss)
    BY <1>6, <2>1, Results
  <2>3. From(r, {path})
    BY <1>5, <1>6, <2>2 DEF From
  <2>4. QED
    BY <1>1, <1>2, <1>6, <1>7, <1>9, <2>2, <2>3 DEF IsWhole
<1>10. QED
  BY <1>8, <1>9

\* The stats of an import.
LEMMA OBDStatsAreWhole ==
  ASSUME NEW lines, IsList(lines), NEW name, NEW type, NEW path
  PROVE  IsWhole(ParseOBDStats(lines, path, name, type), lines, name, path)
<1>1. PICK n \in Nat : DOMAIN lines = 1..n
  BY DEF IsList
<1>2. PICK r : r = ParseOBDStats(lines, path, name, type)
  OBVIOUS
<1>3. PICK ss : ss = [i \in DOMAIN lines |-> IF Named(lines[i])
                                            THEN OBDLine(lines[i], name, type, path) ELSE <<>>]
  OBVIOUS
<1>4. r = IF IsTorn(lines) THEN Failed ELSE Parsed(FlattenSeq(ss))
  BY <1>2, <1>3 DEF ParseOBDStats, AllLines, IsTorn
<1>5. \A i \in 1..n : IsList(ss[i]) /\ \A o \in ToSet(ss[i]) : o.source = path
  BY <1>1, <1>3, OBDLineIs, ShortLists
<1>6. /\ IsList(FlattenSeq(ss))
      /\ ToSet(FlattenSeq(ss)) = UNION {ToSet(ss[i]) : i \in 1..n}
  BY <1>1, <1>3, <1>5, FlattenLists
<1>7. ASSUME NEW i \in 1..n, Named(lines[i])
      PROVE  ToSet(LLiteLine(lines[i], name, path)) \subseteq UNION {ToSet(ss[k]) : k \in 1..n}
  <2>1. ss[i] = OBDLine(lines[i], name, type, path)
    BY <1>1, <1>3, <1>7
  <2>2. ToSet(LLiteLine(lines[i], name, path)) \subseteq ToSet(ss[i])
    BY <2>1, OBDLineIs
  <2>3. QED
    BY <2>2
<1>8. CASE IsTorn(lines)
  BY <1>2, <1>4, <1>8, Results DEF IsWhole, From
<1>9. CASE ~IsTorn(lines)
  <2>1. r = Parsed(FlattenSeq(ss))
    BY <1>4, <1>9
  <2>2. IsResult(r) /\ ~r.err /\ r.obs = FlattenSeq(ss)
    BY <1>6, <2>1, Results
  <2>3. From(r, {path})
    BY <1>5, <1>6, <2>2 DEF From
  <2>4. QED
    BY <1>1, <1>2, <1>6, <1>7, <1>9, <2>2, <2>3 DEF IsWhole
<1>10. QED
  BY <1>8, <1>9

-----------------------------------------------------------------------------
(* The other files of the client collector.  None of them is a stats file  *)
(* of a target, whose path says so.                                        *)

IsStatsPath(path) == Len(path) = 4 /\ path[4] = "stats"

\* Nothing of it is from the stats file of a target.
IsOther(r) == IsResult(r) /\ \A o \in ToSet(r.obs) : ~IsStatsPath(o.source)

\* At every path there is what HasLines says.
HostInv ==
  /\ DOMAIN host = DOMAIN Healthy
  /\ \A path \in DOMAIN host : HasLines(path, host[path])

\* What is readable has such lines.
LEMMA LinesAreLists ==
  ASSUME HostInv, NEW path, Readable(path)
  PROVE  /\ path \in DOMAIN Healthy
         /\ IsList(Lines(path))
         /\ HasLines(path, host[path])
<1>1. path \in DOMAIN host
  BY DEF Readable, State
<1>2. QED
  BY <1>1 DEF HostInv, Lines, HasLines

\* The paths of the targets and of the LDLM statistics.
LEMMA PathLengths ==
  /\ \A a, b, c, d : Len(<<a, b, c, d>>) = 4 /\ <<a, b, c, d>>[4] = d
  /\ \A a, b, c, d : <<a>> \o <<b, c, d>> = <<a, b, c, d>>
  /\ \A a, b : Len(<<a>> \o <<b>>) = 2
<1>1. \A a, b, c, d : Len(<<a, b, c, d>>) = 4 /\ <<a, b, c, d>>[4] = d
  OBVIOUS
<1>2. ASSUME NEW a, NEW b, NEW c, NEW d
      PROVE  <<a>> \o <<b, c, d>> = <<a, b, c, d>>
  <2>1. PICK V : V = {a, b, c, d}
    OBVIOUS
  <2>2. PICK s, t : s = <<a>> /\ t = <<b, c, d>>
    OBVIOUS
  <2>3. /\ s \in Seq(V) /\ t \in Seq(V)
        /\ Len(s) = 1 /\ Len(t) = 3
        /\ s[1] = a /\ t[1] = b /\ t[2] = c /\ t[3] = d
    BY <2>1, <2>2
  <2>4. PICK u : u = s \o t
    OBVIOUS
  <2>5. /\ u \in Seq(V) /\ Len(u) = Len(s) + Len(t)
        /\ \A i \in 1..Len(u) : u[i] = IF i <= Len(s) THEN s[i] ELSE t[i - Len(s)]
    <3>1. s \in Seq(V) /\ t \in Seq(V)
      BY <2>3
    <3>2. QED
      BY <2>4, <3>1
  <2>6. /\ u \in Seq(V) /\ Len(u) = 4
        /\ u[1] = a /\ u[2] = b /\ u[3] = c /\ u[4] = d
    BY <2>3, <2>5
  <2>7. u = <<a, b, c, d>>
    BY <2>6
  <2>8. QED
    BY <2>2, <2>4, <2>7
<1>3. ASSUME NEW a, NEW b
      PROVE  Len(<<a>> \o <<b>>) = 2
  OBVIOUS
<1>4. QED
  BY <1>1, <1>2, <1>3

\* So does the whole file, from no section and no observations.
LEMMA RPCEndIs ==
  ASSUME NEW lines, IsList(lines), \A line \in ToSet(lines) : HasScalar(line)
  PROVE  IsRPCState(FoldLeft(RPCStatsLine, [section |-> NoSection, err |-> FALSE, obs |-> <<>>], lines))
<1>1. PICK base : base = [section |-> NoSection, err |-> FALSE, obs |-> <<>>]
  OBVIOUS
<1>2. base.obs = <<>> /\ "name" \in DOMAIN base.section /\ base.section.name = ""
  BY <1>1 DEF NoSection
<1>3. IsRPCState(base)
  BY <1>2, ShortLists DEF IsRPCState, RPCSections
<1>4. QED
  BY <1>1, <1>3, RPCFold

\* An rpc_stats file.
LEMMA RPCStatsAreOther ==
  ASSUME NEW lines, IsList(lines), \A line \in ToSet(lines) : HasScalar(line),
         NEW name, NEW type, NEW path, ~IsStatsPath(path)
  PROVE  IsOther(ParseRPCStats(lines, path, name, type))
<1>1. PICK end : end = FoldLeft(RPCStatsLine, [section |-> NoSection, err |-> FALSE, obs |-> <<>>], lines)
  OBVIOUS
<1>2. IsRPCState(end)
  BY <1>1, RPCEndIs
<1>3. PICK s : s = [i \in DOMAIN end.obs |-> RPCObservation(end.obs[i], name, type, path)]
  OBVIOUS
<1>4. \A o : RPCObservation(o, name, type, path).source = path
  BY DEF RPCObservation, Observation
<1>5. IsList(s)
  <2>1. PICK n \in Nat : DOMAIN end.obs = 1..n
    BY <1>2 DEF IsRPCState, IsList
  <2>2. QED
    BY <1>3, <2>1, MappedList
<1>6. \A o \in ToSet(s) : o.source = path
  BY <1>3, <1>4 DEF ToSet
<1>7. ParseRPCStats(lines, path, name, type) = IF end.err THEN Failed ELSE Parsed(s)
  BY <1>1, <1>3 DEF ParseRPCStats
<1>8. QED
  BY <1>5, <1>6, <1>7, Results DEF IsOther

\* The LDLM statistics.
LEMMA LDLMStatsAreOther ==
  ASSUME NEW lines, IsList(lines), NEW path, ~IsStatsPath(path)
  PROVE  IsOther(ParseLDLMCBDStats(lines, path))
<1>1. PICK n \in Nat : DOMAIN lines = 1..n
  BY DEF IsList
<1> DEFINE Takes(line) == /\ line.name # "snapshot_time" /\ ~line.equals
                          /\ line.fields >= 3 /\ line.samples
           Obs(line) == <<Observation("ldlm_cbd_stats", [operation |-> line.name], path)>>
<1>2. PICK ss : ss = [i \in DOMAIN lines |-> IF Takes(lines[i]) THEN Obs(lines[i]) ELSE <<>>]
  OBVIOUS
<1>3. \A i \in 1..n : IsList(ss[i]) /\ \A o \in ToSet(ss[i]) : o.source = path
  BY <1>1, <1>2, ShortLists DEF Observation
<1> HIDE DEF Takes, Obs
<1>4. /\ IsList(FlattenSeq(ss))
      /\ ToSet(FlattenSeq(ss)) = UNION {ToSet(ss[i]) : i \in 1..n}
  BY <1>1, <1>2, <1>3, FlattenLists
<1>5. \/ ParseLDLMCBDStats(lines, path) = Failed
      \/ ParseLDLMCBDStats(lines, path) = Parsed(FlattenSeq(ss))
  BY <1>2 DEF ParseLDLMCBDStats, AllLines, Takes, Obs
<1>6. QED
  BY <1>3, <1>4, <1>5, Results DEF IsOther

\* A file of a target that holds one value.
LEMMA SingleFileIsOther ==
  ASSUME NEW lines, NEW id, NEW labels, NEW path, ~IsStatsPath(path)
  PROVE  IsOther(SingleFile(lines, id, labels, path)) /\ IsOther(One(id, labels, path))
<1>1. IsOther(One(id, labels, path))
  BY ShortLists, Results DEF One, IsOther, Observation
<1>2. IsOther(Failed)
  BY Results DEF IsOther
<1>3. QED
  BY <1>1, <1>2 DEF SingleFile

\* A parameter file.
LEMMA ParamIsOther ==
  ASSUME NEW t, NEW file, NEW lines, NEW path, ~IsStatsPath(path)
  PROVE  IsOther(ParseParam(t, file, lines, path))
<1>1. IsOther(Parsed(<<>>))
  BY ShortLists, Results DEF IsOther
<1>2. IsOther(ParseLLiteSingleFile(lines, path, file, t.name))
  BY <1>1, SingleFileIsOther DEF ParseLLiteSingleFile
<1>3. IsOther(ParseClientSingleFile(lines, path, file, t.name, t.component))
  BY <1>1, SingleFileIsOther DEF ParseClientSingleFile
<1>4. IsOther(ParseClientState(lines, path, t.name, t.component))
  BY <1>1, SingleFileIsOther DEF ParseClientState
<1>5. QED
  BY <1>2, <1>3, <1>4 DEF ParseParam

\* A strict collector keeps a failure, a lenient one drops it.
LEMMA StrictErrorIs ==
  ASSUME config.strict \in BOOLEAN, NEW r, IsResult(r)
  PROVE  /\ IsResult(StrictError(r))
         /\ StrictError(r).err <=> config.strict /\ r.err
         /\ StrictError(r).obs = r.obs
<1>1. CASE config.strict
  BY <1>1 DEF StrictError
<1>2. CASE ~config.strict /\ r.err
  BY <1>2, ShortLists, Results DEF StrictError, Optional, IsResult
<1>3. CASE ~config.strict /\ ~r.err
  BY <1>3 DEF StrictError, Optional
<1>4. QED
  BY <1>1, <1>2, <1>3

-----------------------------------------------------------------------------
(* What is collected of one target.                                        *)

\* One path alone is read if it can be.
LEMMA SinglePath ==
  ASSUME NEW path
  PROVE  /\ Available(<<path>>) = {} <=> ~Readable(path)
         /\ Readable(path) => FirstAvailable(<<path>>) = path
<1>1. DOMAIN <<path>> = {1} /\ <<path>>[1] = path
  OBVIOUS
<1>2. Available(<<path>>) = IF Readable(path) THEN {1} ELSE {}
  BY <1>1 DEF Available
<1>3. Readable(path) => \E i \in DOMAIN <<path>> : FirstAvailable(<<path>>) = <<path>>[i]
  BY <1>1, <1>2, FirstIs
<1>4. QED
  BY <1>1, <1>2, <1>3

\* The parameter files of a component are a list, and "stats" is none of them.
LEMMA ParamFilesAre ==
  ASSUME NEW component
  PROVE  /\ \E n \in Nat : DOMAIN ParamFiles(component) = 1..n
         /\ \A i \in DOMAIN ParamFiles(component) : ParamFiles(component)[i] # "stats"
<1>1. CASE component = "llite"
  <2>1. ParamFiles(component) = lliteSingleFiles
    BY <1>1 DEF ParamFiles
  <2>2. DOMAIN lliteSingleFiles = 1..16
    BY DEF lliteSingleFiles
  <2>3. \A i \in 1..16 : lliteSingleFiles[i] # "stats"
    BY DEF lliteSingleFiles
  <2>4. QED
    BY <2>1, <2>2, <2>3
<1>2. CASE component = "mdc"
  <2>1. PICK files : files = <<"max_rpcs_in_flight", "max_mod_rpcs_in_flight", "max_pages_per_rpc",
                               "active", "state">>
    OBVIOUS
  <2>2. DOMAIN files = 1..5 /\ \A i \in 1..5 : files[i] # "stats"
    BY <2>1
  <2>3. ParamFiles(component) = files
    BY <1>2, <2>1 DEF ParamFiles
  <2>4. QED
    BY <2>2, <2>3
<1>3. CASE component \notin {"llite", "mdc"}
  <2>1. PICK files : files = <<"cur_dirty_bytes", "max_dirty_mb", "max_pages_per_rpc",
                               "max_rpcs_in_flight", "active", "state">>
    OBVIOUS
  <2>2. DOMAIN files = 1..6 /\ \A i \in 1..6 : files[i] # "stats"
    BY <2>1
  <2>3. ParamFiles(component) = files
    BY <1>3, <2>1 DEF ParamFiles
  <2>4. QED
    BY <2>2, <2>3
<1>4. QED
  BY <1>1, <1>2, <1>3

\* What is read of a parameter.
ReadParam(t, file) ==
  LET paths == Under(ParamRoots, <<t.component, t.name, file>>)
  IN IF Available(paths) = {} THEN Parsed(<<>>)
     ELSE ParseParam(t, file, Lines(FirstAvailable(paths)), FirstAvailable(paths))

\* The parameters of a target: no stats, and in lenient mode no failure.
LEMMA ParamsAreOther ==
  ASSUME HostInv, config.strict \in BOOLEAN, NEW t
  PROVE  IsOther(Params(t)) /\ (Params(t).err => config.strict)
<1>1. PICK files : files = ParamFiles(t.component)
  OBVIOUS
<1>2. PICK n \in Nat : DOMAIN files = 1..n
  BY <1>1, ParamFilesAre
<1>3. ASSUME NEW i \in 1..n
      PROVE  IsOther(ReadParam(t, files[i]))
  <2>1. PICK file : file = files[i]
    OBVIOUS
  <2>2. file # "stats"
    BY <1>1, <1>2, <2>1, ParamFilesAre
  <2>3. PICK paths : paths = Under(ParamRoots, <<t.component, t.name, file>>)
    OBVIOUS
  <2>4. CASE Available(paths) = {}
    <3>1. ReadParam(t, file) = Parsed(<<>>)
      BY <2>3, <2>4 DEF ReadParam
    <3>2. QED
      BY <2>1, <3>1, ShortLists, Results DEF IsOther
  <2>5. CASE Available(paths) # {}
    <3>1. DOMAIN paths = 1..2
      BY <2>3 DEF Under, ParamRoots
    <3>2. PICK k \in DOMAIN paths : FirstAvailable(paths) = paths[k]
      BY <2>5, <3>1, FirstIs
    <3>3. paths[k] = <<ParamRoots[k], t.component, t.name, file>>
      BY <2>3, <3>1, PathLengths DEF Under, ParamRoots
    <3>4. ~IsStatsPath(paths[k])
      BY <2>2, <3>3, PathLengths DEF IsStatsPath
    <3>5. ReadParam(t, file) = ParseParam(t, file, Lines(paths[k]), paths[k])
      BY <2>3, <2>5, <3>2 DEF ReadParam
    <3>6. QED
      BY <2>1, <3>4, <3>5, ParamIsOther
  <2>6. QED
    BY <2>4, <2>5
<1>4. PICK parts : parts = [i \in DOMAIN files |-> StrictError(ReadParam(t, files[i]))]
  OBVIOUS
<1>5. Params(t) = All(parts)
  BY <1>1, <1>4 DEF Params, ParseFirst, ReadParam
<1>6. \A i \in 1..n : /\ IsOther(parts[i]) /\ IsResult(parts[i])
                      /\ parts[i].err => config.strict
  <2>1. ASSUME NEW i \in 1..n
        PROVE  IsOther(parts[i]) /\ (parts[i].err => config.strict)
    <3>1. PICK r : r = ReadParam(t, files[i])
      OBVIOUS
    <3>2. IsOther(r) /\ parts[i] = StrictError(r)
      BY <1>2, <1>3, <1>4, <3>1
    <3>3. QED
      BY <3>2, StrictErrorIs DEF IsOther
  <2>2. QED
    BY <2>1 DEF IsOther
<1>7. DOMAIN parts = 1..n
  BY <1>2, <1>4
<1>8. /\ IsResult(All(parts))
      /\ All(parts).err <=> \E i \in 1..n : parts[i].err
      /\ ~All(parts).err => ToSet(All(parts).obs) = UNION {ToSet(parts[i].obs) : i \in 1..n}
  BY <1>6, <1>7, AllIs
<1>9. ~All(parts).err => \A o \in ToSet(All(parts).obs) : ~IsStatsPath(o.source)
  BY <1>6, <1>8 DEF IsOther
<1>10. All(parts).err => ToSet(All(parts).obs) = {}
  BY <1>8, ShortLists DEF IsResult
<1>11. QED
  BY <1>5, <1>6, <1>8, <1>9, <1>10 DEF IsOther

\* The lines of an rpc_stats file.
LEMMA RPCStatsLinesAre ==
  ASSUME HostInv, NEW t, NEW root, Readable(Path(t, root, "rpc_stats"))
  PROVE  \A line \in ToSet(Lines(Path(t, root, "rpc_stats"))) : HasScalar(line)
<1>1. PICK path : path = Path(t, root, "rpc_stats")
  OBVIOUS
<1>2. Len(path) = 4 /\ path[4] = "rpc_stats"
  BY <1>1, PathLengths DEF Path
<1>3. path \in Imports /\ HasLines(path, host[path])
  BY <1>1, <1>2, LinesAreLists DEF Imports
<1>4. QED
  BY <1>1, <1>2, <1>3 DEF HasLines, HasScalar, Lines

\* The rpc_stats of an import.
LEMMA CollectRPCStatsIsOther ==
  ASSUME HostInv, NEW t
  PROVE  IsOther(CollectRPCStats(t))
<1>1. PICK path : path = Path(t, t.rpc_stats, "rpc_stats")
  OBVIOUS
<1>2. ~IsStatsPath(path)
  BY <1>1, PathLengths DEF IsStatsPath, Path
<1>3. IsOther(Failed) /\ IsOther(Parsed(<<>>))
  BY ShortLists, Results DEF IsOther
<1>4. \/ CollectRPCStats(t) = Parsed(<<>>)
      \/ CollectRPCStats(t) = Failed
      \/ /\ Readable(path)
         /\ CollectRPCStats(t) = ParseRPCStats(Lines(path), path, t.name, t.component)
  BY <1>1, SinglePath DEF CollectRPCStats, ParseFirst
<1>5. QED
  BY <1>1, <1>2, <1>3, <1>4, RPCStatsLinesAre, LinesAreLists, RPCStatsAreOther

\* The stats file of a target; it is lost if it cannot be read or is torn.
StatsOf(t) == Path(t, t.stats, "stats")
Lost(path) == ~Readable(path) \/ IsTorn(Lines(path))

\* All series of the stats file of a target.
ShowsStats(t, r) ==
  \A n \in DOMAIN Lines(StatsOf(t)) :
    Named(Lines(StatsOf(t))[n]) =>
      ToSet(LLiteLine(Lines(StatsOf(t))[n], t.name, StatsOf(t))) \subseteq ToSet(r.obs)

\* Of the stats files there is that of the target at most, and whole; and it is
\* there unless it is lost, which in strict mode is a failure.
IsOfTarget(t, r) ==
  /\ IsResult(r)
  /\ \A o \in ToSet(r.obs) : IsStatsPath(o.source) => o.source = StatsOf(t) /\ ~Lost(StatsOf(t))
  /\ ~r.err /\ t.stats # NoPath =>
       /\ ~Lost(StatsOf(t)) => ShowsStats(t, r)
       /\ config.strict => ~Lost(StatsOf(t))

\* The stats of a target, read and parsed.
IsStatsOf(t, r) ==
  /\ IsResult(r)
  /\ r.err <=> Lost(StatsOf(t))
  /\ From(r, {StatsOf(t)})
  /\ ~r.err => ShowsStats(t, r)

\* A stats file becomes what its parser makes of it.
LEMMA ReadStatsIs ==
  ASSUME NEW t, NEW r,
         IF Readable(StatsOf(t)) THEN IsWhole(r, Lines(StatsOf(t)), t.name, StatsOf(t)) ELSE r = Failed
  PROVE  IsStatsOf(t, r)
<1>1. CASE Readable(StatsOf(t))
  BY <1>1 DEF IsWhole, IsStatsOf, Lost, ShowsStats
<1>2. CASE ~Readable(StatsOf(t))
  BY <1>2, Results DEF IsStatsOf, Lost, From
<1>3. QED
  BY <1>1, <1>2

\* A mount: its stats, then its parameters.
LEMMA LLiteIsOfTarget ==
  ASSUME HostInv, config.strict \in BOOLEAN, NEW t
  PROVE  IsOfTarget(t, StrictError(CollectLLite(t)))
<1>1. PICK path : path = StatsOf(t)
  OBVIOUS
<1>2. PICK s : s = IF Readable(path) THEN ParseLLiteStats(Lines(path), path, t.name) ELSE Failed
  OBVIOUS
<1>3. IsStatsOf(t, s)
  BY <1>1, <1>2, LinesAreLists, LLiteStatsAreWhole, ReadStatsIs
<1>4. PICK p : p = Params(t)
  OBVIOUS
<1>5. IsOther(p) /\ (p.err => config.strict)
  BY <1>4, ParamsAreOther
<1>6. PICK parts : parts = <<s, p>>
  OBVIOUS
<1>7. DOMAIN parts = 1..2 /\ parts[1] = s /\ parts[2] = p
  BY <1>6
<1>8. CollectLLite(t) = All(parts)
  BY <1>1, <1>2, <1>4, <1>6, SinglePath DEF CollectLLite, ParseFirst, StatsOf
<1>9. \A i \in 1..2 : IsResult(parts[i])
  BY <1>3, <1>5, <1>7 DEF IsStatsOf, IsOther
<1>10. /\ IsResult(All(parts))
       /\ All(parts).err <=> s.err \/ p.err
       /\ ~All(parts).err => ToSet(All(parts).obs) = ToSet(s.obs) \cup ToSet(p.obs)
  <2>1. /\ IsResult(All(parts))
        /\ All(parts).err <=> \E i \in 1..2 : parts[i].err
        /\ ~All(parts).err => ToSet(All(parts).obs) = UNION {ToSet(parts[i].obs) : i \in 1..2}
    BY <1>7, <1>9, AllIs
  <2>2. 1..2 = {1, 2}
    OBVIOUS
  <2>3. QED
    BY <1>7, <2>1, <2>2
<1>11. PICK r : r = StrictError(All(parts))
  OBVIOUS
<1>12. IsResult(r) /\ (r.err <=> config.strict /\ All(parts).err) /\ r.obs = All(parts).obs
  BY <1>10, <1>11, StrictErrorIs
<1>13. All(parts).err => ToSet(r.obs) = {}
  BY <1>10, <1>12, ShortLists DEF IsResult
<1>14. ASSUME NEW o \in ToSet(r.obs), IsStatsPath(o.source)
       PROVE  o.source = StatsOf(t) /\ ~Lost(StatsOf(t))
  <2>1. ~All(parts).err
    BY <1>13, <1>14
  <2>2. o \in ToSet(s.obs) /\ ~s.err
    BY <1>5, <1>10, <1>12, <1>14, <2>1 DEF IsOther
  <2>3. QED
    BY <1>3, <2>2 DEF IsStatsOf, From
<1>15. ASSUME ~r.err, ~Lost(StatsOf(t))
       PROVE  ShowsStats(t, r)
  <2>1. ~s.err /\ ~All(parts).err
    BY <1>3, <1>5, <1>10, <1>12, <1>15 DEF IsStatsOf
  <2>2. ToSet(s.obs) \subseteq ToSet(r.obs)
    BY <1>10, <1>12, <2>1
  <2>3. QED
    BY <1>3, <2>1, <2>2 DEF IsStatsOf, ShowsStats
<1>16. ~r.err /\ config.strict => ~Lost(StatsOf(t))
  BY <1>3, <1>10, <1>12 DEF IsStatsOf
<1>17. QED
  BY <1>8, <1>11, <1>12, <1>14, <1>15, <1>16 DEF IsOfTarget

\* An import: its stats, its rpc_stats, and its parameters.
LEMMA OBDIsOfTarget ==
  ASSUME HostInv, config.strict \in BOOLEAN, NEW t
  PROVE  IsOfTarget(t, All(<<StrictError(CollectOBDStats(t)), StrictError(CollectRPCStats(t)),
                             Params(t)>>))
<1>1. PICK path : path = StatsOf(t)
  OBVIOUS
<1>2. PICK c : c = CollectOBDStats(t)
  OBVIOUS
<1>4. IsResult(c) /\ (t.stats # NoPath => IsStatsOf(t, c)) /\ (t.stats = NoPath => c = Parsed(<<>>))
  <2>1. CASE t.stats = NoPath
    BY <1>2, <2>1, ShortLists, Results DEF CollectOBDStats
  <2>2. CASE t.stats # NoPath
    <3>1. c = IF Readable(path) THEN ParseOBDStats(Lines(path), path, t.name, t.component) ELSE Failed
      BY <1>1, <1>2, <2>2, SinglePath DEF CollectOBDStats, ParseFirst, StatsOf
    <3>2. IsStatsOf(t, c)
      BY <1>1, <3>1, LinesAreLists, OBDStatsAreWhole, ReadStatsIs
    <3>3. QED
      BY <2>2, <3>2 DEF IsStatsOf
  <2>3. QED
    BY <2>1, <2>2
<1>5. PICK s, q, p : /\ s = StrictError(c)
                     /\ q = StrictError(CollectRPCStats(t))
                     /\ p = Params(t)
  OBVIOUS
<1>6. IsResult(s) /\ (s.err <=> config.strict /\ c.err) /\ s.obs = c.obs
  BY <1>4, <1>5, StrictErrorIs
<1>7. IsOther(q) /\ IsOther(p)
  <2>1. IsOther(CollectRPCStats(t))
    BY CollectRPCStatsIsOther
  <2>2. QED
    BY <1>5, <2>1, StrictErrorIs, ParamsAreOther DEF IsOther
<1>8. PICK parts : parts = <<s, q, p>>
  OBVIOUS
<1>9. DOMAIN parts = 1..3 /\ parts[1] = s /\ parts[2] = q /\ parts[3] = p
  BY <1>8
<1>10. /\ IsResult(All(parts))
       /\ All(parts).err <=> s.err \/ q.err \/ p.err
       /\ ~All(parts).err => ToSet(All(parts).obs) = ToSet(s.obs) \cup ToSet(q.obs) \cup ToSet(p.obs)
  <2>1. \A i \in 1..3 : IsResult(parts[i])
    BY <1>6, <1>7, <1>9 DEF IsOther
  <2>2. /\ IsResult(All(parts))
        /\ All(parts).err <=> \E i \in 1..3 : parts[i].err
        /\ ~All(parts).err => ToSet(All(parts).obs) = UNION {ToSet(parts[i].obs) : i \in 1..3}
    BY <1>9, <2>1, AllIs
  <2>3. 1..3 = {1, 2, 3}
    OBVIOUS
  <2>4. QED
    BY <1>9, <2>2, <2>3
<1>11. PICK r : r = All(parts)
  OBVIOUS
<1>12. ASSUME NEW o \in ToSet(r.obs), IsStatsPath(o.source)
       PROVE  o.source = StatsOf(t) /\ ~Lost(StatsOf(t))
  <2>1. ~r.err
    BY <1>10, <1>11, <1>12, ShortLists DEF IsResult
  <2>2. o \in ToSet(c.obs)
    BY <1>6, <1>7, <1>10, <1>11, <1>12, <2>1 DEF IsOther
  <2>3. IsStatsOf(t, c)
    BY <1>4, <2>2, ShortLists, Results
  <2>4. ~c.err
    BY <1>4, <2>2, ShortLists DEF IsResult
  <2>5. QED
    BY <2>2, <2>3, <2>4 DEF IsStatsOf, From
<1>13. ASSUME ~r.err, t.stats # NoPath, ~Lost(StatsOf(t))
       PROVE  ShowsStats(t, r)
  <2>1. ~c.err /\ IsStatsOf(t, c)
    BY <1>4, <1>13 DEF IsStatsOf
  <2>2. ToSet(c.obs) \subseteq ToSet(r.obs)
    BY <1>6, <1>10, <1>11, <1>13
  <2>3. QED
    BY <2>1, <2>2 DEF IsStatsOf, ShowsStats
<1>14. ~r.err /\ t.stats # NoPath /\ config.strict => ~Lost(StatsOf(t))
  BY <1>4, <1>6, <1>10, <1>11 DEF IsStatsOf
<1>15. IsOfTarget(t, r)
  BY <1>10, <1>11, <1>12, <1>13, <1>14 DEF IsOfTarget
<1>16. QED
  BY <1>2, <1>5, <1>8, <1>11, <1>15

\* Any target.
LEMMA CollectedOfTarget ==
  ASSUME HostInv, config.strict \in BOOLEAN, NEW t
  PROVE  IsOfTarget(t, CollectTarget(t))
BY LLiteIsOfTarget, OBDIsOfTarget DEF CollectTarget

-----------------------------------------------------------------------------
(* The targets that discovery finds.                                       *)

\* The names that a pattern matches.
FoundBy(p) == {n \in Names : State(<<p.root, p.component, n, p.file>>) # "absent"}

\* The targets of which a file exists.
Existing ==
  {t \in ClientTarget : \E p \in Pattern : p.component = t.component /\ t.name \in FoundBy(p)}

\* A list of them, and the position of each at its key, so that no target is
\* in the list twice.
KeyOf(t) == <<t.component, t.name>>

IsIndex(idx) ==
  /\ idx = [targets |-> idx.targets, seen |-> idx.seen]
  /\ idx.targets \in Seq(Existing)
  /\ \A i \in DOMAIN idx.targets :
       KeyOf(idx.targets[i]) \in DOMAIN idx.seen /\ idx.seen[KeyOf(idx.targets[i])] = i

\* A list of which one member is replaced.
LEMMA ReplacedMember ==
  ASSUME NEW V, NEW s \in Seq(V), NEW k, NEW v \in V
  PROVE  [s EXCEPT ![k] = v] \in Seq(V)
<1>1. s \in [1..Len(s) -> V] /\ Len(s) \in Nat
  OBVIOUS
<1>2. [s EXCEPT ![k] = v] \in [1..Len(s) -> V]
  BY <1>1
<1>3. QED
  BY <1>1, <1>2

\* A match names a target that exists.
LEMMA AddMatchKeeps ==
  ASSUME NEW idx, IsIndex(idx), NEW p \in Pattern, NEW n \in FoundBy(p)
  PROVE  IsIndex(AddMatch(idx, p, n))
<1>1. /\ p.component \in Components /\ p.root \in RootNames /\ n \in Names
      /\ p.file \in {"stats", "rpc_stats"}
  BY DEF Pattern, FoundBy
<1>2. ASSUME NEW t \in ClientTarget, t.component = p.component, t.name = n, ~Seen(idx, KeyOf(t))
      PROVE  IsIndex(AddTarget(idx, KeyOf(t), t))
  <2>1. t \in Existing
    BY <1>2 DEF Existing
  <2>2. PICK old, index, key : old = idx.targets /\ index = idx.seen /\ key = KeyOf(t)
    OBVIOUS
  <2>3. PICK new, now : /\ new = Append(old, t)
                        /\ now = [k \in DOMAIN index \cup {key} |->
                                    IF k = key THEN Len(old) + 1 ELSE index[k]]
    OBVIOUS
  <2>4. AddTarget(idx, key, t) = [targets |-> new, seen |-> now]
    BY <2>2, <2>3 DEF AddTarget
  <2>5. old \in Seq(Existing) /\ new \in Seq(Existing)
    BY <2>1, <2>2, <2>3 DEF IsIndex
  <2>6. ASSUME NEW i \in DOMAIN new
        PROVE  KeyOf(new[i]) \in DOMAIN now /\ now[KeyOf(new[i])] = i
    <3>1. i \in DOMAIN old \/ i = Len(old) + 1
      BY <2>3, <2>5
    <3>2. CASE i \in DOMAIN old
      <4>1. new[i] = old[i] /\ KeyOf(old[i]) \in DOMAIN index /\ index[KeyOf(old[i])] = i
        BY <2>2, <2>3, <2>5, <3>2 DEF IsIndex
      <4>2. key \notin DOMAIN index
        BY <1>2, <2>2 DEF Seen
      <4>3. QED
        BY <2>3, <4>1, <4>2
    <3>3. CASE i = Len(old) + 1
      <4>1. new[i] = t
        BY <2>3, <2>5, <3>3
      <4>2. QED
        BY <2>2, <2>3, <3>3, <4>1
    <3>4. QED
      BY <3>1, <3>2, <3>3
  <2>7. QED
    BY <2>2, <2>4, <2>5, <2>6 DEF IsIndex
<1>3. IsIndex(AddStats(idx, p, n))
  <2>1. PICK t : t = [component |-> p.component, name |-> n, stats |-> p.root, rpc_stats |-> NoPath]
    OBVIOUS
  <2>2. t \in ClientTarget
    BY <1>1, <2>1 DEF ClientTarget
  <2>3. KeyOf(t) = <<p.component, n>>
    BY <2>1 DEF KeyOf
  <2>4. ~Seen(idx, KeyOf(t)) => IsIndex(AddTarget(idx, KeyOf(t), t))
    BY <1>2, <2>1, <2>2
  <2>5. QED
    BY <2>1, <2>3, <2>4 DEF AddStats
<1>4. IsIndex(AddRPCStats(idx, p, n))
  <2>1. PICK t : t = [component |-> p.component, name |-> n, stats |-> NoPath, rpc_stats |-> p.root]
    OBVIOUS
  <2>2. t \in ClientTarget
    BY <1>1, <2>1 DEF ClientTarget
  <2>3. /\ KeyOf(t) = <<p.component, n>>
        /\ ~Seen(idx, KeyOf(t)) => IsIndex(AddTarget(idx, KeyOf(t), t))
    BY <1>2, <2>1, <2>2 DEF KeyOf
  <2>4. PICK k : k = idx.seen[<<p.component, n>>]
    OBVIOUS
  <2>5. PICK other : other = [idx EXCEPT !.targets[k].rpc_stats = p.root]
    OBVIOUS
  <2>6. IsIndex(other)
    <3>1. other = [targets |-> [idx.targets EXCEPT ![k].rpc_stats = p.root], seen |-> idx.seen]
      BY <2>5 DEF IsIndex
    <3>2. [idx.targets EXCEPT ![k].rpc_stats = p.root] \in Seq(Existing)
      <4>1. PICK s : s = idx.targets
        OBVIOUS
      <4>2. s \in Seq(Existing)
        BY <4>1 DEF IsIndex
      <4>3. CASE k \in DOMAIN s
        <5>1. s[k] \in Existing
          BY <4>2, <4>3
        <5>2. PICK u : u = [s[k] EXCEPT !.rpc_stats = p.root]
          OBVIOUS
        <5>3. u \in ClientTarget /\ u.component = s[k].component /\ u.name = s[k].name
          BY <1>1, <5>1, <5>2 DEF Existing, ClientTarget
        <5>4. u \in Existing
          BY <5>1, <5>3 DEF Existing
        <5>5. [s EXCEPT ![k] = u] \in Seq(Existing)
          BY <4>2, <5>4, ReplacedMember
        <5>6. QED
          BY <4>1, <5>2, <5>5
      <4>4. CASE k \notin DOMAIN s
        <5>1. [s EXCEPT ![k].rpc_stats = p.root] = s
          BY <4>2, <4>4
        <5>2. QED
          BY <4>1, <4>2, <5>1
      <4>5. QED
        BY <4>3, <4>4
    <3>3. PICK new : new = [idx.targets EXCEPT ![k].rpc_stats = p.root]
      OBVIOUS
    <3>4. ASSUME NEW i \in DOMAIN new
          PROVE  i \in DOMAIN idx.targets /\ KeyOf(new[i]) = KeyOf(idx.targets[i])
      BY <3>3, <3>4 DEF KeyOf
    <3>5. QED
      BY <3>1, <3>2, <3>3, <3>4 DEF IsIndex
  <2>7. \/ /\ ~Seen(idx, KeyOf(t))
           /\ AddRPCStats(idx, p, n) = AddTarget(idx, KeyOf(t), t)
        \/ AddRPCStats(idx, p, n) = idx
        \/ AddRPCStats(idx, p, n) = other
    BY <2>1, <2>3, <2>4, <2>5 DEF AddRPCStats
  <2>8. QED
    BY <2>3, <2>6, <2>7
<1>5. QED
  BY <1>1, <1>3, <1>4 DEF AddMatch

\* All matches of a pattern.
LEMMA AddMatchesKeeps ==
  ASSUME NEW idx, IsIndex(idx), NEW p \in Pattern, NEW matches \in Seq(FoundBy(p))
  PROVE  IsIndex(AddMatches(idx, p, matches))
<1>1. PICK n \in Nat : DOMAIN matches = 1..n /\ \A i \in 1..n : matches[i] \in FoundBy(p)
  OBVIOUS
<1>2. PICK fold : fold = [by |-> "AddMatch", over |-> matches, pattern |-> p]
  OBVIOUS
<1>3. \A x, i : StepOf(fold, x, i) = AddMatch(x, p, matches[i])
  BY <1>2 DEF StepOf
<1>4. PICK f : f = (CHOOSE g : g = [s \in SUBSET (DOMAIN matches) |->
                      IF s = {} THEN idx ELSE AddMatch(g[s \ {Max(s)}], p, matches[Max(s)])])
  OBVIOUS
<1>5. AddMatches(idx, p, matches) = f[DOMAIN matches]
  BY <1>4 DEF AddMatches, FoldLeft, MapThenFoldSet
<1>6. IsFold(fold, idx, n, f)
  <2>1. PICK g : IsFold(fold, idx, n, g)
    BY FoldExists
  <2>2. g = [s \in SUBSET (DOMAIN matches) |->
               IF s = {} THEN idx ELSE AddMatch(g[s \ {Max(s)}], p, matches[Max(s)])]
    BY <1>1, <1>3, <2>1 DEF IsFold
  <2>3. f = [s \in SUBSET (DOMAIN matches) |->
               IF s = {} THEN idx ELSE AddMatch(f[s \ {Max(s)}], p, matches[Max(s)])]
    BY <1>4, <2>2
  <2>4. QED
    BY <1>1, <1>3, <2>3 DEF IsFold
<1>7. f[1..0] = idx /\ \A k \in 1..n : f[1..k] = AddMatch(f[1..(k - 1)], p, matches[k])
  <2>1. IsLoop(fold, idx, n, f)
    BY <1>6, FoldSteps, Zenon
  <2>2. QED
    BY <1>3, <2>1 DEF IsLoop
<1> DEFINE L == {k \in Nat : k \in 0..n => IsIndex(f[1..k])}
<1>8. 0 \in L
  BY <1>7
<1>9. ASSUME NEW k \in Nat, k \in L
      PROVE  k + 1 \in L
  <2>1. SUFFICES ASSUME k + 1 \in 0..n
                 PROVE  IsIndex(f[1..(k + 1)])
    OBVIOUS
  <2>2. k + 1 \in 1..n /\ (k + 1) - 1 = k /\ IsIndex(f[1..k])
    BY <1>9, <2>1
  <2>3. f[1..(k + 1)] = AddMatch(f[1..k], p, matches[k + 1])
    BY <1>7, <2>2
  <2>4. QED
    BY <1>1, <2>2, <2>3, AddMatchKeeps
<1> HIDE DEF L
<1>10. n \in L
  BY <1>8, <1>9, SetInduction
<1>11. QED
  BY <1>1, <1>5, <1>10 DEF L

\* The matches can be put in an order.
LEMMA MatchesAreSequence ==
  ASSUME NEW p
  PROVE  SetToSeq(FoundBy(p)) \in Seq(FoundBy(p))
<1>1. IsFiniteSet(FoundBy(p))
  BY ScrapeAssumption, FS_Subset DEF FoundBy
<1>2. PICK S : S = FoundBy(p)
  OBVIOUS
<1>3. Cardinality(S) \in Nat /\ \E f : f \in Bijection(1..Cardinality(S), S)
  BY <1>1, <1>2, FS_CardinalityType DEF ExistsBijection
<1>4. PICK f : f \in [1..Cardinality(S) -> S] /\ IsInjective(f)
  BY <1>3 DEF Bijection, Injection, IsInjective
<1>5. SetToSeq(S) \in [1..Cardinality(S) -> S]
  BY <1>4 DEF SetToSeq
<1>6. QED
  BY <1>2, <1>3, <1>5

\* The globs of discovery.
LEMMA PatternsAre ==
  Patterns \in Seq(Pattern)
<1>1. ASSUME NEW file \in {"stats", "rpc_stats"}, NEW component \in Components
      PROVE  PatternsOf(file, component) \in Seq(Pattern)
  <2>1. \A root \in RootNames :
          [file |-> file, component |-> component, root |-> root] \in Pattern
    BY DEF Pattern
  <2>2. "proc" \in RootNames /\ "sys" \in RootNames /\ "debug" \in RootNames
    BY DEF RootNames
  <2>3. \A a, b, c \in Pattern : <<a, b, c>> \in Seq(Pattern)
    OBVIOUS
  <2>4. QED
    BY <2>1, <2>2, <2>3 DEF PatternsOf
<1>2. \A s, t \in Seq(Pattern) : s \o t \in Seq(Pattern)
  OBVIOUS
<1>3. "llite" \in Components /\ "mdc" \in Components /\ "osc" \in Components
  BY DEF Components
<1>4. QED
  BY <1>1, <1>2, <1>3 DEF Patterns

\* Discovery finds targets that exist, and none of them twice.
LEMMA TargetsExist ==
  /\ Targets \in Seq(Existing)
  /\ \A i, j \in DOMAIN Targets : KeyOf(Targets[i]) = KeyOf(Targets[j]) => i = j
<1>1. PICK n \in Nat : DOMAIN Patterns = 1..n /\ \A i \in 1..n : Patterns[i] \in Pattern
  BY PatternsAre
<1>2. PICK matches : matches = [i \in DOMAIN Patterns |-> SetToSeq(FoundBy(Patterns[i]))]
  OBVIOUS
<1>3. PICK fold : fold = [by |-> "AddMatches", over |-> Patterns, matches |-> matches]
  OBVIOUS
<1>4. \A x : \A i \in 1..n : StepOf(fold, x, i) = AddMatches(x, Patterns[i], SetToSeq(FoundBy(Patterns[i])))
  BY <1>1, <1>2, <1>3 DEF StepOf
<1> DEFINE IsIter(g) == g = [s \in SUBSET (DOMAIN Patterns) |->
             IF s = {} THEN NewIndex
             ELSE AddMatches(g[s \ {Max(s)}], Patterns[Max(s)], SetToSeq(FoundBy(Patterns[Max(s)])))]
<1>5. PICK f : f = (CHOOSE g : IsIter(g))
  OBVIOUS
<1>6. Targets = f[DOMAIN Patterns].targets
  BY <1>5 DEF Targets, FoldLeft, MapThenFoldSet, FoundBy
<1>7. \A s \in SUBSET (1..n) : s # {} => Max(s) \in 1..n
  BY Greatest
<1>8. \A g : IsIter(g) <=> IsFold(fold, NewIndex, n, g)
  BY <1>1, <1>4, <1>7 DEF IsFold
<1>9. IsFold(fold, NewIndex, n, f)
  <2>1. PICK g : IsFold(fold, NewIndex, n, g)
    BY FoldExists
  <2>2. IsIter(g)
    BY <1>8, <2>1
  <2> HIDE DEF IsIter
  <2>3. IsIter(f)
    BY <1>5, <2>2
  <2>4. QED
    BY <1>8, <2>3
<1>10. /\ f[1..0] = NewIndex
       /\ \A k \in 1..n : f[1..k] = AddMatches(f[1..(k - 1)], Patterns[k], SetToSeq(FoundBy(Patterns[k])))
  <2>1. IsLoop(fold, NewIndex, n, f)
    BY <1>9, FoldSteps, Zenon
  <2>2. QED
    BY <1>4, <2>1 DEF IsLoop
<1> HIDE DEF IsIter
<1> DEFINE L == {k \in Nat : k \in 0..n => IsIndex(f[1..k])}
<1>11. 0 \in L
  <2>1. IsIndex(NewIndex)
    BY DEF NewIndex, IsIndex
  <2>2. QED
    BY <1>10, <2>1
<1>12. ASSUME NEW k \in Nat, k \in L
       PROVE  k + 1 \in L
  <2>1. SUFFICES ASSUME k + 1 \in 0..n
                 PROVE  IsIndex(f[1..(k + 1)])
    OBVIOUS
  <2>2. k + 1 \in 1..n /\ (k + 1) - 1 = k /\ IsIndex(f[1..k])
    BY <1>12, <2>1
  <2>3. f[1..(k + 1)] = AddMatches(f[1..k], Patterns[k + 1], SetToSeq(FoundBy(Patterns[k + 1])))
    BY <1>10, <2>2
  <2>4. QED
    BY <1>1, <2>2, <2>3, AddMatchesKeeps, MatchesAreSequence
<1> HIDE DEF L
<1>13. n \in L
  BY <1>11, <1>12, SetInduction
<1>14. IsIndex(f[DOMAIN Patterns])
  BY <1>1, <1>13 DEF L
<1>15. PICK idx : idx = f[DOMAIN Patterns]
  OBVIOUS
<1>16. \A i, j \in DOMAIN idx.targets : KeyOf(idx.targets[i]) = KeyOf(idx.targets[j]) => i = j
  BY <1>14, <1>15 DEF IsIndex
<1>17. QED
  BY <1>6, <1>14, <1>15, <1>16 DEF IsIndex

-----------------------------------------------------------------------------
(* The client collector.                                                   *)

\* The stats file of a target is in the result with all of its series, or with
\* none if it is lost, which in strict mode is a failure.
HasStatsOf(t, r) ==
  t.stats # NoPath =>
    /\ ~Lost(StatsOf(t)) => ShowsStats(t, r)
    /\ Lost(StatsOf(t)) => \A o \in ToSet(r.obs) : o.source # StatsOf(t)
    /\ config.strict => ~Lost(StatsOf(t))

\* The statistics of the LDLM.
LEMMA LDLMIsOther ==
  ASSUME HostInv
  PROVE  IsOther(ParseFirst(LDLMCBDStatsPaths, Parsed(<<>>), ParseLDLMCBDStats))
<1>1. PICK paths : paths = LDLMCBDStatsPaths
  OBVIOUS
<1>2. CASE Available(paths) = {}
  BY <1>1, <1>2, ShortLists, Results DEF ParseFirst, IsOther
<1>3. CASE Available(paths) # {}
  <2>1. DOMAIN paths = 1..2
    BY <1>1 DEF LDLMCBDStatsPaths, Under
  <2>2. PICK k \in DOMAIN paths : FirstAvailable(paths) = paths[k] /\ Readable(paths[k])
    BY <1>3, <2>1, FirstIs
  <2>3. PICK root : paths[k] = <<root>> \o <<"ldlm_cbd">>
    BY <1>1, <2>1 DEF LDLMCBDStatsPaths, Under
  <2>4. ~IsStatsPath(paths[k])
    BY <2>3, PathLengths DEF IsStatsPath
  <2>5. ParseFirst(LDLMCBDStatsPaths, Parsed(<<>>), ParseLDLMCBDStats) =
          ParseLDLMCBDStats(Lines(paths[k]), paths[k])
    BY <1>1, <1>3, <2>2 DEF ParseFirst
  <2>6. QED
    BY <2>2, <2>4, <2>5, LinesAreLists, LDLMStatsAreOther
<1>4. QED
  BY <1>2, <1>3

\* The client collector reads the locks, and then one target after the other.
LEMMA ClientIsAll ==
  ASSUME NEW m \in Nat, DOMAIN Targets = 1..m
  PROVE  \E parts :
           /\ ClientObservations = All(parts)
           /\ DOMAIN parts = 1..(m + 1)
           /\ parts[1] = StrictError(ParseFirst(LDLMCBDStatsPaths, Parsed(<<>>), ParseLDLMCBDStats))
           /\ \A i \in 1..m : i + 1 \in 1..(m + 1) /\ parts[i + 1] = CollectTarget(Targets[i])
<1>1. PICK targets : targets = Targets
  OBVIOUS
<1>2. PICK ldlm : ldlm = StrictError(ParseFirst(LDLMCBDStatsPaths, Parsed(<<>>), ParseLDLMCBDStats))
  OBVIOUS
<1>3. PICK of : of = [i \in DOMAIN targets |-> CollectTarget(targets[i])]
  OBVIOUS
<1>4. PICK parts : parts = <<ldlm>> \o of
  OBVIOUS
<1>5. /\ DOMAIN parts = 1..(m + 1)
      /\ parts[1] = ldlm
      /\ \A i \in 1..m : i + 1 \in 1..(m + 1) /\ parts[i + 1] = of[i]
  <2>1. PICK V : V = {ldlm} \cup ToSet(of)
    OBVIOUS
  <2>2. PICK one : one = <<ldlm>>
    OBVIOUS
  <2>3. one \in Seq(V) /\ Len(one) = 1 /\ one[1] = ldlm
    BY <2>1, <2>2
  <2>4. of \in [1..m -> V]
    BY <1>1, <1>3, <2>1 DEF ToSet
  <2>5. of \in Seq(V) /\ Len(of) = m
    BY <2>4
  <2>6. /\ Len(one \o of) = Len(one) + Len(of)
        /\ DOMAIN (one \o of) = 1..(Len(one) + Len(of))
        /\ \A i \in 1..(Len(one) + Len(of)) :
             (one \o of)[i] = IF i <= Len(one) THEN one[i] ELSE of[i - Len(one)]
    BY <2>3, <2>5, ConcatPositions
  <2>7. parts = one \o of
    BY <1>4, <2>2
  <2>8. \A i \in 1..(m + 1) : parts[i] = IF i <= 1 THEN one[i] ELSE of[i - 1]
    BY <2>3, <2>5, <2>6, <2>7
  <2>9. DOMAIN parts = 1..(m + 1)
    BY <2>3, <2>5, <2>6, <2>7
  <2>10. QED
    BY <2>3, <2>8, <2>9
<1>6. ClientObservations = All(parts)
  BY <1>1, <1>2, <1>3, <1>4 DEF ClientObservations
<1>7. \A i \in 1..m : of[i] = CollectTarget(Targets[i])
  BY <1>1, <1>3
<1>8. QED
  BY <1>2, <1>5, <1>6, <1>7

\* Every target has its stats in the result.
LEMMA ClientHasStats ==
  ASSUME HostInv, config.strict \in BOOLEAN, ~ClientObservations.err
  PROVE  /\ IsResult(ClientObservations)
         /\ \A i \in DOMAIN Targets : HasStatsOf(Targets[i], ClientObservations)
<1>1. PICK m \in Nat : DOMAIN Targets = 1..m
  BY TargetsExist
<1>2. PICK targets : targets = Targets
  OBVIOUS
<1>3. PICK ldlm : ldlm = StrictError(ParseFirst(LDLMCBDStatsPaths, Parsed(<<>>), ParseLDLMCBDStats))
  OBVIOUS
<1>4. IsOther(ldlm)
  BY <1>3, LDLMIsOther, StrictErrorIs DEF IsOther
<1>5. PICK r : r = ClientObservations
  OBVIOUS
<1>6. PICK parts :
        /\ ClientObservations = All(parts)
        /\ DOMAIN parts = 1..(m + 1)
        /\ parts[1] = StrictError(ParseFirst(LDLMCBDStatsPaths, Parsed(<<>>), ParseLDLMCBDStats))
        /\ \A i \in 1..m : i + 1 \in 1..(m + 1) /\ parts[i + 1] = CollectTarget(Targets[i])
  BY <1>1, ClientIsAll
<1>7. /\ r = All(parts)
      /\ DOMAIN parts = 1..(m + 1)
      /\ parts[1] = ldlm
      /\ \A i \in 1..m : i + 1 \in 1..(m + 1) /\ parts[i + 1] = CollectTarget(targets[i])
  BY <1>2, <1>3, <1>5, <1>6
<1>8. \A i \in 1..m : IsOfTarget(targets[i], parts[i + 1])
  BY <1>7, CollectedOfTarget
<1>9. \A i \in 1..(m + 1) : i = 1 \/ (i - 1 \in 1..m /\ (i - 1) + 1 = i)
  OBVIOUS
<1>10. \A i \in 1..(m + 1) : IsResult(parts[i])
  BY <1>4, <1>7, <1>8, <1>9 DEF IsOther, IsOfTarget
<1>13. /\ IsResult(r)
       /\ r.err <=> \E i \in 1..(m + 1) : parts[i].err
       /\ ~r.err => ToSet(r.obs) = UNION {ToSet(parts[i].obs) : i \in 1..(m + 1)}
  <2>1. m + 1 \in Nat
    OBVIOUS
  <2>2. QED
    BY <1>7, <1>10, <2>1, AllIs
<1>14. /\ \A i \in 1..(m + 1) : ~parts[i].err
       /\ ToSet(r.obs) = UNION {ToSet(parts[i].obs) : i \in 1..(m + 1)}
  BY <1>5, <1>13
<1>15. ASSUME NEW i \in 1..m, targets[i].stats # NoPath
       PROVE  HasStatsOf(targets[i], r)
  <2>1. PICK t : t = targets[i]
    OBVIOUS
  <2>2. /\ IsOfTarget(t, parts[i + 1]) /\ ~parts[i + 1].err
        /\ ToSet(parts[i + 1].obs) \subseteq ToSet(r.obs)
    BY <1>7, <1>8, <1>14, <2>1
  <2>3. ~Lost(StatsOf(t)) => ShowsStats(t, r)
    BY <1>15, <2>1, <2>2 DEF IsOfTarget, ShowsStats
  <2>4. config.strict => ~Lost(StatsOf(t))
    BY <1>15, <2>1, <2>2 DEF IsOfTarget
  <2>5. IsStatsPath(StatsOf(t))
    BY PathLengths DEF IsStatsPath, StatsOf, Path
  <2>6. ASSUME Lost(StatsOf(t)), NEW o \in ToSet(r.obs), o.source = StatsOf(t)
        PROVE  FALSE
    <3>1. PICK k \in 1..(m + 1) : o \in ToSet(parts[k].obs)
      BY <1>14, <2>6
    <3>2. k # 1
      BY <1>4, <1>7, <2>5, <2>6, <3>1 DEF IsOther
    <3>3. IsOfTarget(targets[k - 1], parts[k])
      BY <1>8, <1>9, <3>2
    <3>4. o.source = StatsOf(targets[k - 1]) /\ ~Lost(StatsOf(targets[k - 1]))
      BY <2>5, <2>6, <3>1, <3>3 DEF IsOfTarget
    <3>5. QED
      BY <2>6, <3>4
  <2>7. QED
    BY <2>1, <2>3, <2>4, <2>6 DEF HasStatsOf
<1>16. QED
  BY <1>1, <1>2, <1>5, <1>13, <1>15 DEF HasStatsOf

\* What the client collector returns, if it succeeds, are its observations.
LEMMA ClientCollects ==
  ASSUME ~Collect("client").err
  PROVE  /\ ~ClientObservations.err
         /\ Collect("client").obs = ClientObservations.obs
<1>1. Observations("client") = ClientObservations
  BY DEF Observations
<1>2. PICK r : r = ClientObservations
  OBVIOUS
<1>3. ~Emit(Map(r)).err /\ Collect("client").obs = r.obs
  BY <1>1, <1>2 DEF Collect
<1>4. ~Map(r).err
  BY <1>3 DEF Emit
<1>5. QED
  BY <1>2, <1>3, <1>4 DEF Map

-----------------------------------------------------------------------------
(* Invariants.                                                             *)

\* Every file is one that may be at its path, and an exporter that serves has a
\* valid command line.
TypeInv ==
  /\ TypeOK
  /\ \A path \in DOMAIN host : host[path] \in FilesAt(path)
  /\ phase \in {"serving", "collected"} => Valid

\* A step keeps the types.
LEMMA TypeInvStep ==
  ASSUME TypeInv, [Next]_vars
  PROVE  TypeInv'
<1>1. CASE Start
  BY <1>1 DEF Start, TypeInv, TypeOK, Valid
<1>2. ASSUME NEW path \in DOMAIN Contents, NEW file \in FilesAt(path), Edit(path, file)
      PROVE  TypeInv'
  <2>1. DOMAIN host' = DOMAIN host
        /\ \A p \in DOMAIN host : host'[p] = (IF p = path THEN file ELSE host[p])
    BY <1>2 DEF Edit
  <2>2. \A p \in DOMAIN host' : host'[p] \in FilesAt(p)
    BY <1>2, <2>1 DEF TypeInv, TypeOK
  <2>3. QED
    BY <1>2, <2>1, <2>2, ScrapeAssumption DEF Edit, TypeInv, TypeOK, Valid
<1>3. CASE Scrape
  BY <1>3 DEF Scrape, TypeInv, TypeOK, Valid
<1>4. CASE Idle \/ UNCHANGED vars
  BY <1>4 DEF Idle, vars, TypeInv, TypeOK, Valid
<1>5. QED
  BY <1>1, <1>2, <1>3, <1>4 DEF Next

\* The variables of a scrape keep their types, and only an exporter with a valid
\* command line ever answers (main.go:108-118).
THEOREM TypeCorrect == Spec => []TypeOK
<1>1. Init => TypeInv
  BY ScrapeAssumption DEF Init, TypeInv, TypeOK, FilesAt, Valid
<1>2. TypeInv /\ [Next]_vars => TypeInv'
  BY TypeInvStep
<1>3. TypeInv => TypeOK
  BY DEF TypeInv
<1>4. QED
  BY <1>1, <1>2, <1>3, PTL DEF Spec

\* What TypeInv says of the files and of the mode.
LEMMA TypeInvGives ==
  ASSUME TypeInv
  PROVE  HostInv /\ config.strict \in BOOLEAN
<1>1. HostInv
  BY ScrapeAssumption DEF TypeInv, TypeOK, HostInv
<1>2. config \in Config
  BY ScrapeAssumption DEF TypeInv, TypeOK
<1>3. QED
  BY <1>1, <1>2 DEF Config

\* The observations of the client collector and the stats of one target, as
\* StatsFilesAreWhole has it.
WholeIn(t, obs) ==
  LET readable == Readable(StatsOf(t))
      lines == Lines(StatsOf(t))
      named == {n \in DOMAIN lines : Named(lines[n])}
      shown == {n \in named : \A o \in ToSet(LLiteLine(lines[n], t.name, StatsOf(t))) : o \in ToSet(obs)}
  IN t.stats # NoPath =>
       /\ readable => shown \in {{}, named}
       /\ config.strict => readable /\ shown = named

\* It is what a successful collection has.
LEMMA HasStatsIsWhole ==
  ASSUME NEW t, NEW r, HasStatsOf(t, r)
  PROVE  WholeIn(t, r.obs)
<1>1. PICK lines : lines = Lines(StatsOf(t))
  OBVIOUS
<1>2. PICK named : named = {n \in DOMAIN lines : Named(lines[n])}
  OBVIOUS
<1>3. PICK shown : shown = {n \in named :
        \A o \in ToSet(LLiteLine(lines[n], t.name, StatsOf(t))) : o \in ToSet(r.obs)}
  OBVIOUS
<1>4. CASE t.stats = NoPath
  BY <1>4 DEF WholeIn
<1>5. CASE t.stats # NoPath /\ ~Lost(StatsOf(t))
  <2>1. shown = named
    BY <1>1, <1>2, <1>3, <1>5 DEF HasStatsOf, ShowsStats
  <2>2. QED
    BY <1>1, <1>2, <1>3, <1>5, <2>1 DEF WholeIn, Lost
<1>6. CASE t.stats # NoPath /\ Lost(StatsOf(t))
  <2>1. ~config.strict /\ \A o \in ToSet(r.obs) : o.source # StatsOf(t)
    BY <1>6 DEF HasStatsOf
  <2>2. shown = {}
    BY <1>3, <2>1, LLiteLineIs
  <2>3. QED
    BY <1>1, <1>2, <1>3, <2>1, <2>2 DEF WholeIn
<1>7. QED
  BY <1>4, <1>5, <1>6

\* StatsFilesAreWhole, by targets.
WholeForAll ==
  phase = "collected" /\ "client" \in DOMAIN results /\ ~results["client"].err =>
    \A i \in DOMAIN Targets : WholeIn(Targets[i], results["client"].obs)

LEMMA WholeForAllIs ==
  WholeForAll => StatsFilesAreWhole
BY DEF WholeForAll, StatsFilesAreWhole, ClientIsFresh, Succeeded, WholeIn, Shown, Observed, StatsOf

\* The targets depend on the host only.
LEMMA SameHost ==
  ASSUME host' = host
  PROVE  /\ Targets' = Targets
         /\ \A path : Readable(path)' <=> Readable(path)
         /\ \A path : Lines(path)' = Lines(path)
<1>1. \A path : State(path)' = State(path)
  BY DEF State
<1>2. Targets' = Targets
  BY DEF Targets, State, FoldLeft, MapThenFoldSet
<1>3. QED
  BY <1>1, <1>2 DEF Readable, Lines

\* In the step Scrape.
LEMMA ScrapeIsWhole ==
  ASSUME TypeInv, Scrape
  PROVE  WholeForAll'
<1>1. SUFFICES ASSUME "client" \in DOMAIN results', ~results'["client"].err
               PROVE  \A i \in DOMAIN Targets' : WholeIn(Targets[i], results["client"].obs)'
  BY DEF WholeForAll
<1>2. /\ host' = host /\ config' = config
      /\ results'["client"] = Collect("client")
  BY <1>1 DEF Scrape
<1>3. ~Collect("client").err
  BY <1>1, <1>2
<1>4. PICK r : r = ClientObservations
  OBVIOUS
<1>5. ~r.err /\ results'["client"].obs = r.obs
  BY <1>2, <1>3, <1>4, ClientCollects
<1>6. \A i \in DOMAIN Targets : WholeIn(Targets[i], r.obs)
  BY <1>4, <1>5, TypeInvGives, ClientHasStats, HasStatsIsWhole
<1>7. Targets' = Targets
  BY <1>2, SameHost
<1>8. ASSUME NEW i \in DOMAIN Targets
      PROVE  WholeIn(Targets[i], results["client"].obs)'
  <2>1. PICK t, obs : t = Targets[i] /\ obs = r.obs
    OBVIOUS
  <2>2. WholeIn(t, obs)
    BY <1>6, <2>1
  <2>3. t = Targets'[i] /\ obs = results'["client"].obs
    BY <1>5, <1>7, <2>1
  <2>4. QED
    BY <1>2, <2>2, <2>3 DEF WholeIn, StatsOf, Path, Readable, State, Lines
<1>9. QED
  BY <1>7, <1>8

\* A stats file is in the answer with all of its series or with none, and in
\* strict mode with all, whatever the files of the host are and whatever else
\* fails (llite.go:38-46, obd_stats.go:25-30, client.go:107-118, 189-200).
THEOREM NoPartOfAStatsFile == Spec => []StatsFilesAreWhole
<1> DEFINE Inv == TypeInv /\ WholeForAll
<1>1. Init => Inv
  BY ScrapeAssumption DEF Init, TypeInv, TypeOK, FilesAt, Valid, WholeForAll
<1>2. ASSUME Inv, [Next]_vars
      PROVE  Inv'
  <2>1. TypeInv'
    BY <1>2, TypeInvStep
  <2>2. CASE Scrape
    BY <1>2, <2>1, <2>2, ScrapeIsWhole
  <2>3. CASE Start \/ \E path \in DOMAIN Contents :
                        \E file \in FilesAt(path) : Edit(path, file)
    <3>1. phase' # "collected"
      BY <2>3 DEF Start, Edit
    <3>2. QED
      BY <2>1, <3>1 DEF WholeForAll
  <2>4. CASE Idle \/ UNCHANGED vars
    <3>1. /\ host' = host /\ config' = config /\ results' = results /\ phase' = phase
      BY <2>4 DEF Idle, vars
    <3>2. Targets' = Targets
      BY <3>1, SameHost
    <3>3. SUFFICES ASSUME phase = "collected", "client" \in DOMAIN results, ~results["client"].err,
                          NEW i \in DOMAIN Targets
                   PROVE  WholeIn(Targets[i], results["client"].obs)'
      BY <2>1, <3>1, <3>2 DEF WholeForAll
    <3>4. PICK t, obs : t = Targets[i] /\ obs = results["client"].obs
      OBVIOUS
    <3>5. WholeIn(t, obs)
      BY <1>2, <3>3, <3>4 DEF WholeForAll
    <3>6. t = Targets'[i] /\ obs = results'["client"].obs
      BY <3>1, <3>2, <3>4
    <3>7. QED
      BY <3>1, <3>5, <3>6 DEF WholeIn, StatsOf, Path, Readable, State, Lines
  <2>5. QED
    BY <1>2, <2>2, <2>3, <2>4 DEF Next
<1>3. Inv => StatsFilesAreWhole
  BY WholeForAllIs
<1>4. QED
  BY <1>1, <1>2, <1>3, PTL DEF Spec

-----------------------------------------------------------------------------
(* The state of an import.                                                 *)

IsCurrent(line) == line.start = "current_state:"
IsWord(line) == line.start \notin {"current_state:", "history"}

\* What the parser has of the first k lines: the last current state or, if there
\* is none, the first word.
HasState(s, lines, k) ==
  /\ s = [foundCurrent |-> s.foundCurrent, current |-> s.current, fallback |-> s.fallback]
  /\ s.foundCurrent \in BOOLEAN
  /\ s.foundCurrent =>
       \E i \in 1..k : /\ IsCurrent(lines[i]) /\ s.current = lines[i].token
                       /\ \A j \in 1..k : IsCurrent(lines[j]) => j <= i
  /\ ~s.foundCurrent => \A j \in 1..k : ~IsCurrent(lines[j])
  /\ ~s.foundCurrent /\ s.fallback = "" => \A j \in 1..k : ~IsWord(lines[j])
  /\ ~s.foundCurrent /\ s.fallback # "" =>
       \E i \in 1..k : /\ IsWord(lines[i]) /\ s.fallback = lines[i].token
                       /\ \A j \in 1..k : IsWord(lines[j]) => i <= j

\* Positions, and one more.
LEMMA Positions ==
  ASSUME NEW k \in Nat
  PROVE  /\ k + 1 \in 1..(k + 1)
         /\ \A j \in 1..(k + 1) : (j = k + 1 \/ j \in 1..k) /\ j <= k + 1
         /\ \A j \in 1..k : j \in 1..(k + 1)
OBVIOUS

\* One line more.
LEMMA StateLineKeeps ==
  ASSUME NEW lines, NEW k \in Nat, NEW s, HasState(s, lines, k),
         IsWord(lines[k + 1]) => lines[k + 1].token # ""
  PROVE  HasState(StateLine(s, lines[k + 1]), lines, k + 1)
<1>1. PICK line : line = lines[k + 1]
  OBVIOUS
<1>2. PICK t : t = StateLine(s, line)
  OBVIOUS
<1>3. k + 1 \in 1..(k + 1) /\ \A j \in 1..(k + 1) : (j = k + 1 \/ j \in 1..k) /\ j <= k + 1
  BY Positions, Zenon
<1>4. \A j \in 1..k : j \in 1..(k + 1)
  BY Positions, Zenon
<1>5. CASE IsCurrent(line)
  <2>1. /\ t = [s EXCEPT !.foundCurrent = TRUE, !.current = line.token]
    BY <1>2, <1>5 DEF StateLine, IsCurrent
  <2>2. /\ t = [foundCurrent |-> TRUE, current |-> line.token, fallback |-> s.fallback]
    BY <2>1 DEF HasState
  <2>3. t.foundCurrent = TRUE /\ t.current = line.token /\ t.fallback = s.fallback
    BY <2>2
  <2>4. QED
    BY <1>1, <1>2, <1>3, <1>5, <2>2, <2>3 DEF HasState
<1>6. CASE ~IsCurrent(line) /\ (s.foundCurrent \/ s.fallback # "" \/ ~IsWord(line))
  <2>1. t = s
    BY <1>2, <1>6 DEF StateLine, IsCurrent, IsWord
  <2>2. s.foundCurrent =>
          \E i \in 1..(k + 1) : /\ IsCurrent(lines[i]) /\ s.current = lines[i].token
                                /\ \A j \in 1..(k + 1) : IsCurrent(lines[j]) => j <= i
    BY <1>1, <1>3, <1>4, <1>6 DEF HasState
  <2>3. ~s.foundCurrent => \A j \in 1..(k + 1) : ~IsCurrent(lines[j])
    BY <1>1, <1>3, <1>6 DEF HasState
  <2>4. ~s.foundCurrent /\ s.fallback = "" => \A j \in 1..(k + 1) : ~IsWord(lines[j])
    BY <1>1, <1>3, <1>6 DEF HasState
  <2>5. ~s.foundCurrent /\ s.fallback # "" =>
          \E i \in 1..(k + 1) : /\ IsWord(lines[i]) /\ s.fallback = lines[i].token
                                /\ \A j \in 1..(k + 1) : IsWord(lines[j]) => i <= j
    BY <1>3, <1>4 DEF HasState
  <2>6. QED
    BY <1>1, <1>2, <2>1, <2>2, <2>3, <2>4, <2>5 DEF HasState
<1>7. CASE ~IsCurrent(line) /\ ~s.foundCurrent /\ s.fallback = "" /\ IsWord(line)
  <2>1. t = [s EXCEPT !.fallback = line.token]
    BY <1>2, <1>7 DEF StateLine, IsCurrent, IsWord
  <2>2. t = [foundCurrent |-> s.foundCurrent, current |-> s.current, fallback |-> line.token]
    BY <2>1 DEF HasState
  <2>3. t.foundCurrent = s.foundCurrent /\ t.current = s.current /\ t.fallback = line.token
    BY <2>2
  <2>4. ~t.foundCurrent /\ t.fallback # ""
    BY <1>1, <1>7, <2>3
  <2>5. \A j \in 1..(k + 1) : ~IsCurrent(lines[j])
    BY <1>1, <1>3, <1>7 DEF HasState
  <2>6. \A j \in 1..(k + 1) : IsWord(lines[j]) => j = k + 1
    BY <1>3, <1>7 DEF HasState
  <2>7. \E i \in 1..(k + 1) : /\ IsWord(lines[i]) /\ t.fallback = lines[i].token
                              /\ \A j \in 1..(k + 1) : IsWord(lines[j]) => i <= j
    BY <1>1, <1>3, <1>7, <2>3, <2>6
  <2>8. QED
    BY <1>1, <1>2, <1>7, <2>2, <2>3, <2>4, <2>5, <2>7 DEF HasState
<1>8. QED
  BY <1>5, <1>6, <1>7 DEF HasState

\* What the parser has in the end is the state of the lines.
LEMMA EndHasState ==
  ASSUME NEW lines, NEW n \in Nat, DOMAIN lines = 1..n, NEW s, HasState(s, lines, n)
  PROVE  (IF s.foundCurrent THEN s.current ELSE s.fallback) = StateOf(lines)
<1>1. PICK current, other : /\ current = {i \in DOMAIN lines : lines[i].start = "current_state:"}
                            /\ other = {i \in DOMAIN lines : lines[i].start # "history"}
  OBVIOUS
<1>2. \A i : i \in current <=> i \in 1..n /\ IsCurrent(lines[i])
  BY <1>1 DEF IsCurrent
<1>3. CASE s.foundCurrent
  <2>1. PICK i \in 1..n : /\ IsCurrent(lines[i]) /\ s.current = lines[i].token
                          /\ \A j \in 1..n : IsCurrent(lines[j]) => j <= i
    BY <1>3 DEF HasState
  <2>2. PICK c : c = CHOOSE k \in current : \A j \in current : j <= k
    OBVIOUS
  <2>3. i \in current /\ \A j \in current : j <= i
    BY <1>2, <2>1
  <2>4. c \in current /\ \A j \in current : j <= c
    BY <2>2, <2>3
  <2>5. c = i
    BY <1>2, <2>3, <2>4
  <2>6. StateOf(lines) = lines[c].token
    BY <1>1, <2>2, <2>3 DEF StateOf
  <2>7. QED
    BY <1>3, <2>1, <2>5, <2>6
<1>4. CASE ~s.foundCurrent /\ s.fallback = ""
  <2>1. current = {} /\ other = {}
    BY <1>1, <1>2, <1>4 DEF HasState, IsWord, IsCurrent
  <2>2. StateOf(lines) = ""
    BY <1>1, <2>1 DEF StateOf
  <2>3. QED
    BY <1>4, <2>2
<1>5. CASE ~s.foundCurrent /\ s.fallback # ""
  <2>1. PICK i \in 1..n : /\ IsWord(lines[i]) /\ s.fallback = lines[i].token
                          /\ \A j \in 1..n : IsWord(lines[j]) => i <= j
    BY <1>5 DEF HasState
  <2>2. current = {} /\ \A j : j \in other <=> j \in 1..n /\ IsWord(lines[j])
    BY <1>1, <1>2, <1>5 DEF HasState, IsWord, IsCurrent
  <2>3. PICK c : c = CHOOSE k \in other : \A j \in other : k <= j
    OBVIOUS
  <2>4. i \in other /\ \A j \in other : i <= j
    BY <2>1, <2>2
  <2>5. c \in other /\ \A j \in other : c <= j
    BY <2>3, <2>4
  <2>6. c = i
    BY <2>2, <2>4, <2>5
  <2>7. StateOf(lines) = lines[c].token
    BY <1>1, <2>2, <2>3, <2>4 DEF StateOf
  <2>8. QED
    BY <1>5, <2>1, <2>6, <2>7
<1>6. QED
  BY <1>3, <1>4, <1>5 DEF HasState

\* A word is not empty.
HasWords(lines) == \A i \in DOMAIN lines : IsWord(lines[i]) => lines[i].token # ""

\* The fold over the lines of a state file.
LEMMA StateFold ==
  ASSUME NEW lines, NEW n \in Nat, DOMAIN lines = 1..n, HasWords(lines),
         NEW base, HasState(base, lines, 0)
  PROVE  HasState(FoldLeft(StateLine, base, lines), lines, n)
<1>1. PICK fold : fold = [by |-> "StateLine", over |-> lines]
  OBVIOUS
<1>2. \A x, i : StepOf(fold, x, i) = StateLine(x, lines[i])
  BY <1>1 DEF StepOf
<1>3. PICK f : f = (CHOOSE g : g = [s \in SUBSET (DOMAIN lines) |->
                      IF s = {} THEN base ELSE StateLine(g[s \ {Max(s)}], lines[Max(s)])])
  OBVIOUS
<1>4. FoldLeft(StateLine, base, lines) = f[DOMAIN lines]
  BY <1>3 DEF FoldLeft, MapThenFoldSet
<1>5. IsFold(fold, base, n, f)
  <2>1. PICK g : IsFold(fold, base, n, g)
    BY FoldExists
  <2>2. g = [s \in SUBSET (DOMAIN lines) |->
               IF s = {} THEN base ELSE StateLine(g[s \ {Max(s)}], lines[Max(s)])]
    BY <1>2, <2>1 DEF IsFold
  <2>3. f = [s \in SUBSET (DOMAIN lines) |->
               IF s = {} THEN base ELSE StateLine(f[s \ {Max(s)}], lines[Max(s)])]
    BY <1>3, <2>2
  <2>4. QED
    BY <1>2, <2>3 DEF IsFold
<1>6. f[1..0] = base /\ \A k \in 1..n : f[1..k] = StateLine(f[1..(k - 1)], lines[k])
  <2>1. IsLoop(fold, base, n, f)
    BY <1>5, FoldSteps, Zenon
  <2>2. QED
    BY <1>2, <2>1 DEF IsLoop
<1> DEFINE L == {k \in Nat : k \in 0..n => HasState(f[1..k], lines, k)}
<1>7. 0 \in L
  BY <1>6
<1>8. ASSUME NEW k \in Nat, k \in L
      PROVE  k + 1 \in L
  <2>1. SUFFICES ASSUME k + 1 \in 0..n
                 PROVE  HasState(f[1..(k + 1)], lines, k + 1)
    OBVIOUS
  <2>2. k + 1 \in 1..n /\ (k + 1) - 1 = k /\ HasState(f[1..k], lines, k)
    BY <1>8, <2>1
  <2>3. f[1..(k + 1)] = StateLine(f[1..k], lines[k + 1])
    BY <1>6, <2>2
  <2>4. IsWord(lines[k + 1]) => lines[k + 1].token # ""
    BY <2>2 DEF HasWords
  <2>5. QED
    BY <2>2, <2>3, <2>4, StateLineKeeps
<1> HIDE DEF L
<1>9. n \in L
  BY <1>7, <1>8, SetInduction
<1>10. QED
  BY <1>4, <1>9 DEF L

\* The parser's result for a state: an observation, or none if there is no state.
StateResult(state, name, component, path) ==
  IF state = "" THEN Parsed(<<>>)
  ELSE One("target_state", With(Client(name), [type |-> component, state |-> state]), path)

\* A state file is parsed to the state that its lines say.
LEMMA StateIs ==
  ASSUME NEW lines, IsList(lines), HasWords(lines), NEW name, NEW component, NEW path
  PROVE  ParseClientState(lines, path, name, component) =
           StateResult(StateOf(lines), name, component, path)
<1>1. PICK n \in Nat : DOMAIN lines = 1..n
  BY DEF IsList
<1>2. PICK base : base = [foundCurrent |-> FALSE, current |-> "", fallback |-> ""]
  OBVIOUS
<1>3. HasState(base, lines, 0)
  <2>1. 1..0 = {}
    OBVIOUS
  <2>2. base.foundCurrent = FALSE /\ base.current = "" /\ base.fallback = ""
    BY <1>2
  <2>3. QED
    BY <1>2, <2>1, <2>2 DEF HasState
<1>4. PICK end : end = FoldLeft(StateLine, base, lines)
  OBVIOUS
<1>5. HasState(end, lines, n)
  BY <1>1, <1>3, <1>4, StateFold
<1>6. (IF end.foundCurrent THEN end.current ELSE end.fallback) = StateOf(lines)
  BY <1>1, <1>5, EndHasState
<1>7. QED
  BY <1>2, <1>4, <1>6 DEF ParseClientState, StateResult

-----------------------------------------------------------------------------
(* The contract.                                                           *)

\* No identifier is in the contract twice.
LEMMA ContractIsUnique ==
  \A m, n \in Contract : m.id = n.id => m = n
BY DEF Contract, Health, Sptlrpc, LNetStats, LNetStatsByNID, LNetParams, LNetNIs,
       ClientCapacityAndIO, ClientOperations, ClientTunables, RPCStats, ImportFiles,
       LpccCaches, LpccMounts, ByNID, Metrics

\* A metric of the contract is found by its identifier.
LEMMA RegistryIs ==
  ASSUME NEW m \in Contract
  PROVE  m.id \in DOMAIN Registry /\ Registry[m.id] = m
<1>1. PICK n : n = CHOOSE k \in Contract : k.id = m.id
  OBVIOUS
<1>2. n \in Contract /\ n.id = m.id
  BY <1>1
<1>3. n = m
  BY <1>2, ContractIsUnique
<1>4. Registry[m.id] = n /\ m.id \in DOMAIN Registry
  BY <1>1 DEF Registry
<1>5. QED
  BY <1>3, <1>4

\* The metrics have these labels.
Gives(ids, keys) == \A id \in ids : id \in DOMAIN Registry /\ Registry[id].labels = keys

\* The metrics of a table have the labels of the table.
LEMMA MetricsGive ==
  ASSUME NEW type, NEW ids, NEW keys, Metrics(type, keys, ids) \subseteq Contract
  PROVE  Gives(ids, keys)
<1>1. ASSUME NEW id \in ids
      PROVE  id \in DOMAIN Registry /\ Registry[id].labels = keys
  <2>1. PICK m : m = [id |-> id, name |-> id, type |-> type, labels |-> keys]
    OBVIOUS
  <2>2. m \in Contract /\ m.id = id /\ m.labels = keys
    BY <2>1 DEF Metrics
  <2>3. QED
    BY <2>2, RegistryIs
<1>2. QED
  BY <1>1 DEF Gives

\* An observation with the labels of its metric, and no state of an import.
IsPlain(o) == HasItsLabels(o) /\ o.id # "target_state"

\* An observation with these labels is plain.
LEMMA Plain ==
  ASSUME NEW ids, NEW keys, Gives(ids, keys), NEW id \in ids, id # "target_state",
         NEW labels, DOMAIN labels = keys, NEW path
  PROVE  IsPlain(Observation(id, labels, path))
BY DEF Gives, IsPlain, HasItsLabels, Observation

\* A list of them.
ArePlain(obs) == IsList(obs) /\ \A o \in ToSet(obs) : IsPlain(o)

\* Lists of no and of one of them.
LEMMA PlainLists ==
  /\ ArePlain(<<>>)
  /\ \A o : IsPlain(o) => ArePlain(<<o>>)
BY ShortLists DEF ArePlain

\* One list after the other.
LEMMA ConcatPlain ==
  ASSUME NEW s, NEW t, ArePlain(s), ArePlain(t)
  PROVE  ArePlain(s \o t)
BY ConcatLists DEF ArePlain

\* One observation for each identifier of a list.
LEMMA EachPlain ==
  ASSUME NEW n \in Nat, NEW ids, DOMAIN ids = 1..n, NEW labels, NEW path,
         \A i \in 1..n : IsPlain(Observation(ids[i], labels, path))
  PROVE  ArePlain(Each(ids, labels, path))
<1>1. PICK s : s = Each(ids, labels, path)
  OBVIOUS
<1>2. s = [i \in 1..n |-> Observation(ids[i], labels, path)]
  BY <1>1 DEF Each
<1>3. IsList(s)
  BY <1>2, MappedList
<1>4. \A o \in ToSet(s) : IsPlain(o)
  BY <1>2 DEF ToSet
<1>5. QED
  BY <1>1, <1>3, <1>4 DEF ArePlain

\* The lists of all lines.
LEMMA FlattenPlain ==
  ASSUME NEW lines, IsList(lines), NEW ss, DOMAIN ss = DOMAIN lines,
         ss = [i \in DOMAIN ss |-> ss[i]],
         \A i \in DOMAIN lines : ArePlain(ss[i])
  PROVE  ArePlain(FlattenSeq(ss))
<1>1. PICK n \in Nat : DOMAIN lines = 1..n
  BY DEF IsList
<1>2. \A i \in 1..n : IsList(ss[i])
  BY <1>1 DEF ArePlain
<1>3. IsList(FlattenSeq(ss)) /\ ToSet(FlattenSeq(ss)) = UNION {ToSet(ss[i]) : i \in 1..n}
  BY <1>1, <1>2, FlattenLists
<1>4. QED
  BY <1>1, <1>3 DEF ArePlain

\* A result whose observations have the labels of their metrics, and of which the
\* states of imports are these, unless it is a failure.
Yields(r, states) ==
  /\ IsResult(r)
  /\ \A o \in ToSet(r.obs) : HasItsLabels(o)
  /\ ~r.err => {o \in ToSet(r.obs) : o.id = "target_state"} = states

\* A failure has no observations; a list without states has none.
LEMMA PlainResults ==
  /\ \A states : Yields(Failed, states)
  /\ \A obs : ArePlain(obs) => Yields(Parsed(obs), {})
  /\ Yields(Parsed(<<>>), {})
<1>1. \A obs : ArePlain(obs) => Yields(Parsed(obs), {})
  BY Results DEF ArePlain, IsPlain, Yields
<1>2. QED
  BY <1>1, PlainLists, Results DEF Yields

\* A result without states is a list without states.
LEMMA YieldsPlain ==
  ASSUME NEW r, Yields(r, {})
  PROVE  IsResult(r) /\ ArePlain(r.obs)
<1>1. CASE r.err
  BY <1>1, PlainLists DEF Yields, IsResult
<1>2. CASE ~r.err
  <2>1. IsList(r.obs) /\ IsResult(r)
    BY DEF Yields, IsResult
  <2>2. \A o \in ToSet(r.obs) : HasItsLabels(o) /\ o.id # "target_state"
    BY <1>2 DEF Yields
  <2>3. QED
    BY <2>1, <2>2 DEF ArePlain, IsPlain
<1>3. QED
  BY <1>1, <1>2 DEF Yields, IsResult

-----------------------------------------------------------------------------
(* The parsers keep the contract.                                          *)

\* The label sets that the parsers build.
LEMMA LabelKeys ==
  /\ DOMAIN LNet = OfTarget
  /\ \A name : /\ DOMAIN Client(name) = OfTarget
               /\ \A type : DOMAIN With(Client(name), [type |-> type]) = OfImport
               /\ \A op : DOMAIN With(Client(name), [operation |-> op]) = OfTarget \cup {"operation"}
               /\ \A type, op : DOMAIN With(Client(name), [type |-> type, operation |-> op]) =
                                  OfImport \cup {"operation"}
               /\ \A type, state : DOMAIN With(Client(name), [type |-> type, state |-> state]) =
                                  OfImport \cup {"state"}
  /\ \A ni : DOMAIN OfNI(ni) = OfNID
BY DEF LNet, Client, With, OfTarget, OfImport, OfNID, OfNI

\* The parser of health_check.
LEMMA HealthYields ==
  ASSUME NEW lines, NEW path
  PROVE  Yields(ParseHealth(lines, path), {})
<1>1. Gives({"health_check"}, OfTarget)
  <2>1. Health \subseteq Contract
    BY DEF Contract
  <2>2. QED
    BY <2>1, MetricsGive DEF Health
<1>2. PICK labels : labels = [component |-> "health", target |-> "lustre"]
  OBVIOUS
<1>3. DOMAIN labels = OfTarget
  BY <1>2 DEF OfTarget
<1>4. IsPlain(Observation("health_check", labels, path))
  BY <1>1, <1>3, Plain
<1>5. QED
  BY <1>2, <1>4, PlainLists, PlainResults DEF ParseHealth, One

\* Every key of encrypt_page_pools has its metric, without labels.
LEMMA SptlrpcGives ==
  \A key \in DOMAIN sptlrpcKeyMap :
    Gives({sptlrpcKeyMap[key]}, {}) /\ sptlrpcKeyMap[key] # "target_state"
<1>1. Sptlrpc \subseteq Contract
  BY DEF Contract
<1>2. PICK a, b : /\ a = {"physical_pages", "pages_per_pool", "maximum_pages", "maximum_pools",
                          "pages_in_pools",
                          "free_pages", "free_page_low", "maximum_waitqueue_depth"}
                  /\ b = {"maximum_pages_reached_total", "grows_total", "grows_failure_total",
                          "shrinks_total",
                          "cache_access_total", "cache_miss_total", "out_of_memory_request_total"}
  OBVIOUS
<1>3. Sptlrpc = Metrics("gauge", {}, a) \cup Metrics("counter", {}, b)
  BY <1>2 DEF Sptlrpc
<1>4. Gives(a, {}) /\ Gives(b, {})
  BY <1>1, <1>3, MetricsGive
<1>5. \A key \in DOMAIN sptlrpcKeyMap : sptlrpcKeyMap[key] \in a \cup b
  BY <1>2 DEF sptlrpcKeyMap
<1>6. "target_state" \notin a \cup b
  BY <1>2
<1>7. QED
  BY <1>4, <1>5, <1>6 DEF Gives

\* The parser of encrypt_page_pools.
LEMMA SptlrpcYields ==
  ASSUME NEW lines, IsList(lines), NEW path
  PROVE  Yields(ParseEncryptPagePools(lines, path), {})
<1> DEFINE Obs(line) == <<Observation(sptlrpcKeyMap[line.key], <<>>, path)>>
<1>1. PICK ss : ss = [i \in DOMAIN lines |->
        IF lines[i].key \in DOMAIN sptlrpcKeyMap THEN Obs(lines[i]) ELSE <<>>]
  OBVIOUS
<1>2. ASSUME NEW key \in DOMAIN sptlrpcKeyMap
      PROVE  IsPlain(Observation(sptlrpcKeyMap[key], <<>>, path))
  <2>1. DOMAIN <<>> = {}
    OBVIOUS
  <2>2. QED
    BY <2>1, SptlrpcGives, Plain
<1>3. \A i \in DOMAIN lines : ArePlain(ss[i])
  BY <1>1, <1>2, PlainLists
<1> HIDE DEF Obs
<1>4. ArePlain(FlattenSeq(ss))
  BY <1>1, <1>3, FlattenPlain
<1>5. \/ ParseEncryptPagePools(lines, path) = Failed
      \/ ParseEncryptPagePools(lines, path) = Parsed(FlattenSeq(ss))
  BY <1>1 DEF ParseEncryptPagePools, AllLines, Obs
<1>6. QED
  BY <1>4, <1>5, PlainResults

\* Every field of LNet's stats has its metric.
LEMMA LNetStatsGive ==
  \A i \in 1..11 : Gives({lnetStatsFields[i]}, OfTarget) /\ lnetStatsFields[i] # "target_state"
<1>1. LNetStats \subseteq Contract
  BY DEF Contract
<1>2. PICK a, b : /\ a = {"allocated", "maximum"}
                  /\ b = {"errors_total", "send_count_total", "receive_count_total", "route_count_total",
                          "drop_count_total", "send_bytes_total", "receive_bytes_total",
                          "route_bytes_total", "drop_bytes_total"}
  OBVIOUS
<1>3. LNetStats = Metrics("gauge", OfTarget, a) \cup Metrics("counter", OfTarget, b)
  BY <1>2 DEF LNetStats
<1>4. Gives(a, OfTarget) /\ Gives(b, OfTarget)
  BY <1>1, <1>3, MetricsGive
<1>5. \A i \in 1..11 : lnetStatsFields[i] \in a \cup b
  BY <1>2 DEF lnetStatsFields
<1>6. "target_state" \notin a \cup b
  BY <1>2
<1>7. QED
  BY <1>4, <1>5, <1>6 DEF Gives

\* All fields of LNet's stats.
LEMMA LNetStatsYield ==
  ASSUME NEW path
  PROVE  Yields(Parsed(Each(lnetStatsFields, LNet, path)), {})
<1>1. DOMAIN lnetStatsFields = 1..11
  BY DEF lnetStatsFields
<1>2. \A i \in 1..11 : IsPlain(Observation(lnetStatsFields[i], LNet, path))
  BY LNetStatsGive, LabelKeys, Plain
<1>3. ArePlain(Each(lnetStatsFields, LNet, path))
  BY <1>1, <1>2, EachPlain
<1>4. QED
  BY <1>3, PlainResults

\* The parsers of LNet's stats, of the file and of the command.
LEMMA LNetFilesYield ==
  ASSUME NEW lines, NEW path
  PROVE  Yields(ParseLNetStats(lines, path), {}) /\ Yields(ParseLNetCtlStats(lines, path), {})
<1>1. \/ ParseLNetStats(lines, path) = Parsed(<<>>)
      \/ ParseLNetStats(lines, path) = Failed
      \/ ParseLNetStats(lines, path) = Parsed(Each(lnetStatsFields, LNet, path))
  <2>1. PICK sum : sum = FoldLeft(LAMBDA n, line : n + line.fields, 0, lines)
    OBVIOUS
  <2>2. QED
    BY DEF ParseLNetStats, FoldLeft, MapThenFoldSet
<1>2. \/ ParseLNetCtlStats(lines, path) = Failed
      \/ ParseLNetCtlStats(lines, path) = Parsed(Each(lnetStatsFields, LNet, path))
  BY DEF ParseLNetCtlStats
<1>3. QED
  BY <1>1, <1>2, LNetStatsYield, PlainResults

\* The parser of a file with one value.
LEMMA SingleYields ==
  ASSUME NEW lines, NEW id, NEW keys, Gives({id}, keys), id # "target_state",
         NEW labels, DOMAIN labels = keys, NEW path
  PROVE  Yields(SingleFile(lines, id, labels, path), {})
<1>1. IsPlain(Observation(id, labels, path))
  BY Plain
<1>2. Yields(One(id, labels, path), {})
  BY <1>1, PlainLists, PlainResults DEF One
<1>3. QED
  BY <1>2, PlainResults DEF SingleFile

\* Every parameter of LNet has its metric.
LEMMA LNetParamsGive ==
  \A param \in DOMAIN lnetParamMap :
    Gives({lnetParamMap[param]}, OfTarget) /\ lnetParamMap[param] # "target_state"
<1>1. LNetParams \subseteq Contract
  BY DEF Contract
<1>2. PICK a, b : /\ a = {"console_backoff_enabled", "console_max_delay_centiseconds",
                          "console_min_delay_centiseconds", "console_ratelimit_enabled", "debug_megabytes",
                          "panic_on_lbug_enabled", "watchdog_ratelimit_enabled", "catastrophe_enabled",
                          "lnet_memory_used_bytes", "fail_maximum"}
                  /\ b = {"fail_error_total"}
  OBVIOUS
<1>3. LNetParams = Metrics("gauge", OfTarget, a) \cup Metrics("counter", OfTarget, b)
  BY <1>2 DEF LNetParams
<1>4. Gives(a, OfTarget) /\ Gives(b, OfTarget)
  BY <1>1, <1>3, MetricsGive
<1>5. \A param \in DOMAIN lnetParamMap : lnetParamMap[param] \in a \cup b
  BY <1>2 DEF lnetParamMap
<1>6. "target_state" \notin a \cup b
  BY <1>2
<1>7. QED
  BY <1>4, <1>5, <1>6 DEF Gives

\* The parser of a parameter of LNet.
LEMMA LNetParamYields ==
  ASSUME NEW lines, NEW path, NEW param
  PROVE  Yields(ParseLNetParam(lines, path, param), {})
<1>1. CASE param \in DOMAIN lnetParamMap
  BY <1>1, LNetParamsGive, LabelKeys, SingleYields DEF ParseLNetParam
<1>2. CASE param \notin DOMAIN lnetParamMap
  BY <1>2, PlainResults DEF ParseLNetParam
<1>3. QED
  BY <1>1, <1>2

\* Every counter of an NI has its metric.
LEMMA OfNIGive ==
  ASSUME NEW id \in {"send_count_by_nid_total", "receive_count_by_nid_total",
                     "drop_count_by_nid_total",
                     "lnet_ni_up", "lnet_ni_health", "lnet_ni_health_interrupts_total",
                     "lnet_ni_health_dropped_total", "lnet_ni_health_aborted_total",
                     "lnet_ni_health_no_route_total", "lnet_ni_health_timeouts_total",
                     "lnet_ni_health_errors_total"}
  PROVE  Gives({id}, OfNID) /\ id # "target_state"
<1>1. LNetNIs \subseteq Contract /\ LNetStatsByNID \subseteq Contract
  BY DEF Contract
<1>2. PICK a, b, c : /\ a = {"lnet_ni_up", "lnet_ni_health"}
                     /\ b = {"lnet_ni_health_interrupts_total",
                             "lnet_ni_health_dropped_total", "lnet_ni_health_aborted_total",
                             "lnet_ni_health_no_route_total", "lnet_ni_health_timeouts_total",
                             "lnet_ni_health_errors_total"}
                     /\ c = {"send_count_by_nid_total", "receive_count_by_nid_total",
                             "drop_count_by_nid_total"}
  OBVIOUS
<1>3. LNetNIs = Metrics("gauge", OfNID, a) \cup Metrics("counter", OfNID, b)
  BY <1>2 DEF LNetNIs
<1>4. Gives(a, OfNID) /\ Gives(b, OfNID)
  BY <1>1, <1>3, MetricsGive
<1>5. Gives(c, OfNID)
  <2>1. \A x \in c : \E m \in LNetStatsByNID : m.id = x /\ m.labels = OfNID
    BY <1>2 DEF LNetStatsByNID, ByNID
  <2>2. QED
    BY <1>1, <2>1, RegistryIs DEF Gives
<1>6. id \in a \cup b \cup c
  BY <1>2
<1>7. "target_state" \notin a \cup b \cup c
  BY <1>2
<1>8. QED
  BY <1>4, <1>5, <1>6, <1>7 DEF Gives

\* What is reported of an NI.
LEMMA NIYields ==
  ASSUME NEW ni, NEW path
  PROVE  /\ ArePlain(NIObservations(ni, path))
         /\ ArePlain(Each(<<"send_count_by_nid_total", "receive_count_by_nid_total",
                            "drop_count_by_nid_total">>, OfNI(ni), path))
<1>1. PICK up, health, counts :
        /\ up = <<"lnet_ni_up">>
        /\ health = <<"lnet_ni_health", "lnet_ni_health_interrupts_total",
                      "lnet_ni_health_dropped_total", "lnet_ni_health_aborted_total",
                      "lnet_ni_health_no_route_total", "lnet_ni_health_timeouts_total",
                      "lnet_ni_health_errors_total">>
        /\ counts = <<"send_count_by_nid_total", "receive_count_by_nid_total",
                      "drop_count_by_nid_total">>
  OBVIOUS
<1>2. PICK ids : ids = {"send_count_by_nid_total", "receive_count_by_nid_total",
                     "drop_count_by_nid_total",
                     "lnet_ni_up", "lnet_ni_health", "lnet_ni_health_interrupts_total",
                     "lnet_ni_health_dropped_total", "lnet_ni_health_aborted_total",
                     "lnet_ni_health_no_route_total", "lnet_ni_health_timeouts_total",
                     "lnet_ni_health_errors_total"}
  OBVIOUS
<1>3. \A id \in ids : IsPlain(Observation(id, OfNI(ni), path))
  BY <1>2, OfNIGive, LabelKeys, Plain
<1>4. /\ DOMAIN up = 1..1 /\ \A i \in 1..1 : up[i] \in ids
      /\ DOMAIN health = 1..7 /\ \A i \in 1..7 : health[i] \in ids
      /\ DOMAIN counts = 1..3 /\ \A i \in 1..3 : counts[i] \in ids
  BY <1>1, <1>2
<1>5. ASSUME NEW n \in Nat, NEW s, DOMAIN s = 1..n, \A i \in 1..n : s[i] \in ids
      PROVE  ArePlain(Each(s, OfNI(ni), path))
  BY <1>3, <1>5, EachPlain
<1>6. /\ ArePlain(Each(up, OfNI(ni), path)) /\ ArePlain(Each(health, OfNI(ni), path))
      /\ ArePlain(Each(counts, OfNI(ni), path))
  BY <1>4, <1>5
<1>7. NIObservations(ni, path) =
        (IF ni.status = "" THEN <<>> ELSE Each(up, OfNI(ni), path))
          \o IF ~ni.health THEN <<>> ELSE Each(health, OfNI(ni), path)
  BY <1>1 DEF NIObservations
<1>8. QED
  BY <1>1, <1>6, <1>7, PlainLists, ConcatPlain

\* The parsers of net show.
LEMMA NIListsYield ==
  ASSUME NEW lines, IsList(lines), \A line \in ToSet(lines) : line.document => IsList(line.nis),
         NEW path
  PROVE  Yields(ParseLNetCtlNetStats(lines, path), {}) /\ Yields(ParseLNetCtlNetNI(lines, path), {})
<1>1. CASE ~IsJSONOrYAML(lines)
  BY <1>1, PlainResults DEF ParseLNetCtlNetStats, ParseLNetCtlNetNI
<1>2. CASE IsJSONOrYAML(lines)
  <2>1. PICK nis : nis = LocalNIs(lines)
    OBVIOUS
  <2>2. IsList(nis)
    <3>1. CASE lines = <<>>
      BY <2>1, <3>1, ShortLists DEF LocalNIs
    <3>2. CASE lines # <<>>
      <4>1. Len(lines) = 1 /\ lines[1].document
        BY <1>2, <3>2 DEF IsJSONOrYAML, IsDocument
      <4>2. 1 \in DOMAIN lines
        BY <4>1 DEF IsList
      <4>3. lines[1] \in ToSet(lines)
        BY <4>2 DEF ToSet
      <4>4. QED
        BY <2>1, <3>2, <4>1, <4>3 DEF LocalNIs
    <3>3. QED
      BY <3>1, <3>2
  <2> DEFINE Counts(ni) == Each(<<"send_count_by_nid_total", "receive_count_by_nid_total",
                                  "drop_count_by_nid_total">>, OfNI(ni), path)
  <2>3. PICK cs, is : /\ cs = [i \in DOMAIN nis |-> IF HasNID(nis[i]) THEN Counts(nis[i]) ELSE <<>>]
                      /\ is = [i \in DOMAIN nis |->
                               IF HasNID(nis[i]) THEN NIObservations(nis[i], path) ELSE <<>>]
    OBVIOUS
  <2>4. \A i \in DOMAIN nis : ArePlain(cs[i]) /\ ArePlain(is[i])
    BY <2>3, NIYields, PlainLists
  <2>5. ParseLNetCtlNetStats(lines, path) = Parsed(FlattenSeq(cs))
    BY <1>2, <2>1, <2>3 DEF ParseLNetCtlNetStats, AllLines
  <2>6. ParseLNetCtlNetNI(lines, path) = Parsed(FlattenSeq(is))
    BY <1>2, <2>1, <2>3 DEF ParseLNetCtlNetNI, AllLines
  <2> HIDE DEF Counts
  <2>7. ArePlain(FlattenSeq(cs)) /\ ArePlain(FlattenSeq(is))
    <3>1. /\ DOMAIN cs = DOMAIN nis /\ cs = [i \in DOMAIN cs |-> cs[i]]
          /\ DOMAIN is = DOMAIN nis /\ is = [i \in DOMAIN is |-> is[i]]
      BY <2>3
    <3>2. QED
      BY <2>2, <2>4, <3>1, FlattenPlain
  <2>8. QED
    BY <2>5, <2>6, <2>7, PlainResults
<1>3. QED
  BY <1>1, <1>2

\* Every value of a cache has its metric.
LEMMA LpccCachesGive ==
  ASSUME NEW i \in 1..17
  PROVE  Gives({pccCache[i]}, {"mount", "cache"}) /\ pccCache[i] # "target_state"
<1>1. LpccCaches \subseteq Contract
  BY DEF Contract
<1>2. PICK a, b : /\ a = {"pcc_status", "pcc_purge_status", "pcc_cache_usage_ratio",
                          "pcc_purge_high_usage_ratio",
                          "pcc_purge_low_usage_ratio", "pcc_purge_interval_seconds", "pcc_purge_scan_threads",
                          "pcc_purge_scanned_objs", "pcc_purge_purged_objs", "pcc_cached_files",
                          "pcc_cached_bytes",
                          "pcc_min_cached_file_size_bytes", "pcc_max_cached_file_size_bytes",
                          "pcc_average_age_seconds"}
                  /\ b = {"pcc_purge_scan_times_total", "pcc_purge_total_purged_objs_total",
                          "pcc_purge_total_failed_objs_total"}
  OBVIOUS
<1>3. LpccCaches = Metrics("gauge", {"mount", "cache"}, a)
                     \cup Metrics("counter", {"mount", "cache"}, b)
  BY <1>2 DEF LpccCaches
<1>4. Gives(a, {"mount", "cache"}) /\ Gives(b, {"mount", "cache"})
  BY <1>1, <1>3, MetricsGive
<1>5. pccCache[i] \in a \cup b
  BY <1>2 DEF pccCache
<1>6. "target_state" \notin a \cup b
  BY <1>2
<1>7. QED
  BY <1>4, <1>5, <1>6 DEF Gives

\* Every value of a mount of lpcc has its metric.
LEMMA LpccMountsGive ==
  ASSUME NEW i \in 1..6
  PROVE  Gives({pccMount[i]}, {"mount"}) /\ pccMount[i] # "target_state"
<1>1. LpccMounts \subseteq Contract
  BY DEF Contract
<1>2. PICK a, b : /\ a = {"pcc_fs_open_hit_ratio", "pcc_fs_read_hit_bytes_ratio"}
                  /\ b = {"pcc_fs_open_count_total", "pcc_fs_real_hit_total", "pcc_fs_real_hit_bytes_total",
                          "pcc_fs_total_read_bytes_total"}
  OBVIOUS
<1>3. LpccMounts = Metrics("gauge", {"mount"}, a) \cup Metrics("counter", {"mount"}, b)
  BY <1>2 DEF LpccMounts
<1>4. Gives(a, {"mount"}) /\ Gives(b, {"mount"})
  BY <1>1, <1>3, MetricsGive
<1>5. pccMount[i] \in a \cup b
  BY <1>2 DEF pccMount
<1>6. "target_state" \notin a \cup b
  BY <1>2
<1>7. QED
  BY <1>4, <1>5, <1>6 DEF Gives

\* What is reported of a mount of lpcc.
LEMMA MountYields ==
  ASSUME NEW m, IsList(m.caches), NEW path
  PROVE  ArePlain(MountObservations(m, path))
<1>1. PICK caches : caches = m.caches
  OBVIOUS
<1>2. PICK ss : ss = [i \in DOMAIN caches |->
                        Each(pccCache, [mount |-> m.mount, cache |-> caches[i]], path)]
  OBVIOUS
<1>3. DOMAIN pccCache = 1..17 /\ DOMAIN pccMount = 1..6
  BY DEF pccCache, pccMount
<1>4. ASSUME NEW labels, DOMAIN labels = {"mount", "cache"}
      PROVE  ArePlain(Each(pccCache, labels, path))
  <2>1. \A i \in 1..17 : IsPlain(Observation(pccCache[i], labels, path))
    BY <1>4, LpccCachesGive, Plain
  <2>2. QED
    BY <1>3, <2>1, EachPlain
<1>5. ArePlain(Each(pccMount, [mount |-> m.mount], path))
  <2>1. PICK labels : labels = [mount |-> m.mount]
    OBVIOUS
  <2>2. DOMAIN labels = {"mount"}
    BY <2>1
  <2>3. \A i \in 1..6 : IsPlain(Observation(pccMount[i], labels, path))
    BY <2>2, LpccMountsGive, Plain
  <2>4. QED
    BY <1>3, <2>1, <2>3, EachPlain
<1>6. \A i \in DOMAIN caches : ArePlain(ss[i])
  <2>1. ASSUME NEW cache
        PROVE  DOMAIN [mount |-> m.mount, cache |-> cache] = {"mount", "cache"}
    OBVIOUS
  <2>2. QED
    BY <1>2, <1>4, <2>1
<1>7. ArePlain(FlattenSeq(ss))
  BY <1>1, <1>2, <1>6, FlattenPlain
<1>8. MountObservations(m, path) = FlattenSeq(ss) \o Each(pccMount, [mount |-> m.mount], path)
  BY <1>1, <1>2 DEF MountObservations
<1>9. QED
  BY <1>5, <1>7, <1>8, ConcatPlain

\* The parser of lpcc status.
LEMMA LpccYields ==
  ASSUME NEW lines, IsList(lines), NEW path,
         \A line \in ToSet(lines) : line.document =>
           IsList(line.mounts) /\ \A m \in ToSet(line.mounts) : IsList(m.caches)
  PROVE  Yields(ParseLpccStatus(lines, path), {})
<1>1. CASE ~IsDocument(lines)
  BY <1>1, PlainResults DEF ParseLpccStatus
<1>2. CASE IsDocument(lines)
  <2>1. PICK mounts : mounts = lines[1].mounts
    OBVIOUS
  <2>2. IsList(mounts) /\ \A m \in ToSet(mounts) : IsList(m.caches)
    <3>1. Len(lines) = 1 /\ lines[1].document
      BY <1>2 DEF IsDocument
    <3>2. 1 \in DOMAIN lines
      BY <3>1 DEF IsList
    <3>3. lines[1] \in ToSet(lines)
      BY <3>2 DEF ToSet
    <3>4. QED
      BY <2>1, <3>1, <3>3
  <2>3. PICK ss : ss = [i \in DOMAIN mounts |-> MountObservations(mounts[i], path)]
    OBVIOUS
  <2>4. \A i \in DOMAIN mounts : ArePlain(ss[i])
    BY <2>2, <2>3, MountYields DEF ToSet
  <2>5. ArePlain(FlattenSeq(ss))
    BY <2>2, <2>3, <2>4, FlattenPlain
  <2>6. ParseLpccStatus(lines, path) = Parsed(FlattenSeq(ss))
    BY <1>2, <2>1, <2>3 DEF ParseLpccStatus, AllLines
  <2>7. QED
    BY <2>5, <2>6, PlainResults
<1>3. QED
  BY <1>1, <1>2

\* The metrics of read_bytes and write_bytes.
LEMMA BytesGive ==
  ASSUME NEW line, NEW i \in 1..4
  PROVE  Gives({BytesIDs(line)[i]}, OfTarget) /\ BytesIDs(line)[i] # "target_state"
<1>1. ClientCapacityAndIO \subseteq Contract
  BY DEF Contract
<1>2. PICK a, b : /\ a = {"blocksize_bytes", "inodes_free", "inodes_maximum", "available_kibibytes",
                          "free_kibibytes", "capacity_kibibytes", "read_minimum_size_bytes",
                          "read_maximum_size_bytes", "write_minimum_size_bytes", "write_maximum_size_bytes"}
                  /\ b = {"read_samples_total", "read_bytes_total", "write_samples_total", "write_bytes_total"}
  OBVIOUS
<1>3. ClientCapacityAndIO = Metrics("gauge", OfTarget, a) \cup Metrics("counter", OfTarget, b)
  BY <1>2 DEF ClientCapacityAndIO
<1>4. Gives(a, OfTarget) /\ Gives(b, OfTarget)
  BY <1>1, <1>3, MetricsGive
<1>5. BytesIDs(line)[i] \in a \cup b
  BY <1>2 DEF BytesIDs
<1>6. "target_state" \notin a \cup b
  BY <1>2
<1>7. QED
  BY <1>4, <1>5, <1>6 DEF Gives

\* The metrics of operations.
LEMMA OperationsGive ==
  /\ Gives({"stats_total"}, OfTarget \cup {"operation"})
  /\ Gives({"stats_seconds_sum"}, OfImport \cup {"operation"})
  /\ Gives({"ldlm_cbd_stats"}, {"operation"})
<1>1. ClientOperations \subseteq Contract
  BY DEF Contract
<1>2. QED
  BY <1>1, MetricsGive DEF ClientOperations

\* A line of the stats of a mount.
LEMMA LLiteLinePlain ==
  ASSUME NEW line, NEW name, NEW path
  PROVE  ArePlain(LLiteLine(line, name, path))
<1>1. CASE IsBytes(line)
  <2>1. PICK ids : ids = BytesIDs(line)
    OBVIOUS
  <2>2. DOMAIN ids = 1..4
    BY <2>1 DEF BytesIDs
  <2>3. \A i \in 1..4 : IsPlain(Observation(ids[i], Client(name), path))
    BY <2>1, BytesGive, LabelKeys, Plain
  <2>4. QED
    BY <1>1, <2>1, <2>2, <2>3, EachPlain DEF LLiteLine
<1>2. CASE ~IsBytes(line)
  <2>1. IsPlain(Operation(line, name, path))
    BY OperationsGive, LabelKeys, Plain DEF Operation
  <2>2. QED
    BY <1>2, <2>1, PlainLists DEF LLiteLine
<1>3. QED
  BY <1>1, <1>2

\* A line of the stats of an import.
LEMMA OBDLinePlain ==
  ASSUME NEW line, NEW name, NEW type, NEW path
  PROVE  ArePlain(OBDLine(line, name, type, path))
<1>1. IsPlain(Seconds(line, name, type, path))
  BY OperationsGive, LabelKeys, Plain DEF Seconds
<1>2. QED
  BY <1>1, LLiteLinePlain, PlainLists, ConcatPlain DEF OBDLine

\* The parsers of stats files.
LEMMA StatsYield ==
  ASSUME NEW lines, IsList(lines), NEW path, NEW name, NEW type
  PROVE  /\ Yields(ParseLLiteStats(lines, path, name), {})
         /\ Yields(ParseOBDStats(lines, path, name, type), {})
<1>1. PICK ls, os :
        /\ ls = [i \in DOMAIN lines |->
                IF Named(lines[i]) THEN LLiteLine(lines[i], name, path) ELSE <<>>]
        /\ os = [i \in DOMAIN lines |->
                IF Named(lines[i]) THEN OBDLine(lines[i], name, type, path) ELSE <<>>]
  OBVIOUS
<1>2. \A i \in DOMAIN lines : ArePlain(ls[i]) /\ ArePlain(os[i])
  BY <1>1, LLiteLinePlain, OBDLinePlain, PlainLists
<1>3. ArePlain(FlattenSeq(ls)) /\ ArePlain(FlattenSeq(os))
  <2>1. /\ DOMAIN ls = DOMAIN lines /\ ls = [i \in DOMAIN ls |-> ls[i]]
        /\ DOMAIN os = DOMAIN lines /\ os = [i \in DOMAIN os |-> os[i]]
    BY <1>1
  <2>2. QED
    BY <1>2, <2>1, FlattenPlain
<1>4. \/ ParseLLiteStats(lines, path, name) = Failed
      \/ ParseLLiteStats(lines, path, name) = Parsed(FlattenSeq(ls))
  BY <1>1 DEF ParseLLiteStats, AllLines
<1>5. \/ ParseOBDStats(lines, path, name, type) = Failed
      \/ ParseOBDStats(lines, path, name, type) = Parsed(FlattenSeq(os))
  BY <1>1 DEF ParseOBDStats, AllLines
<1>6. QED
  BY <1>3, <1>4, <1>5, PlainResults

\* The parser of the lock callbacks.
LEMMA LDLMYields ==
  ASSUME NEW lines, IsList(lines), NEW path
  PROVE  Yields(ParseLDLMCBDStats(lines, path), {})
<1> DEFINE Takes(line) == /\ line.name # "snapshot_time" /\ ~line.equals
                          /\ line.fields >= 3 /\ line.samples
           Obs(line) == <<Observation("ldlm_cbd_stats", [operation |-> line.name], path)>>
<1>1. PICK ss : ss = [i \in DOMAIN lines |-> IF Takes(lines[i]) THEN Obs(lines[i]) ELSE <<>>]
  OBVIOUS
<1>2. ASSUME NEW line
      PROVE  ArePlain(Obs(line))
  <2>1. PICK labels : labels = [operation |-> line.name]
    OBVIOUS
  <2>2. DOMAIN labels = {"operation"}
    BY <2>1
  <2>3. IsPlain(Observation("ldlm_cbd_stats", labels, path))
    BY <2>2, OperationsGive, Plain
  <2>4. QED
    BY <2>1, <2>3, PlainLists
<1>3. \A i \in DOMAIN lines : ArePlain(ss[i])
  BY <1>1, <1>2, PlainLists
<1> HIDE DEF Takes, Obs
<1>4. ArePlain(FlattenSeq(ss))
  BY <1>1, <1>3, FlattenPlain
<1>5. \/ ParseLDLMCBDStats(lines, path) = Failed
      \/ ParseLDLMCBDStats(lines, path) = Parsed(FlattenSeq(ss))
  BY <1>1 DEF ParseLDLMCBDStats, AllLines, Takes, Obs
<1>6. QED
  BY <1>4, <1>5, PlainResults

\* Every parameter of a mount has its metric.
LEMMA LLiteSingleGive ==
  \A file \in DOMAIN lliteSingleFileMap :
    Gives({lliteSingleFileMap[file]}, OfTarget) /\ lliteSingleFileMap[file] # "target_state"
<1>1. ClientCapacityAndIO \subseteq Contract /\ ClientTunables \subseteq Contract
  BY DEF Contract
<1>2. PICK a, b, c :
        /\ a = {"blocksize_bytes", "inodes_free", "inodes_maximum", "available_kibibytes",
                "free_kibibytes", "capacity_kibibytes", "read_minimum_size_bytes",
                "read_maximum_size_bytes", "write_minimum_size_bytes", "write_maximum_size_bytes"}
        /\ b = {"checksum_pages_enabled", "default_ea_size_bytes", "lazystatfs_enabled",
                "maximum_ea_size_bytes", "maximum_read_ahead_megabytes",
                "maximum_read_ahead_per_file_megabytes", "maximum_read_ahead_whole_megabytes",
                "statahead_agl_enabled", "statahead_maximum", "xattr_cache_enabled"}
        /\ c = {"read_samples_total", "read_bytes_total", "write_samples_total", "write_bytes_total"}
  OBVIOUS
<1>3. /\ ClientCapacityAndIO = Metrics("gauge", OfTarget, a) \cup Metrics("counter", OfTarget, c)
      /\ ClientTunables = Metrics("gauge", OfTarget, b)
  BY <1>2 DEF ClientCapacityAndIO, ClientTunables
<1>4. Gives(a, OfTarget) /\ Gives(b, OfTarget)
  BY <1>1, <1>3, MetricsGive
<1>5. \A file \in DOMAIN lliteSingleFileMap : lliteSingleFileMap[file] \in a \cup b
  BY <1>2 DEF lliteSingleFileMap
<1>6. "target_state" \notin a \cup b
  BY <1>2
<1>7. QED
  BY <1>4, <1>5, <1>6 DEF Gives

\* Every parameter of an import has its metric.
LEMMA ImportFilesGive ==
  /\ Gives({"osc_dirty_bytes", "osc_max_dirty_bytes"}, OfTarget)
  /\ Gives({"max_pages_per_rpc", "max_rpcs_in_flight", "max_mod_rpcs_in_flight", "target_active"},
           OfImport)
  /\ Gives({"target_state"}, OfImport \cup {"state"})
<1>1. ImportFiles \subseteq Contract
  BY DEF Contract
<1>2. QED
  BY <1>1, MetricsGive DEF ImportFiles

\* The parsers of parameters.
LEMMA SingleFilesYield ==
  ASSUME NEW lines, NEW path, NEW file, NEW name, NEW type
  PROVE  /\ Yields(ParseLLiteSingleFile(lines, path, file, name), {})
         /\ Yields(ParseClientSingleFile(lines, path, file, name, type), {})
<1>1. Yields(ParseLLiteSingleFile(lines, path, file, name), {})
  <2>1. CASE file \in DOMAIN lliteSingleFileMap
    BY <2>1, LLiteSingleGive, LabelKeys, SingleYields DEF ParseLLiteSingleFile
  <2>2. CASE file \notin DOMAIN lliteSingleFileMap
    BY <2>2, PlainResults DEF ParseLLiteSingleFile
  <2>3. QED
    BY <2>1, <2>2
<1>2. Yields(ParseClientSingleFile(lines, path, file, name, type), {})
  <2>1. CASE file \in DOMAIN clientSingleFileMap
    <3>1. PICK id : id = clientSingleFileMap[file]
      OBVIOUS
    <3>2. IF HasType(file)
          THEN id \in {"max_pages_per_rpc", "max_rpcs_in_flight", "max_mod_rpcs_in_flight",
                      "target_active"}
          ELSE id \in {"osc_dirty_bytes", "osc_max_dirty_bytes"}
      BY <2>1, <3>1 DEF clientSingleFileMap, HasType
    <3>3. Gives({id}, IF HasType(file) THEN OfImport ELSE OfTarget) /\ id # "target_state"
      BY <3>2, ImportFilesGive DEF Gives
    <3>4. PICK labels :
            labels = IF HasType(file) THEN With(Client(name), [type |-> type]) ELSE Client(name)
      OBVIOUS
    <3>5. DOMAIN labels = IF HasType(file) THEN OfImport ELSE OfTarget
      BY <3>4, LabelKeys
    <3>6. Yields(SingleFile(lines, id, labels, path), {})
      BY <3>3, <3>5, SingleYields
    <3>7. QED
      BY <2>1, <3>1, <3>4, <3>6 DEF ParseClientSingleFile
  <2>2. CASE file \notin DOMAIN clientSingleFileMap
    BY <2>2, PlainResults DEF ParseClientSingleFile
  <2>3. QED
    BY <2>1, <2>2
<1>3. QED
  BY <1>1, <1>2

\* The labels of the metrics of an rpc_stats file.
LEMMA RPCStatsGive ==
  /\ Gives({"pages_per_rpc_total", "rpcs_offset"}, OfTarget \cup {"operation", "size"})
  /\ Gives({"rpcs_in_flight"}, OfImport \cup {"operation", "size"})
  /\ Gives({"rpcs_current", "pending_pages"}, OfImport \cup {"operation"})
<1>1. RPCStats \subseteq Contract
  BY DEF Contract
<1>2. QED
  BY <1>1, MetricsGive DEF RPCStats

\* The labels that the parser of an rpc_stats file builds.
LEMMA RPCLabelKeys ==
  ASSUME NEW name, NEW type, NEW op, NEW size
  PROVE  LET labels == With(Client(name), [operation |-> op])
             typed == With(labels, [type |-> type])
         IN /\ DOMAIN typed = OfImport \cup {"operation"}
            /\ DOMAIN With(labels, [size |-> size]) = OfTarget \cup {"operation", "size"}
            /\ DOMAIN With(typed, [size |-> size]) = OfImport \cup {"operation", "size"}
BY DEF With, Client, OfTarget, OfImport

\* Every observation of an rpc_stats file has the labels of its metric.
LEMMA RPCObservationPlain ==
  ASSUME NEW o, o.metric \in RPCMetrics, NEW name, NEW type, NEW path
  PROVE  IsPlain(RPCObservation(o, name, type, path))
<1>1. PICK labels : labels = With(Client(name), [operation |-> o.operation])
  OBVIOUS
<1>2. PICK typed : typed = With(labels, [type |-> type])
  OBVIOUS
<1>3. PICK size, tsize : size = With(labels, [size |-> o.line]) /\ tsize = With(typed, [size |-> o.line])
  OBVIOUS
<1>4. /\ DOMAIN typed = OfImport \cup {"operation"}
      /\ DOMAIN size = OfTarget \cup {"operation", "size"}
      /\ DOMAIN tsize = OfImport \cup {"operation", "size"}
  BY <1>1, <1>2, <1>3, RPCLabelKeys
<1>5. PICK metric : metric = o.metric
  OBVIOUS
<1>6. RPCObservation(o, name, type, path) =
        CASE metric \in {"rpcs_current", "pending_pages"} -> Observation(metric, typed, path)
          [] metric = "rpcs_in_flight" -> Observation(metric, tsize, path)
          [] metric = "pages_per_rpc" -> Observation("pages_per_rpc_total", size, path)
          [] OTHER -> Observation(metric, size, path)
  BY <1>1, <1>2, <1>3, <1>5 DEF RPCObservation
<1>7. \/ /\ metric \in {"rpcs_current", "pending_pages"}
         /\ RPCObservation(o, name, type, path) = Observation(metric, typed, path)
      \/ /\ metric = "rpcs_in_flight"
         /\ RPCObservation(o, name, type, path) = Observation("rpcs_in_flight", tsize, path)
      \/ RPCObservation(o, name, type, path) = Observation("pages_per_rpc_total", size, path)
      \/ RPCObservation(o, name, type, path) = Observation("rpcs_offset", size, path)
  BY <1>5, <1>6 DEF RPCMetrics
<1>8. CASE metric \in {"rpcs_current", "pending_pages"}
           /\ RPCObservation(o, name, type, path) = Observation(metric, typed, path)
  BY <1>4, <1>8, RPCStatsGive, Plain
<1>9. /\ IsPlain(Observation("rpcs_in_flight", tsize, path))
      /\ IsPlain(Observation("pages_per_rpc_total", size, path))
      /\ IsPlain(Observation("rpcs_offset", size, path))
  BY <1>4, RPCStatsGive, Plain
<1>10. QED
  BY <1>7, <1>8, <1>9

\* The parser of rpc_stats.
LEMMA RPCYields ==
  ASSUME NEW lines, IsList(lines), \A line \in ToSet(lines) : HasScalar(line),
         NEW path, NEW name, NEW type
  PROVE  Yields(ParseRPCStats(lines, path, name, type), {})
<1>1. PICK end : end = FoldLeft(RPCStatsLine, [section |-> NoSection, err |-> FALSE, obs |-> <<>>], lines)
  OBVIOUS
<1>2. IsRPCState(end)
  BY <1>1, RPCEndIs
<1>3. PICK s : s = [i \in DOMAIN end.obs |-> RPCObservation(end.obs[i], name, type, path)]
  OBVIOUS
<1>4. IsList(s)
  <2>1. PICK n \in Nat : DOMAIN end.obs = 1..n
    BY <1>2 DEF IsRPCState, IsList
  <2>2. QED
    BY <1>3, <2>1, MappedList
<1>5. \A o \in ToSet(s) : IsPlain(o)
  <2>1. \A i \in DOMAIN end.obs : end.obs[i].metric \in RPCMetrics
    BY <1>2 DEF IsRPCState, ToSet
  <2>2. QED
    BY <1>3, <2>1, RPCObservationPlain DEF ToSet
<1>6. ParseRPCStats(lines, path, name, type) = IF end.err THEN Failed ELSE Parsed(s)
  BY <1>1, <1>3 DEF ParseRPCStats
<1>7. QED
  BY <1>4, <1>5, <1>6, PlainResults DEF ArePlain

-----------------------------------------------------------------------------
(* The collectors keep the contract.                                       *)

\* All has the states of all parts.
LEMMA AllYields ==
  ASSUME NEW n \in Nat, NEW parts, DOMAIN parts = 1..n, NEW states,
         \A i \in 1..n : Yields(parts[i], states[i]),
         NEW all, \A o : o \in all <=> \E i \in 1..n : o \in states[i]
  PROVE  Yields(All(parts), all)
<1>1. PICK r : r = All(parts)
  OBVIOUS
<1>2. \A i \in 1..n : IsResult(parts[i])
  BY DEF Yields
<1>3. /\ IsResult(r)
      /\ r.err <=> \E i \in 1..n : parts[i].err
      /\ ~r.err => ToSet(r.obs) = UNION {ToSet(parts[i].obs) : i \in 1..n}
  BY <1>1, <1>2, AllIs
<1>4. CASE r.err
  <2>1. ToSet(r.obs) = {}
    BY <1>3, <1>4, ShortLists DEF IsResult
  <2>2. QED
    BY <1>1, <1>3, <1>4, <2>1 DEF Yields
<1>5. CASE ~r.err
  <2>1. \A o \in ToSet(r.obs) : HasItsLabels(o)
    BY <1>3, <1>5 DEF Yields
  <2>2. \A i \in 1..n : {o \in ToSet(parts[i].obs) : o.id = "target_state"} = states[i]
    BY <1>3, <1>5 DEF Yields
  <2>3. {o \in ToSet(r.obs) : o.id = "target_state"} = all
    BY <1>3, <1>5, <2>2
  <2>4. QED
    BY <1>1, <1>3, <2>1, <2>3 DEF Yields
<1>6. QED
  BY <1>4, <1>5

\* All has no state if no part has.
LEMMA AllPlain ==
  ASSUME NEW n \in Nat, NEW parts, DOMAIN parts = 1..n,
         \A i \in 1..n : Yields(parts[i], {})
  PROVE  Yields(All(parts), {})
<1>1. PICK states : states = [i \in 1..n |-> {}]
  OBVIOUS
<1>2. \A i \in 1..n : Yields(parts[i], states[i])
  BY <1>1
<1>3. \A o : o \in {} <=> \E i \in 1..n : o \in states[i]
  BY <1>1
<1>4. QED
  BY <1>2, <1>3, AllYields

\* Two parts.
LEMMA PairPlain ==
  ASSUME NEW r, NEW s, Yields(r, {}), Yields(s, {})
  PROVE  Yields(All(<<r, s>>), {})
<1>1. PICK parts : parts = <<r, s>>
  OBVIOUS
<1>2. DOMAIN parts = 1..2 /\ parts[1] = r /\ parts[2] = s
  BY <1>1
<1>3. \A i \in 1..2 : i = 1 \/ i = 2
  OBVIOUS
<1>4. \A i \in 1..2 : Yields(parts[i], {})
  BY <1>2, <1>3
<1>5. QED
  BY <1>1, <1>2, <1>4, AllPlain

\* A source that is left out has no states.
LEMMA OptionalYields ==
  ASSUME NEW r, Yields(r, {})
  PROVE  Yields(Optional(r), {}) /\ Yields(StrictError(r), {})
BY PlainResults DEF Optional, StrictError

\* The first readable path has lines, as HasLines says.
LEMMA FirstLines ==
  ASSUME HostInv, NEW paths, DOMAIN paths \subseteq Nat, Available(paths) # {}
  PROVE  LET path == FirstAvailable(paths)
         IN /\ path \in ToSet(paths)
            /\ IsList(Lines(path))
            /\ HasLines(path, host[path])
<1>1. PICK i \in DOMAIN paths : FirstAvailable(paths) = paths[i] /\ Readable(paths[i])
  BY FirstIs
<1>2. QED
  BY <1>1, LinesAreLists DEF ToSet

\* The collectors of one file or command.
LEMMA SmallYield ==
  ASSUME HostInv
  PROVE  /\ Yields(HealthObservations, {})
         /\ Yields(SptlrpcObservations, {})
         /\ Yields(LpccObservations, {})
<1>1. Yields(HealthObservations, {})
  BY HealthYields, PlainResults DEF HealthObservations, ParseFirst
<1>2. Yields(SptlrpcObservations, {})
  <2>1. DOMAIN SptlrpcPaths \subseteq Nat
    BY DEF SptlrpcPaths, Under
  <2>2. QED
    BY <2>1, FirstLines, SptlrpcYields, PlainResults DEF SptlrpcObservations, ParseFirst
<1>3. Yields(LpccObservations, {})
  <2>1. DOMAIN LpccStatus \subseteq Nat
    BY DEF LpccStatus
  <2>2. CASE Available(LpccStatus) = {}
    BY <2>2, PlainResults DEF LpccObservations, ParseFirst
  <2>3. CASE Available(LpccStatus) # {}
    <3>1. PICK path : path = FirstAvailable(LpccStatus)
      OBVIOUS
    <3>2. path \in ToSet(LpccStatus) /\ IsList(Lines(path)) /\ HasLines(path, host[path])
      BY <2>1, <2>3, <3>1, FirstLines
    <3>3. \A line \in ToSet(Lines(path)) : line.document =>
            IsList(line.mounts) /\ \A m \in ToSet(line.mounts) : IsList(m.caches)
      BY <3>2 DEF HasLines, Lines
    <3>4. Yields(ParseLpccStatus(Lines(path), path), {})
      BY <3>2, <3>3, LpccYields
    <3>5. QED
      BY <2>3, <3>1, <3>4 DEF LpccObservations, ParseFirst
  <2>4. QED
    BY <2>2, <2>3
<1>4. QED
  BY <1>1, <1>2, <1>3

\* What lnetctl says of the NIs.
LEMMA NetShowYields ==
  ASSUME HostInv
  PROVE  /\ Yields(ParseFirst(NetShow, Failed, ParseLNetCtlNetStats), {})
         /\ Yields(SupplementalNetNI, {})
<1>1. DOMAIN NetShow \subseteq Nat
  BY DEF NetShow
<1>2. CASE Available(NetShow) = {}
  BY <1>2, PlainResults, OptionalYields DEF ParseFirst, SupplementalNetNI
<1>3. CASE Available(NetShow) # {}
  <2>1. PICK path : path = FirstAvailable(NetShow)
    OBVIOUS
  <2>2. path \in ToSet(NetShow) /\ IsList(Lines(path)) /\ HasLines(path, host[path])
    BY <1>1, <1>3, <2>1, FirstLines
  <2>3. \A line \in ToSet(Lines(path)) : line.document => IsList(line.nis)
    BY <2>2 DEF HasLines, Lines
  <2>4. Yields(ParseLNetCtlNetStats(Lines(path), path), {})
        /\ Yields(ParseLNetCtlNetNI(Lines(path), path), {})
    BY <2>2, <2>3, NIListsYield
  <2>5. QED
    BY <1>3, <2>1, <2>4, OptionalYields DEF ParseFirst, SupplementalNetNI
<1>4. QED
  BY <1>2, <1>3

\* The statistics without the global counts.
LEMMA DroppedArePlain ==
  ASSUME NEW obs, ArePlain(obs)
  PROVE  ArePlain(DropGlobalLNetCountStats(obs))
<1>1. PICK ss : ss = [i \in DOMAIN obs |-> IF IsGlobalCount(obs[i]) THEN <<>> ELSE <<obs[i]>>]
  OBVIOUS
<1>2. \A i \in DOMAIN obs : IsPlain(obs[i])
  BY DEF ArePlain, ToSet
<1>3. \A i \in DOMAIN obs : ArePlain(ss[i])
  BY <1>1, <1>2, PlainLists
<1>4. DOMAIN ss = DOMAIN obs /\ ss = [i \in DOMAIN ss |-> ss[i]]
  BY <1>1
<1>5. ArePlain(FlattenSeq(ss))
  BY <1>3, <1>4, FlattenPlain DEF ArePlain
<1>6. QED
  BY <1>1, <1>5 DEF DropGlobalLNetCountStats

\* The sources of lnet.
LEMMA LNetSourcesYield ==
  ASSUME HostInv
  PROVE  Yields(CollectFromDebugFS, {}) /\ Yields(CollectFromLNetCtl, {})
<1>1. Yields(CollectFromDebugFS, {})
  BY LNetFilesYield, PlainResults DEF CollectFromDebugFS, ParseFirst
<1>2. PICK stats : stats = ParseFirst(<<<<"cmd", "stats show">>>>, Failed, ParseLNetCtlStats)
  OBVIOUS
<1>3. Yields(stats, {})
  BY <1>2, LNetFilesYield, PlainResults DEF ParseFirst
<1>4. PICK counts : counts = ParseFirst(NetShow, Failed, ParseLNetCtlNetStats)
  OBVIOUS
<1>5. Yields(counts, {}) /\ Yields(SupplementalNetNI, {})
  BY <1>4, NetShowYields
<1>6. PICK primary : primary = IF counts.obs = <<>> THEN stats
                               ELSE Parsed(DropGlobalLNetCountStats(stats.obs) \o counts.obs)
  OBVIOUS
<1>7. Yields(primary, {})
  <2>1. ArePlain(stats.obs) /\ ArePlain(counts.obs)
    BY <1>3, <1>5, YieldsPlain
  <2>2. ArePlain(DropGlobalLNetCountStats(stats.obs) \o counts.obs)
    BY <2>1, DroppedArePlain, ConcatPlain
  <2>3. QED
    BY <1>3, <1>6, <2>2, PlainResults
<1>8. Yields(All(<<primary, SupplementalNetNI>>), {})
  BY <1>5, <1>7, PairPlain
<1>9. CollectFromLNetCtl = IF stats.err \/ counts.err THEN stats ELSE All(<<primary, SupplementalNetNI>>)
  BY <1>2, <1>4, <1>6 DEF CollectFromLNetCtl
<1>10. QED
  BY <1>1, <1>3, <1>8, <1>9

\* The parameters of lnet.
LEMMA CollectParamsYields ==
  Yields(CollectParams, {})
<1>1. ASSUME NEW param
      PROVE  Yields(CollectParam(param), {})
  <2>1. PICK paths : paths = LNetParamPaths(param)
    OBVIOUS
  <2>2. PICK path : path = FirstAvailable(paths)
    OBVIOUS
  <2>3. PICK r : r = IF Available(paths) = {} THEN Failed ELSE ParseLNetParam(Lines(path), path, param)
    OBVIOUS
  <2>4. Yields(r, {})
    BY <2>3, LNetParamYields, PlainResults
  <2>5. CollectParam(param) = Optional(r)
    BY <2>1, <2>2, <2>3 DEF CollectParam, ParseFirst
  <2>6. QED
    BY <2>4, <2>5, OptionalYields
<1>2. PICK parts : parts = [i \in DOMAIN LNetParamNames |-> CollectParam(LNetParamNames[i])]
  OBVIOUS
<1>3. DOMAIN LNetParamNames = 1..11
  BY DEF LNetParamNames
<1>4. DOMAIN parts = 1..11 /\ \A i \in 1..11 : Yields(parts[i], {})
  BY <1>1, <1>2, <1>3
<1>5. QED
  BY <1>2, <1>4, AllPlain DEF CollectParams

\* The collector of lnet.
LEMMA LNetYields ==
  ASSUME HostInv
  PROVE  Yields(LNetObservations, {})
<1>1. PICK debug : debug = All(<<CollectFromDebugFS, SupplementalNetNI>>)
  OBVIOUS
<1>2. Yields(debug, {}) /\ Yields(CollectFromDebugFS, {}) /\ Yields(CollectFromLNetCtl, {})
  BY <1>1, NetShowYields, LNetSourcesYield, PairPlain
<1>3. PICK primary :
        primary = IF config.lnetSource = "debugfs" THEN CollectFromDebugFS
                  ELSE IF config.lnetSource = "lnetctl" \/ CollectFromDebugFS.err THEN CollectFromLNetCtl
                  ELSE debug
  OBVIOUS
<1>4. primary \in {CollectFromLNetCtl, CollectFromDebugFS, debug}
  BY <1>3
<1>5. Yields(primary, {})
  BY <1>2, <1>4
<1>6. LNetObservations = All(<<primary, CollectParams>>)
  BY <1>1, <1>3 DEF LNetObservations
<1>7. QED
  BY <1>5, <1>6, CollectParamsYields, PairPlain

\* The places of the state of an import, the state that is current, and the
\* observation that says so.
StatePlaces(t) == Under(ParamRoots, <<t.component, t.name, "state">>)

CurrentState(t) ==
  IF t.component = "llite" \/ Available(StatePlaces(t)) = {} THEN ""
  ELSE StateOf(Lines(FirstAvailable(StatePlaces(t))))

StateObservation(t) ==
  Observation("target_state",
              With(Client(t.name), [type |-> t.component, state |-> CurrentState(t)]),
              FirstAvailable(StatePlaces(t)))

StatesOf(t) == IF CurrentState(t) = "" THEN {} ELSE {StateObservation(t)}

\* The states of a file that says this state.
StatesFrom(state, name, component, path) ==
  IF state = "" THEN {}
  ELSE {Observation("target_state",
                    With(Client(name), [type |-> component, state |-> state]), path)}

\* The parser of a state file.
LEMMA ClientStateYields ==
  ASSUME NEW lines, IsList(lines), HasWords(lines), NEW name, NEW component, NEW path
  PROVE  /\ ~ParseClientState(lines, path, name, component).err
         /\ Yields(ParseClientState(lines, path, name, component),
                   StatesFrom(StateOf(lines), name, component, path))
<1>1. PICK state : state = StateOf(lines)
  OBVIOUS
<1>2. PICK labels : labels = With(Client(name), [type |-> component, state |-> state])
  OBVIOUS
<1>3. PICK o : o = Observation("target_state", labels, path)
  OBVIOUS
<1>4. PICK r : r = ParseClientState(lines, path, name, component)
  OBVIOUS
<1>5. r = IF state = "" THEN Parsed(<<>>) ELSE Parsed(<<o>>)
  <2>1. r = StateResult(state, name, component, path)
    BY <1>1, <1>4, StateIs
  <2>2. One("target_state", labels, path) = Parsed(<<o>>)
    BY <1>3 DEF One
  <2>3. QED
    BY <1>2, <2>1, <2>2 DEF StateResult
<1>6. HasItsLabels(o) /\ o.id = "target_state"
  <2>1. DOMAIN labels = OfImport \cup {"state"}
    BY <1>2, LabelKeys
  <2>2. o.id = "target_state" /\ o.labels = labels
    BY <1>3 DEF Observation
  <2>3. QED
    BY <2>1, <2>2, ImportFilesGive DEF Gives, HasItsLabels
<1>7. ~Parsed(<<o>>).err /\ Yields(Parsed(<<o>>), {o})
  BY <1>6, ShortLists, Results DEF Yields
<1>8. ~Parsed(<<>>).err /\ Yields(Parsed(<<>>), {})
  BY PlainResults, Results
<1>9. ~r.err /\ Yields(r, IF state = "" THEN {} ELSE {o})
  BY <1>5, <1>7, <1>8
<1>10. QED
  BY <1>1, <1>2, <1>3, <1>4, <1>9 DEF StatesFrom

\* The state file of an import.
LEMMA StateFileYields ==
  ASSUME HostInv, NEW t, t.component # "llite"
  PROVE  ~ReadParam(t, "state").err /\ Yields(ReadParam(t, "state"), StatesOf(t))
<1>1. PICK paths : paths = StatePlaces(t)
  OBVIOUS
<1>2. CASE Available(paths) = {}
  <2>1. ReadParam(t, "state") = Parsed(<<>>)
    BY <1>1, <1>2 DEF ReadParam, StatePlaces
  <2>2. StatesOf(t) = {}
    BY <1>1, <1>2 DEF StatesOf, CurrentState
  <2>3. QED
    BY <2>1, <2>2, PlainResults, Results
<1>3. CASE Available(paths) # {}
  <2>1. DOMAIN paths = 1..2
    BY <1>1 DEF StatePlaces, Under, ParamRoots
  <2>2. PICK k \in DOMAIN paths : FirstAvailable(paths) = paths[k] /\ Readable(paths[k])
    BY <1>3, <2>1, FirstIs
  <2>3. PICK path : path = paths[k]
    OBVIOUS
  <2>4. path = <<ParamRoots[k], t.component, t.name, "state">>
    BY <1>1, <2>1, <2>3, PathLengths DEF StatePlaces, Under, ParamRoots
  <2>5. Len(path) = 4 /\ path[4] = "state"
    BY <2>4, PathLengths
  <2>6. path \in DOMAIN Healthy /\ IsList(Lines(path)) /\ HasLines(path, host[path])
    BY <2>2, <2>3, LinesAreLists
  <2>7. path \in Imports
    BY <2>5, <2>6 DEF Imports
  <2>8. PICK lines : lines = Lines(path)
    OBVIOUS
  <2>9. HasWords(lines)
    <3>1. \A line \in ToSet(lines) : IsWord(line) => line.token # ""
      BY <2>5, <2>6, <2>7, <2>8 DEF HasLines, Lines, IsWord
    <3>2. QED
      BY <3>1 DEF HasWords, ToSet
  <2>10. ReadParam(t, "state") = ParseClientState(lines, path, t.name, t.component)
    BY <1>1, <1>3, <2>2, <2>3, <2>8 DEF ReadParam, StatePlaces, ParseParam
  <2>11. /\ CurrentState(t) = StateOf(lines)
         /\ FirstAvailable(StatePlaces(t)) = path
    BY <1>1, <1>3, <2>2, <2>3, <2>8 DEF CurrentState
  <2>12. PICK state, name, component :
           state = StateOf(lines) /\ name = t.name /\ component = t.component
    OBVIOUS
  <2>13. StatesOf(t) = StatesFrom(state, name, component, path)
    BY <2>11, <2>12 DEF StatesOf, StateObservation, StatesFrom
  <2>14. IsList(lines)
    BY <2>6, <2>8
  <2>15. QED
    BY <2>9, <2>10, <2>12, <2>13, <2>14, ClientStateYields
<1>4. QED
  BY <1>2, <1>3

\* Every other parameter file.
LEMMA OtherParamYields ==
  ASSUME NEW t, NEW file, t.component = "llite" \/ file # "state"
  PROVE  Yields(ReadParam(t, file), {})
<1>1. ASSUME NEW lines, NEW path
      PROVE  Yields(ParseParam(t, file, lines, path), {})
  <2>1. \/ ParseParam(t, file, lines, path) = ParseLLiteSingleFile(lines, path, file, t.name)
        \/ ParseParam(t, file, lines, path) =
             ParseClientSingleFile(lines, path, file, t.name, t.component)
    <3>1. CASE t.component = "llite"
      BY <3>1 DEF ParseParam
    <3>2. CASE t.component # "llite" /\ file # "state"
      BY <3>2 DEF ParseParam
    <3>3. QED
      BY <3>1, <3>2
  <2>2. QED
    BY <2>1, SingleFilesYield
<1>2. QED
  BY <1>1, PlainResults DEF ReadParam

\* An import has a state file.
LEMMA ImportsHaveState ==
  ASSUME NEW component, component # "llite"
  PROVE  \E i \in DOMAIN ParamFiles(component) : ParamFiles(component)[i] = "state"
<1>1. CASE component = "mdc"
  <2>1. PICK files : files = <<"max_rpcs_in_flight", "max_mod_rpcs_in_flight", "max_pages_per_rpc",
                               "active", "state">>
    OBVIOUS
  <2>2. 5 \in DOMAIN files /\ files[5] = "state"
    BY <2>1
  <2>3. ParamFiles(component) = files
    BY <1>1, <2>1 DEF ParamFiles
  <2>4. QED
    BY <2>2, <2>3
<1>2. CASE component # "mdc"
  <2>1. PICK files : files = <<"cur_dirty_bytes", "max_dirty_mb", "max_pages_per_rpc",
                               "max_rpcs_in_flight", "active", "state">>
    OBVIOUS
  <2>2. 6 \in DOMAIN files /\ files[6] = "state"
    BY <2>1
  <2>3. ParamFiles(component) = files
    BY <1>2, <2>1 DEF ParamFiles
  <2>4. QED
    BY <2>2, <2>3
<1>3. QED
  BY <1>1, <1>2

\* The parameters of a target.
LEMMA ParamsYield ==
  ASSUME HostInv, NEW t
  PROVE  Yields(Params(t), StatesOf(t))
<1>1. PICK files : files = ParamFiles(t.component)
  OBVIOUS
<1>2. PICK n \in Nat : DOMAIN files = 1..n
  BY <1>1, ParamFilesAre
<1>3. PICK parts : parts = [i \in DOMAIN files |-> StrictError(ReadParam(t, files[i]))]
  OBVIOUS
<1>4. Params(t) = All(parts)
  BY <1>1, <1>3 DEF Params, ParseFirst, ReadParam
<1>5. PICK states : states = [i \in DOMAIN files |->
        IF t.component # "llite" /\ files[i] = "state" THEN StatesOf(t) ELSE {}]
  OBVIOUS
<1>6. ASSUME NEW i \in 1..n
      PROVE  Yields(parts[i], states[i])
  <2>1. parts[i] = StrictError(ReadParam(t, files[i]))
    BY <1>2, <1>3
  <2>2. CASE t.component # "llite" /\ files[i] = "state"
    <3>1. states[i] = StatesOf(t)
      BY <1>2, <1>5, <2>2
    <3>2. ~ReadParam(t, "state").err /\ Yields(ReadParam(t, "state"), StatesOf(t))
      BY <2>2, StateFileYields
    <3>3. parts[i] = ReadParam(t, "state")
      BY <2>1, <2>2, <3>2 DEF StrictError, Optional
    <3>4. QED
      BY <3>1, <3>2, <3>3
  <2>3. CASE ~(t.component # "llite" /\ files[i] = "state")
    <3>1. states[i] = {}
      BY <1>2, <1>5, <2>3
    <3>2. Yields(ReadParam(t, files[i]), {})
      BY <2>3, OtherParamYields
    <3>3. QED
      BY <2>1, <3>1, <3>2, OptionalYields
  <2>4. QED
    BY <2>2, <2>3
<1>7. \A o : o \in StatesOf(t) <=> \E i \in 1..n : o \in states[i]
  <2>1. CASE t.component = "llite"
    <3>1. StatesOf(t) = {}
      BY <2>1 DEF StatesOf, CurrentState
    <3>2. QED
      BY <1>2, <1>5, <2>1, <3>1
  <2>2. CASE t.component # "llite"
    <3>1. PICK i \in 1..n : files[i] = "state"
      BY <1>1, <1>2, <2>2, ImportsHaveState
    <3>2. states[i] = StatesOf(t)
      BY <1>2, <1>5, <2>2, <3>1
    <3>3. \A j \in 1..n : states[j] \subseteq StatesOf(t)
      BY <1>2, <1>5
    <3>4. QED
      BY <3>2, <3>3
  <2>3. QED
    BY <2>1, <2>2
<1>8. Yields(All(parts), StatesOf(t))
  <2>1. DOMAIN parts = 1..n
    BY <1>2, <1>3
  <2>2. QED
    BY <1>6, <1>7, <2>1, AllYields
<1>9. QED
  BY <1>4, <1>8

\* The rpc_stats of an import.
LEMMA CollectRPCYields ==
  ASSUME HostInv, NEW t
  PROVE  Yields(CollectRPCStats(t), {})
<1>1. PICK path : path = Path(t, t.rpc_stats, "rpc_stats")
  OBVIOUS
<1>2. PICK r :
        r = IF Readable(path) THEN ParseRPCStats(Lines(path), path, t.name, t.component) ELSE Failed
  OBVIOUS
<1>3. Yields(r, {})
  <2>1. CASE Readable(path)
    <3>1. IsList(Lines(path)) /\ \A line \in ToSet(Lines(path)) : HasScalar(line)
      BY <1>1, <2>1, LinesAreLists, RPCStatsLinesAre
    <3>2. QED
      BY <1>2, <2>1, <3>1, RPCYields
  <2>2. CASE ~Readable(path)
    BY <1>2, <2>2, PlainResults
  <2>3. QED
    BY <2>1, <2>2
<1>4. CollectRPCStats(t) = IF t.rpc_stats = NoPath THEN Parsed(<<>>) ELSE r
  BY <1>1, <1>2, SinglePath DEF CollectRPCStats, ParseFirst
<1>5. QED
  BY <1>3, <1>4, PlainResults

\* The stats of a target.
LEMMA CollectStatsYield ==
  ASSUME HostInv, NEW t
  PROVE  Yields(CollectLLite(t), StatesOf(t)) /\ Yields(CollectOBDStats(t), {})
<1>1. PICK path : path = Path(t, t.stats, "stats")
  OBVIOUS
<1>2. PICK l, o :
        /\ l = IF Readable(path) THEN ParseLLiteStats(Lines(path), path, t.name) ELSE Failed
        /\ o = IF Readable(path) THEN ParseOBDStats(Lines(path), path, t.name, t.component) ELSE Failed
  OBVIOUS
<1>3. Yields(l, {}) /\ Yields(o, {})
  BY <1>2, LinesAreLists, StatsYield, PlainResults
<1>4. CollectLLite(t) = All(<<l, Params(t)>>)
  BY <1>1, <1>2, SinglePath DEF CollectLLite, ParseFirst
<1>5. CollectOBDStats(t) = IF t.stats = NoPath THEN Parsed(<<>>) ELSE o
  BY <1>1, <1>2, SinglePath DEF CollectOBDStats, ParseFirst
<1>6. Yields(All(<<l, Params(t)>>), StatesOf(t))
  <2>1. PICK parts : parts = <<l, Params(t)>>
    OBVIOUS
  <2>2. PICK states : states = <<{}, StatesOf(t)>>
    OBVIOUS
  <2>3. DOMAIN parts = 1..2 /\ \A i \in 1..2 : Yields(parts[i], states[i])
    <3>1. /\ DOMAIN parts = 1..2 /\ parts[1] = l /\ parts[2] = Params(t)
          /\ states[1] = {} /\ states[2] = StatesOf(t)
      BY <2>1, <2>2
    <3>2. \A i \in 1..2 : i = 1 \/ i = 2
      OBVIOUS
    <3>3. QED
      BY <1>3, <3>1, <3>2, ParamsYield
  <2>4. \A x : x \in StatesOf(t) <=> \E i \in 1..2 : x \in states[i]
    BY <2>2
  <2>5. QED
    BY <2>1, <2>3, <2>4, AllYields
<1>7. QED
  BY <1>3, <1>4, <1>5, <1>6, PlainResults

\* All of a target.
LEMMA TargetYields ==
  ASSUME HostInv, NEW t
  PROVE  Yields(CollectTarget(t), StatesOf(t))
<1>1. CASE t.component = "llite"
  <2>1. StatesOf(t) = {}
    BY <1>1 DEF StatesOf, CurrentState
  <2>2. QED
    BY <1>1, <2>1, CollectStatsYield, OptionalYields DEF CollectTarget
<1>2. CASE t.component # "llite"
  <2>1. PICK parts :
          parts = <<StrictError(CollectOBDStats(t)), StrictError(CollectRPCStats(t)), Params(t)>>
    OBVIOUS
  <2>2. PICK states : states = <<{}, {}, StatesOf(t)>>
    OBVIOUS
  <2>3. DOMAIN parts = 1..3 /\ \A i \in 1..3 : Yields(parts[i], states[i])
    <3>1. /\ DOMAIN parts = 1..3 /\ parts[1] = StrictError(CollectOBDStats(t))
          /\ parts[2] = StrictError(CollectRPCStats(t)) /\ parts[3] = Params(t)
      BY <2>1
    <3>2. states[1] = {} /\ states[2] = {} /\ states[3] = StatesOf(t)
      BY <2>2
    <3>3. \A i \in 1..3 : i = 1 \/ i = 2 \/ i = 3
      OBVIOUS
    <3>4. Yields(parts[1], {}) /\ Yields(parts[2], {}) /\ Yields(parts[3], StatesOf(t))
      BY <3>1, CollectStatsYield, CollectRPCYields, OptionalYields, ParamsYield
    <3>5. QED
      BY <3>1, <3>2, <3>3, <3>4
  <2>4. \A o : o \in StatesOf(t) <=> \E i \in 1..3 : o \in states[i]
    BY <2>2
  <2>5. CollectTarget(t) = All(parts)
    <3>1. CollectTarget(t) =
            All(<<StrictError(CollectOBDStats(t)), StrictError(CollectRPCStats(t)), Params(t)>>)
      BY <1>2 DEF CollectTarget
    <3>2. QED
      BY <2>1, <3>1
  <2>6. QED
    BY <2>3, <2>4, <2>5, AllYields
<1>3. QED
  BY <1>1, <1>2

\* The client collector.
LEMMA ClientYields ==
  ASSUME HostInv
  PROVE  Yields(ClientObservations, UNION {StatesOf(Targets[i]) : i \in DOMAIN Targets})
<1>1. PICK m \in Nat : DOMAIN Targets = 1..m
  BY TargetsExist
<1>2. PICK targets : targets = Targets
  OBVIOUS
<1>3. PICK ldlm : ldlm = ParseFirst(LDLMCBDStatsPaths, Parsed(<<>>), ParseLDLMCBDStats)
  OBVIOUS
<1>4. Yields(StrictError(ldlm), {})
  <2>1. DOMAIN LDLMCBDStatsPaths \subseteq Nat
    BY DEF LDLMCBDStatsPaths, Under
  <2>2. Yields(ldlm, {})
    BY <1>3, <2>1, FirstLines, LDLMYields, PlainResults DEF ParseFirst
  <2>3. QED
    BY <2>2, OptionalYields
<1>5. PICK parts :
        /\ ClientObservations = All(parts)
        /\ DOMAIN parts = 1..(m + 1)
        /\ parts[1] = StrictError(ldlm)
        /\ \A i \in 1..m : i + 1 \in 1..(m + 1) /\ parts[i + 1] = CollectTarget(targets[i])
  BY <1>1, <1>2, <1>3, ClientIsAll
<1>6. PICK states : states = [i \in 1..(m + 1) |-> IF i = 1 THEN {} ELSE StatesOf(targets[i - 1])]
  OBVIOUS
<1>7. \A i \in 1..(m + 1) : i = 1 \/ (i - 1 \in 1..m /\ (i - 1) + 1 = i)
  OBVIOUS
<1>8. ASSUME NEW i \in 1..(m + 1)
      PROVE  Yields(parts[i], states[i])
  <2>1. CASE i = 1
    BY <1>4, <1>5, <1>6, <2>1
  <2>2. CASE i # 1
    <3>1. i - 1 \in 1..m /\ parts[i] = CollectTarget(targets[i - 1])
      BY <1>5, <1>7, <2>2
    <3>2. states[i] = StatesOf(targets[i - 1])
      BY <1>6, <2>2
    <3>3. QED
      BY <3>1, <3>2, TargetYields
  <2>3. QED
    BY <2>1, <2>2
<1>9. PICK all : all = UNION {StatesOf(targets[i]) : i \in 1..m}
  OBVIOUS
<1>10. \A o : o \in all <=> \E i \in 1..(m + 1) : o \in states[i]
  <2>1. \A i \in 1..m : i + 1 \in 1..(m + 1) /\ states[i + 1] = StatesOf(targets[i])
    BY <1>6
  <2>2. \A i \in 1..(m + 1) : states[i] = {} \/ (i - 1 \in 1..m /\ states[i] = StatesOf(targets[i - 1]))
    BY <1>6
  <2>3. QED
    BY <1>9, <2>1, <2>2
<1>11. m + 1 \in Nat
  OBVIOUS
<1>12. Yields(All(parts), all)
  BY <1>5, <1>8, <1>10, <1>11, AllYields
<1>13. QED
  BY <1>1, <1>2, <1>5, <1>9, <1>12

\* Every collector.
LEMMA CollectorsYield ==
  ASSUME HostInv, NEW c \in Collectors
  PROVE  /\ IsResult(Observations(c))
         /\ \A o \in ToSet(Observations(c).obs) : HasItsLabels(o)
<1>1. c \in {"health", "sptlrpc", "lnet", "client", "lpcc"}
  BY DEF Collectors, AllCollectors, ToSet
<1>2. Observations(c) \in {HealthObservations, SptlrpcObservations, LNetObservations,
                           ClientObservations, LpccObservations}
  BY <1>1 DEF Observations
<1>3. \A r \in {HealthObservations, SptlrpcObservations, LNetObservations,
                ClientObservations, LpccObservations} :
        IsResult(r) /\ \A o \in ToSet(r.obs) : HasItsLabels(o)
  BY SmallYield, LNetYields, ClientYields DEF Yields
<1>4. QED
  BY <1>2, <1>3

\* The observations of the last scrape have the labels of their metrics.
LabelInv ==
  \A c \in DOMAIN results : \A o \in ToSet(results[c].obs) : HasItsLabels(o)

\* No label is lost or invented between a parser and the contract, whatever the
\* files are (mapper.go:30-33).
THEOREM LabelsAgree == Spec => []LabelsAreExact
<1> DEFINE Inv == TypeInv /\ LabelInv
<1>1. Init => Inv
  <2>1. Init => TypeInv
    BY ScrapeAssumption DEF Init, TypeInv, TypeOK, FilesAt, Valid
  <2>2. DOMAIN <<>> = {}
    OBVIOUS
  <2>3. QED
    BY <2>1, <2>2 DEF Init, LabelInv
<1>2. ASSUME Inv, [Next]_vars
      PROVE  Inv'
  <2>1. TypeInv'
    BY <1>2, TypeInvStep
  <2>2. CASE Scrape
    <3>1. HostInv /\ config.enabled \subseteq Collectors
      BY <1>2, TypeInvGives, ScrapeAssumption DEF TypeInv, TypeOK, Config
    <3>2. results' = [c \in config.enabled |-> Collect(c)]
      BY <2>2 DEF Scrape
    <3>3. \A c : Collect(c).obs = Observations(c).obs
      BY DEF Collect
    <3>4. \A c \in DOMAIN results' : \A o \in ToSet(results'[c].obs) : HasItsLabels(o)
      BY <3>1, <3>2, <3>3, CollectorsYield
    <3>5. QED
      BY <2>1, <3>4 DEF LabelInv, HasItsLabels, ToSet
  <2>3. CASE UNCHANGED results
    BY <1>2, <2>1, <2>3 DEF LabelInv, HasItsLabels, ToSet
  <2>4. QED
    BY <1>2, <2>2, <2>3 DEF Next, Start, Edit, Idle, vars
<1>3. Inv => LabelsAreExact
  BY DEF LabelInv, LabelsAreExact, AllObserved, Observed, Succeeded
<1>4. QED
  BY <1>1, <1>2, <1>3, PTL DEF Spec

-----------------------------------------------------------------------------
(* The states of imports.                                                  *)

\* Only one metric is called target_state.
LEMMA StateNames ==
  /\ \A m \in Contract : m.name = "target_state" <=> m.id = "target_state"
  /\ Registry["target_state"].labels = OfImport \cup {"state"}
<1>1. \A m \in Contract : m.name = "target_state" <=> m.id = "target_state"
  BY DEF Contract, Health, Sptlrpc, LNetStats, LNetStatsByNID, LNetParams, LNetNIs,
         ClientCapacityAndIO, ClientOperations, ClientTunables, RPCStats, ImportFiles,
         LpccCaches, LpccMounts, ByNID, Metrics
<1>2. QED
  BY <1>1, ImportFilesGive DEF Gives

\* So an observation becomes a state in the answer if and only if it is one.
LEMMA MappedStates ==
  ASSUME NEW o, HasItsLabels(o)
  PROVE  /\ MapObservation(o).name = "target_state" <=> o.id = "target_state"
         /\ o.id = "target_state" =>
              /\ MapObservation(o).labels.target = o.labels.target
              /\ MapObservation(o).labels.state = o.labels.state
<1>1. PICK m \in Contract : m.id = o.id
  BY DEF HasItsLabels, Registry
<1>2. Registry[o.id] = m
  BY <1>1, RegistryIs
<1>3. MapObservation(o).name = m.name
  BY <1>2 DEF MapObservation
<1>4. PICK keys, labels : keys = m.labels /\ labels = o.labels
  OBVIOUS
<1>5. DOMAIN labels = keys
  BY <1>2, <1>4 DEF HasItsLabels
<1>6. MapObservation(o).labels = [k \in keys |-> IF k \in DOMAIN labels THEN labels[k] ELSE ""]
  BY <1>2, <1>4 DEF MapObservation
<1>7. ASSUME NEW k \in keys
      PROVE  MapObservation(o).labels[k] = labels[k]
  BY <1>5, <1>6, <1>7
<1>8. o.id = "target_state" => "target" \in keys /\ "state" \in keys
  BY <1>1, <1>2, <1>4, StateNames DEF OfImport
<1>9. QED
  BY <1>1, <1>3, <1>4, <1>7, <1>8, StateNames

\* Lustre has one component for every name.
LEMMA NamesAreOfOneComponent ==
  ASSUME HostInv, NEW i \in DOMAIN Targets, NEW j \in DOMAIN Targets,
         Targets[i].name = Targets[j].name
  PROVE  Targets[i].component = Targets[j].component
<1>1. ASSUME NEW t \in Existing
      PROVE  \E p \in Imports : p[2] = t.component /\ p[3] = t.name
  <2>1. PICK p \in Pattern : p.component = t.component /\ t.name \in FoundBy(p)
    BY DEF Existing
  <2>2. PICK path : path = <<p.root, p.component, t.name, p.file>>
    OBVIOUS
  <2>3. State(path) # "absent"
    BY <2>1, <2>2 DEF FoundBy
  <2>4. path \in DOMAIN Healthy
    BY <2>3 DEF State, HostInv
  <2>5. Len(path) = 4
    BY <2>2, PathLengths
  <2>6. path[2] = p.component /\ path[3] = t.name
    BY <2>2
  <2>7. QED
    BY <2>1, <2>4, <2>5, <2>6 DEF Imports
<1>2. Targets[i] \in Existing /\ Targets[j] \in Existing
  BY TargetsExist
<1>3. QED
  BY <1>1, <1>2, ScrapeAssumption

\* The states that a list of series says of a target.
StatesIn(series, t) ==
  {s.labels.state : s \in {r \in ToSet(series) : r.name = "target_state" /\ r.labels.target = t.name}}

\* What StateIsCurrent says of a target and the series of the client collector.
SaysState(t, series) ==
  t.component # "llite" => StatesIn(series, t) = {CurrentState(t)} \ {""}

StatesAreCurrent(series) == \A i \in DOMAIN Targets : SaysState(Targets[i], series)

\* What StatesOf says of a target.
LEMMA StateObservationIs ==
  ASSUME NEW t, NEW o, o \in StatesOf(t)
  PROVE  /\ o.labels.target = t.name /\ o.labels.state = CurrentState(t)
         /\ CurrentState(t) # "" /\ t.component # "llite"
<1>1. PICK type, state, name : type = t.component /\ state = CurrentState(t) /\ name = t.name
  OBVIOUS
<1>2. o = StateObservation(t) /\ state # ""
  BY <1>1 DEF StatesOf
<1>3. o.labels = With(Client(name), [type |-> type, state |-> state])
  BY <1>1, <1>2 DEF StateObservation, Observation
<1>4. /\ With(Client(name), [type |-> type, state |-> state]).target = name
      /\ With(Client(name), [type |-> type, state |-> state]).state = state
  BY DEF With, Client
<1>5. t.component # "llite"
  BY <1>1, <1>2 DEF CurrentState
<1>6. QED
  BY <1>1, <1>2, <1>3, <1>4, <1>5

\* The series of a collector that succeeds.
LEMMA CollectedSeries ==
  ASSUME ~Collect("client").err
  PROVE  ToSet(Collect("client").series) = {MapObservation(o) : o \in ToSet(ClientObservations.obs)}
<1>1. Observations("client") = ClientObservations
  BY DEF Observations
<1>2. PICK r : r = ClientObservations
  OBVIOUS
<1>3. PICK m : m = Map(r)
  OBVIOUS
<1>4. Collect("client").err = Emit(m).err /\ Collect("client").series = Emit(m).series
  BY <1>1, <1>2, <1>3 DEF Collect
<1>5. Emit(m) = m /\ ~m.err
  BY <1>4 DEF Emit
<1>6. m.series = [i \in DOMAIN r.obs |-> MapObservation(r.obs[i])]
  BY <1>3, <1>5 DEF Map
<1>7. PICK obs, series : obs = r.obs /\ series = m.series
  OBVIOUS
<1>8. series = [i \in DOMAIN obs |-> MapObservation(obs[i])]
  BY <1>6, <1>7
<1>9. ToSet(series) = {MapObservation(o) : o \in ToSet(obs)}
  BY <1>8 DEF ToSet
<1>10. QED
  BY <1>2, <1>4, <1>5, <1>7, <1>9

\* What the client collector returns says the current state of every import.
LEMMA CollectedStates ==
  ASSUME HostInv, ~Collect("client").err
  PROVE  StatesAreCurrent(Collect("client").series)
<1>1. PICK r : r = ClientObservations
  OBVIOUS
<1>2. ~r.err
  BY <1>1, ClientCollects
<1>3. /\ \A o \in ToSet(r.obs) : HasItsLabels(o)
      /\ {o \in ToSet(r.obs) : o.id = "target_state"} =
           UNION {StatesOf(Targets[i]) : i \in DOMAIN Targets}
  BY <1>1, <1>2, ClientYields DEF Yields
<1>4. PICK series : series = Collect("client").series
  OBVIOUS
<1>5. ToSet(series) = {MapObservation(o) : o \in ToSet(r.obs)}
  BY <1>1, <1>4, CollectedSeries
<1>6. ASSUME NEW i \in DOMAIN Targets, Targets[i].component # "llite"
      PROVE  StatesIn(series, Targets[i]) = {CurrentState(Targets[i])} \ {""}
  <2>1. PICK t : t = Targets[i]
    OBVIOUS
  <2>2. ASSUME NEW s \in ToSet(series), s.name = "target_state", s.labels.target = t.name
        PROVE  s.labels.state \in {CurrentState(t)} \ {""}
    <3>1. PICK o \in ToSet(r.obs) : s = MapObservation(o)
      BY <1>5, <2>2
    <3>2. /\ o.id = "target_state"
          /\ s.labels.target = o.labels.target /\ s.labels.state = o.labels.state
      BY <1>3, <2>2, <3>1, MappedStates
    <3>3. PICK j \in DOMAIN Targets : o \in StatesOf(Targets[j])
      BY <1>3, <3>1, <3>2
    <3>4. PICK u : u = Targets[j]
      OBVIOUS
    <3>5. u.name = t.name /\ s.labels.state = CurrentState(u) /\ CurrentState(u) # ""
      BY <2>2, <3>2, <3>3, <3>4, StateObservationIs
    <3>6. u.component = t.component
      BY <2>1, <3>4, <3>5, NamesAreOfOneComponent
    <3>7. CurrentState(u) = CurrentState(t)
      BY <3>5, <3>6 DEF CurrentState, StatePlaces
    <3>8. QED
      BY <3>5, <3>7
  <2>3. ASSUME CurrentState(t) # ""
        PROVE  CurrentState(t) \in StatesIn(series, t)
    <3>1. PICK o : o = StateObservation(t)
      OBVIOUS
    <3>2. o \in StatesOf(t)
      BY <2>3, <3>1 DEF StatesOf
    <3>3. o \in ToSet(r.obs) /\ o.id = "target_state"
      BY <1>3, <2>1, <3>2
    <3>4. PICK s : s = MapObservation(o)
      OBVIOUS
    <3>5. s \in ToSet(series)
      BY <1>5, <3>3, <3>4
    <3>6. /\ s.name = "target_state"
          /\ s.labels.target = t.name /\ s.labels.state = CurrentState(t)
      BY <1>3, <3>2, <3>3, <3>4, MappedStates, StateObservationIs
    <3>7. QED
      BY <3>5, <3>6 DEF StatesIn
  <2>4. StatesIn(series, t) \subseteq {CurrentState(t)} \ {""}
    BY <2>2 DEF StatesIn
  <2>5. QED
    BY <2>1, <2>3, <2>4
<1>7. QED
  BY <1>4, <1>6 DEF StatesAreCurrent, SaysState

\* StateIsCurrent, of the collector's result.
StatesForAll ==
  phase = "collected" /\ "client" \in DOMAIN results /\ ~results["client"].err =>
    StatesAreCurrent(results["client"].series)

\* It is StateIsCurrent.
LEMMA StatesForAllIs ==
  StatesForAll => StateIsCurrent
<1>1. ASSUME NEW t, t.component # "llite"
      PROVE  (IF Available(StatePlaces(t)) = {} THEN {}
              ELSE {StateOf(Lines(FirstAvailable(StatePlaces(t))))}) \ {""} = {CurrentState(t)} \ {""}
  BY <1>1 DEF CurrentState
<1>2. QED
  BY <1>1 DEF StatesForAll, StateIsCurrent, ClientIsFresh, Succeeded, StatesAreCurrent, SaysState,
             StatesIn, StatePlaces

\* The current states depend on the host only.
LEMMA SameStates ==
  ASSUME host' = host, NEW series, StatesAreCurrent(series), series = results'["client"].series
  PROVE  StatesAreCurrent(results["client"].series)'
<1>1. Targets' = Targets
  BY SameHost
<1>2. ASSUME NEW t
      PROVE  CurrentState(t)' = CurrentState(t)
  <2>1. PICK paths : paths = StatePlaces(t)
    OBVIOUS
  <2>2. Available(paths)' = Available(paths) /\ FirstAvailable(paths)' = FirstAvailable(paths)
    BY SameHost DEF Available, FirstAvailable
  <2>3. Lines(FirstAvailable(paths))' = Lines(FirstAvailable(paths))
    BY <2>2, SameHost DEF Lines
  <2>4. QED
    BY <2>1, <2>2, <2>3 DEF CurrentState, StatePlaces
<1>3. ASSUME NEW i \in DOMAIN Targets
      PROVE  SaysState(Targets[i], results["client"].series)'
  <2>1. PICK t : t = Targets[i]
    OBVIOUS
  <2>2. SaysState(t, series) /\ t = Targets'[i]
    BY <1>1, <2>1 DEF StatesAreCurrent
  <2>3. CurrentState(t)' = CurrentState(t)
    BY <1>2
  <2>4. SaysState(t, series)'
    BY <2>2, <2>3 DEF SaysState, StatesIn
  <2>5. QED
    BY <2>2, <2>4 DEF SaysState, StatesIn, CurrentState, StatePlaces
<1>4. QED
  BY <1>1, <1>3 DEF StatesAreCurrent

\* A step keeps StatesForAll.
LEMMA StatesForAllStep ==
  ASSUME TypeInv, StatesForAll, [Next]_vars
  PROVE  StatesForAll'
<1>1. CASE Scrape
  <2>1. SUFFICES ASSUME "client" \in DOMAIN results', ~results'["client"].err
                 PROVE  StatesAreCurrent(results["client"].series)'
    BY DEF StatesForAll
  <2>2. host' = host /\ results'["client"] = Collect("client")
    BY <1>1, <2>1 DEF Scrape
  <2>3. PICK series : series = Collect("client").series
    OBVIOUS
  <2>4. StatesAreCurrent(series)
    BY <2>1, <2>2, <2>3, TypeInvGives, CollectedStates
  <2>5. series = results'["client"].series
    BY <2>2, <2>3
  <2>6. QED
    BY <2>2, <2>4, <2>5, SameStates
<1>2. CASE Start \/ \E path \in DOMAIN Contents : \E file \in FilesAt(path) : Edit(path, file)
  <2>1. phase' # "collected"
    BY <1>2 DEF Start, Edit
  <2>2. QED
    BY <2>1 DEF StatesForAll
<1>3. CASE Idle \/ UNCHANGED vars
  <2>1. host' = host /\ results' = results /\ phase' = phase
    BY <1>3 DEF Idle, vars
  <2>2. SUFFICES ASSUME phase = "collected", "client" \in DOMAIN results, ~results["client"].err
                 PROVE  StatesAreCurrent(results["client"].series)'
    BY <2>1 DEF StatesForAll
  <2>3. PICK series : series = results["client"].series
    OBVIOUS
  <2>4. StatesAreCurrent(series) /\ series = results'["client"].series
    BY <2>1, <2>2, <2>3 DEF StatesForAll
  <2>5. QED
    BY <2>1, <2>4, SameStates
<1>4. QED
  BY <1>1, <1>2, <1>3 DEF Next

\* The answer says of every import the state that its file says is current, and
\* no other: none of its history, none of another place of the file
\* (target.go:63-110).
THEOREM OneCurrentState == Spec => []StateIsCurrent
<1>1. Init => TypeInv /\ StatesForAll
  BY ScrapeAssumption DEF Init, TypeInv, TypeOK, FilesAt, Valid, StatesForAll
<1>2. TypeInv /\ StatesForAll /\ [Next]_vars => (TypeInv /\ StatesForAll)'
  BY TypeInvStep, StatesForAllStep
<1>3. StatesForAll => StateIsCurrent
  BY StatesForAllIs
<1>4. QED
  BY <1>1, <1>2, <1>3, PTL DEF Spec
-----------------------------------------------------------------------------
(* Origins.                                                                *)

\* The target of an observation; "" for a metric without one.
Subject(labels) == IF "target" \in DOMAIN labels THEN labels.target ELSE ""

\* An observation that is all that Observation makes of it.
IsMade(o) ==
  /\ o = Observation(o.id, o.labels, o.source)
  /\ o.labels = [k \in DOMAIN o.labels |-> o.labels[k]]

\* An observation of one of these metrics, from this path and about this target.
IsOf(o, ids, path, subject) ==
  IsMade(o) /\ o.id \in ids /\ o.source = path /\ Subject(o.labels) = subject

\* A list of them.
AreOf(obs, ids, path, subject) ==
  IsList(obs) /\ \A o \in ToSet(obs) : IsOf(o, ids, path, subject)

\* A result that has them, or a failure.
Shows(r, ids, path, subject) == IsResult(r) /\ AreOf(r.obs, ids, path, subject)

\* What Observation makes.
LEMMA ObservationIsOf ==
  ASSUME NEW ids, NEW id \in ids, NEW labels, labels = [k \in DOMAIN labels |-> labels[k]],
         NEW path, NEW subject, Subject(labels) = subject
  PROVE  IsOf(Observation(id, labels, path), ids, path, subject)
BY DEF IsOf, IsMade, Observation

\* Lists of no and of one of them.
LEMMA ShortAreOf ==
  ASSUME NEW ids, NEW path, NEW subject
  PROVE  /\ AreOf(<<>>, ids, path, subject)
         /\ \A o : IsOf(o, ids, path, subject) => AreOf(<<o>>, ids, path, subject)
BY ShortLists DEF AreOf

\* One list after the other.
LEMMA ConcatAreOf ==
  ASSUME NEW ids, NEW path, NEW subject, NEW s, NEW t,
         AreOf(s, ids, path, subject), AreOf(t, ids, path, subject)
  PROVE  AreOf(s \o t, ids, path, subject)
BY ConcatLists DEF AreOf

\* One observation for each identifier of a list.
LEMMA EachIsOf ==
  ASSUME NEW ids, NEW n \in Nat, NEW list, DOMAIN list = 1..n, \A i \in 1..n : list[i] \in ids,
         NEW labels, labels = [k \in DOMAIN labels |-> labels[k]],
         NEW path, NEW subject, Subject(labels) = subject
  PROVE  AreOf(Each(list, labels, path), ids, path, subject)
<1>1. PICK s : s = Each(list, labels, path)
  OBVIOUS
<1>2. s = [i \in 1..n |-> Observation(list[i], labels, path)]
  BY <1>1 DEF Each
<1>3. IsList(s)
  BY <1>2, MappedList
<1>4. \A i \in 1..n : IsOf(Observation(list[i], labels, path), ids, path, subject)
  BY ObservationIsOf
<1>5. \A o \in ToSet(s) : IsOf(o, ids, path, subject)
  BY <1>2, <1>4 DEF ToSet
<1>6. QED
  BY <1>1, <1>3, <1>5 DEF AreOf

\* The lists of all lines.
LEMMA FlattenAreOf ==
  ASSUME NEW ids, NEW path, NEW subject, NEW lines, IsList(lines), NEW ss,
         DOMAIN ss = DOMAIN lines, ss = [i \in DOMAIN ss |-> ss[i]],
         \A i \in DOMAIN lines : AreOf(ss[i], ids, path, subject)
  PROVE  AreOf(FlattenSeq(ss), ids, path, subject)
<1>1. PICK n \in Nat : DOMAIN lines = 1..n
  BY DEF IsList
<1>2. \A i \in 1..n : IsList(ss[i])
  BY <1>1 DEF AreOf
<1>3. IsList(FlattenSeq(ss)) /\ ToSet(FlattenSeq(ss)) = UNION {ToSet(ss[i]) : i \in 1..n}
  BY <1>1, <1>2, FlattenLists
<1>4. QED
  BY <1>1, <1>3 DEF AreOf

\* Results of them.
LEMMA ShownResults ==
  ASSUME NEW ids, NEW path, NEW subject
  PROVE  /\ Shows(Failed, ids, path, subject)
         /\ Shows(Parsed(<<>>), ids, path, subject)
         /\ \A obs : AreOf(obs, ids, path, subject) => Shows(Parsed(obs), ids, path, subject)
         /\ \A r : Shows(r, ids, path, subject) =>
              Shows(Optional(r), ids, path, subject) /\ Shows(StrictError(r), ids, path, subject)
<1>1. Shows(Failed, ids, path, subject)
  BY Results DEF Shows, AreOf, IsResult
<1>2. \A obs : AreOf(obs, ids, path, subject) => Shows(Parsed(obs), ids, path, subject)
  BY Results DEF Shows, AreOf
<1>3. Shows(Parsed(<<>>), ids, path, subject)
  BY <1>2, ShortAreOf
<1>4. QED
  BY <1>1, <1>2, <1>3 DEF Optional, StrictError

\* The metrics of every source.
SptlrpcIDs ==
  {"physical_pages", "pages_per_pool", "maximum_pages", "maximum_pools", "pages_in_pools",
   "free_pages", "free_page_low", "maximum_waitqueue_depth", "maximum_pages_reached_total",
   "grows_total", "grows_failure_total", "shrinks_total", "cache_access_total",
   "cache_miss_total", "out_of_memory_request_total"}

LNetIDs ==
  {"allocated", "maximum", "errors_total", "send_count_total", "receive_count_total",
   "route_count_total", "drop_count_total", "send_bytes_total", "receive_bytes_total",
   "route_bytes_total", "drop_bytes_total"}

NIIDs ==
  {"send_count_by_nid_total", "receive_count_by_nid_total", "drop_count_by_nid_total",
   "lnet_ni_up", "lnet_ni_health", "lnet_ni_health_interrupts_total",
   "lnet_ni_health_dropped_total", "lnet_ni_health_aborted_total",
   "lnet_ni_health_no_route_total", "lnet_ni_health_timeouts_total",
   "lnet_ni_health_errors_total"}

LpccIDs ==
  {"pcc_status", "pcc_purge_status", "pcc_cache_usage_ratio", "pcc_purge_high_usage_ratio",
   "pcc_purge_low_usage_ratio", "pcc_purge_interval_seconds", "pcc_purge_scan_threads",
   "pcc_purge_scan_times_total", "pcc_purge_total_purged_objs_total",
   "pcc_purge_total_failed_objs_total", "pcc_purge_scanned_objs", "pcc_purge_purged_objs",
   "pcc_cached_files", "pcc_cached_bytes", "pcc_min_cached_file_size_bytes",
   "pcc_max_cached_file_size_bytes", "pcc_average_age_seconds", "pcc_fs_open_count_total",
   "pcc_fs_real_hit_total", "pcc_fs_open_hit_ratio", "pcc_fs_real_hit_bytes_total",
   "pcc_fs_total_read_bytes_total", "pcc_fs_read_hit_bytes_ratio"}

StatsIDs ==
  {"read_samples_total", "read_minimum_size_bytes", "read_maximum_size_bytes",
   "read_bytes_total", "write_samples_total", "write_minimum_size_bytes",
   "write_maximum_size_bytes", "write_bytes_total", "stats_total", "stats_seconds_sum"}

RPCIDs == {"pages_per_rpc_total", "rpcs_offset", "rpcs_in_flight", "rpcs_current", "pending_pages"}

LNetParamIDs ==
  {"console_backoff_enabled", "console_max_delay_centiseconds",
   "console_min_delay_centiseconds", "console_ratelimit_enabled", "debug_megabytes",
   "panic_on_lbug_enabled", "watchdog_ratelimit_enabled", "catastrophe_enabled",
   "lnet_memory_used_bytes", "fail_error_total", "fail_maximum"}

\* The labels that the parsers build are functions, and this is their target.
LEMMA SubjectsAre ==
  /\ LNet = [k \in DOMAIN LNet |-> LNet[k]] /\ Subject(LNet) = "lnet"
  /\ \A name : Client(name) = [k \in DOMAIN Client(name) |-> Client(name)[k]]
               /\ Subject(Client(name)) = name
  /\ \A labels, more :
       /\ With(labels, more) = [k \in DOMAIN With(labels, more) |-> With(labels, more)[k]]
       /\ "target" \notin DOMAIN more => Subject(With(labels, more)) = Subject(labels)
<1>1. LNet = [k \in DOMAIN LNet |-> LNet[k]] /\ Subject(LNet) = "lnet"
  BY DEF LNet, Subject
<1>2. ASSUME NEW name
      PROVE  Client(name) = [k \in DOMAIN Client(name) |-> Client(name)[k]]
             /\ Subject(Client(name)) = name
  BY DEF Client, Subject
<1>3. ASSUME NEW labels, NEW more
      PROVE  /\ With(labels, more) = [k \in DOMAIN With(labels, more) |-> With(labels, more)[k]]
             /\ "target" \notin DOMAIN more => Subject(With(labels, more)) = Subject(labels)
  BY DEF With, Subject
<1>4. QED
  BY <1>1, <1>2, <1>3

\* health.go.
LEMMA HealthShows ==
  ASSUME NEW lines, NEW path
  PROVE  Shows(ParseHealth(lines, path), {"health_check"}, path, "lustre")
<1>1. PICK labels : labels = [component |-> "health", target |-> "lustre"]
  OBVIOUS
<1>2. labels = [k \in DOMAIN labels |-> labels[k]] /\ Subject(labels) = "lustre"
  BY <1>1 DEF Subject
<1>3. IsOf(Observation("health_check", labels, path), {"health_check"}, path, "lustre")
  BY <1>2, ObservationIsOf
<1>4. QED
  BY <1>1, <1>3, ShortAreOf, ShownResults DEF ParseHealth, One

\* sptlrpc.go.
LEMMA SptlrpcShows ==
  ASSUME NEW lines, IsList(lines), NEW path
  PROVE  Shows(ParseEncryptPagePools(lines, path), SptlrpcIDs, path, "")
<1> DEFINE Obs(line) == <<Observation(sptlrpcKeyMap[line.key], <<>>, path)>>
<1>1. PICK ss : ss = [i \in DOMAIN lines |->
        IF lines[i].key \in DOMAIN sptlrpcKeyMap THEN Obs(lines[i]) ELSE <<>>]
  OBVIOUS
<1>2. ASSUME NEW key \in DOMAIN sptlrpcKeyMap
      PROVE  IsOf(Observation(sptlrpcKeyMap[key], <<>>, path), SptlrpcIDs, path, "")
  <2>1. <<>> = [k \in DOMAIN <<>> |-> <<>>[k]] /\ Subject(<<>>) = ""
    BY DEF Subject
  <2>2. sptlrpcKeyMap[key] \in SptlrpcIDs
    BY DEF sptlrpcKeyMap, SptlrpcIDs
  <2>3. QED
    BY <2>1, <2>2, ObservationIsOf
<1>3. \A i \in DOMAIN lines : AreOf(ss[i], SptlrpcIDs, path, "")
  BY <1>1, <1>2, ShortAreOf
<1> HIDE DEF Obs
<1>4. AreOf(FlattenSeq(ss), SptlrpcIDs, path, "")
  BY <1>1, <1>3, FlattenAreOf
<1>5. \/ ParseEncryptPagePools(lines, path) = Failed
      \/ ParseEncryptPagePools(lines, path) = Parsed(FlattenSeq(ss))
  BY <1>1 DEF ParseEncryptPagePools, AllLines, Obs
<1>6. QED
  BY <1>4, <1>5, ShownResults

\* The parsers of LNet's stats, of the file and of the command.
LEMMA LNetFilesShow ==
  ASSUME NEW lines, NEW path
  PROVE  /\ Shows(ParseLNetStats(lines, path), LNetIDs, path, "lnet")
         /\ Shows(ParseLNetCtlStats(lines, path), LNetIDs, path, "lnet")
<1>1. DOMAIN lnetStatsFields = 1..11 /\ \A i \in 1..11 : lnetStatsFields[i] \in LNetIDs
  BY DEF lnetStatsFields, LNetIDs
<1>2. AreOf(Each(lnetStatsFields, LNet, path), LNetIDs, path, "lnet")
  BY <1>1, SubjectsAre, EachIsOf
<1>3. \/ ParseLNetStats(lines, path) = Parsed(<<>>)
      \/ ParseLNetStats(lines, path) = Failed
      \/ ParseLNetStats(lines, path) = Parsed(Each(lnetStatsFields, LNet, path))
  <2>1. PICK sum : sum = FoldLeft(LAMBDA n, line : n + line.fields, 0, lines)
    OBVIOUS
  <2>2. QED
    BY DEF ParseLNetStats, FoldLeft, MapThenFoldSet
<1>4. \/ ParseLNetCtlStats(lines, path) = Failed
      \/ ParseLNetCtlStats(lines, path) = Parsed(Each(lnetStatsFields, LNet, path))
  BY DEF ParseLNetCtlStats
<1>5. QED
  BY <1>2, <1>3, <1>4, ShownResults

\* A file with one value.
LEMMA SingleShows ==
  ASSUME NEW lines, NEW id, NEW labels, labels = [k \in DOMAIN labels |-> labels[k]],
         NEW path, NEW subject, Subject(labels) = subject
  PROVE  /\ Shows(One(id, labels, path), {id}, path, subject)
         /\ Shows(SingleFile(lines, id, labels, path), {id}, path, subject)
<1>1. IsOf(Observation(id, labels, path), {id}, path, subject)
  BY ObservationIsOf
<1>2. Shows(One(id, labels, path), {id}, path, subject)
  BY <1>1, ShortAreOf, ShownResults DEF One
<1>3. QED
  BY <1>2, ShownResults DEF SingleFile

\* Such a file is a parameter of LNet.
LEMMA LNetParamShows ==
  ASSUME NEW lines, NEW path, NEW param \in DOMAIN lnetParamMap
  PROVE  Shows(ParseLNetParam(lines, path, param), {lnetParamMap[param]}, path, "lnet")
BY SubjectsAre, SingleShows DEF ParseLNetParam

\* The one line of a document.
LEMMA DocumentIs ==
  ASSUME NEW lines, IsList(lines), IsDocument(lines)
  PROVE  lines[1] \in ToSet(lines) /\ lines[1].document
<1>1. Len(lines) = 1 /\ lines[1].document
  BY DEF IsDocument
<1>2. 1 \in DOMAIN lines
  BY <1>1 DEF IsList
<1>3. QED
  BY <1>1, <1>2 DEF ToSet

\* The local NIs of a document.
LEMMA LocalNIsAre ==
  ASSUME NEW lines, IsList(lines), \A line \in ToSet(lines) : line.document => IsList(line.nis),
         IsJSONOrYAML(lines)
  PROVE  IsList(LocalNIs(lines))
<1>1. CASE lines = <<>>
  BY <1>1, ShortLists DEF LocalNIs
<1>2. CASE lines # <<>>
  BY <1>2, DocumentIs DEF IsJSONOrYAML, LocalNIs
<1>3. QED
  BY <1>1, <1>2

\* What is reported of an NI.
LEMMA NIShows ==
  ASSUME NEW ni, NEW path
  PROVE  /\ AreOf(NIObservations(ni, path), NIIDs, path, "lnet")
         /\ AreOf(Each(<<"send_count_by_nid_total", "receive_count_by_nid_total",
                         "drop_count_by_nid_total">>, OfNI(ni), path), NIIDs, path, "lnet")
<1>1. PICK up, health, counts :
        /\ up = <<"lnet_ni_up">>
        /\ health = <<"lnet_ni_health", "lnet_ni_health_interrupts_total",
                      "lnet_ni_health_dropped_total", "lnet_ni_health_aborted_total",
                      "lnet_ni_health_no_route_total", "lnet_ni_health_timeouts_total",
                      "lnet_ni_health_errors_total">>
        /\ counts = <<"send_count_by_nid_total", "receive_count_by_nid_total",
                      "drop_count_by_nid_total">>
  OBVIOUS
<1>2. /\ DOMAIN up = 1..1 /\ \A i \in 1..1 : up[i] \in NIIDs
      /\ DOMAIN health = 1..7 /\ \A i \in 1..7 : health[i] \in NIIDs
      /\ DOMAIN counts = 1..3 /\ \A i \in 1..3 : counts[i] \in NIIDs
  BY <1>1 DEF NIIDs
<1>3. OfNI(ni) = [k \in DOMAIN OfNI(ni) |-> OfNI(ni)[k]] /\ Subject(OfNI(ni)) = "lnet"
  <2>1. "target" \notin DOMAIN [nid |-> ni.nid]
    OBVIOUS
  <2>2. QED
    BY <2>1, SubjectsAre DEF OfNI
<1>4. ASSUME NEW n \in Nat, NEW s, DOMAIN s = 1..n, \A i \in 1..n : s[i] \in NIIDs
      PROVE  AreOf(Each(s, OfNI(ni), path), NIIDs, path, "lnet")
  BY <1>3, <1>4, EachIsOf
<1>5. /\ AreOf(Each(up, OfNI(ni), path), NIIDs, path, "lnet")
      /\ AreOf(Each(health, OfNI(ni), path), NIIDs, path, "lnet")
      /\ AreOf(Each(counts, OfNI(ni), path), NIIDs, path, "lnet")
  BY <1>2, <1>4
<1>6. NIObservations(ni, path) =
        (IF ni.status = "" THEN <<>> ELSE Each(up, OfNI(ni), path))
          \o IF ~ni.health THEN <<>> ELSE Each(health, OfNI(ni), path)
  BY <1>1 DEF NIObservations
<1>7. QED
  BY <1>1, <1>5, <1>6, ShortAreOf, ConcatAreOf

\* The parsers of net show.
LEMMA NetShowShows ==
  ASSUME NEW lines, IsList(lines), \A line \in ToSet(lines) : line.document => IsList(line.nis),
         NEW path
  PROVE  /\ Shows(ParseLNetCtlNetStats(lines, path), NIIDs, path, "lnet")
         /\ Shows(ParseLNetCtlNetNI(lines, path), NIIDs, path, "lnet")
<1>1. CASE ~IsJSONOrYAML(lines)
  BY <1>1, ShownResults DEF ParseLNetCtlNetStats, ParseLNetCtlNetNI
<1>2. CASE IsJSONOrYAML(lines)
  <2>1. PICK nis : nis = LocalNIs(lines)
    OBVIOUS
  <2>2. IsList(nis)
    BY <1>2, <2>1, LocalNIsAre
  <2> DEFINE Counts(ni) == Each(<<"send_count_by_nid_total", "receive_count_by_nid_total",
                                  "drop_count_by_nid_total">>, OfNI(ni), path)
  <2>3. PICK cs, is : /\ cs = [i \in DOMAIN nis |-> IF HasNID(nis[i]) THEN Counts(nis[i]) ELSE <<>>]
                      /\ is = [i \in DOMAIN nis |->
                               IF HasNID(nis[i]) THEN NIObservations(nis[i], path) ELSE <<>>]
    OBVIOUS
  <2>4. \A i \in DOMAIN nis : /\ AreOf(cs[i], NIIDs, path, "lnet")
                              /\ AreOf(is[i], NIIDs, path, "lnet")
    BY <2>3, NIShows, ShortAreOf
  <2>5. ParseLNetCtlNetStats(lines, path) = Parsed(FlattenSeq(cs))
    BY <1>2, <2>1, <2>3 DEF ParseLNetCtlNetStats, AllLines
  <2>6. ParseLNetCtlNetNI(lines, path) = Parsed(FlattenSeq(is))
    BY <1>2, <2>1, <2>3 DEF ParseLNetCtlNetNI, AllLines
  <2> HIDE DEF Counts
  <2>7. /\ AreOf(FlattenSeq(cs), NIIDs, path, "lnet")
        /\ AreOf(FlattenSeq(is), NIIDs, path, "lnet")
    <3>1. /\ DOMAIN cs = DOMAIN nis /\ cs = [i \in DOMAIN cs |-> cs[i]]
          /\ DOMAIN is = DOMAIN nis /\ is = [i \in DOMAIN is |-> is[i]]
      BY <2>3
    <3>2. QED
      BY <2>2, <2>4, <3>1, FlattenAreOf
  <2>8. QED
    BY <2>5, <2>6, <2>7, ShownResults
<1>3. QED
  BY <1>1, <1>2

\* What is reported of a mount of lpcc.
LEMMA MountShows ==
  ASSUME NEW m, IsList(m.caches), NEW path
  PROVE  AreOf(MountObservations(m, path), LpccIDs, path, "")
<1>1. PICK caches, mount : caches = m.caches /\ mount = m.mount
  OBVIOUS
<1>2. PICK ss : ss = [i \in DOMAIN caches |->
                        Each(pccCache, [mount |-> mount, cache |-> caches[i]], path)]
  OBVIOUS
<1>3. /\ DOMAIN pccCache = 1..17 /\ \A i \in 1..17 : pccCache[i] \in LpccIDs
      /\ DOMAIN pccMount = 1..6 /\ \A i \in 1..6 : pccMount[i] \in LpccIDs
  BY DEF pccCache, pccMount, LpccIDs
<1>4. ASSUME NEW cache
      PROVE  AreOf(Each(pccCache, [mount |-> mount, cache |-> cache], path), LpccIDs, path, "")
  <2>1. PICK labels : labels = [mount |-> mount, cache |-> cache]
    OBVIOUS
  <2>2. labels = [k \in DOMAIN labels |-> labels[k]] /\ Subject(labels) = ""
    BY <2>1 DEF Subject
  <2>3. QED
    BY <1>3, <2>1, <2>2, EachIsOf
<1>5. AreOf(Each(pccMount, [mount |-> mount], path), LpccIDs, path, "")
  <2>1. PICK labels : labels = [mount |-> mount]
    OBVIOUS
  <2>2. labels = [k \in DOMAIN labels |-> labels[k]] /\ Subject(labels) = ""
    BY <2>1 DEF Subject
  <2>3. QED
    BY <1>3, <2>1, <2>2, EachIsOf
<1>6. \A i \in DOMAIN caches : AreOf(ss[i], LpccIDs, path, "")
  BY <1>2, <1>4
<1>7. AreOf(FlattenSeq(ss), LpccIDs, path, "")
  BY <1>1, <1>2, <1>6, FlattenAreOf
<1>8. MountObservations(m, path) = FlattenSeq(ss) \o Each(pccMount, [mount |-> mount], path)
  BY <1>1, <1>2 DEF MountObservations
<1>9. QED
  BY <1>5, <1>7, <1>8, ConcatAreOf

\* The parser of lpcc status.
LEMMA LpccShows ==
  ASSUME NEW lines, IsList(lines), NEW path,
         \A line \in ToSet(lines) : line.document =>
           IsList(line.mounts) /\ \A m \in ToSet(line.mounts) : IsList(m.caches)
  PROVE  Shows(ParseLpccStatus(lines, path), LpccIDs, path, "")
<1>1. CASE ~IsDocument(lines)
  BY <1>1, ShownResults DEF ParseLpccStatus
<1>2. CASE IsDocument(lines)
  <2>1. PICK mounts : mounts = lines[1].mounts
    OBVIOUS
  <2>2. IsList(mounts) /\ \A m \in ToSet(mounts) : IsList(m.caches)
    <3>1. lines[1] \in ToSet(lines) /\ lines[1].document
      BY <1>2, DocumentIs
    <3>2. QED
      BY <2>1, <3>1
  <2>3. PICK ss : ss = [i \in DOMAIN mounts |-> MountObservations(mounts[i], path)]
    OBVIOUS
  <2>4. \A i \in DOMAIN mounts : AreOf(ss[i], LpccIDs, path, "")
    BY <2>2, <2>3, MountShows DEF ToSet
  <2>5. AreOf(FlattenSeq(ss), LpccIDs, path, "")
    BY <2>2, <2>3, <2>4, FlattenAreOf
  <2>6. ParseLpccStatus(lines, path) = Parsed(FlattenSeq(ss))
    BY <1>2, <2>1, <2>3 DEF ParseLpccStatus, AllLines
  <2>7. QED
    BY <2>5, <2>6, ShownResults
<1>3. QED
  BY <1>1, <1>2

\* A line of a stats file.
LEMMA LLiteLineShows ==
  ASSUME NEW line, NEW name, NEW path
  PROVE  AreOf(LLiteLine(line, name, path), StatsIDs, path, name)
<1>1. CASE IsBytes(line)
  <2>1. PICK ids : ids = BytesIDs(line)
    OBVIOUS
  <2>2. DOMAIN ids = 1..4 /\ \A i \in 1..4 : ids[i] \in StatsIDs
    BY <2>1 DEF BytesIDs, StatsIDs
  <2>3. QED
    BY <1>1, <2>1, <2>2, SubjectsAre, EachIsOf DEF LLiteLine
<1>2. CASE ~IsBytes(line)
  <2>1. "target" \notin DOMAIN [operation |-> line.name] /\ "stats_total" \in StatsIDs
    BY DEF StatsIDs
  <2>2. IsOf(Operation(line, name, path), StatsIDs, path, name)
    BY <2>1, SubjectsAre, ObservationIsOf DEF Operation
  <2>3. QED
    BY <1>2, <2>2, ShortAreOf DEF LLiteLine
<1>3. QED
  BY <1>1, <1>2

\* A line of the stats of an import.
LEMMA OBDLineShows ==
  ASSUME NEW line, NEW name, NEW type, NEW path
  PROVE  AreOf(OBDLine(line, name, type, path), StatsIDs, path, name)
<1>1. "target" \notin DOMAIN [type |-> type, operation |-> line.name] /\ "stats_seconds_sum" \in StatsIDs
  BY DEF StatsIDs
<1>2. IsOf(Seconds(line, name, type, path), StatsIDs, path, name)
  BY <1>1, SubjectsAre, ObservationIsOf DEF Seconds
<1>3. QED
  BY <1>2, LLiteLineShows, ShortAreOf, ConcatAreOf DEF OBDLine

\* The parsers of stats files.
LEMMA StatsShow ==
  ASSUME NEW lines, IsList(lines), NEW path, NEW name, NEW type
  PROVE  /\ Shows(ParseLLiteStats(lines, path, name), StatsIDs, path, name)
         /\ Shows(ParseOBDStats(lines, path, name, type), StatsIDs, path, name)
<1>1. PICK ls, os :
        /\ ls = [i \in DOMAIN lines |->
                IF Named(lines[i]) THEN LLiteLine(lines[i], name, path) ELSE <<>>]
        /\ os = [i \in DOMAIN lines |->
                IF Named(lines[i]) THEN OBDLine(lines[i], name, type, path) ELSE <<>>]
  OBVIOUS
<1>2. \A i \in DOMAIN lines : AreOf(ls[i], StatsIDs, path, name) /\ AreOf(os[i], StatsIDs, path, name)
  BY <1>1, LLiteLineShows, OBDLineShows, ShortAreOf
<1>3. AreOf(FlattenSeq(ls), StatsIDs, path, name) /\ AreOf(FlattenSeq(os), StatsIDs, path, name)
  <2>1. /\ DOMAIN ls = DOMAIN lines /\ ls = [i \in DOMAIN ls |-> ls[i]]
        /\ DOMAIN os = DOMAIN lines /\ os = [i \in DOMAIN os |-> os[i]]
    BY <1>1
  <2>2. QED
    BY <1>2, <2>1, FlattenAreOf
<1>4. \/ ParseLLiteStats(lines, path, name) = Failed
      \/ ParseLLiteStats(lines, path, name) = Parsed(FlattenSeq(ls))
  BY <1>1 DEF ParseLLiteStats, AllLines
<1>5. \/ ParseOBDStats(lines, path, name, type) = Failed
      \/ ParseOBDStats(lines, path, name, type) = Parsed(FlattenSeq(os))
  BY <1>1 DEF ParseOBDStats, AllLines
<1>6. QED
  BY <1>3, <1>4, <1>5, ShownResults

\* The parser of the lock callbacks.
LEMMA LDLMShows ==
  ASSUME NEW lines, IsList(lines), NEW path
  PROVE  Shows(ParseLDLMCBDStats(lines, path), {"ldlm_cbd_stats"}, path, "")
<1> DEFINE Takes(line) == /\ line.name # "snapshot_time" /\ ~line.equals
                          /\ line.fields >= 3 /\ line.samples
           Obs(line) == <<Observation("ldlm_cbd_stats", [operation |-> line.name], path)>>
<1>1. PICK ss : ss = [i \in DOMAIN lines |-> IF Takes(lines[i]) THEN Obs(lines[i]) ELSE <<>>]
  OBVIOUS
<1>2. ASSUME NEW line
      PROVE  AreOf(Obs(line), {"ldlm_cbd_stats"}, path, "")
  <2>1. PICK labels : labels = [operation |-> line.name]
    OBVIOUS
  <2>2. labels = [k \in DOMAIN labels |-> labels[k]] /\ Subject(labels) = ""
    BY <2>1 DEF Subject
  <2>3. QED
    BY <2>1, <2>2, ObservationIsOf, ShortAreOf
<1>3. \A i \in DOMAIN lines : AreOf(ss[i], {"ldlm_cbd_stats"}, path, "")
  BY <1>1, <1>2, ShortAreOf
<1> HIDE DEF Takes, Obs
<1>4. AreOf(FlattenSeq(ss), {"ldlm_cbd_stats"}, path, "")
  BY <1>1, <1>3, FlattenAreOf
<1>5. \/ ParseLDLMCBDStats(lines, path) = Failed
      \/ ParseLDLMCBDStats(lines, path) = Parsed(FlattenSeq(ss))
  BY <1>1 DEF ParseLDLMCBDStats, AllLines, Takes, Obs
<1>6. QED
  BY <1>4, <1>5, ShownResults

\* The parameter files of targets, and the metric of each.
ParamFileNames == DOMAIN lliteSingleFileMap \cup DOMAIN clientSingleFileMap \cup {"state"}

MetricOf(file) ==
  IF file \in DOMAIN lliteSingleFileMap THEN lliteSingleFileMap[file]
  ELSE IF file \in DOMAIN clientSingleFileMap THEN clientSingleFileMap[file]
  ELSE "target_state"

\* The parser of a parameter file.
LEMMA ParamShows ==
  ASSUME NEW t, NEW file, NEW lines, NEW path
  PROVE  Shows(ParseParam(t, file, lines, path), {MetricOf(file)}, path, t.name)
<1>1. PICK name, type : name = t.name /\ type = t.component
  OBVIOUS
<1>2. /\ Subject(Client(name)) = name
      /\ Client(name) = [k \in DOMAIN Client(name) |-> Client(name)[k]]
  BY SubjectsAre
<1>3. ASSUME NEW more, "target" \notin DOMAIN more
      PROVE  LET labels == With(Client(name), more)
             IN labels = [k \in DOMAIN labels |-> labels[k]] /\ Subject(labels) = name
  BY <1>2, <1>3, SubjectsAre
<1>4. DOMAIN lliteSingleFileMap \cap DOMAIN clientSingleFileMap = {}
  BY DEF lliteSingleFileMap, clientSingleFileMap
<1>5. "state" \notin DOMAIN lliteSingleFileMap /\ "state" \notin DOMAIN clientSingleFileMap
  BY DEF lliteSingleFileMap, clientSingleFileMap
<1>6. Shows(ParseLLiteSingleFile(lines, path, file, name), {MetricOf(file)}, path, name)
  BY <1>2, SingleShows, ShownResults DEF ParseLLiteSingleFile, MetricOf
<1>7. Shows(ParseClientSingleFile(lines, path, file, name, type), {MetricOf(file)}, path, name)
  <2>1. CASE file \in DOMAIN clientSingleFileMap
    <3>1. PICK labels :
            labels = IF HasType(file) THEN With(Client(name), [type |-> type]) ELSE Client(name)
      OBVIOUS
    <3>2. "target" \notin DOMAIN [type |-> type]
      OBVIOUS
    <3>3. labels = [k \in DOMAIN labels |-> labels[k]] /\ Subject(labels) = name
      BY <1>2, <1>3, <3>1, <3>2
    <3>4. MetricOf(file) = clientSingleFileMap[file]
      BY <1>4, <2>1 DEF MetricOf
    <3>5. QED
      BY <2>1, <3>1, <3>3, <3>4, SingleShows DEF ParseClientSingleFile
  <2>2. CASE file \notin DOMAIN clientSingleFileMap
    BY <2>2, ShownResults DEF ParseClientSingleFile
  <2>3. QED
    BY <2>1, <2>2
<1>8. CASE file = "state"
  <2>1. MetricOf(file) = "target_state"
    BY <1>5, <1>8 DEF MetricOf
  <2>2. ASSUME NEW state
        PROVE  Shows(One("target_state", With(Client(name), [type |-> type, state |-> state]), path),
                     {"target_state"}, path, name)
    <3>1. "target" \notin DOMAIN [type |-> type, state |-> state]
      OBVIOUS
    <3>2. QED
      BY <1>3, <3>1, SingleShows
  <2>3. Shows(ParseClientState(lines, path, name, type), {"target_state"}, path, name)
    BY <2>2, ShownResults DEF ParseClientState
  <2>4. QED
    BY <1>1, <1>6, <1>7, <1>8, <2>1, <2>3 DEF ParseParam
<1>9. CASE file # "state"
  BY <1>1, <1>6, <1>7, <1>9 DEF ParseParam
<1>10. QED
  BY <1>8, <1>9

\* The parser of rpc_stats.
LEMMA RPCShows ==
  ASSUME NEW lines, IsList(lines), \A line \in ToSet(lines) : HasScalar(line),
         NEW path, NEW name, NEW type
  PROVE  Shows(ParseRPCStats(lines, path, name, type), RPCIDs, path, name)
<1>1. ASSUME NEW o, o.metric \in RPCMetrics
      PROVE  IsOf(RPCObservation(o, name, type, path), RPCIDs, path, name)
  <2>1. PICK labels : labels = With(Client(name), [operation |-> o.operation])
    OBVIOUS
  <2>2. PICK typed : typed = With(labels, [type |-> type])
    OBVIOUS
  <2>3. PICK size, tsize : size = With(labels, [size |-> o.line]) /\ tsize = With(typed, [size |-> o.line])
    OBVIOUS
  <2>4. /\ "target" \notin DOMAIN [operation |-> o.operation]
        /\ "target" \notin DOMAIN [type |-> type] /\ "target" \notin DOMAIN [size |-> o.line]
    OBVIOUS
  <2>5. Subject(labels) = name /\ Subject(typed) = name
    BY <2>1, <2>2, <2>4, SubjectsAre
  <2>6. /\ typed = [k \in DOMAIN typed |-> typed[k]]
        /\ size = [k \in DOMAIN size |-> size[k]] /\ Subject(size) = name
        /\ tsize = [k \in DOMAIN tsize |-> tsize[k]] /\ Subject(tsize) = name
    BY <2>2, <2>3, <2>4, <2>5, SubjectsAre
  <2>7. PICK metric : metric = o.metric
    OBVIOUS
  <2>8. RPCObservation(o, name, type, path) =
          CASE metric \in {"rpcs_current", "pending_pages"} -> Observation(metric, typed, path)
            [] metric = "rpcs_in_flight" -> Observation(metric, tsize, path)
            [] metric = "pages_per_rpc" -> Observation("pages_per_rpc_total", size, path)
            [] OTHER -> Observation(metric, size, path)
    BY <2>1, <2>2, <2>3, <2>7 DEF RPCObservation
  <2>9. \E id \in RPCIDs : \E l \in {typed, size, tsize} :
          RPCObservation(o, name, type, path) = Observation(id, l, path)
    BY <1>1, <2>7, <2>8 DEF RPCMetrics, RPCIDs
  <2>10. QED
    BY <2>5, <2>6, <2>9, ObservationIsOf
<1>2. PICK end : end = FoldLeft(RPCStatsLine, [section |-> NoSection, err |-> FALSE, obs |-> <<>>], lines)
  OBVIOUS
<1>3. IsRPCState(end)
  BY <1>2, RPCEndIs
<1>4. PICK s : s = [i \in DOMAIN end.obs |-> RPCObservation(end.obs[i], name, type, path)]
  OBVIOUS
<1>5. IsList(s)
  <2>1. PICK n \in Nat : DOMAIN end.obs = 1..n
    BY <1>3 DEF IsRPCState, IsList
  <2>2. QED
    BY <1>4, <2>1, MappedList
<1>6. \A i \in DOMAIN end.obs : end.obs[i].metric \in RPCMetrics
  BY <1>3 DEF IsRPCState, ToSet
<1>7. \A o \in ToSet(s) : IsOf(o, RPCIDs, path, name)
  BY <1>1, <1>4, <1>6 DEF ToSet
<1>8. ParseRPCStats(lines, path, name, type) = IF end.err THEN Failed ELSE Parsed(s)
  BY <1>2, <1>4 DEF ParseRPCStats
<1>9. QED
  BY <1>5, <1>7, <1>8, ShownResults DEF AreOf

\* What a metric is read from.
SourceOf(id) ==
  IF id \in SptlrpcIDs THEN "sptlrpc"
  ELSE IF id \in LNetIDs THEN "lnet"
  ELSE IF id \in NIIDs THEN "net show"
  ELSE IF id \in LNetParamIDs THEN "lnet parameter"
  ELSE IF id \in LpccIDs THEN "lpcc"
  ELSE IF id \in StatsIDs THEN "stats"
  ELSE IF id \in RPCIDs THEN "rpc_stats"
  ELSE IF id = "health_check" THEN "health"
  ELSE IF id = "ldlm_cbd_stats" THEN "ldlm"
  ELSE "parameter"

\* The file of a target, and the parameter of LNet, that has a metric.
FileOf(id) == CHOOSE file \in ParamFileNames : MetricOf(file) = id
LNetParamOf(id) == CHOOSE param \in ToSet(LNetParamNames) : lnetParamMap[param] = id

\* LNet's stats come from the file or from the command.
FromDebugFS ==
  config.lnetSource = "debugfs" \/ (config.lnetSource # "lnetctl" /\ ~CollectFromDebugFS.err)

\* The target of that name: no two have the same.
TargetNamed(name) == CHOOSE t \in ToSet(Targets) : t.name = name

\* The one path from which the host answers for a metric of a target.
Origin(id, subject) ==
  LET source == SourceOf(id)
      t == TargetNamed(subject)
  IN CASE source = "health" -> HealthPath
       [] source = "sptlrpc" -> FirstAvailable(SptlrpcPaths)
       [] source = "lnet" -> IF FromDebugFS THEN FirstAvailable(LNetStatsPaths)
                                            ELSE <<"cmd", "stats show">>
       [] source = "net show" -> FirstAvailable(NetShow)
       [] source = "lnet parameter" -> FirstAvailable(LNetParamPaths(LNetParamOf(id)))
       [] source = "lpcc" -> FirstAvailable(LpccStatus)
       [] source = "ldlm" -> FirstAvailable(LDLMCBDStatsPaths)
       [] source = "stats" -> Path(t, t.stats, "stats")
       [] source = "rpc_stats" -> Path(t, t.rpc_stats, "rpc_stats")
       [] source = "parameter" ->
            FirstAvailable(Under(ParamRoots, <<t.component, t.name, FileOf(id)>>))

\* An observation comes from there.
IsLocated(o) == IsMade(o) /\ o.source = Origin(o.id, Subject(o.labels))

\* A result of them, or a failure.
IsLocatedResult(r) == IsResult(r) /\ \A o \in ToSet(r.obs) : IsLocated(o)

\* No metric is read from two sources.
LEMMA SourcesAre ==
  /\ SourceOf("health_check") = "health"
  /\ \A id \in SptlrpcIDs : SourceOf(id) = "sptlrpc"
  /\ \A id \in LNetIDs : SourceOf(id) = "lnet"
  /\ \A id \in NIIDs : SourceOf(id) = "net show"
  /\ \A id \in LNetParamIDs : SourceOf(id) = "lnet parameter"
  /\ \A id \in LpccIDs : SourceOf(id) = "lpcc"
  /\ \A id \in StatsIDs : SourceOf(id) = "stats"
  /\ \A id \in RPCIDs : SourceOf(id) = "rpc_stats"
  /\ SourceOf("ldlm_cbd_stats") = "ldlm"
BY DEF SourceOf, SptlrpcIDs, LNetIDs, NIIDs, LNetParamIDs, LpccIDs, StatsIDs, RPCIDs

\* The metrics of the parameter files.
LEMMA MetricsOfFiles ==
  /\ \A file \in ParamFileNames : SourceOf(MetricOf(file)) = "parameter"
  /\ \A f, g \in ParamFileNames : MetricOf(f) = MetricOf(g) => f = g
<1>1. ASSUME NEW file \in ParamFileNames
      PROVE  SourceOf(MetricOf(file)) = "parameter"
  <2>1. CASE file \in DOMAIN lliteSingleFileMap
    <3>1. MetricOf(file) = lliteSingleFileMap[file]
      BY <2>1 DEF MetricOf
    <3>2. QED
      BY <2>1, <3>1 DEF lliteSingleFileMap,
         SourceOf, SptlrpcIDs, LNetIDs, NIIDs, LNetParamIDs, LpccIDs, StatsIDs, RPCIDs
  <2>2. CASE file \notin DOMAIN lliteSingleFileMap
    <3>1. MetricOf(file) = IF file \in DOMAIN clientSingleFileMap THEN clientSingleFileMap[file]
                           ELSE "target_state"
      BY <2>2 DEF MetricOf
    <3>2. QED
      BY <3>1 DEF clientSingleFileMap,
         SourceOf, SptlrpcIDs, LNetIDs, NIIDs, LNetParamIDs, LpccIDs, StatsIDs, RPCIDs
  <2>3. QED
    BY <2>1, <2>2
<1>2. ASSUME NEW f \in ParamFileNames, NEW g \in ParamFileNames, MetricOf(f) = MetricOf(g)
      PROVE  f = g
  BY <1>2 DEF MetricOf, ParamFileNames, lliteSingleFileMap, clientSingleFileMap
<1>3. QED
  BY <1>1, <1>2

\* So the metric gives the file, and the parameter of LNet.
LEMMA FilesAreFound ==
  /\ \A file \in ParamFileNames : FileOf(MetricOf(file)) = file
  /\ \A i \in DOMAIN LNetParamNames :
       /\ LNetParamNames[i] \in DOMAIN lnetParamMap
       /\ lnetParamMap[LNetParamNames[i]] \in LNetParamIDs
       /\ LNetParamOf(lnetParamMap[LNetParamNames[i]]) = LNetParamNames[i]
<1>1. ASSUME NEW file \in ParamFileNames
      PROVE  FileOf(MetricOf(file)) = file
  BY MetricsOfFiles DEF FileOf
<1>2. DOMAIN LNetParamNames = 1..11
  BY DEF LNetParamNames
<1>3. ASSUME NEW i \in 1..11
      PROVE  LNetParamNames[i] \in DOMAIN lnetParamMap /\ lnetParamMap[LNetParamNames[i]] \in LNetParamIDs
  BY DEF LNetParamNames, lnetParamMap, LNetParamIDs
<1>4. ASSUME NEW p \in ToSet(LNetParamNames), NEW q \in ToSet(LNetParamNames),
             lnetParamMap[p] = lnetParamMap[q]
      PROVE  p = q
  BY <1>2, <1>4 DEF ToSet, LNetParamNames, lnetParamMap
<1>5. ASSUME NEW i \in 1..11
      PROVE  LNetParamOf(lnetParamMap[LNetParamNames[i]]) = LNetParamNames[i]
  <2>1. PICK p : p = LNetParamNames[i]
    OBVIOUS
  <2>2. p \in ToSet(LNetParamNames)
    BY <1>2, <2>1 DEF ToSet
  <2>3. QED
    BY <1>4, <2>1, <2>2 DEF LNetParamOf
<1>6. QED
  BY <1>1, <1>2, <1>3, <1>5

\* A result whose metrics all come from its path.
LEMMA ShownIsLocated ==
  ASSUME NEW ids, NEW path, NEW subject, NEW r, Shows(r, ids, path, subject),
         \A id \in ids : Origin(id, subject) = path
  PROVE  IsLocatedResult(r)
BY DEF Shows, AreOf, IsOf, IsLocated, IsLocatedResult

\* Failures, and lists of located observations.
LEMMA LocatedResults ==
  /\ IsLocatedResult(Failed)
  /\ IsLocatedResult(Parsed(<<>>))
  /\ \A r : IsLocatedResult(r) => IsLocatedResult(Optional(r)) /\ IsLocatedResult(StrictError(r))
<1>1. IsLocatedResult(Failed)
  BY Results DEF IsLocatedResult
<1>2. IsLocatedResult(Parsed(<<>>))
  BY Results, ShortLists DEF IsLocatedResult
<1>3. QED
  BY <1>1, <1>2 DEF Optional, StrictError

\* All has what the parts have.
LEMMA AllIsLocated ==
  ASSUME NEW n \in Nat, NEW parts, DOMAIN parts = 1..n,
         \A i \in 1..n : IsLocatedResult(parts[i])
  PROVE  IsLocatedResult(All(parts))
<1>1. PICK r : r = All(parts)
  OBVIOUS
<1>2. /\ IsResult(r)
      /\ ~r.err => ToSet(r.obs) = UNION {ToSet(parts[i].obs) : i \in 1..n}
      /\ r.err => ToSet(r.obs) = {}
  BY <1>1, AllIs, ShortLists DEF IsLocatedResult, IsResult
<1>3. QED
  BY <1>1, <1>2 DEF IsLocatedResult

\* As it is called with two.
LEMMA PairIsLocated ==
  ASSUME NEW r, NEW s, IsLocatedResult(r), IsLocatedResult(s)
  PROVE  IsLocatedResult(All(<<r, s>>))
<1>1. PICK parts : parts = <<r, s>>
  OBVIOUS
<1>2. DOMAIN parts = 1..2 /\ parts[1] = r /\ parts[2] = s
  BY <1>1
<1>3. \A i \in 1..2 : i = 1 \/ i = 2
  OBVIOUS
<1>4. \A i \in 1..2 : IsLocatedResult(parts[i])
  BY <1>2, <1>3
<1>5. QED
  BY <1>1, <1>2, <1>4, AllIsLocated

\* The target of a name is the one that is collected.
LEMMA TargetsAreNamed ==
  ASSUME HostInv, NEW i \in DOMAIN Targets
  PROVE  TargetNamed(Targets[i].name) = Targets[i]
<1>1. PICK targets : targets = Targets
  OBVIOUS
<1>2. ASSUME NEW j \in DOMAIN targets, targets[j].name = targets[i].name
      PROVE  targets[j] = targets[i]
  <2>1. targets[j].component = targets[i].component
    BY <1>1, <1>2, NamesAreOfOneComponent
  <2>2. KeyOf(targets[j]) = KeyOf(targets[i])
    BY <1>2, <2>1 DEF KeyOf
  <2>3. QED
    BY <1>1, <2>2, TargetsExist
<1>3. ToSet(targets) = {targets[j] : j \in DOMAIN targets}
  BY DEF ToSet
<1>4. PICK t : t = CHOOSE u \in ToSet(targets) : u.name = targets[i].name
  OBVIOUS
<1>5. t \in ToSet(targets) /\ t.name = targets[i].name
  BY <1>1, <1>3, <1>4
<1>6. t = targets[i]
  BY <1>2, <1>3, <1>5
<1>7. QED
  BY <1>1, <1>4, <1>6 DEF TargetNamed

\* The places of the metrics that no target has.
LEMMA OriginsAre ==
  /\ Origin("health_check", "lustre") = HealthPath
  /\ \A id \in SptlrpcIDs : Origin(id, "") = FirstAvailable(SptlrpcPaths)
  /\ \A id \in LNetIDs : Origin(id, "lnet") = IF FromDebugFS THEN FirstAvailable(LNetStatsPaths)
                                                             ELSE <<"cmd", "stats show">>
  /\ \A id \in NIIDs : Origin(id, "lnet") = FirstAvailable(NetShow)
  /\ \A id \in LNetParamIDs :
       Origin(id, "lnet") = FirstAvailable(LNetParamPaths(LNetParamOf(id)))
  /\ \A id \in LpccIDs : Origin(id, "") = FirstAvailable(LpccStatus)
  /\ Origin("ldlm_cbd_stats", "") = FirstAvailable(LDLMCBDStatsPaths)
BY SourcesAre DEF Origin

\* Those of the metrics of a target.
LEMMA OriginsOfTargetsAre ==
  ASSUME NEW name, NEW t, t = TargetNamed(name)
  PROVE  /\ \A id \in StatsIDs : Origin(id, name) = Path(t, t.stats, "stats")
         /\ \A id \in RPCIDs : Origin(id, name) = Path(t, t.rpc_stats, "rpc_stats")
         /\ \A file \in ParamFileNames :
              Origin(MetricOf(file), name) =
                FirstAvailable(Under(ParamRoots, <<t.component, t.name, file>>))
<1>1. \A id \in StatsIDs : Origin(id, name) = Path(t, t.stats, "stats")
  BY SourcesAre DEF Origin
<1>2. \A id \in RPCIDs : Origin(id, name) = Path(t, t.rpc_stats, "rpc_stats")
  BY SourcesAre DEF Origin
<1>3. ASSUME NEW file \in ParamFileNames
      PROVE  Origin(MetricOf(file), name) =
               FirstAvailable(Under(ParamRoots, <<t.component, t.name, file>>))
  BY MetricsOfFiles, FilesAreFound DEF Origin
<1>4. QED
  BY <1>1, <1>2, <1>3

\* The parameter files of a component are such files.
LEMMA ParamFilesAreNames ==
  ASSUME NEW component, NEW i \in DOMAIN ParamFiles(component)
  PROVE  ParamFiles(component)[i] \in ParamFileNames
<1>1. CASE component = "llite"
  <2>1. ParamFiles(component) = lliteSingleFiles
    BY <1>1 DEF ParamFiles
  <2>2. QED
    BY <2>1 DEF lliteSingleFiles, ParamFileNames, lliteSingleFileMap
<1>2. CASE component = "mdc"
  <2>1. ParamFiles(component) = <<"max_rpcs_in_flight", "max_mod_rpcs_in_flight",
                                  "max_pages_per_rpc", "active", "state">>
    BY <1>2 DEF ParamFiles
  <2>2. QED
    BY <2>1 DEF ParamFileNames, clientSingleFileMap
<1>3. CASE component \notin {"llite", "mdc"}
  <2>1. ParamFiles(component) = <<"cur_dirty_bytes", "max_dirty_mb", "max_pages_per_rpc",
                                  "max_rpcs_in_flight", "active", "state">>
    BY <1>3 DEF ParamFiles
  <2>2. QED
    BY <2>1 DEF ParamFileNames, clientSingleFileMap
<1>4. QED
  BY <1>1, <1>2, <1>3

\* The collectors of one file or command.
LEMMA SmallAreLocated ==
  ASSUME HostInv
  PROVE  /\ IsLocatedResult(HealthObservations)
         /\ IsLocatedResult(SptlrpcObservations)
         /\ IsLocatedResult(LpccObservations)
<1>1. IsLocatedResult(HealthObservations)
  <2>1. ASSUME NEW lines
        PROVE  IsLocatedResult(ParseHealth(lines, HealthPath))
    <3>1. PICK ids : ids = {"health_check"}
      OBVIOUS
    <3>2. \A id \in ids : Origin(id, "lustre") = HealthPath
      BY <3>1, OriginsAre
    <3>3. Shows(ParseHealth(lines, HealthPath), ids, HealthPath, "lustre")
      BY <3>1, HealthShows
    <3>4. QED
      BY <3>2, <3>3, ShownIsLocated
  <2>2. \/ HealthObservations = Failed
        \/ \E lines : HealthObservations = ParseHealth(lines, HealthPath)
    BY SinglePath DEF HealthObservations, ParseFirst
  <2>3. QED
    BY <2>1, <2>2, LocatedResults
<1>2. IsLocatedResult(SptlrpcObservations)
  <2>1. PICK paths, path : paths = SptlrpcPaths /\ path = FirstAvailable(paths)
    OBVIOUS
  <2>2. DOMAIN paths \subseteq Nat
    BY <2>1 DEF SptlrpcPaths, Under
  <2>3. Available(paths) # {} => IsLocatedResult(ParseEncryptPagePools(Lines(path), path))
    BY <2>1, <2>2, FirstLines, SptlrpcShows, OriginsAre, ShownIsLocated
  <2>4. QED
    BY <2>1, <2>3, LocatedResults DEF SptlrpcObservations, ParseFirst
<1>3. IsLocatedResult(LpccObservations)
  <2>1. PICK paths, path : paths = LpccStatus /\ path = FirstAvailable(paths)
    OBVIOUS
  <2>2. DOMAIN paths \subseteq Nat
    <3>1. DOMAIN LpccStatus = 1..1
      BY DEF LpccStatus
    <3>2. QED
      BY <2>1, <3>1
  <2>3. ASSUME Available(paths) # {}
        PROVE  IsLocatedResult(ParseLpccStatus(Lines(path), path))
    <3>1. path \in ToSet(LpccStatus) /\ IsList(Lines(path)) /\ HasLines(path, host[path])
      BY <2>1, <2>2, <2>3, FirstLines
    <3>2. \A line \in ToSet(Lines(path)) : line.document =>
            IsList(line.mounts) /\ \A m \in ToSet(line.mounts) : IsList(m.caches)
      BY <3>1 DEF HasLines, Lines
    <3>3. QED
      BY <2>1, <3>1, <3>2, LpccShows, OriginsAre, ShownIsLocated
  <2>4. QED
    BY <2>1, <2>3, LocatedResults DEF LpccObservations, ParseFirst
<1>4. QED
  BY <1>1, <1>2, <1>3

\* What lnetctl says of the NIs.
LEMMA NetShowIsLocated ==
  ASSUME HostInv
  PROVE  /\ IsLocatedResult(ParseFirst(NetShow, Failed, ParseLNetCtlNetStats))
         /\ IsLocatedResult(SupplementalNetNI)
<1>1. PICK paths, path : paths = NetShow /\ path = FirstAvailable(paths)
  OBVIOUS
<1>2. DOMAIN paths \subseteq Nat
  <2>1. DOMAIN NetShow = 1..2
    BY DEF NetShow
  <2>2. QED
    BY <1>1, <2>1
<1>3. CASE Available(paths) = {}
  BY <1>1, <1>3, LocatedResults DEF ParseFirst, SupplementalNetNI
<1>4. CASE Available(paths) # {}
  <2>1. path \in ToSet(NetShow) /\ IsList(Lines(path)) /\ HasLines(path, host[path])
    BY <1>1, <1>2, <1>4, FirstLines
  <2>2. \A line \in ToSet(Lines(path)) : line.document => IsList(line.nis)
    BY <2>1 DEF HasLines, Lines
  <2>3. \A id \in NIIDs : Origin(id, "lnet") = path
    BY <1>1, OriginsAre
  <2>4. IsLocatedResult(ParseLNetCtlNetStats(Lines(path), path))
        /\ IsLocatedResult(ParseLNetCtlNetNI(Lines(path), path))
    BY <2>1, <2>2, <2>3, NetShowShows, ShownIsLocated
  <2>5. QED
    BY <1>1, <1>4, <2>4, LocatedResults DEF ParseFirst, SupplementalNetNI
<1>5. QED
  BY <1>3, <1>4

\* Without the global counts.
LEMMA DroppedAre ==
  ASSUME NEW obs, IsList(obs)
  PROVE  /\ IsList(DropGlobalLNetCountStats(obs))
         /\ ToSet(DropGlobalLNetCountStats(obs)) \subseteq ToSet(obs)
<1>1. PICK ss : ss = [i \in DOMAIN obs |-> IF IsGlobalCount(obs[i]) THEN <<>> ELSE <<obs[i]>>]
  OBVIOUS
<1>2. PICK n \in Nat : DOMAIN obs = 1..n
  BY DEF IsList
<1>3. \A i \in 1..n : IsList(ss[i]) /\ ToSet(ss[i]) \subseteq {obs[i]}
  BY <1>1, <1>2, ShortLists
<1>4. /\ IsList(FlattenSeq(ss))
      /\ ToSet(FlattenSeq(ss)) = UNION {ToSet(ss[i]) : i \in 1..n}
  <2>1. DOMAIN ss = 1..n /\ ss = [i \in DOMAIN ss |-> ss[i]]
    BY <1>1, <1>2
  <2>2. QED
    BY <1>3, <2>1, FlattenLists
<1>5. UNION {ToSet(ss[i]) : i \in 1..n} \subseteq ToSet(obs)
  BY <1>2, <1>3 DEF ToSet
<1>6. QED
  BY <1>1, <1>4, <1>5 DEF DropGlobalLNetCountStats

\* LNet's stats from the file, if they are taken from there.
LEMMA DebugFSIsLocated ==
  ASSUME FromDebugFS
  PROVE  IsLocatedResult(CollectFromDebugFS)
<1>1. PICK path : path = FirstAvailable(LNetStatsPaths)
  OBVIOUS
<1>2. \A id \in LNetIDs : Origin(id, "lnet") = path
  BY <1>1, OriginsAre
<1>3. IsLocatedResult(ParseLNetStats(Lines(path), path))
  BY <1>2, LNetFilesShow, ShownIsLocated
<1>4. QED
  BY <1>1, <1>3, LocatedResults DEF CollectFromDebugFS, ParseFirst

\* And from lnetctl otherwise.
LEMMA LNetCtlIsLocated ==
  ASSUME HostInv, ~FromDebugFS
  PROVE  IsLocatedResult(CollectFromLNetCtl)
<1>1. PICK cmd : cmd = <<"cmd", "stats show">>
  OBVIOUS
<1>2. PICK stats : stats = ParseFirst(<<cmd>>, Failed, ParseLNetCtlStats)
  OBVIOUS
<1>3. IsLocatedResult(stats)
  <2>1. \A id \in LNetIDs : Origin(id, "lnet") = cmd
    BY <1>1, OriginsAre
  <2>2. IsLocatedResult(ParseLNetCtlStats(Lines(cmd), cmd))
    BY <2>1, LNetFilesShow, ShownIsLocated
  <2>3. QED
    BY <1>2, <2>2, SinglePath, LocatedResults DEF ParseFirst
<1>4. PICK counts : counts = ParseFirst(NetShow, Failed, ParseLNetCtlNetStats)
  OBVIOUS
<1>5. IsLocatedResult(counts) /\ IsLocatedResult(SupplementalNetNI)
  BY <1>4, NetShowIsLocated
<1>6. PICK primary : primary = IF counts.obs = <<>> THEN stats
                               ELSE Parsed(DropGlobalLNetCountStats(stats.obs) \o counts.obs)
  OBVIOUS
<1>7. IsLocatedResult(primary)
  <2>1. IsList(stats.obs) /\ IsList(counts.obs)
    BY <1>3, <1>5 DEF IsLocatedResult, IsResult
  <2>2. PICK kept : kept = DropGlobalLNetCountStats(stats.obs) \o counts.obs
    OBVIOUS
  <2>3. IsList(kept) /\ ToSet(kept) \subseteq ToSet(stats.obs) \cup ToSet(counts.obs)
    BY <2>1, <2>2, DroppedAre, ConcatLists
  <2>4. IsLocatedResult(Parsed(kept))
    BY <1>3, <1>5, <2>3, Results DEF IsLocatedResult
  <2>5. QED
    BY <1>3, <1>6, <2>2, <2>4
<1>8. IsLocatedResult(All(<<primary, SupplementalNetNI>>))
  BY <1>5, <1>7, PairIsLocated
<1>9. CollectFromLNetCtl = IF stats.err \/ counts.err THEN stats ELSE All(<<primary, SupplementalNetNI>>)
  BY <1>1, <1>2, <1>4, <1>6 DEF CollectFromLNetCtl
<1>10. QED
  BY <1>3, <1>8, <1>9

\* The parameters of lnet.
LEMMA CollectParamsIsLocated ==
  IsLocatedResult(CollectParams)
<1>1. ASSUME NEW i \in DOMAIN LNetParamNames
      PROVE  IsLocatedResult(CollectParam(LNetParamNames[i]))
  <2>1. PICK param : param = LNetParamNames[i]
    OBVIOUS
  <2>2. PICK paths : paths = LNetParamPaths(param)
    OBVIOUS
  <2>3. PICK path : path = FirstAvailable(paths)
    OBVIOUS
  <2>4. PICK id : id = lnetParamMap[param]
    OBVIOUS
  <2>5. param \in DOMAIN lnetParamMap /\ id \in LNetParamIDs /\ LNetParamOf(id) = param
    BY <2>1, <2>4, FilesAreFound
  <2>10. Origin(id, "lnet") = path
    <3>1. Origin(id, "lnet") = FirstAvailable(LNetParamPaths(LNetParamOf(id)))
      BY <2>5, OriginsAre
    <3>2. QED
      BY <2>2, <2>3, <2>5, <3>1
  <2>6. IsLocatedResult(ParseLNetParam(Lines(path), path, param))
    <3>1. PICK ids : ids = {id}
      OBVIOUS
    <3>2. Shows(ParseLNetParam(Lines(path), path, param), ids, path, "lnet")
      BY <2>4, <2>5, <3>1, LNetParamShows
    <3>3. \A i2 \in ids : Origin(i2, "lnet") = path
      BY <2>10, <3>1
    <3>4. QED
      BY <3>2, <3>3, ShownIsLocated
  <2>7. PICK r : r = IF Available(paths) = {} THEN Failed ELSE ParseLNetParam(Lines(path), path, param)
    OBVIOUS
  <2>8. CollectParam(param) = Optional(r)
    BY <2>2, <2>3, <2>7 DEF CollectParam, ParseFirst
  <2>9. QED
    BY <2>1, <2>6, <2>7, <2>8, LocatedResults
<1>2. PICK parts : parts = [i \in DOMAIN LNetParamNames |-> CollectParam(LNetParamNames[i])]
  OBVIOUS
<1>3. DOMAIN LNetParamNames = 1..11
  BY DEF LNetParamNames
<1>4. DOMAIN parts = 1..11 /\ \A i \in 1..11 : IsLocatedResult(parts[i])
  BY <1>1, <1>2, <1>3
<1>5. QED
  BY <1>2, <1>4, AllIsLocated DEF CollectParams

\* The collector of lnet.
LEMMA LNetIsLocated ==
  ASSUME HostInv
  PROVE  IsLocatedResult(LNetObservations)
<1>1. PICK debug : debug = All(<<CollectFromDebugFS, SupplementalNetNI>>)
  OBVIOUS
<1>2. PICK primary :
        primary = IF config.lnetSource = "debugfs" THEN CollectFromDebugFS
                  ELSE IF config.lnetSource = "lnetctl" \/ CollectFromDebugFS.err THEN CollectFromLNetCtl
                  ELSE debug
  OBVIOUS
<1>3. CASE FromDebugFS
  <2>1. primary = CollectFromDebugFS \/ primary = debug
    BY <1>2, <1>3 DEF FromDebugFS
  <2>2. IsLocatedResult(debug) /\ IsLocatedResult(CollectFromDebugFS)
    BY <1>1, <1>3, DebugFSIsLocated, NetShowIsLocated, PairIsLocated
  <2>3. IsLocatedResult(primary)
    BY <2>1, <2>2
  <2>4. QED
    BY <1>1, <1>2, <2>3, CollectParamsIsLocated, PairIsLocated DEF LNetObservations
<1>4. CASE ~FromDebugFS
  <2>1. primary = CollectFromLNetCtl
    BY <1>2, <1>4 DEF FromDebugFS
  <2>2. IsLocatedResult(primary)
    BY <1>4, <2>1, LNetCtlIsLocated
  <2>3. QED
    BY <1>1, <1>2, <2>2, CollectParamsIsLocated, PairIsLocated DEF LNetObservations
<1>5. QED
  BY <1>3, <1>4

\* A parameter of a target.
LEMMA ParamIsLocated ==
  ASSUME NEW t, t = TargetNamed(t.name), NEW file \in ParamFileNames
  PROVE  IsLocatedResult(ReadParam(t, file))
<1>1. PICK paths, path : /\ paths = Under(ParamRoots, <<t.component, t.name, file>>)
                         /\ path = FirstAvailable(paths)
  OBVIOUS
<1>2. PICK ids : ids = {MetricOf(file)}
  OBVIOUS
<1>3. \A id \in ids : Origin(id, t.name) = path
  BY <1>1, <1>2, OriginsOfTargetsAre
<1>4. Shows(ParseParam(t, file, Lines(path), path), ids, path, t.name)
  BY <1>2, ParamShows
<1>5. IsLocatedResult(ParseParam(t, file, Lines(path), path))
  BY <1>3, <1>4, ShownIsLocated
<1>6. QED
  BY <1>1, <1>5, LocatedResults DEF ReadParam

\* The parameters of a target.
LEMMA ParamsAreLocated ==
  ASSUME NEW t, t = TargetNamed(t.name)
  PROVE  IsLocatedResult(Params(t))
<1>1. PICK files : files = ParamFiles(t.component)
  OBVIOUS
<1>2. PICK n \in Nat : DOMAIN files = 1..n
  BY <1>1, ParamFilesAre
<1>3. PICK parts : parts = [i \in DOMAIN files |-> StrictError(ReadParam(t, files[i]))]
  OBVIOUS
<1>4. Params(t) = All(parts)
  BY <1>1, <1>3 DEF Params, ParseFirst, ReadParam
<1>5. ASSUME NEW i \in 1..n
      PROVE  IsLocatedResult(parts[i])
  <2>1. files[i] \in ParamFileNames
    BY <1>1, <1>2, ParamFilesAreNames
  <2>2. parts[i] = StrictError(ReadParam(t, files[i]))
    BY <1>2, <1>3
  <2>3. QED
    BY <2>1, <2>2, ParamIsLocated, LocatedResults
<1>6. DOMAIN parts = 1..n
  BY <1>2, <1>3
<1>7. QED
  BY <1>4, <1>5, <1>6, AllIsLocated

\* The rpc_stats of an import.
LEMMA CollectRPCIsLocated ==
  ASSUME HostInv, NEW t, t = TargetNamed(t.name)
  PROVE  IsLocatedResult(CollectRPCStats(t))
<1>1. PICK path : path = Path(t, t.rpc_stats, "rpc_stats")
  OBVIOUS
<1>2. PICK r :
        r = IF Readable(path) THEN ParseRPCStats(Lines(path), path, t.name, t.component) ELSE Failed
  OBVIOUS
<1>3. IsLocatedResult(r)
  <2>1. CASE Readable(path)
    <3>1. IsList(Lines(path)) /\ \A line \in ToSet(Lines(path)) : HasScalar(line)
      BY <1>1, <2>1, LinesAreLists, RPCStatsLinesAre
    <3>2. \A id \in RPCIDs : Origin(id, t.name) = path
      BY <1>1, OriginsOfTargetsAre
    <3>3. QED
      BY <1>2, <2>1, <3>1, <3>2, RPCShows, ShownIsLocated
  <2>2. CASE ~Readable(path)
    BY <1>2, <2>2, LocatedResults
  <2>3. QED
    BY <2>1, <2>2
<1>4. CollectRPCStats(t) = IF t.rpc_stats = NoPath THEN Parsed(<<>>) ELSE r
  BY <1>1, <1>2, SinglePath DEF CollectRPCStats, ParseFirst
<1>5. QED
  BY <1>3, <1>4, LocatedResults

\* The stats of a target.
LEMMA CollectStatsIsLocated ==
  ASSUME HostInv, NEW t, t = TargetNamed(t.name)
  PROVE  IsLocatedResult(CollectLLite(t)) /\ IsLocatedResult(CollectOBDStats(t))
<1>1. PICK path : path = Path(t, t.stats, "stats")
  OBVIOUS
<1>2. PICK l, o :
        /\ l = IF Readable(path) THEN ParseLLiteStats(Lines(path), path, t.name) ELSE Failed
        /\ o = IF Readable(path) THEN ParseOBDStats(Lines(path), path, t.name, t.component) ELSE Failed
  OBVIOUS
<1>3. \A id \in StatsIDs : Origin(id, t.name) = path
  BY <1>1, OriginsOfTargetsAre
<1>4. ASSUME Readable(path)
      PROVE  IsLocatedResult(l) /\ IsLocatedResult(o)
  <2>1. Shows(l, StatsIDs, path, t.name) /\ Shows(o, StatsIDs, path, t.name)
    BY <1>2, <1>4, LinesAreLists, StatsShow
  <2>2. QED
    BY <1>3, <2>1, ShownIsLocated
<1>5. IsLocatedResult(l) /\ IsLocatedResult(o)
  BY <1>2, <1>4, LocatedResults
<1>6. CollectLLite(t) = All(<<l, Params(t)>>)
  BY <1>1, <1>2, SinglePath DEF CollectLLite, ParseFirst
<1>7. CollectOBDStats(t) = IF t.stats = NoPath THEN Parsed(<<>>) ELSE o
  BY <1>1, <1>2, SinglePath DEF CollectOBDStats, ParseFirst
<1>8. QED
  BY <1>5, <1>6, <1>7, ParamsAreLocated, PairIsLocated, LocatedResults

\* All of a target.
LEMMA TargetIsLocated ==
  ASSUME HostInv, NEW t, t = TargetNamed(t.name)
  PROVE  IsLocatedResult(CollectTarget(t))
<1>1. CASE t.component = "llite"
  BY <1>1, CollectStatsIsLocated, LocatedResults DEF CollectTarget
<1>2. CASE t.component # "llite"
  <2>1. PICK parts :
          parts = <<StrictError(CollectOBDStats(t)), StrictError(CollectRPCStats(t)), Params(t)>>
    OBVIOUS
  <2>2. /\ DOMAIN parts = 1..3 /\ parts[1] = StrictError(CollectOBDStats(t))
        /\ parts[2] = StrictError(CollectRPCStats(t)) /\ parts[3] = Params(t)
    BY <2>1
  <2>3. \A i \in 1..3 : i = 1 \/ i = 2 \/ i = 3
    OBVIOUS
  <2>4. IsLocatedResult(parts[1]) /\ IsLocatedResult(parts[2]) /\ IsLocatedResult(parts[3])
    BY <2>2, CollectStatsIsLocated, CollectRPCIsLocated, ParamsAreLocated, LocatedResults
  <2>5. \A i \in 1..3 : IsLocatedResult(parts[i])
    BY <2>3, <2>4
  <2>6. CollectTarget(t) = All(parts)
    <3>1. CollectTarget(t) =
            All(<<StrictError(CollectOBDStats(t)), StrictError(CollectRPCStats(t)), Params(t)>>)
      BY <1>2 DEF CollectTarget
    <3>2. QED
      BY <2>1, <3>1
  <2>7. QED
    BY <2>2, <2>5, <2>6, AllIsLocated
<1>3. QED
  BY <1>1, <1>2

\* The client collector.
LEMMA ClientIsLocated ==
  ASSUME HostInv
  PROVE  IsLocatedResult(ClientObservations)
<1>1. PICK m \in Nat : DOMAIN Targets = 1..m
  BY TargetsExist
<1>2. PICK targets : targets = Targets
  OBVIOUS
<1>3. PICK ldlm : ldlm = ParseFirst(LDLMCBDStatsPaths, Parsed(<<>>), ParseLDLMCBDStats)
  OBVIOUS
<1>4. IsLocatedResult(StrictError(ldlm))
  <2>1. PICK paths, path : paths = LDLMCBDStatsPaths /\ path = FirstAvailable(paths)
    OBVIOUS
  <2>2. DOMAIN paths \subseteq Nat
    BY <2>1 DEF LDLMCBDStatsPaths, Under
  <2>3. PICK ids : ids = {"ldlm_cbd_stats"}
    OBVIOUS
  <2>4. \A id \in ids : Origin(id, "") = path
    BY <2>1, <2>3, OriginsAre
  <2>5. ASSUME Available(paths) # {}
        PROVE  IsLocatedResult(ParseLDLMCBDStats(Lines(path), path))
    <3>1. Shows(ParseLDLMCBDStats(Lines(path), path), ids, path, "")
      BY <2>1, <2>2, <2>3, <2>5, FirstLines, LDLMShows
    <3>2. QED
      BY <2>4, <3>1, ShownIsLocated
  <2>6. IsLocatedResult(ldlm)
    BY <1>3, <2>1, <2>5, LocatedResults DEF ParseFirst
  <2>7. QED
    BY <2>6, LocatedResults
<1>5. PICK parts :
        /\ ClientObservations = All(parts)
        /\ DOMAIN parts = 1..(m + 1)
        /\ parts[1] = StrictError(ldlm)
        /\ \A i \in 1..m : i + 1 \in 1..(m + 1) /\ parts[i + 1] = CollectTarget(targets[i])
  BY <1>1, <1>2, <1>3, ClientIsAll
<1>6. \A i \in 1..(m + 1) : i = 1 \/ (i - 1 \in 1..m /\ (i - 1) + 1 = i)
  OBVIOUS
<1>7. ASSUME NEW i \in 1..m
      PROVE  IsLocatedResult(CollectTarget(targets[i]))
  <2>1. PICK t : t = targets[i]
    OBVIOUS
  <2>2. t = TargetNamed(t.name)
    BY <1>1, <1>2, <2>1, TargetsAreNamed
  <2>3. QED
    BY <2>1, <2>2, TargetIsLocated
<1>8. \A i \in 1..(m + 1) : IsLocatedResult(parts[i])
  BY <1>4, <1>5, <1>6, <1>7
<1>9. m + 1 \in Nat
  OBVIOUS
<1>10. QED
  BY <1>5, <1>8, <1>9, AllIsLocated

\* Every collector.
LEMMA CollectorsAreLocated ==
  ASSUME HostInv, NEW c \in Collectors
  PROVE  IsLocatedResult(Observations(c))
<1>1. c \in {"health", "sptlrpc", "lnet", "client", "lpcc"}
  BY DEF Collectors, AllCollectors, ToSet
<1>2. Observations(c) \in {HealthObservations, SptlrpcObservations, LNetObservations,
                           ClientObservations, LpccObservations}
  BY <1>1 DEF Observations
<1>3. \A r \in {HealthObservations, SptlrpcObservations, LNetObservations,
                ClientObservations, LpccObservations} : IsLocatedResult(r)
  BY SmallAreLocated, LNetIsLocated, ClientIsLocated
<1>4. QED
  BY <1>2, <1>3

\* The name and the labels of a metric of the contract tell which it is.
LEMMA NamesAreUnique ==
  \A m, n \in Contract : m.name = n.name /\ m.labels = n.labels => m = n
BY DEF Contract, Health, Sptlrpc, LNetStats, LNetStatsByNID, LNetParams, LNetNIs,
       ClientCapacityAndIO, ClientOperations, ClientTunables, RPCStats, ImportFiles,
       LpccCaches, LpccMounts, ByNID, Metrics, OfTarget, OfNID

\* An observation with the labels of its metric keeps them.
LEMMA MappedLabels ==
  ASSUME NEW o, HasItsLabels(o), IsMade(o)
  PROVE  \E m \in Contract :
           /\ m.id = o.id
           /\ MapObservation(o).name = m.name
           /\ MapObservation(o).labels = o.labels
           /\ DOMAIN o.labels = m.labels
<1>1. PICK m \in Contract : m.id = o.id
  BY DEF HasItsLabels, Registry
<1>2. Registry[o.id] = m
  BY <1>1, RegistryIs
<1>3. MapObservation(o).name = m.name
  BY <1>2 DEF MapObservation
<1>4. PICK keys, labels : keys = m.labels /\ labels = o.labels
  OBVIOUS
<1>5. DOMAIN labels = keys
  BY <1>2, <1>4 DEF HasItsLabels
<1>6. MapObservation(o).labels = [k \in keys |-> IF k \in DOMAIN labels THEN labels[k] ELSE ""]
  BY <1>2, <1>4 DEF MapObservation
<1>7. [k \in keys |-> IF k \in DOMAIN labels THEN labels[k] ELSE ""] = [k \in DOMAIN labels |-> labels[k]]
  BY <1>5
<1>8. labels = [k \in DOMAIN labels |-> labels[k]]
  BY <1>4 DEF IsMade
<1>9. QED
  BY <1>1, <1>3, <1>4, <1>5, <1>6, <1>7, <1>8

\* So two observations of one scrape that become the same series are the same.
LEMMA LocatedAreDistinct ==
  ASSUME NEW o, NEW q, HasItsLabels(o), HasItsLabels(q), IsLocated(o), IsLocated(q),
         MapObservation(o) = MapObservation(q)
  PROVE  o = q
<1>1. PICK m \in Contract : /\ m.id = o.id
                            /\ MapObservation(o).name = m.name
                            /\ MapObservation(o).labels = o.labels
                            /\ DOMAIN o.labels = m.labels
  BY MappedLabels DEF IsLocated
<1>2. PICK n \in Contract : /\ n.id = q.id
                            /\ MapObservation(q).name = n.name
                            /\ MapObservation(q).labels = q.labels
                            /\ DOMAIN q.labels = n.labels
  BY MappedLabels DEF IsLocated
<1>3. o.labels = q.labels
  BY <1>1, <1>2
<1>4. m = n
  BY <1>1, <1>2, <1>3, NamesAreUnique
<1>5. o.id = q.id
  BY <1>1, <1>2, <1>4
<1>6. o.source = q.source
  BY <1>3, <1>5 DEF IsLocated
<1>7. o = Observation(o.id, o.labels, o.source) /\ q = Observation(q.id, q.labels, q.source)
  BY DEF IsLocated, IsMade
<1>8. QED
  BY <1>3, <1>5, <1>6, <1>7

\* The members of a list are finitely many.
LEMMA ListsAreFinite ==
  ASSUME NEW s, IsList(s)
  PROVE  IsFiniteSet(ToSet(s))
<1>1. PICK n \in Nat : DOMAIN s = 1..n
  BY DEF IsList
<1>2. s \in [1..n -> ToSet(s)]
  BY <1>1 DEF IsList, ToSet
<1>3. \A x \in ToSet(s) : \E i \in 1..n : s[i] = x
  BY <1>1 DEF ToSet
<1>4. s \in Surjection(1..n, ToSet(s))
  BY <1>2, <1>3 DEF Surjection
<1>5. QED
  BY <1>1, <1>4, FS_NatSurjection DEF ExistsSurjection

\* The observations of the last scrape, in lists, become different series.
DistinctInv ==
  /\ \A c \in DOMAIN results : IsList(results[c].obs)
  /\ \A c, d \in DOMAIN results : \A o \in ToSet(results[c].obs) : \A q \in ToSet(results[d].obs) :
       MapObservation(o) = MapObservation(q) => o = q

\* Then there are as many series as observations.
LEMMA DistinctInvCounts ==
  ASSUME TypeInv, DistinctInv
  PROVE  SeriesAreDistinct
<1>1. IsFiniteSet(AllObserved)
  <2>1. DOMAIN results \subseteq Collectors
    BY ScrapeAssumption DEF TypeInv, TypeOK, Config
  <2>2. IsFiniteSet(Collectors)
    <3>1. IsList(AllCollectors)
      BY DEF IsList, AllCollectors, ToSet
    <3>2. QED
      BY <3>1, ListsAreFinite DEF Collectors
  <2>3. IsFiniteSet(Succeeded)
    BY <2>1, <2>2, FS_Subset DEF Succeeded
  <2>4. PICK f : f = [c \in Succeeded |-> Observed(c)]
    OBVIOUS
  <2>5. PICK sets : sets = {Observed(c) : c \in Succeeded}
    OBVIOUS
  <2>6. f \in Surjection(Succeeded, sets)
    BY <2>4, <2>5 DEF Surjection
  <2>7. IsFiniteSet(sets)
    BY <2>3, <2>6, FS_Surjection
  <2>8. \A T \in sets : IsFiniteSet(T)
    BY <2>5, ListsAreFinite DEF DistinctInv, Observed, Succeeded
  <2>9. IsFiniteSet(UNION sets)
    BY <2>7, <2>8, FS_UNION
  <2>10. QED
    BY <2>5, <2>9 DEF AllObserved
<1>2. PICK all, series : all = AllObserved /\ series = {MapObservation(o) : o \in AllObserved}
  OBVIOUS
<1>3. \A o, q \in all : MapObservation(o) = MapObservation(q) => o = q
  BY <1>2 DEF DistinctInv, AllObserved, Observed, Succeeded
<1>4. PICK f : f = [o \in all |-> MapObservation(o)]
  OBVIOUS
<1>5. f \in Bijection(all, series)
  BY <1>2, <1>3, <1>4 DEF Bijection, Injection, Surjection, IsInjective
<1>6. Cardinality(series) = Cardinality(all)
  BY <1>1, <1>2, <1>5, FS_Bijection DEF ExistsBijection
<1>7. QED
  BY <1>2, <1>6 DEF SeriesAreDistinct

\* No two sources, and no two metrics, ever become the same series, whatever
\* the files are, so that a scrape is refused only for a file that says the same
\* thing twice (collector.go:135).
THEOREM NoTwoSeriesAreEqual == Spec => []SeriesAreDistinct
<1> DEFINE Inv == TypeInv /\ DistinctInv
<1>1. Init => Inv
  <2>1. Init => TypeInv
    BY ScrapeAssumption DEF Init, TypeInv, TypeOK, FilesAt, Valid
  <2>2. DOMAIN <<>> = {}
    OBVIOUS
  <2>3. QED
    BY <2>1, <2>2 DEF Init, DistinctInv
<1>2. ASSUME Inv, [Next]_vars
      PROVE  Inv'
  <2>1. TypeInv'
    BY <1>2, TypeInvStep
  <2>2. CASE Scrape
    <3>1. HostInv /\ config.enabled \subseteq Collectors
      BY <1>2, TypeInvGives, ScrapeAssumption DEF TypeInv, TypeOK, Config
    <3>2. results' = [c \in config.enabled |-> Collect(c)]
      BY <2>2 DEF Scrape
    <3>3. \A c : Collect(c).obs = Observations(c).obs
      BY DEF Collect
    <3>4. ASSUME NEW c \in DOMAIN results'
          PROVE  /\ IsList(results'[c].obs)
                 /\ \A o \in ToSet(results'[c].obs) : HasItsLabels(o) /\ IsLocated(o)
      <4>1. c \in Collectors /\ results'[c].obs = Observations(c).obs
        BY <3>1, <3>2, <3>3
      <4>2. IsResult(Observations(c)) /\ IsLocatedResult(Observations(c))
            /\ \A o \in ToSet(Observations(c).obs) : HasItsLabels(o)
        BY <3>1, <4>1, CollectorsYield, CollectorsAreLocated
      <4>3. QED
        BY <4>1, <4>2 DEF IsResult, IsLocatedResult
    <3>5. \A c, d \in DOMAIN results' : \A o \in ToSet(results'[c].obs) :
            \A q \in ToSet(results'[d].obs) : MapObservation(o) = MapObservation(q) => o = q
      BY <3>4, LocatedAreDistinct
    <3>6. QED
      BY <2>1, <3>4, <3>5 DEF DistinctInv, IsList, ToSet
  <2>3. CASE UNCHANGED results
    BY <1>2, <2>1, <2>3 DEF DistinctInv, IsList, ToSet
  <2>4. QED
    BY <1>2, <2>2, <2>3 DEF Next, Start, Edit, Idle, vars
<1>3. Inv => SeriesAreDistinct
  BY DistinctInvCounts
<1>4. QED
  BY <1>1, <1>2, <1>3, PTL DEF Spec

-----------------------------------------------------------------------------
(* Joins.                                                                  *)

\* The labels of the metrics that the documented queries join.
LEMMA JoinedLabels ==
  ASSUME NEW m \in Contract
  PROVE  /\ m.name = "stats_seconds_sum" =>
              m.id = "stats_seconds_sum" /\ m.labels = OfImport \cup {"operation"}
         /\ m.name = "stats_total" => m.id = "stats_total" /\ m.labels = OfTarget \cup {"operation"}
         /\ m.name \in {"osc_dirty_bytes", "osc_max_dirty_bytes"} => m.labels = OfTarget
         /\ m.name \in {"rpcs_current", "pending_pages"} => m.labels = OfImport \cup {"operation"}
         /\ m.name \in {"max_rpcs_in_flight", "max_mod_rpcs_in_flight"} => m.labels = OfImport
BY DEF Contract, Health, Sptlrpc, LNetStats, LNetStatsByNID, LNetParams, LNetNIs,
       ClientCapacityAndIO, ClientOperations, ClientTunables, RPCStats, ImportFiles,
       LpccCaches, LpccMounts, ByNID, Metrics

\* So the right side of a join has the labels of the left but those ignored.
LEMMA JoinsDropLabels ==
  ASSUME NEW j \in Joins, NEW m \in Contract, NEW n \in Contract,
         m.name = j.left, n.name = j.right
  PROVE  n.labels = m.labels \ j.ignoring
BY JoinedLabels DEF Joins, OfImport, OfTarget

\* Of such labels, those of the right are equal on the left if and only if the
\* left ones without the ignored are the right ones.
LEMMA SubjectsJoin ==
  ASSUME NEW s, NEW r, NEW keys, DOMAIN r.labels = DOMAIN s.labels \ keys,
         r.labels = [k \in DOMAIN r.labels |-> r.labels[k]]
  PROVE  SameSubject(s, r) <=> Without(s.labels, keys) = r.labels
<1>1. PICK f, g : f = s.labels /\ g = r.labels
  OBVIOUS
<1>2. DOMAIN g = DOMAIN f \ keys /\ g = [k \in DOMAIN g |-> g[k]]
  BY <1>1
<1>3. (\A k \in DOMAIN f \cap DOMAIN g : f[k] = g[k]) <=> [k \in DOMAIN f \ keys |-> f[k]] = g
  BY <1>2
<1>4. QED
  BY <1>1, <1>3 DEF SameSubject, Without

\* The count of the operation of which this is the sum of seconds.
IsCountOf(q, o) == q.id = "stats_total" /\ q.labels = Without(o.labels, {"type"})

\* Every sum of seconds has its count.
ArePaired(obs) ==
  \A o \in obs : o.id = "stats_seconds_sum" => \E q \in obs : IsCountOf(q, o)

\* A result in which they have.
IsPaired(r) == IsResult(r) /\ ArePaired(ToSet(r.obs))

\* Failures, and what is made of results.
LEMMA PairedResults ==
  /\ IsPaired(Failed)
  /\ IsPaired(Parsed(<<>>))
  /\ \A r : IsPaired(r) => IsPaired(Optional(r)) /\ IsPaired(StrictError(r))
<1>1. IsPaired(Failed)
  BY Results DEF IsPaired, ArePaired
<1>2. IsPaired(Parsed(<<>>))
  BY Results, ShortLists DEF IsPaired, ArePaired
<1>3. QED
  BY <1>1, <1>2 DEF Optional, StrictError

\* All keeps the pairs of its parts.
LEMMA AllIsPaired ==
  ASSUME NEW n \in Nat, NEW parts, DOMAIN parts = 1..n, \A i \in 1..n : IsPaired(parts[i])
  PROVE  IsPaired(All(parts))
<1>1. PICK r : r = All(parts)
  OBVIOUS
<1>2. /\ IsResult(r)
      /\ ~r.err => ToSet(r.obs) = UNION {ToSet(parts[i].obs) : i \in 1..n}
      /\ r.err => ToSet(r.obs) = {}
  BY <1>1, AllIs, ShortLists DEF IsPaired, IsResult
<1>3. QED
  BY <1>1, <1>2 DEF IsPaired, ArePaired

\* What is not from a stats file has no sum of seconds.
LEMMA OtherIsPaired ==
  ASSUME NEW r, IsLocatedResult(r), IsOther(r)
  PROVE  IsPaired(r)
<1>1. ASSUME NEW o \in ToSet(r.obs), o.id = "stats_seconds_sum"
      PROVE  FALSE
  <2>1. PICK name : name = Subject(o.labels)
    OBVIOUS
  <2>2. PICK t : t = TargetNamed(name)
    OBVIOUS
  <2>3. o.id \in StatsIDs
    BY <1>1 DEF StatsIDs
  <2>4. o.source = Path(t, t.stats, "stats")
    BY <2>1, <2>2, <2>3, OriginsOfTargetsAre DEF IsLocatedResult, IsLocated
  <2>5. IsStatsPath(o.source)
    BY <2>4, PathLengths DEF Path, IsStatsPath
  <2>6. QED
    BY <2>5 DEF IsOther
<1>2. QED
  BY <1>1 DEF IsLocatedResult, IsPaired, ArePaired

\* A line of the stats of a mount has no sum of seconds.
LEMMA LLiteLineCounts ==
  ASSUME NEW line, NEW name, NEW path
  PROVE  \A o \in ToSet(LLiteLine(line, name, path)) : o.id # "stats_seconds_sum"
<1>1. CASE IsBytes(line)
  <2>1. PICK ids : ids = BytesIDs(line)
    OBVIOUS
  <2>2. DOMAIN ids = 1..4 /\ \A i \in 1..4 : ids[i] # "stats_seconds_sum"
    BY <2>1 DEF BytesIDs
  <2>3. PICK s : s = Each(ids, Client(name), path)
    OBVIOUS
  <2>4. DOMAIN s = 1..4 /\ \A i \in 1..4 : s[i].id # "stats_seconds_sum"
    BY <2>2, <2>3 DEF Each, Observation
  <2>5. QED
    BY <1>1, <2>1, <2>3, <2>4 DEF LLiteLine, ToSet
<1>2. CASE ~IsBytes(line)
  <2>1. PICK o : o = Operation(line, name, path)
    OBVIOUS
  <2>2. o.id # "stats_seconds_sum"
    BY <2>1 DEF Operation, Observation
  <2>3. ToSet(<<o>>) = {o}
    BY ShortLists
  <2>4. QED
    BY <1>2, <2>1, <2>2, <2>3 DEF LLiteLine
<1>3. QED
  BY <1>1, <1>2

\* A line of the stats of an import has the count with the sum of seconds.
LEMMA OBDLineIsPaired ==
  ASSUME NEW line, NEW name, NEW type, NEW path
  PROVE  ArePaired(ToSet(OBDLine(line, name, type, path)))
<1>1. PICK l, more : /\ l = LLiteLine(line, name, path)
                     /\ more = IF ~IsBytes(line) /\ HasSeconds(line)
                               THEN <<Seconds(line, name, type, path)>> ELSE <<>>
  OBVIOUS
<1>2. IsList(l) /\ IsList(more)
  BY <1>1, LLiteLineIs, ShortLists
<1>3. ToSet(OBDLine(line, name, type, path)) = ToSet(l) \cup ToSet(more)
  BY <1>1, <1>2, ConcatLists DEF OBDLine
<1>4. ASSUME NEW o \in ToSet(l) \cup ToSet(more), o.id = "stats_seconds_sum"
      PROVE  \E q \in ToSet(l) \cup ToSet(more) : IsCountOf(q, o)
  <2>1. o \notin ToSet(l)
    BY <1>1, <1>4, LLiteLineCounts
  <2>2. o = Seconds(line, name, type, path) /\ ~IsBytes(line)
    BY <1>1, <1>4, <2>1, ShortLists
  <2>3. PICK q : q = Operation(line, name, path)
    OBVIOUS
  <2>4. q \in ToSet(l)
    BY <1>1, <2>2, <2>3, ShortLists DEF LLiteLine
  <2>5. PICK op, long, short : /\ op = line.name
                               /\ long = With(Client(name), [type |-> type, operation |-> op])
                               /\ short = With(Client(name), [operation |-> op])
    OBVIOUS
  <2>6. short = Without(long, {"type"})
    BY <2>5 DEF With, Without, Client
  <2>7. o.labels = long /\ q.labels = short /\ q.id = "stats_total"
    BY <2>2, <2>3, <2>5 DEF Seconds, Operation, Observation
  <2>8. QED
    BY <2>4, <2>6, <2>7 DEF IsCountOf
<1>5. QED
  BY <1>3, <1>4 DEF ArePaired

\* Stats files are paired.
LEMMA StatsArePaired ==
  ASSUME NEW lines, IsList(lines), NEW path, NEW name, NEW type
  PROVE  /\ IsPaired(ParseLLiteStats(lines, path, name))
         /\ IsPaired(ParseOBDStats(lines, path, name, type))
<1>1. PICK n \in Nat : DOMAIN lines = 1..n
  BY DEF IsList
<1>2. PICK ls, os :
        /\ ls = [i \in DOMAIN lines |->
                IF Named(lines[i]) THEN LLiteLine(lines[i], name, path) ELSE <<>>]
        /\ os = [i \in DOMAIN lines |->
                IF Named(lines[i]) THEN OBDLine(lines[i], name, type, path) ELSE <<>>]
  OBVIOUS
<1>3. \A i \in 1..n : /\ IsList(ls[i]) /\ ArePaired(ToSet(ls[i]))
                      /\ IsList(os[i]) /\ ArePaired(ToSet(os[i]))
  <2>1. ASSUME NEW i \in 1..n
        PROVE  IsList(ls[i]) /\ ArePaired(ToSet(ls[i]))
    BY <1>1, <1>2, LLiteLineIs, LLiteLineCounts, ShortLists DEF ArePaired
  <2>2. ASSUME NEW i \in 1..n
        PROVE  IsList(os[i]) /\ ArePaired(ToSet(os[i]))
    <3>1. ArePaired(ToSet(<<>>)) /\ IsList(<<>>)
      BY ShortLists DEF ArePaired
    <3>2. IsList(OBDLine(lines[i], name, type, path))
      BY OBDLineIs
    <3>3. QED
      BY <1>1, <1>2, <3>1, <3>2, OBDLineIsPaired
  <2>3. QED
    BY <2>1, <2>2
<1>4. DOMAIN ls = 1..n /\ ls = [i \in DOMAIN ls |-> ls[i]]
      /\ DOMAIN os = 1..n /\ os = [i \in DOMAIN os |-> os[i]]
  BY <1>1, <1>2
<1>5. /\ IsList(FlattenSeq(ls)) /\ ToSet(FlattenSeq(ls)) = UNION {ToSet(ls[i]) : i \in 1..n}
      /\ IsList(FlattenSeq(os)) /\ ToSet(FlattenSeq(os)) = UNION {ToSet(os[i]) : i \in 1..n}
  BY <1>3, <1>4, FlattenLists
<1>6. ArePaired(ToSet(FlattenSeq(ls))) /\ ArePaired(ToSet(FlattenSeq(os)))
  BY <1>3, <1>5 DEF ArePaired
<1>7. IsPaired(Parsed(FlattenSeq(ls))) /\ IsPaired(Parsed(FlattenSeq(os)))
  BY <1>5, <1>6, Results DEF IsPaired
<1>8. \/ ParseLLiteStats(lines, path, name) = Failed
      \/ ParseLLiteStats(lines, path, name) = Parsed(FlattenSeq(ls))
  BY <1>2 DEF ParseLLiteStats, AllLines
<1>9. \/ ParseOBDStats(lines, path, name, type) = Failed
      \/ ParseOBDStats(lines, path, name, type) = Parsed(FlattenSeq(os))
  BY <1>2 DEF ParseOBDStats, AllLines
<1>10. QED
  BY <1>7, <1>8, <1>9, PairedResults

\* What is collected of a target, too.
LEMMA TargetIsPaired ==
  ASSUME HostInv, config.strict \in BOOLEAN, NEW t, t = TargetNamed(t.name)
  PROVE  IsPaired(CollectTarget(t))
<1>1. PICK path : path = Path(t, t.stats, "stats")
  OBVIOUS
<1>2. PICK l, o :
        /\ l = IF Readable(path) THEN ParseLLiteStats(Lines(path), path, t.name) ELSE Failed
        /\ o = IF Readable(path) THEN ParseOBDStats(Lines(path), path, t.name, t.component) ELSE Failed
  OBVIOUS
<1>3. IsPaired(l) /\ IsPaired(o)
  BY <1>2, LinesAreLists, StatsArePaired, PairedResults
<1>4. IsPaired(Params(t)) /\ IsPaired(CollectRPCStats(t))
  BY ParamsAreLocated, ParamsAreOther, CollectRPCIsLocated, CollectRPCStatsIsOther, OtherIsPaired
<1>5. CASE t.component = "llite"
  <2>1. PICK parts : parts = <<l, Params(t)>>
    OBVIOUS
  <2>2. DOMAIN parts = 1..2 /\ parts[1] = l /\ parts[2] = Params(t)
    BY <2>1
  <2>3. \A i \in 1..2 : i = 1 \/ i = 2
    OBVIOUS
  <2>4. \A i \in 1..2 : IsPaired(parts[i])
    BY <1>3, <1>4, <2>2, <2>3
  <2>5. CollectLLite(t) = All(parts)
    BY <1>1, <1>2, <2>1, SinglePath DEF CollectLLite, ParseFirst
  <2>6. IsPaired(CollectLLite(t))
    BY <2>2, <2>4, <2>5, AllIsPaired
  <2>7. QED
    BY <1>5, <2>6, PairedResults DEF CollectTarget
<1>6. CASE t.component # "llite"
  <2>1. CollectOBDStats(t) = IF t.stats = NoPath THEN Parsed(<<>>) ELSE o
    BY <1>1, <1>2, SinglePath DEF CollectOBDStats, ParseFirst
  <2>2. PICK parts :
          parts = <<StrictError(CollectOBDStats(t)), StrictError(CollectRPCStats(t)), Params(t)>>
    OBVIOUS
  <2>3. /\ DOMAIN parts = 1..3 /\ parts[1] = StrictError(CollectOBDStats(t))
        /\ parts[2] = StrictError(CollectRPCStats(t)) /\ parts[3] = Params(t)
    BY <2>2
  <2>4. \A i \in 1..3 : i = 1 \/ i = 2 \/ i = 3
    OBVIOUS
  <2>5. IsPaired(parts[1]) /\ IsPaired(parts[2]) /\ IsPaired(parts[3])
    BY <1>3, <1>4, <2>1, <2>3, PairedResults
  <2>6. \A i \in 1..3 : IsPaired(parts[i])
    BY <2>4, <2>5
  <2>7. CollectTarget(t) = All(parts)
    <3>1. CollectTarget(t) =
            All(<<StrictError(CollectOBDStats(t)), StrictError(CollectRPCStats(t)), Params(t)>>)
      BY <1>6 DEF CollectTarget
    <3>2. QED
      BY <2>2, <3>1
  <2>8. QED
    BY <2>3, <2>6, <2>7, AllIsPaired
<1>7. QED
  BY <1>5, <1>6

\* And what the client collector has of all of them.
LEMMA ClientIsPaired ==
  ASSUME HostInv, config.strict \in BOOLEAN
  PROVE  IsPaired(ClientObservations)
<1>1. PICK m \in Nat : DOMAIN Targets = 1..m
  BY TargetsExist
<1>2. PICK targets : targets = Targets
  OBVIOUS
<1>3. PICK ldlm : ldlm = ParseFirst(LDLMCBDStatsPaths, Parsed(<<>>), ParseLDLMCBDStats)
  OBVIOUS
<1>4. IsPaired(StrictError(ldlm))
  <2>1. PICK paths, path : paths = LDLMCBDStatsPaths /\ path = FirstAvailable(paths)
    OBVIOUS
  <2>2. DOMAIN paths \subseteq Nat
    BY <2>1 DEF LDLMCBDStatsPaths, Under
  <2>3. ASSUME Available(paths) # {}
        PROVE  IsPaired(ParseLDLMCBDStats(Lines(path), path))
    <3>1. PICK ids, r : ids = {"ldlm_cbd_stats"} /\ r = ParseLDLMCBDStats(Lines(path), path)
      OBVIOUS
    <3>2. Shows(r, ids, path, "")
      BY <2>1, <2>2, <2>3, <3>1, FirstLines, LDLMShows
    <3>3. IsResult(r) /\ \A q \in ToSet(r.obs) : q.id # "stats_seconds_sum"
      BY <3>1, <3>2 DEF Shows, AreOf, IsOf
    <3>4. QED
      BY <3>1, <3>3 DEF IsPaired, ArePaired
  <2>4. IsPaired(ldlm)
    BY <1>3, <2>1, <2>3, PairedResults DEF ParseFirst
  <2>5. QED
    BY <2>4, PairedResults
<1>5. PICK parts :
        /\ ClientObservations = All(parts)
        /\ DOMAIN parts = 1..(m + 1)
        /\ parts[1] = StrictError(ldlm)
        /\ \A i \in 1..m : i + 1 \in 1..(m + 1) /\ parts[i + 1] = CollectTarget(targets[i])
  BY <1>1, <1>2, <1>3, ClientIsAll
<1>6. \A i \in 1..(m + 1) : i = 1 \/ (i - 1 \in 1..m /\ (i - 1) + 1 = i)
  OBVIOUS
<1>7. ASSUME NEW i \in 1..m
      PROVE  IsPaired(CollectTarget(targets[i]))
  <2>1. PICK t : t = targets[i]
    OBVIOUS
  <2>2. t = TargetNamed(t.name)
    BY <1>1, <1>2, <2>1, TargetsAreNamed
  <2>3. QED
    BY <2>1, <2>2, TargetIsPaired
<1>8. \A i \in 1..(m + 1) : IsPaired(parts[i])
  BY <1>4, <1>5, <1>6, <1>7
<1>9. m + 1 \in Nat
  OBVIOUS
<1>10. QED
  BY <1>5, <1>8, <1>9, AllIsPaired

\* The series of a name.
Called(series, name) == {s \in series : s.name = name}

\* What JoinsMatch says of the series of the client collector.
AreJoined(series) ==
  /\ \A j \in Joins : \A s \in Called(series, j.left) : \A r \in Called(series, j.right) :
       SameSubject(s, r) <=> Without(s.labels, j.ignoring) = r.labels
  /\ \A s \in Called(series, "stats_seconds_sum") :
       Cardinality({r \in Called(series, "stats_total") : SameSubject(s, r)}) = 1

\* A series of a metric of the contract.
IsSeriesOf(s, m) ==
  /\ s = [name |-> m.name, type |-> m.type, labels |-> s.labels]
  /\ s.labels = [k \in m.labels |-> s.labels[k]]

\* An observation becomes one.
LEMMA MappedIsSeries ==
  ASSUME NEW o, HasItsLabels(o)
  PROVE  \E m \in Contract : IsSeriesOf(MapObservation(o), m)
<1>1. PICK m \in Contract : m.id = o.id
  BY DEF HasItsLabels, Registry
<1>2. Registry[o.id] = m
  BY <1>1, RegistryIs
<1>3. PICK labels : labels = [k \in m.labels |-> IF k \in DOMAIN o.labels THEN o.labels[k] ELSE ""]
  OBVIOUS
<1>4. MapObservation(o) = [name |-> m.name, type |-> m.type, labels |-> labels]
  BY <1>2, <1>3 DEF MapObservation
<1>5. labels = [k \in m.labels |-> labels[k]]
  BY <1>3
<1>6. PICK s : s = MapObservation(o)
  OBVIOUS
<1>7. s.labels = labels
  BY <1>4, <1>6
<1>8. s = [name |-> m.name, type |-> m.type, labels |-> s.labels]
  BY <1>4, <1>6, <1>7
<1>9. s.labels = [k \in m.labels |-> s.labels[k]]
  BY <1>5, <1>7
<1>10. QED
  BY <1>1, <1>6, <1>8, <1>9 DEF IsSeriesOf

\* The label sets of the contract make the joins match.
LEMMA SeriesJoin ==
  ASSUME NEW j \in Joins, NEW s, NEW r, s.name = j.left, r.name = j.right,
         NEW m \in Contract, IsSeriesOf(s, m), NEW n \in Contract, IsSeriesOf(r, n)
  PROVE  SameSubject(s, r) <=> Without(s.labels, j.ignoring) = r.labels
<1>1. m.name = j.left /\ n.name = j.right
  BY DEF IsSeriesOf
<1>2. n.labels = m.labels \ j.ignoring
  BY <1>1, JoinsDropLabels
<1>3. PICK f, g : f = s.labels /\ g = r.labels
  OBVIOUS
<1>4. f = [k \in m.labels |-> f[k]] /\ g = [k \in n.labels |-> g[k]]
  BY <1>3 DEF IsSeriesOf
<1>5. DOMAIN f = m.labels /\ DOMAIN g = n.labels /\ g = [k \in DOMAIN g |-> g[k]]
  BY <1>4
<1>6. QED
  BY <1>2, <1>3, <1>5, SubjectsJoin

\* The metric that counts operations has its identifier for a name.
LEMMA CountsAreCalled ==
  \A m \in Contract : m.id = "stats_total" => m.name = "stats_total"
BY DEF Contract, Health, Sptlrpc, LNetStats, LNetStatsByNID, LNetParams, LNetNIs,
       ClientCapacityAndIO, ClientOperations, ClientTunables, RPCStats, ImportFiles,
       LpccCaches, LpccMounts, ByNID, Metrics

\* The series of observations that are paired.
LEMMA PairedAreJoined ==
  ASSUME NEW obs, ArePaired(obs), \A o \in obs : HasItsLabels(o) /\ IsMade(o)
  PROVE  AreJoined({MapObservation(o) : o \in obs})
<1>1. PICK series : series = {MapObservation(o) : o \in obs}
  OBVIOUS
<1>2. \A s \in series : \E m \in Contract : IsSeriesOf(s, m)
  BY <1>1, MappedIsSeries
<1>3. ASSUME NEW j \in Joins, NEW s \in Called(series, j.left), NEW r \in Called(series, j.right)
      PROVE  SameSubject(s, r) <=> Without(s.labels, j.ignoring) = r.labels
  BY <1>2, SeriesJoin DEF Called
<1>4. ASSUME NEW s \in Called(series, "stats_seconds_sum")
      PROVE  Cardinality({r \in Called(series, "stats_total") : SameSubject(s, r)}) = 1
  <2>1. PICK j : j = [left |-> "stats_seconds_sum", right |-> "stats_total", ignoring |-> {"type"}]
    OBVIOUS
  <2>2. j \in Joins /\ j.left = "stats_seconds_sum" /\ j.right = "stats_total" /\ j.ignoring = {"type"}
    BY <2>1 DEF Joins
  <2>3. \A r \in Called(series, "stats_total") :
          SameSubject(s, r) <=> Without(s.labels, {"type"}) = r.labels
    BY <1>3, <1>4, <2>2
  <2>4. PICK o \in obs : s = MapObservation(o)
    BY <1>1 DEF Called
  <2>5. PICK m \in Contract : m.id = o.id /\ s.name = m.name /\ s.labels = o.labels
    BY <2>4, MappedLabels
  <2>6. o.id = "stats_seconds_sum"
    BY <2>5, JoinedLabels DEF Called
  <2>7. PICK q \in obs : q.id = "stats_total" /\ q.labels = Without(o.labels, {"type"})
    BY <2>6 DEF ArePaired, IsCountOf
  <2>8. PICK r : r = MapObservation(q)
    OBVIOUS
  <2>9. PICK n \in Contract : n.id = q.id /\ r.name = n.name /\ r.labels = q.labels
    BY <2>7, <2>8, MappedLabels
  <2>10. r.name = "stats_total"
    <3>1. n.id = "stats_total"
      BY <2>7, <2>9
    <3>2. QED
      BY <2>9, <3>1, CountsAreCalled
  <2>11. r \in Called(series, "stats_total") /\ SameSubject(s, r)
    BY <1>1, <2>3, <2>5, <2>7, <2>8, <2>9, <2>10 DEF Called
  <2>12. ASSUME NEW u \in Called(series, "stats_total"), SameSubject(s, u)
         PROVE  u = r
    <3>1. u.labels = r.labels
      BY <2>3, <2>11, <2>12
    <3>2. PICK a \in Contract : IsSeriesOf(u, a)
      BY <1>2 DEF Called
    <3>3. PICK b \in Contract : IsSeriesOf(r, b)
      BY <1>2, <2>11 DEF Called
    <3>4. a.name = "stats_total" /\ b.name = "stats_total"
      BY <2>10, <3>2, <3>3 DEF IsSeriesOf, Called
    <3>5. a = b
      BY <3>4, JoinedLabels, ContractIsUnique
    <3>6. QED
      BY <3>1, <3>2, <3>3, <3>5 DEF IsSeriesOf
  <2>13. {u \in Called(series, "stats_total") : SameSubject(s, u)} = {r}
    BY <2>11, <2>12
  <2>14. QED
    BY <2>13, FS_Singleton
<1>5. QED
  BY <1>1, <1>3, <1>4 DEF AreJoined

\* JoinsMatch, of the client collector's result.
JoinsInv ==
  "client" \in DOMAIN results /\ ~results["client"].err =>
    AreJoined(ToSet(results["client"].series))

\* A step keeps it.
LEMMA JoinsInvStep ==
  ASSUME TypeInv, JoinsInv, [Next]_vars
  PROVE  JoinsInv'
<1>1. CASE Scrape
  <2>1. SUFFICES ASSUME "client" \in DOMAIN results', ~results'["client"].err
                 PROVE  AreJoined(ToSet(results["client"].series))'
    BY DEF JoinsInv
  <2>2. results'["client"] = Collect("client")
    BY <1>1, <2>1 DEF Scrape
  <2>3. HostInv /\ config.strict \in BOOLEAN /\ "client" \in Collectors
    BY TypeInvGives, ScrapeAssumption DEF TypeInv, TypeOK, Config, Collectors, AllCollectors, ToSet
  <2>4. PICK obs : obs = ToSet(ClientObservations.obs)
    OBVIOUS
  <2>5. ArePaired(obs)
    BY <2>3, <2>4, ClientIsPaired DEF IsPaired
  <2>6. \A o \in obs : HasItsLabels(o) /\ IsMade(o)
    <3>1. \A o \in obs : HasItsLabels(o)
      BY <2>3, <2>4, ClientYields DEF Yields
    <3>2. \A o \in obs : IsMade(o)
      BY <2>3, <2>4, ClientIsLocated DEF IsLocatedResult, IsLocated
    <3>3. QED
      BY <3>1, <3>2
  <2>7. PICK out : out = Collect("client").series
    OBVIOUS
  <2>8. PICK series : series = ToSet(out)
    OBVIOUS
  <2>9. series = {MapObservation(o) : o \in obs}
    BY <2>1, <2>2, <2>4, <2>7, <2>8, CollectedSeries
  <2>10. AreJoined(series)
    BY <2>5, <2>6, <2>9, PairedAreJoined
  <2>11. out = results'["client"].series
    BY <2>2, <2>7
  <2>12. series = ToSet(results["client"].series)'
    BY <2>8, <2>11 DEF ToSet
  <2>13. QED
    BY <2>10, <2>12
<1>2. CASE UNCHANGED results
  <2>1. SUFFICES ASSUME "client" \in DOMAIN results, ~results["client"].err
                 PROVE  AreJoined(ToSet(results["client"].series))'
    BY <1>2 DEF JoinsInv
  <2>2. PICK out : out = results["client"].series
    OBVIOUS
  <2>3. PICK series : series = ToSet(out)
    OBVIOUS
  <2>4. AreJoined(series)
    BY <2>1, <2>2, <2>3 DEF JoinsInv
  <2>5. series = ToSet(results["client"].series)'
    BY <1>2, <2>2, <2>3 DEF ToSet
  <2>6. QED
    BY <2>4, <2>5
<1>3. QED
  BY <1>1, <1>2 DEF Next, Start, Edit, Idle, vars

\* The queries of docs/metrics.md that relate two metrics (247-250, 365-371,
\* 424-428) join the series about the same target and operation, and no others,
\* and every sum of seconds has the one count of its operation beside it.
THEOREM QueriesJoin == Spec => []JoinsMatch
<1>1. Init => TypeInv /\ JoinsInv
  BY ScrapeAssumption DEF Init, TypeInv, TypeOK, FilesAt, Valid, JoinsInv
<1>2. TypeInv /\ JoinsInv /\ [Next]_vars => (TypeInv /\ JoinsInv)'
  BY TypeInvStep, JoinsInvStep
<1>3. JoinsInv => JoinsMatch
  BY DEF JoinsInv, JoinsMatch, ClientIsFresh, Succeeded, AreJoined, Called
<1>4. QED
  BY <1>1, <1>2, <1>3, PTL DEF Spec

-----------------------------------------------------------------------------
(* What is lost with a file.                                               *)

\* What ReadFirstAvailable reads of the host h: the first readable path, and the
\* lines there.
Found(h, paths) ==
  LET there == {i \in DOMAIN paths : paths[i] \in DOMAIN h /\ h[paths[i]].state = "ok"}
      path == paths[Min(there)]
  IN IF there = {} THEN [some |-> FALSE, path |-> <<>>, lines |-> <<>>]
     ELSE [some |-> TRUE, path |-> path, lines |-> h[path].lines]

\* Of the host as it is.
LEMMA FoundIs ==
  ASSUME NEW paths
  PROVE  /\ Found(host, paths).some <=> Available(paths) # {}
         /\ Found(host, paths).some =>
              /\ Found(host, paths).path = FirstAvailable(paths)
              /\ Found(host, paths).lines = Lines(FirstAvailable(paths))
<1>1. PICK there : there = {i \in DOMAIN paths : paths[i] \in DOMAIN host /\ host[paths[i]].state = "ok"}
  OBVIOUS
<1>2. Available(paths) = there
  BY <1>1 DEF Available, Readable, State
<1>3. PICK path : path = paths[Min(there)]
  OBVIOUS
<1>4. FirstAvailable(paths) = path
  BY <1>2, <1>3 DEF FirstAvailable
<1>5. Found(host, paths) = IF there = {} THEN [some |-> FALSE, path |-> <<>>, lines |-> <<>>]
                           ELSE [some |-> TRUE, path |-> path, lines |-> host[path].lines]
  BY <1>1, <1>3 DEF Found
<1>6. QED
  BY <1>2, <1>4, <1>5 DEF Lines

\* Two hosts that have the same at all of the paths.
LEMMA FoundTheSame ==
  ASSUME NEW h, NEW g, DOMAIN h = DOMAIN g, NEW paths, DOMAIN paths \subseteq Nat,
         \A i \in DOMAIN paths : paths[i] \in DOMAIN h => h[paths[i]] = g[paths[i]]
  PROVE  Found(h, paths) = Found(g, paths)
<1>1. PICK there : there = {i \in DOMAIN paths : paths[i] \in DOMAIN h /\ h[paths[i]].state = "ok"}
  OBVIOUS
<1>2. there = {i \in DOMAIN paths : paths[i] \in DOMAIN g /\ g[paths[i]].state = "ok"}
  BY <1>1
<1>3. CASE there = {}
  BY <1>1, <1>2, <1>3 DEF Found
<1>4. CASE there # {}
  <2>1. PICK m : m = Min(there)
    OBVIOUS
  <2>2. m \in there
    <3>1. there \subseteq Nat
      BY <1>1
    <3>2. PICK x \in there : \A y \in there : x <= y
      BY <1>4, <3>1, Least
    <3>3. QED
      BY <2>1, <3>2 DEF Min
  <2>3. PICK path : path = paths[m]
    OBVIOUS
  <2>4. h[path] = g[path]
    BY <1>1, <2>2, <2>3
  <2>5. Found(h, paths) = [some |-> TRUE, path |-> path, lines |-> h[path].lines]
    BY <1>1, <1>4, <2>1, <2>3 DEF Found
  <2>6. Found(g, paths) = [some |-> TRUE, path |-> path, lines |-> g[path].lines]
    BY <1>2, <1>4, <2>1, <2>3 DEF Found
  <2>7. QED
    BY <2>4, <2>5, <2>6
<1>5. QED
  BY <1>3, <1>4

\* The path that was found is one of them, on the host.
LEMMA FoundPath ==
  ASSUME NEW h, NEW paths, DOMAIN paths \subseteq Nat, Found(h, paths).some
  PROVE  \E i \in DOMAIN paths : Found(h, paths).path = paths[i] /\ paths[i] \in DOMAIN h
<1>1. PICK there : there = {i \in DOMAIN paths : paths[i] \in DOMAIN h /\ h[paths[i]].state = "ok"}
  OBVIOUS
<1>2. there # {}
  BY <1>1 DEF Found
<1>3. PICK m : m = Min(there)
  OBVIOUS
<1>4. m \in there
  <2>1. there \subseteq Nat
    BY <1>1
  <2>2. PICK x \in there : \A y \in there : x <= y
    BY <1>2, <2>1, Least
  <2>3. QED
    BY <1>3, <2>2 DEF Min
<1>5. Found(h, paths).path = paths[m]
  BY <1>1, <1>2, <1>3 DEF Found
<1>6. QED
  BY <1>1, <1>4, <1>5

\* No file that decides over the one at q differs between two hosts.
SameFor(h, g, q) ==
  DOMAIN h = DOMAIN g /\ \A p \in DOMAIN h : h[p] # g[p] => ~Decides(p, q)

\* Paths that decide over each other.
AreOneSource(paths) ==
  DOMAIN paths \subseteq Nat /\ \A i, j \in DOMAIN paths : Decides(paths[i], paths[j])

\* Then the same is found.
LEMMA SourceIsTheSame ==
  ASSUME NEW h, NEW g, NEW paths, AreOneSource(paths), NEW i \in DOMAIN paths,
         SameFor(h, g, paths[i])
  PROVE  Found(h, paths) = Found(g, paths)
BY FoundTheSame DEF AreOneSource, SameFor

\* The same file under several roots is one source.
LEMMA RootsAreOneSource ==
  /\ \A roots, a : DOMAIN roots \subseteq Nat => AreOneSource(Under(roots, <<a>>))
  /\ \A roots, a, b : DOMAIN roots \subseteq Nat => AreOneSource(Under(roots, <<a, b>>))
  /\ \A roots, a, b, c : DOMAIN roots \subseteq Nat => AreOneSource(Under(roots, <<a, b, c>>))
  /\ \A p : AreOneSource(<<p>>)
<1>1. ASSUME NEW x, NEW rest, rest \in Seq(ToSet(rest))
      PROVE  Tail(<<x>> \o rest) = rest
  <2>1. PICK V : V = {x} \cup ToSet(rest)
    OBVIOUS
  <2>2. PICK one : one = <<x>>
    OBVIOUS
  <2>3. one \in Seq(V) /\ rest \in Seq(V) /\ Len(one) = 1
    BY <1>1, <2>1, <2>2
  <2>4. PICK s : s = one \o rest
    OBVIOUS
  <2>5. PICK n \in Nat : Len(rest) = n /\ DOMAIN rest = 1..n
    BY <1>1
  <2>6. one \in Seq(V) /\ rest \in Seq(V)
    BY <2>3
  <2>7. /\ Len(s) = Len(one) + Len(rest)
        /\ \A j \in 1..(Len(one) + Len(rest)) : s[j] = IF j <= Len(one) THEN one[j] ELSE rest[j - Len(one)]
    BY <2>4, <2>6, ConcatPositions
  <2>8. s \in Seq(V) /\ Len(s) = 1 + n
    <3>1. s \in Seq(V)
      BY <2>4, <2>6, ConcatMembers
    <3>2. QED
      BY <2>3, <2>5, <2>7, <3>1
  <2>9. \A j \in 1..(1 + n) : s[j] = IF j <= 1 THEN one[j] ELSE rest[j - 1]
    BY <2>3, <2>5, <2>7
  <2>10. ASSUME NEW i \in 1..n
         PROVE  s[i + 1] = rest[i]
    <3>1. i + 1 \in 1..(1 + n) /\ ~(i + 1 <= 1) /\ (i + 1) - 1 = i
      OBVIOUS
    <3>2. QED
      BY <2>9, <3>1
  <2>11. Tail(s) \in Seq(V) /\ Len(Tail(s)) = n /\ \A i \in 1..n : Tail(s)[i] = rest[i]
    BY <2>8, <2>10
  <2>12. Tail(s) = rest
    BY <2>3, <2>5, <2>11
  <2>13. QED
    BY <2>2, <2>4, <2>12
<1>2. ASSUME NEW roots, NEW rest, rest \in Seq(ToSet(rest)), DOMAIN roots \subseteq Nat
      PROVE  AreOneSource(Under(roots, rest))
  <2>1. PICK paths : paths = Under(roots, rest)
    OBVIOUS
  <2>2. DOMAIN paths = DOMAIN roots /\ \A i \in DOMAIN paths : Tail(paths[i]) = rest
    BY <1>1, <1>2, <2>1 DEF Under
  <2>3. QED
    BY <1>2, <2>1, <2>2 DEF AreOneSource, Decides
<1>3. /\ \A a : <<a>> \in Seq(ToSet(<<a>>))
      /\ \A a, b : <<a, b>> \in Seq(ToSet(<<a, b>>))
      /\ \A a, b, c : <<a, b, c>> \in Seq(ToSet(<<a, b, c>>))
  BY DEF ToSet
<1>4. ASSUME NEW p
      PROVE  AreOneSource(<<p>>)
  <2>1. DOMAIN <<p>> = {1}
    OBVIOUS
  <2>2. QED
    BY <2>1 DEF AreOneSource, Decides
<1>5. QED
  BY <1>2, <1>3, <1>4

\* The least element of a set of naturals.
LEMMA LeastIs ==
  ASSUME NEW T, T \subseteq Nat, NEW x \in T, \A y \in T : x <= y
  PROVE  Min(T) = x
<1>1. PICK m : m = CHOOSE z \in T : \A y \in T : z <= y
  OBVIOUS
<1>2. m \in T /\ \A y \in T : m <= y
  BY <1>1
<1>3. m \in Nat /\ x \in Nat /\ m <= x /\ x <= m
  BY <1>2
<1>4. m = x
  BY <1>3
<1>5. QED
  BY <1>1, <1>4 DEF Min

\* Two lists, one after the other.
LEMMA ConcatOf ==
  ASSUME NEW V, NEW x \in Seq(V), NEW y \in Seq(V), NEW z, z = x \o y
  PROVE  /\ z \in Seq(V)
         /\ Len(z) = Len(x) + Len(y)
         /\ \A i \in 1..Len(x) : z[i] = x[i]
         /\ \A i \in 1..Len(y) : z[Len(x) + i] = y[i]
<1>1. /\ z \in Seq(V)
      /\ Len(z) = Len(x) + Len(y)
      /\ \A i \in 1..(Len(x) + Len(y)) : z[i] = IF i <= Len(x) THEN x[i] ELSE y[i - Len(x)]
  BY ConcatPositions, ConcatMembers
<1>2. Len(x) \in Nat /\ Len(y) \in Nat
  OBVIOUS
<1>3. PICK m \in Nat, n \in Nat : m = Len(x) /\ n = Len(y)
  BY <1>2
<1>4. \A i \in 1..m : i \in 1..(m + n) /\ i <= m
  OBVIOUS
<1>5. \A i \in 1..n : m + i \in 1..(m + n) /\ ~(m + i <= m) /\ (m + i) - m = i
  OBVIOUS
<1>6. QED
  BY <1>1, <1>3, <1>4, <1>5

-----------------------------------------------------------------------------
(* The places at which discovery finds the statistics of a target.         *)

\* All stats files are looked for before the rpc_stats files, which no mount has.
LEMMA PatternOrder ==
  /\ DOMAIN Patterns = 1..15
  /\ \A j \in 1..15 :
       /\ Patterns[j] \in Pattern
       /\ Patterns[j].file = "stats" <=> j <= 9
       /\ Patterns[j].component = "llite" => j <= 9
<1>1. PICK P, Q : /\ P = {p \in Pattern : p.file = "stats"}
                  /\ Q = {p \in Pattern : p.file # "stats" /\ p.component # "llite"}
  OBVIOUS
<1>2. ASSUME NEW V, NEW file, NEW component,
             \A root \in RootNames : [file |-> file, component |-> component, root |-> root] \in V
      PROVE  PatternsOf(file, component) \in Seq(V) /\ Len(PatternsOf(file, component)) = 3
  <2>1. "proc" \in RootNames /\ "sys" \in RootNames /\ "debug" \in RootNames
    BY DEF RootNames
  <2>2. \A a, b, c \in V : <<a, b, c>> \in Seq(V) /\ Len(<<a, b, c>>) = 3
    OBVIOUS
  <2>3. QED
    BY <1>2, <2>1, <2>2 DEF PatternsOf
<1>3. ASSUME NEW component \in Components
      PROVE  /\ \A root \in RootNames :
                  [file |-> "stats", component |-> component, root |-> root] \in P
             /\ component # "llite" => \A root \in RootNames :
                  [file |-> "rpc_stats", component |-> component, root |-> root] \in Q
  BY <1>1 DEF Pattern
<1>4. PICK a, b, c, d, e :
        /\ a = PatternsOf("stats", "llite") /\ b = PatternsOf("stats", "mdc")
        /\ c = PatternsOf("stats", "osc") /\ d = PatternsOf("rpc_stats", "mdc")
        /\ e = PatternsOf("rpc_stats", "osc")
  OBVIOUS
<1>5. /\ a \in Seq(P) /\ Len(a) = 3
      /\ b \in Seq(P) /\ Len(b) = 3
      /\ c \in Seq(P) /\ Len(c) = 3
  BY <1>2, <1>3, <1>4 DEF Components
<1>6. /\ d \in Seq(Q) /\ Len(d) = 3
      /\ e \in Seq(Q) /\ Len(e) = 3
  BY <1>2, <1>3, <1>4 DEF Components
<1>7. PICK r : r = a \o b
  OBVIOUS
<1>8. r \in Seq(P) /\ Len(r) = Len(a) + Len(b)
  <2>1. a \in Seq(P) /\ b \in Seq(P)
    BY <1>5
  <2>2. QED
    BY <1>7, <2>1, ConcatOf
<1>9. r \in Seq(P) /\ Len(r) = 6
  BY <1>5, <1>8
<1>10. PICK s : s = r \o c
  OBVIOUS
<1>11. s \in Seq(P) /\ Len(s) = Len(r) + Len(c)
  <2>1. r \in Seq(P) /\ c \in Seq(P)
    BY <1>5, <1>9
  <2>2. QED
    BY <1>10, <2>1, ConcatOf
<1>12. s \in Seq(P) /\ Len(s) = 9
  BY <1>5, <1>9, <1>11
<1>13. s \in Seq(P) /\ Len(s) = 9 /\ \A i \in 1..9 : s[i] \in P
  <2>1. \A i \in 1..Len(s) : s[i] \in P
    BY <1>11
  <2>2. QED
    BY <1>12, <2>1
<1>14. s \in Seq(Pattern) /\ d \in Seq(Pattern) /\ e \in Seq(Pattern)
  BY <1>1, <1>6, <1>13
<1>15. PICK t : t = s \o d
  OBVIOUS
<1>16. /\ t \in Seq(Pattern) /\ Len(t) = Len(s) + Len(d)
       /\ \A i \in 1..Len(s) : t[i] = s[i]
       /\ \A i \in 1..Len(d) : t[Len(s) + i] = d[i]
  BY <1>14, <1>15, ConcatOf
<1>17. /\ t \in Seq(Pattern) /\ Len(t) = 12
       /\ \A i \in 1..9 : t[i] = s[i]
       /\ \A i \in 1..3 : t[9 + i] = d[i]
  BY <1>6, <1>13, <1>16
<1>18. PICK u : u = t \o e
  OBVIOUS
<1>19. /\ u \in Seq(Pattern) /\ Len(u) = Len(t) + Len(e)
       /\ \A i \in 1..Len(t) : u[i] = t[i]
       /\ \A i \in 1..Len(e) : u[Len(t) + i] = e[i]
  <2>1. t \in Seq(Pattern) /\ e \in Seq(Pattern)
    BY <1>14, <1>17
  <2>2. QED
    BY <1>18, <2>1, ConcatOf
<1>20. /\ u \in Seq(Pattern) /\ Len(u) = 15
       /\ \A i \in 1..12 : u[i] = t[i]
       /\ \A i \in 1..3 : u[12 + i] = e[i]
  BY <1>6, <1>17, <1>19
<1>21. DOMAIN u = 1..15 /\ \A i \in 1..15 : u[i] \in Pattern
  <2>1. u \in Seq(Pattern)
    BY <1>20
  <2>2. DOMAIN u = 1..Len(u) /\ \A i \in 1..Len(u) : u[i] \in Pattern
    BY <2>1
  <2>3. Len(u) = 15
    BY <1>20
  <2>4. QED
    BY <2>2, <2>3
<1>22. Patterns = u
  BY <1>4, <1>7, <1>10, <1>15, <1>18 DEF Patterns
<1>23. ASSUME NEW i \in 1..9
       PROVE  u[i] \in P
  <2>1. i \in 1..12
    OBVIOUS
  <2>2. QED
    BY <1>13, <1>17, <1>20, <2>1, Zenon
<1>24. ASSUME NEW i \in 10..15
       PROVE  u[i] \in Q
  <2>1. \A k \in 1..3 : d[k] \in Q /\ e[k] \in Q
    BY <1>6
  <2>2. CASE i <= 12
    <3>1. PICK k : k = i - 9
      OBVIOUS
    <3>2. k \in 1..3 /\ 9 + k = i /\ 9 + k \in 1..12
      BY <2>2, <3>1
    <3>3. u[9 + k] = d[k]
      BY <1>17, <1>20, <3>2, Zenon
    <3>4. QED
      BY <2>1, <3>2, <3>3, Zenon
  <2>3. CASE ~(i <= 12)
    <3>1. PICK k : k = i - 12
      OBVIOUS
    <3>2. k \in 1..3 /\ 12 + k = i
      BY <2>3, <3>1
    <3>3. QED
      BY <1>20, <2>1, <3>2, Zenon
  <2>4. QED
    BY <2>2, <2>3
<1>25. ASSUME NEW j \in 1..15
       PROVE  /\ u[j] \in Pattern
              /\ u[j].file = "stats" <=> j <= 9
              /\ u[j].component = "llite" => j <= 9
  <2>1. CASE j <= 9
    <3>1. u[j] \in P
      BY <1>23, <2>1
    <3>2. QED
      BY <1>1, <2>1, <3>1
  <2>2. CASE ~(j <= 9)
    <3>1. j \in 10..15
      BY <2>2
    <3>2. u[j] \in Q
      BY <1>24, <3>1
    <3>3. QED
      BY <1>1, <2>2, <3>2
  <2>3. QED
    BY <2>1, <2>2
<1>26. QED
  BY <1>22, <1>25, <1>21

\* The root of the first pattern for this file of this target that is among the
\* matches, which are pairs of a position in Patterns and a name.
Matching(matches, component, name, file) ==
  {j \in 1..15 : /\ <<j, name>> \in matches
                 /\ Patterns[j].component = component /\ Patterns[j].file = file}

FirstRoot(matches, component, name, file) ==
  LET there == Matching(matches, component, name, file)
  IN IF there = {} THEN NoPath ELSE Patterns[Min(there)].root

\* It is a root if there is one.
LEMMA FirstRootIs ==
  ASSUME NEW matches, NEW component, NEW name, NEW file
  PROVE  FirstRoot(matches, component, name, file) = NoPath
           <=> Matching(matches, component, name, file) = {}
<1>1. PICK there : there = Matching(matches, component, name, file)
  OBVIOUS
<1>2. CASE there = {}
  BY <1>1, <1>2 DEF FirstRoot
<1>3. CASE there # {}
  <2>1. there \subseteq 1..15
    BY <1>1 DEF Matching
  <2>2. PICK m : m = Min(there)
    OBVIOUS
  <2>3. m \in there
    <3>1. there \subseteq Nat
      BY <2>1
    <3>2. PICK x \in there : \A y \in there : x <= y
      BY <1>3, <3>1, Least
    <3>3. QED
      BY <2>2, <3>2 DEF Min
  <2>4. Patterns[m] \in Pattern
    BY <2>1, <2>3, PatternOrder
  <2>5. Patterns[m].root # NoPath
    BY <2>4, DiscoveryAssumption DEF Pattern
  <2>6. FirstRoot(matches, component, name, file) = Patterns[m].root
    BY <1>1, <1>3, <2>2 DEF FirstRoot
  <2>7. QED
    BY <1>1, <1>3, <2>5, <2>6
<1>4. QED
  BY <1>2, <1>3

\* One more of them.
WithMatch(matches, j, name) == matches \cup {<<j, name>>}

\* Matches of the first j patterns.
AreUpTo(matches, j) == \A m \in matches : m[1] \in 1..j

\* One more match, of the last pattern.
LEMMA FirstRootAfter ==
  ASSUME NEW matches, NEW j \in 1..15, AreUpTo(matches, j), NEW name,
         NEW more, more = WithMatch(matches, j, name), NEW component, NEW n, NEW file
  PROVE  FirstRoot(more, component, n, file) =
           IF /\ Patterns[j].component = component /\ name = n /\ Patterns[j].file = file
              /\ FirstRoot(matches, component, n, file) = NoPath
           THEN Patterns[j].root
           ELSE FirstRoot(matches, component, n, file)
<1>1. PICK old, new : /\ old = Matching(matches, component, n, file)
                      /\ new = Matching(more, component, n, file)
  OBVIOUS
<1>2. FirstRoot(matches, component, n, file) = NoPath <=> old = {}
  BY <1>1, FirstRootIs
<1>3. PICK this : this <=> Patterns[j].component = component /\ name = n /\ Patterns[j].file = file
  OBVIOUS
<1>4. new = IF this THEN old \cup {j} ELSE old
  BY <1>1, <1>3 DEF Matching, WithMatch
<1>5. CASE ~this \/ new = old
  <2>1. new = old
    BY <1>4, <1>5
  <2>2. FirstRoot(more, component, n, file) = FirstRoot(matches, component, n, file)
    BY <1>1, <2>1 DEF FirstRoot
  <2>3. old = {} => ~this
    BY <1>4, <2>1
  <2>4. QED
    BY <1>2, <1>3, <2>2, <2>3
<1>6. CASE this /\ old = {}
  <2>1. new = {j}
    BY <1>4, <1>6
  <2>2. Min(new) = j
    BY <2>1 DEF Min
  <2>3. FirstRoot(more, component, n, file) = Patterns[j].root
    BY <1>1, <2>1, <2>2 DEF FirstRoot
  <2>4. QED
    BY <1>2, <1>3, <1>6, <2>3
<1>7. CASE this /\ old # {}
  <2>1. ASSUME NEW i \in old
        PROVE  i \in 1..15 /\ i <= j
    <3>1. PICK m : m = <<i, n>>
      OBVIOUS
    <3>2. m \in matches /\ i \in 1..15
      BY <1>1, <3>1 DEF Matching
    <3>3. m[1] \in 1..j /\ m[1] = i
      BY <3>1, <3>2 DEF AreUpTo
    <3>4. QED
      BY <3>2, <3>3
  <2>2. PICK x \in old : \A y \in old : x <= y
    <3>1. old \subseteq Nat
      BY <2>1
    <3>2. QED
      BY <1>7, <3>1, Least
  <2>3. new = old \cup {j}
    BY <1>4, <1>7
  <2>4. Min(old) = x
    <3>1. old \subseteq Nat
      BY <2>1
    <3>2. QED
      BY <2>2, <3>1, LeastIs
  <2>5. Min(new) = x
    <3>1. x \in new /\ \A y \in new : x <= y
      BY <2>1, <2>2, <2>3
    <3>2. new \subseteq Nat
      BY <2>1, <2>3
    <3>3. QED
      BY <3>1, <3>2, LeastIs
  <2>6. FirstRoot(matches, component, n, file) = Patterns[x].root
    BY <1>1, <1>7, <2>4 DEF FirstRoot
  <2>7. FirstRoot(more, component, n, file) = Patterns[x].root
    BY <1>1, <2>2, <2>3, <2>5 DEF FirstRoot
  <2>8. QED
    BY <1>2, <1>7, <2>6, <2>7
<1>8. QED
  BY <1>5, <1>6, <1>7

\* An index in which every target has the roots of the matches.
StatsRoot(matches, component, name) == FirstRoot(matches, component, name, "stats")
RPCRoot(matches, component, name) == FirstRoot(matches, component, name, "rpc_stats")

IsMatched(matches, component, name) ==
  StatsRoot(matches, component, name) # NoPath \/ RPCRoot(matches, component, name) # NoPath

HasRoots(idx, matches) ==
  /\ IsIndex(idx)
  /\ \A i \in DOMAIN idx.targets :
       LET t == idx.targets[i]
       IN /\ t.stats = StatsRoot(matches, t.component, t.name)
          /\ t.rpc_stats = RPCRoot(matches, t.component, t.name)
  /\ \A component, name :
       IsMatched(matches, component, name) <=> <<component, name>> \in DOMAIN idx.seen
  /\ \A key \in DOMAIN idx.seen :
       idx.seen[key] \in DOMAIN idx.targets /\ KeyOf(idx.targets[idx.seen[key]]) = key

\* A new target.
LEMMA AddTargetHasRoots ==
  ASSUME NEW idx, NEW old, NEW new, HasRoots(idx, old),
         NEW t \in ClientTarget, ~Seen(idx, KeyOf(t)), IsIndex(AddTarget(idx, KeyOf(t), t)),
         t.stats = StatsRoot(new, t.component, t.name),
         t.rpc_stats = RPCRoot(new, t.component, t.name),
         IsMatched(new, t.component, t.name),
         \A component, name : <<component, name>> # KeyOf(t) =>
           /\ StatsRoot(new, component, name) = StatsRoot(old, component, name)
           /\ RPCRoot(new, component, name) = RPCRoot(old, component, name)
  PROVE  HasRoots(AddTarget(idx, KeyOf(t), t), new)
<1>1. PICK list, index, key : list = idx.targets /\ index = idx.seen /\ key = KeyOf(t)
  OBVIOUS
<1>2. PICK more, now : /\ more = Append(list, t)
                       /\ now = [k \in DOMAIN index \cup {key} |->
                                   IF k = key THEN Len(list) + 1 ELSE index[k]]
  OBVIOUS
<1>3. PICK after : after = AddTarget(idx, KeyOf(t), t)
  OBVIOUS
<1>4. after.targets = more /\ after.seen = now
  BY <1>1, <1>2, <1>3 DEF AddTarget
<1>5. key \notin DOMAIN index
  BY <1>1 DEF Seen
<1>6. list \in Seq(Existing)
  BY <1>1 DEF HasRoots, IsIndex
<1>7. PICK n \in Nat : Len(list) = n /\ DOMAIN list = 1..n
  BY <1>6
<1>8. /\ DOMAIN more = 1..(n + 1)
      /\ more[n + 1] = t
      /\ \A i \in 1..n : more[i] = list[i]
  BY <1>2, <1>6, <1>7
<1>9. \A i \in 1..(n + 1) : i \in 1..n \/ i = n + 1
  OBVIOUS
<1>10. ASSUME NEW i \in 1..n
       PROVE  /\ KeyOf(list[i]) # key
              /\ list[i].stats = StatsRoot(new, list[i].component, list[i].name)
              /\ list[i].rpc_stats = RPCRoot(new, list[i].component, list[i].name)
  <2>1. KeyOf(list[i]) \in DOMAIN index
    BY <1>1, <1>7 DEF HasRoots, IsIndex
  <2>2. /\ list[i].stats = StatsRoot(old, list[i].component, list[i].name)
        /\ list[i].rpc_stats = RPCRoot(old, list[i].component, list[i].name)
    BY <1>1, <1>7 DEF HasRoots
  <2>3. KeyOf(list[i]) # key
    BY <1>5, <2>1
  <2>4. QED
    BY <1>1, <2>2, <2>3 DEF KeyOf
<1>11. \A i \in DOMAIN more :
         /\ more[i].stats = StatsRoot(new, more[i].component, more[i].name)
         /\ more[i].rpc_stats = RPCRoot(new, more[i].component, more[i].name)
  BY <1>8, <1>9, <1>10
<1>12. ASSUME NEW component, NEW name
       PROVE  IsMatched(new, component, name) <=> <<component, name>> \in DOMAIN now
  <2>1. CASE <<component, name>> = key
    <3>1. component = t.component /\ name = t.name
      BY <1>1, <2>1 DEF KeyOf
    <3>2. QED
      BY <1>2, <2>1, <3>1
  <2>2. CASE <<component, name>> # key
    <3>1. IsMatched(new, component, name) <=> IsMatched(old, component, name)
      BY <1>1, <2>2 DEF IsMatched
    <3>2. IsMatched(old, component, name) <=> <<component, name>> \in DOMAIN index
      BY <1>1 DEF HasRoots
    <3>3. QED
      BY <1>2, <2>2, <3>1, <3>2
  <2>3. QED
    BY <2>1, <2>2
<1>13. ASSUME NEW k \in DOMAIN now
       PROVE  now[k] \in DOMAIN more /\ KeyOf(more[now[k]]) = k
  <2>1. CASE k = key
    <3>1. now[k] = n + 1
      BY <1>2, <1>7, <2>1
    <3>2. QED
      BY <1>1, <1>8, <2>1, <3>1
  <2>2. CASE k # key
    <3>1. k \in DOMAIN index /\ now[k] = index[k]
      BY <1>2, <2>2
    <3>2. index[k] \in 1..n /\ KeyOf(list[index[k]]) = k
      BY <1>1, <1>7, <3>1 DEF HasRoots
    <3>3. QED
      BY <1>8, <3>1, <3>2
  <2>3. QED
    BY <2>1, <2>2
<1>14. QED
  BY <1>3, <1>4, <1>11, <1>12, <1>13 DEF HasRoots

\* The rpc_stats of a target that is there.
LEMMA SetRPCStatsHasRoots ==
  ASSUME NEW idx, NEW old, NEW new, HasRoots(idx, old), NEW key \in DOMAIN idx.seen, NEW root,
         NEW after, after = [idx EXCEPT !.targets[idx.seen[key]].rpc_stats = root],
         IsIndex(after), root # NoPath,
         \A component, name : StatsRoot(new, component, name) = StatsRoot(old, component, name),
         \A component, name :
           RPCRoot(new, component, name) =
             IF <<component, name>> = key THEN root ELSE RPCRoot(old, component, name)
  PROVE  HasRoots(after, new)
<1>1. PICK list, k : list = idx.targets /\ k = idx.seen[key]
  OBVIOUS
<1>2. PICK more : more = [list EXCEPT ![k].rpc_stats = root]
  OBVIOUS
<1>3. after.targets = more /\ after.seen = idx.seen
  <2>1. idx = [targets |-> idx.targets, seen |-> idx.seen]
    BY DEF HasRoots, IsIndex
  <2>2. after = [targets |-> more, seen |-> idx.seen]
    BY <1>1, <1>2, <2>1
  <2>3. QED
    BY <2>2
<1>4. k \in DOMAIN list /\ KeyOf(list[k]) = key
  BY <1>1 DEF HasRoots
<1>5. list \in Seq(Existing)
  BY <1>1 DEF HasRoots, IsIndex
<1>6. DOMAIN more = DOMAIN list /\ \A i \in DOMAIN list : i # k => more[i] = list[i]
  BY <1>2
<1>7. more[k] = [list[k] EXCEPT !.rpc_stats = root]
  BY <1>2, <1>4, <1>5
<1>8. list[k] \in ClientTarget
  BY <1>4, <1>5 DEF Existing
<1>9. /\ more[k].component = list[k].component /\ more[k].name = list[k].name
      /\ more[k].stats = list[k].stats /\ more[k].rpc_stats = root
  BY <1>7, <1>8 DEF ClientTarget
<1>10. \A i \in DOMAIN list : KeyOf(more[i]) = KeyOf(list[i])
  BY <1>6, <1>9 DEF KeyOf
<1>11. \A i \in DOMAIN list : i # k => KeyOf(list[i]) # key
  BY <1>1 DEF HasRoots, IsIndex
<1>12. \A i \in DOMAIN list :
         /\ list[i].stats = StatsRoot(old, list[i].component, list[i].name)
         /\ list[i].rpc_stats = RPCRoot(old, list[i].component, list[i].name)
  BY <1>1 DEF HasRoots
<1>13. ASSUME NEW i \in DOMAIN list
       PROVE  /\ more[i].stats = StatsRoot(new, more[i].component, more[i].name)
              /\ more[i].rpc_stats = RPCRoot(new, more[i].component, more[i].name)
  <2>1. CASE i = k
    <3>1. <<more[k].component, more[k].name>> = key
      BY <1>4, <1>9 DEF KeyOf
    <3>2. QED
      BY <1>4, <1>9, <1>12, <2>1, <3>1
  <2>2. CASE i # k
    <3>1. <<list[i].component, list[i].name>> # key
      BY <1>11, <2>2 DEF KeyOf
    <3>2. QED
      BY <1>6, <1>12, <2>2, <3>1
  <2>3. QED
    BY <2>1, <2>2
<1>14. ASSUME NEW component, NEW name
       PROVE  IsMatched(new, component, name) <=> <<component, name>> \in DOMAIN idx.seen
  <2>1. IsMatched(old, component, name) <=> <<component, name>> \in DOMAIN idx.seen
    BY DEF HasRoots
  <2>2. CASE <<component, name>> = key
    BY <2>2 DEF IsMatched
  <2>3. CASE <<component, name>> # key
    BY <2>1, <2>3 DEF IsMatched
  <2>4. QED
    BY <2>2, <2>3
<1>15. \A x \in DOMAIN idx.seen : idx.seen[x] \in DOMAIN more /\ KeyOf(more[idx.seen[x]]) = x
  BY <1>1, <1>6, <1>10 DEF HasRoots
<1>16. QED
  BY <1>3, <1>6, <1>13, <1>14, <1>15 DEF HasRoots

\* The same index, for more matches that change nothing.
LEMMA SameRoots ==
  ASSUME NEW idx, NEW old, NEW new, HasRoots(idx, old),
         \A component, name : StatsRoot(new, component, name) = StatsRoot(old, component, name),
         \A component, name : RPCRoot(new, component, name) = RPCRoot(old, component, name)
  PROVE  HasRoots(idx, new)
BY DEF HasRoots, IsMatched

\* A match of the last pattern: the first root wins.
LEMMA AddMatchHasRoots ==
  ASSUME NEW idx, NEW matches, HasRoots(idx, matches), NEW j \in 1..15,
         AreUpTo(matches, j), NEW name \in FoundBy(Patterns[j])
  PROVE  HasRoots(AddMatch(idx, Patterns[j], name), WithMatch(matches, j, name))
<1>1. PICK p : p = Patterns[j]
  OBVIOUS
<1>2. PICK new : new = WithMatch(matches, j, name)
  OBVIOUS
<1>3. PICK key : key = <<p.component, name>>
  OBVIOUS
<1>4. /\ p \in Pattern /\ (p.file = "stats" <=> j <= 9)
      /\ p.root \in RootNames /\ p.component \in Components /\ p.file \in {"stats", "rpc_stats"}
      /\ name \in Names
  BY <1>1, PatternOrder DEF Pattern, FoundBy
<1>5. p.root # NoPath
  BY <1>4, DiscoveryAssumption
<1>6. \A component, n, file :
        FirstRoot(new, component, n, file) =
          IF /\ p.component = component /\ name = n /\ p.file = file
             /\ FirstRoot(matches, component, n, file) = NoPath
          THEN p.root ELSE FirstRoot(matches, component, n, file)
  BY <1>1, <1>2, FirstRootAfter
<1>7. IsMatched(matches, p.component, name) <=> key \in DOMAIN idx.seen
  BY <1>3 DEF HasRoots
<1>8. \A component, n : <<component, n>> = key <=> component = p.component /\ n = name
  BY <1>3
<1>9. IsIndex(idx) /\ IsIndex(AddMatch(idx, p, name))
  BY <1>1, <1>4, AddMatchKeeps DEF HasRoots
<1>10. CASE p.file = "stats"
  <2>1. \A component, n : RPCRoot(new, component, n) = RPCRoot(matches, component, n)
    BY <1>6, <1>10 DEF RPCRoot
  <2>2. AddMatch(idx, p, name) = AddStats(idx, p, name)
    BY <1>10 DEF AddMatch
  <2>3. RPCRoot(matches, p.component, name) = NoPath
    <3>1. PICK there : there = Matching(matches, p.component, name, "rpc_stats")
      OBVIOUS
    <3>2. ASSUME NEW i \in there
          PROVE  FALSE
      <4>1. PICK m : m = <<i, name>>
        OBVIOUS
      <4>2. i \in 1..15 /\ m \in matches /\ Patterns[i].file = "rpc_stats"
        BY <3>1, <4>1 DEF Matching
      <4>3. m[1] \in 1..j /\ m[1] = i
        BY <4>1, <4>2 DEF AreUpTo
      <4>4. ~(i <= 9) /\ j <= 9
        BY <1>4, <1>10, <4>2, PatternOrder
      <4>5. QED
        BY <4>2, <4>3, <4>4
    <3>3. QED
      BY <3>1, <3>2, FirstRootIs DEF RPCRoot
  <2>4. CASE key \in DOMAIN idx.seen
    <3>1. AddMatch(idx, p, name) = idx
      BY <1>3, <2>2, <2>4 DEF AddStats, Seen
    <3>2. StatsRoot(matches, p.component, name) # NoPath
      BY <1>7, <2>3, <2>4 DEF IsMatched
    <3>3. \A component, n : StatsRoot(new, component, n) = StatsRoot(matches, component, n)
      BY <1>6, <3>2 DEF StatsRoot
    <3>4. HasRoots(idx, new)
      BY <2>1, <3>3, SameRoots
    <3>5. QED
      BY <1>1, <1>2, <3>1, <3>4
  <2>5. CASE key \notin DOMAIN idx.seen
    <3>1. PICK t : t = [component |-> p.component, name |-> name, stats |-> p.root, rpc_stats |-> NoPath]
      OBVIOUS
    <3>2. /\ t \in ClientTarget /\ KeyOf(t) = key
          /\ t.component = p.component /\ t.name = name /\ t.stats = p.root /\ t.rpc_stats = NoPath
      BY <1>3, <1>4, <3>1 DEF ClientTarget, KeyOf
    <3>3. ~Seen(idx, KeyOf(t))
      BY <2>5, <3>2 DEF Seen
    <3>4. AddMatch(idx, p, name) = AddTarget(idx, KeyOf(t), t)
      BY <1>3, <2>2, <2>5, <3>1, <3>2 DEF AddStats, Seen
    <3>5. StatsRoot(matches, p.component, name) = NoPath
      BY <1>7, <2>5 DEF IsMatched
    <3>6. StatsRoot(new, p.component, name) = p.root
      BY <1>6, <1>10, <3>5 DEF StatsRoot
    <3>7. RPCRoot(new, p.component, name) = NoPath
      BY <2>1, <2>3
    <3>8. \A component, n : <<component, n>> # key =>
            StatsRoot(new, component, n) = StatsRoot(matches, component, n)
      BY <1>6, <1>8 DEF StatsRoot
    <3>9. IsMatched(new, p.component, name)
      BY <1>5, <3>6 DEF IsMatched
    <3>10. IsIndex(AddTarget(idx, KeyOf(t), t))
      BY <1>9, <3>4
    <3>11. HasRoots(AddTarget(idx, KeyOf(t), t), new)
      BY <2>1, <3>2, <3>3, <3>6, <3>7, <3>8, <3>9, <3>10, AddTargetHasRoots
    <3>12. QED
      BY <1>1, <1>2, <3>4, <3>11
  <2>6. QED
    BY <2>4, <2>5
<1>11. CASE p.file = "rpc_stats"
  <2>1. \A component, n : StatsRoot(new, component, n) = StatsRoot(matches, component, n)
    BY <1>6, <1>11 DEF StatsRoot
  <2>2. AddMatch(idx, p, name) = AddRPCStats(idx, p, name)
    BY <1>11 DEF AddMatch
  <2>3. CASE key \notin DOMAIN idx.seen
    <3>1. PICK t : t = [component |-> p.component, name |-> name, stats |-> NoPath, rpc_stats |-> p.root]
      OBVIOUS
    <3>2. /\ t \in ClientTarget /\ KeyOf(t) = key
          /\ t.component = p.component /\ t.name = name /\ t.stats = NoPath /\ t.rpc_stats = p.root
      BY <1>3, <1>4, <3>1 DEF ClientTarget, KeyOf
    <3>3. ~Seen(idx, KeyOf(t))
      BY <2>3, <3>2 DEF Seen
    <3>4. AddMatch(idx, p, name) = AddTarget(idx, KeyOf(t), t)
      BY <1>3, <2>2, <2>3, <3>1, <3>2 DEF AddRPCStats, Seen
    <3>5. /\ StatsRoot(matches, p.component, name) = NoPath
          /\ RPCRoot(matches, p.component, name) = NoPath
      BY <1>7, <2>3 DEF IsMatched
    <3>6. StatsRoot(new, p.component, name) = NoPath
      BY <2>1, <3>5
    <3>7. RPCRoot(new, p.component, name) = p.root
      BY <1>6, <1>11, <3>5 DEF RPCRoot
    <3>8. \A component, n : <<component, n>> # key =>
            RPCRoot(new, component, n) = RPCRoot(matches, component, n)
      BY <1>6, <1>8 DEF RPCRoot
    <3>9. IsMatched(new, p.component, name)
      BY <1>5, <3>7 DEF IsMatched
    <3>10. IsIndex(AddTarget(idx, KeyOf(t), t))
      BY <1>9, <3>4
    <3>11. HasRoots(AddTarget(idx, KeyOf(t), t), new)
      BY <2>1, <3>2, <3>3, <3>6, <3>7, <3>8, <3>9, <3>10, AddTargetHasRoots
    <3>12. QED
      BY <1>1, <1>2, <3>4, <3>11
  <2>4. CASE key \in DOMAIN idx.seen
    <3>1. PICK list, k : list = idx.targets /\ k = idx.seen[key]
      OBVIOUS
    <3>2. k \in DOMAIN list /\ KeyOf(list[k]) = key
      BY <2>4, <3>1 DEF HasRoots
    <3>3. list[k].component = p.component /\ list[k].name = name
      BY <1>8, <3>2 DEF KeyOf
    <3>4. list[k].rpc_stats = RPCRoot(matches, list[k].component, list[k].name)
      BY <3>1, <3>2 DEF HasRoots
    <3>5. list[k].rpc_stats = RPCRoot(matches, p.component, name)
      BY <3>3, <3>4
    <3>6. CASE list[k].rpc_stats # NoPath
      <4>1. AddMatch(idx, p, name) = idx
        BY <1>3, <2>2, <2>4, <3>1, <3>6 DEF AddRPCStats, Seen
      <4>2. \A component, n : RPCRoot(new, component, n) = RPCRoot(matches, component, n)
        BY <1>6, <3>5, <3>6 DEF RPCRoot
      <4>3. HasRoots(idx, new)
        BY <2>1, <4>2, SameRoots
      <4>4. QED
        BY <1>1, <1>2, <4>1, <4>3
    <3>7. CASE list[k].rpc_stats = NoPath
      <4>1. PICK root : root = p.root
        OBVIOUS
      <4>2. PICK after : after = [idx EXCEPT !.targets[idx.seen[key]].rpc_stats = root]
        OBVIOUS
      <4>3. AddMatch(idx, p, name) = after
        BY <1>3, <2>2, <2>4, <3>1, <3>7, <4>1, <4>2 DEF AddRPCStats, Seen
      <4>4. \A component, n :
              RPCRoot(new, component, n) =
                IF <<component, n>> = key THEN root ELSE RPCRoot(matches, component, n)
        BY <1>6, <1>8, <1>11, <3>5, <3>7, <4>1 DEF RPCRoot
      <4>5. IsIndex(after) /\ root # NoPath
        BY <1>5, <1>9, <4>1, <4>3
      <4>6. HasRoots(after, new)
        BY <2>1, <2>4, <4>2, <4>4, <4>5, SetRPCStatsHasRoots
      <4>7. QED
        BY <1>1, <1>2, <4>3, <4>6
    <3>8. QED
      BY <3>6, <3>7
  <2>5. QED
    BY <2>3, <2>4
<1>12. QED
  BY <1>4, <1>10, <1>11

\* AddMatches takes the matches one after the other.
AddsEach(f, idx, p, names, n) ==
  /\ f[1..0] = idx
  /\ \A k \in 1..n : f[1..k] = AddMatch(f[1..(k - 1)], p, names[k])
  /\ AddMatches(idx, p, names) = f[1..n]

LEMMA AddMatchesIsLoop ==
  ASSUME NEW idx, NEW p, NEW n \in Nat, NEW names, DOMAIN names = 1..n
  PROVE  \E f : AddsEach(f, idx, p, names, n)
<1>1. PICK fold : fold = [by |-> "AddMatch", over |-> names, pattern |-> p]
  OBVIOUS
<1>2. \A x, i : StepOf(fold, x, i) = AddMatch(x, p, names[i])
  BY <1>1 DEF StepOf
<1>3. PICK f : f = (CHOOSE g : g = [s \in SUBSET (DOMAIN names) |->
                      IF s = {} THEN idx ELSE AddMatch(g[s \ {Max(s)}], p, names[Max(s)])])
  OBVIOUS
<1>4. AddMatches(idx, p, names) = f[DOMAIN names]
  BY <1>3 DEF AddMatches, FoldLeft, MapThenFoldSet
<1>5. IsFold(fold, idx, n, f)
  <2>1. PICK g : IsFold(fold, idx, n, g)
    BY FoldExists
  <2>2. g = [s \in SUBSET (DOMAIN names) |->
               IF s = {} THEN idx ELSE AddMatch(g[s \ {Max(s)}], p, names[Max(s)])]
    BY <1>2, <2>1 DEF IsFold
  <2>3. f = [s \in SUBSET (DOMAIN names) |->
               IF s = {} THEN idx ELSE AddMatch(f[s \ {Max(s)}], p, names[Max(s)])]
    BY <1>3, <2>2
  <2>4. QED
    BY <1>2, <2>3 DEF IsFold
<1>6. f[1..0] = idx /\ \A k \in 1..n : f[1..k] = AddMatch(f[1..(k - 1)], p, names[k])
  <2>1. IsLoop(fold, idx, n, f)
    BY <1>5, FoldSteps, Zenon
  <2>2. QED
    BY <1>2, <2>1 DEF IsLoop
<1>7. QED
  BY <1>4, <1>6 DEF AddsEach

\* The matches of a pattern, in an order, are its matches.
LEMMA MatchesInOrder ==
  ASSUME NEW p
  PROVE  /\ SetToSeq(FoundBy(p)) \in Seq(FoundBy(p))
         /\ ToSet(SetToSeq(FoundBy(p))) = FoundBy(p)
<1>1. IsFiniteSet(FoundBy(p))
  BY ScrapeAssumption, FS_Subset DEF FoundBy
<1>2. PICK S : S = FoundBy(p)
  OBVIOUS
<1>3. Cardinality(S) \in Nat /\ \E f : f \in Bijection(1..Cardinality(S), S)
  BY <1>1, <1>2, FS_CardinalityType DEF ExistsBijection
<1>4. PICK f : f \in [1..Cardinality(S) -> S] /\ IsInjective(f)
  BY <1>3 DEF Bijection, Injection, IsInjective
<1>5. PICK s : s = SetToSeq(S)
  OBVIOUS
<1>6. s \in [1..Cardinality(S) -> S] /\ IsInjective(s)
  BY <1>4, <1>5 DEF SetToSeq
<1>7. s \in Injection(1..Cardinality(S), S)
  BY <1>6 DEF Injection, IsInjective
<1>8. PICK n \in Nat : n = Cardinality(S)
  BY <1>3
<1>9. IsFiniteSet(1..n) /\ Cardinality(1..n) = n
  <2>1. 1 \in Int /\ n \in Int
    OBVIOUS
  <2>2. /\ IsFiniteSet(1..n)
        /\ Cardinality(1..n) = IF 1 > n THEN 0 ELSE n - 1 + 1
    BY <2>1, FS_Interval
  <2>3. QED
    BY <2>2
<1>10. s \in Surjection(1..n, S)
  BY <1>1, <1>2, <1>7, <1>8, <1>9, FS_Injection
<1>11. \A x \in S : \E i \in 1..n : s[i] = x
  BY <1>10 DEF Surjection
<1>12. DOMAIN s = 1..n /\ \A i \in 1..n : s[i] \in S
  BY <1>6, <1>8
<1>13. ToSet(s) = S
  BY <1>11, <1>12 DEF ToSet
<1>14. s \in Seq(S)
  BY <1>6, <1>8
<1>15. QED
  BY <1>2, <1>5, <1>13, <1>14

\* Discovery takes the patterns one after the other.
LEMMA TargetsAreLoop ==
  \E f : /\ f[1..0] = NewIndex
         /\ \A k \in 1..15 :
              f[1..k] = AddMatches(f[1..(k - 1)], Patterns[k], SetToSeq(FoundBy(Patterns[k])))
         /\ Targets = f[1..15].targets
<1>1. PICK n \in Nat : n = 15
  OBVIOUS
<1>2. DOMAIN Patterns = 1..n
  BY <1>1, PatternOrder
<1>3. PICK matches : matches = [i \in DOMAIN Patterns |-> SetToSeq(FoundBy(Patterns[i]))]
  OBVIOUS
<1>4. PICK fold : fold = [by |-> "AddMatches", over |-> Patterns, matches |-> matches]
  OBVIOUS
<1>5. \A x : \A i \in 1..n : StepOf(fold, x, i) = AddMatches(x, Patterns[i], SetToSeq(FoundBy(Patterns[i])))
  BY <1>2, <1>3, <1>4 DEF StepOf
<1> DEFINE IsIter(g) == g = [s \in SUBSET (DOMAIN Patterns) |->
             IF s = {} THEN NewIndex
             ELSE AddMatches(g[s \ {Max(s)}], Patterns[Max(s)], SetToSeq(FoundBy(Patterns[Max(s)])))]
<1>6. PICK f : f = (CHOOSE g : IsIter(g))
  OBVIOUS
<1>7. Targets = f[DOMAIN Patterns].targets
  BY <1>6 DEF Targets, FoldLeft, MapThenFoldSet, FoundBy
<1>8. \A s \in SUBSET (1..n) : s # {} => Max(s) \in 1..n
  BY Greatest
<1>9. \A g : IsIter(g) <=> IsFold(fold, NewIndex, n, g)
  BY <1>2, <1>5, <1>8 DEF IsFold
<1>10. IsFold(fold, NewIndex, n, f)
  <2>1. PICK g : IsFold(fold, NewIndex, n, g)
    BY FoldExists
  <2>2. IsIter(g)
    BY <1>9, <2>1
  <2> HIDE DEF IsIter
  <2>3. IsIter(f)
    BY <1>6, <2>2
  <2>4. QED
    BY <1>9, <2>3
<1>11. /\ f[1..0] = NewIndex
       /\ \A k \in 1..n : f[1..k] = AddMatches(f[1..(k - 1)], Patterns[k], SetToSeq(FoundBy(Patterns[k])))
  <2>1. IsLoop(fold, NewIndex, n, f)
    BY <1>10, FoldSteps, Zenon
  <2>2. QED
    BY <1>5, <2>1 DEF IsLoop
<1>12. QED
  BY <1>1, <1>2, <1>7, <1>11

\* All matches of a pattern.
LEMMA AddMatchesHaveRoots ==
  ASSUME NEW idx, NEW old, HasRoots(idx, old), NEW j \in 1..15, AreUpTo(old, j),
         NEW names \in Seq(FoundBy(Patterns[j])),
         NEW new, new = old \cup {<<j, name>> : name \in ToSet(names)}
  PROVE  HasRoots(AddMatches(idx, Patterns[j], names), new)
<1>1. PICK n \in Nat : DOMAIN names = 1..n /\ \A i \in 1..n : names[i] \in FoundBy(Patterns[j])
  OBVIOUS
<1>2. PICK f : /\ f[1..0] = idx
               /\ \A k \in 1..n : f[1..k] = AddMatch(f[1..(k - 1)], Patterns[j], names[k])
               /\ AddMatches(idx, Patterns[j], names) = f[1..n]
  <2>1. DOMAIN names = 1..n
    BY <1>1
  <2>2. \E f : AddsEach(f, idx, Patterns[j], names, n)
    BY <2>1, AddMatchesIsLoop
  <2>3. QED
    BY <2>2 DEF AddsEach
<1> DEFINE M(k) == old \cup {<<j, names[i]>> : i \in 1..k}
<1> DEFINE L == {k \in Nat : k \in 0..n => HasRoots(f[1..k], M(k))}
<1>3. 0 \in L
  <2>1. M(0) = old
    OBVIOUS
  <2>2. QED
    BY <1>2, <2>1
<1>4. ASSUME NEW k \in Nat, k \in L
      PROVE  k + 1 \in L
  <2>1. SUFFICES ASSUME k + 1 \in 0..n
                 PROVE  HasRoots(f[1..(k + 1)], M(k + 1))
    OBVIOUS
  <2>2. k + 1 \in 1..n /\ (k + 1) - 1 = k /\ HasRoots(f[1..k], M(k))
    BY <1>4, <2>1
  <2>3. f[1..(k + 1)] = AddMatch(f[1..k], Patterns[j], names[k + 1])
    BY <1>2, <2>2
  <2>4. PICK m, name : m = M(k) /\ name = names[k + 1]
    OBVIOUS
  <2>5. M(k + 1) = WithMatch(m, j, name)
    <3>1. 1..(k + 1) = (1..k) \cup {k + 1}
      OBVIOUS
    <3>2. QED
      BY <2>4, <3>1 DEF WithMatch
  <2>6. AreUpTo(m, j)
    <3>1. ASSUME NEW i
          PROVE  <<j, names[i]>>[1] \in 1..j
      BY <3>1
    <3>2. QED
      BY <2>4, <3>1 DEF AreUpTo
  <2>7. name \in FoundBy(Patterns[j])
    BY <1>1, <2>2, <2>4
  <2> HIDE DEF M
  <2>8. HasRoots(AddMatch(f[1..k], Patterns[j], name), WithMatch(m, j, name))
    BY <2>2, <2>4, <2>6, <2>7, AddMatchHasRoots
  <2>9. QED
    BY <2>3, <2>4, <2>5, <2>8
<1>5. M(n) = new
  BY <1>1 DEF ToSet
<1> HIDE DEF L, M
<1>6. n \in L
  BY <1>3, <1>4, SetInduction
<1>7. HasRoots(f[1..n], M(n))
  BY <1>6 DEF L
<1>8. QED
  BY <1>2, <1>5, <1>7

\* What the first k patterns find on the host h.
IsAt(h, path) == path \in DOMAIN h /\ h[path].state # "absent"

FoundOn(h, k) ==
  {m \in (1..k) \X Names :
     IsAt(h, <<Patterns[m[1]].root, Patterns[m[1]].component, m[2], Patterns[m[1]].file>>)}

\* The targets have the first roots at which there are files.
LEMMA TargetsHaveRoots ==
  \E idx : HasRoots(idx, FoundOn(host, 15)) /\ Targets = idx.targets
<1>1. PICK f : /\ f[1..0] = NewIndex
               /\ \A k \in 1..15 :
                    f[1..k] = AddMatches(f[1..(k - 1)], Patterns[k], SetToSeq(FoundBy(Patterns[k])))
               /\ Targets = f[1..15].targets
  BY TargetsAreLoop
<1> DEFINE L == {k \in Nat : k \in 0..15 => HasRoots(f[1..k], FoundOn(host, k))}
<1>2. 0 \in L
  <2>1. PICK none : none = FoundOn(host, 0)
    OBVIOUS
  <2>2. none = {}
    BY <2>1 DEF FoundOn
  <2>3. \A component, name, file : FirstRoot(none, component, name, file) = NoPath
    BY <2>2 DEF FirstRoot, Matching
  <2>4. PICK idx : idx = NewIndex
    OBVIOUS
  <2>5. IsIndex(idx) /\ DOMAIN idx.targets = {} /\ DOMAIN idx.seen = {}
    BY <2>4 DEF NewIndex, IsIndex
  <2>6. HasRoots(idx, none)
    BY <2>3, <2>5 DEF HasRoots, IsMatched, StatsRoot, RPCRoot
  <2>7. QED
    BY <1>1, <2>1, <2>4, <2>6
<1>3. ASSUME NEW k \in Nat, k \in L
      PROVE  k + 1 \in L
  <2>1. SUFFICES ASSUME k + 1 \in 0..15
                 PROVE  HasRoots(f[1..(k + 1)], FoundOn(host, k + 1))
    OBVIOUS
  <2>2. k + 1 \in 1..15 /\ (k + 1) - 1 = k /\ HasRoots(f[1..k], FoundOn(host, k))
    BY <1>3, <2>1
  <2>3. PICK j : j = k + 1
    OBVIOUS
  <2>4. f[1..j] = AddMatches(f[1..k], Patterns[j], SetToSeq(FoundBy(Patterns[j])))
    BY <1>1, <2>2, <2>3
  <2>5. PICK names : names = SetToSeq(FoundBy(Patterns[j]))
    OBVIOUS
  <2>6. names \in Seq(FoundBy(Patterns[j])) /\ ToSet(names) = FoundBy(Patterns[j])
    BY <2>5, MatchesInOrder
  <2>7. PICK old, new : old = FoundOn(host, k) /\ new = FoundOn(host, j)
    OBVIOUS
  <2>8. FoundBy(Patterns[j]) =
          {n \in Names : IsAt(host, <<Patterns[j].root, Patterns[j].component, n, Patterns[j].file>>)}
    BY DEF FoundBy, IsAt, State
  <2>9. new = old \cup {<<j, name>> : name \in ToSet(names)}
    <3>1. 1..j = (1..k) \cup {j}
      BY <2>3
    <3>2. new = {m \in ((1..k) \cup {j}) \X Names :
                 IsAt(host, <<Patterns[m[1]].root, Patterns[m[1]].component, m[2], Patterns[m[1]].file>>)}
      BY <2>7, <3>1 DEF FoundOn
    <3>3. \A m \in ((1..k) \cup {j}) \X Names :
            m \in (1..k) \X Names \/ (m = <<j, m[2]>> /\ m[2] \in Names)
      OBVIOUS
    <3>4. old = {m \in (1..k) \X Names :
                 IsAt(host, <<Patterns[m[1]].root, Patterns[m[1]].component, m[2], Patterns[m[1]].file>>)}
      BY <2>7 DEF FoundOn
    <3>5. \A n \in Names :
            <<j, n>>[1] = j /\ <<j, n>>[2] = n /\ <<j, n>> \in ((1..k) \cup {j}) \X Names
      OBVIOUS
    <3>6. new \subseteq old \cup {<<j, name>> : name \in ToSet(names)}
      BY <2>6, <2>8, <3>2, <3>3, <3>4, <3>5
    <3>7. old \subseteq new
      BY <3>2, <3>4
    <3>8. \A name \in ToSet(names) : <<j, name>> \in new
      BY <2>6, <2>8, <3>2, <3>5
    <3>9. QED
      BY <3>6, <3>7, <3>8
  <2>10. AreUpTo(old, j)
    BY <2>2, <2>3, <2>7 DEF AreUpTo, FoundOn
  <2>11. HasRoots(AddMatches(f[1..k], Patterns[j], names), new)
    <3>1. j \in 1..15
      BY <2>2, <2>3
    <3>2. HasRoots(f[1..k], old)
      BY <2>2, <2>7
    <3>3. QED
      BY <2>6, <2>9, <2>10, <3>1, <3>2, AddMatchesHaveRoots
  <2>12. QED
    BY <2>3, <2>4, <2>5, <2>7, <2>11
<1> HIDE DEF L
<1>4. 15 \in L
  <2>1. 15 \in Nat
    OBVIOUS
  <2>2. QED
    BY <1>2, <1>3, <2>1, SetInduction
<1>5. HasRoots(f[1..15], FoundOn(host, 15))
  BY <1>4 DEF L
<1>6. QED
  BY <1>1, <1>5

-----------------------------------------------------------------------------
(* The roots of a target on a host, and whether discovery finds it there.  *)

StatsRootOn(h, component, name) == StatsRoot(FoundOn(h, 15), component, name)
RPCRootOn(h, component, name) == RPCRoot(FoundOn(h, 15), component, name)
IsDiscovered(h, component, name) == IsMatched(FoundOn(h, 15), component, name)

\* Two hosts that agree on a file of a target find it under the same root.
LEMMA RootTheSame ==
  ASSUME NEW h, NEW g, DOMAIN h = DOMAIN g, NEW component, NEW name, NEW file,
         \A root \in RootNames : <<root, component, name, file>> \in DOMAIN h =>
           h[<<root, component, name, file>>] = g[<<root, component, name, file>>]
  PROVE  FirstRoot(FoundOn(h, 15), component, name, file) =
           FirstRoot(FoundOn(g, 15), component, name, file)
<1>1. \A root \in RootNames :
        IsAt(h, <<root, component, name, file>>) <=> IsAt(g, <<root, component, name, file>>)
  BY DEF IsAt
<1>2. \A j \in 1..15 : Patterns[j].root \in RootNames
  BY PatternOrder DEF Pattern
<1>3. ASSUME NEW j \in 1..15, Patterns[j].component = component, Patterns[j].file = file
      PROVE  <<j, name>> \in FoundOn(h, 15) <=> <<j, name>> \in FoundOn(g, 15)
  <2>1. PICK m : m = <<j, name>>
    OBVIOUS
  <2>2. m[1] = j /\ m[2] = name
    BY <2>1
  <2>3. IsAt(h, <<Patterns[j].root, component, name, file>>) <=>
          IsAt(g, <<Patterns[j].root, component, name, file>>)
    BY <1>1, <1>2
  <2>4. m \in FoundOn(h, 15) <=>
          m \in (1..15) \X Names /\ IsAt(h, <<Patterns[j].root, component, name, file>>)
    BY <1>3, <2>2 DEF FoundOn
  <2>5. m \in FoundOn(g, 15) <=>
          m \in (1..15) \X Names /\ IsAt(g, <<Patterns[j].root, component, name, file>>)
    BY <1>3, <2>2 DEF FoundOn
  <2>6. QED
    BY <2>1, <2>3, <2>4, <2>5
<1>4. Matching(FoundOn(h, 15), component, name, file) = Matching(FoundOn(g, 15), component, name, file)
  BY <1>3 DEF Matching
<1>5. QED
  BY <1>4 DEF FirstRoot

\* The targets of the client collector have these roots.
LEMMA TargetsAreDiscovered ==
  /\ \A i \in DOMAIN Targets :
       LET t == Targets[i]
       IN /\ t.component \in Components /\ t.name \in Names
          /\ t.stats = StatsRootOn(host, t.component, t.name)
          /\ t.rpc_stats = RPCRootOn(host, t.component, t.name)
          /\ IsDiscovered(host, t.component, t.name)
  /\ \A component, name : IsDiscovered(host, component, name) =>
       \E i \in DOMAIN Targets : Targets[i].component = component /\ Targets[i].name = name
<1>1. PICK idx : HasRoots(idx, FoundOn(host, 15)) /\ Targets = idx.targets
  BY TargetsHaveRoots
<1>2. ASSUME NEW i \in DOMAIN Targets
      PROVE  LET t == Targets[i]
             IN /\ t.component \in Components /\ t.name \in Names
                /\ t.stats = StatsRootOn(host, t.component, t.name)
                /\ t.rpc_stats = RPCRootOn(host, t.component, t.name)
                /\ IsDiscovered(host, t.component, t.name)
  <2>1. Targets[i] \in Existing
    BY TargetsExist
  <2>2. Targets[i].component \in Components /\ Targets[i].name \in Names
    BY <2>1 DEF Existing, ClientTarget
  <2>3. KeyOf(idx.targets[i]) \in DOMAIN idx.seen
    BY <1>1 DEF HasRoots, IsIndex
  <2>4. IsMatched(FoundOn(host, 15), Targets[i].component, Targets[i].name)
    BY <1>1, <2>3 DEF HasRoots, KeyOf
  <2>5. QED
    BY <1>1, <2>2, <2>4 DEF HasRoots, StatsRootOn, RPCRootOn, IsDiscovered
<1>3. ASSUME NEW component, NEW name, IsDiscovered(host, component, name)
      PROVE  \E i \in DOMAIN Targets : Targets[i].component = component /\ Targets[i].name = name
  <2>1. PICK key : key = <<component, name>>
    OBVIOUS
  <2>2. key \in DOMAIN idx.seen
    BY <1>1, <1>3, <2>1 DEF HasRoots, IsDiscovered
  <2>3. PICK i \in DOMAIN Targets : KeyOf(Targets[i]) = key
    BY <1>1, <2>2 DEF HasRoots
  <2>4. Targets[i].component = component /\ Targets[i].name = name
    BY <2>1, <2>3 DEF KeyOf
  <2>5. QED
    BY <2>4
<1>4. QED
  BY <1>2, <1>3

\* No mount has rpc_stats.
LEMMA MountsHaveNoRPC ==
  ASSUME NEW h, NEW name
  PROVE  RPCRootOn(h, "llite", name) = NoPath
<1>1. \A j \in 1..15 : Patterns[j].component = "llite" => Patterns[j].file = "stats"
  BY PatternOrder
<1>2. "rpc_stats" # "stats"
  OBVIOUS
<1>3. Matching(FoundOn(h, 15), "llite", name, "rpc_stats") = {}
  BY <1>1, <1>2 DEF Matching
<1>4. QED
  BY <1>3 DEF FirstRoot, RPCRootOn, RPCRoot

-----------------------------------------------------------------------------
(* What is read of a source that was found, f, when it is parsed to this.  *)

Gave(f, parsed, o) == f.some /\ o.source = f.path /\ o \in ToSet(parsed.obs)

IsReadFrom(r, f, parsed) ==
  IsResult(r) /\ \A o : o \in ToSet(r.obs) <=> Gave(f, parsed, o)

\* Nothing without a source; with one, what it is parsed to.
LEMMA ReadIs ==
  ASSUME NEW f, NEW r, NEW parsed, NEW ids, NEW subject,
         ~f.some => IsResult(r) /\ r.obs = <<>>,
         f.some => r = parsed /\ Shows(parsed, ids, f.path, subject)
  PROVE  IsReadFrom(r, f, parsed)
<1>1. CASE f.some
  BY <1>1 DEF IsReadFrom, Gave, Shows, AreOf, IsOf
<1>2. CASE ~f.some
  BY <1>2, ShortLists DEF IsReadFrom, Gave
<1>3. QED
  BY <1>1, <1>2, Zenon

\* The source that gave an observation is the same on a host that has the same
\* for it.
LEMMA SourceStays ==
  ASSUME NEW h, NEW g, NEW paths, AreOneSource(paths), NEW f, f = Found(g, paths), f.some,
         SameFor(h, g, f.path)
  PROVE  Found(h, paths) = f
<1>1. PICK i \in DOMAIN paths : f.path = paths[i] /\ paths[i] \in DOMAIN g
  BY FoundPath DEF AreOneSource
<1>2. QED
  BY <1>1, SourceIsTheSame

\* What these sources give on the host h.
HealthGave(h, o) ==
  LET f == Found(h, <<HealthPath>>) IN Gave(f, ParseHealth(f.lines, f.path), o)

SptlrpcGave(h, o) ==
  LET f == Found(h, SptlrpcPaths) IN Gave(f, ParseEncryptPagePools(f.lines, f.path), o)

LpccGave(h, o) ==
  LET f == Found(h, LpccStatus) IN Gave(f, ParseLpccStatus(f.lines, f.path), o)

LDLMGave(h, o) ==
  LET f == Found(h, LDLMCBDStatsPaths) IN Gave(f, ParseLDLMCBDStats(f.lines, f.path), o)

LNetParamGave(h, param, o) ==
  LET f == Found(h, LNetParamPaths(param)) IN Gave(f, ParseLNetParam(f.lines, f.path, param), o)

\* Their paths.
LEMMA PathsAreNumbered ==
  /\ DOMAIN <<HealthPath>> \subseteq Nat /\ DOMAIN SptlrpcPaths \subseteq Nat
  /\ DOMAIN LpccStatus \subseteq Nat /\ DOMAIN LDLMCBDStatsPaths \subseteq Nat
<1>1. DOMAIN <<HealthPath>> = 1..1
  OBVIOUS
<1>2. DOMAIN SptlrpcPaths \subseteq Nat /\ DOMAIN LDLMCBDStatsPaths \subseteq Nat
  BY DEF SptlrpcPaths, LDLMCBDStatsPaths, Under
<1>3. DOMAIN LpccStatus = 1..1
  BY DEF LpccStatus
<1>4. QED
  BY <1>1, <1>2, <1>3

\* The collectors of one source.
LEMMA SmallGive ==
  ASSUME HostInv
  PROVE  /\ \A o : o \in ToSet(HealthObservations.obs) <=> HealthGave(host, o)
         /\ \A o : o \in ToSet(SptlrpcObservations.obs) <=> SptlrpcGave(host, o)
         /\ \A o : o \in ToSet(LpccObservations.obs) <=> LpccGave(host, o)
<1>1. IsResult(Failed) /\ Failed.obs = <<>> /\ IsResult(Parsed(<<>>)) /\ Parsed(<<>>).obs = <<>>
  BY Results, ShortLists DEF Failed
<1>2. \A o : o \in ToSet(HealthObservations.obs) <=> HealthGave(host, o)
  <2>1. PICK paths : paths = <<HealthPath>>
    OBVIOUS
  <2>2. PICK f : f = Found(host, paths)
    OBVIOUS
  <2>3. PICK parsed : parsed = ParseHealth(f.lines, f.path)
    OBVIOUS
  <2>4. ~f.some => HealthObservations = Failed
    BY <2>1, <2>2, FoundIs DEF HealthObservations, ParseFirst
  <2>5. f.some => HealthObservations = parsed
    BY <2>1, <2>2, <2>3, FoundIs DEF HealthObservations, ParseFirst
  <2>6. PICK ids : ids = {"health_check"}
    OBVIOUS
  <2>7. Shows(parsed, ids, f.path, "lustre")
    BY <2>3, <2>6, HealthShows
  <2>8. IsReadFrom(HealthObservations, f, parsed)
    BY <1>1, <2>4, <2>5, <2>7, ReadIs
  <2>9. QED
    BY <2>1, <2>2, <2>3, <2>8 DEF IsReadFrom, HealthGave
<1>3. \A o : o \in ToSet(SptlrpcObservations.obs) <=> SptlrpcGave(host, o)
  <2>1. PICK paths : paths = SptlrpcPaths
    OBVIOUS
  <2>2. PICK f : f = Found(host, paths)
    OBVIOUS
  <2>3. PICK parsed : parsed = ParseEncryptPagePools(f.lines, f.path)
    OBVIOUS
  <2>4. ~f.some => SptlrpcObservations = Failed
    BY <2>1, <2>2, FoundIs DEF SptlrpcObservations, ParseFirst
  <2>5. f.some => SptlrpcObservations = parsed
    BY <2>1, <2>2, <2>3, FoundIs DEF SptlrpcObservations, ParseFirst
  <2>6. f.some => Shows(parsed, SptlrpcIDs, f.path, "")
    BY <2>1, <2>2, <2>3, FoundIs, FirstLines, PathsAreNumbered, SptlrpcShows
  <2>7. IsReadFrom(SptlrpcObservations, f, parsed)
    BY <1>1, <2>4, <2>5, <2>6, ReadIs
  <2>8. QED
    BY <2>1, <2>2, <2>3, <2>7 DEF IsReadFrom, SptlrpcGave
<1>4. \A o : o \in ToSet(LpccObservations.obs) <=> LpccGave(host, o)
  <2>1. PICK paths : paths = LpccStatus
    OBVIOUS
  <2>2. PICK f : f = Found(host, paths)
    OBVIOUS
  <2>3. PICK parsed : parsed = ParseLpccStatus(f.lines, f.path)
    OBVIOUS
  <2>4. ~f.some => LpccObservations = Parsed(<<>>)
    BY <2>1, <2>2, FoundIs DEF LpccObservations, ParseFirst
  <2>5. f.some => LpccObservations = parsed
    BY <2>1, <2>2, <2>3, FoundIs DEF LpccObservations, ParseFirst
  <2>6. ASSUME f.some
        PROVE  Shows(parsed, LpccIDs, f.path, "")
    <3>1. /\ f.path = FirstAvailable(paths) /\ f.lines = Lines(f.path) /\ Available(paths) # {}
      BY <2>2, <2>6, FoundIs
    <3>2. f.path \in ToSet(LpccStatus) /\ IsList(f.lines) /\ HasLines(f.path, host[f.path])
      BY <2>1, <3>1, FirstLines, PathsAreNumbered
    <3>3. \A line \in ToSet(f.lines) : line.document =>
            IsList(line.mounts) /\ \A m \in ToSet(line.mounts) : IsList(m.caches)
      BY <3>1, <3>2 DEF HasLines, Lines
    <3>4. QED
      BY <2>3, <3>2, <3>3, LpccShows
  <2>7. IsReadFrom(LpccObservations, f, parsed)
    BY <1>1, <2>4, <2>5, <2>6, ReadIs
  <2>8. QED
    BY <2>1, <2>2, <2>3, <2>7 DEF IsReadFrom, LpccGave
<1>5. QED
  BY <1>2, <1>3, <1>4

\* On a host that has the same for it, they give it, too.
LEMMA SmallStay ==
  ASSUME NEW h, NEW g, NEW o, SameFor(h, g, o.source)
  PROVE  /\ HealthGave(g, o) => HealthGave(h, o)
         /\ SptlrpcGave(g, o) => SptlrpcGave(h, o)
         /\ LpccGave(g, o) => LpccGave(h, o)
         /\ LDLMGave(g, o) => LDLMGave(h, o)
<1>1. \A root, p : DOMAIN <<root, p>> \subseteq Nat
  OBVIOUS
<1>2. /\ AreOneSource(<<HealthPath>>) /\ AreOneSource(SptlrpcPaths)
      /\ AreOneSource(LpccStatus) /\ AreOneSource(LDLMCBDStatsPaths)
  BY <1>1, RootsAreOneSource DEF SptlrpcPaths, LpccStatus, LDLMCBDStatsPaths
<1>3. ASSUME NEW paths, AreOneSource(paths), NEW parsed, Gave(Found(g, paths), parsed, o)
      PROVE  Found(h, paths) = Found(g, paths)
  BY <1>3, SourceStays DEF Gave
<1>4. HealthGave(g, o) => HealthGave(h, o)
  BY <1>2, <1>3 DEF HealthGave
<1>5. SptlrpcGave(g, o) => SptlrpcGave(h, o)
  BY <1>2, <1>3 DEF SptlrpcGave
<1>6. LpccGave(g, o) => LpccGave(h, o)
  BY <1>2, <1>3 DEF LpccGave
<1>7. LDLMGave(g, o) => LDLMGave(h, o)
  BY <1>2, <1>3 DEF LDLMGave
<1>8. QED
  BY <1>4, <1>5, <1>6, <1>7

\* All, of two.
LEMMA PairIs ==
  ASSUME NEW a, NEW b, IsResult(a), IsResult(b)
  PROVE  /\ IsResult(All(<<a, b>>))
         /\ All(<<a, b>>).err <=> a.err \/ b.err
         /\ ~All(<<a, b>>).err => ToSet(All(<<a, b>>).obs) = ToSet(a.obs) \cup ToSet(b.obs)
<1>1. PICK parts : parts = <<a, b>>
  OBVIOUS
<1>2. DOMAIN parts = 1..2 /\ parts[1] = a /\ parts[2] = b
  BY <1>1
<1>3. \A i \in 1..2 : IsResult(parts[i])
  BY <1>2
<1>4. /\ IsResult(All(parts))
      /\ All(parts).err <=> \E i \in 1..2 : parts[i].err
      /\ ~All(parts).err => ToSet(All(parts).obs) = UNION {ToSet(parts[i].obs) : i \in 1..2}
  BY <1>2, <1>3, AllIs
<1>5. UNION {ToSet(parts[i].obs) : i \in 1..2} = ToSet(a.obs) \cup ToSet(b.obs)
  BY <1>2
<1>6. QED
  BY <1>1, <1>2, <1>4, <1>5

\* The same of three.
LEMMA TripleIs ==
  ASSUME NEW a, NEW b, NEW c, IsResult(a), IsResult(b), IsResult(c)
  PROVE  /\ IsResult(All(<<a, b, c>>))
         /\ All(<<a, b, c>>).err <=> a.err \/ b.err \/ c.err
         /\ ~All(<<a, b, c>>).err =>
              ToSet(All(<<a, b, c>>).obs) = ToSet(a.obs) \cup ToSet(b.obs) \cup ToSet(c.obs)
<1>1. PICK parts : parts = <<a, b, c>>
  OBVIOUS
<1>2. DOMAIN parts = 1..3 /\ parts[1] = a /\ parts[2] = b /\ parts[3] = c
  BY <1>1
<1>3. \A i \in 1..3 : IsResult(parts[i])
  BY <1>2
<1>4. /\ IsResult(All(parts))
      /\ All(parts).err <=> \E i \in 1..3 : parts[i].err
      /\ ~All(parts).err => ToSet(All(parts).obs) = UNION {ToSet(parts[i].obs) : i \in 1..3}
  BY <1>2, <1>3, AllIs
<1>5. UNION {ToSet(parts[i].obs) : i \in 1..3} = ToSet(a.obs) \cup ToSet(b.obs) \cup ToSet(c.obs)
  BY <1>2
<1>6. QED
  BY <1>1, <1>2, <1>4, <1>5

\* A source that is left out if it is bad.
LEMMA OptionalRead ==
  ASSUME NEW r, NEW f, NEW parsed, IsReadFrom(r, f, parsed)
  PROVE  IsReadFrom(Optional(r), f, parsed) /\ ~Optional(r).err
<1>1. CASE r.err
  BY <1>1, ShortLists, Results DEF Optional, IsReadFrom, IsResult
<1>2. CASE ~r.err
  BY <1>2 DEF Optional
<1>3. QED
  BY <1>1, <1>2

\* The lock callbacks.
LEMMA LDLMGives ==
  ASSUME HostInv, NEW r, r = ParseFirst(LDLMCBDStatsPaths, Parsed(<<>>), ParseLDLMCBDStats)
  PROVE  IsResult(r) /\ \A o : o \in ToSet(r.obs) <=> LDLMGave(host, o)
<1>1. IsResult(Parsed(<<>>)) /\ Parsed(<<>>).obs = <<>>
  BY Results, ShortLists
<1>2. PICK paths : paths = LDLMCBDStatsPaths
  OBVIOUS
<1>3. PICK f : f = Found(host, paths)
  OBVIOUS
<1>4. PICK parsed : parsed = ParseLDLMCBDStats(f.lines, f.path)
  OBVIOUS
<1>5. ~f.some => r = Parsed(<<>>)
  BY <1>2, <1>3, FoundIs DEF ParseFirst
<1>6. f.some => r = parsed
  BY <1>2, <1>3, <1>4, FoundIs DEF ParseFirst
<1>7. PICK ids : ids = {"ldlm_cbd_stats"}
  OBVIOUS
<1>8. f.some => Shows(parsed, ids, f.path, "")
  BY <1>2, <1>3, <1>4, <1>7, FoundIs, FirstLines, PathsAreNumbered, LDLMShows
<1>9. IsReadFrom(r, f, parsed)
  BY <1>1, <1>5, <1>6, <1>8, ReadIs
<1>10. QED
  BY <1>2, <1>3, <1>4, <1>9 DEF IsReadFrom, LDLMGave

\* The parameters of lnet: no file of them is a failure.
LEMMA LNetParamsAreGiven ==
  /\ IsResult(CollectParams) /\ ~CollectParams.err
  /\ \A o : o \in ToSet(CollectParams.obs) <=>
       \E param \in ToSet(LNetParamNames) : LNetParamGave(host, param, o)
<1>1. ASSUME NEW param \in ToSet(LNetParamNames)
      PROVE  /\ IsResult(CollectParam(param)) /\ ~CollectParam(param).err
             /\ \A o : o \in ToSet(CollectParam(param).obs) <=> LNetParamGave(host, param, o)
  <2>1. PICK paths : paths = LNetParamPaths(param)
    OBVIOUS
  <2>2. PICK f : f = Found(host, paths)
    OBVIOUS
  <2>3. PICK parsed : parsed = ParseLNetParam(f.lines, f.path, param)
    OBVIOUS
  <2>4. PICK r : r = IF Available(paths) = {} THEN Failed
                     ELSE ParseLNetParam(Lines(FirstAvailable(paths)), FirstAvailable(paths), param)
    OBVIOUS
  <2>5. CollectParam(param) = Optional(r)
    BY <2>1, <2>4 DEF CollectParam, ParseFirst
  <2>6. param \in DOMAIN lnetParamMap
    BY FilesAreFound DEF ToSet
  <2>7. PICK ids : ids = {lnetParamMap[param]}
    OBVIOUS
  <2>8. Shows(parsed, ids, f.path, "lnet")
    BY <2>3, <2>6, <2>7, LNetParamShows
  <2>9. f.some => r = parsed
    BY <2>2, <2>3, <2>4, FoundIs
  <2>10. ~f.some => IsResult(r) /\ r.obs = <<>>
    BY <2>2, <2>4, FoundIs, Results DEF Failed
  <2>11. IsReadFrom(r, f, parsed)
    BY <2>8, <2>9, <2>10, ReadIs
  <2>12. IsReadFrom(CollectParam(param), f, parsed) /\ ~CollectParam(param).err
    BY <2>5, <2>11, OptionalRead
  <2>13. QED
    BY <2>1, <2>2, <2>3, <2>12 DEF IsReadFrom, LNetParamGave
<1>2. PICK names : names = LNetParamNames
  OBVIOUS
<1>3. DOMAIN names = 1..11
  BY <1>2 DEF LNetParamNames
<1>4. PICK parts : parts = [i \in DOMAIN names |-> CollectParam(names[i])]
  OBVIOUS
<1>5. ToSet(names) = {names[i] : i \in 1..11}
  BY <1>3 DEF ToSet
<1>6. \A i \in 1..11 : /\ parts[i] = CollectParam(names[i]) /\ names[i] \in ToSet(LNetParamNames)
                       /\ IsResult(parts[i]) /\ ~parts[i].err
  BY <1>1, <1>2, <1>3, <1>4, <1>5
<1>7. DOMAIN parts = 1..11 /\ CollectParams = All(parts)
  BY <1>2, <1>3, <1>4 DEF CollectParams
<1>8. /\ IsResult(CollectParams) /\ ~CollectParams.err
      /\ ToSet(CollectParams.obs) = UNION {ToSet(parts[i].obs) : i \in 1..11}
  BY <1>6, <1>7, AllIs
<1>9. ASSUME NEW o
      PROVE  o \in ToSet(CollectParams.obs) <=>
               \E param \in ToSet(LNetParamNames) : LNetParamGave(host, param, o)
  <2>1. o \in ToSet(CollectParams.obs) <=> \E i \in 1..11 : o \in ToSet(CollectParam(names[i]).obs)
    BY <1>6, <1>8
  <2>2. \A i \in 1..11 : o \in ToSet(CollectParam(names[i]).obs) <=> LNetParamGave(host, names[i], o)
    BY <1>1, <1>6
  <2>3. (\E i \in 1..11 : LNetParamGave(host, names[i], o)) <=>
          \E param \in ToSet(LNetParamNames) : LNetParamGave(host, param, o)
    BY <1>2, <1>5
  <2>4. QED
    BY <2>1, <2>2, <2>3
<1>10. QED
  BY <1>8, <1>9

\* The places of a parameter are one source.
LEMMA LNetParamStays ==
  ASSUME NEW h, NEW g, NEW o, SameFor(h, g, o.source), NEW param, LNetParamGave(g, param, o)
  PROVE  LNetParamGave(h, param, o)
<1>1. PICK roots : roots = <<"debug", "proc">>
  OBVIOUS
<1>2. DOMAIN roots \subseteq Nat
  BY <1>1
<1>3. AreOneSource(LNetParamPaths(param))
  <2>1. PICK s : s = Under(roots, <<"lnet", param>>)
    OBVIOUS
  <2>2. PICK s2 : s2 = Under(roots, <<"lnet", "fail_max">>)
    OBVIOUS
  <2>3. PICK V : V = ToSet(s) \cup ToSet(s2)
    OBVIOUS
  <2>4. s \in Seq(V) /\ s2 \in Seq(V)
    BY <1>1, <2>1, <2>2, <2>3 DEF Under, ToSet
  <2>5. CASE param = "fail_val"
    <3>1. LNetParamPaths(param) = s \o s2
      BY <1>1, <2>1, <2>2, <2>5 DEF LNetParamPaths
    <3>2. s \o s2 \in Seq(V)
      BY <2>4
    <3>3. PICK p : p = LNetParamPaths("fail_val")
      OBVIOUS
    <3>4. p \in Seq(V)
      BY <2>5, <3>1, <3>2, <3>3
    <3>5. DOMAIN p \subseteq Nat
      BY <3>4
    <3>6. \A i, j \in DOMAIN p : {p[i], p[j]} \subseteq ToSet(p)
      BY DEF ToSet
    <3>7. QED
      BY <2>5, <3>3, <3>5, <3>6 DEF AreOneSource, Decides
  <2>6. CASE param # "fail_val"
    <3>1. LNetParamPaths(param) = s \o <<>>
      BY <1>1, <2>1, <2>6 DEF LNetParamPaths
    <3>2. s \o <<>> = s
      BY <2>4
    <3>3. QED
      BY <1>2, <2>1, <3>1, <3>2, RootsAreOneSource
  <2>7. QED
    BY <2>5, <2>6
<1>4. PICK f : f = Found(g, LNetParamPaths(param))
  OBVIOUS
<1>5. f.some /\ o.source = f.path
  BY <1>4 DEF LNetParamGave, Gave
<1>6. Found(h, LNetParamPaths(param)) = f
  BY <1>3, <1>4, <1>5, SourceStays
<1>7. QED
  BY <1>4, <1>6 DEF LNetParamGave

\* What LNet's statistics are, given the file, the output of stats show and that
\* of net show, as far as there are such (lnet.go:44-104).
PrimaryOf(source, f, s, n) ==
  LET debugfs == IF f.some THEN ParseLNetStats(f.lines, f.path) ELSE Failed
      stats == IF s.some THEN ParseLNetCtlStats(s.lines, s.path) ELSE Failed
      counts == IF n.some THEN ParseLNetCtlNetStats(n.lines, n.path) ELSE Failed
      nis == Optional(IF n.some THEN ParseLNetCtlNetNI(n.lines, n.path) ELSE Failed)
      lnetctl ==
        IF stats.err \/ counts.err THEN stats
        ELSE All(<<IF counts.obs = <<>> THEN stats
                   ELSE Parsed(DropGlobalLNetCountStats(stats.obs) \o counts.obs), nis>>)
  IN IF source = "debugfs" THEN debugfs
     ELSE IF source = "lnetctl" \/ debugfs.err THEN lnetctl
     ELSE All(<<debugfs, nis>>)

StatsCommand == <<<<"cmd", "stats show">>>>

PrimaryOn(h, source) ==
  PrimaryOf(source, Found(h, LNetStatsPaths), Found(h, StatsCommand), Found(h, NetShow))

LNetPrimaryGave(h, source, o) ==
  o.source \in LNetPrimary /\ o \in ToSet(PrimaryOn(h, source).obs)

LNetGave(h, source, o) ==
  \/ LNetPrimaryGave(h, source, o)
  \/ \E param \in ToSet(LNetParamNames) : LNetParamGave(h, param, o)

\* The collector makes that of them, and adds the parameters.
LEMMA LNetIs ==
  LNetObservations = All(<<PrimaryOn(host, config.lnetSource), CollectParams>>)
<1>1. PICK f, s, n : /\ f = Found(host, LNetStatsPaths) /\ s = Found(host, StatsCommand)
                     /\ n = Found(host, NetShow)
  OBVIOUS
<1>2. PICK debugfs, stats, counts, ni :
        /\ debugfs = (IF f.some THEN ParseLNetStats(f.lines, f.path) ELSE Failed)
        /\ stats = (IF s.some THEN ParseLNetCtlStats(s.lines, s.path) ELSE Failed)
        /\ counts = (IF n.some THEN ParseLNetCtlNetStats(n.lines, n.path) ELSE Failed)
        /\ ni = (IF n.some THEN ParseLNetCtlNetNI(n.lines, n.path) ELSE Failed)
  OBVIOUS
<1>3. CollectFromDebugFS = debugfs
  BY <1>1, <1>2, FoundIs DEF CollectFromDebugFS, ParseFirst
<1>4. ParseFirst(StatsCommand, Failed, ParseLNetCtlStats) = stats
  BY <1>1, <1>2, FoundIs DEF ParseFirst
<1>5. ParseFirst(NetShow, Failed, ParseLNetCtlNetStats) = counts
  BY <1>1, <1>2, FoundIs DEF ParseFirst
<1>6. SupplementalNetNI = Optional(ni)
  BY <1>1, <1>2, FoundIs DEF ParseFirst, SupplementalNetNI
<1>7. PICK lnetctl :
        lnetctl = IF stats.err \/ counts.err THEN stats
                  ELSE All(<<IF counts.obs = <<>> THEN stats
                             ELSE Parsed(DropGlobalLNetCountStats(stats.obs) \o counts.obs),
                             Optional(ni)>>)
  OBVIOUS
<1>8. CollectFromLNetCtl = lnetctl
  BY <1>4, <1>5, <1>6, <1>7 DEF CollectFromLNetCtl, StatsCommand
<1>9. PICK primary :
        primary = IF config.lnetSource = "debugfs" THEN debugfs
                  ELSE IF config.lnetSource = "lnetctl" \/ debugfs.err THEN lnetctl
                  ELSE All(<<debugfs, Optional(ni)>>)
  OBVIOUS
<1>10. PrimaryOn(host, config.lnetSource) = primary
  BY <1>1, <1>2, <1>7, <1>9 DEF PrimaryOn, PrimaryOf
<1>11. LNetObservations = All(<<primary, CollectParams>>)
  BY <1>3, <1>6, <1>8, <1>9 DEF LNetObservations
<1>12. QED
  BY <1>10, <1>11

\* The paths of LNet's statistics.
LEMMA PrimaryPaths ==
  \A paths \in {LNetStatsPaths, StatsCommand, NetShow} :
    DOMAIN paths \subseteq Nat /\ \A i \in DOMAIN paths : paths[i] \in LNetPrimary
<1>1. PICK a : a = <<"cmd", "stats show">>
  OBVIOUS
<1>2. PICK s : s = <<a>>
  OBVIOUS
<1>3. DOMAIN s = 1..1 /\ s[1] = a
  BY <1>2
<1>4. StatsCommand = s /\ a \in LNetPrimary
  BY <1>1, <1>2 DEF StatsCommand, LNetPrimary
<1>5. DOMAIN LNetStatsPaths \subseteq Nat
  <2>1. PICK roots : roots = <<"debug", "proc">>
    OBVIOUS
  <2>2. DOMAIN LNetStatsPaths = DOMAIN roots
    BY <2>1 DEF LNetStatsPaths, Under
  <2>3. DOMAIN roots = 1..2
    BY <2>1
  <2>4. QED
    BY <2>2, <2>3
<1>6. DOMAIN NetShow = 1..2
  BY DEF NetShow
<1>7. \A i \in DOMAIN LNetStatsPaths : LNetStatsPaths[i] \in LNetPrimary
  BY DEF LNetPrimary, ToSet
<1>8. \A i \in DOMAIN NetShow : NetShow[i] \in LNetPrimary
  BY DEF LNetPrimary, ToSet
<1>9. QED
  BY <1>3, <1>4, <1>5, <1>6, <1>7, <1>8

\* All of it is from these paths.
LEMMA PrimaryIsFrom ==
  ASSUME HostInv
  PROVE  /\ IsResult(PrimaryOn(host, config.lnetSource))
         /\ From(PrimaryOn(host, config.lnetSource), LNetPrimary)
<1> DEFINE IsOK(r) == IsResult(r) /\ From(r, LNetPrimary)
<1>1. PICK f, s, n : /\ f = Found(host, LNetStatsPaths) /\ s = Found(host, StatsCommand)
                     /\ n = Found(host, NetShow)
  OBVIOUS
<1>2. IsOK(Failed)
  BY Results DEF From
<1>3. /\ f.some => f.path \in LNetPrimary
      /\ s.some => s.path \in LNetPrimary
      /\ n.some => n.path \in LNetPrimary
  BY <1>1, PrimaryPaths, FoundPath
<1>4. ASSUME NEW r, NEW ids, NEW path \in LNetPrimary, Shows(r, ids, path, "lnet")
      PROVE  IsOK(r)
  BY <1>4 DEF Shows, AreOf, IsOf, From
<1>5. PICK debugfs, stats, counts, ni :
        /\ debugfs = (IF f.some THEN ParseLNetStats(f.lines, f.path) ELSE Failed)
        /\ stats = (IF s.some THEN ParseLNetCtlStats(s.lines, s.path) ELSE Failed)
        /\ counts = (IF n.some THEN ParseLNetCtlNetStats(n.lines, n.path) ELSE Failed)
        /\ ni = (IF n.some THEN ParseLNetCtlNetNI(n.lines, n.path) ELSE Failed)
  OBVIOUS
<1>6. IsOK(debugfs) /\ IsOK(stats)
  <2>1. /\ Shows(ParseLNetStats(f.lines, f.path), LNetIDs, f.path, "lnet")
        /\ Shows(ParseLNetCtlStats(s.lines, s.path), LNetIDs, s.path, "lnet")
    BY LNetFilesShow
  <2>2. f.some => IsOK(ParseLNetStats(f.lines, f.path))
    BY <1>3, <1>4, <2>1
  <2>3. s.some => IsOK(ParseLNetCtlStats(s.lines, s.path))
    BY <1>3, <1>4, <2>1
  <2>4. QED
    BY <1>2, <1>5, <2>2, <2>3
<1>7. IsOK(counts) /\ IsOK(ni)
  <2>1. CASE ~n.some
    BY <1>2, <1>5, <2>1
  <2>2. CASE n.some
    <3>1. /\ n.path = FirstAvailable(NetShow) /\ n.lines = Lines(n.path) /\ Available(NetShow) # {}
      BY <1>1, <2>2, FoundIs
    <3>2. n.path \in ToSet(NetShow) /\ IsList(n.lines) /\ HasLines(n.path, host[n.path])
      BY <3>1, FirstLines, PrimaryPaths
    <3>3. \A line \in ToSet(n.lines) : line.document => IsList(line.nis)
      BY <3>1, <3>2 DEF HasLines, Lines
    <3>4. /\ Shows(ParseLNetCtlNetStats(n.lines, n.path), NIIDs, n.path, "lnet")
          /\ Shows(ParseLNetCtlNetNI(n.lines, n.path), NIIDs, n.path, "lnet")
      BY <3>2, <3>3, NetShowShows
    <3>5. counts = ParseLNetCtlNetStats(n.lines, n.path) /\ ni = ParseLNetCtlNetNI(n.lines, n.path)
      BY <1>5, <2>2
    <3>6. QED
      BY <1>3, <1>4, <2>2, <3>4, <3>5
  <2>3. QED
    BY <2>1, <2>2
<1>8. IsOK(Optional(ni))
  <2>1. IsOK(Parsed(<<>>))
    BY ShortLists, Results DEF From
  <2>2. QED
    BY <1>7, <2>1 DEF Optional
<1>9. ASSUME NEW a, NEW b, IsOK(a), IsOK(b)
      PROVE  IsOK(All(<<a, b>>))
  <2>1. PICK r : r = All(<<a, b>>)
    OBVIOUS
  <2>2. IsResult(r) /\ (~r.err => ToSet(r.obs) = ToSet(a.obs) \cup ToSet(b.obs))
    BY <1>9, <2>1, PairIs
  <2>3. r.err => ToSet(r.obs) = {}
    BY <2>2, ShortLists DEF IsResult
  <2>4. QED
    BY <1>9, <2>1, <2>2, <2>3 DEF From
<1>10. PICK both : both = IF counts.obs = <<>> THEN stats
                          ELSE Parsed(DropGlobalLNetCountStats(stats.obs) \o counts.obs)
  OBVIOUS
<1>11. IsOK(both)
  <2>1. IsList(stats.obs) /\ IsList(counts.obs)
    BY <1>6, <1>7 DEF IsResult
  <2>2. PICK kept : kept = DropGlobalLNetCountStats(stats.obs) \o counts.obs
    OBVIOUS
  <2>3. IsList(kept) /\ ToSet(kept) \subseteq ToSet(stats.obs) \cup ToSet(counts.obs)
    BY <2>1, <2>2, DroppedAre, ConcatLists
  <2>4. IsOK(Parsed(kept))
    BY <1>6, <1>7, <2>3, Results DEF From
  <2>5. QED
    BY <1>6, <1>10, <2>2, <2>4
<1>12. PICK lnetctl : lnetctl = IF stats.err \/ counts.err THEN stats
                                ELSE All(<<both, Optional(ni)>>)
  OBVIOUS
<1>13. IsOK(lnetctl) /\ IsOK(All(<<debugfs, Optional(ni)>>))
  BY <1>6, <1>8, <1>9, <1>11, <1>12
<1>14. PICK primary :
        primary = IF config.lnetSource = "debugfs" THEN debugfs
                  ELSE IF config.lnetSource = "lnetctl" \/ debugfs.err THEN lnetctl
                  ELSE All(<<debugfs, Optional(ni)>>)
  OBVIOUS
<1>15. PrimaryOn(host, config.lnetSource) = primary
  BY <1>1, <1>5, <1>10, <1>12, <1>14 DEF PrimaryOn, PrimaryOf
<1>16. IsOK(primary)
  BY <1>6, <1>13, <1>14
<1>17. QED
  BY <1>15, <1>16

\* What the collector of lnet gives.
LEMMA LNetGives ==
  ASSUME HostInv
  PROVE  ~LNetObservations.err =>
           \A o : o \in ToSet(LNetObservations.obs) <=> LNetGave(host, config.lnetSource, o)
<1>1. PICK r : r = PrimaryOn(host, config.lnetSource)
  OBVIOUS
<1>2. IsResult(r) /\ From(r, LNetPrimary)
  BY <1>1, PrimaryIsFrom
<1>3. IsResult(CollectParams)
  BY LNetParamsAreGiven
<1>4. LNetObservations = All(<<r, CollectParams>>)
  BY <1>1, LNetIs
<1>5. ~LNetObservations.err =>
        ToSet(LNetObservations.obs) = ToSet(r.obs) \cup ToSet(CollectParams.obs)
  BY <1>2, <1>3, <1>4, PairIs
<1>6. \A o : o \in ToSet(r.obs) <=> LNetPrimaryGave(host, config.lnetSource, o)
  BY <1>1, <1>2 DEF LNetPrimaryGave, From
<1>7. QED
  BY <1>5, <1>6, LNetParamsAreGiven DEF LNetGave

\* It gives the same on a host that has the same for it.
LEMMA LNetStays ==
  ASSUME NEW h, NEW g, NEW o, SameFor(h, g, o.source), NEW source, LNetGave(g, source, o)
  PROVE  LNetGave(h, source, o)
<1>1. CASE LNetPrimaryGave(g, source, o)
  <2>1. o.source \in LNetPrimary
    BY <1>1 DEF LNetPrimaryGave
  <2>2. \A p \in DOMAIN h : p \in LNetPrimary => h[p] = g[p]
    BY <2>1 DEF SameFor, Decides
  <2>3. ASSUME NEW paths \in {LNetStatsPaths, StatsCommand, NetShow}
        PROVE  Found(h, paths) = Found(g, paths)
    BY <2>2, PrimaryPaths, FoundTheSame DEF SameFor
  <2>4. PrimaryOn(h, source) = PrimaryOn(g, source)
    BY <2>3 DEF PrimaryOn
  <2>5. QED
    BY <1>1, <2>4 DEF LNetPrimaryGave, LNetGave
<1>2. CASE \E param \in ToSet(LNetParamNames) : LNetParamGave(g, param, o)
  BY <1>2, LNetParamStays DEF LNetGave
<1>3. QED
  BY <1>1, <1>2 DEF LNetGave

\* What is found on the host h of a target's stats, rpc_stats and parameter
\* files, and what they give.
StatsFile(h, c, n) == Found(h, <<<<StatsRootOn(h, c, n), c, n, "stats">>>>)
RPCFile(h, c, n) == Found(h, <<<<RPCRootOn(h, c, n), c, n, "rpc_stats">>>>)
ParamPaths(c, n, file) == Under(ParamRoots, <<c, n, file>>)
ParamFile(h, c, n, file) == Found(h, ParamPaths(c, n, file))

ParseStats(c, n, lines, path) ==
  IF c = "llite" THEN ParseLLiteStats(lines, path, n) ELSE ParseOBDStats(lines, path, n, c)

StatsGave(h, c, n, o) ==
  LET f == StatsFile(h, c, n)
  IN StatsRootOn(h, c, n) # NoPath /\ Gave(f, ParseStats(c, n, f.lines, f.path), o)

StatsAreRead(h, c, n) ==
  LET f == StatsFile(h, c, n) IN f.some /\ ~ParseStats(c, n, f.lines, f.path).err

RPCGave(h, c, n, o) ==
  LET f == RPCFile(h, c, n)
  IN RPCRootOn(h, c, n) # NoPath /\ Gave(f, ParseRPCStats(f.lines, f.path, n, c), o)

ParamGave(h, c, n, file, o) ==
  LET f == ParamFile(h, c, n, file)
  IN Gave(f, ParseParam([component |-> c, name |-> n], file, f.lines, f.path), o)

ParamsGave(h, c, n, o) == \E file \in ToSet(ParamFiles(c)) : ParamGave(h, c, n, file, o)

TargetGave(h, c, n, o) ==
  \/ StatsGave(h, c, n, o)
  \/ RPCGave(h, c, n, o)
  \/ (c = "llite" => StatsAreRead(h, c, n)) /\ ParamsGave(h, c, n, o)

ClientGave(h, o) ==
  \/ LDLMGave(h, o)
  \/ \E c \in Components, n \in Names : IsDiscovered(h, c, n) /\ TargetGave(h, c, n, o)

\* A target as it was discovered on the host.
IsOfHost(t) ==
  /\ t.stats = StatsRootOn(host, t.component, t.name)
  /\ t.rpc_stats = RPCRootOn(host, t.component, t.name)

\* A parameter file.
LEMMA ReadParamIs ==
  ASSUME NEW t, NEW file
  PROVE  /\ IsResult(ReadParam(t, file))
         /\ \A o : o \in ToSet(ReadParam(t, file).obs) <=>
                     ParamGave(host, t.component, t.name, file, o)
<1>1. PICK paths : paths = ParamPaths(t.component, t.name, file)
  OBVIOUS
<1>2. PICK f : f = Found(host, paths)
  OBVIOUS
<1>3. PICK parsed : parsed = ParseParam(t, file, f.lines, f.path)
  OBVIOUS
<1>4. PICK u : u = [component |-> t.component, name |-> t.name]
  OBVIOUS
<1>5. u.component = t.component /\ u.name = t.name
  BY <1>4
<1>6. parsed = ParseParam(u, file, f.lines, f.path)
  BY <1>3, <1>5 DEF ParseParam
<1>7. IsResult(Parsed(<<>>)) /\ Parsed(<<>>).obs = <<>>
  BY Results, ShortLists
<1>8. PICK r : r = ReadParam(t, file)
  OBVIOUS
<1>9. r = IF Available(paths) = {} THEN Parsed(<<>>)
          ELSE ParseParam(t, file, Lines(FirstAvailable(paths)), FirstAvailable(paths))
  BY <1>1, <1>8 DEF ReadParam, ParamPaths
<1>10. ~f.some => IsResult(r) /\ r.obs = <<>>
  BY <1>2, <1>7, <1>9, FoundIs
<1>11. f.some => r = parsed
  BY <1>2, <1>3, <1>9, FoundIs
<1>12. PICK ids : ids = {MetricOf(file)}
  OBVIOUS
<1>13. Shows(parsed, ids, f.path, t.name)
  BY <1>3, <1>12, ParamShows
<1>14. IsReadFrom(r, f, parsed)
  BY <1>10, <1>11, <1>13, ReadIs
<1>15. QED
  BY <1>1, <1>2, <1>4, <1>6, <1>8, <1>14 DEF IsReadFrom, ParamGave, ParamFile

\* All of them.
LEMMA ParamsAreGiven ==
  ASSUME config.strict \in BOOLEAN, NEW t
  PROVE  /\ IsResult(Params(t))
         /\ Params(t).err => config.strict
         /\ ~Params(t).err =>
              \A o : o \in ToSet(Params(t).obs) <=> ParamsGave(host, t.component, t.name, o)
<1>1. PICK files : files = ParamFiles(t.component)
  OBVIOUS
<1>2. PICK n \in Nat : DOMAIN files = 1..n
  BY <1>1, ParamFilesAre
<1>3. PICK parts : parts = [i \in DOMAIN files |-> StrictError(ReadParam(t, files[i]))]
  OBVIOUS
<1>4. Params(t) = All(parts)
  BY <1>1, <1>3 DEF Params, ParseFirst, ReadParam
<1>5. ASSUME NEW i \in 1..n
      PROVE  /\ IsResult(parts[i]) /\ (parts[i].err => config.strict)
             /\ \A o : o \in ToSet(parts[i].obs) <=>
                         ParamGave(host, t.component, t.name, files[i], o)
  <2>1. PICK r : r = ReadParam(t, files[i])
    OBVIOUS
  <2>2. /\ IsResult(r)
        /\ \A o : o \in ToSet(r.obs) <=> ParamGave(host, t.component, t.name, files[i], o)
    BY <2>1, ReadParamIs
  <2>3. parts[i] = StrictError(r)
    BY <1>2, <1>3, <2>1
  <2>4. QED
    BY <2>2, <2>3, StrictErrorIs
<1>6. DOMAIN parts = 1..n
  BY <1>2, <1>3
<1>7. /\ IsResult(All(parts))
      /\ All(parts).err <=> \E i \in 1..n : parts[i].err
      /\ ~All(parts).err => ToSet(All(parts).obs) = UNION {ToSet(parts[i].obs) : i \in 1..n}
  BY <1>5, <1>6, AllIs
<1>8. ASSUME ~All(parts).err, NEW o
      PROVE  o \in ToSet(All(parts).obs) <=> ParamsGave(host, t.component, t.name, o)
  <2>1. o \in ToSet(All(parts).obs) <=>
          \E i \in 1..n : ParamGave(host, t.component, t.name, files[i], o)
    BY <1>5, <1>7, <1>8
  <2>2. ToSet(files) = {files[i] : i \in 1..n}
    BY <1>2 DEF ToSet
  <2>3. QED
    BY <1>1, <2>1, <2>2 DEF ParamsGave
<1>9. QED
  BY <1>4, <1>5, <1>7, <1>8

\* The stats of a target that has such, as its component parses them.
LEMMA StatsAreGiven ==
  ASSUME HostInv, NEW t, IsOfHost(t), t.stats # NoPath, NEW r,
         r = IF Readable(StatsOf(t))
             THEN ParseStats(t.component, t.name, Lines(StatsOf(t)), StatsOf(t)) ELSE Failed
  PROVE  /\ IsResult(r)
         /\ r.err <=> ~StatsAreRead(host, t.component, t.name)
         /\ \A o : o \in ToSet(r.obs) <=> StatsGave(host, t.component, t.name, o)
<1>1. PICK path, paths : path = StatsOf(t) /\ paths = <<path>>
  OBVIOUS
<1>2. PICK f : f = Found(host, paths)
  OBVIOUS
<1>3. PICK parsed : parsed = ParseStats(t.component, t.name, f.lines, f.path)
  OBVIOUS
<1>4. f = StatsFile(host, t.component, t.name)
  BY <1>1, <1>2 DEF IsOfHost, StatsOf, Path, StatsFile
<1>5. f.some <=> Readable(path)
  BY <1>1, <1>2, FoundIs, SinglePath
<1>6. f.some => f.path = path /\ f.lines = Lines(path)
  BY <1>1, <1>2, <1>5, FoundIs, SinglePath
<1>7. f.some => r = parsed
  BY <1>1, <1>3, <1>5, <1>6
<1>8. ~f.some => r = Failed
  BY <1>1, <1>5
<1>9. f.some => Shows(parsed, StatsIDs, f.path, t.name)
  <2>1. f.some => IsList(f.lines)
    BY <1>5, <1>6, LinesAreLists
  <2>2. QED
    BY <1>3, <2>1, StatsShow DEF ParseStats
<1>10. IsResult(Failed) /\ Failed.obs = <<>> /\ Failed.err
  BY Results DEF Failed
<1>11. IsReadFrom(r, f, parsed)
  BY <1>7, <1>8, <1>9, <1>10, ReadIs
<1>12. r.err <=> ~(f.some /\ ~parsed.err)
  BY <1>7, <1>8, <1>10
<1>13. QED
  BY <1>3, <1>4, <1>11, <1>12 DEF IsReadFrom, StatsGave, StatsAreRead, IsOfHost

\* The stats of an import.
LEMMA OBDStatsAreGiven ==
  ASSUME HostInv, NEW t, IsOfHost(t), t.component # "llite"
  PROVE  /\ IsResult(CollectOBDStats(t))
         /\ \A o : o \in ToSet(CollectOBDStats(t).obs) <=> StatsGave(host, t.component, t.name, o)
<1>1. CASE t.stats = NoPath
  <2>1. CollectOBDStats(t) = Parsed(<<>>)
    BY <1>1 DEF CollectOBDStats
  <2>2. IsResult(Parsed(<<>>)) /\ ToSet(Parsed(<<>>).obs) = {}
    BY Results, ShortLists
  <2>3. QED
    BY <1>1, <2>1, <2>2 DEF StatsGave, IsOfHost
<1>2. CASE t.stats # NoPath
  <2>1. CollectOBDStats(t) =
          IF Readable(StatsOf(t))
          THEN ParseStats(t.component, t.name, Lines(StatsOf(t)), StatsOf(t)) ELSE Failed
    BY <1>2, SinglePath DEF CollectOBDStats, ParseFirst, ParseStats, StatsOf
  <2>2. QED
    BY <1>2, <2>1, StatsAreGiven
<1>3. QED
  BY <1>1, <1>2

\* The rpc_stats of an import.
LEMMA RPCStatsAreGiven ==
  ASSUME HostInv, NEW t, IsOfHost(t)
  PROVE  /\ IsResult(CollectRPCStats(t))
         /\ \A o : o \in ToSet(CollectRPCStats(t).obs) <=> RPCGave(host, t.component, t.name, o)
<1>1. CASE t.rpc_stats = NoPath
  <2>1. CollectRPCStats(t) = Parsed(<<>>)
    BY <1>1 DEF CollectRPCStats
  <2>2. IsResult(Parsed(<<>>)) /\ ToSet(Parsed(<<>>).obs) = {}
    BY Results, ShortLists
  <2>3. QED
    BY <1>1, <2>1, <2>2 DEF RPCGave, IsOfHost
<1>2. CASE t.rpc_stats # NoPath
  <2>1. PICK path, paths : path = Path(t, t.rpc_stats, "rpc_stats") /\ paths = <<path>>
    OBVIOUS
  <2>2. PICK f : f = Found(host, paths)
    OBVIOUS
  <2>3. PICK parsed : parsed = ParseRPCStats(f.lines, f.path, t.name, t.component)
    OBVIOUS
  <2>4. f = RPCFile(host, t.component, t.name)
    BY <2>1, <2>2 DEF IsOfHost, Path, RPCFile
  <2>5. f.some <=> Readable(path)
    BY <2>1, <2>2, FoundIs, SinglePath
  <2>6. f.some => f.path = path /\ f.lines = Lines(path)
    BY <2>1, <2>2, <2>5, FoundIs, SinglePath
  <2>7. PICK r : r = CollectRPCStats(t)
    OBVIOUS
  <2>8. r = IF Readable(path) THEN ParseRPCStats(Lines(path), path, t.name, t.component) ELSE Failed
    BY <1>2, <2>1, <2>7, SinglePath DEF CollectRPCStats, ParseFirst
  <2>9. f.some => r = parsed
    BY <2>3, <2>5, <2>6, <2>8
  <2>10. ~f.some => IsResult(r) /\ r.obs = <<>>
    BY <2>5, <2>8, Results DEF Failed
  <2>11. f.some => Shows(parsed, RPCIDs, f.path, t.name)
    <3>1. f.some => IsList(f.lines) /\ \A line \in ToSet(f.lines) : HasScalar(line)
      BY <2>1, <2>5, <2>6, LinesAreLists, RPCStatsLinesAre
    <3>2. QED
      BY <2>3, <3>1, RPCShows
  <2>12. IsReadFrom(r, f, parsed)
    BY <2>9, <2>10, <2>11, ReadIs
  <2>13. QED
    BY <1>2, <2>3, <2>4, <2>7, <2>12 DEF IsReadFrom, RPCGave, IsOfHost
<1>3. QED
  BY <1>1, <1>2

\* A mount: its parameters are given if its stats were read.
LEMMA MountIsGiven ==
  ASSUME HostInv, config.strict \in BOOLEAN, NEW t, IsOfHost(t), t.component = "llite",
         t.stats # NoPath, t.rpc_stats = NoPath
  PROVE  /\ IsResult(CollectTarget(t))
         /\ CollectTarget(t).err => config.strict
         /\ ~CollectTarget(t).err =>
              \A o : o \in ToSet(CollectTarget(t).obs) <=> TargetGave(host, t.component, t.name, o)
<1>1. PICK stats, params :
        /\ stats = (IF Readable(StatsOf(t))
                    THEN ParseStats(t.component, t.name, Lines(StatsOf(t)), StatsOf(t)) ELSE Failed)
        /\ params = Params(t)
  OBVIOUS
<1>2. ParseFirst(<<StatsOf(t)>>, Failed, LAMBDA lines, path : ParseLLiteStats(lines, path, t.name)) =
        stats
  BY <1>1, SinglePath DEF ParseFirst, ParseStats
<1>3. CollectLLite(t) = All(<<stats, params>>)
  BY <1>1, <1>2 DEF CollectLLite, StatsOf
<1>4. PICK both : both = All(<<stats, params>>)
  OBVIOUS
<1>5. CollectTarget(t) = StrictError(both)
  BY <1>3, <1>4 DEF CollectTarget
<1>6. /\ IsResult(stats)
      /\ stats.err <=> ~StatsAreRead(host, t.component, t.name)
      /\ \A o : o \in ToSet(stats.obs) <=> StatsGave(host, t.component, t.name, o)
  BY <1>1, StatsAreGiven
<1>7. /\ IsResult(params)
      /\ params.err => config.strict
      /\ ~params.err =>
           \A o : o \in ToSet(params.obs) <=> ParamsGave(host, t.component, t.name, o)
  BY <1>1, ParamsAreGiven
<1>8. /\ IsResult(both)
      /\ both.err <=> stats.err \/ params.err
      /\ ~both.err => ToSet(both.obs) = ToSet(stats.obs) \cup ToSet(params.obs)
  BY <1>4, <1>6, <1>7, PairIs
<1>9. /\ IsResult(CollectTarget(t))
      /\ CollectTarget(t).err <=> config.strict /\ both.err
      /\ CollectTarget(t).obs = both.obs
  BY <1>5, <1>8, StrictErrorIs
<1>10. \A o : ~RPCGave(host, t.component, t.name, o)
  BY DEF RPCGave, IsOfHost
<1>11. \A r : IsResult(r) /\ r.err => ToSet(r.obs) = {}
  BY ShortLists DEF IsResult
<1>12. ASSUME ~CollectTarget(t).err, NEW o
       PROVE  o \in ToSet(both.obs) <=> TargetGave(host, t.component, t.name, o)
  <2>1. CASE both.err
    <3>1. stats.err
      BY <1>7, <1>8, <1>9, <1>12, <2>1
    <3>2. o \notin ToSet(both.obs) /\ o \notin ToSet(stats.obs)
      BY <1>6, <1>8, <1>11, <2>1, <3>1
    <3>3. QED
      BY <1>6, <1>10, <3>1, <3>2 DEF TargetGave
  <2>2. CASE ~both.err
    <3>1. ~stats.err /\ ~params.err
      BY <1>8, <2>2
    <3>2. o \in ToSet(both.obs) <=> o \in ToSet(stats.obs) \/ o \in ToSet(params.obs)
      BY <1>8, <2>2
    <3>3. QED
      BY <1>6, <1>7, <1>10, <3>1, <3>2 DEF TargetGave
  <2>3. QED
    BY <2>1, <2>2
<1>13. QED
  BY <1>9, <1>12

\* An import: none of its files costs another one of it.
LEMMA ImportIsGiven ==
  ASSUME HostInv, config.strict \in BOOLEAN, NEW t, IsOfHost(t), t.component # "llite"
  PROVE  /\ IsResult(CollectTarget(t))
         /\ CollectTarget(t).err => config.strict
         /\ ~CollectTarget(t).err =>
              \A o : o \in ToSet(CollectTarget(t).obs) <=> TargetGave(host, t.component, t.name, o)
<1>1. PICK a, b, r, s, params :
        /\ a = CollectOBDStats(t) /\ b = CollectRPCStats(t)
        /\ r = StrictError(a) /\ s = StrictError(b) /\ params = Params(t)
  OBVIOUS
<1>2. CollectTarget(t) = All(<<r, s, params>>)
  BY <1>1 DEF CollectTarget
<1>3. /\ IsResult(a)
      /\ \A o : o \in ToSet(a.obs) <=> StatsGave(host, t.component, t.name, o)
  BY <1>1, OBDStatsAreGiven
<1>4. /\ IsResult(b)
      /\ \A o : o \in ToSet(b.obs) <=> RPCGave(host, t.component, t.name, o)
  BY <1>1, RPCStatsAreGiven
<1>5. /\ IsResult(r) /\ (r.err => config.strict) /\ r.obs = a.obs
      /\ IsResult(s) /\ (s.err => config.strict) /\ s.obs = b.obs
  BY <1>1, <1>3, <1>4, StrictErrorIs
<1>6. /\ IsResult(params)
      /\ params.err => config.strict
      /\ ~params.err =>
           \A o : o \in ToSet(params.obs) <=> ParamsGave(host, t.component, t.name, o)
  BY <1>1, ParamsAreGiven
<1>7. PICK all : all = All(<<r, s, params>>)
  OBVIOUS
<1>8. /\ IsResult(all)
      /\ all.err <=> r.err \/ s.err \/ params.err
      /\ ~all.err => ToSet(all.obs) = ToSet(r.obs) \cup ToSet(s.obs) \cup ToSet(params.obs)
  BY <1>5, <1>6, <1>7, TripleIs
<1>9. ASSUME ~all.err, NEW o
      PROVE  o \in ToSet(all.obs) <=> TargetGave(host, t.component, t.name, o)
  <2>1. o \in ToSet(all.obs) <=> o \in ToSet(a.obs) \/ o \in ToSet(b.obs) \/ o \in ToSet(params.obs)
    BY <1>5, <1>8, <1>9
  <2>2. QED
    BY <1>3, <1>4, <1>6, <1>8, <1>9, <2>1 DEF TargetGave
<1>10. QED
  BY <1>2, <1>5, <1>6, <1>7, <1>8, <1>9

\* What the client collector gives, and that only strict mode lets it fail.
LEMMA ClientGives ==
  ASSUME HostInv, config.strict \in BOOLEAN
  PROVE  /\ IsResult(ClientObservations)
         /\ ClientObservations.err => config.strict
         /\ ~ClientObservations.err =>
              \A o : o \in ToSet(ClientObservations.obs) <=> ClientGave(host, o)
<1>1. PICK m \in Nat : DOMAIN Targets = 1..m
  <2>1. Targets \in Seq(Existing)
    BY TargetsExist
  <2>2. QED
    BY <2>1
<1>2. ASSUME NEW i \in 1..m
      PROVE  LET t == Targets[i]
             IN /\ IsResult(CollectTarget(t))
                /\ CollectTarget(t).err => config.strict
                /\ ~CollectTarget(t).err =>
                     \A o : o \in ToSet(CollectTarget(t).obs) <=>
                              TargetGave(host, t.component, t.name, o)
  <2>1. PICK t : t = Targets[i]
    OBVIOUS
  <2>2. IsOfHost(t) /\ IsDiscovered(host, t.component, t.name)
    BY <1>1, <2>1, TargetsAreDiscovered DEF IsOfHost
  <2>3. CASE t.component = "llite"
    <3>1. t.rpc_stats = NoPath
      BY <2>2, <2>3, MountsHaveNoRPC DEF IsOfHost
    <3>2. t.stats # NoPath
      BY <2>2, <3>1 DEF IsOfHost, IsDiscovered, IsMatched, StatsRootOn, RPCRootOn
    <3>3. QED
      BY <2>1, <2>2, <2>3, <3>1, <3>2, MountIsGiven
  <2>4. CASE t.component # "llite"
    BY <2>1, <2>2, <2>4, ImportIsGiven
  <2>5. QED
    BY <2>3, <2>4
<1>3. PICK parts :
        /\ ClientObservations = All(parts)
        /\ DOMAIN parts = 1..(m + 1)
        /\ parts[1] = StrictError(ParseFirst(LDLMCBDStatsPaths, Parsed(<<>>), ParseLDLMCBDStats))
        /\ \A i \in 1..m : i + 1 \in 1..(m + 1) /\ parts[i + 1] = CollectTarget(Targets[i])
  BY <1>1, ClientIsAll
<1>4. /\ IsResult(parts[1]) /\ (parts[1].err => config.strict)
      /\ \A o : o \in ToSet(parts[1].obs) <=> LDLMGave(host, o)
  BY <1>3, LDLMGives, StrictErrorIs
<1>5. \A i \in 1..(m + 1) : i = 1 \/ \E k \in 1..m : i = k + 1
  <2>1. ASSUME NEW i \in 1..(m + 1), i # 1
        PROVE  i - 1 \in 1..m /\ i = (i - 1) + 1
    BY <2>1
  <2>2. QED
    BY <2>1
<1>6. \A i \in 1..(m + 1) : IsResult(parts[i]) /\ (parts[i].err => config.strict)
  BY <1>2, <1>3, <1>4, <1>5
<1>7. m + 1 \in Nat
  OBVIOUS
<1>8. /\ IsResult(All(parts))
      /\ All(parts).err <=> \E i \in 1..(m + 1) : parts[i].err
      /\ ~All(parts).err =>
           ToSet(All(parts).obs) = UNION {ToSet(parts[i].obs) : i \in 1..(m + 1)}
  BY <1>3, <1>6, <1>7, AllIs
<1>9. ASSUME ~All(parts).err, NEW o
      PROVE  o \in ToSet(All(parts).obs) <=> ClientGave(host, o)
  <2>1. o \in ToSet(All(parts).obs) <=>
          o \in ToSet(parts[1].obs) \/ \E k \in 1..m : o \in ToSet(parts[k + 1].obs)
    <3>1. o \in ToSet(All(parts).obs) <=> \E i \in 1..(m + 1) : o \in ToSet(parts[i].obs)
      BY <1>8, <1>9
    <3>2. 1 \in 1..(m + 1)
      OBVIOUS
    <3>3. QED
      BY <1>3, <1>5, <3>1, <3>2
  <2>2. \A k \in 1..m : o \in ToSet(parts[k + 1].obs) <=>
                          TargetGave(host, Targets[k].component, Targets[k].name, o)
    BY <1>2, <1>3, <1>8, <1>9
  <2>3. (\E k \in 1..m : TargetGave(host, Targets[k].component, Targets[k].name, o)) <=>
          \E c \in Components, n \in Names : IsDiscovered(host, c, n) /\ TargetGave(host, c, n, o)
    BY <1>1, TargetsAreDiscovered
  <2>4. QED
    BY <1>4, <2>1, <2>2, <2>3 DEF ClientGave
<1>10. QED
  BY <1>3, <1>6, <1>8, <1>9

\* The places of a file of a target decide over each other.
LEMMA PlacesDecide ==
  ASSUME NEW r, NEW s, NEW c, NEW n, NEW file
  PROVE  Decides(<<r, c, n, file>>, <<s, c, n, file>>)
<1>1. PICK roots : roots = <<r, s>>
  OBVIOUS
<1>2. DOMAIN roots = 1..2 /\ roots[1] = r /\ roots[2] = s
  BY <1>1
<1>3. DOMAIN roots \subseteq Nat
  BY <1>2
<1>4. AreOneSource(Under(roots, <<c, n, file>>))
  BY <1>3, RootsAreOneSource
<1>5. PICK rest : rest = <<c, n, file>>
  OBVIOUS
<1>6. PICK paths : paths = Under(roots, rest)
  OBVIOUS
<1>7. AreOneSource(paths)
  BY <1>4, <1>5, <1>6
<1>8. DOMAIN paths = DOMAIN roots /\ \A i \in DOMAIN roots : paths[i] = <<roots[i]>> \o rest
  BY <1>6 DEF Under
<1>9. \A x : <<x>> \o rest = <<x, c, n, file>>
  BY <1>5, PathLengths
<1>10. 1 \in DOMAIN paths /\ 2 \in DOMAIN paths
  BY <1>2, <1>8
<1>11. paths[1] = <<r, c, n, file>> /\ paths[2] = <<s, c, n, file>>
  <2>1. paths[1] = <<roots[1]>> \o rest /\ paths[2] = <<roots[2]>> \o rest
    BY <1>8, <1>10
  <2>2. QED
    BY <1>2, <1>9, <2>1
<1>12. Decides(paths[1], paths[2])
  BY <1>7, <1>10 DEF AreOneSource
<1>13. QED
  BY <1>11, <1>12

\* A target's file is found under the same root on two hosts that have the same
\* for a path over which all of its places decide.
LEMMA RootStays ==
  ASSUME NEW h, NEW g, NEW q, SameFor(h, g, q), NEW c, NEW n, NEW file,
         \A r \in RootNames : <<r, c, n, file>> \in DOMAIN h => Decides(<<r, c, n, file>>, q)
  PROVE  FirstRoot(FoundOn(h, 15), c, n, file) = FirstRoot(FoundOn(g, 15), c, n, file)
<1>1. DOMAIN h = DOMAIN g
  BY DEF SameFor
<1>2. \A r \in RootNames : <<r, c, n, file>> \in DOMAIN h =>
        h[<<r, c, n, file>>] = g[<<r, c, n, file>>]
  BY DEF SameFor
<1>3. QED
  BY <1>1, <1>2, RootTheSame

\* So the stats of a target are given again, and it is discovered again.
LEMMA StatsStay ==
  ASSUME NEW h, NEW g, NEW o, SameFor(h, g, o.source), NEW c, NEW n, StatsGave(g, c, n, o)
  PROVE  StatsGave(h, c, n, o) /\ IsDiscovered(h, c, n)
<1>1. PICK path : path = <<StatsRootOn(g, c, n), c, n, "stats">>
  OBVIOUS
<1>2. PICK paths : paths = <<path>>
  OBVIOUS
<1>3. PICK f : f = Found(g, paths)
  OBVIOUS
<1>4. StatsFile(g, c, n) = f
  BY <1>1, <1>2, <1>3 DEF StatsFile
<1>5. f.some /\ o.source = f.path /\ StatsRootOn(g, c, n) # NoPath
  BY <1>4 DEF StatsGave, Gave
<1>6. AreOneSource(paths)
  BY <1>2, RootsAreOneSource
<1>7. f.path = path
  <2>1. DOMAIN paths = {1} /\ paths[1] = path
    BY <1>2
  <2>2. QED
    BY <1>3, <1>5, <1>6, <2>1, FoundPath DEF AreOneSource
<1>8. Found(h, paths) = f
  BY <1>3, <1>5, <1>6, SourceStays
<1>9. StatsRootOn(h, c, n) = StatsRootOn(g, c, n)
  BY <1>1, <1>5, <1>7, PlacesDecide, RootStays DEF StatsRootOn, StatsRoot
<1>10. StatsFile(h, c, n) = f
  BY <1>1, <1>2, <1>8, <1>9 DEF StatsFile
<1>11. QED
  BY <1>4, <1>5, <1>9, <1>10 DEF StatsGave, IsDiscovered, IsMatched, StatsRootOn

\* The same of rpc_stats.
LEMMA RPCStays ==
  ASSUME NEW h, NEW g, NEW o, SameFor(h, g, o.source), NEW c, NEW n, RPCGave(g, c, n, o)
  PROVE  RPCGave(h, c, n, o) /\ IsDiscovered(h, c, n)
<1>1. PICK path : path = <<RPCRootOn(g, c, n), c, n, "rpc_stats">>
  OBVIOUS
<1>2. PICK paths : paths = <<path>>
  OBVIOUS
<1>3. PICK f : f = Found(g, paths)
  OBVIOUS
<1>4. RPCFile(g, c, n) = f
  BY <1>1, <1>2, <1>3 DEF RPCFile
<1>5. f.some /\ o.source = f.path /\ RPCRootOn(g, c, n) # NoPath
  BY <1>4 DEF RPCGave, Gave
<1>6. AreOneSource(paths)
  BY <1>2, RootsAreOneSource
<1>7. f.path = path
  <2>1. DOMAIN paths = {1} /\ paths[1] = path
    BY <1>2
  <2>2. QED
    BY <1>3, <1>5, <1>6, <2>1, FoundPath DEF AreOneSource
<1>8. Found(h, paths) = f
  BY <1>3, <1>5, <1>6, SourceStays
<1>9. RPCRootOn(h, c, n) = RPCRootOn(g, c, n)
  BY <1>1, <1>5, <1>7, PlacesDecide, RootStays DEF RPCRootOn, RPCRoot
<1>10. RPCFile(h, c, n) = f
  BY <1>1, <1>2, <1>8, <1>9 DEF RPCFile
<1>11. QED
  BY <1>4, <1>5, <1>9, <1>10 DEF RPCGave, IsDiscovered, IsMatched, RPCRootOn

\* A parameter file is none of the files by which a target is discovered.
LEMMA ParamsAreNoStats ==
  ASSUME NEW c, NEW file \in ToSet(ParamFiles(c))
  PROVE  file \notin {"stats", "rpc_stats"}
<1>1. PICK i \in DOMAIN ParamFiles(c) : ParamFiles(c)[i] = file
  BY DEF ToSet
<1>2. file \in ParamFileNames
  BY <1>1, ParamFilesAreNames
<1>3. QED
  BY <1>2 DEF ParamFileNames, lliteSingleFileMap, clientSingleFileMap

\* A parameter file that was read.
LEMMA ParamFrom ==
  ASSUME NEW g, NEW c, NEW n, NEW file, NEW o, ParamGave(g, c, n, file, o)
  PROVE  \E root : o.source = <<root, c, n, file>> /\ o.source \in DOMAIN g
<1>1. PICK rest : rest = <<c, n, file>>
  OBVIOUS
<1>2. PICK paths : paths = Under(ParamRoots, rest)
  OBVIOUS
<1>3. PICK f : f = Found(g, paths)
  OBVIOUS
<1>4. f.some /\ o.source = f.path
  BY <1>1, <1>2, <1>3 DEF ParamGave, ParamFile, ParamPaths, Gave
<1>5. DOMAIN ParamRoots = 1..2
  BY DEF ParamRoots
<1>6. DOMAIN paths = 1..2
  BY <1>2, <1>5 DEF Under
<1>7. PICK i \in DOMAIN paths : f.path = paths[i] /\ paths[i] \in DOMAIN g
  BY <1>3, <1>4, <1>6, FoundPath
<1>8. paths[i] = <<ParamRoots[i]>> \o rest
  BY <1>2, <1>5, <1>6 DEF Under
<1>9. paths[i] = <<ParamRoots[i], c, n, file>>
  BY <1>1, <1>8, PathLengths
<1>10. QED
  BY <1>4, <1>7, <1>9

\* A parameter that was read is read again.
LEMMA ParamStays ==
  ASSUME NEW h, NEW g, NEW o, SameFor(h, g, o.source), NEW c, NEW n, NEW file,
         ParamGave(g, c, n, file, o)
  PROVE  ParamGave(h, c, n, file, o)
<1>1. PICK paths : paths = ParamPaths(c, n, file)
  OBVIOUS
<1>2. PICK f : f = Found(g, paths)
  OBVIOUS
<1>3. f.some /\ o.source = f.path
  BY <1>1, <1>2 DEF ParamGave, ParamFile, Gave
<1>4. AreOneSource(paths)
  <2>1. DOMAIN ParamRoots = 1..2
    BY DEF ParamRoots
  <2>2. DOMAIN ParamRoots \subseteq Nat
    BY <2>1
  <2>3. QED
    BY <1>1, <2>2, RootsAreOneSource DEF ParamPaths
<1>5. Found(h, paths) = f
  BY <1>2, <1>3, <1>4, SourceStays
<1>6. QED
  BY <1>1, <1>2, <1>5 DEF ParamGave, ParamFile

\* A target, as an import or mount of which a file is on the host.
LEMMA TargetsAreImports ==
  ASSUME HostInv, NEW i \in DOMAIN Targets
  PROVE  \E p \in Imports : p[2] = Targets[i].component /\ p[3] = Targets[i].name
<1>1. PICK t : t = Targets[i]
  OBVIOUS
<1>2. t \in Existing
  BY <1>1, TargetsExist
<1>3. PICK p \in Pattern : p.component = t.component /\ t.name \in FoundBy(p)
  BY <1>2 DEF Existing
<1>4. PICK path : path = <<p.root, p.component, t.name, p.file>>
  OBVIOUS
<1>5. State(path) # "absent"
  BY <1>3, <1>4 DEF FoundBy
<1>6. path \in DOMAIN Healthy
  BY <1>5 DEF State, HostInv
<1>7. Len(path) = 4
  BY <1>4, PathLengths
<1>8. path[2] = p.component /\ path[3] = t.name
  BY <1>4
<1>9. QED
  BY <1>1, <1>3, <1>6, <1>7, <1>8 DEF Imports

\* The parameters of a target are given again: it is discovered again and, if it
\* is a mount, its stats are read again.
LEMMA ParamsStay ==
  ASSUME HostInv, NEW g, NEW o, SameFor(host, g, o.source), NEW c, NEW n,
         IsDiscovered(g, c, n), c = "llite" => StatsAreRead(g, c, n), ParamsGave(g, c, n, o)
  PROVE  /\ IsDiscovered(host, c, n)
         /\ c = "llite" => StatsAreRead(host, c, n)
         /\ ParamsGave(host, c, n, o)
<1>1. PICK file \in ToSet(ParamFiles(c)) : ParamGave(g, c, n, file, o)
  BY DEF ParamsGave
<1>2. ParamsGave(host, c, n, o)
  BY <1>1, ParamStays DEF ParamsGave
<1>3. PICK root : o.source = <<root, c, n, file>> /\ o.source \in DOMAIN g
  BY <1>1, ParamFrom
<1>4. PICK q : q = o.source
  OBVIOUS
<1>5. q[2] = c /\ q[3] = n /\ q[4] = file /\ Len(q) = 4
  BY <1>3, <1>4, PathLengths
<1>6. q \in Imports /\ SameFor(host, g, q)
  BY <1>3, <1>4, <1>5 DEF SameFor, HostInv, Imports
<1>7. file \notin {"stats", "rpc_stats"}
  BY <1>1, ParamsAreNoStats
<1>8. ASSUME c = "llite" \/ \A i \in DOMAIN Targets : Targets[i].name # n,
             NEW r, NEW kind \in {"stats", "rpc_stats"}, <<r, c, n, kind>> \in DOMAIN host
      PROVE  Decides(<<r, c, n, kind>>, q)
  <2>1. PICK p : p = <<r, c, n, kind>>
    OBVIOUS
  <2>2. p[2] = c /\ p[3] = n /\ p[4] = kind /\ Len(p) = 4
    BY <2>1, PathLengths
  <2>3. p \in Imports
    BY <1>8, <2>1, <2>2 DEF HostInv, Imports
  <2>4. {p, q} \subseteq Imports /\ p[2] = q[2] /\ p[3] = q[3]
        /\ p[4] \in {"stats", "rpc_stats"} /\ q[4] \notin {"stats", "rpc_stats"}
    BY <1>5, <1>6, <1>7, <1>8, <2>2, <2>3
  <2>5. p[2] = "llite" \/ \A i \in DOMAIN Targets : Targets[i].name # q[3]
    BY <1>5, <1>8, <2>2
  <2>6. Decides(p, q)
    BY <2>4, <2>5 DEF Decides
  <2>7. QED
    BY <2>1, <2>6
<1>9. ASSUME c = "llite" \/ \A i \in DOMAIN Targets : Targets[i].name # n
      PROVE  /\ StatsRootOn(host, c, n) = StatsRootOn(g, c, n)
             /\ RPCRootOn(host, c, n) = RPCRootOn(g, c, n)
  <2>1. \A r \in RootNames : <<r, c, n, "stats">> \in DOMAIN host =>
          Decides(<<r, c, n, "stats">>, q)
    BY <1>8, <1>9
  <2>2. \A r \in RootNames : <<r, c, n, "rpc_stats">> \in DOMAIN host =>
          Decides(<<r, c, n, "rpc_stats">>, q)
    BY <1>8, <1>9
  <2>3. QED
    BY <1>6, <2>1, <2>2, RootStays DEF StatsRootOn, StatsRoot, RPCRootOn, RPCRoot
<1>10. CASE c = "llite"
  <2>1. IsDiscovered(host, c, n)
    BY <1>9, <1>10 DEF IsDiscovered, IsMatched, StatsRootOn, RPCRootOn
  <2>2. PICK path : path = <<StatsRootOn(g, c, n), c, n, "stats">>
    OBVIOUS
  <2>3. path \in DOMAIN host => host[path] = g[path]
    BY <1>6, <1>8, <1>10, <2>2 DEF SameFor
  <2>4. PICK paths : paths = <<path>>
    OBVIOUS
  <2>5. DOMAIN paths = 1..1 /\ paths[1] = path
    BY <2>4
  <2>6. DOMAIN paths \subseteq Nat /\ \A i \in DOMAIN paths : paths[i] = path
    BY <2>5
  <2>7. DOMAIN host = DOMAIN g
    BY <1>6 DEF SameFor
  <2>8. Found(host, paths) = Found(g, paths)
    BY <2>3, <2>6, <2>7, FoundTheSame
  <2>9. StatsFile(host, c, n) = StatsFile(g, c, n)
    BY <1>9, <1>10, <2>2, <2>4, <2>8 DEF StatsFile
  <2>10. StatsAreRead(host, c, n)
    BY <1>10, <2>9 DEF StatsAreRead
  <2>11. QED
    BY <1>2, <2>1, <2>10
<1>11. CASE c # "llite" /\ \E i \in DOMAIN Targets : Targets[i].name = n
  <2>1. PICK i \in DOMAIN Targets : Targets[i].name = n
    BY <1>11
  <2>2. PICK p \in Imports : p[2] = Targets[i].component /\ p[3] = Targets[i].name
    BY TargetsAreImports
  <2>3. Targets[i].component = c
    BY <1>5, <1>6, <2>1, <2>2, ScrapeAssumption
  <2>4. IsDiscovered(host, c, n)
    BY <2>1, <2>3, TargetsAreDiscovered
  <2>5. QED
    BY <1>2, <1>11, <2>4
<1>12. CASE c # "llite" /\ \A i \in DOMAIN Targets : Targets[i].name # n
  <2>1. IsDiscovered(host, c, n)
    BY <1>9, <1>12 DEF IsDiscovered, IsMatched, StatsRootOn, RPCRootOn
  <2>2. QED
    BY <1>2, <1>12, <2>1
<1>13. QED
  BY <1>10, <1>11, <1>12

\* The client collector gives it again.
LEMMA ClientStays ==
  ASSUME HostInv, NEW g, NEW o, SameFor(host, g, o.source), ClientGave(g, o)
  PROVE  ClientGave(host, o)
<1>1. CASE LDLMGave(g, o)
  BY <1>1, SmallStay DEF ClientGave
<1>2. ASSUME NEW c \in Components, NEW n \in Names, IsDiscovered(g, c, n), TargetGave(g, c, n, o)
      PROVE  IsDiscovered(host, c, n) /\ TargetGave(host, c, n, o)
  <2>1. CASE StatsGave(g, c, n, o)
    BY <2>1, StatsStay DEF TargetGave
  <2>2. CASE RPCGave(g, c, n, o)
    BY <2>2, RPCStays DEF TargetGave
  <2>3. CASE (c = "llite" => StatsAreRead(g, c, n)) /\ ParamsGave(g, c, n, o)
    BY <1>2, <2>3, ParamsStay DEF TargetGave
  <2>4. QED
    BY <1>2, <2>1, <2>2, <2>3 DEF TargetGave
<1>3. QED
  BY <1>1, <1>2 DEF ClientGave

\* What the collector c gives on the host h.
CollectorGave(h, source, c, o) ==
  \/ c = "health" /\ HealthGave(h, o)
  \/ c = "sptlrpc" /\ SptlrpcGave(h, o)
  \/ c = "lnet" /\ LNetGave(h, source, o)
  \/ c = "client" /\ ClientGave(h, o)
  \/ c = "lpcc" /\ LpccGave(h, o)

\* Its observations are that, unless it fails.
LEMMA CollectorGives ==
  ASSUME HostInv, config.strict \in BOOLEAN, NEW c \in Collectors, ~Observations(c).err
  PROVE  \A o : o \in ToSet(Observations(c).obs) <=> CollectorGave(host, config.lnetSource, c, o)
<1>1. c \in {"health", "sptlrpc", "lnet", "client", "lpcc"}
  BY DEF Collectors, AllCollectors, ToSet
<1>2. CASE c = "health"
  <2>1. Observations(c) = HealthObservations
    BY <1>2 DEF Observations
  <2>2. QED
    BY <1>2, <2>1, SmallGive DEF CollectorGave
<1>3. CASE c = "sptlrpc"
  <2>1. Observations(c) = SptlrpcObservations
    BY <1>3 DEF Observations
  <2>2. QED
    BY <1>3, <2>1, SmallGive DEF CollectorGave
<1>4. CASE c = "lnet"
  <2>1. Observations(c) = LNetObservations
    BY <1>4 DEF Observations
  <2>2. QED
    BY <1>4, <2>1, LNetGives DEF CollectorGave
<1>5. CASE c = "client"
  <2>1. Observations(c) = ClientObservations
    BY <1>5 DEF Observations
  <2>2. QED
    BY <1>5, <2>1, ClientGives DEF CollectorGave
<1>6. CASE c = "lpcc"
  <2>1. Observations(c) = LpccObservations
    BY <1>6 DEF Observations
  <2>2. QED
    BY <1>6, <2>1, SmallGive DEF CollectorGave
<1>7. QED
  BY <1>1, <1>2, <1>3, <1>4, <1>5, <1>6

\* It gives again what no changed file decides over.
LEMMA CollectorStays ==
  ASSUME HostInv, NEW g, NEW source, NEW c, NEW o, SameFor(host, g, o.source),
         CollectorGave(g, source, c, o)
  PROVE  CollectorGave(host, source, c, o)
BY SmallStay, LNetStays, ClientStays DEF CollectorGave

\* The host of the last scrape gave what its collectors have.
SeenInv ==
  /\ \A path \in DOMAIN seen : seen[path] \in FilesAt(path)
  /\ \A c \in Succeeded : \A o \in Observed(c) : CollectorGave(seen, config.lnetSource, c, o)

\* A collector that succeeds has what its host gives.
LEMMA SucceedingCollects ==
  ASSUME NEW c, ~Collect(c).err
  PROVE  ~Observations(c).err /\ Collect(c).obs = Observations(c).obs
<1>1. PICK r : r = Observations(c)
  OBVIOUS
<1>2. ~Emit(Map(r)).err /\ Collect(c).obs = r.obs
  BY <1>1 DEF Collect
<1>3. ~Map(r).err
  BY <1>2 DEF Emit
<1>4. QED
  BY <1>1, <1>2, <1>3 DEF Map

\* The client collector fails in strict mode only, or for an invalid label.
LEMMA ClientFails ==
  ASSUME HostInv, config.strict \in BOOLEAN, Collect("client").err
  PROVE  config.strict \/ InvalidIn(ToSet(Collect("client").obs))
<1>1. PICK r : r = ClientObservations
  OBVIOUS
<1>2. Observations("client") = r
  BY <1>1 DEF Observations
<1>3. IsResult(r) /\ (r.err => config.strict)
  BY <1>1, ClientGives
<1>4. Emit(Map(r)).err /\ Collect("client").obs = r.obs
  BY <1>2 DEF Collect
<1>5. CASE r.err
  BY <1>3, <1>5
<1>6. CASE ~r.err
  <2>1. "client" \in Collectors
    BY DEF Collectors, AllCollectors, ToSet
  <2>2. \A o \in ToSet(r.obs) : HasItsLabels(o)
    BY <1>2, <2>1, CollectorsYield
  <2>3. \A i \in DOMAIN r.obs : r.obs[i] \in ToSet(r.obs)
    BY DEF ToSet
  <2>4. PICK series : series = [i \in DOMAIN r.obs |-> MapObservation(r.obs[i])]
    OBVIOUS
  <2>5. ~Map(r).err /\ Map(r).series = series
    BY <1>6, <2>2, <2>3, <2>4 DEF Map, HasItsLabels
  <2>6. PICK i \in DOMAIN series : \E k \in DOMAIN series[i].labels : series[i].labels[k] \in Invalid
    BY <1>4, <2>5 DEF Emit
  <2>7. PICK o : o = r.obs[i]
    OBVIOUS
  <2>8. o \in ToSet(r.obs) /\ series[i] = MapObservation(o)
    BY <2>3, <2>4, <2>6, <2>7
  <2>9. PICK def, keys, labels : def = Registry[o.id] /\ keys = def.labels /\ labels = o.labels
    OBVIOUS
  <2>10. DOMAIN labels = keys
    <3>1. HasItsLabels(o)
      BY <2>2, <2>8
    <3>2. DOMAIN o.labels = Registry[o.id].labels
      BY <3>1 DEF HasItsLabels
    <3>3. QED
      BY <2>9, <3>2
  <2>11. series[i].labels = [k \in keys |-> IF k \in DOMAIN labels THEN labels[k] ELSE ""]
    <3>1. MapObservation(o).labels = [k \in keys |-> IF k \in DOMAIN labels THEN labels[k] ELSE ""]
      BY <2>9 DEF MapObservation
    <3>2. QED
      BY <2>8, <3>1
  <2>12. PICK k \in DOMAIN labels : labels[k] \in Invalid
    BY <2>6, <2>10, <2>11
  <2>13. InvalidIn(ToSet(r.obs))
    BY <2>8, <2>9, <2>12 DEF InvalidIn
  <2>14. QED
    BY <1>4, <2>13
<1>7. QED
  BY <1>5, <1>6

\* In the step Scrape: what is not given again was decided over.
LEMMA LostIsDecided ==
  ASSUME TypeInv, SeenInv, NEW c \in Succeeded, c \in Collectors, ~Collect(c).err,
         NEW o \in Observed(c), o \notin ToSet(Collect(c).obs)
  PROVE  \E p \in DOMAIN Contents : host[p] # seen[p] /\ Decides(p, o.source)
<1>1. SUFFICES ASSUME \A p \in DOMAIN Contents : host[p] # seen[p] => ~Decides(p, o.source)
               PROVE  FALSE
  OBVIOUS
<1>2. HostInv /\ config.strict \in BOOLEAN
  BY TypeInvGives
<1>3. DOMAIN host = DOMAIN seen
  BY DEF TypeInv, TypeOK
<1>4. \A p \in DOMAIN host : p \notin DOMAIN Contents => host[p] = Healthy[p] /\ seen[p] = Healthy[p]
  BY <1>3 DEF TypeInv, SeenInv, FilesAt
<1>5. SameFor(host, seen, o.source)
  BY <1>1, <1>3, <1>4 DEF SameFor
<1>6. CollectorGave(host, config.lnetSource, c, o)
  BY <1>2, <1>5, CollectorStays DEF SeenInv
<1>7. ~Observations(c).err /\ Collect(c).obs = Observations(c).obs
  BY SucceedingCollects
<1>8. o \in ToSet(Observations(c).obs)
  BY <1>2, <1>6, <1>7, CollectorGives
<1>9. QED
  BY <1>7, <1>8

\* Whatever happens to one file, no series of another is lost, unless the file
\* decides over that one or the whole collector fails; and in lenient mode the
\* client collector fails for an invalid text in a label only (client.go:107-118,
\* 142-171, lnet.go:152-169).
THEOREM OthersAreKept == Spec => OnlyItsOwnSeriesAreLost
<1> DEFINE Inv == TypeInv /\ SeenInv
           Keeps == \A c \in Succeeded :
             /\ c \in Succeeded' =>
                  \A o \in Observed(c) \ Observed(c)' :
                    \E p \in DOMAIN Contents : host[p] # seen[p] /\ Decides(p, o.source)
             /\ c = "client" /\ c \notin Succeeded' =>
                  config.strict \/ InvalidIn(Observed(c)')
<1>1. Init => Inv
  <2>1. Init => TypeInv
    BY ScrapeAssumption DEF Init, TypeInv, TypeOK, FilesAt, Valid
  <2>2. DOMAIN <<>> = {}
    OBVIOUS
  <2>3. QED
    BY <2>1, <2>2 DEF Init, SeenInv, Succeeded, FilesAt
<1>2. ASSUME Inv, [Next]_vars
      PROVE  Inv' /\ [Keeps]_vars
  <2>1. TypeInv'
    BY <1>2, TypeInvStep
  <2>2. CASE Scrape
    <3>1. /\ HostInv /\ config.strict \in BOOLEAN /\ config.enabled \subseteq Collectors
      BY <1>2, TypeInvGives, ScrapeAssumption DEF TypeInv, TypeOK, Config
    <3>2. /\ results' = [c \in config.enabled |-> Collect(c)]
          /\ seen' = host /\ config' = config
      BY <2>2 DEF Scrape
    <3>3. DOMAIN results \subseteq config.enabled
      BY <1>2 DEF TypeInv, TypeOK
    <3>4. \A c : c \in Succeeded' <=> c \in config.enabled /\ ~Collect(c).err
      BY <3>2 DEF Succeeded
    <3>5. \A c \in config.enabled : Observed(c)' = ToSet(Collect(c).obs)
      BY <3>2 DEF Observed, ToSet
    <3>6. SeenInv'
      <4>1. \A path \in DOMAIN seen' : seen'[path] \in FilesAt(path)
        BY <1>2, <3>2 DEF TypeInv
      <4>2. ASSUME NEW c \in Succeeded', NEW o \in Observed(c)'
            PROVE  CollectorGave(host, config.lnetSource, c, o)
        <5>1. c \in Collectors /\ ~Collect(c).err /\ o \in ToSet(Collect(c).obs)
          BY <3>1, <3>4, <3>5, <4>2
        <5>2. ~Observations(c).err /\ Collect(c).obs = Observations(c).obs
          BY <5>1, SucceedingCollects
        <5>3. QED
          BY <3>1, <5>1, <5>2, CollectorGives
      <4>3. QED
        BY <3>2, <4>1, <4>2 DEF SeenInv
    <3>7. ASSUME NEW c \in Succeeded, c \in Succeeded', NEW o \in Observed(c), o \notin Observed(c)'
          PROVE  \E p \in DOMAIN Contents : host[p] # seen[p] /\ Decides(p, o.source)
      BY <1>2, <3>1, <3>4, <3>5, <3>7, LostIsDecided
    <3>8. ASSUME "client" \in Succeeded, "client" \notin Succeeded'
          PROVE  config.strict \/ InvalidIn(Observed("client")')
      <4>1. "client" \in config.enabled
        BY <3>3, <3>8 DEF Succeeded
      <4>2. Collect("client").err
        BY <3>4, <3>8, <4>1
      <4>3. QED
        BY <3>1, <3>5, <4>1, <4>2, ClientFails
    <3>9. Keeps
      BY <3>7, <3>8
    <3>10. QED
      BY <2>1, <3>6, <3>9
  <2>3. CASE UNCHANGED <<results, seen, config>>
    <3>1. /\ Succeeded' = Succeeded
          /\ \A c : Observed(c)' = Observed(c)
      BY <2>3 DEF Succeeded, Observed, ToSet
    <3>2. SeenInv'
      BY <1>2, <2>3, <3>1 DEF SeenInv
    <3>3. Keeps
      BY <3>1
    <3>4. QED
      BY <2>1, <3>2, <3>3
  <2>4. QED
    BY <1>2, <2>2, <2>3 DEF Next, Start, Edit, Idle, vars
<1>3. QED
  BY <1>1, <1>2, PTL DEF Spec, OnlyItsOwnSeriesAreLost
=============================================================================
