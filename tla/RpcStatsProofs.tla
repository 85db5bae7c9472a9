--------------------------- MODULE RpcStatsProofs ---------------------------
(***************************************************************************)
(* Proofs about RpcStats, for every file of any length: what the parser    *)
(* carries from line to line is what the lines above say.                  *)
(***************************************************************************)
EXTENDS RpcStats, FiniteSetTheorems, TLAPS

-----------------------------------------------------------------------------
(* Induction over the naturals.  The induction theorems of the library      *)
(* take an operator, which no prover here can instantiate; the order of    *)
(* finite sets is well founded, and that is stated without one.            *)

\* A set of naturals has a least element.
LEMMA Least ==
  ASSUME NEW T, T \subseteq Nat, T # {}
  PROVE  \E x \in T : \A y \in T : x <= y
<1>1. PICK F : F = {0..n : n \in T}
  BY Zenon
<1>2. F \subseteq FiniteSubsetsOf(Nat)
  <2>1. ASSUME NEW n \in T
        PROVE  0..n \in SUBSET Nat /\ IsFiniteSet(0..n)
    <3>1. n \in Int /\ 0 \in Int
      OBVIOUS
    <3>2. QED
      BY <3>1, FS_Interval
  <2>2. QED
    BY <1>1, <2>1 DEF FiniteSubsetsOf
<1>3. F # {}
  BY <1>1
<1>4. IsWellFoundedOn(StrictSubsetOrdering(Nat), FiniteSubsetsOf(Nat))
  BY FS_StrictSubsetOrderingWellFounded, Zenon
<1>5. PICK S \in F : \A U \in F : <<U, S>> \notin StrictSubsetOrdering(Nat)
  BY <1>2, <1>3, <1>4, WFMin, Zenon
<1>6. PICK n \in T : S = 0..n
  BY <1>1
<1>7. ASSUME NEW m \in T, ~ (n <= m)
      PROVE  FALSE
  <2>1. 0..m \in F
    BY <1>1
  <2>2. 0..m \subseteq 0..n /\ 0..m # 0..n
    BY <1>7
  <2>3. 0..m \in SUBSET Nat /\ 0..n \in SUBSET Nat
    OBVIOUS
  <2>4. <<0..m, 0..n>> \in StrictSubsetOrdering(Nat)
    BY <2>2, <2>3 DEF StrictSubsetOrdering
  <2>5. QED
    BY <1>5, <1>6, <2>1, <2>4, Zenon
<1>8. QED
  BY <1>7

\* The greatest of 0 and some lines.
LEMMA GreatestLine ==
  ASSUME NEW n \in Nat, NEW T, T \subseteq 1..n
  PROVE  /\ Max({0} \cup T) \in {0} \cup T
         /\ \A j \in T : j <= Max({0} \cup T)
<1>1. PICK D : D = {n - j : j \in {0} \cup T}
  BY Zenon
<1>2. D \subseteq Nat /\ D # {}
  BY <1>1
<1>3. PICK d \in D : \A e \in D : d <= e
  BY <1>2, Least
<1>4. PICK x \in {0} \cup T : d = n - x
  BY <1>1, <1>3
<1>5. ASSUME NEW y \in {0} \cup T
      PROVE  x >= y
  <2>1. n - y \in D
    BY <1>1
  <2>2. n - x <= n - y
    BY <1>3, <1>4, <2>1
  <2>3. x \in Int /\ y \in Int
    OBVIOUS
  <2>4. QED
    BY <2>2, <2>3
<1>6. PICK m : m = Max({0} \cup T)
  BY Zenon
<1>7. m \in {0} \cup T /\ \A y \in {0} \cup T : m >= y
  BY <1>5, <1>6, Zenon DEF Max
<1>8. QED
  BY <1>6, <1>7

\* No other line is the greatest.
LEMMA GreatestLineIs ==
  ASSUME NEW n \in Nat, NEW T, T \subseteq 1..n, NEW x \in {0} \cup T, \A j \in T : j <= x
  PROVE  Max({0} \cup T) = x
<1>1. PICK m : m = Max({0} \cup T)
  BY Zenon
<1>2. m \in {0} \cup T /\ \A j \in T : j <= m
  BY <1>1, GreatestLine
<1>3. QED
  BY <1>1, <1>2

\* What is assumed of the lines and of their number, by itself.
LEMMA LinesAreLines == Lines \subseteq Line /\ MaxLines \in Nat
BY RpcStatsAssumption, Zenon

-----------------------------------------------------------------------------
(* The reference, as operators of the file.                                *)

Openers(f, i) == {j \in 1..(i - 1) : OpensSection(f[j])}
Headers(f, i) == {j \in 1..(i - 1) : IsHeader(f[j])}
OpenerOf(f, i) == Max({0} \cup Openers(f, i))
HeaderOf(f, i) == Max({0} \cup Headers(f, i))

\* "modify" is the last header above line i.
Announced(f, i) == HeaderOf(f, i) # 0 /\ f[HeaderOf(f, i)].start = "modify"

\* The histogram that a line opens, and the operation it has for buckets of one
\* column, if the announcement above it is `announced`.
Opened(line) ==
  IF line.start = "pages per rpc" THEN "pages_per_rpc"
  ELSE IF line.start = "offset" THEN "rpcs_offset" ELSE "rpcs_in_flight"

OpenedFor(line, announced) ==
  IF IsSubsection(line) THEN OperationOf(line)
  ELSE IF line.start = "rpcs in flight" /\ announced THEN "modify" ELSE ""

\* The section says what the lines of f say.
SectionFollows(f, s) ==
  LET n == Len(f) + 1
      o == OpenerOf(f, n)
  IN /\ s.name = IF o = 0 THEN "" ELSE Opened(f[o])
     /\ s.operation = IF o = 0 THEN "" ELSE OpenedFor(f[o], Announced(f, o))
     /\ s.pendingOperation = IF Announced(f, n) THEN "modify" ELSE ""

\* Where the reference looks.
LEMMA OpenerAndHeader ==
  ASSUME NEW f, NEW i \in Nat \ {0}
  PROVE  /\ OpenerOf(f, i) \in 0..(i - 1)
         /\ OpenerOf(f, i) # 0 => OpensSection(f[OpenerOf(f, i)])
         /\ HeaderOf(f, i) \in 0..(i - 1)
<1>1. PICK n \in Nat : n = i - 1
  OBVIOUS
<1>2. Openers(f, i) \subseteq 1..n /\ Headers(f, i) \subseteq 1..n
  BY <1>1 DEF Openers, Headers
<1>3. /\ OpenerOf(f, i) \in {0} \cup Openers(f, i)
      /\ HeaderOf(f, i) \in {0} \cup Headers(f, i)
  BY <1>2, GreatestLine DEF OpenerOf, HeaderOf
<1>4. QED
  BY <1>1, <1>2, <1>3 DEF Openers

\* A line more changes nothing for the lines above it.
LEMMA AboveStays ==
  ASSUME NEW f \in Seq(Line), NEW line \in Line, NEW i \in 1..Len(f) + 1
  PROVE  /\ OpenerOf(Append(f, line), i) = OpenerOf(f, i)
         /\ HeaderOf(Append(f, line), i) = HeaderOf(f, i)
<1>1. \A j \in 1..(i - 1) : Append(f, line)[j] = f[j]
  OBVIOUS
<1>2. /\ Openers(Append(f, line), i) = Openers(f, i)
      /\ Headers(Append(f, line), i) = Headers(f, i)
  BY <1>1 DEF Openers, Headers
<1>3. QED
  BY <1>2 DEF OpenerOf, HeaderOf

\* For the next line, the line is the opener, or the header, if it is one.
LEMMA BelowFollows ==
  ASSUME NEW f \in Seq(Line), NEW line \in Line, NEW n, n = Len(f) + 1
  PROVE  /\ OpenerOf(Append(f, line), n + 1) =
              IF OpensSection(line) THEN n ELSE OpenerOf(f, n)
         /\ HeaderOf(Append(f, line), n + 1) =
              IF IsHeader(line) THEN n ELSE HeaderOf(f, n)
<1>1. n \in Nat \ {0} /\ Append(f, line)[n] = line /\ (n + 1) - 1 = n
  OBVIOUS
<1>2. \A j \in 1..(n - 1) : Append(f, line)[j] = f[j]
  OBVIOUS
<1>3. \A j \in 1..n : j \in 1..(n - 1) \/ j = n
  BY <1>1
<1>4. Openers(Append(f, line), n + 1) =
        IF OpensSection(line) THEN Openers(f, n) \cup {n} ELSE Openers(f, n)
  BY <1>1, <1>2, <1>3 DEF Openers
<1>5. Headers(Append(f, line), n + 1) =
        IF IsHeader(line) THEN Headers(f, n) \cup {n} ELSE Headers(f, n)
  BY <1>1, <1>2, <1>3 DEF Headers
<1>6. Openers(f, n) \cup {n} \subseteq 1..n /\ Headers(f, n) \cup {n} \subseteq 1..n
  BY <1>1 DEF Openers, Headers
<1>7. ASSUME NEW T, T \subseteq 1..n, n \in T
      PROVE  Max({0} \cup T) = n
  <2>1. n \in {0} \cup T /\ \A j \in T : j <= n
    BY <1>1, <1>7
  <2>2. QED
    BY <1>1, <1>7, <2>1, GreatestLineIs
<1>8. /\ Max({0} \cup (Openers(f, n) \cup {n})) = n
      /\ Max({0} \cup (Headers(f, n) \cup {n})) = n
  <2>1. n \in Openers(f, n) \cup {n} /\ n \in Headers(f, n) \cup {n}
    OBVIOUS
  <2>2. QED
    BY <1>6, <1>7, <2>1, Zenon
<1>9. QED
  BY <1>4, <1>5, <1>8, Zenon DEF OpenerOf, HeaderOf

-----------------------------------------------------------------------------
(* The section.                                                            *)

SectionType ==
  [name : Sections \cup {""}, operation : Operations \cup {""}, pendingOperation : {"", "modify"}]

\* The operation of a subsection header.
LEMMA OperationType ==
  ASSUME NEW line, IsSubsection(line)
  PROVE  /\ OperationOf(line) \in {"read", "write", "dio_read", "dio_write"}
         /\ line.start = Subsections[OperationOf(line)]
<1>1. OperationOf(line) \in DOMAIN Subsections /\ line.start = Subsections[OperationOf(line)]
  BY Zenon DEF IsSubsection, OperationOf
<1>2. DOMAIN Subsections = {"read", "write", "dio_read", "dio_write"}
  BY DEF Subsections
<1>3. QED
  BY <1>1, <1>2, Zenon

\* A subsection header begins like no other line.
LEMMA SubsectionStarts ==
  ASSUME NEW line, IsSubsection(line)
  PROVE  line.start \notin {"", "snapshot_time", "modify", "pages per rpc", "rpcs in flight", "offset"}
<1>1. DOMAIN Subsections = {"read", "write", "dio_read", "dio_write"}
  BY DEF Subsections
<1>2. /\ Subsections["read"] = "read RPCs in flight:"
      /\ Subsections["write"] = "write RPCs in flight:"
      /\ Subsections["dio_read"] = "dio read RPCs in flight:"
      /\ Subsections["dio_write"] = "dio write RPCs in flight:"
  BY DEF Subsections
<1>3. QED
  BY <1>1, <1>2 DEF IsSubsection

\* What a line begins with decides what it is.
LEMMA Starts ==
  ASSUME NEW line \in Line
  PROVE  /\ IsSubsection(line) =>
              line.start \notin {"", "snapshot_time", "modify", "pages per rpc", "rpcs in flight", "offset"}
         /\ ~IsSubsection(line) =>
              line.start \in {"", "snapshot_time", "modify", "pages per rpc", "rpcs in flight", "offset"}
         /\ OpensSection(line) => IsHeader(line)
<1>1. line.start \in {"", "snapshot_time", "modify", "pages per rpc", "rpcs in flight", "offset"}
        \cup {Subsections[op] : op \in DOMAIN Subsections}
  BY DEF Line
<1>2. QED
  BY <1>1, SubsectionStarts DEF IsSubsection, OpensSection, IsHeader

\* Announcing an operation, or dropping the announcement.
LEMMA AnnounceIs ==
  ASSUME NEW s \in SectionType, NEW p \in {"", "modify"}
  PROVE  /\ [s EXCEPT !.pendingOperation = p] \in SectionType
         /\ [s EXCEPT !.pendingOperation = p].name = s.name
         /\ [s EXCEPT !.pendingOperation = p].operation = s.operation
         /\ [s EXCEPT !.pendingOperation = p].pendingOperation = p
BY DEF SectionType

Entered(t, n, op) ==
  t \in SectionType /\ t.name = n /\ t.operation = op /\ t.pendingOperation = ""

\* Entering a section.
LEMMA EnterIs ==
  ASSUME NEW s, NEW n \in Sections, NEW op \in Operations \cup {""}, NEW t,
         t = Enter(s, n, op)
  PROVE  Entered(t, n, op)
<1>1. PICK none, N, O, P :
        /\ none = "" /\ N = Sections \cup {""} /\ O = Operations \cup {""} /\ P = {"", "modify"}
  BY Zenon
<1>2. n \in N /\ op \in O /\ none \in P
  BY <1>1, Zenon
<1>3. PICK u : u = [name |-> n, operation |-> op, pendingOperation |-> none]
  BY Zenon
<1>4. t = u
  BY <1>1, <1>3, Zenon DEF Enter
<1>5. /\ u \in [name : N, operation : O, pendingOperation : P]
      /\ u.name = n /\ u.operation = op /\ u.pendingOperation = none
  BY <1>2, <1>3
<1>6. QED
  BY <1>1, <1>4, <1>5, Zenon DEF Entered, SectionType

\* The section t after the line, without the order of the tests.
Applied(s, line, t) ==
  /\ t.name = IF OpensSection(line) THEN Opened(line) ELSE s.name
  /\ t.operation = IF OpensSection(line)
                   THEN OpenedFor(line, s.pendingOperation = "modify")
                   ELSE s.operation
  /\ t.pendingOperation = IF line.start = "modify" THEN "modify"
                          ELSE IF IsHeader(line) THEN "" ELSE s.pendingOperation

\* The parser applies the line.
LEMMA ApplyHeaderIs ==
  ASSUME NEW line \in Line, NEW s \in SectionType, line.start # "snapshot_time",
         NEW t, t = ApplyHeader(s, line)
  PROVE  t \in SectionType /\ Applied(s, line, t)
<1>. USE DEF Applied
<1>1. s.pendingOperation \in {"", "modify"}
  BY DEF SectionType
<1>2. CASE line.start = "modify"
  <2>1. ~IsSubsection(line) /\ ~OpensSection(line) /\ IsHeader(line)
    BY <1>2, Starts DEF OpensSection, IsHeader
  <2>2. t = [s EXCEPT !.pendingOperation = "modify"]
    BY <1>2, <2>1 DEF ApplyHeader
  <2>3. QED
    BY <1>2, <2>1, <2>2, AnnounceIs
<1>3. CASE line.start = "pages per rpc"
  <2>1. ~IsSubsection(line) /\ OpensSection(line) /\ IsHeader(line)
    BY <1>3, Starts DEF OpensSection, IsHeader
  <2>2. t = Enter(s, "pages_per_rpc", "")
    BY <1>3, <2>1 DEF ApplyHeader
  <2>3. Opened(line) = "pages_per_rpc" /\ OpenedFor(line, s.pendingOperation = "modify") = ""
    BY <1>3, <2>1 DEF Opened, OpenedFor
  <2>4. /\ t \in SectionType /\ t.name = "pages_per_rpc" /\ t.operation = ""
        /\ t.pendingOperation = ""
    <3>1. "pages_per_rpc" \in Sections /\ "" \in Operations \cup {""}
      BY DEF Sections
    <3>2. PICK n, op : n = "pages_per_rpc" /\ op = ""
      BY Zenon
    <3>3. n \in Sections /\ op \in Operations \cup {""}
      BY <3>1, <3>2, Zenon
    <3>4. PICK u : u = Enter(s, n, op)
      BY Zenon
    <3>5. Entered(u, n, op)
      BY <3>3, <3>4, EnterIs, Zenon
    <3>6. t = u
      BY <2>2, <3>2, <3>4, Zenon
    <3>7. QED
      BY <3>2, <3>5, <3>6, Zenon DEF Entered
  <2>5. QED
    BY <1>3, <2>1, <2>3, <2>4
<1>4. CASE line.start = "rpcs in flight"
  <2>1. ~IsSubsection(line) /\ OpensSection(line) /\ IsHeader(line)
    BY <1>4, Starts DEF OpensSection, IsHeader
  <2>2. t = Enter(s, "rpcs_in_flight", s.pendingOperation)
    BY <1>4, <2>1 DEF ApplyHeader
  <2>3. /\ Opened(line) = "rpcs_in_flight"
        /\ OpenedFor(line, s.pendingOperation = "modify") = s.pendingOperation
    BY <1>1, <1>4, <2>1 DEF Opened, OpenedFor
  <2>4. s.pendingOperation \in {"", "modify"}
    BY <1>1
  <2>5. /\ t \in SectionType /\ t.name = "rpcs_in_flight" /\ t.operation = s.pendingOperation
        /\ t.pendingOperation = ""
    <3>1. "rpcs_in_flight" \in Sections /\ s.pendingOperation \in Operations \cup {""}
      BY <2>4 DEF Sections, Operations
    <3>2. PICK n, op : n = "rpcs_in_flight" /\ op = s.pendingOperation
      BY Zenon
    <3>3. n \in Sections /\ op \in Operations \cup {""}
      BY <3>1, <3>2, Zenon
    <3>4. PICK u : u = Enter(s, n, op)
      BY Zenon
    <3>5. Entered(u, n, op)
      BY <3>3, <3>4, EnterIs, Zenon
    <3>6. t = u
      BY <2>2, <3>2, <3>4, Zenon
    <3>7. QED
      BY <3>2, <3>5, <3>6, Zenon DEF Entered
  <2>6. QED
    BY <1>4, <2>1, <2>3, <2>5
<1>5. CASE IsSubsection(line)
  <2>1. line.start \notin {"", "snapshot_time", "modify", "pages per rpc", "rpcs in flight", "offset"}
    BY <1>5, Starts
  <2>2. t = Enter(s, "rpcs_in_flight", OperationOf(line))
    BY <1>5, <2>1 DEF ApplyHeader
  <2>3. OpensSection(line) /\ IsHeader(line)
    BY <1>5, <2>1 DEF OpensSection, IsHeader
  <2>4. OperationOf(line) \in {"read", "write", "dio_read", "dio_write"}
    BY <1>5, OperationType
  <2>5. /\ Opened(line) = "rpcs_in_flight"
        /\ OpenedFor(line, s.pendingOperation = "modify") = OperationOf(line)
    BY <1>5, <2>1 DEF Opened, OpenedFor
  <2>6. /\ t \in SectionType /\ t.name = "rpcs_in_flight" /\ t.operation = OperationOf(line)
        /\ t.pendingOperation = ""
    <3>1. "rpcs_in_flight" \in Sections /\ OperationOf(line) \in Operations \cup {""}
      BY <2>4 DEF Sections, Operations
    <3>2. PICK n, op : n = "rpcs_in_flight" /\ op = OperationOf(line)
      BY Zenon
    <3>3. n \in Sections /\ op \in Operations \cup {""}
      BY <3>1, <3>2, Zenon
    <3>4. PICK u : u = Enter(s, n, op)
      BY Zenon
    <3>5. Entered(u, n, op)
      BY <3>3, <3>4, EnterIs, Zenon
    <3>6. t = u
      BY <2>2, <3>2, <3>4, Zenon
    <3>7. QED
      BY <3>2, <3>5, <3>6, Zenon DEF Entered
  <2>7. QED
    BY <2>1, <2>3, <2>5, <2>6
<1>6. CASE line.start = "offset"
  <2>1. ~IsSubsection(line) /\ OpensSection(line) /\ IsHeader(line)
    BY <1>6, Starts DEF OpensSection, IsHeader
  <2>2. t = Enter(s, "rpcs_offset", "")
    BY <1>6, <2>1 DEF ApplyHeader
  <2>3. Opened(line) = "rpcs_offset" /\ OpenedFor(line, s.pendingOperation = "modify") = ""
    BY <1>6, <2>1 DEF Opened, OpenedFor
  <2>4. /\ t \in SectionType /\ t.name = "rpcs_offset" /\ t.operation = ""
        /\ t.pendingOperation = ""
    <3>1. "rpcs_offset" \in Sections /\ "" \in Operations \cup {""}
      BY DEF Sections
    <3>2. PICK n, op : n = "rpcs_offset" /\ op = ""
      BY Zenon
    <3>3. n \in Sections /\ op \in Operations \cup {""}
      BY <3>1, <3>2, Zenon
    <3>4. PICK u : u = Enter(s, n, op)
      BY Zenon
    <3>5. Entered(u, n, op)
      BY <3>3, <3>4, EnterIs, Zenon
    <3>6. t = u
      BY <2>2, <3>2, <3>4, Zenon
    <3>7. QED
      BY <3>2, <3>5, <3>6, Zenon DEF Entered
  <2>5. QED
    BY <1>6, <2>1, <2>3, <2>4
<1>7. CASE line.start = ""
  <2>1. ~IsSubsection(line) /\ ~OpensSection(line) /\ (IsHeader(line) <=> line.columns)
    BY <1>7, Starts DEF OpensSection, IsHeader
  <2>2. line.columns \in BOOLEAN
    BY DEF Line
  <2>3. CASE line.columns
    <3>1. t = [s EXCEPT !.pendingOperation = ""]
      BY <1>7, <2>1, <2>3 DEF ApplyHeader
    <3>2. QED
      BY <1>7, <2>1, <2>3, <3>1, AnnounceIs
  <2>4. CASE ~line.columns
    <3>1. t = s
      BY <1>7, <2>1, <2>4 DEF ApplyHeader
    <3>2. QED
      BY <1>7, <2>1, <2>4, <3>1
  <2>5. QED
    BY <2>2, <2>3, <2>4
<1>8. QED
  BY <1>2, <1>3, <1>4, <1>5, <1>6, <1>7, Starts

\* The announcement above a line stays when a line is read.
LEMMA AnnouncedStays ==
  ASSUME NEW f \in Seq(Line), NEW line \in Line, NEW i \in 1..Len(f) + 1
  PROVE  Announced(Append(f, line), i) <=> Announced(f, i)
<1>1. HeaderOf(Append(f, line), i) = HeaderOf(f, i) /\ HeaderOf(f, i) \in 0..(i - 1)
  BY AboveStays, OpenerAndHeader
<1>2. HeaderOf(f, i) # 0 => Append(f, line)[HeaderOf(f, i)] = f[HeaderOf(f, i)]
  BY <1>1
<1>3. QED
  BY <1>1, <1>2, Zenon DEF Announced

\* A line that is read keeps what the section says true.
LEMMA SectionStillFollows ==
  ASSUME NEW f \in Seq(Line), NEW line \in Line, NEW s \in SectionType, SectionFollows(f, s),
         NEW t, Applied(s, line, t)
  PROVE  SectionFollows(Append(f, line), t)
<1>1. PICK n, g, o : n = Len(f) + 1 /\ g = Append(f, line) /\ o = OpenerOf(f, n)
  BY Zenon
<1>2. /\ n \in 1..Len(f) + 1 /\ n \in Nat \ {0} /\ g[n] = line /\ Len(g) + 1 = n + 1
      /\ \A j \in 1..(n - 1) : g[j] = f[j]
  BY <1>1
<1>3. o \in 0..(n - 1)
  BY <1>1, <1>2, OpenerAndHeader
<1>4. /\ OpenerOf(g, n + 1) = IF OpensSection(line) THEN n ELSE o
      /\ HeaderOf(g, n + 1) = IF IsHeader(line) THEN n ELSE HeaderOf(f, n)
  BY <1>1, BelowFollows
<1>5. /\ s.name = IF o = 0 THEN "" ELSE Opened(f[o])
      /\ s.operation = IF o = 0 THEN "" ELSE OpenedFor(f[o], Announced(f, o))
      /\ s.pendingOperation = IF Announced(f, n) THEN "modify" ELSE ""
  BY <1>1, Zenon DEF SectionFollows
<1>6. /\ t.name = IF OpensSection(line) THEN Opened(line) ELSE s.name
      /\ t.operation = IF OpensSection(line)
                       THEN OpenedFor(line, s.pendingOperation = "modify")
                       ELSE s.operation
      /\ t.pendingOperation = IF line.start = "modify" THEN "modify"
                              ELSE IF IsHeader(line) THEN "" ELSE s.pendingOperation
  BY DEF Applied
<1>7. Announced(g, n) <=> Announced(f, n)
  BY <1>1, <1>2, AnnouncedStays
<1>8. (s.pendingOperation = "modify") <=> Announced(g, n)
  BY <1>5, <1>7
<1>9. /\ t.name = IF OpenerOf(g, n + 1) = 0 THEN "" ELSE Opened(g[OpenerOf(g, n + 1)])
      /\ t.operation = IF OpenerOf(g, n + 1) = 0 THEN ""
                       ELSE OpenedFor(g[OpenerOf(g, n + 1)], Announced(g, OpenerOf(g, n + 1)))
  <2>1. CASE OpensSection(line)
    <3>1. OpenerOf(g, n + 1) = n /\ n # 0
      BY <1>2, <1>4, <2>1
    <3>2. t.name = Opened(line)
      BY <1>6, <2>1, Zenon
    <3>3. t.operation = OpenedFor(line, Announced(g, n))
      <4>1. t.operation = OpenedFor(line, s.pendingOperation = "modify")
        BY <1>6, <2>1, Zenon
      <4>2. OpenedFor(line, s.pendingOperation = "modify") = OpenedFor(line, Announced(g, n))
        BY <1>8, Zenon DEF OpenedFor
      <4>3. QED
        BY <4>1, <4>2, Zenon
    <3>4. QED
      BY <1>2, <3>1, <3>2, <3>3, Zenon
  <2>2. CASE ~OpensSection(line)
    <3>1. OpenerOf(g, n + 1) = o /\ t.name = s.name /\ t.operation = s.operation
      BY <1>4, <1>6, <2>2, Zenon
    <3>2. CASE o = 0
      BY <1>5, <3>1, <3>2, Zenon
    <3>3. CASE o # 0
      <4>1. g[o] = f[o] /\ o \in 1..Len(f) + 1
        BY <1>1, <1>2, <1>3, <3>3
      <4>2. Announced(g, o) <=> Announced(f, o)
        BY <1>1, <4>1, AnnouncedStays
      <4>3. OpenedFor(g[o], Announced(g, o)) = OpenedFor(f[o], Announced(f, o))
        BY <4>1, <4>2, Zenon DEF OpenedFor
      <4>4. QED
        BY <1>5, <3>1, <3>3, <4>1, <4>3, Zenon
    <3>4. QED
      BY <3>2, <3>3
  <2>3. QED
    BY <2>1, <2>2
<1>10. t.pendingOperation = IF Announced(g, n + 1) THEN "modify" ELSE ""
  <2>1. CASE IsHeader(line)
    <3>1. HeaderOf(g, n + 1) = n /\ n # 0
      BY <1>2, <1>4, <2>1
    <3>2. Announced(g, n + 1) <=> line.start = "modify"
      BY <1>2, <3>1, Zenon DEF Announced
    <3>3. QED
      BY <1>6, <2>1, <3>2, Zenon
  <2>2. CASE ~IsHeader(line)
    <3>1. HeaderOf(g, n + 1) = HeaderOf(f, n)
      BY <1>4, <2>2, Zenon
    <3>2. HeaderOf(f, n) # 0 => g[HeaderOf(f, n)] = f[HeaderOf(f, n)]
      <4>1. HeaderOf(f, n) \in 0..(n - 1)
        BY <1>2, OpenerAndHeader
      <4>2. QED
        BY <1>2, <4>1
    <3>3. Announced(g, n + 1) <=> Announced(f, n)
      BY <3>1, <3>2, Zenon DEF Announced
    <3>4. line.start # "modify"
      BY <2>2 DEF IsHeader
    <3>5. QED
      BY <1>5, <1>6, <2>2, <3>3, <3>4, Zenon
  <2>3. QED
    BY <2>1, <2>2
<1>11. QED
  BY <1>1, <1>2, <1>9, <1>10, Zenon DEF SectionFollows

-----------------------------------------------------------------------------
(* The observations.                                                       *)

Metrics == Sections \cup {"rpcs_current", "pending_pages"}
AnyOperation == Operations \cup {""}
Obs == [metric : Metrics, operation : AnyOperation, line : Nat]

\* What a sequence of observations holds, for the lines up to the n-th.
Holds(os, n, S) ==
  /\ os \in Seq(Obs)
  /\ {os[k] : k \in DOMAIN os} = S
  /\ IsInjective(os)
  /\ \A x \in S : x.line \in 1..n

\* What the observations of the n-th line are.
HoldsLine(os, n, S) ==
  /\ os \in Seq(Obs)
  /\ {os[k] : k \in DOMAIN os} = S
  /\ IsInjective(os)
  /\ \A x \in S : x.line = n

\* The observations of a line are new to those of the lines above it.
LEMMA HoldsMore ==
  ASSUME NEW n \in Nat, NEW os, NEW S, Holds(os, n, S),
         NEW more, NEW M, HoldsLine(more, n + 1, M)
  PROVE  Holds(os \o more, n + 1, S \cup M)
<1>. /\ more \in Seq(Obs) /\ M = {more[k] : k \in DOMAIN more} /\ IsInjective(more)
     /\ \A x \in M : x.line = n + 1
  BY DEF HoldsLine
<1>1. os \in Seq(Obs) /\ os \o more \in Seq(Obs) /\ Len(os) \in Nat /\ Len(more) \in Nat
  BY DEF Holds
<1>2. /\ Len(os \o more) = Len(os) + Len(more)
      /\ \A k \in 1..Len(os) : (os \o more)[k] = os[k]
      /\ \A k \in 1..Len(more) : (os \o more)[Len(os) + k] = more[k]
  BY <1>1
<1>3. /\ DOMAIN os = 1..Len(os) /\ DOMAIN more = 1..Len(more)
      /\ DOMAIN (os \o more) = 1..(Len(os) + Len(more))
  BY <1>1, <1>2
<1>4. \A k \in 1..(Len(os) + Len(more)) :
         k \in 1..Len(os) \/ \E m \in 1..Len(more) : k = Len(os) + m
  <2>1. ASSUME NEW k \in 1..(Len(os) + Len(more)), k \notin 1..Len(os)
        PROVE  \E m \in 1..Len(more) : k = Len(os) + m
    <3>1. k - Len(os) \in 1..Len(more) /\ k = Len(os) + (k - Len(os))
      BY <1>1, <2>1
    <3>2. QED
      BY <3>1, Zenon
  <2>2. QED
    BY <2>1
<1>5. PICK all : all = os \o more
  BY Zenon
<1>6. /\ all \in Seq(Obs) /\ DOMAIN all = 1..(Len(os) + Len(more))
      /\ \A k \in DOMAIN os : all[k] = os[k] /\ k \in DOMAIN all
      /\ \A k \in DOMAIN more : all[Len(os) + k] = more[k] /\ Len(os) + k \in DOMAIN all
      /\ \A k \in DOMAIN all : k \in DOMAIN os \/ \E m \in DOMAIN more : k = Len(os) + m
  <2>1. all \in Seq(Obs) /\ DOMAIN all = 1..(Len(os) + Len(more))
    BY <1>1, <1>3, <1>5, Zenon
  <2>2. \A k \in DOMAIN os : all[k] = os[k] /\ k \in DOMAIN all
    <3>1. \A k \in 1..Len(os) : k \in 1..(Len(os) + Len(more))
      BY <1>1
    <3>2. QED
      BY <1>2, <1>3, <1>5, <3>1, Zenon
  <2>3. \A k \in DOMAIN more : all[Len(os) + k] = more[k] /\ Len(os) + k \in DOMAIN all
    <3>1. \A k \in 1..Len(more) : Len(os) + k \in 1..(Len(os) + Len(more))
      BY <1>1
    <3>2. QED
      BY <1>2, <1>3, <1>5, <3>1, Zenon
  <2>4. \A k \in DOMAIN all : k \in DOMAIN os \/ \E m \in DOMAIN more : k = Len(os) + m
    BY <1>3, <1>4, <1>5, Zenon
  <2>5. QED
    BY <2>1, <2>2, <2>3, <2>4
<1>7. {all[k] : k \in DOMAIN all} = S \cup M
  <2>1. S = {os[k] : k \in DOMAIN os}
    BY DEF Holds
  <2>2. ASSUME NEW k \in DOMAIN all
        PROVE  all[k] \in S \cup M
    BY <1>6, <2>1
  <2>3. \A k \in DOMAIN os : \E j \in DOMAIN all : all[j] = os[k]
    BY <1>6
  <2>4. \A k \in DOMAIN more : \E j \in DOMAIN all : all[j] = more[k]
    BY <1>6
  <2>5. \A x \in S \cup M : \E j \in DOMAIN all : all[j] = x
    BY <2>1, <2>3, <2>4
  <2>6. QED
    BY <2>2, <2>5
<1>8. \A x \in S : x.line \in 1..n
  BY DEF Holds
<1>9. ASSUME NEW j \in DOMAIN all, NEW k \in DOMAIN all, all[j] = all[k]
      PROVE  j = k
  <2>1. \A d \in DOMAIN os : os[d].line \in 1..n
    BY <1>8 DEF Holds
  <2>2. \A d \in DOMAIN more : more[d].line = n + 1
    OBVIOUS
  <2>3. CASE j \in DOMAIN os /\ k \in DOMAIN os
    <3>1. IsInjective(os)
      BY DEF Holds
    <3>2. QED
      BY <1>6, <1>9, <2>3, <3>1, Zenon DEF IsInjective
  <2>4. ASSUME j \in DOMAIN os, NEW m \in DOMAIN more, k = Len(os) + m
        PROVE  FALSE
    <3>1. os[j] = more[m]
      BY <1>6, <1>9, <2>4, Zenon
    <3>2. os[j].line \in 1..n /\ os[j].line = n + 1
      BY <2>1, <2>2, <2>4, <3>1, Zenon
    <3>3. QED
      BY <3>2
  <2>5. ASSUME k \in DOMAIN os, NEW m \in DOMAIN more, j = Len(os) + m
        PROVE  FALSE
    <3>1. os[k] = more[m]
      BY <1>6, <1>9, <2>5, Zenon
    <3>2. os[k].line \in 1..n /\ os[k].line = n + 1
      BY <2>1, <2>2, <2>5, <3>1, Zenon
    <3>3. QED
      BY <3>2
  <2>6. ASSUME NEW a \in DOMAIN more, NEW b \in DOMAIN more, j = Len(os) + a, k = Len(os) + b
        PROVE  j = k
    <3>1. more[a] = more[b]
      BY <1>6, <1>9, <2>6, Zenon
    <3>2. a = b
      BY <3>1, Zenon DEF IsInjective
    <3>3. QED
      BY <2>6, <3>2
  <2>7. QED
    BY <1>6, <2>3, <2>4, <2>5, <2>6, Zenon
<1>10. \A x \in S \cup M : x.line \in 1..(n + 1)
  <2>1. \A x \in S : x.line \in 1..(n + 1)
    BY <1>8
  <2>2. \A x \in M : x.line \in 1..(n + 1)
    OBVIOUS
  <2>3. QED
    BY <2>1, <2>2
<1>11. IsInjective(all)
  BY <1>9, Zenon DEF IsInjective
<1>12. QED
  BY <1>5, <1>6, <1>7, <1>10, <1>11, Zenon DEF Holds

-----------------------------------------------------------------------------
(* What a line means, as operators of the file.                            *)

\* The operation of a bucket of one column in the section that line o opens.
SingleFor(f, o) ==
  IF IsSubsection(f[o]) THEN OperationOf(f[o])
  ELSE IF f[o].start = "rpcs in flight" /\ Announced(f, o) THEN "modify" ELSE "read"

Counts(f, i) ==
  /\ f[i].bucket # "none" /\ f[i].scalar = ""
  /\ f[i].start = "" /\ ~f[i].columns
  /\ OpenerOf(f, i) # 0

ScalarMeans(line, i) ==
  IF line.scalar # "" /\ line.start # "snapshot_time"
  THEN {Observation(line.scalar, line.operation, i)} ELSE {}

BucketMeans(line, name, operation, i) ==
  IF line.bucket = "two"
  THEN {Observation(name, "read", i), Observation(name, "write", i)}
  ELSE {Observation(name, operation, i)}

Says(f, i) ==
  ScalarMeans(f[i], i)
    \cup
  (IF ~Counts(f, i) THEN {}
   ELSE BucketMeans(f[i], Opened(f[OpenerOf(f, i)]), SingleFor(f, OpenerOf(f, i)), i))

\* A line means what it meant when more lines are read.
LEMMA SaysStays ==
  ASSUME NEW f \in Seq(Line), NEW line \in Line, NEW i \in 1..Len(f)
  PROVE  /\ Says(Append(f, line), i) = Says(f, i)
         /\ Counts(Append(f, line), i) <=> Counts(f, i)
         /\ Append(f, line)[i] = f[i]
<1>1. PICK g, o : g = Append(f, line) /\ o = OpenerOf(f, i)
  BY Zenon
<1>2. i \in 1..Len(f) + 1 /\ i \in Nat \ {0} /\ \A j \in 1..Len(f) : g[j] = f[j]
  BY <1>1
<1>3. OpenerOf(g, i) = o /\ o \in 0..(i - 1)
  BY <1>1, <1>2, AboveStays, OpenerAndHeader
<1>4. Counts(g, i) <=> Counts(f, i)
  BY <1>1, <1>2, <1>3, Zenon DEF Counts
<1>5. CASE o = 0
  <2>1. ~Counts(f, i) /\ ~Counts(g, i)
    BY <1>1, <1>4, <1>5, Zenon DEF Counts
  <2>2. QED
    BY <1>1, <1>2, <2>1, Zenon DEF Says
<1>6. CASE o # 0
  <2>1. g[o] = f[o] /\ o \in 1..Len(f) + 1
    BY <1>2, <1>3, <1>6
  <2>2. Announced(g, o) <=> Announced(f, o)
    BY <1>1, <2>1, AnnouncedStays
  <2>3. SingleFor(g, o) = SingleFor(f, o)
    BY <2>1, <2>2, Zenon DEF SingleFor
  <2>4. QED
    BY <1>1, <1>2, <1>3, <1>4, <2>1, <2>3, Zenon DEF Says
<1>7. QED
  BY <1>5, <1>6

\* An opened section has a name.
LEMMA OpenedIs ==
  ASSUME NEW line
  PROVE  Opened(line) \in Sections /\ Opened(line) # ""
BY DEF Opened, Sections

\* A bucket of one column counts for the operation of its section, or for reads.
LEMMA OpenedForIs ==
  ASSUME NEW line, NEW announced
  PROVE  (IF IsSubsection(line) THEN OperationOf(line)
          ELSE IF line.start = "rpcs in flight" /\ announced THEN "modify" ELSE "read")
            = IF OpenedFor(line, announced) = "" THEN "read" ELSE OpenedFor(line, announced)
<1>1. CASE IsSubsection(line)
  <2>1. OperationOf(line) \in {"read", "write", "dio_read", "dio_write"}
    BY <1>1, OperationType
  <2>2. OpenedFor(line, announced) = OperationOf(line)
    BY <1>1 DEF OpenedFor
  <2>3. OperationOf(line) # ""
    BY <2>1
  <2>4. QED
    BY <1>1, <2>2, <2>3, Zenon
<1>2. CASE ~IsSubsection(line)
  BY <1>2 DEF OpenedFor
<1>3. QED
  BY <1>1, <1>2

BucketCounts(t, line, g, n, o) ==
  /\ IsBucket(t, line) <=> Counts(g, n)
  /\ IsBucket(t, line) =>
       /\ t.name = Opened(g[o])
       /\ SingleFor(g, o) = IF t.operation = "" THEN "read" ELSE t.operation

\* The section that the parser counts a line for is the one the lines above
\* it open, and a bucket of one column has the operation they say.
LEMMA SectionSays ==
  ASSUME NEW f \in Seq(Line), NEW line \in Line, NEW s \in SectionType, SectionFollows(f, s),
         line.start # "snapshot_time", NEW t, t = ApplyHeader(s, line),
         NEW n, n = Len(f) + 1, NEW g, g = Append(f, line), NEW o, o = OpenerOf(g, n)
  PROVE  BucketCounts(t, line, g, n, o)
<1>. USE DEF BucketCounts
<1>1. n \in 1..Len(f) + 1 /\ n \in Nat \ {0} /\ g[n] = line /\ \A j \in 1..(n - 1) : g[j] = f[j]
  OBVIOUS
<1>2. o = OpenerOf(f, n) /\ o \in 0..(n - 1)
  BY <1>1, AboveStays, OpenerAndHeader
<1>3. /\ s.name = IF o = 0 THEN "" ELSE Opened(f[o])
      /\ s.operation = IF o = 0 THEN "" ELSE OpenedFor(f[o], Announced(f, o))
  BY <1>2, Zenon DEF SectionFollows
<1>4. CASE IsHeader(line)
  <2>1. ~IsBucket(t, line) /\ ~Counts(g, n)
    BY <1>1, <1>4, Zenon DEF IsBucket, Counts, IsHeader
  <2>2. QED
    BY <2>1
<1>5. CASE ~IsHeader(line)
  <2>1. line.start = "" /\ ~line.columns
    BY <1>5 DEF IsHeader
  <2>2. ~OpensSection(line)
    BY <1>5, Starts
  <2>3. t.name = s.name /\ t.operation = s.operation
    <3>1. /\ t.name = IF OpensSection(line) THEN Opened(line) ELSE s.name
          /\ t.operation = IF OpensSection(line)
                           THEN OpenedFor(line, s.pendingOperation = "modify")
                           ELSE s.operation
      BY ApplyHeaderIs DEF Applied
    <3>2. QED
      BY <2>2, <3>1, Zenon
  <2>4. t.name # "" <=> o # 0
    BY <1>3, <2>3, OpenedIs, Zenon
  <2>5. IsBucket(t, line) <=> Counts(g, n)
    BY <1>1, <1>5, <2>1, <2>4, Zenon DEF IsBucket, Counts
  <2>6. ASSUME o # 0
        PROVE  /\ t.name = Opened(g[o])
               /\ SingleFor(g, o) = IF t.operation = "" THEN "read" ELSE t.operation
    <3>1. g[o] = f[o] /\ o \in 1..Len(f) + 1
      BY <1>1, <1>2, <2>6
    <3>2. Announced(g, o) <=> Announced(f, o)
      BY <3>1, AnnouncedStays
    <3>3. t.operation = OpenedFor(f[o], Announced(f, o)) /\ t.name = Opened(f[o])
      BY <1>3, <2>3, <2>6, Zenon
    <3>4. SingleFor(f, o) = IF t.operation = "" THEN "read" ELSE t.operation
      <4>1. SingleFor(f, o) = IF OpenedFor(f[o], Announced(f, o)) = ""
                              THEN "read" ELSE OpenedFor(f[o], Announced(f, o))
        BY OpenedForIs, Zenon DEF SingleFor
      <4>2. QED
        BY <3>3, <4>1, Zenon
    <3>5. SingleFor(g, o) = SingleFor(f, o)
      BY <3>1, <3>2, Zenon DEF SingleFor
    <3>6. QED
      BY <3>1, <3>3, <3>4, <3>5, Zenon
  <2>7. IsBucket(t, line) => o # 0
    BY <2>4, Zenon DEF IsBucket
  <2>8. QED
    BY <2>5, <2>6, <2>7
<1>6. QED
  BY <1>4, <1>5

-----------------------------------------------------------------------------
(* The observations of one line.                                           *)

\* None, one or two observations.
LEMMA FewObservations ==
  ASSUME NEW n \in Nat
  PROVE  /\ HoldsLine(<<>>, n, {})
         /\ \A x \in Obs : x.line = n => HoldsLine(<<x>>, n, {x})
         /\ \A x, y \in Obs :
              x.line = n /\ y.line = n /\ x # y => HoldsLine(<<x, y>>, n, {x, y})
<1>1. HoldsLine(<<>>, n, {})
  BY DEF HoldsLine, IsInjective
<1>2. ASSUME NEW x \in Obs, x.line = n
      PROVE  HoldsLine(<<x>>, n, {x})
  <2>1. <<x>> \in Seq(Obs) /\ DOMAIN <<x>> = {1} /\ <<x>>[1] = x
    OBVIOUS
  <2>2. {<<x>>[k] : k \in DOMAIN <<x>>} = {x}
    BY <2>1
  <2>3. IsInjective(<<x>>)
    BY <2>1 DEF IsInjective
  <2>4. QED
    BY <1>2, <2>1, <2>2, <2>3 DEF HoldsLine
<1>3. ASSUME NEW x \in Obs, NEW y \in Obs, x.line = n, y.line = n, x # y
      PROVE  HoldsLine(<<x, y>>, n, {x, y})
  <2>1. PICK s : s = <<x, y>>
    BY Zenon
  <2>2. s \in Seq(Obs) /\ DOMAIN s = {1, 2} /\ s[1] = x /\ s[2] = y
    BY <2>1
  <2>3. {s[k] : k \in DOMAIN s} = {x, y}
    BY <2>2
  <2>4. IsInjective(s)
    BY <1>3, <2>2 DEF IsInjective
  <2>5. QED
    BY <1>3, <2>1, <2>2, <2>3, <2>4 DEF HoldsLine
<1>4. QED
  BY <1>1, <1>2, <1>3

\* One observation of a line.
LEMMA OneObservation ==
  ASSUME NEW m \in Metrics, NEW op \in AnyOperation, NEW n \in Nat
  PROVE  HoldsLine(<<Observation(m, op, n)>>, n, {Observation(m, op, n)})
<1>1. PICK x : x = Observation(m, op, n)
  BY Zenon
<1>2. x \in Obs /\ x.line = n
  BY <1>1 DEF Observation, Obs
<1>3. QED
  BY <1>1, <1>2, FewObservations, Zenon

\* Two observations of a line, of two operations.
LEMMA TwoObservations ==
  ASSUME NEW m \in Metrics, NEW r \in AnyOperation, NEW w \in AnyOperation, r # w, NEW n \in Nat
  PROVE  HoldsLine(<<Observation(m, r, n), Observation(m, w, n)>>, n,
                   {Observation(m, r, n), Observation(m, w, n)})
<1>1. PICK x, y : x = Observation(m, r, n) /\ y = Observation(m, w, n)
  BY Zenon
<1>2. x \in Obs /\ x.line = n /\ y \in Obs /\ y.line = n /\ x # y
  BY <1>1 DEF Observation, Obs
<1>3. QED
  BY <1>1, <1>2, FewObservations, Zenon

\* The scalar on a line.
LEMMA ScalarSays ==
  ASSUME NEW line \in Line, line.start # "snapshot_time", NEW n \in Nat
  PROVE  HoldsLine(ScalarObservations(line, n), n, ScalarMeans(line, n))
<1>1. PICK x : x = Observation(line.scalar, line.operation, n)
  BY Zenon
<1>2. CASE line.scalar = ""
  <2>1. ScalarObservations(line, n) = <<>> /\ ScalarMeans(line, n) = {}
    BY <1>2, Zenon DEF ScalarObservations, ScalarMeans
  <2>2. QED
    BY <2>1, FewObservations, Zenon
<1>3. CASE line.scalar # ""
  <2>1. ScalarObservations(line, n) = <<x>> /\ ScalarMeans(line, n) = {x}
    BY <1>1, <1>3, Zenon DEF ScalarObservations, ScalarMeans
  <2>2. line.scalar \in Metrics /\ line.operation \in AnyOperation
    BY <1>3 DEF Line, Metrics, AnyOperation, Operations
  <2>3. HoldsLine(<<x>>, n, {x})
    BY <1>1, <2>2, OneObservation, Zenon
  <2>4. QED
    BY <2>1, <2>3, Zenon
<1>4. QED
  BY <1>2, <1>3

\* A sequence of one or two elements is a function of 1, or of 1 and 2.
LEMMA ShortSequences ==
  /\ \A x : DOMAIN <<x>> = {1} /\ <<x>>[1] = x
  /\ \A x, y : DOMAIN <<x, y>> = {1, 2} /\ <<x, y>>[1] = x /\ <<x, y>>[2] = y
  /\ \A f, x : f = [k \in {1} |-> f[k]] /\ f[1] = x => f = <<x>>
OBVIOUS

IsPair(f, x, y) == f = [k \in {1, 2} |-> f[k]] /\ f[1] = x /\ f[2] = y

\* A function of 1 and 2 is a sequence of two elements.
LEMMA PairIs ==
  ASSUME NEW f, NEW x, NEW y, IsPair(f, x, y)
  PROVE  f = <<x, y>>
BY DEF IsPair

\* The bucket on a line.
LEMMA BucketSays ==
  ASSUME NEW line \in Line, line.bucket # "none", line.bucket # "malformed", NEW n \in Nat,
         NEW t \in SectionType, t.name # "",
         NEW op, op = IF t.operation = "" THEN "read" ELSE t.operation
  PROVE  HoldsLine(BucketObservations(t, line, n), n, BucketMeans(line, t.name, op, n))
<1>1. line.bucket = "one" \/ line.bucket = "two"
  BY DEF Line
<1>2. t.name \in Metrics /\ op \in AnyOperation /\ "read" \in AnyOperation /\ "write" \in AnyOperation
  <2>1. t.name \in Sections \cup {""} /\ t.operation \in Operations \cup {""}
    BY DEF SectionType
  <2>2. "read" \in Operations /\ "write" \in Operations
    BY DEF Operations
  <2>3. QED
    BY <2>1, <2>2, Zenon DEF Metrics, AnyOperation
<1>3. CASE line.bucket = "one"
  <2>1. LineOperations(line, t.operation) = <<op>>
    BY <1>3 DEF LineOperations
  <2>2. PICK x : x = Observation(t.name, op, n)
    BY Zenon
  <2>3. BucketObservations(t, line, n) = <<x>>
    <3>1. PICK ops, f : ops = <<op>> /\ f = BucketObservations(t, line, n)
      BY Zenon
    <3>2. DOMAIN ops = {1} /\ ops[1] = op
      BY <3>1, ShortSequences, Zenon
    <3>3. f = [k \in {1} |-> Observation(t.name, ops[k], n)]
      BY <2>1, <3>1, <3>2, Zenon DEF BucketObservations
    <3>4. f = [k \in {1} |-> f[k]] /\ f[1] = x
      BY <2>2, <3>2, <3>3, Zenon
    <3>5. QED
      BY <3>1, <3>4, ShortSequences, Zenon
  <2>4. BucketMeans(line, t.name, op, n) = {x}
    <3>1. line.bucket # "two"
      BY <1>3
    <3>2. QED
      BY <2>2, <3>1, Zenon DEF BucketMeans
  <2>5. HoldsLine(<<x>>, n, {x})
    BY <1>2, <2>2, OneObservation, Zenon
  <2>6. QED
    BY <2>3, <2>4, <2>5, Zenon
<1>4. CASE line.bucket = "two"
  <2>1. LineOperations(line, t.operation) = <<"read", "write">>
    BY <1>4 DEF LineOperations
  <2>2. PICK r, w, x, y :
          /\ r = "read" /\ w = "write"
          /\ x = Observation(t.name, r, n) /\ y = Observation(t.name, w, n)
    BY Zenon
  <2>3. BucketObservations(t, line, n) = <<x, y>>
    <3>1. PICK ops, f : ops = <<r, w>> /\ f = BucketObservations(t, line, n)
      BY Zenon
    <3>2. DOMAIN ops = {1, 2} /\ ops[1] = r /\ ops[2] = w
      BY <3>1, ShortSequences, Zenon
    <3>3. f = [k \in {1, 2} |-> Observation(t.name, ops[k], n)]
      BY <2>1, <2>2, <3>1, <3>2, Zenon DEF BucketObservations
    <3>4. f = [k \in {1, 2} |-> f[k]]
      BY <3>3, Zenon
    <3>5. f[1] = x
      BY <2>2, <3>2, <3>3, Zenon
    <3>6. f[2] = y
      BY <2>2, <3>2, <3>3, Zenon
    <3>7. QED
      <4>1. IsPair(f, x, y)
        BY <3>4, <3>5, <3>6, Zenon DEF IsPair
      <4>2. QED
        BY <3>1, <4>1, PairIs, Zenon
  <2>4. BucketMeans(line, t.name, op, n) = {x, y}
    BY <1>4, <2>2, Zenon DEF BucketMeans
  <2>5. r \in AnyOperation /\ w \in AnyOperation /\ r # w
    BY <1>2, <2>2
  <2>6. HoldsLine(<<x, y>>, n, {x, y})
    BY <1>2, <2>2, <2>5, TwoObservations, Zenon
  <2>7. QED
    BY <2>3, <2>4, <2>6, Zenon
<1>5. QED
  BY <1>1, <1>3, <1>4

-----------------------------------------------------------------------------
(* The inductive invariant.                                                *)

\* What all lines of the file mean.
UpTo(f) == UNION {Says(f, i) : i \in 1..Len(f)}

Malformed(f, i) == Counts(f, i) /\ f[i].bucket = "malformed"

IInv ==
  /\ file \in Seq(Lines) /\ Len(file) <= MaxLines
  /\ section \in SectionType
  /\ SectionFollows(file, section)
  /\ err \in BOOLEAN
  /\ ~err => Holds(observations, Len(file), UpTo(file))
  /\ err <=> \E i \in 1..Len(file) : Malformed(file, i)
  /\ err => observations = <<>>

Grows(f, g, n) ==
  /\ UpTo(g) = UpTo(f) \cup Says(g, n)
  /\ (\E i \in 1..Len(g) : Malformed(g, i)) <=>
       (\E i \in 1..Len(f) : Malformed(f, i)) \/ Malformed(g, n)

\* A line adds what it means.
LEMMA UpToGrows ==
  ASSUME NEW f \in Seq(Line), NEW line \in Line, NEW n, n = Len(f) + 1, NEW g, g = Append(f, line)
  PROVE  Grows(f, g, n)
<1>. USE DEF Grows
<1>1. n \in Nat /\ Len(g) = n /\ g[n] = line /\ \A i : i \in 1..n <=> i \in 1..Len(f) \/ i = n
  OBVIOUS
<1>2. \A i \in 1..Len(f) :
        /\ Says(g, i) = Says(f, i)
        /\ Counts(g, i) <=> Counts(f, i)
        /\ g[i] = f[i]
  BY SaysStays
<1>3. UpTo(g) = UpTo(f) \cup Says(g, n)
  <2>1. UpTo(g) = UNION {Says(g, i) : i \in 1..n}
    BY <1>1, Zenon DEF UpTo
  <2>2. ASSUME NEW x
        PROVE  x \in UpTo(g) <=> x \in UpTo(f) \/ x \in Says(g, n)
    <3>1. x \in UpTo(g) <=> \E i \in 1..n : x \in Says(g, i)
      BY <2>1, Zenon
    <3>2. x \in UpTo(f) <=> \E i \in 1..Len(f) : x \in Says(f, i)
      BY Zenon DEF UpTo
    <3>3. (\E i \in 1..n : x \in Says(g, i)) <=>
            (\E i \in 1..Len(f) : x \in Says(f, i)) \/ x \in Says(g, n)
      BY <1>1, <1>2, Zenon
    <3>4. QED
      BY <3>1, <3>2, <3>3, Zenon
  <2>3. QED
    BY <2>2, Zenon
<1>4. \A i \in 1..Len(f) : Malformed(g, i) <=> Malformed(f, i)
  BY <1>2, Zenon DEF Malformed
<1>5. QED
  BY <1>1, <1>3, <1>4, Zenon

\* The reference of the specification is that of the file.
LEMMA ReferenceIs ==
  ASSUME NEW i \in 1..Len(file)
  PROVE  /\ i \in Buckets <=> Counts(file, i)
         /\ Meaning(i) = Says(file, i)
<1>1. Opener(i) = OpenerOf(file, i)
  BY Zenon DEF Opener, LastAbove, OpenerOf, Openers
<1>2. i \in Buckets <=> Counts(file, i)
  BY <1>1, Zenon DEF Buckets, Counts
<1>3. Modify(i) <=> Announced(file, OpenerOf(file, i))
  BY <1>1, Zenon DEF Modify, LastAbove, Announced, HeaderOf, Headers
<1>4. SectionOf(i) = Opened(file[OpenerOf(file, i)])
  BY <1>1 DEF SectionOf, Opened
<1>5. SingleOperation(i) = SingleFor(file, OpenerOf(file, i))
  <2>1. IsSubsection(file[OpenerOf(file, i)]) => file[OpenerOf(file, i)].start # "rpcs in flight"
    BY SubsectionStarts
  <2>2. QED
    BY <1>1, <1>3, <2>1, Zenon DEF SingleOperation, SingleFor
<1>6. Meaning(i) = Says(file, i)
  BY <1>2, <1>4, <1>5, Zenon DEF Meaning, Says, ScalarMeans, BucketMeans
<1>7. QED
  BY <1>2, <1>6

\* The operations of each metric.
LEMMA OperationsOfMetrics ==
  /\ DOMAIN MetricOperations = Metrics
  /\ \A m \in Metrics : {"read", "write"} \subseteq MetricOperations[m]
  /\ \A m \in Metrics : MetricOperations[m] \subseteq Operations
  /\ MetricOperations["rpcs_in_flight"] = Operations
<1>1. DOMAIN MetricOperations = Metrics
  BY DEF MetricOperations, Metrics
<1>2. \A m \in Metrics :
        MetricOperations[m] = IF m \in {"rpcs_in_flight", "rpcs_current"}
                              THEN Operations ELSE {"read", "write"}
  BY DEF MetricOperations, Metrics
<1>3. "rpcs_in_flight" \in Metrics
  BY DEF Metrics, Sections
<1>4. {"read", "write"} \subseteq Operations
  BY DEF Operations
<1>5. QED
  BY <1>1, <1>2, <1>3, <1>4

\* An observation of a known metric, with one of its operations.
Typed(x) == x.metric \in Metrics /\ x.operation \in MetricOperations[x.metric]

\* An observation made of a metric and one of its operations.
LEMMA ObservationTyped ==
  ASSUME NEW m \in Metrics, NEW op \in MetricOperations[m], NEW i
  PROVE  Typed(Observation(m, op, i))
BY DEF Observation, Typed

\* What the reference says of a line is typed: the operation of a bucket with one
\* column is another than "read" in the section "rpcs_in_flight" only.
LEMMA SaysTyped ==
  ASSUME NEW f \in Seq(Lines), NEW i \in 1..Len(f), NEW x \in Says(f, i)
  PROVE  Typed(x)
<1>1. f[i] \in Lines /\ f[i] \in Line
  BY LinesAreLines
<1>2. CASE x \in ScalarMeans(f[i], i)
  <2>1. f[i].scalar # "" /\ x = Observation(f[i].scalar, f[i].operation, i)
    BY <1>2 DEF ScalarMeans
  <2>2. f[i].scalar \in Metrics
    BY <1>1, <2>1 DEF Line, Metrics
  <2>3. f[i].operation \in MetricOperations[f[i].scalar]
    BY <1>1, <2>1, RpcStatsAssumption, Zenon
  <2>4. QED
    BY <2>1, <2>2, <2>3, ObservationTyped, Zenon
<1>3. CASE x \notin ScalarMeans(f[i], i)
  <2>1. PICK o, n, op :
          /\ o = OpenerOf(f, i) /\ n = Opened(f[o]) /\ op = SingleFor(f, o)
          /\ x \in BucketMeans(f[i], n, op, i)
    BY <1>3, Zenon DEF Says
  <2>2. n \in {"pages_per_rpc", "rpcs_offset", "rpcs_in_flight"} /\ n \in Metrics
    BY <2>1 DEF Opened, Metrics, Sections
  <2>3. CASE x = Observation(n, "read", i) \/ x = Observation(n, "write", i)
    <3>1. "read" \in MetricOperations[n] /\ "write" \in MetricOperations[n]
      BY <2>2, OperationsOfMetrics
    <3>2. QED
      BY <2>2, <2>3, <3>1, ObservationTyped, Zenon
  <2>4. CASE x = Observation(n, op, i)
    <3>1. op \in MetricOperations[n]
      <4>1. CASE n = "rpcs_in_flight"
        <5>1. op \in Operations
          <6>1. CASE IsSubsection(f[o])
            BY <2>1, <6>1, OperationType DEF SingleFor, Operations
          <6>2. CASE ~IsSubsection(f[o])
            BY <2>1, <6>2 DEF SingleFor, Operations
          <6>3. QED
            BY <6>1, <6>2
        <5>2. QED
          BY <4>1, <5>1, OperationsOfMetrics
      <4>2. CASE n # "rpcs_in_flight"
        <5>1. f[o].start \in {"pages per rpc", "offset"}
          BY <2>1, <4>2 DEF Opened
        <5>2. ~IsSubsection(f[o])
          BY <5>1, SubsectionStarts
        <5>3. op = "read"
          BY <2>1, <5>1, <5>2 DEF SingleFor
        <5>4. QED
          BY <2>2, <5>3, OperationsOfMetrics
      <4>3. QED
        BY <4>1, <4>2
    <3>2. QED
      BY <2>2, <2>4, <3>1, ObservationTyped, Zenon
  <2>5. QED
    BY <2>1, <2>3, <2>4, Zenon DEF BucketMeans
<1>4. QED
  BY <1>2, <1>3

\* The observations are those of the lines read, and typed.
LEMMA ObservationsAreTyped ==
  ASSUME IInv
  PROVE  ObservationsTyped
<1>1. PICK D, n : n = Len(file) /\
        D = [metric : DOMAIN MetricOperations, operation : Operations, line : 1..n]
  BY Zenon
<1>2. CASE err
  <2>1. observations = <<>>
    BY <1>2, Zenon DEF IInv
  <2>2. observations \in Seq(D) /\ DOMAIN observations = {}
    BY <2>1
  <2>3. QED
    BY <1>1, <2>2, Zenon DEF ObservationsTyped
<1>3. CASE ~err
  <2>1. /\ observations \in Seq(Obs)
        /\ {observations[k] : k \in DOMAIN observations} = UpTo(file)
        /\ \A x \in UpTo(file) : x.line \in 1..n
    BY <1>1, <1>3, Zenon DEF IInv, Holds
  <2>2. ASSUME NEW k \in DOMAIN observations
        PROVE  Typed(observations[k]) /\ observations[k] \in D
    <3>1. PICK x : x = observations[k]
      BY Zenon
    <3>2. x \in UpTo(file) /\ x.line \in 1..n
      BY <2>1, <3>1, Zenon
    <3>3. Typed(x)
      <4>1. PICK i \in 1..Len(file) : x \in Says(file, i)
        BY <3>2, Zenon DEF UpTo
      <4>2. file \in Seq(Lines)
        BY DEF IInv
      <4>3. QED
        BY <4>1, <4>2, SaysTyped, Zenon
    <3>4. x \in Obs
      BY <2>1, <3>1
    <3>5. x.metric \in DOMAIN MetricOperations /\ x.operation \in Operations
      BY <3>3, OperationsOfMetrics DEF Typed
    <3>6. x \in D
      BY <1>1, <3>2, <3>4, <3>5 DEF Obs
    <3>7. QED
      BY <3>1, <3>3, <3>6
  <2>3. observations \in Seq(D)
    BY <2>1, <2>2
  <2>4. QED
    BY <1>1, <2>2, <2>3, Zenon DEF ObservationsTyped, Typed
<1>4. QED
  BY <1>2, <1>3

\* The properties are parts of the invariant.
LEMMA IInvImplies ==
  ASSUME IInv
  PROVE  TypeOK /\ LinesMeanWhatTheySay /\ MalformedBucketFailsFile
<1>1. TypeOK
  <2>1. /\ section.name \in Sections \cup {""}
        /\ section.operation \in Operations \cup {""}
        /\ section.pendingOperation \in {"", "modify"}
    BY DEF IInv, SectionType
  <2>2. section.name # "rpcs_in_flight" => section.operation = ""
    <3>1. PICK o : o = OpenerOf(file, Len(file) + 1)
      BY Zenon
    <3>2. /\ section.name = IF o = 0 THEN "" ELSE Opened(file[o])
          /\ section.operation = IF o = 0 THEN "" ELSE OpenedFor(file[o], Announced(file, o))
      BY <3>1, Zenon DEF IInv, SectionFollows
    <3>3. Opened(file[o]) # "rpcs_in_flight" => OpenedFor(file[o], Announced(file, o)) = ""
      <4>1. ASSUME Opened(file[o]) # "rpcs_in_flight"
            PROVE  file[o].start = "pages per rpc" \/ file[o].start = "offset"
        BY <4>1 DEF Opened
      <4>2. file[o].start \in {"pages per rpc", "offset"} => ~IsSubsection(file[o])
        BY SubsectionStarts
      <4>3. QED
        BY <4>1, <4>2 DEF OpenedFor
    <3>4. QED
      BY <3>2, <3>3, Zenon
  <2>3. ObservationsTyped
    BY ObservationsAreTyped
  <2>4. QED
    BY <2>1, <2>2, <2>3 DEF IInv, TypeOK
<1>2. UNION {Meaning(i) : i \in 1..Len(file)} = UpTo(file)
  BY ReferenceIs, Zenon DEF UpTo
<1>3. LinesMeanWhatTheySay
  BY <1>2, Zenon DEF IInv, Holds, LinesMeanWhatTheySay
<1>4. MalformedBucketFailsFile
  <2>1. (\E i \in Buckets : file[i].bucket = "malformed")
           <=> \E i \in 1..Len(file) : Malformed(file, i)
    <3>1. Buckets \subseteq 1..Len(file)
      BY Zenon DEF Buckets
    <3>2. QED
      BY <3>1, ReferenceIs, Zenon DEF Malformed
  <2>2. QED
    BY <2>1 DEF IInv, MalformedBucketFailsFile
<1>5. QED
  BY <1>1, <1>3, <1>4

\* The invariant holds at first: an empty file.
LEMMA InitInv ==
  ASSUME Init
  PROVE  IInv
<1>1. PICK e : e = file
  BY Zenon
<1>2. e = <<>> /\ Len(e) = 0 /\ e \in Seq(Lines) /\ Len(e) + 1 = 1
  <2>1. file = <<>>
    BY Zenon DEF Init
  <2>2. QED
    BY <1>1, <2>1
<1>3. OpenerOf(e, 1) = 0 /\ HeaderOf(e, 1) = 0
  <2>1. OpenerOf(e, 1) \in 0..(1 - 1) /\ HeaderOf(e, 1) \in 0..(1 - 1)
    BY OpenerAndHeader
  <2>2. QED
    BY <2>1
<1>4. ~Announced(e, 1)
  BY <1>3 DEF Announced
<1>5. SectionFollows(e, section)
  <2>1. section.name = "" /\ section.operation = "" /\ section.pendingOperation = ""
    BY DEF Init
  <2>2. QED
    BY <1>2, <1>3, <1>4, <2>1, Zenon DEF SectionFollows
<1>6. section \in SectionType
  BY DEF Init, SectionType
<1>7. UpTo(e) = {}
  BY <1>2 DEF UpTo
<1>8. Holds(<<>>, 0, {})
  BY DEF Holds, IsInjective
<1>9. Len(e) <= MaxLines
  BY <1>2, LinesAreLines
<1>10. ~ \E i \in 1..Len(e) : Malformed(e, i)
  BY <1>2
<1>11. observations = <<>> /\ err = FALSE
  BY DEF Init
<1>12. QED
  BY <1>1, <1>2, <1>5, <1>6, <1>7, <1>8, <1>9, <1>10, <1>11, Zenon DEF IInv

\* A line with a snapshot time says nothing.
LEMMA SkipInv ==
  ASSUME IInv, NEW line \in Lines, Skip(line)
  PROVE  IInv'
<1>. line \in Line /\ file \in Seq(Lines) /\ file \in Seq(Line) /\ Len(file) \in Nat /\ MaxLines \in Nat
  BY LinesAreLines DEF IInv
<1>1. PICK n, g : n = Len(file) + 1 /\ g = Append(file, line)
  BY Zenon
<1>2. /\ g \in Seq(Lines) /\ Len(g) = n /\ Len(g) <= MaxLines /\ n \in Nat /\ g[n] = line
      /\ n = Len(file) + 1
  BY <1>1 DEF Skip
<1>3. /\ file' = g /\ section' = section /\ observations' = observations /\ err' = err
      /\ err = FALSE /\ line.start = "snapshot_time"
  BY <1>1 DEF Skip, IInv
<1>4. ~IsHeader(line) /\ ~OpensSection(line) /\ line.start # "modify"
  BY <1>3, Starts DEF IsHeader
<1>5. section \in SectionType /\ SectionFollows(file, section)
  BY DEF IInv
<1>6. SectionFollows(g, section)
  <2>1. Applied(section, line, section)
    BY <1>4, Zenon DEF Applied
  <2>2. QED
    BY <1>1, <1>5, <2>1, SectionStillFollows, Zenon
<1>7. ~Counts(g, n) /\ Says(g, n) = {}
  <2>1. ~Counts(g, n)
    BY <1>2, <1>3 DEF Counts
  <2>2. ScalarMeans(g[n], n) = {}
    BY <1>2, <1>3, Zenon DEF ScalarMeans
  <2>3. QED
    BY <2>1, <2>2, Zenon DEF Says
<1>8. Grows(file, g, n)
  BY <1>1, UpToGrows, Zenon
<1>9. Holds(observations, n, UpTo(g))
  <2>1. Holds(observations, Len(file), UpTo(file))
    BY <1>3, Zenon DEF IInv
  <2>2. HoldsLine(<<>>, n, {})
    BY <1>2, FewObservations, Zenon
  <2>3. Holds(observations \o <<>>, n, UpTo(file) \cup {})
    BY <1>2, <2>1, <2>2, HoldsMore
  <2>4. observations \o <<>> = observations
    <3>1. observations \in Seq(Obs)
      BY <2>1, Zenon DEF Holds
    <3>2. QED
      BY <3>1
  <2>5. UpTo(g) = UpTo(file) \cup {}
    BY <1>7, <1>8, Zenon DEF Grows
  <2>6. QED
    BY <2>3, <2>4, <2>5, Zenon
<1>10. ~ \E i \in 1..Len(g) : Malformed(g, i)
  <2>1. ~ \E i \in 1..Len(file) : Malformed(file, i)
    BY <1>3, Zenon DEF IInv
  <2>2. ~Malformed(g, n)
    BY <1>7, Zenon DEF Malformed
  <2>3. QED
    BY <1>8, <2>1, <2>2, Zenon DEF Grows
<1>11. QED
  BY <1>2, <1>3, <1>5, <1>6, <1>9, <1>10, Zenon DEF IInv

\* The parser reads what the line means.
LEMMA ParseInv ==
  ASSUME IInv, NEW line \in Lines, Parse(line)
  PROVE  IInv'
<1>. line \in Line /\ file \in Seq(Lines) /\ file \in Seq(Line) /\ Len(file) \in Nat /\ MaxLines \in Nat
  BY LinesAreLines DEF IInv
<1>1. PICK n, g, t : n = Len(file) + 1 /\ g = Append(file, line) /\ t = ApplyHeader(section, line)
  BY Zenon
<1>2. /\ g \in Seq(Lines) /\ Len(g) = n /\ Len(g) <= MaxLines /\ n \in Nat /\ g[n] = line
      /\ n = Len(file) + 1
  BY <1>1 DEF Parse
<1>3. file' = g /\ section' = t /\ ~err /\ line.start # "snapshot_time"
  BY <1>1 DEF Parse
<1>4. section \in SectionType /\ SectionFollows(file, section)
  BY DEF IInv
<1>5. t \in SectionType /\ SectionFollows(g, t)
  <2>1. t \in SectionType /\ Applied(section, line, t)
    BY <1>1, <1>3, <1>4, ApplyHeaderIs, Zenon
  <2>2. QED
    BY <1>1, <1>4, <2>1, SectionStillFollows, Zenon
<1>6. PICK o : o = OpenerOf(g, n)
  BY Zenon
<1>7. /\ IsBucket(t, line) <=> Counts(g, n)
      /\ IsBucket(t, line) =>
           /\ t.name = Opened(g[o])
           /\ SingleFor(g, o) = IF t.operation = "" THEN "read" ELSE t.operation
  <2>1. BucketCounts(t, line, g, n, o)
    BY <1>1, <1>3, <1>4, <1>6, SectionSays, Zenon
  <2>2. QED
    BY <2>1, Zenon DEF BucketCounts
<1>8. /\ UpTo(g) = UpTo(file) \cup Says(g, n)
      /\ (\E i \in 1..Len(g) : Malformed(g, i)) <=>
           (\E i \in 1..Len(file) : Malformed(file, i)) \/ Malformed(g, n)
  <2>1. Grows(file, g, n)
    BY <1>1, UpToGrows, Zenon
  <2>2. QED
    BY <2>1, Zenon DEF Grows
<1>9. /\ Holds(observations, Len(file), UpTo(file)) /\ observations \in Seq(Obs)
      /\ ~ \E i \in 1..Len(file) : Malformed(file, i)
  BY <1>3, Zenon DEF IInv, Holds
<1>10. CASE IsBucket(t, line) /\ line.bucket = "malformed"
  <2>1. err' = TRUE /\ observations' = <<>>
    BY <1>3, <1>10 DEF Parse, ReturnOnError
  <2>2. Malformed(g, n)
    BY <1>2, <1>7, <1>10, Zenon DEF Malformed
  <2>3. QED
    BY <1>2, <1>3, <1>5, <1>8, <2>1, <2>2, Zenon DEF IInv
<1>11. CASE IsBucket(t, line) /\ line.bucket # "malformed"
  <2>1. PICK b : b = BucketObservations(t, line, n)
    BY Zenon
  <2>2. err' = err /\ observations' = (observations \o ScalarObservations(line, n)) \o b
    BY <1>1, <1>3, <1>11, <2>1, Zenon DEF Parse
  <2>3. line.scalar = "" /\ t.name # "" /\ line.bucket # "none"
    BY <1>11, Zenon DEF IsBucket
  <2>4. ScalarObservations(line, n) = <<>> /\ ScalarMeans(line, n) = {}
    BY <2>3, Zenon DEF ScalarObservations, ScalarMeans
  <2>5. observations \o ScalarObservations(line, n) = observations
    <3>1. observations \o <<>> = observations
      BY <1>9
    <3>2. QED
      BY <2>4, <3>1, Zenon
  <2>6. PICK op : op = IF t.operation = "" THEN "read" ELSE t.operation
    BY Zenon
  <2>7. HoldsLine(b, n, BucketMeans(line, t.name, op, n))
    BY <1>2, <1>5, <1>11, <2>1, <2>3, <2>6, BucketSays, Zenon
  <2>8. Says(g, n) = BucketMeans(line, t.name, op, n)
    <3>1. t.name = Opened(g[o]) /\ SingleFor(g, o) = op /\ Counts(g, n)
      BY <1>7, <1>11, <2>6, Zenon
    <3>2. Says(g, n) = ScalarMeans(g[n], n) \cup BucketMeans(g[n], Opened(g[o]), SingleFor(g, o), n)
      BY <1>6, <3>1, Zenon DEF Says
    <3>3. Says(g, n) = {} \cup BucketMeans(line, t.name, op, n)
      BY <1>2, <2>4, <3>1, <3>2, Zenon
    <3>4. QED
      BY <3>3, Zenon
  <2>9. Holds(observations \o b, n, UpTo(file) \cup Says(g, n))
    BY <1>2, <1>9, <2>7, <2>8, HoldsMore
  <2>10. Holds(observations', n, UpTo(g)) /\ ~err'
    BY <1>3, <1>8, <2>2, <2>5, <2>9, Zenon
  <2>11. ~Malformed(g, n)
    BY <1>2, <1>11, Zenon DEF Malformed
  <2>12. err' \in BOOLEAN
    BY <2>2 DEF IInv
  <2>13. QED
    BY <1>2, <1>3, <1>5, <1>8, <1>9, <2>10, <2>11, <2>12, Zenon DEF IInv
<1>12. CASE ~IsBucket(t, line)
  <2>1. PICK b : b = ScalarObservations(line, n)
    BY Zenon
  <2>2. err' = err /\ observations' = observations \o b
    BY <1>1, <1>3, <1>12, <2>1, Zenon DEF Parse
  <2>3. HoldsLine(b, n, ScalarMeans(line, n))
    BY <1>2, <1>3, <2>1, ScalarSays, Zenon
  <2>4. Says(g, n) = ScalarMeans(line, n)
    <3>1. ~Counts(g, n)
      BY <1>7, <1>12, Zenon
    <3>2. Says(g, n) = ScalarMeans(g[n], n) \cup {}
      BY <3>1, Zenon DEF Says
    <3>3. QED
      BY <1>2, <3>2, Zenon
  <2>5. Holds(observations \o b, n, UpTo(file) \cup Says(g, n))
    BY <1>2, <1>9, <2>3, <2>4, HoldsMore
  <2>6. Holds(observations', n, UpTo(g)) /\ ~err'
    BY <1>3, <1>8, <2>2, <2>5, Zenon
  <2>7. ~Malformed(g, n)
    BY <1>7, <1>12, Zenon DEF Malformed
  <2>8. err' \in BOOLEAN
    BY <2>2 DEF IInv
  <2>9. QED
    BY <1>2, <1>3, <1>5, <1>8, <1>9, <2>6, <2>7, <2>8, Zenon DEF IInv
<1>13. QED
  BY <1>10, <1>11, <1>12

\* The end of the file changes nothing.
LEMMA UnchangedInv ==
  ASSUME IInv, UNCHANGED vars
  PROVE  IInv'
BY DEF vars, IInv

\* Every reachable state satisfies the invariant.
THEOREM Invariant == Spec => []IInv
<1>1. Init => IInv
  BY InitInv
<1>2. IInv /\ [Next]_vars => IInv'
  <2>1. SUFFICES ASSUME IInv, [Next]_vars
                 PROVE  IInv'
    OBVIOUS
  <2>2. CASE \E line \in Lines : Skip(line) \/ Parse(line)
    BY <2>1, <2>2, SkipInv, ParseInv
  <2>3. CASE EndOfFile
    BY <2>1, <2>3, UnchangedInv DEF EndOfFile
  <2>4. CASE UNCHANGED vars
    BY <2>1, <2>4, UnchangedInv
  <2>5. QED
    BY <2>1, <2>2, <2>3, <2>4 DEF Next
<1>3. QED
  BY <1>1, <1>2, PTL DEF Spec

\* In every reachable state each observation is of a known metric, has an
\* operation of that metric and comes from a line of the file: whatever the
\* lines, none is of no section, and "modify" and direct I/O are of RPCs in
\* flight only.  The section has its types, with an operation in
\* "rpcs_in_flight" only (rpc.go:41, 60-105, 214-240).
THEOREM TypeCorrect == Spec => []TypeOK
<1>1. IInv => TypeOK
  BY IInvImplies
<1>2. QED
  BY <1>1, Invariant, PTL

\* Whatever lines a file consists of and however long it is, each yields
\* exactly what it means by the lines above it, once (rpc.go:15-105).
THEOREM LinesMeanTheirSection == Spec => []LinesMeanWhatTheySay
<1>1. IInv => LinesMeanWhatTheySay
  BY IInvImplies
<1>2. QED
  BY <1>1, Invariant, PTL

\* A file fails if and only if a bucket line in it is malformed, and then
\* nothing of it is returned (rpc.go:45-48).
THEOREM MalformedFails == Spec => []MalformedBucketFailsFile
<1>1. IInv => MalformedBucketFailsFile
  BY IInvImplies
<1>2. QED
  BY <1>1, Invariant, PTL
=============================================================================
