------------------------- MODULE MemoryImportProofs -------------------------
(***************************************************************************)
(* Theorems about MemoryImport, for any logs, periods and entities, any    *)
(* number of exports, imports and failures, and both kinds of deployment.  *)
(* The invariant has a part for each thing an import writes: a period's    *)
(* versions are local ones with at most one exported history among them,   *)
(* and the imported rows have ids, hashes and references of their own.     *)
(* What the transaction of importEpisodes does is shown record by record:  *)
(* FoldSteps unfolds the FoldLeft of the specification, and a least record *)
(* after which the accumulator is not Merged is led to a contradiction.    *)
(***************************************************************************)
EXTENDS MemoryImport, LibraryLemmas

----------------------------------------------------------------------------
(* The inductive invariant.                                                *)

\* The states of the export, of the import and of the target scope.
ExportState ==
    [pc : {"idle", "episodes", "summaries", "entities", "pack", "packing"}, dir : Directory]
ImportState ==
    [pc : {"idle", "start", "entities", "logEntities", "summaries", "period",
           "logSummaries", "hashes", "episodes", "logEpisodes", "done", "failed"},
     pass : 0..MaxImports, merge : BOOLEAN, dir : Directory,
     todo : SUBSET Periods, file : SUBSET Periods, known : SUBSET STRING]
TargetState == [eps : Seq(Row), sums : [Periods -> History], ents : SUBSET Entities]

\* Its episodes are not in yet.
Loading == {"start", "entities", "logEntities", "summaries", "period",
            "logSummaries", "hashes", "episodes"}

USE DEF ExportState, ImportState, TargetState, Loading, Bundle

\* The state but for the episodes: every part is of its type.
Shape ==
    /\ sameDB \in BOOLEAN /\ failures \in 0..MaxFailures
    /\ src \in Directory
    /\ exp \in ExportState /\ bundle \in Bundle
    /\ tgt \in TargetState
    /\ imp \in ImportState
    /\ given \in [Periods -> History]
    /\ raced \subseteq Periods

\* A history in which every version supersedes an earlier one, or none.
Backward(h) == \A i \in DOMAIN h : h[i].sup < i

\* What was exported when the source scope had captured k episodes, or more.
Exported(d, k) ==
    /\ Len(d.eps) <= k
    /\ \A i \in DOMAIN d.eps : i \in DOMAIN SourceLog /\ d.eps[i] = SourceLog[i]
    /\ \A p \in Periods : Backward(d.sums[p]) /\ Len(d.sums[p]) <= MaxVersions

Exports ==
    LET k == Len(src.eps)
    IN /\ Exported(src, k) /\ Exported(exp.dir, k)
       /\ Exported(bundle.dir, k) /\ Exported(imp.dir, k)
       /\ exp.pc \notin {"idle", "packing"} => bundle.n < MaxExports

\* No version of h was imported; the versions n + 1, ... of h are those of g.
Local(h) == \A i \in DOMAIN h : ~h[i].imported
HasAt(h, g, n) ==
    /\ n + Len(g) <= Len(h)
    /\ \A i \in DOMAIN h : h[i].imported <=> (n < i /\ i <= n + Len(g))
    /\ \A i \in DOMAIN g : h[n + i].sup = IF g[i].sup = 0 THEN 0 ELSE g[i].sup + n

\* A period's history: local, with at most one imported history in it, and a chain
\* if that is one, unless a consolidation of the scope was late for it.
GoodPeriod(p) ==
    LET h == tgt.sums[p]
    IN /\ Len(h) <= 2 * MaxVersions
       /\ Backward(h)
       /\ Local(h) => Len(h) <= MaxVersions
       /\ ~Local(h) => \E n \in Nat : HasAt(h, given[p], n)
       /\ p \notin raced /\ Chain(given[p]) => Chain(h)
       /\ p \in imp.file => Local(h) /\ (p \in raced \/ h = <<>>)

\* importSummaries has one file in hand, of a period on its list.
OneFile == imp.file \subseteq imp.todo /\ (imp.pc # "period" => imp.file = {})

LocalRows(rows) == {i \in DOMAIN rows : rows[i].pass = 0}

\* x is the id of feedback on y.
Rates(x, y) == \E k \in DOMAIN SourceLog : SourceLog[k].id = x /\ SourceLog[k].ref = y

\* A row is one of the first n of the target's own, or came from the source scope,
\* under an id that no capture ever has if both share their ids.
GoodRow(r, n) ==
    /\ r.pass = 0 => \E k \in DOMAIN LocalLog : k <= n /\ r.id = LocalLog[k].id
    /\ r.pass # 0 =>
          /\ \E m \in DOMAIN SourceLog : r.from = SourceLog[m].id /\ r.hash = SourceLog[m].hash
          /\ r.id = <<r.from[1], r.pass>> \/ (r.id = r.from /\ ~sameDB)

\* Feedback refers to the row it is about, or an earlier import renamed that.
Refers(x, y) == x.ref = y.id \/ (y.pass < x.pass /\ y.id # y.from)

GoodRows(rows, n) ==
    /\ \A i \in DOMAIN rows : GoodRow(rows[i], n)
    /\ \A i, j \in DOMAIN rows : rows[i].id = rows[j].id => i = j
    /\ \A i, j \in DOMAIN rows : rows[i].pass # 0 /\ rows[j].pass # 0 =>
          /\ rows[i].hash = rows[j].hash => i = j
          /\ Rates(rows[i].from, rows[j].from) => Refers(rows[i], rows[j])

\* The interactions that imported feedback is about have hashes in K.
RatedIn(K, rows) ==
    \A i \in DOMAIN rows, m \in DOMAIN SourceLog :
        rows[i].pass # 0 /\ Rates(rows[i].from, SourceLog[m].id) => SourceLog[m].hash \in K

\* K lies between the hashes of the imported rows and those of all rows.
Knows(K, rows) ==
    /\ \A i \in DOMAIN rows : rows[i].pass # 0 => rows[i].hash \in K
    /\ \A x \in K : \E i \in DOMAIN rows : rows[i].hash = x
    /\ RatedIn(K, rows)

Hashes(rows) == {rows[i].hash : i \in DOMAIN rows}

Rows ==
    LET rows == tgt.eps
        n == Cardinality(LocalRows(rows))
    IN /\ n <= Len(LocalLog) /\ GoodRows(rows, n) /\ RatedIn(Hashes(rows), rows)
       /\ \A i \in DOMAIN rows : rows[i].pass <= imp.pass
       /\ imp.pc \in Loading =>
             /\ imp.pass # 0
             /\ \A i \in DOMAIN rows : rows[i].pass # imp.pass
       /\ imp.pc = "episodes" => Knows(imp.known, rows)
       /\ imp.pc \in {"logEpisodes", "done"} =>
             \A i \in DOMAIN imp.dir.eps :
                \E k \in DOMAIN rows : rows[k].hash = imp.dir.eps[i].hash

Inv == Shape /\ Exports /\ OneFile /\ (\A p \in Periods : GoodPeriod(p)) /\ Rows

----------------------------------------------------------------------------
(* The records of a bundle, one after the other: what FoldLeft computes.   *)

Base == [rows |-> tgt.eps, known |-> imp.known, idMap |-> <<>>, ok |-> TRUE]

\* The equation of FoldLeft's recursive function.
Body(f, s) ==
    IF s = {} THEN Base ELSE InsertEpisode(f[s \ {Max(s)}], imp.dir.eps[Max(s)])

\* It has a solution, by induction on the number of records.
LEMMA FoldExists == \A n \in Nat : \E f : f = [s \in SUBSET (1..n) |-> Body(f, s)]
<1> DEFINE T == {n \in Nat : ~\E f : f = [s \in SUBSET (1..n) |-> Body(f, s)]}
<1> SUFFICES ASSUME T # {} PROVE FALSE
  OBVIOUS
<1>1. PICK m \in T : \A k \in T : m <= k
  BY Least
<1>2. m \in Nat /\ ~\E f : f = [s \in SUBSET (1..m) |-> Body(f, s)]
  OBVIOUS
<1>3. m # 0
  <2> SUFFICES ASSUME m = 0 PROVE FALSE
    OBVIOUS
  <2> DEFINE f == [s \in SUBSET (1..m) |-> Base]
  <2>1. \A s \in SUBSET (1..m) : s = {}
    OBVIOUS
  <2>2. f = [s \in SUBSET (1..m) |-> Body(f, s)]
    BY <2>1 DEF Body
  <2>3. QED
    BY <1>2, <2>2
<1>4. m - 1 \in Nat /\ m - 1 \notin T
  <2>1. m - 1 \in Nat /\ ~(m <= m - 1)
    BY <1>2, <1>3
  <2> HIDE DEF T
  <2>2. QED
    BY <1>1, <2>1
<1>5. PICK f : f = [s \in SUBSET (1..(m - 1)) |-> Body(f, s)]
  BY <1>4
<1> DEFINE g == [s \in SUBSET (1..m) |->
                   IF m \in s THEN InsertEpisode(f[s \ {m}], imp.dir.eps[m]) ELSE f[s]]
<1>6. ASSUME NEW s \in SUBSET (1..m) PROVE g[s] = Body(g, s)
  <2>1. CASE m \in s
    <3>1. Max(s) = m
      BY <1>2, <2>1, MaxOfSegment
    <3>2. s \ {m} \in SUBSET (1..m) /\ m \notin s \ {m} /\ s # {}
      BY <2>1
    <3>3. g[s \ {m}] = f[s \ {m}]
      BY <3>2
    <3>4. QED
      BY <2>1, <3>1, <3>2, <3>3 DEF Body
  <2>2. CASE m \notin s
    <3>1. s \in SUBSET (1..(m - 1))
      BY <1>2, <2>2
    <3>2. g[s] = Body(f, s)
      BY <1>5, <2>2, <3>1
    <3>3. CASE s = {}
      BY <3>2, <3>3 DEF Body
    <3>4. CASE s # {}
      <4>1. Max(s) \in s
        BY <1>4, <3>1, <3>4, MaxIsThere
      <4>2. s \ {Max(s)} \in SUBSET (1..m) /\ m \notin s \ {Max(s)}
        BY <2>2
      <4>3. g[s \ {Max(s)}] = f[s \ {Max(s)}]
        BY <4>2
      <4>4. QED
        BY <3>2, <3>4, <4>3 DEF Body
    <3>5. QED
      BY <3>3, <3>4
  <2>3. QED
    BY <2>1, <2>2
<1>7. g = [s \in SUBSET (1..m) |-> Body(g, s)]
  BY <1>6
<1>8. QED
  BY <1>2, <1>7

\* Record by record: f[k] is what the first k records made of the scope.
LEMMA FoldSteps ==
    ASSUME NEW n \in Nat, DOMAIN imp.dir.eps = 1..n
    PROVE  \E f : /\ f[0] = Base
                  /\ \A k \in 1..n : f[k] = InsertEpisode(f[k - 1], imp.dir.eps[k])
                  /\ FoldLeft(InsertEpisode, Base, imp.dir.eps) = f[n]
<1> DEFINE F == CHOOSE f : f = [s \in SUBSET (1..n) |-> Body(f, s)]
<1>1. F = [s \in SUBSET (1..n) |-> Body(F, s)]
  BY FoldExists
<1>2. FoldLeft(InsertEpisode, Base, imp.dir.eps) = F[1..n]
  BY DEF FoldLeft, MapThenFoldSet, Body
<1> HIDE DEF F
<1> DEFINE f == [k \in 0..n |-> F[1..k]]
<1>3. F[1..0] = Base
  <2>1. 1..0 = {} /\ {} \in SUBSET (1..n)
    OBVIOUS
  <2>2. F[{}] = Body(F, {})
    BY <1>1, <2>1
  <2>3. QED
    BY <2>1, <2>2 DEF Body
<1>4. ASSUME NEW k \in 1..n
      PROVE  F[1..k] = InsertEpisode(F[1..(k - 1)], imp.dir.eps[k])
  <2>1. 1..k \in SUBSET (1..n) /\ k \in 1..k /\ (1..k) \ {k} = 1..(k - 1)
    OBVIOUS
  <2>2. Max(1..k) = k
    BY <2>1, MaxOfSegment
  <2>3. F[1..k] = Body(F, 1..k)
    BY <1>1, <2>1
  <2>4. QED
    BY <2>1, <2>2, <2>3 DEF Body
<1>5. QED
  <2>1. f[0] = Base /\ f[n] = F[1..n]
    BY <1>3
  <2>2. \A k \in 1..n : f[k] = InsertEpisode(f[k - 1], imp.dir.eps[k])
    BY <1>4
  <2> HIDE DEF f
  <2>3. QED
    BY <1>2, <2>1, <2>2
----------------------------------------------------------------------------
(* Histories.                                                              *)

LEMMA Bounds ==
    /\ MaxVersions \in Nat /\ MaxExports \in Nat /\ MaxImports \in Nat /\ MaxFailures \in Nat
BY BoundAssumption

\* The last version of a chain is its current one.
LEMMA ChainEnds ==
    ASSUME NEW h \in History, Chain(h), h # <<>>
    PROVE  Current(h) = {Len(h)}
<1>1. Len(h) \in Nat /\ Len(h) # 0 /\ DOMAIN h = 1..Len(h)
  BY DEF History
<1>3. \A i \in DOMAIN h : h[i].sup = i - 1
  BY DEF Chain
<1>4. \A i \in DOMAIN h : i # Len(h) => i + 1 \in DOMAIN h /\ h[i + 1].sup = i
  <2> SUFFICES ASSUME NEW i \in DOMAIN h, i # Len(h) PROVE i + 1 \in DOMAIN h /\ h[i + 1].sup = i
    OBVIOUS
  <2>1. i + 1 \in DOMAIN h
    BY <1>1
  <2>2. h[i + 1].sup = (i + 1) - 1
    BY <1>3, <2>1
  <2>3. QED
    BY <1>1, <2>1, <2>2
<1>5. \A j \in DOMAIN h : h[j].sup # Len(h)
  BY <1>1, <1>3
<1>6. QED
  BY <1>1, <1>4, <1>5 DEF Current

\* What a consolidation or correction makes of a history.
LEMMA Extended ==
    ASSUME NEW h \in History, NEW g \in Extensions(h), Len(h) < MaxVersions,
           Backward(h)
    PROVE  /\ g \in History /\ Len(g) = Len(h) + 1
           /\ DOMAIN h = 1..Len(h) /\ DOMAIN g = 1..(Len(h) + 1) /\ Len(h) \in Nat
           /\ \A i \in DOMAIN h : g[i] = h[i]
           /\ ~g[Len(h) + 1].imported /\ g[Len(h) + 1].sup \in 0..Len(h)
           /\ Backward(g) /\ (Chain(h) /\ ~Late(h, g) => Chain(g))
<1>1. PICK i : /\ i \in {0} \cup Current(h)
               /\ g = Append(h, [sup |-> i, imported |-> FALSE])
  BY DEF Extensions
<1>2. Len(h) \in Nat /\ DOMAIN h = 1..Len(h)
  BY DEF History
<1>3. i \in 0..Len(h)
  BY <1>1, <1>2 DEF Current
<1> DEFINE e == [sup |-> i, imported |-> FALSE]
<1>4. e \in Version
  BY <1>2, <1>3, Bounds DEF Version
<1>5. e.sup = i /\ e.imported = FALSE
  OBVIOUS
<1> HIDE DEF e
<1>6. /\ g \in History /\ Len(g) = Len(h) + 1 /\ DOMAIN g = 1..(Len(h) + 1)
      /\ \A j \in DOMAIN h : g[j] = h[j]
      /\ g[Len(h) + 1] = e
  BY <1>1, <1>2, <1>4 DEF History, e
<1>9. ASSUME NEW j \in DOMAIN g PROVE g[j].sup < j
  <2>1. CASE j = Len(h) + 1
    BY <1>2, <1>3, <1>5, <1>6, <2>1
  <2>2. CASE j # Len(h) + 1
    <3>1. j \in DOMAIN h
      BY <1>2, <1>6, <2>2
    <3>2. QED
      BY <1>6, <3>1 DEF Backward
  <2>3. QED
    BY <2>1, <2>2
<1>7. ASSUME Chain(h), ~Late(h, g) PROVE Chain(g)
  <2>1. i = Len(h)
    <3>1. CASE h = <<>>
      <4>1. Len(h) = 0 /\ Current(h) = {}
        BY <3>1 DEF Current
      <4>2. QED
        BY <1>1, <4>1
    <3>2. CASE h # <<>>
      <4>1. i # 0
        BY <1>5, <1>6, <1>7, <3>2 DEF Late
      <4>2. QED
        BY <1>1, <1>7, <3>2, <4>1, ChainEnds
    <3>3. QED
      BY <3>1, <3>2
  <2> SUFFICES ASSUME NEW j \in DOMAIN g PROVE g[j].sup = j - 1
    BY DEF Chain
  <2>2. CASE j = Len(h) + 1
    BY <1>2, <1>5, <1>6, <2>1, <2>2
  <2>3. CASE j # Len(h) + 1
    <3>1. j \in DOMAIN h
      BY <1>2, <1>6, <2>3
    <3>2. QED
      BY <1>6, <1>7, <3>1 DEF Chain
  <2>4. QED
    BY <2>2, <2>3
<1>8. QED
  BY <1>2, <1>3, <1>5, <1>6, <1>7, <1>9 DEF Backward

\* The history of a period with an imported one behind it.
LEMMA Imported ==
    ASSUME NEW h \in History, NEW d \in History, Local(h), Backward(h), Backward(d),
           Len(h) <= MaxVersions, Len(d) <= MaxVersions,
           NEW g, g = h \o Renumbered(d, Len(h))
    PROVE  /\ g \in History /\ Len(g) <= 2 * MaxVersions
           /\ Backward(g)
           /\ HasAt(g, d, Len(h)) /\ Len(h) \in Nat
           /\ Local(g) => Len(g) <= MaxVersions
           /\ h = <<>> /\ Chain(d) => Chain(g)
<1> DEFINE n == Len(h)
           e == Renumbered(d, n)
<1>1. /\ n \in Nat /\ DOMAIN h = 1..n /\ Len(d) \in Nat /\ DOMAIN d = 1..Len(d)
      /\ MaxVersions \in Nat
  BY Bounds DEF History
<1>2. \A i \in DOMAIN d : d[i].sup < i /\ d[i].sup \in Nat
  <2>1. \A i \in DOMAIN d : d[i] \in Version
    BY DEF History
  <2>2. QED
    BY <1>1, <2>1 DEF Backward, Version
<1>3. \A i \in DOMAIN d : [sup |-> IF d[i].sup = 0 THEN 0 ELSE d[i].sup + n,
                           imported |-> TRUE] \in Version
  <2> SUFFICES ASSUME NEW i \in DOMAIN d
               PROVE  (IF d[i].sup = 0 THEN 0 ELSE d[i].sup + n) \in 0..(2 * MaxVersions)
    BY DEF Version
  <2>1. d[i].sup < i /\ d[i].sup \in Nat /\ i \in Nat /\ i <= MaxVersions /\ i >= 1
    BY <1>1, <1>2
  <2>2. QED
    BY <1>1, <2>1
<1>4. /\ e \in History /\ Len(e) = Len(d) /\ DOMAIN e = 1..Len(d)
      /\ \A i \in DOMAIN d : /\ e[i].sup = IF d[i].sup = 0 THEN 0 ELSE d[i].sup + n
                             /\ e[i].imported = TRUE
  <2>1. e = [i \in 1..Len(d) |-> [sup |-> IF d[i].sup = 0 THEN 0 ELSE d[i].sup + n,
                                  imported |-> TRUE]]
    BY <1>1 DEF Renumbered
  <2> HIDE DEF e
  <2>2. e \in [1..Len(d) -> Version]
    BY <1>1, <1>3, <2>1
  <2>3. e \in Seq(Version) /\ Len(e) = Len(d)
    BY <1>1, <2>2
  <2>4. QED
    BY <1>1, <2>1, <2>3 DEF History
<1> HIDE DEF e
<1>5. /\ g \in History /\ Len(g) = n + Len(d) /\ DOMAIN g = 1..(n + Len(d))
      /\ \A i \in DOMAIN h : g[i] = h[i]
      /\ \A i \in DOMAIN d : g[n + i] = e[i]
  <2>1. g = h \o e
    BY DEF e
  <2>2. h \in Seq(Version) /\ e \in Seq(Version)
    BY <1>4 DEF History
  <2>3. g \in Seq(Version) /\ Len(g) = Len(h) + Len(e) /\ DOMAIN g = 1..(Len(h) + Len(e))
    BY <2>1, <2>2
  <2>4. \A i \in 1..Len(h) : g[i] = h[i]
    BY <2>1, <2>2
  <2>5. \A i \in 1..Len(e) : g[Len(h) + i] = e[i]
    BY <2>1, <2>2
  <2>6. QED
    BY <1>1, <1>4, <2>3, <2>4, <2>5 DEF History
<1>6. \A i \in DOMAIN g : i \in DOMAIN h \/ (i > n /\ i - n \in DOMAIN d /\ g[i] = e[i - n])
  <2> SUFFICES ASSUME NEW i \in DOMAIN g, i \notin DOMAIN h
               PROVE  i > n /\ i - n \in DOMAIN d /\ g[i] = e[i - n]
    OBVIOUS
  <2>1. i > n /\ i - n \in DOMAIN d /\ n + (i - n) = i
    BY <1>1, <1>5
  <2>2. QED
    BY <1>5, <2>1
<1>7. ASSUME NEW i \in DOMAIN g PROVE g[i].sup < i
  <2>1. CASE i \in DOMAIN h
    BY <1>5, <2>1 DEF Backward
  <2>2. CASE i > n /\ i - n \in DOMAIN d /\ g[i] = e[i - n]
    <3>1. d[i - n].sup < i - n /\ d[i - n].sup \in Nat
      BY <1>2, <2>2
    <3>2. g[i].sup = IF d[i - n].sup = 0 THEN 0 ELSE d[i - n].sup + n
      BY <1>4, <2>2
    <3>3. i \in Int
      BY <1>5
    <3>4. QED
      BY <1>1, <2>2, <3>1, <3>2, <3>3
  <2>3. QED
    BY <1>6, <2>1, <2>2
<1>8. HasAt(g, d, n)
  <2>1. \A i \in DOMAIN d : g[n + i].sup = IF d[i].sup = 0 THEN 0 ELSE d[i].sup + n
    BY <1>4, <1>5
  <2>2. ASSUME NEW i \in DOMAIN g PROVE g[i].imported <=> (n < i /\ i <= n + Len(d))
    <3>1. CASE i \in DOMAIN h
      <4>1. ~g[i].imported /\ ~(n < i)
        BY <1>1, <1>5, <3>1 DEF Local
      <4>2. QED
        BY <4>1
    <3>2. CASE i > n /\ i - n \in DOMAIN d /\ g[i] = e[i - n]
      <4>1. g[i].imported /\ n < i /\ i <= n + Len(d)
        BY <1>1, <1>4, <1>5, <3>2
      <4>2. QED
        BY <4>1
    <3>3. QED
      BY <1>6, <3>1, <3>2
  <2>3. QED
    BY <1>1, <1>5, <2>1, <2>2 DEF HasAt
<1>9. Local(g) => Len(g) <= MaxVersions
  <2>1. ASSUME Local(g), Len(d) # 0 PROVE FALSE
    <3>1. 1 \in DOMAIN d /\ n + 1 \in DOMAIN g
      BY <1>1, <1>5, <2>1
    <3>2. g[n + 1] = e[1] /\ e[1].imported
      BY <1>4, <1>5, <3>1
    <3>3. QED
      BY <2>1, <3>1, <3>2 DEF Local
  <2>2. QED
    BY <1>1, <1>5, <2>1
<1>10. ASSUME h = <<>>, Chain(d) PROVE Chain(g)
  <2>1. n = 0
    BY <1>10
  <2>2. ASSUME NEW i \in DOMAIN g PROVE g[i].sup = i - 1
    <3>1. i \in DOMAIN d /\ g[i] = e[i] /\ d[i].sup = i - 1 /\ i \in Int
      <4>1. i \in DOMAIN d /\ 0 + i = i
        BY <1>1, <1>5, <2>1
      <4>2. g[0 + i] = e[i]
        BY <1>5, <2>1, <4>1
      <4>3. QED
        BY <1>1, <1>10, <4>1, <4>2 DEF Chain
    <3>2. QED
      BY <1>4, <2>1, <3>1
  <2>3. QED
    BY <2>2 DEF Chain
<1>11. QED
  BY <1>1, <1>5, <1>7, <1>8, <1>9, <1>10 DEF Backward
----------------------------------------------------------------------------
(* Rows.                                                                   *)

\* Ids are pairs, of which the first is the name.
LEMMA IdPairs ==
    ASSUME NEW x \in Ids, NEW y \in Ids
    PROVE  x[2] = 0 /\ (x[1] = y[1] => x = y)
BY LogAssumption

LEMMA LogTyped ==
    /\ Len(SourceLog) \in Nat /\ DOMAIN SourceLog = 1..Len(SourceLog)
    /\ Len(LocalLog) \in Nat /\ DOMAIN LocalLog = 1..Len(LocalLog)
    /\ \A i \in DOMAIN SourceLog :
          /\ SourceLog[i].id \in Ids /\ SourceLog[i].hash \in STRING
          /\ SourceLog[i].ref \in Ids \cup {NoRef}
    /\ \A i \in DOMAIN LocalLog :
          /\ LocalLog[i].id \in Ids /\ LocalLog[i].hash \in STRING
          /\ LocalLog[i].ref \in Ids \cup {NoRef}
<1>1. SourceLog \in Seq(Record) /\ LocalLog \in Seq(Record)
  BY LogAssumption
<1>2. /\ \A i \in DOMAIN SourceLog : SourceLog[i] \in Record
      /\ \A i \in DOMAIN LocalLog : LocalLog[i] \in Record
  BY <1>1
<1>3. QED
  BY <1>1, <1>2 DEF Record

\* An episode rates an earlier one of its log.
LEMMA RatesEarlier ==
    ASSUME NEW i \in DOMAIN SourceLog, NEW j \in DOMAIN SourceLog,
           Rates(SourceLog[i].id, SourceLog[j].id)
    PROVE  SourceLog[i].ref = SourceLog[j].id /\ j < i
<1>1. PICK k \in DOMAIN SourceLog :
          SourceLog[k].id = SourceLog[i].id /\ SourceLog[k].ref = SourceLog[j].id
  BY DEF Rates
<1>2. k = i
  BY <1>1, LogAssumption
<1>3. SourceLog[i].ref # NoRef
  BY <1>1, <1>2, LogTyped, LogAssumption
<1>4. PICK m \in 1..(i - 1) : SourceLog[m].id = SourceLog[i].ref
  BY <1>3, LogAssumption
<1>5. m \in DOMAIN SourceLog /\ i \in Int /\ m < i
  BY LogTyped
<1>6. m = j
  BY <1>1, <1>2, <1>4, <1>5, LogAssumption
<1>7. QED
  BY <1>1, <1>2, <1>5, <1>6

\* An id of a row is a captured one, or was made up by the import of the row.
LEMMA RowIds ==
    ASSUME NEW r \in Row, NEW n, GoodRow(r, n)
    PROVE  /\ r.pass = 0 => r.id[2] = 0
           /\ r.pass # 0 => r.from \in Ids /\ (r.id = r.from \/ r.id = <<r.from[1], r.pass>>)
<1>1. r.pass = 0 => r.id \in Ids
  BY LogTyped DEF GoodRow
<1>2. r.from \in Ids
  BY DEF Row
<1>3. QED
  BY <1>1, <1>2, IdPairs DEF GoodRow

\* A row more, with an id of its own.
LEMMA AddRow ==
    ASSUME NEW rows \in Seq(Row), NEW n \in Nat, GoodRows(rows, n), NEW x \in Row, GoodRow(x, n),
           \A i \in DOMAIN rows : rows[i].id # x.id,
           x.pass # 0 =>
              /\ ~Rates(x.from, x.from)
              /\ \A i \in DOMAIN rows : rows[i].pass # 0 =>
                    /\ rows[i].hash # x.hash
                    /\ Rates(x.from, rows[i].from) => Refers(x, rows[i])
                    /\ ~Rates(rows[i].from, x.from),
           NEW t, t = Append(rows, x)
    PROVE  /\ t \in Seq(Row) /\ GoodRows(t, n)
           /\ Len(rows) \in Nat /\ DOMAIN rows = 1..Len(rows) /\ DOMAIN t = 1..(Len(rows) + 1)
           /\ \A i \in DOMAIN rows : i \in DOMAIN t /\ t[i] = rows[i]
           /\ t[Len(rows) + 1] = x /\ Len(rows) + 1 \in DOMAIN t
           /\ \A i \in DOMAIN t : i \in DOMAIN rows \/ i = Len(rows) + 1
<1>1. /\ t \in Seq(Row)
      /\ Len(rows) \in Nat /\ DOMAIN rows = 1..Len(rows) /\ DOMAIN t = 1..(Len(rows) + 1)
      /\ \A i \in DOMAIN rows : t[i] = rows[i]
      /\ t[Len(rows) + 1] = x
  OBVIOUS
<1>2. /\ \A i \in DOMAIN t : i \in DOMAIN rows \/ i = Len(rows) + 1
      /\ \A i \in DOMAIN rows : i \in DOMAIN t /\ i # Len(rows) + 1
      /\ Len(rows) + 1 \in DOMAIN t
  BY <1>1
<1>3. \A i \in DOMAIN t : GoodRow(t[i], n)
  BY <1>1, <1>2 DEF GoodRows
<1>4. \A i, j \in DOMAIN t : t[i].id = t[j].id => i = j
  BY <1>1, <1>2 DEF GoodRows
<1>5. ASSUME NEW i \in DOMAIN t, NEW j \in DOMAIN t, t[i].pass # 0, t[j].pass # 0
      PROVE  /\ t[i].hash = t[j].hash => i = j
             /\ Rates(t[i].from, t[j].from) => Refers(t[i], t[j])
  <2>1. CASE i \in DOMAIN rows /\ j \in DOMAIN rows
    BY <1>1, <1>5, <2>1 DEF GoodRows
  <2>2. CASE i = Len(rows) + 1 /\ j \in DOMAIN rows
    BY <1>1, <1>5, <2>2
  <2>3. CASE i \in DOMAIN rows /\ j = Len(rows) + 1
    BY <1>1, <1>5, <2>3
  <2>4. CASE i = Len(rows) + 1 /\ j = Len(rows) + 1
    BY <1>1, <1>5, <2>4
  <2>5. QED
    BY <1>2, <2>1, <2>2, <2>3, <2>4
<1>6. GoodRows(t, n)
  BY <1>3, <1>4, <1>5 DEF GoodRows
<1>7. QED
  BY <1>1, <1>2, <1>6
----------------------------------------------------------------------------
(* importEpisodes, record by record.                                       *)

\* A row of this import, of one of the first k records, and where feedback on it
\* is made to point.
Fresh(r, idMap, k) ==
    /\ r.pass = imp.pass
    /\ \E m \in 1..k : m \in DOMAIN SourceLog /\ r.from = SourceLog[m].id
    /\ r.id = IF r.from \in DOMAIN idMap THEN idMap[r.from] ELSE r.from

Names == {x[1] : x \in Ids}

\* The accumulator after k records.
Merged(acc, k, n) ==
    /\ acc.rows \in Seq(Row) /\ GoodRows(acc.rows, n)
    /\ acc.known \subseteq STRING /\ Knows(acc.known, acc.rows)
    /\ acc.ok \in BOOLEAN
    /\ acc.ok => \A m \in 1..k : m \in DOMAIN SourceLog /\ SourceLog[m].hash \in acc.known
    /\ \A i \in DOMAIN tgt.eps : i \in DOMAIN acc.rows /\ acc.rows[i] = tgt.eps[i]
    /\ \A i \in DOMAIN acc.rows : i \notin DOMAIN tgt.eps => Fresh(acc.rows[i], acc.idMap, k)
    /\ \A x \in DOMAIN acc.idMap :
          /\ \E m \in 1..k : m \in DOMAIN SourceLog /\ x = SourceLog[m].id
          /\ acc.idMap[x] \in Names \X (1..MaxImports)
    /\ \A x \in DOMAIN acc.idMap :
          \E i \in DOMAIN acc.rows : acc.rows[i].pass = imp.pass /\ acc.rows[i].from = x

\* The next record keeps it so.
LEMMA NextRecord ==
    ASSUME NEW acc, NEW n \in Nat, NEW k \in DOMAIN SourceLog, Merged(acc, k - 1, n),
           sameDB \in BOOLEAN, imp.pass \in 1..MaxImports,
           \A i \in DOMAIN tgt.eps : tgt.eps[i].pass # imp.pass /\ tgt.eps[i].pass <= imp.pass,
           sameDB => k \in DOMAIN src.eps /\ src.eps[k].id = SourceLog[k].id
    PROVE  Merged(InsertEpisode(acc, SourceLog[k]), k, n)
<1> DEFINE r == SourceLog[k]
           q == imp.pass
           rows == acc.rows
           M == acc.idMap
<1>1. /\ k \in Nat /\ k >= 1 /\ r.id \in Ids /\ r.hash \in STRING /\ r.ref \in Ids \cup {NoRef}
      /\ q \in Nat /\ q # 0 /\ q \in 1..MaxImports /\ MaxImports \in Nat
  BY LogTyped, Bounds
<1>2. /\ rows \in Seq(Row) /\ GoodRows(rows, n)
      /\ acc.known \subseteq STRING /\ Knows(acc.known, rows)
      /\ acc.ok \in BOOLEAN
      /\ acc.ok => \A m \in 1..(k - 1) : m \in DOMAIN SourceLog /\ SourceLog[m].hash \in acc.known
  BY DEF Merged
<1>3. /\ \A i \in DOMAIN tgt.eps : i \in DOMAIN rows /\ rows[i] = tgt.eps[i]
      /\ \A i \in DOMAIN rows : i \notin DOMAIN tgt.eps => Fresh(rows[i], M, k - 1)
  BY DEF Merged
<1>4. \A x \in DOMAIN M :
          /\ \E m \in 1..(k - 1) : m \in DOMAIN SourceLog /\ x = SourceLog[m].id
          /\ M[x] \in Names \X (1..MaxImports)
  BY DEF Merged
<1>9. \A x \in DOMAIN M : \E i \in DOMAIN rows : rows[i].pass = q /\ rows[i].from = x
  BY DEF Merged
<1>5. \A m : m \in 1..(k - 1) => m \in 1..k /\ m # k /\ m < k
  BY <1>1
<1>6. \A m \in 1..k : m \in 1..(k - 1) \/ m = k
  BY <1>1
<1>7. CASE r.hash \in acc.known \/ ~acc.ok
  <2>1. InsertEpisode(acc, r) = acc
    BY <1>7 DEF InsertEpisode
  <2>2. acc.ok => \A m \in 1..k : m \in DOMAIN SourceLog /\ SourceLog[m].hash \in acc.known
    BY <1>2, <1>6, <1>7
  <2>3. \A i \in DOMAIN rows : i \notin DOMAIN tgt.eps => Fresh(rows[i], M, k)
    BY <1>3, <1>5 DEF Fresh
  <2>4. \A x \in DOMAIN M :
          /\ \E m \in 1..k : m \in DOMAIN SourceLog /\ x = SourceLog[m].id
          /\ M[x] \in Names \X (1..MaxImports)
    BY <1>4, <1>5
  <2>5. Merged(acc, k, n)
    BY <1>2, <1>3, <1>9, <2>2, <2>3, <2>4 DEF Merged
  <2>6. QED
    BY <2>1, <2>5
<1>8. CASE ~(r.hash \in acc.known \/ ~acc.ok)
  <2> DEFINE id == FreeId(r.id, rows)
             ref == RefersTo(r.ref, M)
             x == [id |-> id, hash |-> r.hash, ref |-> ref, from |-> r.id, pass |-> q]
             new == [rows |-> Append(rows, x),
                     known |-> acc.known \cup {r.hash},
                     idMap |-> IF id = r.id THEN M
                               ELSE [y \in DOMAIN M \cup {r.id} |-> IF y = r.id THEN id ELSE M[y]],
                     ok |-> ref = NoRef \/ ref \in TakenIds(rows)]
  <2>1. InsertEpisode(acc, r) = new
    BY <1>8 DEF InsertEpisode
  <2>2. /\ new.rows = Append(rows, x) /\ new.known = acc.known \cup {r.hash}
        /\ new.idMap = IF id = r.id THEN M
                       ELSE [y \in DOMAIN M \cup {r.id} |-> IF y = r.id THEN id ELSE M[y]]
        /\ new.ok \in BOOLEAN
    OBVIOUS
  <2>3. x.id = id /\ x.hash = r.hash /\ x.ref = ref /\ x.from = r.id /\ x.pass = q
    OBVIOUS
  <2>4. /\ (id = r.id /\ ~sameDB /\ \A i \in DOMAIN rows : rows[i].id # id) \/ id = <<r.id[1], q>>
    <3>1. CASE r.id \in TakenIds(rows)
      BY <3>1 DEF FreeId
    <3>2. CASE r.id \notin TakenIds(rows)
      <4>1. id = r.id
        BY <3>2 DEF FreeId
      <4>2. ~sameDB
        BY <3>2 DEF TakenIds
      <4>3. \A i \in DOMAIN rows : rows[i].id # r.id
        BY <3>2 DEF TakenIds
      <4>4. QED
        BY <4>1, <4>2, <4>3
    <3>3. QED
      BY <3>1, <3>2
  <2>5. ref = IF r.ref \in DOMAIN M THEN M[r.ref] ELSE r.ref
    BY DEF RefersTo
  <2>6. <<r.id[1], q>> \in Names \X (1..MaxImports)
    BY <1>1 DEF Names
  <2>7. x \in Row
    <3>1. id \in Ids \cup (Names \X (1..MaxImports))
      BY <1>1, <2>4, <2>6
    <3>2. ref \in Ids \cup {NoRef} \cup (Names \X (1..MaxImports))
      BY <1>1, <1>4, <2>5
    <3>3. q \in 0..MaxImports
      BY <1>1
    <3> HIDE DEF id, ref, q, r
    <3>4. QED
      BY <1>1, <3>1, <3>2, <3>3 DEF Row, Names
  <2> HIDE DEF id, ref, x, new
  <2>8. \A m \in DOMAIN SourceLog : SourceLog[m].id = r.id => m = k
    BY LogAssumption
  <2>9. r.id \notin DOMAIN M
    <3> SUFFICES ASSUME r.id \in DOMAIN M PROVE FALSE
      OBVIOUS
    <3>1. PICK m \in 1..(k - 1) : m \in DOMAIN SourceLog /\ r.id = SourceLog[m].id
      BY <1>4
    <3>2. QED
      BY <1>5, <2>8, <3>1
  <2>10. GoodRow(x, n)
    BY <1>1, <2>3, <2>4 DEF GoodRow
  \* a row of this import is of an earlier record
  <2>11. ASSUME NEW i \in DOMAIN rows, rows[i].pass = q
         PROVE  /\ Fresh(rows[i], M, k - 1)
                /\ \E m \in 1..(k - 1) : m \in DOMAIN SourceLog /\ rows[i].from = SourceLog[m].id
    <3>1. i \notin DOMAIN tgt.eps
      BY <1>3, <2>11
    <3>2. QED
      BY <1>3, <3>1 DEF Fresh
  <2>12. ASSUME NEW i \in DOMAIN rows, rows[i].id = x.id PROVE FALSE
    <3>1. id = <<r.id[1], q>>
      BY <2>3, <2>4, <2>12
    <3>2. rows[i].id = <<r.id[1], q>>
      BY <2>3, <2>12, <3>1
    <3>3. rows[i] \in Row /\ GoodRow(rows[i], n)
      BY <1>2 DEF GoodRows
    <3>4. PICK w : w = rows[i]
      OBVIOUS
    <3>5. w \in Row /\ GoodRow(w, n) /\ w.id = <<r.id[1], q>>
      BY <3>2, <3>3, <3>4
    <3>6. w.id[2] = q /\ w.id[1] = r.id[1]
      BY <3>5
    <3>7. w.pass # 0 /\ w.from \in Ids /\ (w.id = w.from \/ w.id = <<w.from[1], w.pass>>)
      BY <1>1, <3>5, <3>6, RowIds
    <3>8. w.id # w.from
      BY <1>1, <3>6, <3>7, IdPairs
    <3>9. w.pass = q /\ w.from[1] = r.id[1]
      BY <3>5, <3>7, <3>8
    <3>10. w.from = r.id
      BY <1>1, <3>7, <3>9, IdPairs
    <3>11. PICK m \in 1..(k - 1) : m \in DOMAIN SourceLog /\ rows[i].from = SourceLog[m].id
      BY <2>11, <3>4, <3>9
    <3>12. m = k
      BY <2>8, <3>4, <3>10, <3>11
    <3>13. QED
      BY <1>5, <3>11, <3>12
  <2>13. ~Rates(x.from, x.from)
    <3> SUFFICES ASSUME Rates(r.id, r.id) PROVE FALSE
      BY <2>3
    <3>1. k < k
      BY RatesEarlier
    <3>2. QED
      BY <1>1, <3>1
  <2>14. ASSUME NEW i \in DOMAIN rows, rows[i].pass # 0 PROVE rows[i].hash # x.hash
    BY <1>2, <1>8, <2>3, <2>14 DEF Knows
  \* no row is about a later record: what rows are about is known
  <2>15. ASSUME NEW i \in DOMAIN rows, rows[i].pass # 0, Rates(rows[i].from, x.from) PROVE FALSE
    <3>1. SourceLog[k].hash \in acc.known
      BY <1>2, <2>3, <2>15 DEF Knows, RatedIn
    <3>2. QED
      BY <1>8, <3>1
  <2>26. ASSUME NEW i \in DOMAIN rows, rows[i].pass # 0, Rates(x.from, rows[i].from)
         PROVE  Refers(x, rows[i])
    <3>1. PICK w : w = rows[i]
      OBVIOUS
    <3>2. w \in Row /\ GoodRow(w, n)
      BY <1>2, <3>1 DEF GoodRows
    <3>3. PICK m \in DOMAIN SourceLog : w.from = SourceLog[m].id /\ w.hash = SourceLog[m].hash
      BY <2>26, <3>1, <3>2 DEF GoodRow
    <3>4. r.ref = w.from
      BY <2>3, <2>26, <3>1, <3>3, RatesEarlier
    <3>5. CASE w.pass = q
      <4>1. w.id = IF w.from \in DOMAIN M THEN M[w.from] ELSE w.from
        BY <2>11, <3>1, <3>5 DEF Fresh
      <4>2. x.ref = w.id
        BY <2>3, <2>5, <3>4, <4>1
      <4>3. QED
        BY <3>1, <4>2 DEF Refers
    <3>6. CASE w.pass # q
      <4>1. w.pass \in Nat /\ w.pass < q
        <5>1. i \in DOMAIN tgt.eps
          BY <1>3, <3>1, <3>6 DEF Fresh
        <5>2. w.pass <= q
          BY <1>3, <3>1, <5>1
        <5>3. w.pass \in Nat
          BY <3>2, Bounds DEF Row
        <5>4. QED
          BY <1>1, <3>6, <5>2, <5>3
      <4>2. w.id = w.from => x.ref = w.id
        <5>1. w.from \notin DOMAIN M
          <6> SUFFICES ASSUME w.from \in DOMAIN M PROVE FALSE
            OBVIOUS
          <6>1. PICK j \in DOMAIN rows : rows[j].pass = q /\ rows[j].from = w.from
            BY <1>9
          <6>2. PICK v : v = rows[j]
            OBVIOUS
          <6>3. v \in Row /\ GoodRow(v, n) /\ v.pass # 0 /\ v.from = w.from
            BY <1>1, <1>2, <6>1, <6>2 DEF GoodRows
          <6>4. PICK l \in DOMAIN SourceLog : v.from = SourceLog[l].id /\ v.hash = SourceLog[l].hash
            BY <6>3 DEF GoodRow
          <6>5. l = m
            BY <3>3, <6>3, <6>4, LogAssumption
          <6>6. rows[i].hash = rows[j].hash
            BY <3>1, <3>3, <6>2, <6>4, <6>5
          <6>7. i = j
            BY <1>1, <1>2, <2>26, <6>1, <6>6 DEF GoodRows
          <6>8. QED
            BY <3>1, <3>6, <6>1, <6>7
        <5>2. QED
          BY <2>3, <2>5, <3>4, <5>1
      <4>3. w.pass < x.pass
        BY <2>3, <4>1
      <4>4. QED
        BY <3>1, <4>2, <4>3 DEF Refers
    <3>7. QED
      BY <3>5, <3>6
  <2> DEFINE t == new.rows
  <2>16. t = Append(rows, x)
    BY <2>2
  <2> HIDE DEF t
  <2>17. /\ t \in Seq(Row) /\ GoodRows(t, n)
         /\ Len(rows) \in Nat /\ DOMAIN rows = 1..Len(rows)
         /\ \A i \in DOMAIN rows : i \in DOMAIN t /\ t[i] = rows[i]
         /\ t[Len(rows) + 1] = x /\ Len(rows) + 1 \in DOMAIN t
         /\ \A i \in DOMAIN t : i \in DOMAIN rows \/ i = Len(rows) + 1
    <3> HIDE DEF rows, q, r
    <3>1. rows \in Seq(Row) /\ GoodRows(rows, n)
      BY <1>2
    <3>2. \A i \in DOMAIN rows : rows[i].id # x.id
      BY <2>12
    <3>3. x.pass # 0 =>
              /\ ~Rates(x.from, x.from)
              /\ \A i \in DOMAIN rows : rows[i].pass # 0 =>
                    /\ rows[i].hash # x.hash
                    /\ Rates(x.from, rows[i].from) => Refers(x, rows[i])
                    /\ ~Rates(rows[i].from, x.from)
      BY <2>13, <2>14, <2>15, <2>26
    <3>4. x \in Row /\ GoodRow(x, n) /\ t = Append(rows, x)
      BY <2>7, <2>10, <2>16
    <3>5. GoodRows(t, n)
      BY <3>1, <3>2, <3>3, <3>4, AddRow
    <3>6. /\ t \in Seq(Row) /\ Len(rows) \in Nat /\ DOMAIN rows = 1..Len(rows)
          /\ DOMAIN t = 1..(Len(rows) + 1) /\ t[Len(rows) + 1] = x
          /\ \A i \in DOMAIN rows : t[i] = rows[i]
      BY <3>1, <3>4
    <3>7. QED
      BY <3>5, <3>6
  <2> DEFINE N == new.idMap
  <2>18. /\ \A y \in DOMAIN M : y \in DOMAIN N /\ N[y] = M[y]
         /\ \A y \in DOMAIN N : y \in DOMAIN M \/ (y = r.id /\ id # r.id)
         /\ id # r.id => r.id \in DOMAIN N /\ N[r.id] = id
    <3>1. CASE id = r.id
      <4>1. N = M
        BY <2>2, <3>1
      <4> HIDE DEF N, M, r
      <4>2. QED
        BY <3>1, <4>1
    <3>2. CASE id # r.id
      <4>1. N = [y \in DOMAIN M \cup {r.id} |-> IF y = r.id THEN id ELSE M[y]]
        BY <2>2, <3>2
      <4> HIDE DEF N, M, r
      <4>2. QED
        BY <2>9, <3>2, <4>1
    <3>3. QED
      BY <3>1, <3>2
  <2> HIDE DEF N
  <2>19. \A y \in DOMAIN N :
          /\ \E m \in 1..k : m \in DOMAIN SourceLog /\ y = SourceLog[m].id
          /\ N[y] \in Names \X (1..MaxImports)
    <3> SUFFICES ASSUME NEW y \in DOMAIN N
                 PROVE  /\ \E m \in 1..k : m \in DOMAIN SourceLog /\ y = SourceLog[m].id
                        /\ N[y] \in Names \X (1..MaxImports)
      OBVIOUS
    <3>1. CASE y \in DOMAIN M
      <4>1. PICK m \in 1..(k - 1) : m \in DOMAIN SourceLog /\ y = SourceLog[m].id
        BY <1>4, <3>1
      <4>2. m \in 1..k
        BY <1>5
      <4>3. N[y] \in Names \X (1..MaxImports)
        BY <1>4, <2>18, <3>1
      <4>4. QED
        BY <4>1, <4>2, <4>3
    <3>2. CASE y = r.id /\ id # r.id
      <4>1. N[y] = <<r.id[1], q>>
        BY <2>4, <2>18, <3>2
      <4>2. k \in 1..k
        BY <1>1
      <4>3. QED
        BY <2>6, <3>2, <4>1, <4>2
    <3>3. QED
      BY <2>18, <3>1, <3>2
  <2>20. \A i \in DOMAIN t : i \notin DOMAIN tgt.eps => Fresh(t[i], N, k)
    <3> SUFFICES ASSUME NEW i \in DOMAIN t, i \notin DOMAIN tgt.eps PROVE Fresh(t[i], N, k)
      OBVIOUS
    <3>1. CASE i \in DOMAIN rows
      <4>1. PICK w : w = rows[i]
        OBVIOUS
      <4>2. Fresh(w, M, k - 1) /\ t[i] = w
        BY <1>3, <2>17, <3>1, <4>1
      <4>3. /\ w.pass = q
            /\ w.id = IF w.from \in DOMAIN M THEN M[w.from] ELSE w.from
        BY <4>2 DEF Fresh
      <4>4. PICK m \in 1..(k - 1) : m \in DOMAIN SourceLog /\ w.from = SourceLog[m].id
        BY <4>2 DEF Fresh
      <4>5. w.from # r.id
        BY <1>5, <2>8, <4>4
      <4>6. w.id = IF w.from \in DOMAIN N THEN N[w.from] ELSE w.from
        BY <2>18, <4>3, <4>5
      <4>7. m \in 1..k
        BY <1>5
      <4>8. QED
        BY <4>2, <4>3, <4>4, <4>6, <4>7 DEF Fresh
    <3>2. CASE i = Len(rows) + 1
      <4>1. t[i] = x
        BY <2>17, <3>2
      <4>2. x.id = IF x.from \in DOMAIN N THEN N[x.from] ELSE x.from
        BY <2>3, <2>9, <2>18
      <4>3. k \in 1..k
        BY <1>1
      <4>4. QED
        BY <2>3, <4>1, <4>2, <4>3 DEF Fresh
    <3>3. QED
      BY <2>17, <3>1, <3>2
  <2>21. new.known \subseteq STRING /\ Knows(new.known, t)
    <3>1. new.known \subseteq STRING
      BY <1>1, <1>2, <2>2
    <3>2. \A i \in DOMAIN t : t[i].pass # 0 => t[i].hash \in new.known
      BY <1>2, <2>2, <2>3, <2>17 DEF Knows
    <3>3. ASSUME NEW y \in new.known PROVE \E i \in DOMAIN t : t[i].hash = y
      <4>1. CASE y = r.hash
        BY <2>3, <2>17, <4>1
      <4>2. CASE y \in acc.known
        <5>1. PICK i \in DOMAIN rows : rows[i].hash = y
          BY <1>2, <4>2 DEF Knows
        <5>2. QED
          BY <2>17, <5>1
      <4>3. QED
        BY <2>2, <4>1, <4>2
    <3>4. ASSUME NEW i \in DOMAIN t, NEW m \in DOMAIN SourceLog, t[i].pass # 0,
                 Rates(t[i].from, SourceLog[m].id)
          PROVE  SourceLog[m].hash \in new.known
      <4>1. CASE i \in DOMAIN rows
        <5>1. rows[i].pass # 0 /\ Rates(rows[i].from, SourceLog[m].id)
          BY <2>17, <3>4, <4>1
        <5>2. RatedIn(acc.known, rows)
          BY <1>2 DEF Knows
        <5>3. SourceLog[m].hash \in acc.known
          BY <4>1, <5>1, <5>2 DEF RatedIn
        <5>4. QED
          BY <2>2, <5>3
      <4>2. CASE i = Len(rows) + 1
        <5>1. Rates(SourceLog[k].id, SourceLog[m].id)
          BY <2>3, <2>17, <3>4, <4>2
        <5>2. m < k
          BY <5>1, RatesEarlier
        <5>3. m \in 1..(k - 1)
          BY <1>1, <5>2, LogTyped
        <5>4. QED
          BY <1>2, <1>8, <2>2, <5>3
      <4>3. QED
        BY <2>17, <4>1, <4>2
    <3>5. QED
      BY <3>1, <3>2, <3>3, <3>4 DEF Knows, RatedIn
  <2>22. \A m \in 1..k : m \in DOMAIN SourceLog /\ SourceLog[m].hash \in new.known
    BY <1>2, <1>6, <1>8, <2>2
  <2>23. \A i \in DOMAIN tgt.eps : i \in DOMAIN t /\ t[i] = tgt.eps[i]
    BY <1>3, <2>17
  <2>27. \A y \in DOMAIN N : \E i \in DOMAIN t : t[i].pass = q /\ t[i].from = y
    <3> SUFFICES ASSUME NEW y \in DOMAIN N
                 PROVE  \E i \in DOMAIN t : t[i].pass = q /\ t[i].from = y
      OBVIOUS
    <3>1. CASE y \in DOMAIN M
      BY <1>9, <2>17, <3>1
    <3>2. CASE y = r.id
      BY <2>3, <2>17, <3>2
    <3>3. QED
      BY <2>18, <3>1, <3>2
  <2>24. Merged(new, k, n)
    BY <2>2, <2>17, <2>19, <2>20, <2>21, <2>22, <2>23, <2>27 DEF Merged, t, N
  <2>25. QED
    BY <2>1, <2>24
<1>10. QED
  BY <1>7, <1>8

\* The types of what the proofs look into.
LEMMA Fields ==
    ASSUME Shape
    PROVE  /\ sameDB \in BOOLEAN /\ failures \in 0..MaxFailures
           /\ imp.pass \in 0..MaxImports /\ imp.pass \in Nat /\ imp.known \subseteq STRING
           /\ imp.dir.eps \in Seq(Record) /\ Len(imp.dir.eps) \in Nat
           /\ DOMAIN imp.dir.eps = 1..Len(imp.dir.eps)
           /\ src.eps \in Seq(Record) /\ Len(src.eps) \in Nat
           /\ DOMAIN src.eps = 1..Len(src.eps)
           /\ tgt.eps \in Seq(Row) /\ Len(tgt.eps) \in Nat
           /\ DOMAIN tgt.eps = 1..Len(tgt.eps)
<1>1. /\ sameDB \in BOOLEAN /\ failures \in 0..MaxFailures
      /\ imp.pass \in 0..MaxImports /\ imp.known \subseteq STRING
      /\ imp.dir \in Directory /\ src \in Directory /\ tgt.eps \in Seq(Row)
  BY DEF Shape
<1>2. imp.dir.eps \in Seq(Record) /\ src.eps \in Seq(Record)
  BY <1>1 DEF Directory
<1>3. QED
  BY <1>1, <1>2, Bounds

\* The target's own rows are finitely many.
LEMMA LocalFinite ==
    ASSUME NEW rows \in Seq(Row)
    PROVE  IsFiniteSet(LocalRows(rows)) /\ Cardinality(LocalRows(rows)) \in Nat
<1>1. Len(rows) \in Nat /\ DOMAIN rows = 1..Len(rows)
  OBVIOUS
<1>2. LocalRows(rows) \subseteq 1..Len(rows)
  BY <1>1 DEF LocalRows
<1>3. IsFiniteSet(1..Len(rows))
  BY <1>1, FS_Interval
<1>4. IsFiniteSet(LocalRows(rows))
  BY <1>2, <1>3, FS_Subset
<1>5. QED
  BY <1>4, FS_CardinalityType

\* What all the records of a bundle make of the scope.
LEMMA Fold ==
    ASSUME Inv, imp.pc = "episodes",
           NEW end, end = FoldLeft(InsertEpisode, Base, imp.dir.eps)
    PROVE  Merged(end, Len(imp.dir.eps), Cardinality(LocalRows(tgt.eps)))
<1> DEFINE N == Len(imp.dir.eps)
           n == Cardinality(LocalRows(tgt.eps))
<1>1. Shape /\ Exports /\ Rows
  BY DEF Inv
<1>2. /\ N \in Nat /\ DOMAIN imp.dir.eps = 1..N /\ tgt.eps \in Seq(Row)
      /\ imp.pass \in 0..MaxImports /\ imp.known \subseteq STRING /\ sameDB \in BOOLEAN
      /\ Len(src.eps) \in Nat /\ DOMAIN src.eps = 1..Len(src.eps)
  BY <1>1, Fields
<1>3. n \in Nat
  BY <1>2, LocalFinite
<1>4. /\ N <= Len(src.eps)
      /\ \A i \in DOMAIN imp.dir.eps : i \in DOMAIN SourceLog /\ imp.dir.eps[i] = SourceLog[i]
      /\ \A i \in DOMAIN src.eps : i \in DOMAIN SourceLog /\ src.eps[i] = SourceLog[i]
  BY <1>1 DEF Exports, Exported
<1>5. /\ imp.pass # 0
      /\ \A i \in DOMAIN tgt.eps : tgt.eps[i].pass # imp.pass /\ tgt.eps[i].pass <= imp.pass
  BY <1>1 DEF Rows
<1>6. GoodRows(tgt.eps, n) /\ Knows(imp.known, tgt.eps)
  BY <1>1 DEF Rows
<1>7. PICK f : /\ f[0] = Base
               /\ \A k \in 1..N : f[k] = InsertEpisode(f[k - 1], imp.dir.eps[k])
               /\ FoldLeft(InsertEpisode, Base, imp.dir.eps) = f[N]
  BY <1>2, FoldSteps
<1> HIDE DEF N, n
<1>8. Merged(Base, 0, n)
  <2>1. /\ Base.rows = tgt.eps /\ Base.known = imp.known /\ Base.ok = TRUE
        /\ Base.idMap = <<>>
    BY DEF Base
  <2>2. \A m \in 1..0 : FALSE
    OBVIOUS
  <2>3. \A x \in DOMAIN Base.idMap : FALSE
    BY <2>1
  <2>4. QED
    BY <1>2, <1>6, <2>1, <2>2, <2>3 DEF Merged
<1> DEFINE T == {k \in 0..N : ~Merged(f[k], k, n)}
<1>9. T = {}
  <2> SUFFICES ASSUME T # {} PROVE FALSE
    OBVIOUS
  <2>1. T \subseteq Nat
    BY <1>2
  <2>2. PICK k \in T : \A j \in T : k <= j
    BY <2>1, Least
  <2>3. k \in 0..N /\ ~Merged(f[k], k, n) /\ k # 0
    BY <1>7, <1>8
  <2>4. k - 1 \in 0..N /\ k \in 1..N /\ ~(k <= k - 1)
    BY <1>2, <2>3
  <2>5. Merged(f[k - 1], k - 1, n)
    BY <2>2, <2>4
  <2>6. f[k] = InsertEpisode(f[k - 1], SourceLog[k]) /\ k \in DOMAIN SourceLog
    BY <1>2, <1>4, <1>7, <2>4
  <2>7. sameDB => k \in DOMAIN src.eps /\ src.eps[k].id = SourceLog[k].id
    BY <1>2, <1>4, <2>4
  <2>8. imp.pass \in 1..MaxImports
    BY <1>2, <1>5, Bounds
  <2> HIDE DEF T
  <2>9. Merged(InsertEpisode(f[k - 1], SourceLog[k]), k, n)
    BY <1>2, <1>3, <1>5, <2>5, <2>6, <2>7, <2>8, NextRecord
  <2>10. QED
    BY <2>3, <2>6, <2>9
<1>10. N \in 0..N
  BY <1>2
<1>11. Merged(f[N], N, n)
  BY <1>9, <1>10
<1>12. QED
  BY <1>7, <1>11 DEF N, n
----------------------------------------------------------------------------
(* What a step leaves alone.                                               *)

\* The target's rows stay, and the import moves on.
LEMMA RowsKept ==
    ASSUME Rows, UNCHANGED sameDB, tgt'.eps = tgt.eps, imp'.pass = imp.pass,
           imp'.pc \in Loading =>
              imp.pc \in Loading,
           imp'.pc = "episodes" => Knows(imp'.known, tgt.eps),
           imp'.pc \in {"logEpisodes", "done"} =>
              imp.pc \in {"logEpisodes", "done"} /\ imp'.dir = imp.dir
    PROVE  Rows'
<1>1. \A r, n : GoodRow(r, n)' <=> GoodRow(r, n)
  BY DEF GoodRow
<1>2. PICK rows, n : rows = tgt.eps /\ n = Cardinality(LocalRows(tgt.eps))
  OBVIOUS
<1>3. GoodRows(rows, n)' <=> GoodRows(rows, n)
  BY <1>1 DEF GoodRows
<1>4. rows = tgt'.eps /\ n = Cardinality(LocalRows(tgt'.eps))
  BY <1>2
<1>5. /\ n <= Len(LocalLog) /\ GoodRows(rows, n) /\ RatedIn(Hashes(rows), rows)
      /\ \A i \in DOMAIN rows : rows[i].pass <= imp.pass
  BY <1>2 DEF Rows
<1>6. imp'.pc \in Loading =>
             /\ imp'.pass # 0
             /\ \A i \in DOMAIN rows : rows[i].pass # imp'.pass
  BY <1>2 DEF Rows
<1>7. imp'.pc \in {"logEpisodes", "done"} =>
             \A i \in DOMAIN imp'.dir.eps :
                \E k \in DOMAIN rows : rows[k].hash = imp'.dir.eps[i].hash
  BY <1>2 DEF Rows
<1>8. imp'.pc = "episodes" => Knows(imp'.known, rows)
  BY <1>2
<1>9. GoodRows(rows, n)' /\ \A i \in DOMAIN rows : rows[i].pass <= imp'.pass
  BY <1>3, <1>5
<1>10. QED
  BY <1>4, <1>5, <1>6, <1>7, <1>8, <1>9 DEF Rows

\* The summaries stay, and no file is taken in hand.
LEMMA PeriodsKept ==
    ASSUME \A p \in Periods : GoodPeriod(p), tgt'.sums = tgt.sums, UNCHANGED <<given, raced>>,
           imp'.file \subseteq imp.file
    PROVE  (\A p \in Periods : GoodPeriod(p))'
BY DEF GoodPeriod

\* The empty directory is of no use, and no harm.
LEMMA NothingExported ==
    ASSUME NEW k \in Nat
    PROVE  NoDirectory \in Directory /\ Exported(NoDirectory, k)
<1>1. NoDirectory.eps = <<>> /\ \A p \in Periods : NoDirectory.sums[p] = <<>>
  BY DEF NoDirectory
<1>2. Len(<<>>) = 0 /\ \A i \in DOMAIN <<>> : FALSE
  OBVIOUS
<1>3. Exported(NoDirectory, k)
  BY <1>1, <1>2, Bounds DEF Exported, Backward
<1>4. NoDirectory \in Directory
  BY DEF NoDirectory, Directory, History
<1>5. QED
  BY <1>3, <1>4

\* The source scope and its exports stay, and the import's copy is one of them.
LEMMA ExportsKept ==
    ASSUME Shape, Exports, UNCHANGED <<src, exp, bundle>>,
           imp'.dir \in {imp.dir, bundle.dir, NoDirectory}
    PROVE  Exports'
<1>1. Len(src.eps) \in Nat
  BY Fields
<1>2. Exported(NoDirectory, Len(src.eps))
  BY <1>1, NothingExported
<1>3. QED
  BY <1>2 DEF Exports

\* Nothing of the target scope or its import changes.
LEMMA TargetKept ==
    ASSUME Rows, OneFile, \A p \in Periods : GoodPeriod(p),
           UNCHANGED <<sameDB, tgt, imp, given, raced>>
    PROVE  Rows' /\ OneFile' /\ (\A p \in Periods : GoodPeriod(p))'
<1>1. Rows'
  <2>1. imp.pc = "episodes" => Knows(imp.known, tgt.eps)
    BY DEF Rows
  <2>2. QED
    BY <2>1, RowsKept
<1>2. OneFile'
  BY DEF OneFile
<1>3. QED
  BY <1>1, <1>2, PeriodsKept

----------------------------------------------------------------------------
(* The source scope and its export.                                        *)

\* An older state of the source scope is exported of a newer one.
LEMMA OlderExport ==
    ASSUME NEW d, NEW k \in Nat, NEW l \in Nat, k <= l, d \in Directory, Exported(d, k)
    PROVE  Exported(d, l)
<1>1. Len(d.eps) \in Nat
  BY DEF Directory
<1>2. QED
  BY <1>1 DEF Exported

\* The source scope captures, consolidates or learns of an entity.
LEMMA SourceMoves ==
    ASSUME Shape, Exports, SourceWrites
    PROVE  src' \in Directory /\ Len(src'.eps) \in Nat /\ Len(src.eps) <= Len(src'.eps)
           /\ Exported(src', Len(src'.eps))
<1>1. /\ src.eps \in Seq(Record) /\ Len(src.eps) \in Nat /\ DOMAIN src.eps = 1..Len(src.eps)
  BY Fields
<1>2. src \in Directory /\ src.sums \in [Periods -> History] /\ src.ents \subseteq Entities
  BY DEF Shape, Directory
<1>3. /\ \A i \in DOMAIN src.eps : i \in DOMAIN SourceLog /\ src.eps[i] = SourceLog[i]
      /\ \A p \in Periods : Backward(src.sums[p]) /\ Len(src.sums[p]) <= MaxVersions
  BY DEF Exports, Exported
<1>4. src = [eps |-> src.eps, sums |-> src.sums, ents |-> src.ents]
  BY <1>2 DEF Directory
<1>5. CASE /\ Len(src.eps) < Len(SourceLog)
           /\ src' = [src EXCEPT !.eps = Append(@, SourceLog[Len(@) + 1])]
  <2> DEFINE l == Len(src.eps) + 1
  <2>1. l \in DOMAIN SourceLog /\ SourceLog[l] \in Record
    BY <1>1, <1>5, LogTyped, LogAssumption
  <2>2. src'.eps = Append(src.eps, SourceLog[l]) /\ src'.sums = src.sums /\ src'.ents = src.ents
    BY <1>2, <1>5 DEF Directory
  <2>3. src' \in Directory
    <3>1. src' = [eps |-> src'.eps, sums |-> src.sums, ents |-> src.ents]
      BY <1>4, <1>5, <2>2
    <3>2. src'.eps \in Seq(Record)
      BY <1>1, <2>1, <2>2
    <3>3. QED
      BY <1>2, <3>1, <3>2 DEF Directory
  <2>4. /\ Len(src'.eps) = l /\ DOMAIN src'.eps = 1..l /\ src'.eps[l] = SourceLog[l]
        /\ \A i \in DOMAIN src.eps : src'.eps[i] = src.eps[i]
    BY <1>1, <2>1, <2>2
  <2>5. \A i \in 1..l : i \in DOMAIN src.eps \/ i = l
    BY <1>1
  <2>6. \A i \in DOMAIN src'.eps : i \in DOMAIN SourceLog /\ src'.eps[i] = SourceLog[i]
    BY <1>3, <2>1, <2>4, <2>5
  <2>7. QED
    BY <1>1, <1>3, <2>2, <2>3, <2>4, <2>6 DEF Exported
<1>6. CASE \E p \in Periods :
             /\ Len(src.sums[p]) < MaxVersions
             /\ \E h \in Extensions(src.sums[p]) : src' = [src EXCEPT !.sums[p] = h]
  <2>0. PICK p \in Periods :
             /\ Len(src.sums[p]) < MaxVersions
             /\ \E h \in Extensions(src.sums[p]) : src' = [src EXCEPT !.sums[p] = h]
    BY <1>6
  <2>1. PICK h \in Extensions(src.sums[p]) : src' = [src EXCEPT !.sums[p] = h]
    BY <2>0
  <2>2. /\ src'.eps = src.eps /\ src'.ents = src.ents
        /\ src'.sums = [src.sums EXCEPT ![p] = h]
        /\ src' = [eps |-> src.eps, sums |-> [src.sums EXCEPT ![p] = h], ents |-> src.ents]
    BY <1>2, <1>4, <2>1 DEF Directory
  <2>3. PICK g : g = src.sums[p]
    OBVIOUS
  <2>4. g \in History /\ Backward(g) /\ h \in Extensions(g) /\ Len(g) < MaxVersions
    BY <1>2, <1>3, <2>0, <2>1, <2>3
  <2>6. h \in History /\ Backward(h) /\ Len(h) = Len(g) + 1 /\ Len(g) \in Nat
    BY <2>4, Extended
  <2>7. \A q \in Periods : Backward(src'.sums[q]) /\ Len(src'.sums[q]) <= MaxVersions
    BY <1>2, <1>3, <2>2, <2>4, <2>6, Bounds
  <2>8. src' \in Directory
    BY <1>1, <1>2, <2>2, <2>6 DEF Directory
  <2>9. QED
    BY <1>1, <1>3, <2>2, <2>7, <2>8 DEF Exported
<1>7. CASE \E e \in Entities \ src.ents : src' = [src EXCEPT !.ents = @ \cup {e}]
  <2>1. PICK e \in Entities : src' = [src EXCEPT !.ents = @ \cup {e}]
    BY <1>7
  <2>2. src'.eps = src.eps /\ src'.sums = src.sums /\ src' \in Directory
    BY <1>2, <2>1 DEF Directory
  <2>3. QED
    BY <1>1, <1>3, <2>2 DEF Exported
<1>8. QED
  BY <1>5, <1>6, <1>7 DEF SourceWrites

LEMMA KeepsSourceWrites == ASSUME Inv, SourceWrites PROVE Inv'
<1>1. Shape /\ Exports /\ OneFile /\ Rows /\ \A p \in Periods : GoodPeriod(p)
  BY DEF Inv
<1>2. UNCHANGED <<sameDB, exp, bundle, tgt, imp, given, raced, failures>>
  BY DEF SourceWrites
<1>3. src' \in Directory /\ Len(src'.eps) \in Nat /\ Len(src.eps) <= Len(src'.eps)
      /\ Exported(src', Len(src'.eps))
  BY <1>1, SourceMoves
<1>4. Shape'
  BY <1>1, <1>2, <1>3 DEF Shape
<1>5. exp.dir \in Directory /\ bundle.dir \in Directory /\ imp.dir \in Directory
  BY <1>1 DEF Shape
<1>6. Len(src.eps) \in Nat
  BY <1>1, Fields
<1>7. /\ Exported(exp.dir, Len(src'.eps)) /\ Exported(bundle.dir, Len(src'.eps))
      /\ Exported(imp.dir, Len(src'.eps))
  BY <1>1, <1>3, <1>5, <1>6, OlderExport DEF Exports
<1>8. Exports'
  BY <1>1, <1>2, <1>3, <1>7 DEF Exports
<1>9. Rows' /\ OneFile' /\ (\A p \in Periods : GoodPeriod(p))'
  BY <1>1, <1>2, TargetKept
<1>10. QED
  BY <1>4, <1>8, <1>9 DEF Inv

LEMMA KeepsExport ==
    ASSUME Inv,
           \/ ExportStart \/ ExportEpisodes \/ ExportSummaries \/ ExportEntities
           \/ OpenOut \/ Pack \/ ExportFails
    PROVE  Inv'
<1>1. Shape /\ Exports /\ OneFile /\ Rows /\ \A p \in Periods : GoodPeriod(p)
  BY DEF Inv
<1>2. UNCHANGED <<sameDB, src, tgt, imp, given, raced, failures>>
  BY DEF ExportStart, ExportEpisodes, ExportSummaries, ExportEntities, OpenOut, Pack, ExportFails
<1>3. Rows' /\ OneFile' /\ (\A p \in Periods : GoodPeriod(p))'
  BY <1>1, <1>2, TargetKept
<1>4. PICK k : k = Len(src.eps)
  OBVIOUS
<1>5. k \in Nat
  BY <1>1, <1>4, Fields
<1>6. /\ src \in Directory /\ exp.dir \in Directory
      /\ exp = [pc |-> exp.pc, dir |-> exp.dir] /\ bundle \in Bundle
  BY <1>1 DEF Shape
<1>7. Exported(src, k) /\ Exported(exp.dir, k) /\ Exported(bundle.dir, k) /\ Exported(imp.dir, k)
  BY <1>1, <1>4 DEF Exports
<1>8. NoDirectory \in Directory /\ Exported(NoDirectory, k)
  BY <1>5, NothingExported
<1>9. /\ exp' \in ExportState /\ Exported(exp'.dir, k)
      /\ bundle' \in Bundle /\ Exported(bundle'.dir, k)
  <2>1. CASE ExportStart \/ ExportFails
    BY <1>6, <1>7, <1>8, <2>1 DEF ExportStart, ExportFails
  <2>5. CASE OpenOut
    <3>1. bundle.n + 1 \in 0..MaxExports
      BY <1>1, <1>6, <2>5, Bounds DEF OpenOut, Exports
    <3>2. PICK left \in {bundle, NoBundle} : bundle' = [left EXCEPT !.n = bundle.n + 1]
      BY <2>5 DEF OpenOut
    <3>3. left = [n |-> left.n, whole |-> left.whole, dir |-> left.dir]
          /\ left.whole \in BOOLEAN /\ left.dir \in Directory /\ Exported(left.dir, k)
      <4>1. CASE left = bundle
        BY <1>6, <1>7, <4>1
      <4>2. CASE left = NoBundle
        <5>1. left = [n |-> 0, whole |-> FALSE, dir |-> NoDirectory]
          BY <4>2 DEF NoBundle
        <5>2. left.n = 0 /\ left.whole = FALSE /\ left.dir = NoDirectory
          BY <5>1
        <5>3. QED
          BY <1>8, <5>1, <5>2
      <4>3. QED
        BY <3>2, <4>1, <4>2
    <3>4. bundle' = [n |-> bundle.n + 1, whole |-> left.whole, dir |-> left.dir]
      BY <3>2, <3>3
    <3>5. exp' = [pc |-> "packing", dir |-> exp.dir]
      BY <1>6, <2>5 DEF OpenOut
    <3>6. QED
      BY <1>6, <1>7, <3>1, <3>3, <3>4, <3>5
  <2>2. CASE Pack
    <3>1. bundle' = [n |-> bundle.n, whole |-> TRUE, dir |-> exp.dir]
          /\ exp' = [pc |-> "idle", dir |-> NoDirectory]
      BY <2>2 DEF Pack
    <3>2. QED
      BY <1>6, <1>7, <1>8, <3>1
  <2>3. CASE ExportEpisodes \/ ExportSummaries \/ ExportEntities
    <3>1. bundle' = bundle
      BY <2>3 DEF ExportEpisodes, ExportSummaries, ExportEntities
    <3>2. PICK d : d = exp'.dir
      OBVIOUS
    <3>3. /\ exp'.pc \in {"idle", "episodes", "summaries", "entities", "pack", "packing"}
          /\ exp' = [pc |-> exp'.pc, dir |-> d]
          /\ d = [eps |-> d.eps, sums |-> d.sums, ents |-> d.ents]
          /\ d.eps \in {src.eps, exp.dir.eps} /\ d.sums \in {src.sums, exp.dir.sums}
          /\ d.ents \in {src.ents, exp.dir.ents}
      <4>1. exp.dir = [eps |-> exp.dir.eps, sums |-> exp.dir.sums, ents |-> exp.dir.ents]
        BY <1>6 DEF Directory
      <4>2. CASE ExportEpisodes
        <5>1. exp' = [pc |-> "summaries",
                      dir |-> [eps |-> src.eps, sums |-> exp.dir.sums, ents |-> exp.dir.ents]]
          BY <1>6, <4>1, <4>2 DEF ExportEpisodes
        <5>2. QED
          BY <3>2, <5>1
      <4>3. CASE ExportSummaries
        <5>1. exp' = [pc |-> "entities",
                      dir |-> [eps |-> exp.dir.eps, sums |-> src.sums, ents |-> exp.dir.ents]]
          BY <1>6, <4>1, <4>3 DEF ExportSummaries
        <5>2. QED
          BY <3>2, <5>1
      <4>4. CASE ExportEntities
        <5>1. exp' = [pc |-> "pack",
                      dir |-> [eps |-> exp.dir.eps, sums |-> exp.dir.sums, ents |-> src.ents]]
          BY <1>6, <4>1, <4>4 DEF ExportEntities
        <5>2. QED
          BY <3>2, <5>1
      <4>5. QED
        BY <2>3, <4>2, <4>3, <4>4
    <3>4. d \in Directory
      BY <1>6, <3>3 DEF Directory
    <3>5. Exported(d, k)
      BY <1>7, <3>3 DEF Exported
    <3>6. QED
      BY <1>6, <1>7, <3>1, <3>2, <3>3, <3>4, <3>5
  <2>4. QED
    BY <2>1, <2>2, <2>3, <2>5
<1>10. Shape'
  BY <1>1, <1>2, <1>9 DEF Shape
<1>11. exp'.pc \notin {"idle", "packing"} => bundle'.n < MaxExports
  BY <1>1, <1>6 DEF Exports, ExportStart, ExportEpisodes, ExportSummaries, ExportEntities,
              OpenOut, Pack, ExportFails
<1>12. Exports'
  BY <1>2, <1>4, <1>7, <1>9, <1>11 DEF Exports
<1>13. QED
  BY <1>3, <1>10, <1>12 DEF Inv
----------------------------------------------------------------------------
(* The target scope in use.                                                *)

\* The fields of the target scope and of the import.
LEMMA TargetFields ==
    ASSUME Shape
    PROVE  /\ tgt = [eps |-> tgt.eps, sums |-> tgt.sums, ents |-> tgt.ents]
           /\ tgt.eps \in Seq(Row) /\ tgt.sums \in [Periods -> History]
           /\ tgt.ents \subseteq Entities
           /\ imp = [pc |-> imp.pc, pass |-> imp.pass, merge |-> imp.merge, dir |-> imp.dir,
                     todo |-> imp.todo, file |-> imp.file, known |-> imp.known]
           /\ imp.pass \in 0..MaxImports /\ imp.merge \in BOOLEAN /\ imp.dir \in Directory
           /\ imp.todo \subseteq Periods /\ imp.file \subseteq Periods
           /\ imp.known \subseteq STRING
           /\ imp.dir.sums \in [Periods -> History] /\ imp.dir.ents \subseteq Entities
           /\ given \in [Periods -> History] /\ raced \subseteq Periods
<1>1. /\ tgt \in TargetState
      /\ imp \in ImportState
      /\ given \in [Periods -> History] /\ raced \subseteq Periods
  BY DEF Shape
<1>2. imp.dir.sums \in [Periods -> History] /\ imp.dir.ents \subseteq Entities
  BY <1>1 DEF Directory
<1>3. QED
  BY <1>1, <1>2

\* More captured locally is no harm.
LEMMA MoreLocal ==
    ASSUME NEW rows \in Seq(Row), NEW n \in Nat, GoodRows(rows, n)
    PROVE  GoodRows(rows, n + 1)
<1>1. \A i \in DOMAIN rows : GoodRow(rows[i], n + 1)
  BY LogTyped DEF GoodRows, GoodRow
<1>2. QED
  BY <1>1 DEF GoodRows

LEMMA KeepsLocalCapture == ASSUME Inv, LocalCapture PROVE Inv'
<1>1. Shape /\ Exports /\ OneFile /\ Rows /\ \A p \in Periods : GoodPeriod(p)
  BY DEF Inv
<1> DEFINE n == Cardinality(LocalRows(tgt.eps))
           r == LocalLog[n + 1]
           x == [id |-> r.id, hash |-> r.hash, ref |-> r.ref, from |-> r.id, pass |-> 0]
<1>2. n < Len(LocalLog) /\ UNCHANGED <<sameDB, src, exp, bundle, imp, given, raced, failures>>
      /\ tgt' = [tgt EXCEPT !.eps = Append(@, x)]
  BY DEF LocalCapture, LocalRows
<1>3. tgt.eps \in Seq(Row) /\ n \in Nat /\ IsFiniteSet(LocalRows(tgt.eps))
  BY <1>1, Fields, LocalFinite
<1>4. n + 1 \in DOMAIN LocalLog /\ n + 1 \in Nat
  BY <1>2, <1>3, LogTyped
<1>5. r.id \in Ids /\ r.hash \in STRING /\ r.ref \in Ids \cup {NoRef}
  BY <1>4, LogTyped
<1>6. x.id = r.id /\ x.hash = r.hash /\ x.ref = r.ref /\ x.from = r.id /\ x.pass = 0
  OBVIOUS
<1>7. x \in Row
  BY <1>5, Bounds DEF Row
<1>8. PICK rows, t : rows = tgt.eps /\ t = Append(rows, x)
  OBVIOUS
<1>9. /\ tgt'.eps = t /\ tgt'.sums = tgt.sums /\ tgt'.ents = tgt.ents
      /\ tgt' = [eps |-> t, sums |-> tgt.sums, ents |-> tgt.ents]
  BY <1>1, <1>2, <1>8, TargetFields
<1> HIDE DEF n, x
<1>10. rows \in Seq(Row) /\ GoodRows(rows, n)
  BY <1>1, <1>3, <1>8 DEF Rows, n
<1>11. GoodRow(x, n + 1)
  BY <1>3, <1>4, <1>6 DEF GoodRow
<1>12. ASSUME NEW i \in DOMAIN rows, rows[i].id = x.id PROVE FALSE
  <2>1. PICK w : w = rows[i]
    OBVIOUS
  <2>2. w \in Row /\ GoodRow(w, n) /\ w.id = r.id
    BY <1>6, <1>10, <1>12, <2>1 DEF GoodRows
  <2>3. CASE w.pass = 0
    <3>1. PICK k \in DOMAIN LocalLog : k <= n /\ w.id = LocalLog[k].id
      BY <2>2, <2>3 DEF GoodRow
    <3>2. k = n + 1
      BY <1>4, <2>2, <3>1, LogAssumption
    <3>3. QED
      BY <1>3, <3>1, <3>2
  <2>4. CASE w.pass # 0
    <3>1. PICK m \in DOMAIN SourceLog : w.from = SourceLog[m].id
      BY <2>2, <2>4 DEF GoodRow
    <3>2. w.id # w.from
      BY <1>4, <2>2, <3>1, LogAssumption
    <3>3. w.id = <<w.from[1], w.pass>>
      BY <2>2, <2>4, <3>2 DEF GoodRow
    <3>4. w.id[2] = w.pass /\ r.id[2] = 0
      BY <1>5, <3>3, IdPairs
    <3>5. QED
      BY <2>2, <2>4, <3>4
  <2>5. QED
    BY <2>3, <2>4
<1>13. /\ t \in Seq(Row) /\ Len(rows) \in Nat /\ DOMAIN rows = 1..Len(rows)
       /\ DOMAIN t = 1..(Len(rows) + 1) /\ t[Len(rows) + 1] = x
       /\ \A i \in DOMAIN rows : t[i] = rows[i]
  BY <1>7, <1>8, <1>10
<1>14. GoodRows(t, n + 1)
  <2>1. GoodRows(rows, n + 1)
    BY <1>3, <1>10, MoreLocal
  <2>2. \A i \in DOMAIN rows : rows[i].id # x.id
    BY <1>12
  <2>3. QED
    BY <1>4, <1>6, <1>7, <1>8, <1>10, <1>11, <2>1, <2>2, AddRow
<1>15. /\ \A i \in DOMAIN t : i \in DOMAIN rows \/ i = Len(rows) + 1
       /\ \A i \in DOMAIN rows : i \in DOMAIN t /\ i # Len(rows) + 1
       /\ Len(rows) + 1 \in DOMAIN t
  BY <1>13
<1>16. LocalRows(t) = LocalRows(rows) \cup {Len(rows) + 1} /\ Len(rows) + 1 \notin LocalRows(rows)
  BY <1>6, <1>13, <1>15 DEF LocalRows
<1>17. Cardinality(LocalRows(t)) = n + 1
  <2>1. IsFiniteSet(LocalRows(rows)) /\ n = Cardinality(LocalRows(rows))
    BY <1>3, <1>8 DEF n
  <2>2. QED
    BY <1>16, <2>1, FS_AddElement
<1>0. PICK m : m = n + 1
  OBVIOUS
<1>18. GoodRows(t, m)'
  <2>1. \A y, l : GoodRow(y, l)' <=> GoodRow(y, l)
    BY <1>2 DEF GoodRow
  <2>2. GoodRows(t, m)' <=> GoodRows(t, m)
    BY <2>1 DEF GoodRows
  <2>3. QED
    BY <1>0, <1>14, <2>2
<1>19. Rows'
  <2>1. imp.pass \in Nat /\ n + 1 <= Len(LocalLog)
    BY <1>1, <1>2, <1>3, Fields, LogTyped
  <2>2. \A i \in DOMAIN rows : rows[i].pass <= imp.pass
    BY <1>1, <1>8 DEF Rows
  <2>3. \A i \in DOMAIN t : t[i].pass <= imp.pass
    BY <1>6, <1>13, <1>15, <2>1, <2>2
  <2>4. imp.pc \in Loading =>
             /\ imp.pass # 0
             /\ \A i \in DOMAIN rows : rows[i].pass # imp.pass
    BY <1>1, <1>8 DEF Rows
  <2>5. imp.pc \in Loading =>
             /\ imp.pass # 0
             /\ \A i \in DOMAIN t : t[i].pass # imp.pass
    BY <1>6, <1>13, <1>15, <2>4
  <2>6. imp.pc = "episodes" => Knows(imp.known, rows)
    BY <1>1, <1>8 DEF Rows
  <2>7. imp.pc = "episodes" => Knows(imp.known, t)
    BY <1>6, <1>13, <1>15, <2>6 DEF Knows, RatedIn
  <2>8. imp.pc \in {"logEpisodes", "done"} =>
             \A i \in DOMAIN imp.dir.eps :
                \E k \in DOMAIN rows : rows[k].hash = imp.dir.eps[i].hash
    BY <1>1, <1>8 DEF Rows
  <2>9. imp.pc \in {"logEpisodes", "done"} =>
             \A i \in DOMAIN imp.dir.eps :
                \E k \in DOMAIN t : t[k].hash = imp.dir.eps[i].hash
    BY <1>13, <1>15, <2>8
  <2>12. RatedIn(Hashes(t), t)
    <3>1. \A y : y \in Hashes(rows) => y \in Hashes(t)
      BY <1>13, <1>15 DEF Hashes
    <3>2. RatedIn(Hashes(rows), rows)
      BY <1>1, <1>8 DEF Rows
    <3> HIDE DEF Hashes
    <3>3. QED
      BY <1>6, <1>13, <1>15, <3>1, <3>2 DEF RatedIn
  <2>10. GoodRows(t, m)' /\ m = Cardinality(LocalRows(t)) /\ m <= Len(LocalLog)
    BY <1>0, <1>17, <1>18, <2>1
  <2>11. QED
    BY <1>2, <1>9, <2>3, <2>5, <2>7, <2>9, <2>10, <2>12 DEF Rows
<1>20. Shape'
  BY <1>1, <1>2, <1>9, <1>13, TargetFields DEF Shape
<1>21. Exports' /\ OneFile' /\ (\A p \in Periods : GoodPeriod(p))'
  BY <1>1, <1>2, <1>9, ExportsKept, PeriodsKept DEF OneFile
<1>22. QED
  BY <1>19, <1>20, <1>21 DEF Inv

LEMMA KeepsLocalConsolidate == ASSUME Inv, LocalConsolidate PROVE Inv'
<1>1. Shape /\ Exports /\ OneFile /\ Rows /\ \A p \in Periods : GoodPeriod(p)
  BY DEF Inv
<1>2. UNCHANGED <<sameDB, src, exp, bundle, imp, given, failures>>
  BY DEF LocalConsolidate
<1>3. PICK p \in Periods :
          /\ Len(tgt.sums[p]) < MaxVersions
          /\ \E g \in Extensions(tgt.sums[p]) :
                /\ tgt' = [tgt EXCEPT !.sums[p] = g]
                /\ raced' = IF p \in imp.file \/ Late(tgt.sums[p], g)
                            THEN raced \cup {p} ELSE raced
  BY DEF LocalConsolidate
<1>4. PICK h : h = tgt.sums[p]
  OBVIOUS
<1>5. PICK g \in Extensions(h) :
          /\ tgt' = [tgt EXCEPT !.sums[p] = g]
          /\ raced' = IF p \in imp.file \/ Late(h, g) THEN raced \cup {p} ELSE raced
  BY <1>3, <1>4
<1>6. /\ h \in History /\ tgt.sums \in [Periods -> History]
      /\ tgt = [eps |-> tgt.eps, sums |-> tgt.sums, ents |-> tgt.ents]
  BY <1>1, <1>4, TargetFields
<1>7. /\ tgt'.eps = tgt.eps /\ tgt'.ents = tgt.ents /\ tgt'.sums = [tgt.sums EXCEPT ![p] = g]
      /\ tgt' = [eps |-> tgt.eps, sums |-> [tgt.sums EXCEPT ![p] = g], ents |-> tgt.ents]
  BY <1>5, <1>6
<1>8. /\ Backward(h)
      /\ ~Local(h) => \E n \in Nat : HasAt(h, given[p], n)
      /\ p \notin raced /\ Chain(given[p]) => Chain(h)
      /\ p \in imp.file => Local(h)
  BY <1>1, <1>4 DEF GoodPeriod
<1>9. Len(h) < MaxVersions
  BY <1>3, <1>4
<1>10. /\ g \in History /\ Len(g) = Len(h) + 1
       /\ DOMAIN h = 1..Len(h) /\ DOMAIN g = 1..(Len(h) + 1) /\ Len(h) \in Nat
  BY <1>6, <1>8, <1>9, Extended
<1>11. /\ \A i \in DOMAIN h : g[i] = h[i]
       /\ ~g[Len(h) + 1].imported /\ g[Len(h) + 1].sup \in 0..Len(h)
       /\ Backward(g) /\ (Chain(h) /\ ~Late(h, g) => Chain(g))
  BY <1>6, <1>8, <1>9, Extended
<1>12. /\ \A i \in DOMAIN g : i \in DOMAIN h \/ i = Len(h) + 1
       /\ \A i \in DOMAIN h : i \in DOMAIN g
  BY <1>10
<1>14. Local(g) <=> Local(h)
  BY <1>11, <1>12 DEF Local
<1>15. ASSUME NEW d \in History, NEW n \in Nat, HasAt(h, d, n) PROVE HasAt(g, d, n)
  <2>1. Len(d) \in Nat /\ DOMAIN d = 1..Len(d)
    BY DEF History
  <2>2. n + Len(d) <= Len(h)
    BY <1>15 DEF HasAt
  <2>3. \A i \in DOMAIN d : n + i \in DOMAIN h
    BY <1>10, <2>1, <2>2
  <2>4. \A i \in DOMAIN d : g[n + i].sup = IF d[i].sup = 0 THEN 0 ELSE d[i].sup + n
    BY <1>11, <1>15, <2>3 DEF HasAt
  <2>5. ASSUME NEW i \in DOMAIN g PROVE g[i].imported <=> (n < i /\ i <= n + Len(d))
    <3>1. CASE i \in DOMAIN h
      BY <1>11, <1>15, <3>1 DEF HasAt
    <3>2. CASE i = Len(h) + 1
      BY <1>10, <1>11, <2>1, <2>2, <3>2
    <3>3. QED
      BY <1>12, <3>1, <3>2
  <2>6. n + Len(d) <= Len(g)
    BY <1>10, <2>1, <2>2
  <2>7. QED
    BY <2>4, <2>5, <2>6 DEF HasAt
<1>16. given[p] \in History
  BY <1>1, TargetFields
<1>17. GoodPeriod(p)'
  <2>1. g = tgt'.sums[p]
    BY <1>6, <1>7
  <2>2. Len(g) <= 2 * MaxVersions /\ Len(g) <= MaxVersions
    BY <1>9, <1>10, Bounds
  <2>3. ~Local(g) => \E n \in Nat : HasAt(g, given[p], n)
    BY <1>8, <1>14, <1>15, <1>16
  <2>4. p \notin raced' /\ Chain(given[p]) => Chain(g)
    BY <1>5, <1>8, <1>11
  <2>5. p \in imp.file => Local(g) /\ p \in raced'
    BY <1>5, <1>8, <1>14
  <2>6. QED
    BY <1>2, <1>11, <2>1, <2>2, <2>3, <2>4, <2>5 DEF GoodPeriod
<1>18. ASSUME NEW q \in Periods, q # p PROVE GoodPeriod(q)'
  <2>1. tgt'.sums[q] = tgt.sums[q]
    BY <1>6, <1>7, <1>18
  <2>2. q \in raced' <=> q \in raced
    BY <1>5, <1>18
  <2>3. GoodPeriod(q)
    BY <1>1
  <2>4. QED
    BY <1>2, <2>1, <2>2, <2>3 DEF GoodPeriod
<1>19. (\A q \in Periods : GoodPeriod(q))'
  BY <1>17, <1>18
<1>20. Shape'
  <2>1. tgt' \in TargetState
    BY <1>1, <1>7, <1>10, TargetFields
  <2>2. raced' \subseteq Periods
    BY <1>1, <1>5, TargetFields
  <2>3. QED
    BY <1>1, <1>2, <2>1, <2>2 DEF Shape
<1>21. Rows'
  <2>1. imp.pc = "episodes" => Knows(imp.known, tgt.eps)
    BY <1>1 DEF Rows
  <2>2. QED
    BY <1>1, <1>2, <1>7, <2>1, RowsKept
<1>22. Exports' /\ OneFile'
  BY <1>1, <1>2, ExportsKept DEF OneFile
<1>23. QED
  BY <1>19, <1>20, <1>21, <1>22 DEF Inv

----------------------------------------------------------------------------
(* The import.                                                             *)

\* A step of the import alone, that leaves the target and what it has loaded.
LEMMA ImportMoves ==
    ASSUME Inv, UNCHANGED <<sameDB, src, exp, bundle, tgt, given, raced>>,
           failures' \in 0..MaxFailures,
           imp' \in ImportState,
           imp'.pass = imp.pass, imp'.dir \in {imp.dir, NoDirectory},
           imp'.file \subseteq imp.file, imp'.file \subseteq imp'.todo,
           imp'.pc # "period" => imp'.file = {},
           imp'.pc \in Loading =>
              imp.pc \in Loading,
           imp'.pc = "episodes" => Knows(imp'.known, tgt.eps),
           imp'.pc \in {"logEpisodes", "done"} =>
              imp.pc \in {"logEpisodes", "done"} /\ imp'.dir = imp.dir
    PROVE  Inv'
<1>1. Shape /\ Exports /\ OneFile /\ Rows /\ \A p \in Periods : GoodPeriod(p)
  BY DEF Inv
<1>2. Shape'
  BY <1>1 DEF Shape
<1>3. Exports'
  BY <1>1, ExportsKept
<1>4. OneFile'
  BY DEF OneFile
<1>5. Rows'
  BY <1>1, RowsKept
<1>6. (\A p \in Periods : GoodPeriod(p))'
  BY <1>1, PeriodsKept
<1>7. QED
  BY <1>2, <1>3, <1>4, <1>5, <1>6 DEF Inv

\* The import ends with an error.
LEMMA KeepsFailed ==
    ASSUME Inv, UNCHANGED <<sameDB, src, exp, bundle, tgt, given, raced>>,
           failures' \in 0..MaxFailures, imp' = Failed
    PROVE  Inv'
<1>1. Shape
  BY DEF Inv
<1>2. imp' = [pc |-> "failed", pass |-> imp.pass, merge |-> FALSE, dir |-> NoDirectory,
              todo |-> {}, file |-> {}, known |-> {}]
  BY DEF Failed, IdleImp
<1>3. NoDirectory \in Directory /\ imp.pass \in 0..MaxImports
  BY <1>1, TargetFields, NothingExported
<1>4. imp' \in ImportState
  BY <1>2, <1>3
<1>5. /\ imp'.pc = "failed" /\ imp'.pass = imp.pass /\ imp'.dir = NoDirectory
      /\ imp'.file = {}
  BY <1>2
<1>6. QED
  BY <1>4, <1>5, ImportMoves

LEMMA KeepsImportStart == ASSUME Inv, ImportStart PROVE Inv'
<1>1. Shape /\ Exports /\ OneFile /\ Rows /\ \A p \in Periods : GoodPeriod(p)
  BY DEF Inv
<1>2. /\ imp.pass < MaxImports
      /\ UNCHANGED <<sameDB, src, exp, bundle, tgt, given, raced, failures>>
  BY DEF ImportStart
<1>3. PICK merge \in BOOLEAN, pc \in {"start", "failed"}, dir \in {bundle.dir, NoDirectory} :
          imp' = [pc |-> pc, pass |-> imp.pass + 1, merge |-> merge, dir |-> dir,
                  todo |-> {}, file |-> {}, known |-> {}]
  BY DEF ImportStart, IdleImp
<1>4. /\ imp'.pc \in {"start", "failed"} /\ imp'.pass = imp.pass + 1
      /\ imp'.dir \in {bundle.dir, NoDirectory} /\ imp'.file = {} /\ imp'.todo = {}
  BY <1>3
<1>5. NoDirectory \in Directory /\ bundle.dir \in Directory /\ imp.pass \in Nat /\ imp.pass + 1 \in 0..MaxImports
  BY <1>1, <1>2, Bounds, NothingExported DEF Shape
<1>6. Shape'
  <2>1. imp' \in ImportState
    BY <1>3, <1>5
  <2>2. QED
    BY <1>1, <1>2, <2>1 DEF Shape
<1>7. Exports' /\ OneFile'
  BY <1>1, <1>2, <1>4, ExportsKept DEF OneFile
<1>8. (\A p \in Periods : GoodPeriod(p))'
  BY <1>1, <1>2, <1>4, PeriodsKept
<1>9. Rows'
  <2>1. PICK rows, n : rows = tgt.eps /\ n = Cardinality(LocalRows(tgt.eps))
    OBVIOUS
  <2>2. rows = tgt'.eps /\ n = Cardinality(LocalRows(tgt'.eps))
    BY <1>2, <2>1
  <2>3. /\ n <= Len(LocalLog) /\ GoodRows(rows, n) /\ RatedIn(Hashes(rows), rows)
        /\ \A i \in DOMAIN rows : rows[i].pass <= imp.pass
    BY <1>1, <2>1 DEF Rows
  <2>4. GoodRows(rows, n)'
    <3>1. \A r, m : GoodRow(r, m)' <=> GoodRow(r, m)
      BY <1>2 DEF GoodRow
    <3>2. QED
      BY <2>3, <3>1 DEF GoodRows
  <2>5. \A i \in DOMAIN rows : rows[i].pass \in Nat
    <3>1. rows \in Seq(Row)
      BY <1>1, <2>1, Fields
    <3>2. \A i \in DOMAIN rows : rows[i] \in Row
      BY <3>1
    <3>3. QED
      BY <3>2, Bounds DEF Row
  <2>6. imp'.pass # 0 /\ \A i \in DOMAIN rows : rows[i].pass <= imp'.pass /\ rows[i].pass # imp'.pass
    BY <1>4, <1>5, <2>3, <2>5
  <2>7. QED
    BY <1>4, <2>2, <2>3, <2>4, <2>6 DEF Rows
<1>10. QED
  BY <1>6, <1>7, <1>8, <1>9 DEF Inv

LEMMA KeepsCheckEmpty == ASSUME Inv, CheckEmpty PROVE Inv'
<1>1. Shape /\ OneFile
  BY DEF Inv
<1>2. UNCHANGED <<sameDB, src, exp, bundle, tgt, given, raced, failures>> /\ imp.pc = "start"
  BY DEF CheckEmpty
<1>3. failures \in 0..MaxFailures
  BY <1>1, Fields
<1>4. CASE imp' = Failed
  BY <1>2, <1>3, <1>4, KeepsFailed
<1>5. CASE imp' = [imp EXCEPT !.pc = "entities"]
  <2>1. /\ imp'.pc = "entities" /\ imp'.pass = imp.pass /\ imp'.dir = imp.dir
        /\ imp'.file = imp.file /\ imp'.todo = imp.todo
    BY <1>1, <1>5, TargetFields
  <2>2. imp' \in ImportState
    BY <1>1, <1>5 DEF Shape
  <2>3. imp'.file \subseteq imp'.todo /\ imp'.file = {}
    BY <1>1, <1>2, <2>1 DEF OneFile
  <2>4. QED
    BY <1>2, <1>3, <2>1, <2>2, <2>3, ImportMoves
<1>6. QED
  BY <1>4, <1>5 DEF CheckEmpty

LEMMA KeepsLogPhase == ASSUME Inv, LogPhase PROVE Inv'
<1>1. Shape /\ OneFile
  BY DEF Inv
<1>2. UNCHANGED <<sameDB, src, exp, bundle, tgt, given, raced, failures>>
  BY DEF LogPhase
<1>3. failures \in 0..MaxFailures
  BY <1>1, Fields
<1>4. imp' \in ImportState
  <2>1. PICK S : S = {p \in Periods : imp.dir.sums[p] # <<>>}
    OBVIOUS
  <2>2. S \subseteq Periods
    BY <2>1
  <2>3. CASE imp' = [imp EXCEPT !.pc = "summaries", !.todo = S]
    BY <1>1, <2>2, <2>3 DEF Shape
  <2>4. CASE imp' = [imp EXCEPT !.pc = "hashes"] \/ imp' = [imp EXCEPT !.pc = "done"]
    BY <1>1, <2>4 DEF Shape
  <2>5. QED
    BY <2>1, <2>3, <2>4 DEF LogPhase
<1>5. /\ imp'.pass = imp.pass /\ imp'.dir = imp.dir /\ imp'.file = imp.file
      /\ \/ imp.pc = "logEntities" /\ imp'.pc = "summaries"
         \/ imp.pc = "logSummaries" /\ imp'.pc = "hashes"
         \/ imp.pc = "logEpisodes" /\ imp'.pc = "done"
  BY <1>1, TargetFields DEF LogPhase
<1>6. imp'.file = {}
  BY <1>1, <1>5 DEF OneFile
<1>7. QED
  BY <1>2, <1>3, <1>4, <1>5, <1>6, ImportMoves

LEMMA KeepsPeriodsDone == ASSUME Inv, PeriodsDone PROVE Inv'
<1>1. Shape /\ OneFile
  BY DEF Inv
<1>2. UNCHANGED <<sameDB, src, exp, bundle, tgt, given, raced, failures>>
  BY DEF PeriodsDone
<1>3. failures \in 0..MaxFailures
  BY <1>1, Fields
<1>4. imp' \in ImportState
  BY <1>1 DEF Shape, PeriodsDone
<1>5. /\ imp'.pass = imp.pass /\ imp'.dir = imp.dir /\ imp'.file = imp.file
      /\ imp.pc = "summaries" /\ imp'.pc = "logSummaries"
  BY <1>1, TargetFields DEF PeriodsDone
<1>6. imp'.file = {}
  BY <1>1, <1>5 DEF OneFile
<1>7. QED
  BY <1>2, <1>3, <1>4, <1>5, <1>6, ImportMoves

LEMMA KeepsLoadHashes == ASSUME Inv, LoadHashes PROVE Inv'
<1>1. Shape /\ OneFile
  BY DEF Inv
<1>2. UNCHANGED <<sameDB, src, exp, bundle, tgt, given, raced, failures>> /\ imp.pc = "hashes"
  BY DEF LoadHashes
<1>3. failures \in 0..MaxFailures
  BY <1>1, Fields
<1>4. PICK K : K = {tgt.eps[i].hash : i \in DOMAIN tgt.eps}
  OBVIOUS
<1>5. K \subseteq STRING
  <2>1. tgt.eps \in Seq(Row)
    BY <1>1, Fields
  <2>2. \A i \in DOMAIN tgt.eps : tgt.eps[i] \in Row
    BY <2>1
  <2>3. QED
    BY <1>4, <2>2 DEF Row
<1>6. Knows(K, tgt.eps)
  <2>1. Rows
    BY DEF Inv
  <2>2. RatedIn(K, tgt.eps)
    BY <1>4, <2>1 DEF Rows, Hashes
  <2>3. QED
    BY <1>4, <2>2 DEF Knows
<1>7. imp' = [imp EXCEPT !.pc = "episodes", !.known = K]
  BY <1>4 DEF LoadHashes
<1>8. imp' \in ImportState
  BY <1>1, <1>5, <1>7 DEF Shape
<1>9. /\ imp'.pass = imp.pass /\ imp'.dir = imp.dir /\ imp'.file = imp.file
      /\ imp'.pc = "episodes" /\ imp'.known = K
  BY <1>1, <1>7, TargetFields
<1>10. imp'.file = {}
  BY <1>1, <1>2, <1>9 DEF OneFile
<1>11. QED
  BY <1>2, <1>3, <1>6, <1>8, <1>9, <1>10, ImportMoves

LEMMA KeepsImportFails == ASSUME Inv, ImportFails PROVE Inv'
<1>1. failures \in 0..MaxFailures
  BY Fields DEF Inv
<1>2. failures' \in 0..MaxFailures
  BY <1>1, Bounds DEF ImportFails
<1>3. QED
  BY <1>2, KeepsFailed DEF ImportFails

LEMMA KeepsImportEntities == ASSUME Inv, ImportEntities PROVE Inv'
<1>1. Shape /\ Exports /\ OneFile /\ Rows /\ \A p \in Periods : GoodPeriod(p)
  BY DEF Inv
<1>2. UNCHANGED <<sameDB, src, exp, bundle, given, raced, failures>> /\ imp.pc = "entities"
  BY DEF ImportEntities
<1>3. /\ imp'.pass = imp.pass /\ imp'.dir = imp.dir /\ imp'.file = imp.file
      /\ imp'.pc = "logEntities" /\ imp'.todo = imp.todo
  BY <1>1, TargetFields DEF ImportEntities
<1>4. tgt' = [eps |-> tgt.eps, sums |-> tgt.sums, ents |-> tgt.ents \cup imp.dir.ents]
  BY <1>1, TargetFields DEF ImportEntities
<1>5. tgt'.eps = tgt.eps /\ tgt'.sums = tgt.sums
  BY <1>4
<1>6. Shape'
  <2>1. imp' \in ImportState
    BY <1>1 DEF Shape, ImportEntities
  <2>2. tgt' \in TargetState
    BY <1>1, <1>4, TargetFields
  <2>3. QED
    BY <1>1, <1>2, <2>1, <2>2 DEF Shape
<1>7. Exports' /\ OneFile'
  BY <1>1, <1>2, <1>3, ExportsKept DEF OneFile
<1>8. (\A p \in Periods : GoodPeriod(p))'
  BY <1>1, <1>2, <1>3, <1>5, PeriodsKept
<1>9. Rows'
  BY <1>1, <1>2, <1>3, <1>5, RowsKept
<1>10. QED
  BY <1>6, <1>7, <1>8, <1>9 DEF Inv

\* A period without a version is taken in hand; one with a version is left.
LEMMA KeepsImportPeriod == ASSUME Inv, ImportPeriod PROVE Inv'
<1>1. Shape /\ Exports /\ OneFile /\ Rows /\ \A p \in Periods : GoodPeriod(p)
  BY DEF Inv
<1>2. UNCHANGED <<sameDB, src, exp, bundle, tgt, given, raced, failures>> /\ imp.pc = "summaries"
  BY DEF ImportPeriod
<1>3. PICK p \in imp.todo :
          imp' = IF periodExists(p) THEN [imp EXCEPT !.todo = @ \ {p}]
                 ELSE [imp EXCEPT !.pc = "period", !.file = {p}]
  BY DEF ImportPeriod
<1>4. imp.file = {} /\ p \in Periods
  BY <1>1, <1>2, <1>3, TargetFields DEF OneFile
<1>5. /\ imp'.pass = imp.pass /\ imp'.dir = imp.dir
      /\ (periodExists(p) /\ imp'.file = {} /\ imp'.pc = "summaries")
            \/ (tgt.sums[p] = <<>> /\ imp'.file = {p} /\ imp'.pc = "period" /\ imp'.todo = imp.todo)
  <2>1. CASE periodExists(p)
    BY <1>1, <1>2, <1>3, <1>4, <2>1, TargetFields
  <2>2. CASE ~periodExists(p)
    BY <1>1, <1>3, <2>2, TargetFields DEF periodExists
  <2>3. QED
    BY <2>1, <2>2
<1>6. Shape'
  <2>1. imp' \in ImportState
    <3>1. imp.todo \ {p} \subseteq Periods /\ {p} \subseteq Periods
      BY <1>1, <1>4, TargetFields
    <3>2. CASE periodExists(p)
      BY <1>1, <1>3, <3>1, <3>2 DEF Shape
    <3>3. CASE ~periodExists(p)
      BY <1>1, <1>3, <3>1, <3>3 DEF Shape
    <3>4. QED
      BY <3>2, <3>3
  <2>2. QED
    BY <1>1, <1>2, <2>1 DEF Shape
<1>7. Exports'
  BY <1>1, <1>2, <1>5, ExportsKept
<1>8. OneFile'
  BY <1>3, <1>5 DEF OneFile
<1>9. ASSUME NEW q \in Periods PROVE GoodPeriod(q)'
  <2>1. GoodPeriod(q)
    BY <1>1
  <2>2. q \in imp'.file => tgt.sums[q] = <<>>
    BY <1>5
  <2>3. tgt.sums[q] = <<>> => Local(tgt.sums[q])
    BY DEF Local
  <2>4. QED
    BY <1>2, <2>1, <2>2, <2>3 DEF GoodPeriod
<1>10. Rows'
  BY <1>1, <1>2, <1>5, RowsKept
<1>11. QED
  BY <1>6, <1>7, <1>8, <1>9, <1>10 DEF Inv

LEMMA KeepsCommitPeriod == ASSUME Inv, CommitPeriod PROVE Inv'
<1>1. Shape /\ Exports /\ OneFile /\ Rows /\ \A p \in Periods : GoodPeriod(p)
  BY DEF Inv
<1>2. UNCHANGED <<sameDB, src, exp, bundle, raced, failures>> /\ imp.pc = "period"
  BY DEF CommitPeriod
<1>3. PICK p \in imp.file :
          /\ tgt' = [tgt EXCEPT !.sums[p] = @ \o Renumbered(imp.dir.sums[p], Len(@))]
          /\ given' = [given EXCEPT ![p] = imp.dir.sums[p]]
          /\ imp' = [imp EXCEPT !.pc = "summaries", !.todo = @ \ {p}, !.file = {}]
  BY DEF CommitPeriod
<1>4. p \in Periods
  BY <1>1, TargetFields
<1>5. PICK h, d, g : h = tgt.sums[p] /\ d = imp.dir.sums[p] /\ g = h \o Renumbered(d, Len(h))
  OBVIOUS
<1>6. h \in History /\ d \in History
  BY <1>1, <1>4, <1>5, TargetFields
<1>7. Backward(d) /\ Len(d) <= MaxVersions
  BY <1>1, <1>4, <1>5 DEF Exports, Exported
<1>8. /\ Local(h) /\ (p \in raced \/ h = <<>>) /\ Len(h) <= MaxVersions
      /\ Backward(h)
  BY <1>1, <1>4, <1>5 DEF GoodPeriod
<1>9. g \in History /\ Len(g) <= 2 * MaxVersions /\ Len(h) \in Nat
  BY <1>5, <1>6, <1>7, <1>8, Imported
<1>10. Backward(g)
  BY <1>5, <1>6, <1>7, <1>8, Imported
<1>11. /\ HasAt(g, d, Len(h)) /\ (Local(g) => Len(g) <= MaxVersions)
       /\ h = <<>> /\ Chain(d) => Chain(g)
  BY <1>5, <1>6, <1>7, <1>8, Imported
<1>12. /\ tgt' = [eps |-> tgt.eps, sums |-> [tgt.sums EXCEPT ![p] = g], ents |-> tgt.ents]
       /\ tgt.sums \in [Periods -> History] /\ given \in [Periods -> History]
  BY <1>1, <1>3, <1>5, TargetFields
<1>13. tgt'.eps = tgt.eps /\ tgt'.sums = [tgt.sums EXCEPT ![p] = g]
  BY <1>12
<1>14. /\ imp'.pass = imp.pass /\ imp'.dir = imp.dir /\ imp'.file = {} /\ imp'.pc = "summaries"
  BY <1>1, <1>3, TargetFields
<1>15. Shape'
  <2>1. imp.todo \ {p} \subseteq Periods
    BY <1>1, TargetFields
  <2>2. imp' \in ImportState
    BY <1>1, <1>3, <2>1 DEF Shape
  <2>3. tgt' \in TargetState
    BY <1>1, <1>9, <1>12, TargetFields
  <2>4. given' \in [Periods -> History]
    BY <1>3, <1>5, <1>6, <1>12
  <2>5. QED
    BY <1>1, <1>2, <2>2, <2>3, <2>4 DEF Shape
<1>16. Exports' /\ OneFile'
  BY <1>1, <1>2, <1>14, ExportsKept DEF OneFile
<1>17. Rows'
  BY <1>1, <1>2, <1>13, <1>14, RowsKept
<1>18. GoodPeriod(p)'
  <2>1. g = tgt'.sums[p] /\ d = given'[p]
    BY <1>3, <1>4, <1>5, <1>12, <1>13
  <2>2. \E n \in Nat : HasAt(g, d, n)
    BY <1>9, <1>11
  <2>3. p \notin raced' /\ Chain(d) => Chain(g)
    BY <1>2, <1>8, <1>11
  <2>4. QED
    BY <1>9, <1>10, <1>11, <1>14, <2>1, <2>2, <2>3 DEF GoodPeriod
<1>19. ASSUME NEW q \in Periods, q # p PROVE GoodPeriod(q)'
  <2>1. tgt'.sums[q] = tgt.sums[q] /\ given'[q] = given[q]
    BY <1>3, <1>12, <1>13, <1>19
  <2>2. GoodPeriod(q)
    BY <1>1
  <2>3. QED
    BY <1>2, <1>14, <2>1, <2>2 DEF GoodPeriod
<1>20. (\A q \in Periods : GoodPeriod(q))'
  BY <1>18, <1>19
<1>21. QED
  BY <1>15, <1>16, <1>17, <1>20 DEF Inv

\* The episodes of the bundle, in one transaction.
LEMMA KeepsImportEpisodes == ASSUME Inv, ImportEpisodes PROVE Inv'
<1>1. Shape /\ Exports /\ OneFile /\ Rows /\ \A p \in Periods : GoodPeriod(p)
  BY DEF Inv
<1>2. UNCHANGED <<sameDB, src, exp, bundle, given, raced, failures>> /\ imp.pc = "episodes"
  BY DEF ImportEpisodes
<1>3. PICK end : end = FoldLeft(InsertEpisode, Base, imp.dir.eps)
  OBVIOUS
<1>4. \/ end.ok /\ tgt' = [tgt EXCEPT !.eps = end.rows] /\ imp' = [imp EXCEPT !.pc = "logEpisodes"]
      \/ ~end.ok /\ imp' = Failed /\ tgt' = tgt
  BY <1>3 DEF ImportEpisodes, Base
<1>5. CASE imp' = Failed /\ tgt' = tgt
  <2>1. failures' \in 0..MaxFailures
    BY <1>1, <1>2, Fields
  <2>2. QED
    BY <1>2, <1>5, <2>1, KeepsFailed
<1>6. CASE end.ok /\ tgt' = [tgt EXCEPT !.eps = end.rows] /\ imp' = [imp EXCEPT !.pc = "logEpisodes"]
  <2>1. PICK rows, t, n, l : /\ rows = tgt.eps /\ t = end.rows
                             /\ n = Cardinality(LocalRows(tgt.eps)) /\ l = Len(imp.dir.eps)
    OBVIOUS
  <2>2. Merged(end, l, n)
    BY <1>2, <1>3, <2>1, Fold
  <2>3. /\ t \in Seq(Row) /\ GoodRows(t, n) /\ Knows(end.known, t)
        /\ \A m \in 1..l : m \in DOMAIN SourceLog /\ SourceLog[m].hash \in end.known
    BY <1>6, <2>1, <2>2 DEF Merged
  <2>4. /\ \A i \in DOMAIN rows : i \in DOMAIN t /\ t[i] = rows[i]
        /\ \A i \in DOMAIN t : i \notin DOMAIN rows => t[i].pass = imp.pass
    BY <2>1, <2>2 DEF Merged, Fresh
  <2>5. /\ tgt' = [eps |-> t, sums |-> tgt.sums, ents |-> tgt.ents]
        /\ tgt'.eps = t /\ tgt'.sums = tgt.sums
    BY <1>1, <1>6, <2>1, TargetFields
  <2>6. /\ imp'.pass = imp.pass /\ imp'.dir = imp.dir /\ imp'.file = imp.file
        /\ imp'.todo = imp.todo /\ imp'.pc = "logEpisodes"
    BY <1>1, <1>6, TargetFields
  <2>7. Shape'
    <3>1. imp' \in ImportState
      BY <1>1, <1>6 DEF Shape
    <3>2. tgt' \in TargetState
      BY <1>1, <2>3, <2>5, TargetFields
    <3>3. QED
      BY <1>1, <1>2, <3>1, <3>2 DEF Shape
  <2>8. Exports' /\ OneFile'
    BY <1>1, <1>2, <2>6, ExportsKept DEF OneFile
  <2>9. (\A p \in Periods : GoodPeriod(p))'
    BY <1>1, <1>2, <2>5, <2>6, PeriodsKept
  <2>10. /\ n <= Len(LocalLog) /\ imp.pass # 0 /\ imp.pass \in Nat
         /\ \A i \in DOMAIN rows : rows[i].pass <= imp.pass
    BY <1>1, <1>2, <2>1, Fields DEF Rows
  <2>11. LocalRows(t) = LocalRows(rows)
    <3>1. \A i : i \in LocalRows(t) <=> i \in LocalRows(rows)
      BY <2>4, <2>10 DEF LocalRows
    <3>2. QED
      BY <3>1 DEF LocalRows
  <2>12. n = Cardinality(LocalRows(tgt'.eps))
    BY <2>1, <2>5, <2>11
  <2>13. \A i \in DOMAIN t : t[i].pass <= imp.pass
    BY <2>4, <2>10
  <2>14. ASSUME NEW i \in DOMAIN imp.dir.eps
         PROVE  \E k \in DOMAIN t : t[k].hash = imp.dir.eps[i].hash
    <3>1. i \in 1..l
      BY <1>1, <2>1, Fields
    <3>2. imp.dir.eps[i] = SourceLog[i]
      BY <1>1 DEF Exports, Exported
    <3>3. imp.dir.eps[i].hash \in end.known
      BY <2>3, <3>1, <3>2
    <3>4. QED
      BY <2>3, <3>3 DEF Knows
  <2>15. GoodRows(t, n)'
    <3>1. \A r, m : GoodRow(r, m)' <=> GoodRow(r, m)
      BY <1>2 DEF GoodRow
    <3>2. QED
      BY <2>3, <3>1 DEF GoodRows
  <2>18. RatedIn(Hashes(t), t)
    <3>1. \A y \in end.known : y \in Hashes(t)
      BY <2>3 DEF Knows, Hashes
    <3> HIDE DEF Hashes
    <3>2. QED
      BY <2>3, <3>1 DEF Knows, RatedIn
  <2>16. Rows'
    <3>1. \A i \in DOMAIN imp'.dir.eps : \E k \in DOMAIN t : t[k].hash = imp'.dir.eps[i].hash
      BY <2>6, <2>14
    <3>2. QED
      BY <2>5, <2>6, <2>10, <2>12, <2>13, <2>15, <2>18, <3>1 DEF Rows
  <2>17. QED
    BY <2>7, <2>8, <2>9, <2>16 DEF Inv
<1>7. QED
  BY <1>4, <1>5, <1>6

----------------------------------------------------------------------------
(* The invariant, and what it says.                                        *)

LEMMA InitInv == ASSUME Init PROVE Inv
<1>1. /\ src = NoDirectory /\ exp = [pc |-> "idle", dir |-> NoDirectory]
      /\ bundle = [n |-> 0, whole |-> FALSE, dir |-> NoDirectory]
      /\ tgt = [eps |-> <<>>, sums |-> [p \in Periods |-> <<>>], ents |-> {}]
      /\ imp = [pc |-> "idle", pass |-> 0, merge |-> FALSE, dir |-> NoDirectory,
                todo |-> {}, file |-> {}, known |-> {}]
      /\ given = [p \in Periods |-> <<>>] /\ raced = {} /\ failures = 0 /\ sameDB \in BOOLEAN
  BY BoundAssumption DEF Init, IdleImp, NoBundle
<1>2. NoDirectory \in Directory /\ Exported(NoDirectory, 0) /\ NoDirectory.eps = <<>>
  BY NothingExported DEF NoDirectory
<1>3. Shape
  <2>1. <<>> \in Seq(Row) /\ [p \in Periods |-> <<>>] \in [Periods -> History]
    BY DEF History
  <2>2. imp \in ImportState
    BY <1>1, <1>2, Bounds
  <2>3. tgt \in TargetState
    BY <1>1, <2>1
  <2>4. exp \in ExportState /\ bundle \in Bundle
    BY <1>1, <1>2, Bounds
  <2>5. QED
    BY <1>1, <1>2, <2>1, <2>2, <2>3, <2>4, Bounds DEF Shape
<1>4. Exports
  <2>1. Len(src.eps) = 0
    BY <1>1, <1>2
  <2>2. src = NoDirectory /\ exp.dir = NoDirectory /\ bundle.dir = NoDirectory
        /\ imp.dir = NoDirectory /\ exp.pc = "idle"
    BY <1>1
  <2>3. QED
    BY <1>2, <2>1, <2>2 DEF Exports
<1>5. OneFile
  BY <1>1 DEF OneFile
<1>6. ASSUME NEW p \in Periods PROVE GoodPeriod(p)
  <2>1. tgt.sums[p] = <<>> /\ imp.file = {}
    BY <1>1
  <2>2. Len(<<>>) = 0 /\ \A i \in DOMAIN <<>> : FALSE
    OBVIOUS
  <2>3. Local(<<>>) /\ Chain(<<>>) /\ Backward(<<>>)
    BY <2>2 DEF Local, Chain, Backward
  <2>4. QED
    BY <2>1, <2>2, <2>3, Bounds DEF GoodPeriod
<1>7. Rows
  <2>1. tgt.eps = <<>> /\ imp.pc = "idle"
    BY <1>1
  <2>2. \A i \in DOMAIN <<>> : FALSE
    OBVIOUS
  <2>3. PICK e : e = <<>> /\ \A i \in DOMAIN e : FALSE
    BY <2>2
  <2>4. LocalRows(e) = {}
    BY <2>3 DEF LocalRows
  <2>5. Cardinality(LocalRows(e)) = 0
    BY <2>4, FS_EmptySet
  <2>6. GoodRows(e, 0)
    BY <2>3 DEF GoodRows
  <2>7. tgt.eps = e /\ 0 <= Len(LocalLog)
    BY <2>1, <2>3, LogTyped
  <2>8. RatedIn(Hashes(e), e)
    BY <2>3 DEF RatedIn
  <2>9. QED
    BY <2>1, <2>3, <2>5, <2>6, <2>7, <2>8 DEF Rows
<1>8. QED
  BY <1>3, <1>4, <1>5, <1>6, <1>7 DEF Inv

LEMMA StepInv == ASSUME Inv, [Next]_vars PROVE Inv'
<1>1. CASE UNCHANGED vars
  <2>1. UNCHANGED <<sameDB, src, exp, bundle, tgt, imp, given, raced, failures>>
    BY <1>1 DEF vars
  <2>2. Shape /\ Exports /\ OneFile /\ Rows /\ \A p \in Periods : GoodPeriod(p)
    BY DEF Inv
  <2>3. Shape' /\ Exports'
    BY <2>1, <2>2 DEF Shape, Exports
  <2>4. QED
    BY <2>1, <2>2, <2>3, TargetKept DEF Inv
<1>2. CASE Next
  BY <1>2, KeepsSourceWrites, KeepsExport, KeepsLocalCapture, KeepsLocalConsolidate,
     KeepsImportStart, KeepsCheckEmpty, KeepsImportEntities, KeepsLogPhase, KeepsImportPeriod,
     KeepsCommitPeriod, KeepsPeriodsDone, KeepsLoadHashes, KeepsImportEpisodes, KeepsImportFails
     DEF Next, SourceInUse
<1>3. QED
  BY <1>1, <1>2

LEMMA Invariance == Spec => []Inv
<1>1. Init => Inv
  BY InitInv
<1>2. Inv /\ [Next]_vars => Inv'
  BY StepInv
<1>3. QED
  BY <1>1, <1>2, PTL DEF Spec

\* Every variable of the export and the import stays in its type; an episode id is
\* used once in the target scope, and when both scopes share a database once in
\* both, although importEpisodes keeps the exported ids that are free.
THEOREM Typing == Spec => []TypeOK
<1>1. ASSUME Inv PROVE TypeOK
  <2>1. Shape /\ Exports /\ OneFile /\ Rows
    BY <1>1 DEF Inv
  <2>2. /\ src \in Directory /\ exp.dir \in Directory
        /\ bundle \in Bundle
        /\ exp.pc \in {"idle", "episodes", "summaries", "entities", "pack", "packing"}
        /\ imp.pc \in {"idle", "start", "entities", "logEntities", "summaries", "period",
                   "logSummaries", "hashes", "episodes", "logEpisodes", "done", "failed"}
    BY <2>1 DEF Shape
  <2>3. /\ tgt.eps \in Seq(Row) /\ tgt.sums \in [Periods -> History]
        /\ tgt.ents \subseteq Entities /\ imp.merge \in BOOLEAN /\ imp.dir \in Directory
        /\ imp.todo \subseteq Periods /\ imp.known \subseteq STRING /\ failures \in 0..MaxFailures
    BY <2>1, TargetFields, Fields
  <2>4. PICK rows, n : rows = tgt.eps /\ n = Cardinality(LocalRows(tgt.eps))
    OBVIOUS
  <2>5. rows \in Seq(Row) /\ GoodRows(rows, n)
    BY <2>1, <2>3, <2>4 DEF Rows
  <2>6. \A i, j \in DOMAIN tgt.eps : tgt.eps[i].id = tgt.eps[j].id => i = j
    BY <2>4, <2>5 DEF GoodRows
  <2>7. ASSUME sameDB, NEW i \in DOMAIN tgt.eps, NEW j \in DOMAIN src.eps,
               tgt.eps[i].id = src.eps[j].id
        PROVE  FALSE
    <3>1. j \in DOMAIN SourceLog /\ src.eps[j] = SourceLog[j]
      BY <2>1, <2>7 DEF Exports, Exported
    <3>2. PICK w : w = rows[i]
      OBVIOUS
    <3>3. w \in Row /\ GoodRow(w, n) /\ w.id = SourceLog[j].id
      BY <2>4, <2>5, <2>7, <3>1, <3>2 DEF GoodRows
    <3>4. CASE w.pass = 0
      BY <3>1, <3>3, <3>4, LogAssumption DEF GoodRow
    <3>5. CASE w.pass # 0
      <4>1. w.id = <<w.from[1], w.pass>>
        BY <2>7, <3>3, <3>5 DEF GoodRow
      <4>2. w.id[2] = w.pass
        BY <4>1
      <4>3. SourceLog[j].id \in Ids
        BY <3>1, LogTyped
      <4>4. SourceLog[j].id[2] = 0
        BY <4>3, IdPairs
      <4>5. QED
        BY <3>3, <3>5, <4>2, <4>4
    <3>6. QED
      BY <3>4, <3>5
  <2>8. QED
    BY <2>1, <2>2, <2>3, <2>6, <2>7 DEF TypeOK, OneFile
<1>2. QED
  BY <1>1, Invariance, PTL

\* For every log, every number of imports, and whatever failed or was merged before
\* (importEpisodes): what a finished import left out, the scope has the hash of; no
\* hash was imported twice; and imported feedback on an imported interaction refers
\* to that row, whichever imports brought the two, unless an earlier import than its
\* own had to give the interaction a fresh id.
THEOREM Arrive == Spec => []EpisodesArrive
<1>1. ASSUME Inv PROVE EpisodesArrive
  <2>1. Rows
    BY <1>1 DEF Inv
  <2>2. imp.pc = "done" => \A i \in DOMAIN imp.dir.eps :
                \E k \in DOMAIN tgt.eps : tgt.eps[k].hash = imp.dir.eps[i].hash
    BY <2>1 DEF Rows
  <2>3. PICK n : GoodRows(tgt.eps, n)
    BY <2>1 DEF Rows
  <2>4. ASSUME NEW i \in DOMAIN tgt.eps, NEW j \in DOMAIN tgt.eps, tgt.eps[i].pass # 0,
               tgt.eps[j].pass # 0
        PROVE  /\ tgt.eps[i].hash = tgt.eps[j].hash => i = j
               /\ Rates(tgt.eps[i].from, tgt.eps[j].from) => Refers(tgt.eps[i], tgt.eps[j])
    BY <2>3, <2>4 DEF GoodRows
  <2>5. QED
    BY <2>2, <2>4 DEF EpisodesArrive, Rates, Refers
<1>2. QED
  BY <1>1, Invariance, PTL

\* Where the imported history of a period lies.
LEMMA WhereImported ==
    ASSUME NEW h \in History, NEW g \in History, NEW n \in Nat, HasAt(h, g, n), ~Local(h),
           NEW S, S = {i \in DOMAIN h : h[i].imported}
    PROVE  /\ S = (n + 1)..(n + Len(g))
           /\ Cardinality({i \in DOMAIN h : \A j \in S : i < j}) = n
           /\ \A i \in S : h[i].sup = IF g[i - n].sup = 0 THEN 0 ELSE g[i - n].sup + n
<1>1. /\ Len(h) \in Nat /\ DOMAIN h = 1..Len(h) /\ Len(g) \in Nat /\ DOMAIN g = 1..Len(g)
      /\ n + Len(g) <= Len(h)
  BY DEF History, HasAt
<1>2. \A i \in DOMAIN h : h[i].imported <=> (n < i /\ i <= n + Len(g))
  BY DEF HasAt
<1>3. S = (n + 1)..(n + Len(g))
  BY <1>1, <1>2
<1>4. Len(g) # 0
  <2>1. PICK i \in DOMAIN h : h[i].imported
    BY DEF Local
  <2>2. QED
    BY <1>1, <1>2, <2>1
<1>5. {i \in DOMAIN h : \A j \in S : i < j} = 1..n
  <2>1. n + 1 \in S /\ \A j \in S : j \in Int /\ n < j
    BY <1>1, <1>3, <1>4
  <2>2. \A i \in DOMAIN h : (\A j \in S : i < j) <=> i <= n
    BY <1>1, <2>1
  <2>3. \A i \in 1..n : i \in DOMAIN h
    BY <1>1
  <2>4. QED
    BY <1>1, <2>2, <2>3
<1>6. Cardinality(1..n) = n
  BY FS_Interval
<1>7. ASSUME NEW i \in S PROVE h[i].sup = IF g[i - n].sup = 0 THEN 0 ELSE g[i - n].sup + n
  <2>1. i - n \in DOMAIN g /\ n + (i - n) = i
    BY <1>1, <1>3
  <2>2. QED
    BY <2>1 DEF HasAt
<1>8. QED
  BY <1>3, <1>5, <1>6, <1>7

\* The imported versions of a period are one exported history, whole and with its
\* links, whatever was killed, retried or merged; if that was a chain, so are all the
\* period's versions, unless the scope consolidated it between periodExists and the
\* insert, or stored a consolidation that had found no version after there was one
\* (importSummaries, RunDaily).
THEOREM Whole == Spec => []HistoryWhole
<1>1. ASSUME Inv PROVE HistoryWhole
  <2> SUFFICES ASSUME NEW p \in Periods,
                      NEW h, h = tgt.sums[p],
                      NEW S, S = {i \in DOMAIN h : h[i].imported},
                      NEW n, n = Cardinality({i \in DOMAIN h : \A j \in S : i < j})
               PROVE  /\ S # {} =>
                           /\ S = (n + 1)..(n + Len(given[p]))
                           /\ \A i \in S :
                                h[i].sup = IF given[p][i - n].sup = 0 THEN 0
                                           ELSE given[p][i - n].sup + n
                      /\ p \notin raced /\ Chain(given[p]) => Chain(h)
    BY DEF HistoryWhole
  <2>1. Shape /\ GoodPeriod(p)
    BY <1>1 DEF Inv
  <2>2. h \in History /\ given[p] \in History
    BY <2>1, TargetFields
  <2>3. ASSUME S # {}
        PROVE  /\ S = (n + 1)..(n + Len(given[p]))
               /\ \A i \in S : h[i].sup = IF given[p][i - n].sup = 0 THEN 0
                                          ELSE given[p][i - n].sup + n
    <3>1. ~Local(h)
      BY <2>3 DEF Local
    <3>2. PICK k \in Nat : HasAt(h, given[p], k)
      BY <2>1, <3>1 DEF GoodPeriod
    <3>3. PICK g : g = given[p]
      OBVIOUS
    <3>4. /\ S = (k + 1)..(k + Len(g))
          /\ Cardinality({i \in DOMAIN h : \A j \in S : i < j}) = k
          /\ \A i \in S : h[i].sup = IF g[i - k].sup = 0 THEN 0 ELSE g[i - k].sup + k
      BY <2>2, <3>1, <3>2, <3>3, WhereImported
    <3>5. QED
      BY <3>3, <3>4
  <2>4. p \notin raced /\ Chain(given[p]) => Chain(h)
    BY <2>1 DEF GoodPeriod
  <2>5. QED
    BY <2>3, <2>4
<1>2. QED
  BY <1>1, Invariance, PTL

=============================================================================
