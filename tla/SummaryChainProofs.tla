------------------------- MODULE SummaryChainProofs -------------------------
(***************************************************************************)
(* Theorems about SummaryChain, for any calendar, any number of processes, *)
(* stores and failures.  A history is judged by itself (the operators with *)
(* a history h as their parameter); what a process has in hand is judged   *)
(* against the histories it read (Good).  Histories only grow, so what was *)
(* true of a row when it was read stays true until it is superseded.       *)
(***************************************************************************)
EXTENDS SummaryChain, FiniteSetTheorems, TLAPS

Histories == [Periods -> Seq(SummaryRow)]

SupersededIn(h, v) == \E u \in DOMAIN h : h[u].sup = v
CurrentIn(h) == {v \in DOMAIN h : ~SupersededIn(h, v)}
RootsIn(h) == {v \in DOMAIN h : h[v].sup = NoSummary}
BeganOnce(h) == \A u, v \in RootsIn(h) : u = v

\* A row supersedes an earlier row of its period.
Backward(h) == \A v \in DOMAIN h : h[v].sup \in 0..(v - 1)

Chain(h) == BeganOnce(h) => \A u, v \in CurrentIn(h) : u = v

Keeps(h) ==
    BeganOnce(h) => \A u \in DOMAIN h, v \in CurrentIn(h) :
                        h[u].fix # Nobody => h[u].fix \in h[v].says

\* S has, for everything in R, that version of its period or a newer one.
NoOlder(R, S) == \A x \in R : \E y \in S : y[1] = x[1] /\ y[2] >= x[2]

Forward(h) ==
    \A v \in DOMAIN h : h[v].sup # NoSummary => NoOlder(h[h[v].sup].read, h[v].read)

\* R names rows, in the histories s, of sources of the rollup q.
Real(q, R, s) == \A x \in R : x[1] \in SourcesOf[q] /\ x[2] \in DOMAIN s[x[1]]

\* What holds of the histories s, whose newest row is not younger than k.
GoodHistories(s, k) ==
    /\ \A p \in Periods :
          /\ Backward(s[p]) /\ Chain(s[p])
          /\ \A u \in DOMAIN s[p] : s[p][u].created <= k
          /\ \A u, v \in DOMAIN s[p] : s[p][u].created = s[p][v].created => u = v
    /\ \A d \in Days : Keeps(s[d])
    /\ \A q \in Rollups :
          Forward(s[q]) /\ \A v \in DOMAIN s[q] : Real(q, s[q][v].read, s)

\* What process a, with r in hand, is about to store agrees with what it read.
GoodNext(a, r, s) ==
    r.pc \in {"generate", "store"} =>
        /\ r.op \in {"fix", "correct"} => a \in r.says
        /\ r.per \in Days /\ r.cur # NoSummary => s[r.per][r.cur].says \subseteq r.says
        /\ r.per \in Rollups =>
              /\ Real(r.per, r.read, s)
              /\ r.cur # NoSummary => NoOlder(s[r.per][r.cur].read, r.read)

Good(a, r, s) ==
    /\ r \in Run
    /\ r.pc \in {"stale", "load", "generate", "store"} => r.cur \in 0..Len(s[r.per])
    /\ r.pc = "stale" => r.cur # NoSummary
    /\ r.pc \in {"stale", "load"} => r.op = "rollup"
    /\ r.op = "rollup" => r.per \in Rollups
    /\ r.op = "daily" => r.per \in Days
    /\ \A x \in r.checks : x[2] \in DOMAIN s[x[1]]
    /\ GoodNext(a, r, s)

\* The time a process's transaction began is its own.
Stamps(f, s, k) ==
    /\ \A a \in Actors : f[a].pc = "store" =>
          /\ f[a].at \in 1..k
          /\ \A p \in Periods : \A v \in DOMAIN s[p] : s[p][v].created # f[a].at
    /\ \A a, b \in Actors :
          f[a].pc = "store" /\ f[b].pc = "store" /\ f[a].at = f[b].at => a = b

Inv ==
    /\ captured \in SUBSET Episodes
    /\ sums \in Histories
    /\ run \in [Actors -> Run]
    /\ clock \in 0..MaxStores
    /\ failures \in 0..MaxFailures
    /\ apart \in BOOLEAN
    /\ GoodHistories(sums, clock)
    /\ \A a \in Actors : Good(a, run[a], sums)
    /\ Stamps(run, sums, clock)

----------------------------------------------------------------------------
(* Histories.                                                              *)

\* What an insert of row e makes of a history.
LEMMA Appended ==
    ASSUME NEW h \in Seq(SummaryRow), NEW e \in SummaryRow
    PROVE  /\ Append(h, e) \in Seq(SummaryRow)
           /\ Len(h) \in Nat /\ DOMAIN h = 1..Len(h)
           /\ Len(Append(h, e)) = Len(h) + 1
           /\ DOMAIN Append(h, e) = 1..(Len(h) + 1)
           /\ \A i \in DOMAIN h : Append(h, e)[i] = h[i]
           /\ Append(h, e)[Len(h) + 1] = e
OBVIOUS

\* The newest row of a history is current.
LEMMA NewestIsCurrent ==
    ASSUME NEW h \in Seq(SummaryRow), Backward(h), Len(h) # 0
    PROVE  Len(h) \in CurrentIn(h)
BY DEF Backward, CurrentIn, SupersededIn

\* A history that is not empty has a first row, which supersedes nothing.
LEMMA FirstIsRoot ==
    ASSUME NEW h \in Seq(SummaryRow), Backward(h), Len(h) # 0
    PROVE  1 \in RootsIn(h)
BY DEF Backward, RootsIn, NoSummary

\* Row e may follow history h: storeSummary's insert was not refused.
Follows(h, e) ==
    /\ e.sup \in 0..Len(h)
    /\ e.sup = NoSummary \/ ~SupersededIn(h, e.sup)

\* An insert into a history that began once, and still did: it replaces the
\* only current row, or is the first row of all.
LEMMA Replaces ==
    ASSUME NEW h \in Seq(SummaryRow), NEW e \in SummaryRow, Follows(h, e),
           Backward(h), Chain(h), BeganOnce(Append(h, e))
    PROVE  /\ BeganOnce(h)
           /\ CurrentIn(Append(h, e)) \subseteq {Len(h) + 1}
           /\ e.sup = NoSummary => Len(h) = 0
           /\ e.sup # NoSummary => e.sup \in CurrentIn(h)
<1> DEFINE g == Append(h, e)
<1>1. /\ Len(h) \in Nat /\ DOMAIN h = 1..Len(h)
      /\ DOMAIN g = 1..(Len(h) + 1)
      /\ \A i \in DOMAIN h : g[i] = h[i]
      /\ g[Len(h) + 1] = e
  BY Appended
<1> HIDE DEF g
<1>2. RootsIn(h) \subseteq RootsIn(g)
  BY <1>1 DEF RootsIn
<1>3. BeganOnce(h)
  BY <1>2 DEF BeganOnce, g
<1>4. ASSUME e.sup = NoSummary PROVE Len(h) = 0
  <2>1. Len(h) + 1 \in RootsIn(g)
    BY <1>1, <1>4 DEF RootsIn
  <2>2. Len(h) # 0 => 1 \in RootsIn(g)
    BY <1>2, FirstIsRoot
  <2>3. QED
    BY <1>1, <2>1, <2>2 DEF BeganOnce, g
<1>5. e.sup # NoSummary => e.sup \in CurrentIn(h)
  BY <1>1 DEF Follows, CurrentIn, NoSummary
<1>6. ASSUME NEW v \in CurrentIn(g), v # Len(h) + 1 PROVE FALSE
  <2>1. v \in DOMAIN h
    BY <1>1, <1>6 DEF CurrentIn
  <2>2. v \in CurrentIn(h)
    BY <1>1, <1>6, <2>1 DEF CurrentIn, SupersededIn
  <2>3. e.sup # NoSummary
    BY <1>1, <1>4, <2>1
  <2>4. v = e.sup
    BY <1>3, <1>5, <2>2, <2>3 DEF Chain
  <2>5. QED
    BY <1>1, <1>6, <2>4 DEF CurrentIn, SupersededIn
<1>7. QED
  BY <1>3, <1>4, <1>5, <1>6 DEF g

LEMMA ChainGrows ==
    ASSUME NEW h \in Seq(SummaryRow), NEW e \in SummaryRow, Follows(h, e),
           Backward(h), Chain(h)
    PROVE  Backward(Append(h, e)) /\ Chain(Append(h, e))
<1>1. Backward(Append(h, e))
  BY Appended DEF Backward, Follows
<1>2. Chain(Append(h, e))
  BY Replaces DEF Chain
<1>3. QED
  BY <1>1, <1>2

LEMMA KeepsGrows ==
    ASSUME NEW h \in Seq(SummaryRow), NEW e \in SummaryRow, Follows(h, e),
           Backward(h), Chain(h), Keeps(h),
           e.sup # NoSummary => h[e.sup].says \subseteq e.says,
           e.fix # Nobody => e.fix \in e.says
    PROVE  Keeps(Append(h, e))
<1> DEFINE g == Append(h, e)
<1> SUFFICES ASSUME BeganOnce(g), NEW u \in DOMAIN g, NEW v \in CurrentIn(g),
                    g[u].fix # Nobody
             PROVE  g[u].fix \in g[v].says
  BY DEF Keeps
<1>1. /\ Len(h) \in Nat /\ DOMAIN h = 1..Len(h)
      /\ DOMAIN g = 1..(Len(h) + 1)
      /\ \A i \in DOMAIN h : g[i] = h[i]
      /\ g[Len(h) + 1] = e
  BY Appended
<1>2. /\ BeganOnce(h) /\ v = Len(h) + 1
      /\ e.sup = NoSummary => Len(h) = 0
      /\ e.sup # NoSummary => e.sup \in CurrentIn(h)
  BY Replaces
<1> HIDE DEF g
<1>3. CASE u = Len(h) + 1
  BY <1>1, <1>2, <1>3
<1>4. CASE u # Len(h) + 1
  <2>1. u \in DOMAIN h /\ e.sup \in CurrentIn(h) /\ e.sup # NoSummary
    BY <1>1, <1>2, <1>4
  <2>2. h[u].fix \in h[e.sup].says
    BY <1>1, <1>2, <2>1 DEF Keeps
  <2>3. QED
    BY <1>1, <1>2, <2>1, <2>2
<1>5. QED
  BY <1>3, <1>4

LEMMA ForwardGrows ==
    ASSUME NEW h \in Seq(SummaryRow), NEW e \in SummaryRow, Follows(h, e),
           Backward(h), Forward(h),
           e.sup # NoSummary => NoOlder(h[e.sup].read, e.read)
    PROVE  Forward(Append(h, e))
<1> DEFINE g == Append(h, e)
<1> SUFFICES ASSUME NEW v \in DOMAIN g, g[v].sup # NoSummary
             PROVE  NoOlder(g[g[v].sup].read, g[v].read)
  BY DEF Forward
<1>1. /\ Len(h) \in Nat /\ DOMAIN h = 1..Len(h)
      /\ DOMAIN g = 1..(Len(h) + 1)
      /\ \A i \in DOMAIN h : g[i] = h[i]
      /\ g[Len(h) + 1] = e
  BY Appended
<1> HIDE DEF g
<1>2. CASE v = Len(h) + 1
  <2>1. e.sup \in DOMAIN h /\ e.sup # NoSummary
    BY <1>1, <1>2 DEF Follows, NoSummary
  <2>2. QED
    BY <1>1, <1>2, <2>1
<1>3. CASE v # Len(h) + 1
  <2>1. v \in DOMAIN h /\ h[v].sup \in DOMAIN h /\ h[v].sup # NoSummary
    BY <1>1, <1>3 DEF Backward, NoSummary
  <2>2. QED
    BY <1>1, <2>1 DEF Forward
<1>4. QED
  BY <1>2, <1>3

----------------------------------------------------------------------------
(* The state.                                                              *)

\* A row's creation time is a tick of the clock that no other row of the period
\* has, so a history is no longer than the clock allows.
LEMMA VersionBound ==
    ASSUME Inv, NEW p \in Periods
    PROVE  /\ Len(sums[p]) \in Nat /\ DOMAIN sums[p] = 1..Len(sums[p])
           /\ DOMAIN sums[p] \subseteq Versions
<1> DEFINE h == sums[p]
           n == Len(h)
           f == [i \in 1..n |-> h[i].created]
<1>1. h \in Seq(SummaryRow) /\ clock \in Nat /\ clock <= MaxStores /\ MaxStores \in Nat
  BY BoundAssumption DEF Inv, Histories
<1>2. n \in Nat /\ DOMAIN h = 1..n
  BY <1>1
<1>3. \A i \in 1..n : h[i].created \in 0..clock
  <2>1. \A i \in 1..n : h[i] \in SummaryRow
    BY <1>1, <1>2
  <2>2. \A i \in 1..n : h[i].created \in 0..MaxStores
    BY <2>1 DEF SummaryRow
  <2>3. \A i \in 1..n : h[i].created <= clock
    BY <1>2 DEF Inv, GoodHistories
  <2>4. QED
    BY <1>1, <2>2, <2>3
<1>4. \A i, j \in 1..n : h[i].created = h[j].created => i = j
  BY <1>2 DEF Inv, GoodHistories
<1> HIDE DEF h, n
<1>5. f \in [1..n -> 0..clock]
  BY <1>3
<1>6. IsFiniteSet(1..n) /\ Cardinality(1..n) = n
  BY <1>2, FS_Interval
<1>7. IsFiniteSet(0..clock) /\ Cardinality(0..clock) = clock + 1
  BY <1>1, FS_Interval
<1>8. ASSUME clock + 1 < n PROVE FALSE
  <2>1. \E i, j \in 1..n : i # j /\ f[i] = f[j]
    <3> HIDE DEF f
    <3>1. QED
      BY <1>5, <1>6, <1>7, <1>8, FS_PigeonHole
  <2>2. QED
    BY <1>4, <2>1
<1>9. n <= MaxStores + 1
  BY <1>1, <1>2, <1>8
<1>10. QED
  BY <1>1, <1>2, <1>9 DEF h, n, Versions

LEMMA IdleIsGood ==
    ASSUME NEW a \in Actors, NEW s
    PROVE  IdleRun \in Run /\ Good(a, IdleRun, s)
<1>1. PICK d \in Days : IdleRun = [pc |-> "idle", op |-> "daily", per |-> d, day |-> d,
        cur |-> NoSummary, says |-> {}, read |-> {}, at |-> 0, todo |-> <<>>,
        check |-> FALSE, checks |-> {}]
  BY ActorAssumption DEF IdleRun
<1>2. IdleRun \in Run
  BY <1>1, BoundAssumption DEF Run, Periods, NoSummary
<1>3. QED
  BY <1>1, <1>2 DEF Good, GoodNext

LEMMA InitInv == Init => Inv
<1> SUFFICES ASSUME Init PROVE Inv
  OBVIOUS
<1> USE BoundAssumption, PeriodAssumption
<1>1. \A p \in Periods : SeedRow(p) \in SummaryRow
  BY DEF SeedRow, SummaryRow, Versions, Periods, NoSummary
<1>2. \A p \in Periods :
          /\ sums[p] = IF p \in SeedPeriods THEN <<SeedRow(p)>> ELSE <<>>
          /\ sums[p] \in Seq(SummaryRow)
          /\ DOMAIN sums[p] = IF p \in SeedPeriods THEN {1} ELSE {}
          /\ p \in SeedPeriods => sums[p][1] = SeedRow(p)
  BY <1>1 DEF Init
<1>3. sums \in Histories
  BY <1>2 DEF Init, Histories
<1>4. \A p \in Periods : \A v \in DOMAIN sums[p] :
          /\ v = 1 /\ p \in SeedPeriods
          /\ sums[p][v].sup = 0 /\ sums[p][v].created = 0 /\ sums[p][v].fix = Nobody
          /\ p \in Rollups => sums[p][v].read = (SourcesOf[p] \cap SeedPeriods) \X {1}
  <2> SUFFICES ASSUME NEW p \in Periods, NEW v \in DOMAIN sums[p]
               PROVE  /\ v = 1 /\ p \in SeedPeriods
                      /\ sums[p][v].sup = 0 /\ sums[p][v].created = 0
                      /\ sums[p][v].fix = Nobody
                      /\ p \in Rollups =>
                            sums[p][v].read = (SourcesOf[p] \cap SeedPeriods) \X {1}
    OBVIOUS
  <2>1. v = 1 /\ p \in SeedPeriods /\ sums[p][v] = SeedRow(p)
    BY <1>2
  <2>2. QED
    BY <2>1 DEF SeedRow, NoSummary
<1>5. GoodHistories(sums, clock)
  <2>1. \A p \in Periods : Backward(sums[p]) /\ Chain(sums[p]) /\ Keeps(sums[p]) /\ Forward(sums[p])
    BY <1>4 DEF Backward, Chain, Keeps, Forward, CurrentIn, NoSummary
  <2>2. ASSUME NEW q \in Rollups, NEW v \in DOMAIN sums[q], NEW x \in sums[q][v].read
        PROVE  x[1] \in SourcesOf[q] /\ x[2] \in DOMAIN sums[x[1]]
    <3>1. x[1] \in SourcesOf[q] /\ x[1] \in SeedPeriods /\ x[2] = 1
      BY <1>4 DEF Periods
    <3>2. QED
      BY <1>2, <3>1
  <2>3. \A q \in Rollups : \A v \in DOMAIN sums[q] : Real(q, sums[q][v].read, sums)
    BY <2>2 DEF Real
  <2>4. \A p \in Periods :
            /\ \A u \in DOMAIN sums[p] : sums[p][u].created <= clock
            /\ \A u, v \in DOMAIN sums[p] : sums[p][u].created = sums[p][v].created => u = v
    BY <1>4 DEF Init
  <2>5. QED
    BY <2>1, <2>3, <2>4 DEF GoodHistories, Periods
<1>6. run \in [Actors -> Run] /\ \A a \in Actors : run[a] = IdleRun /\ Good(a, run[a], sums)
  BY IdleIsGood DEF Init
<1>7. \A a \in Actors : run[a].pc = "idle"
  BY <1>6 DEF IdleRun
<1>8. QED
  BY <1>3, <1>5, <1>6, <1>7 DEF Inv, Init, Stamps

\* A step that stores nothing: one process takes r in hand.
LEMMA Quiet ==
    ASSUME Inv, NEW a \in Actors, NEW r, run' = [run EXCEPT ![a] = r],
           Good(a, r, sums), r.pc # "store", UNCHANGED <<sums, clock>>,
           captured' \in SUBSET Episodes, failures' \in 0..MaxFailures, apart' \in BOOLEAN
    PROVE  Inv'
<1>1. \A b \in Actors : run'[b] = IF b = a THEN r ELSE run[b]
  BY DEF Inv
<1>2. run' \in [Actors -> Run]
  BY DEF Inv, Good
<1>3. \A b \in Actors : Good(b, run[b], sums)'
  BY <1>1 DEF Inv
<1>4. Stamps(run, sums, clock)'
  BY <1>1 DEF Inv, Stamps
<1>5. QED
  BY <1>2, <1>3, <1>4 DEF Inv

\* The types of what a process has in hand, and of a row.
LEMMA InHand ==
    ASSUME Inv, NEW a \in Actors
    PROVE  run[a] \in Run /\ Good(a, run[a], sums) /\ run[a].per \in Periods
BY DEF Inv, Run

LEMMA RowTyped ==
    ASSUME Inv, NEW p \in Periods, NEW v \in DOMAIN sums[p]
    PROVE  sums[p][v] \in SummaryRow /\ v \in Versions /\ v # NoSummary
<1>1. sums[p] \in Seq(SummaryRow)
  BY DEF Inv, Histories
<1>2. v \in Versions
  BY VersionBound
<1>3. QED
  BY <1>1, <1>2, BoundAssumption DEF Versions, NoSummary

----------------------------------------------------------------------------
(* The reads of a consolidation.                                           *)

LEMMA DailyEpisodesKeeps ==
    ASSUME Inv, NEW c \in Consolidators, DailyEpisodes(c)
    PROVE  Inv'
<1>1. c \in Actors
  BY DEF Actors
<1>2. PICK d \in Days : run' = [run EXCEPT ![c] = [IdleRun EXCEPT
          !.pc = "current", !.op = "daily", !.per = d, !.day = d,
          !.says = {e \in captured : DayOf[e] = d}, !.check = TRUE]]
  BY DEF DailyEpisodes
<1> DEFINE r == [IdleRun EXCEPT !.pc = "current", !.op = "daily", !.per = d, !.day = d,
                   !.says = {e \in captured : DayOf[e] = d}, !.check = TRUE]
<1>3. IdleRun \in Run /\ IdleRun.checks = {}
  BY <1>1, IdleIsGood DEF IdleRun
<1>4. {e \in captured : DayOf[e] = d} \in SUBSET Facts
  BY DEF Inv, Facts
<1>5. r \in Run /\ r.pc = "current" /\ r.op = "daily" /\ r.per = d /\ r.checks = {}
  BY <1>3, <1>4 DEF Run, Periods
<1>6. Good(c, r, sums)
  <2> HIDE DEF r
  <2>1. QED
    BY <1>5 DEF Good, GoodNext
<1>7. QED
  BY <1>1, <1>2, <1>5, <1>6, Quiet DEF DailyEpisodes, Inv

LEMMA RollupDueKeeps ==
    ASSUME Inv, NEW c \in Consolidators, RollupDue(c)
    PROVE  Inv'
<1>1. c \in Actors
  BY DEF Actors
<1>2. PICK q \in Rollups : run' = [run EXCEPT ![c] =
          [IdleRun EXCEPT !.pc = "current", !.op = "rollup", !.per = q]]
  BY DEF RollupDue
<1> DEFINE r == [IdleRun EXCEPT !.pc = "current", !.op = "rollup", !.per = q]
<1>3. IdleRun \in Run /\ IdleRun.checks = {}
  BY <1>1, IdleIsGood DEF IdleRun
<1>4. r \in Run /\ r.pc = "current" /\ r.op = "rollup" /\ r.per = q /\ r.checks = {}
  BY <1>3 DEF Run, Periods
<1>5. Good(c, r, sums)
  <2> HIDE DEF r
  <2>1. QED
    BY <1>4 DEF Good, GoodNext
<1>6. QED
  BY <1>1, <1>2, <1>4, <1>5, Quiet DEF RollupDue, Inv

LEMMA DailyCurrentKeeps ==
    ASSUME Inv, NEW c \in Consolidators, DailyCurrent(c)
    PROVE  Inv'
<1>1. c \in Actors
  BY DEF Actors
<1> DEFINE p == run[c].per
<1>2. run[c] \in Run /\ Good(c, run[c], sums) /\ p \in Days /\ run[c].op = "daily"
  BY <1>1, InHand DEF DailyCurrent, Good
<1>3. PICK v \in 0..Len(sums[p]) :
          run' = [run EXCEPT ![c].pc = "generate", ![c].cur = v,
                    ![c].says = @ \cup IF v = NoSummary THEN {} ELSE sums[p][v].says]
  BY DEF DailyCurrent
<1> DEFINE more == IF v = NoSummary THEN {} ELSE sums[p][v].says
           r == [run[c] EXCEPT !.pc = "generate", !.cur = v, !.says = @ \cup more]
<1>4. p \in Periods /\ p \notin Rollups
  BY <1>2, PeriodAssumption DEF Periods
<1>5. v = NoSummary \/ v \in DOMAIN sums[p]
  BY <1>4, VersionBound DEF NoSummary
<1>6. v \in {NoSummary} \cup Versions /\ more \in SUBSET Facts
  BY <1>4, <1>5, RowTyped DEF SummaryRow
<1>7. /\ r \in Run /\ r.pc = "generate" /\ r.op = "daily" /\ r.per = p /\ r.cur = v
      /\ r.checks = run[c].checks /\ more \subseteq r.says
  BY <1>2, <1>6 DEF Run
<1>8. run' = [run EXCEPT ![c] = r]
  BY <1>1, <1>3, <1>2 DEF Inv, Run
<1>9. Good(c, r, sums)
  <2> HIDE DEF r
  <2>1. QED
    BY <1>2, <1>4, <1>7 DEF Good, GoodNext
<1>10. QED
  BY <1>1, <1>7, <1>8, <1>9, Quiet DEF DailyCurrent, Inv

LEMMA RollupCurrentKeeps ==
    ASSUME Inv, NEW c \in Consolidators, RollupCurrent(c)
    PROVE  Inv'
<1>1. c \in Actors
  BY DEF Actors
<1> DEFINE p == run[c].per
<1>2. run[c] \in Run /\ Good(c, run[c], sums) /\ p \in Rollups /\ run[c].op = "rollup"
  BY <1>1, InHand DEF RollupCurrent, Good
<1>3. PICK v \in 0..Len(sums[p]) :
          run' = [run EXCEPT ![c].pc = IF v = NoSummary THEN "load" ELSE "stale",
                             ![c].cur = v]
  BY DEF RollupCurrent
<1> DEFINE pc == IF v = NoSummary THEN "load" ELSE "stale"
           r == [run[c] EXCEPT !.pc = pc, !.cur = v]
<1>4. p \in Periods
  BY <1>2 DEF Periods
<1>5. v \in {NoSummary} \cup Versions
  BY <1>4, VersionBound DEF NoSummary
<1>6. /\ r \in Run /\ r.pc = pc /\ r.op = "rollup" /\ r.per = p /\ r.cur = v
      /\ r.checks = run[c].checks
  BY <1>2, <1>5 DEF Run
<1>7. run' = [run EXCEPT ![c] = r]
  BY <1>1, <1>3, <1>2 DEF Inv, Run
<1>8. Good(c, r, sums)
  <2> HIDE DEF r
  <2>1. QED
    BY <1>2, <1>4, <1>6 DEF Good, GoodNext
<1>9. QED
  <2>1. r.pc # "store"
    BY <1>6
  <2>2. UNCHANGED <<captured, sums, clock, failures, apart>>
    BY DEF RollupCurrent
  <2> HIDE DEF r
  <2>3. QED
    BY <1>1, <1>7, <1>8, <2>1, <2>2, Quiet DEF Inv

LEMMA RollupStaleKeeps ==
    ASSUME Inv, NEW c \in Consolidators, RollupStale(c)
    PROVE  Inv'
<1>1. c \in Actors
  BY DEF Actors
<1>2. run[c] \in Run /\ Good(c, run[c], sums) /\ run[c].pc = "stale"
  BY <1>1, InHand DEF RollupStale
<1>3. PICK pc \in {"load", "next"} : run' = [run EXCEPT ![c] = [run[c] EXCEPT !.pc = pc]]
  BY <1>1, <1>2 DEF RollupStale, Inv
<1> DEFINE r == [run[c] EXCEPT !.pc = pc]
<1>4. Good(c, r, sums)
  BY <1>2 DEF Good, GoodNext, Run
<1>5. r.pc # "store"
  BY <1>2 DEF Run
<1>6. QED
  BY <1>1, <1>3, <1>4, <1>5, Quiet DEF RollupStale, Inv

\* The source versions a regenerated rollup reads are no older than the ones its
\* predecessor read: the newest row of a history is current.
LEMMA SourcesNoOlder ==
    ASSUME Inv, NEW q \in Rollups, NEW v \in DOMAIN sums[q]
    PROVE  NoOlder(sums[q][v].read, loadSummaries(q))
<1> SUFFICES ASSUME NEW x \in sums[q][v].read
             PROVE  \E y \in loadSummaries(q) : y[1] = x[1] /\ y[2] >= x[2]
  BY DEF NoOlder
<1>1. x[1] \in SourcesOf[q] /\ x[2] \in DOMAIN sums[x[1]]
  BY DEF Inv, GoodHistories, Real
<1> DEFINE p == x[1]
           n == Len(sums[p])
<1>2. p \in Periods
  BY <1>1, PeriodAssumption
<1>3. sums[p] \in Seq(SummaryRow) /\ Backward(sums[p])
  BY <1>2 DEF Inv, Histories, GoodHistories
<1>4. n \in Nat /\ DOMAIN sums[p] = 1..n /\ DOMAIN sums[p] \subseteq Versions
  BY <1>2, VersionBound
<1>5. n \in CurrentIn(sums[p]) /\ n \in Versions /\ n >= x[2]
  BY <1>1, <1>3, <1>4, NewestIsCurrent
<1>6. n \in Current(p)
  BY <1>5 DEF Current, CurrentIn, Superseded, SupersededIn
<1>7. <<p, n>> \in loadSummaries(q)
  BY <1>1, <1>2, <1>5, <1>6 DEF loadSummaries
<1>8. QED
  BY <1>5, <1>7

LEMMA RollupLoadKeeps ==
    ASSUME Inv, NEW c \in Consolidators, RollupLoad(c)
    PROVE  Inv'
<1>1. c \in Actors
  BY DEF Actors
<1> DEFINE q == run[c].per
           R == loadSummaries(q)
           S == UNION {sums[x[1]][x[2]].says : x \in R}
           pc == IF R = {} THEN "next" ELSE "generate"
           r == [run[c] EXCEPT !.pc = pc, !.read = R, !.says = S]
<1>2. run[c] \in Run /\ Good(c, run[c], sums) /\ run[c].pc = "load"
  BY <1>1, InHand DEF RollupLoad
<1>3. q \in Rollups /\ q \in Periods /\ run[c].op = "rollup"
  BY <1>2 DEF Good, Periods
<1>4. R \in SUBSET (Periods \X Versions)
  BY DEF loadSummaries
<1>5. \A x \in R : x[1] \in Periods /\ x[1] \in SourcesOf[q] /\ x[2] \in DOMAIN sums[x[1]]
  BY DEF loadSummaries, Current
<1>6. \A x \in R : sums[x[1]][x[2]].says \in SUBSET Facts
  BY <1>5, RowTyped DEF SummaryRow
<1>7. S \in SUBSET Facts
  BY <1>6
<1>8. Real(q, R, sums)
  BY <1>5 DEF Real
<1>9. run[c].cur # NoSummary => NoOlder(sums[q][run[c].cur].read, R)
  <2>1. run[c].cur \in 0..Len(sums[q])
    BY <1>2 DEF Good
  <2>2. run[c].cur # NoSummary => run[c].cur \in DOMAIN sums[q]
    BY <1>3, <2>1, VersionBound DEF NoSummary
  <2>3. QED
    BY <1>3, <2>2, SourcesNoOlder
<1> HIDE DEF R, S
<1>10. run' = [run EXCEPT ![c] = r]
  BY <1>1, <1>2 DEF RollupLoad, Inv, Run, R, S
<1>11. /\ r \in Run /\ r.pc = pc /\ r.op = "rollup" /\ r.per = q
       /\ r.cur = run[c].cur /\ r.read = R /\ r.checks = run[c].checks
  BY <1>2, <1>3, <1>4, <1>7 DEF Run
<1>12. Good(c, r, sums)
  <2>1. q \notin Days
    BY <1>3, PeriodAssumption
  <2> HIDE DEF r
  <2>2. QED
    BY <1>2, <1>3, <1>8, <1>9, <1>11, <2>1 DEF Good, GoodNext
<1>13. QED
  <2>1. r.pc # "store"
    BY <1>11
  <2>2. UNCHANGED <<captured, sums, clock, failures, apart>>
    BY DEF RollupLoad
  <2> HIDE DEF r
  <2>3. QED
    BY <1>1, <1>10, <1>12, <2>1, <2>2, Quiet DEF Inv

----------------------------------------------------------------------------
(* What follows a stored summary, and failures.                            *)

LEMMA CoveringTyped ==
    ASSUME Inv, NEW p \in Periods
    PROVE  rollupsCovering(p) \in Seq(Rollups)
<1>1. CASE ~\E q \in Rollups : p \in SourcesOf[q]
  BY <1>1 DEF rollupsCovering
<1>2. CASE \E q \in Rollups : p \in SourcesOf[q]
  <2> DEFINE q == CHOOSE r \in Rollups : p \in SourcesOf[r]
  <2>1. q \in Rollups /\ q \in Periods
    BY <1>2 DEF Periods
  <2> HIDE DEF q
  <2>2. Len(sums[q]) \in Nat /\ DOMAIN sums[q] = 1..Len(sums[q])
    BY <2>1, VersionBound
  <2>3. IsFiniteSet(DOMAIN sums[q]) /\ Roots(q) \in SUBSET (DOMAIN sums[q])
    BY <2>2, FS_Interval DEF Roots
  <2>4. IsFiniteSet(Roots(q))
    BY <2>3, FS_Subset
  <2>5. Cardinality(Roots(q)) \in Nat
    BY <2>4, FS_CardinalityType
  <2>6. [i \in 1..Cardinality(Roots(q)) |-> q] \in Seq(Rollups)
    BY <2>1, <2>5
  <2>7. QED
    BY <1>2, <2>6 DEF rollupsCovering, q
<1>3. QED
  BY <1>1, <1>2

LEMMA RefreshKeeps ==
    ASSUME Inv, NEW c \in Consolidators, Refresh(c)
    PROVE  Inv'
<1>1. c \in Actors
  BY DEF Actors
<1> DEFINE jobs == rollupsCovering(run[c].per) \o run[c].todo
           r == [run[c] EXCEPT !.pc = "next", !.todo = jobs]
<1>2. run[c] \in Run /\ Good(c, run[c], sums) /\ run[c].per \in Periods
  BY <1>1, InHand
<1>3. jobs \in Seq(Rollups)
  BY <1>2, CoveringTyped DEF Run
<1>4. run' = [run EXCEPT ![c] = r]
  BY <1>1, <1>2 DEF Refresh, Inv, Run
<1> HIDE DEF jobs
<1>5. /\ r \in Run /\ r.pc = "next" /\ r.op = run[c].op /\ r.per = run[c].per
      /\ r.checks = run[c].checks
  BY <1>2, <1>3 DEF Run
<1>6. UNCHANGED <<captured, sums, clock, failures, apart>>
  BY DEF Refresh
<1> HIDE DEF r
<1>7. Good(c, r, sums)
  BY <1>2, <1>5 DEF Good, GoodNext
<1>8. QED
  BY <1>1, <1>4, <1>5, <1>6, <1>7, Quiet DEF Inv

LEMMA NextRollupKeeps ==
    ASSUME Inv, NEW c \in Consolidators, NextRollup(c)
    PROVE  Inv'
<1>1. c \in Actors
  BY DEF Actors
<1> DEFINE q == Head(run[c].todo)
           rest == Tail(run[c].todo)
           r == [run[c] EXCEPT !.pc = "current", !.op = "rollup", !.per = q, !.todo = rest,
                   !.cur = NoSummary, !.says = {}, !.read = {}]
<1>2. run[c] \in Run /\ Good(c, run[c], sums)
  BY <1>1, InHand
<1>3. run[c].todo \in Seq(Rollups) /\ run[c].todo # <<>>
  BY <1>2 DEF NextRollup, Run
<1>4. q \in Rollups /\ rest \in Seq(Rollups)
  BY <1>3
<1>5. run' = [run EXCEPT ![c] = r]
  BY <1>1, <1>2 DEF NextRollup, Inv, Run
<1> HIDE DEF q, rest
<1>6. /\ r \in Run /\ r.pc = "current" /\ r.op = "rollup" /\ r.per = q
      /\ r.checks = run[c].checks
  BY <1>2, <1>4 DEF Run, Periods
<1>7. UNCHANGED <<captured, sums, clock, failures, apart>>
  BY DEF NextRollup
<1> HIDE DEF r
<1>8. Good(c, r, sums)
  BY <1>2, <1>4, <1>6 DEF Good, GoodNext
<1>9. QED
  BY <1>1, <1>5, <1>6, <1>7, <1>8, Quiet DEF Inv

LEMMA FindContradictionsKeeps ==
    ASSUME Inv, NEW c \in Consolidators, FindContradictions(c)
    PROVE  Inv'
<1>1. c \in Actors
  BY DEF Actors
<1>2. PICK B \in SUBSET {x \in Periods \X Versions : x[2] \in Current(x[1])} :
          run' = [run EXCEPT ![c].check = FALSE, ![c].checks = B]
  BY DEF FindContradictions
<1> DEFINE r == [run[c] EXCEPT !.check = FALSE, !.checks = B]
<1>3. run[c] \in Run /\ Good(c, run[c], sums) /\ run[c].pc = "next"
  BY <1>1, InHand DEF FindContradictions
<1>4. run' = [run EXCEPT ![c] = r]
  BY <1>1, <1>2, <1>3 DEF Inv, Run
<1>5. /\ r \in Run /\ r.pc = "next" /\ r.op = run[c].op /\ r.per = run[c].per
      /\ r.checks = B
  BY <1>3 DEF Run
<1>6. \A x \in B : x[2] \in DOMAIN sums[x[1]]
  BY DEF Current
<1>7. UNCHANGED <<captured, sums, clock, failures, apart>>
  BY DEF FindContradictions
<1> HIDE DEF r
<1>8. Good(c, r, sums)
  BY <1>3, <1>5, <1>6 DEF Good, GoodNext
<1>9. QED
  BY <1>1, <1>4, <1>5, <1>7, <1>8, Quiet DEF Inv

\* A correction starts from the row it is about to supersede.
LEMMA CorrectFromGood ==
    ASSUME Inv, NEW a \in Actors, NEW op \in {"fix", "correct"},
           NEW p \in Periods, NEW v \in DOMAIN sums[p]
    PROVE  /\ Good(a, CorrectFrom(a, op, p, v), sums)
           /\ CorrectFrom(a, op, p, v).pc = "generate"
           /\ CorrectFrom(a, op, p, v).checks = run[a].checks
<1> DEFINE r == CorrectFrom(a, op, p, v)
           row == sums[p][v]
<1>1. run[a] \in Run /\ Good(a, run[a], sums)
  BY InHand
<1>2. row \in SummaryRow /\ v \in Versions
  BY RowTyped
<1>3. /\ row.says \in SUBSET Facts /\ row.read \in SUBSET (Periods \X Versions)
  BY <1>2 DEF SummaryRow
<1> HIDE DEF row
<1>4. /\ r \in Run /\ r.pc = "generate" /\ r.op = op /\ r.per = p /\ r.cur = v
      /\ r.says = row.says \cup {a} /\ r.read = row.read /\ r.checks = run[a].checks
  BY <1>1, <1>2, <1>3 DEF CorrectFrom, Run, Facts, row
<1>5. v \in 0..Len(sums[p])
  BY VersionBound
<1>6. p \in Rollups => Real(p, row.read, sums)
  BY DEF Inv, GoodHistories, row
<1>7. NoOlder(row.read, row.read)
  <2>1. \A x \in row.read : x[2] \in Int
    BY <1>3, BoundAssumption DEF Versions
  <2>2. QED
    BY <2>1 DEF NoOlder
<1> HIDE DEF r
<1>8. Good(a, r, sums)
  BY <1>1, <1>4, <1>5, <1>6, <1>7 DEF Good, GoodNext, row
<1>9. QED
  BY <1>4, <1>8 DEF r

LEMMA CorrectKeeps ==
    ASSUME Inv, NEW o \in Operators, Correct(o)
    PROVE  Inv'
<1>1. o \in Actors
  BY DEF Actors
<1>a. PICK p \in Periods : \E v \in DOMAIN sums[p] :
          run' = [run EXCEPT ![o] = CorrectFrom(o, "correct", p, v)]
  BY DEF Correct
<1>2. PICK v \in DOMAIN sums[p] : run' = [run EXCEPT ![o] = CorrectFrom(o, "correct", p, v)]
  BY <1>a
<1> DEFINE r == CorrectFrom(o, "correct", p, v)
<1>3. Good(o, r, sums) /\ r.pc # "store"
  BY <1>1, CorrectFromGood
<1>4. UNCHANGED <<captured, sums, clock, failures, apart>>
  BY DEF Correct
<1> HIDE DEF r
<1>5. QED
  BY <1>1, <1>2, <1>3, <1>4, Quiet DEF Inv, r

LEMMA FixContradictionKeeps ==
    ASSUME Inv, NEW c \in Consolidators, FixContradiction(c)
    PROVE  Inv'
<1>1. c \in Actors
  BY DEF Actors
<1>2. run[c] \in Run /\ Good(c, run[c], sums) /\ run[c].pc = "next"
  BY <1>1, InHand DEF FixContradiction
<1>3. PICK x \in run[c].checks :
          run' = [run EXCEPT ![c] =
                    [(IF Superseded(x[1], x[2]) THEN run[c]
                      ELSE CorrectFrom(c, "fix", x[1], x[2])) EXCEPT !.checks = @ \ {x}]]
  BY DEF FixContradiction
<1>4. x[1] \in Periods /\ x[2] \in DOMAIN sums[x[1]]
  BY <1>2 DEF Good, Run
<1> DEFINE b == IF Superseded(x[1], x[2]) THEN run[c]
                ELSE CorrectFrom(c, "fix", x[1], x[2])
           r == [b EXCEPT !.checks = @ \ {x}]
<1>5. Good(c, b, sums) /\ b.pc # "store"
  BY <1>1, <1>2, <1>4, CorrectFromGood
<1>6. UNCHANGED <<captured, sums, clock, failures, apart>>
  BY DEF FixContradiction
<1> HIDE DEF b
<1>7. /\ r \in Run /\ r.pc = b.pc /\ r.op = b.op /\ r.per = b.per /\ r.cur = b.cur
      /\ r.says = b.says /\ r.read = b.read /\ r.checks \subseteq b.checks
  BY <1>5 DEF Good, Run
<1> HIDE DEF r
<1>8. Good(c, r, sums)
  BY <1>5, <1>7 DEF Good, GoodNext
<1>9. run' = [run EXCEPT ![c] = r]
  BY <1>3 DEF r, b
<1>10. QED
  BY <1>1, <1>5, <1>6, <1>7, <1>8, <1>9, Quiet DEF Inv

\* A process ends, or dies.
LEMMA EndKeeps ==
    ASSUME Inv, NEW a \in Actors, run' = [run EXCEPT ![a] = IdleRun],
           UNCHANGED <<captured, sums, clock, apart>>, failures' \in 0..MaxFailures
    PROVE  Inv'
<1>1. Good(a, IdleRun, sums) /\ IdleRun.pc # "store"
  BY IdleIsGood DEF IdleRun
<1>2. QED
  BY <1>1, Quiet DEF Inv

LEMMA FailedKeeps ==
    ASSUME Inv, NEW a \in Actors, Failed(a), run[a].pc \in {"generate", "store"},
           UNCHANGED <<captured, sums, clock, apart>>, failures' \in 0..MaxFailures
    PROVE  Inv'
<1>1. CASE run[a].op \in {"daily", "correct"}
  BY <1>1, EndKeeps DEF Failed
<1>2. CASE run[a].op \notin {"daily", "correct"}
  <2> DEFINE r == [run[a] EXCEPT !.pc = "next"]
  <2>1. run[a] \in Run /\ Good(a, run[a], sums)
    BY InHand
  <2>2. run' = [run EXCEPT ![a] = r]
    BY <1>2 DEF Failed
  <2>3. /\ r \in Run /\ r.pc = "next" /\ r.op = run[a].op /\ r.per = run[a].per
        /\ r.checks = run[a].checks
    BY <2>1 DEF Run
  <2> HIDE DEF r
  <2>4. Good(a, r, sums)
    BY <2>1, <2>3 DEF Good, GoodNext
  <2>5. QED
    BY <2>2, <2>3, <2>4, Quiet DEF Inv
<1>3. QED
  BY <1>1, <1>2

----------------------------------------------------------------------------
(* Storing a summary.                                                      *)

LEMMA BeginStoreKeeps ==
    ASSUME Inv, NEW a \in Actors, BeginStore(a)
    PROVE  Inv'
<1> DEFINE r == [run[a] EXCEPT !.pc = "store", !.at = clock + 1]
<1>1. run[a] \in Run /\ Good(a, run[a], sums) /\ run[a].pc = "generate"
  BY InHand DEF BeginStore
<1>2. clock \in Nat /\ clock + 1 \in 0..MaxStores /\ clock' = clock + 1
  BY BoundAssumption DEF BeginStore, Inv
<1>3. run' = [run EXCEPT ![a] = r]
  BY <1>1 DEF BeginStore, Inv, Run
<1>4. /\ r \in Run /\ r.pc = "store" /\ r.op = run[a].op /\ r.per = run[a].per
      /\ r.cur = run[a].cur /\ r.says = run[a].says /\ r.read = run[a].read
      /\ r.at = clock + 1 /\ r.checks = run[a].checks
  BY <1>1, <1>2 DEF Run
<1> HIDE DEF r
<1>5. Good(a, r, sums)
  BY <1>1, <1>4 DEF Good, GoodNext
<1>6. \A b \in Actors : run'[b] = IF b = a THEN r ELSE run[b]
  BY <1>3 DEF Inv
<1>7. UNCHANGED <<captured, sums, failures, apart>>
  BY DEF BeginStore
<1>8. \A p \in Periods : \A v \in DOMAIN sums[p] : sums[p][v].created \in Int /\ sums[p][v].created <= clock
  <2> SUFFICES ASSUME NEW p \in Periods, NEW v \in DOMAIN sums[p]
               PROVE  sums[p][v].created \in Int /\ sums[p][v].created <= clock
    OBVIOUS
  <2>1. sums[p][v] \in SummaryRow
    BY RowTyped
  <2>2. QED
    BY <2>1, BoundAssumption DEF SummaryRow, Inv, GoodHistories
<1>9. GoodHistories(sums, clock)'
  <2>1. \A p \in Periods : \A v \in DOMAIN sums[p] : sums[p][v].created <= clock + 1
    BY <1>2, <1>8
  <2>2. GoodHistories(sums, clock + 1)
    BY <2>1 DEF Inv, GoodHistories
  <2>3. QED
    BY <1>2, <1>7, <2>2
<1>10. Stamps(run, sums, clock)'
  <2>1. \A b \in Actors : b # a /\ run[b].pc = "store" => run[b].at \in 1..clock
    BY DEF Inv, Stamps
  <2>2. ASSUME NEW b \in Actors, run'[b].pc = "store"
        PROVE  /\ run'[b].at \in 1..(clock + 1)
               /\ \A p \in Periods : \A v \in DOMAIN sums[p] : sums[p][v].created # run'[b].at
    <3>1. CASE b = a
      BY <1>2, <1>4, <1>6, <1>8, <3>1
    <3>2. CASE b # a
      BY <1>2, <1>6, <2>1, <2>2, <3>2 DEF Inv, Stamps
    <3>3. QED
      BY <3>1, <3>2
  <2>3. ASSUME NEW b \in Actors, NEW d \in Actors, run'[b].pc = "store",
               run'[d].pc = "store", run'[b].at = run'[d].at
        PROVE  b = d
    <3>1. b # a => run'[b] = run[b] /\ run[b].at \in 1..clock
      BY <1>6, <2>1, <2>3
    <3>2. d # a => run'[d] = run[d] /\ run[d].at \in 1..clock
      BY <1>6, <2>1, <2>3
    <3>3. run'[a].at = clock + 1
      BY <1>4, <1>6
    <3>4. CASE b # a /\ d # a
      BY <2>3, <3>1, <3>2, <3>4 DEF Inv, Stamps
    <3>5. CASE b = a \/ d = a
      BY <1>2, <2>3, <3>1, <3>2, <3>3, <3>5
    <3>6. QED
      BY <3>4, <3>5
  <2>4. QED
    BY <1>2, <1>7, <2>2, <2>3 DEF Stamps
<1>11. run' \in [Actors -> Run]
  BY <1>3, <1>4 DEF Inv
<1>12. \A b \in Actors : Good(b, run[b], sums)'
  BY <1>5, <1>6, <1>7 DEF Inv
<1>13. QED
  BY <1>2, <1>7, <1>9, <1>10, <1>11, <1>12 DEF Inv

\* Histories t extend histories s.
Extends(s, t) ==
    \A p \in Periods :
        /\ Len(s[p]) <= Len(t[p])
        /\ DOMAIN s[p] \subseteq DOMAIN t[p]
        /\ \A v \in DOMAIN s[p] : t[p][v] = s[p][v]

\* What a process has in hand stays good while histories grow.
LEMMA GoodGrows ==
    ASSUME NEW a \in Actors, NEW r, NEW s \in Histories, NEW t \in Histories,
           Extends(s, t), Good(a, r, s)
    PROVE  Good(a, r, t)
<1>1. r.per \in Periods /\ r.checks \in SUBSET (Periods \X Versions)
      /\ r.read \in SUBSET (Periods \X Versions)
  BY DEF Good, Run
<1>2. \A p \in Periods : /\ Len(s[p]) \in Nat /\ Len(t[p]) \in Nat
                         /\ DOMAIN s[p] = 1..Len(s[p])
  BY DEF Histories
<1>3. 0..Len(s[r.per]) \subseteq 0..Len(t[r.per])
  BY <1>1, <1>2 DEF Extends
<1>4. \A x \in r.checks : x[2] \in DOMAIN t[x[1]]
  BY <1>1 DEF Good, Extends
<1>5. GoodNext(a, r, t)
  <2> SUFFICES ASSUME r.pc \in {"generate", "store"}
               PROVE  /\ r.op \in {"fix", "correct"} => a \in r.says
                      /\ r.per \in Days /\ r.cur # NoSummary =>
                            t[r.per][r.cur].says \subseteq r.says
                      /\ r.per \in Rollups =>
                            /\ Real(r.per, r.read, t)
                            /\ r.cur # NoSummary => NoOlder(t[r.per][r.cur].read, r.read)
    BY DEF GoodNext
  <2>1. r.cur # NoSummary => t[r.per][r.cur] = s[r.per][r.cur]
    <3>1. r.cur \in 0..Len(s[r.per])
      BY DEF Good
    <3>2. r.cur # NoSummary => r.cur \in DOMAIN s[r.per]
      BY <1>1, <1>2, <3>1 DEF NoSummary
    <3>3. QED
      BY <1>1, <3>2 DEF Extends
  <2>2. r.per \in Rollups => Real(r.per, r.read, t)
    BY <1>1 DEF Good, GoodNext, Real, Extends
  <2>3. QED
    BY <2>1, <2>2 DEF Good, GoodNext
<1>6. QED
  BY <1>3, <1>4, <1>5 DEF Good

LEMMA NewRowFollows ==
    ASSUME Inv, NEW a \in Actors, CommitStore(a)
    PROVE  /\ NewRow(a) \in SummaryRow
           /\ Follows(sums[run[a].per], NewRow(a))
           /\ NewRow(a).fix # Nobody => NewRow(a).fix \in NewRow(a).says
           /\ NewRow(a).sup = run[a].cur /\ NewRow(a).says = run[a].says
           /\ NewRow(a).read = run[a].read /\ NewRow(a).created = run[a].at
<1>1. run[a] \in Run /\ Good(a, run[a], sums) /\ run[a].pc = "store"
  BY InHand DEF CommitStore
<1>2. NewRow(a) \in SummaryRow
  BY <1>1 DEF NewRow, SummaryRow, Run
<1>3. /\ NewRow(a).sup = run[a].cur /\ NewRow(a).says = run[a].says
      /\ NewRow(a).read = run[a].read /\ NewRow(a).created = run[a].at
      /\ NewRow(a).fix = IF run[a].op \in {"fix", "correct"} THEN a ELSE Nobody
  BY DEF NewRow
<1>4. Follows(sums[run[a].per], NewRow(a))
  BY <1>1, <1>3 DEF Follows, Good, CommitStore, Superseded, SupersededIn
<1>5. NewRow(a).fix # Nobody => NewRow(a).fix \in NewRow(a).says
  BY <1>1, <1>3 DEF Good, GoodNext
<1>6. QED
  BY <1>2, <1>3, <1>4, <1>5

LEMMA CommitStoreKeeps ==
    ASSUME Inv, NEW a \in Actors, CommitStore(a)
    PROVE  Inv'
<1> DEFINE p == run[a].per
           h == sums[p]
           e == NewRow(a)
           g == Append(h, e)
<1>1. /\ run[a] \in Run /\ Good(a, run[a], sums) /\ run[a].pc = "store" /\ p \in Periods
  BY InHand DEF CommitStore
<1>2. /\ e \in SummaryRow /\ Follows(h, e)
      /\ e.fix # Nobody => e.fix \in e.says
      /\ e.sup = run[a].cur /\ e.says = run[a].says
      /\ e.read = run[a].read /\ e.created = run[a].at
  BY NewRowFollows
<1>3. h \in Seq(SummaryRow) /\ Backward(h) /\ Chain(h)
  BY <1>1 DEF Inv, Histories, GoodHistories
<1>4. sums' = [sums EXCEPT ![p] = g] /\ UNCHANGED <<captured, clock, failures, apart>>
  BY DEF CommitStore
<1> HIDE DEF e
<1>5. /\ g \in Seq(SummaryRow) /\ Len(h) \in Nat /\ DOMAIN h = 1..Len(h)
      /\ Len(g) = Len(h) + 1 /\ DOMAIN g = 1..(Len(h) + 1)
      /\ \A i \in DOMAIN h : g[i] = h[i]
      /\ g[Len(h) + 1] = e
  BY <1>2, <1>3, Appended
<1>6. Backward(g) /\ Chain(g)
  BY <1>2, <1>3, ChainGrows
<1>7. p \in Days => Keeps(g)
  <2>1. ASSUME p \in Days PROVE Keeps(h)
    BY <2>1 DEF Inv, GoodHistories
  <2>2. p \in Days /\ e.sup # NoSummary => h[e.sup].says \subseteq e.says
    BY <1>1, <1>2 DEF Good, GoodNext
  <2>3. QED
    BY <1>2, <1>3, <2>1, <2>2, KeepsGrows
<1>8. p \in Rollups => Forward(g)
  <2>1. ASSUME p \in Rollups PROVE Forward(h)
    BY <2>1 DEF Inv, GoodHistories
  <2>2. p \in Rollups /\ e.sup # NoSummary => NoOlder(h[e.sup].read, e.read)
    BY <1>1, <1>2 DEF Good, GoodNext
  <2>3. QED
    BY <1>2, <1>3, <2>1, <2>2, ForwardGrows
<1> HIDE DEF g
<1>9. sums' \in Histories /\ \A q \in Periods : sums'[q] = IF q = p THEN g ELSE sums[q]
  BY <1>1, <1>4, <1>5 DEF Inv, Histories
<1>10. Extends(sums, sums')
  <2>1. \A q \in Periods : Len(sums[q]) \in Nat
    BY VersionBound
  <2>2. QED
    BY <1>5, <1>9, <2>1 DEF Extends
<1>11. run[a].at \in 1..clock /\ \A q \in Periods : \A v \in DOMAIN sums[q] : sums[q][v].created # run[a].at
  BY <1>1 DEF Inv, Stamps
<1>12. GoodHistories(sums, clock)'
  <2>1. ASSUME NEW q \in Periods
        PROVE  /\ Backward(sums'[q]) /\ Chain(sums'[q])
               /\ \A u \in DOMAIN sums'[q] : sums'[q][u].created <= clock
               /\ \A u, v \in DOMAIN sums'[q] :
                     sums'[q][u].created = sums'[q][v].created => u = v
    <3>1. CASE q # p
      BY <1>9, <3>1 DEF Inv, GoodHistories
    <3>2. CASE q = p
      <4>1. \A u \in DOMAIN g : u = Len(h) + 1 \/ u \in DOMAIN h
        BY <1>5
      <4>2. \A u \in DOMAIN h : h[u].created <= clock
        BY <1>1 DEF Inv, GoodHistories
      <4>3. \A u, v \in DOMAIN h : h[u].created = h[v].created => u = v
        BY <1>1 DEF Inv, GoodHistories
      <4>4. run[a].at <= clock
        BY <1>11, BoundAssumption DEF Inv
      <4>5. \A u \in DOMAIN g : g[u].created <= clock
        BY <1>2, <1>5, <4>1, <4>2, <4>4
      <4>6. \A u, v \in DOMAIN g : g[u].created = g[v].created => u = v
        BY <1>1, <1>2, <1>5, <1>11, <4>1, <4>3
      <4>7. QED
        BY <1>6, <1>9, <3>2, <4>5, <4>6
    <3>3. QED
      BY <3>1, <3>2
  <2>2. \A d \in Days : Keeps(sums'[d])
    BY <1>7, <1>9 DEF Inv, GoodHistories, Periods
  <2>3. ASSUME NEW q \in Rollups
        PROVE  Forward(sums'[q]) /\ \A v \in DOMAIN sums'[q] : Real(q, sums'[q][v].read, sums')
    <3>1. q \in Periods /\ Forward(sums'[q])
      BY <1>8, <1>9 DEF Inv, GoodHistories, Periods
    <3>2. \A v \in DOMAIN sums'[q] : Real(q, sums'[q][v].read, sums)
      <4>1. \A v \in DOMAIN sums[q] : Real(q, sums[q][v].read, sums)
        BY DEF Inv, GoodHistories
      <4>2. q = p => Real(q, e.read, sums)
        BY <1>1, <1>2 DEF Good, GoodNext
      <4>3. \A u \in DOMAIN g : u = Len(h) + 1 \/ u \in DOMAIN h
        BY <1>5
      <4>4. QED
        BY <1>5, <1>9, <3>1, <4>1, <4>2, <4>3
    <3>3. SourcesOf[q] \subseteq Periods
      BY PeriodAssumption
    <3>4. QED
      BY <1>10, <3>1, <3>2, <3>3 DEF Real, Extends
  <2>4. clock' = clock
    BY <1>4
  <2>5. GoodHistories(sums', clock)
    BY <2>1, <2>2, <2>3 DEF GoodHistories
  <2>6. QED
    BY <2>4, <2>5
<1>13. PICK r : run' = [run EXCEPT ![a] = r] /\ r \in {IdleRun, [run[a] EXCEPT !.pc = "refresh"]}
  BY DEF CommitStore
<1>14. Good(a, r, sums') /\ r.pc # "store"
  <2>1. CASE r = IdleRun
    BY <2>1, IdleIsGood DEF IdleRun
  <2>2. CASE r = [run[a] EXCEPT !.pc = "refresh"]
    <3>1. /\ r \in Run /\ r.pc = "refresh" /\ r.op = run[a].op /\ r.per = run[a].per
          /\ r.checks = run[a].checks
      BY <1>1, <2>2 DEF Run
    <3>2. Good(a, r, sums)
      BY <1>1, <3>1 DEF Good, GoodNext
    <3>3. QED
      BY <1>9, <1>10, <3>1, <3>2, GoodGrows DEF Inv
  <2>3. QED
    BY <1>13, <2>1, <2>2
<1>15. \A b \in Actors : run'[b] = IF b = a THEN r ELSE run[b]
  BY <1>13 DEF Inv
<1>16. \A b \in Actors : Good(b, run[b], sums)'
  BY <1>9, <1>10, <1>14, <1>15, GoodGrows DEF Inv
<1>17. Stamps(run, sums, clock)'
  <2>1. ASSUME NEW b \in Actors, run'[b].pc = "store"
        PROVE  /\ b # a /\ run'[b] = run[b] /\ run[b].at \in 1..clock
               /\ \A q \in Periods : \A v \in DOMAIN sums'[q] : sums'[q][v].created # run[b].at
    <3>1. b # a /\ run'[b] = run[b]
      BY <1>14, <1>15, <2>1
    <3>2. run[b].at \in 1..clock /\ run[b].at # run[a].at
      BY <1>1, <2>1, <3>1 DEF Inv, Stamps
    <3>3. \A q \in Periods : \A v \in DOMAIN sums[q] : sums[q][v].created # run[b].at
      BY <2>1, <3>1 DEF Inv, Stamps
    <3>4. \A u \in DOMAIN g : u = Len(h) + 1 \/ u \in DOMAIN h
      BY <1>5
    <3>5. ASSUME NEW q \in Periods, NEW v \in DOMAIN sums'[q]
          PROVE  sums'[q][v].created # run[b].at
      <4>1. CASE q # p
        BY <1>9, <3>3, <3>5, <4>1
      <4>2. CASE q = p /\ v = Len(h) + 1
        BY <1>2, <1>5, <1>9, <3>2, <3>5, <4>2
      <4>3. CASE q = p /\ v \in DOMAIN h
        BY <1>5, <1>9, <3>3, <3>5, <4>3
      <4>4. QED
        BY <1>9, <3>4, <3>5, <4>1, <4>2, <4>3
    <3>6. QED
      BY <3>1, <3>2, <3>5
  <2>2. \A b, d \in Actors : run'[b].pc = "store" /\ run'[d].pc = "store"
                             /\ run'[b].at = run'[d].at => b = d
    BY <2>1 DEF Inv, Stamps
  <2>3. QED
    BY <1>4, <2>1, <2>2 DEF Stamps
<1>18. run' \in [Actors -> Run]
  BY <1>13, <1>14 DEF Inv, Good
<1>19. QED
  BY <1>4, <1>9, <1>12, <1>16, <1>17, <1>18 DEF Inv

----------------------------------------------------------------------------
(* The theorems.                                                           *)

LEMMA NextInv ==
    ASSUME Inv, [Next]_vars
    PROVE  Inv'
<1>1. CASE UNCHANGED vars
  BY <1>1 DEF vars, Inv
<1>2. CASE \E e \in Episodes : Capture(e)
  <2>1. UNCHANGED <<sums, run, clock, failures, apart>> /\ captured' \in SUBSET Episodes
    BY <1>2 DEF Capture, Inv
  <2>2. QED
    BY <2>1 DEF Inv
<1>3. CASE \E c \in Consolidators : ConsolidatorStep(c)
  <2>1. PICK c \in Consolidators : ConsolidatorStep(c)
    BY <1>3
  <2>2. CASE RunOver(c)
    <3>1. /\ c \in Actors /\ run' = [run EXCEPT ![c] = IdleRun]
          /\ UNCHANGED <<captured, sums, clock, apart>> /\ failures' \in 0..MaxFailures
      BY <2>2 DEF RunOver, Actors, Inv
    <3>2. QED
      BY <3>1, EndKeeps
  <2>3. QED
    BY <2>1, <2>2, DailyEpisodesKeeps, DailyCurrentKeeps, RollupDueKeeps,
       RollupCurrentKeeps, RollupStaleKeeps, RollupLoadKeeps, RefreshKeeps,
       NextRollupKeeps, FindContradictionsKeeps, FixContradictionKeeps
    DEF ConsolidatorStep
<1>4. CASE \E o \in Operators : Correct(o)
  BY <1>4, CorrectKeeps
<1>5. CASE \E a \in Actors : StoreStep(a)
  <2>1. PICK a \in Actors : StoreStep(a)
    BY <1>5
  <2>2. CASE CommitRefused(a)
    BY <2>2, FailedKeeps DEF CommitRefused, Inv
  <2>3. CASE CallFails(a)
    <3>1. failures' \in 0..MaxFailures
      BY <2>3, BoundAssumption DEF CallFails, Inv
    <3>2. QED
      BY <2>3, <3>1, FailedKeeps DEF CallFails
  <2>4. CASE Crash(a)
    <3>1. failures' \in 0..MaxFailures
      BY <2>4, BoundAssumption DEF Crash, Inv
    <3>2. QED
      BY <2>4, <3>1, EndKeeps DEF Crash
  <2>5. QED
    BY <2>1, <2>2, <2>3, <2>4, BeginStoreKeeps, CommitStoreKeeps DEF StoreStep
<1>6. QED
  BY <1>1, <1>2, <1>3, <1>4, <1>5 DEF Next

LEMMA Invariant == Spec => []Inv
BY InitInv, NextInv, PTL DEF Spec

\* Every variable keeps its type whatever the processes do: a run of RunDaily,
\* RunRollup or Correct supersedes a row that exists, and no period gets more
\* versions than there were storeSummary transactions.
THEOREM HistoriesTyped == Spec => []TypeOK
<1>1. Inv => TypeOK
  BY DEF Inv, TypeOK, Histories, Good
<1>2. QED
  BY <1>1, Invariant, PTL

\* A history that began once never forks, for any number of consolidations,
\* contradiction fixes and operators that race in storeSummary.
THEOREM NeverForks == Spec => []NoFork
<1>1. Inv => NoFork
  <2> SUFFICES ASSUME Inv, NEW p \in Periods, OneRoot(p), NEW u \in Current(p), NEW v \in Current(p)
               PROVE  u = v
    BY DEF NoFork
  <2>1. Chain(sums[p]) /\ Current(p) = CurrentIn(sums[p]) /\ Roots(p) = RootsIn(sums[p])
    BY DEF Inv, GoodHistories, Current, CurrentIn, Roots, RootsIn, Superseded, SupersededIn
  <2>2. QED
    BY <2>1 DEF Chain, BeganOnce, OneRoot
<1>2. QED
  BY <1>1, Invariant, PTL

\* A correction accepted by Correct is part of every later summary of its day.
THEOREM CorrectionsSurvive == Spec => []CorrectionKept
<1>1. Inv => CorrectionKept
  <2> SUFFICES ASSUME Inv, NEW d \in Days, OneRoot(d),
                      NEW u \in DOMAIN sums[d], NEW v \in Current(d), sums[d][u].fix # Nobody
               PROVE  sums[d][u].fix \in sums[d][v].says
    BY DEF CorrectionKept
  <2>1. Keeps(sums[d]) /\ Current(d) = CurrentIn(sums[d]) /\ Roots(d) = RootsIn(sums[d])
    BY DEF Inv, GoodHistories, Current, CurrentIn, Roots, RootsIn, Superseded, SupersededIn
  <2>2. QED
    BY <2>1 DEF Keeps, BeganOnce, OneRoot
<1>2. QED
  BY <1>1, Invariant, PTL

\* RunRollup never stores a rollup that read an older version of a source than
\* the rollup it supersedes, however many of them run at once.
THEOREM RollupsOnlyMoveForward == Spec => []RollupNeverRollsBack
<1>1. Inv => RollupNeverRollsBack
  BY DEF Inv, GoodHistories, Forward, NoOlder, RollupNeverRollsBack
<1>2. QED
  BY <1>1, Invariant, PTL

----------------------------------------------------------------------------
(* No day is missed: the inductive invariant behind RollupMissesNoDay.     *)

\* No two consolidations have overlapped, and nothing has failed.
Calm == apart /\ failures = 0

\* Consolidations follow each other; a corrected row is there already.
Solo ==
    /\ \A c, d \in Consolidators : run[c].pc # "idle" /\ run[d].pc # "idle" => c = d
    /\ \A c \in Consolidators : run[c].pc # "idle" => run[c].op # "correct"
    /\ \A o \in Operators : run[o].pc # "idle" =>
          /\ run[o].pc \in {"generate", "store"}
          /\ run[o].op = "correct" /\ run[o].cur # NoSummary

\* A period is begun once: nobody else begins one that a consolidation, with r in
\* hand, found empty.
Begins(r) ==
    r.pc \in {"load", "generate", "store"} /\ r.cur = NoSummary => sums[r.per] = <<>>

\* No operator has rewritten the rollup q.
Untouched(q) == \A v \in DOMAIN sums[q] : sums[q][v].fix \notin Operators

\* R has a version of every source of q that has any.
Covers(R, q) == \A p \in SourcesOf[q] : sums[p] # <<>> => \E x \in R : x[1] = p

\* What a consolidation, with r in hand, is about to store: it replaces the current
\* version, knows all sources there are, and is younger than every rollup.
Ready(r) ==
    /\ r.op = "daily" /\ r.pc \in {"current", "generate", "store"} => r.todo = <<>>
    /\ r.per \in Rollups /\ Untouched(r.per) =>
          /\ r.pc \in {"stale", "load", "generate", "store"} /\ r.cur # NoSummary =>
                r.cur \in Current(r.per)
          /\ r.pc \in {"generate", "store"} => Covers(r.read, r.per)
    /\ r.pc = "store" =>
          \A q \in Rollups : Untouched(q) =>
              \A v \in DOMAIN sums[q] : sums[q][v].created < r.at

\* A consolidation, with r in hand, will come to read p into q: it has just stored p,
\* or q is one of its jobs, or the one it is at.
Pays(r, p, q) ==
    \/ r.pc = "refresh" /\ r.per = p
    \/ r.pc # "idle" /\ \E i \in DOMAIN r.todo : r.todo[i] = q
    \/ /\ r.op = "rollup" /\ r.per = q
       /\ r.pc \in {"current", "stale", "load", "generate", "store"}

\* Version v of q is current, and knows nothing of p.
Misses(q, v, p) ==
    /\ Untouched(q) /\ v \in Current(q)
    /\ p \in SourcesOf[q] /\ sums[p] # <<>>
    /\ \A x \in sums[q][v].read : x[1] # p

\* Whatever a current rollup misses began after it, and somebody will read it.
Debts ==
    \A q \in Rollups : \A v \in Current(q), p \in SourcesOf[q] : Misses(q, v, p) =>
        /\ \E u \in Roots(p) : sums[p][u].created > sums[q][v].created
        /\ \E c \in Consolidators : Pays(run[c], p, q)

CalmInv ==
    Calm => /\ Solo /\ Debts
            /\ \A p \in Periods : BeganOnce(sums[p])
            /\ \A c \in Consolidators : Begins(run[c]) /\ Ready(run[c])

\* What has a row has a current one, and a first one.
LEMMA HasCurrent ==
    ASSUME Inv, NEW p \in Periods, sums[p] # <<>>
    PROVE  /\ Len(sums[p]) \in Current(p) /\ Len(sums[p]) \in Versions
           /\ 1 \in Roots(p)
<1>1. sums[p] \in Seq(SummaryRow) /\ Backward(sums[p])
  BY DEF Inv, Histories, GoodHistories
<1>2. Len(sums[p]) # 0 /\ Len(sums[p]) \in Nat /\ DOMAIN sums[p] = 1..Len(sums[p])
  BY <1>1
<1>3. Len(sums[p]) \in CurrentIn(sums[p]) /\ 1 \in RootsIn(sums[p])
  BY <1>1, <1>2, NewestIsCurrent, FirstIsRoot
<1>4. Len(sums[p]) \in Versions
  BY <1>2, VersionBound
<1>5. QED
  BY <1>3, <1>4 DEF Current, CurrentIn, Superseded, SupersededIn, Roots, RootsIn

\* Only one version is current.
LEMMA OneCurrent ==
    ASSUME Inv, NEW p \in Periods, BeganOnce(sums[p]), NEW u \in Current(p), NEW v \in Current(p)
    PROVE  u = v
<1>1. Chain(sums[p]) /\ Current(p) = CurrentIn(sums[p])
  BY DEF Inv, GoodHistories, Current, CurrentIn, Superseded, SupersededIn
<1>2. QED
  BY <1>1 DEF Chain

\* What a process has in hand is judged by the histories alone.
LEMMA SameHistories ==
    ASSUME UNCHANGED sums, NEW d, Begins(run'[d]), Ready(run'[d])
    PROVE  Begins(run[d])' /\ Ready(run[d])'
<1>1. Begins(run[d])'
  BY DEF Begins
<1>2. /\ \A q : Untouched(q)' <=> Untouched(q)
      /\ \A q : Current(q)' = Current(q)
      /\ \A q : Covers(run[d].read, q)' <=> Covers(run'[d].read, q)
  BY DEF Untouched, Current, Superseded, Covers
<1>3. Ready(run[d])'
  BY <1>2 DEF Ready
<1>4. QED
  BY <1>1, <1>3

\* While nothing is stored a consolidation may take r in hand if it is fit to be
\* stored and pays for what was its to pay.
LEMMA CalmQuiet ==
    ASSUME CalmInv, Calm, Calm', UNCHANGED sums,
           Inv, NEW c \in Consolidators, NEW r, run' = [run EXCEPT ![c] = r],
           \A d \in Consolidators : d # c => run[d].pc = "idle",
           r.pc # "idle" => r.op # "correct",
           Begins(r), Ready(r),
           \A q \in Rollups : \A v \in Current(q), p \in SourcesOf[q] :
              Misses(q, v, p) /\ Pays(run[c], p, q) => Pays(r, p, q)
    PROVE  CalmInv'
<1>1. /\ run'[c] = r
      /\ \A d \in Consolidators : d # c => run'[d] = run[d]
      /\ \A o \in Operators : run'[o] = run[o]
  BY ActorAssumption DEF Actors, Inv
<1>2. Solo'
  BY <1>1 DEF CalmInv, Solo
<1>3. \A p \in Periods : BeganOnce(sums'[p])
  BY DEF CalmInv, BeganOnce, RootsIn
<1>4. \A d \in Consolidators : Begins(run'[d]) /\ Ready(run'[d])
  BY <1>1 DEF CalmInv
<1>5. \A d \in Consolidators : Begins(run[d])' /\ Ready(run[d])'
  BY <1>4, SameHistories
<1>6. Debts'
  <2> SUFFICES ASSUME NEW q \in Rollups, NEW v \in Current(q), NEW p \in SourcesOf[q],
                      Misses(q, v, p)
               PROVE  /\ \E u \in Roots(p) : sums[p][u].created > sums[q][v].created
                      /\ \E d \in Consolidators : Pays(run'[d], p, q)
    BY DEF Debts, Misses, Current, Superseded, Untouched, Roots, Pays
  <2>1. /\ \E u \in Roots(p) : sums[p][u].created > sums[q][v].created
        /\ \E d \in Consolidators : Pays(run[d], p, q)
    BY DEF CalmInv, Debts
  <2>2. \A d \in Consolidators : d # c => ~Pays(run[d], p, q)
    BY DEF Pays
  <2>3. Pays(r, p, q)
    BY <2>1, <2>2
  <2>4. QED
    BY <1>1, <2>1, <2>3
<1>7. QED
  BY <1>2, <1>3, <1>5, <1>6 DEF CalmInv

\* Nor does it matter what an operator has in hand.
LEMMA CalmOperator ==
    ASSUME CalmInv, Calm, Calm', UNCHANGED sums,
           Inv, NEW o \in Operators, NEW r, run' = [run EXCEPT ![o] = r],
           r.pc # "idle" => /\ r.pc \in {"generate", "store"}
                            /\ r.op = "correct" /\ r.cur # NoSummary
    PROVE  CalmInv'
<1>1. /\ run'[o] = r
      /\ \A d \in Operators : d # o => run'[d] = run[d]
      /\ \A c \in Consolidators : run'[c] = run[c]
  BY ActorAssumption DEF Actors, Inv
<1>2. Solo'
  BY <1>1 DEF CalmInv, Solo
<1>3. /\ \A p \in Periods : BeganOnce(sums'[p])
      /\ \A c \in Consolidators : Begins(run'[c]) /\ Ready(run'[c])
  BY <1>1 DEF CalmInv, BeganOnce, RootsIn
<1>4. Debts'
  BY <1>1 DEF CalmInv, Debts, Misses, Current, Superseded, Untouched, Roots, Pays
<1>5. QED
  <2>1. \A c \in Consolidators : Begins(run[c])' /\ Ready(run[c])'
    BY <1>3, SameHistories
  <2>2. QED
    BY <1>2, <1>3, <1>4, <2>1 DEF CalmInv

\* At work, a consolidation is alone.
LEMMA Alone ==
    ASSUME CalmInv, Calm, NEW c \in Consolidators, run[c].pc # "idle"
    PROVE  \A d \in Consolidators : d # c => run[d].pc = "idle"
BY DEF CalmInv, Solo

----------------------------------------------------------------------------
(* The steps of a consolidation that store nothing.                        *)

\* A consolidation that begins is alone, or was not apart.
LEMMA BeginsAlone ==
    ASSUME Calm', UNCHANGED failures, NEW c \in Consolidators,
           apart' = (apart /\ \A b \in Consolidators : run[b].pc = "idle"), apart \in BOOLEAN
    PROVE  Calm /\ \A b \in Consolidators : run[b].pc = "idle"
BY DEF Calm

LEMMA DailyEpisodesCalm ==
    ASSUME Inv, CalmInv, Calm', NEW c \in Consolidators, DailyEpisodes(c)
    PROVE  CalmInv'
<1>1. Calm /\ \A b \in Consolidators : run[b].pc = "idle"
  BY BeginsAlone DEF DailyEpisodes, Inv
<1>2. PICK d \in Days : run' = [run EXCEPT ![c] = [IdleRun EXCEPT
          !.pc = "current", !.op = "daily", !.per = d, !.day = d,
          !.says = {e \in captured : DayOf[e] = d}, !.check = TRUE]]
  BY DEF DailyEpisodes
<1>3. PICK r : /\ run' = [run EXCEPT ![c] = r]
               /\ r.pc = "current" /\ r.op = "daily" /\ r.todo = <<>>
  <2> DEFINE r == [IdleRun EXCEPT !.pc = "current", !.op = "daily", !.per = d, !.day = d,
                     !.says = {e \in captured : DayOf[e] = d}, !.check = TRUE]
  <2>1. c \in Actors
    BY DEF Actors
  <2>2. IdleRun \in Run /\ IdleRun.todo = <<>>
    BY <2>1, IdleIsGood DEF IdleRun
  <2>3. r.pc = "current" /\ r.op = "daily" /\ r.todo = <<>>
    BY <2>2 DEF Run
  <2> HIDE DEF r
  <2>4. QED
    BY <1>2, <2>3 DEF r
<1>4. Begins(r) /\ Ready(r)
  BY <1>3 DEF Begins, Ready
<1>5. \A p, q : ~Pays(run[c], p, q)
  BY <1>1 DEF Pays
<1>6. UNCHANGED sums
  BY DEF DailyEpisodes
<1>7. QED
  BY <1>1, <1>3, <1>4, <1>5, <1>6, CalmQuiet

LEMMA RollupDueCalm ==
    ASSUME Inv, CalmInv, Calm', NEW c \in Consolidators, RollupDue(c)
    PROVE  CalmInv'
<1>1. Calm /\ \A b \in Consolidators : run[b].pc = "idle"
  BY BeginsAlone DEF RollupDue, Inv
<1>2. PICK q \in Rollups : run' = [run EXCEPT ![c] =
          [IdleRun EXCEPT !.pc = "current", !.op = "rollup", !.per = q]]
  BY DEF RollupDue
<1>3. PICK r : /\ run' = [run EXCEPT ![c] = r]
               /\ r.pc = "current" /\ r.op = "rollup"
  <2> DEFINE r == [IdleRun EXCEPT !.pc = "current", !.op = "rollup", !.per = q]
  <2>1. c \in Actors
    BY DEF Actors
  <2>2. IdleRun \in Run
    BY <2>1, IdleIsGood
  <2>3. r.pc = "current" /\ r.op = "rollup"
    BY <2>2 DEF Run
  <2> HIDE DEF r
  <2>4. QED
    BY <1>2, <2>3 DEF r
<1>4. Begins(r) /\ Ready(r)
  BY <1>3 DEF Begins, Ready
<1>5. \A p, q1 : ~Pays(run[c], p, q1)
  BY <1>1 DEF Pays
<1>6. UNCHANGED sums
  BY DEF RollupDue
<1>7. QED
  BY <1>1, <1>3, <1>4, <1>5, <1>6, CalmQuiet

\* Where currentSummaryID finds nothing there is nothing.
LEMMA FoundCurrent ==
    ASSUME Inv, NEW p \in Periods, NEW v \in 0..Len(sums[p]), currentSummaryIDIs(p, v)
    PROVE  IF v = NoSummary THEN sums[p] = <<>> ELSE v \in Current(p)
<1>1. \A u \in Current(p) : u # NoSummary
  BY RowTyped DEF Current
<1>2. QED
  BY <1>1, HasCurrent DEF currentSummaryIDIs

LEMMA DailyCurrentCalm ==
    ASSUME Inv, CalmInv, Calm, Calm', NEW c \in Consolidators, DailyCurrent(c)
    PROVE  CalmInv'
<1> DEFINE p == run[c].per
<1>1. c \in Actors /\ run[c].pc = "current" /\ run[c].op = "daily"
  BY DEF DailyCurrent, Actors
<1>2. run[c] \in Run /\ p \in Days /\ p \in Periods /\ p \notin Rollups
  BY <1>1, InHand, PeriodAssumption DEF Good
<1>3. run[c].todo = <<>>
  BY <1>1 DEF CalmInv, Ready
<1>4. PICK v \in 0..Len(sums[p]) : /\ currentSummaryIDIs(p, v)
          /\ run' = [run EXCEPT ![c].pc = "generate", ![c].cur = v,
                    ![c].says = @ \cup IF v = NoSummary THEN {} ELSE sums[p][v].says]
  BY DEF DailyCurrent
<1>5. PICK r : /\ run' = [run EXCEPT ![c] = r]
               /\ r.pc = "generate" /\ r.op = "daily" /\ r.todo = <<>> /\ r.per = p /\ r.cur = v
  <2> DEFINE r == [run[c] EXCEPT !.pc = "generate", !.cur = v,
                    !.says = @ \cup IF v = NoSummary THEN {} ELSE sums[p][v].says]
  <2>1. run' = [run EXCEPT ![c] = r]
    BY <1>1, <1>2, <1>4 DEF Inv, Run
  <2>2. r.pc = "generate" /\ r.op = "daily" /\ r.todo = <<>> /\ r.per = p /\ r.cur = v
    BY <1>1, <1>2, <1>3 DEF Run
  <2>3. QED
    BY <2>1, <2>2
<1>6. Begins(r)
  BY <1>2, <1>4, <1>5, FoundCurrent DEF Begins
<1>7. Ready(r)
  BY <1>2, <1>5 DEF Ready
<1>8. \A p1, q : ~Pays(run[c], p1, q)
  BY <1>1, <1>3 DEF Pays
<1>9. UNCHANGED sums
  BY DEF DailyCurrent
<1>10. \A d \in Consolidators : d # c => run[d].pc = "idle"
  BY <1>1, Alone
<1>11. QED
  BY <1>5, <1>6, <1>7, <1>8, <1>9, <1>10, CalmQuiet

LEMMA RollupCurrentCalm ==
    ASSUME Inv, CalmInv, Calm, Calm', NEW c \in Consolidators, RollupCurrent(c)
    PROVE  CalmInv'
<1> DEFINE p == run[c].per
<1>1. c \in Actors /\ run[c].pc = "current" /\ run[c].op = "rollup"
  BY DEF RollupCurrent, Actors
<1>2. run[c] \in Run /\ p \in Periods
  BY <1>1, InHand
<1>3. PICK v \in 0..Len(sums[p]) : /\ currentSummaryIDIs(p, v)
          /\ run' = [run EXCEPT ![c].pc = IF v = NoSummary THEN "load" ELSE "stale",
                             ![c].cur = v]
  BY DEF RollupCurrent
<1>4. PICK r : /\ run' = [run EXCEPT ![c] = r]
               /\ r.pc = (IF v = NoSummary THEN "load" ELSE "stale")
               /\ r.op = "rollup" /\ r.todo = run[c].todo /\ r.per = p /\ r.cur = v
  <2> DEFINE r == [run[c] EXCEPT !.pc = IF v = NoSummary THEN "load" ELSE "stale", !.cur = v]
  <2>1. run' = [run EXCEPT ![c] = r]
    BY <1>1, <1>2, <1>3 DEF Inv, Run
  <2>2. /\ r.pc = (IF v = NoSummary THEN "load" ELSE "stale")
        /\ r.op = "rollup" /\ r.todo = run[c].todo /\ r.per = p /\ r.cur = v
    BY <1>1, <1>2 DEF Run
  <2>3. QED
    BY <2>1, <2>2
<1>5. IF v = NoSummary THEN sums[p] = <<>> ELSE v \in Current(p)
  BY <1>2, <1>3, FoundCurrent
<1>6. Begins(r) /\ Ready(r)
  BY <1>4, <1>5 DEF Begins, Ready
<1>7. \A p1, q : Pays(run[c], p1, q) => Pays(r, p1, q)
  BY <1>1, <1>4 DEF Pays
<1>8. UNCHANGED sums
  BY DEF RollupCurrent
<1>9. \A d \in Consolidators : d # c => run[d].pc = "idle"
  BY <1>1, Alone
<1>10. QED
  BY <1>4, <1>6, <1>7, <1>8, <1>9, CalmQuiet

\* A rollup that misses a source is stale: the source began after it.
LEMMA RollupStaleCalm ==
    ASSUME Inv, CalmInv, Calm, Calm', NEW c \in Consolidators, RollupStale(c)
    PROVE  CalmInv'
<1> DEFINE q == run[c].per
           w == run[c].cur
           stale == rollupIsStale(q, w)
<1>1. c \in Actors /\ run[c].pc = "stale"
  BY DEF RollupStale, Actors
<1>2. /\ run[c] \in Run /\ q \in Periods /\ q \in Rollups /\ run[c].op = "rollup"
      /\ w # NoSummary
  BY <1>1, InHand DEF Good
<1>3. PICK r : /\ run' = [run EXCEPT ![c] = r]
               /\ r.pc = (IF stale THEN "load" ELSE "next")
               /\ r.op = "rollup" /\ r.todo = run[c].todo /\ r.per = q /\ r.cur = w
  <2> DEFINE r == [run[c] EXCEPT !.pc = IF stale THEN "load" ELSE "next"]
  <2>1. run' = [run EXCEPT ![c] = r]
    BY <1>1, <1>2 DEF RollupStale, Inv, Run
  <2> HIDE DEF stale
  <2>2. /\ r.pc = (IF stale THEN "load" ELSE "next")
        /\ r.op = "rollup" /\ r.todo = run[c].todo /\ r.per = q /\ r.cur = w
    BY <1>1, <1>2 DEF Run
  <2>3. QED
    BY <2>1, <2>2
<1>4. Untouched(q) => w \in Current(q)
  BY <1>1, <1>2 DEF CalmInv, Ready
<1>5. ASSUME NEW v \in Current(q), NEW p \in SourcesOf[q], Misses(q, v, p)
      PROVE  stale
  <2>1. w \in Current(q) /\ BeganOnce(sums[q])
    BY <1>2, <1>4, <1>5 DEF Misses, CalmInv
  <2>2. v = w
    BY <1>2, <1>5, <2>1, OneCurrent
  <2>3. \E u \in Roots(p) : sums[p][u].created > sums[q][v].created
    BY <1>2, <1>5 DEF CalmInv, Debts
  <2>4. QED
    BY <1>5, <2>2, <2>3 DEF rollupIsStale
<1> HIDE DEF stale
<1>6. Begins(r)
  BY <1>2, <1>3 DEF Begins
<1>7. Ready(r)
  BY <1>2, <1>3, <1>4 DEF Ready
<1>8. \A q1 \in Rollups : \A v \in Current(q1), p \in SourcesOf[q1] :
          Misses(q1, v, p) /\ Pays(run[c], p, q1) => Pays(r, p, q1)
  <2> SUFFICES ASSUME NEW q1 \in Rollups, NEW v \in Current(q1), NEW p \in SourcesOf[q1],
                      Misses(q1, v, p), Pays(run[c], p, q1)
               PROVE  Pays(r, p, q1)
    OBVIOUS
  <2>1. CASE \E i \in DOMAIN run[c].todo : run[c].todo[i] = q1
    BY <1>3, <2>1 DEF Pays
  <2>2. CASE q1 = q
    BY <1>3, <1>5, <2>2 DEF Pays
  <2>3. QED
    BY <1>1, <2>1, <2>2 DEF Pays
<1>9. UNCHANGED sums
  BY DEF RollupStale
<1>10. \A d \in Consolidators : d # c => run[d].pc = "idle"
  BY <1>1, Alone
<1>11. QED
  BY <1>3, <1>6, <1>7, <1>8, <1>9, <1>10, CalmQuiet

\* loadSummaries finds a version of every source that has any.
LEMMA LoadCovers ==
    ASSUME Inv, NEW q \in Rollups
    PROVE  Covers(loadSummaries(q), q)
<1> SUFFICES ASSUME NEW p \in SourcesOf[q], sums[p] # <<>>
             PROVE  \E x \in loadSummaries(q) : x[1] = p
  BY DEF Covers
<1>1. p \in Periods
  BY PeriodAssumption
<1>2. <<p, Len(sums[p])>> \in loadSummaries(q)
  BY <1>1, HasCurrent DEF loadSummaries
<1>3. QED
  BY <1>2

LEMMA RollupLoadCalm ==
    ASSUME Inv, CalmInv, Calm, Calm', NEW c \in Consolidators, RollupLoad(c)
    PROVE  CalmInv'
<1> DEFINE q == run[c].per
           R == loadSummaries(q)
           S == UNION {sums[x[1]][x[2]].says : x \in R}
<1>1. c \in Actors /\ run[c].pc = "load"
  BY DEF RollupLoad, Actors
<1>2. run[c] \in Run /\ q \in Rollups /\ run[c].op = "rollup"
  BY <1>1, InHand DEF Good
<1>3. Covers(R, q)
  BY <1>2, LoadCovers
<1>4. PICK r : /\ run' = [run EXCEPT ![c] = r]
               /\ r.pc = (IF R = {} THEN "next" ELSE "generate")
               /\ r.op = "rollup" /\ r.todo = run[c].todo /\ r.per = q
               /\ r.cur = run[c].cur /\ r.read = R
  <2> DEFINE r == [run[c] EXCEPT !.pc = IF R = {} THEN "next" ELSE "generate",
                                 !.read = R, !.says = S]
  <2> HIDE DEF R, S
  <2>1. run' = [run EXCEPT ![c] = r]
    BY <1>1, <1>2 DEF RollupLoad, Inv, Run, R, S
  <2>2. /\ r.pc = (IF R = {} THEN "next" ELSE "generate")
        /\ r.op = "rollup" /\ r.todo = run[c].todo /\ r.per = q
        /\ r.cur = run[c].cur /\ r.read = R
    BY <1>1, <1>2 DEF Run
  <2>3. QED
    BY <2>1, <2>2
<1> HIDE DEF R
<1>5. Begins(r)
  BY <1>1, <1>4 DEF CalmInv, Begins
<1>6. Ready(r)
  BY <1>1, <1>3, <1>4 DEF CalmInv, Ready
<1>7. \A q1 \in Rollups : \A v \in Current(q1), p \in SourcesOf[q1] :
          Misses(q1, v, p) /\ Pays(run[c], p, q1) => Pays(r, p, q1)
  <2> SUFFICES ASSUME NEW q1 \in Rollups, NEW v \in Current(q1), NEW p \in SourcesOf[q1],
                      Misses(q1, v, p), Pays(run[c], p, q1)
               PROVE  Pays(r, p, q1)
    OBVIOUS
  <2>1. CASE \E i \in DOMAIN run[c].todo : run[c].todo[i] = q1
    BY <1>4, <2>1 DEF Pays
  <2>2. CASE q1 = q
    <3>1. R # {}
      BY <1>3, <2>2 DEF Misses, Covers
    <3>2. QED
      BY <1>4, <2>2, <3>1 DEF Pays
  <2>3. QED
    BY <1>1, <2>1, <2>2 DEF Pays
<1>8. UNCHANGED sums
  BY DEF RollupLoad
<1>9. \A d \in Consolidators : d # c => run[d].pc = "idle"
  BY <1>1, Alone
<1>10. QED
  BY <1>4, <1>5, <1>6, <1>7, <1>8, <1>9, CalmQuiet

\* refreshRollupsCovering finds the rollup of a period, if there is one.
LEMMA RefreshFinds ==
    ASSUME Inv, NEW q \in Rollups, NEW p \in SourcesOf[q], Current(q) # {}
    PROVE  /\ rollupsCovering(p) \in Seq(Rollups)
           /\ 1 \in DOMAIN rollupsCovering(p) /\ rollupsCovering(p)[1] = q
<1>1. p \in Periods /\ q \in Periods
  BY PeriodAssumption DEF Periods
<1>2. q = CHOOSE r \in Rollups : p \in SourcesOf[r]
  BY <1>1, PeriodAssumption
<1>3. rollupsCovering(p) = [i \in 1..Cardinality(Roots(q)) |-> q]
  BY <1>2 DEF rollupsCovering
<1>4. 1 \in Roots(q)
  <2>1. sums[q] # <<>>
    BY DEF Current
  <2>2. QED
    BY <1>1, <2>1, HasCurrent
<1>5. IsFiniteSet(Roots(q))
  <2>1. Len(sums[q]) \in Nat /\ DOMAIN sums[q] = 1..Len(sums[q])
    BY <1>1, VersionBound
  <2>2. IsFiniteSet(DOMAIN sums[q]) /\ Roots(q) \in SUBSET (DOMAIN sums[q])
    BY <2>1, FS_Interval DEF Roots
  <2>3. QED
    BY <2>2, FS_Subset
<1>6. Cardinality(Roots(q)) \in Nat /\ Cardinality(Roots(q)) # 0
  BY <1>4, <1>5, FS_CardinalityType, FS_EmptySet
<1>7. QED
  BY <1>1, <1>3, <1>6, CoveringTyped

LEMMA RefreshCalm ==
    ASSUME Inv, CalmInv, Calm, Calm', NEW c \in Consolidators, Refresh(c)
    PROVE  CalmInv'
<1> DEFINE jobs == rollupsCovering(run[c].per)
           todo == run[c].todo
<1>1. c \in Actors /\ run[c].pc = "refresh"
  BY DEF Refresh, Actors
<1>2. run[c] \in Run /\ run[c].per \in Periods /\ todo \in Seq(Rollups)
  BY <1>1, InHand DEF Run
<1>3. PICK r : /\ run' = [run EXCEPT ![c] = r]
               /\ r.pc = "next" /\ r.op = run[c].op /\ r.todo = jobs \o todo
  <2> DEFINE more == jobs \o todo
             r == [run[c] EXCEPT !.pc = "next", !.todo = more]
  <2>1. run' = [run EXCEPT ![c] = r]
    BY <1>1, <1>2 DEF Refresh, Inv, Run
  <2> HIDE DEF more
  <2>2. r.pc = "next" /\ r.op = run[c].op /\ r.todo = more
    BY <1>2 DEF Run
  <2>3. QED
    BY <2>1, <2>2 DEF more
<1>4. jobs \in Seq(Rollups)
  BY <1>2, CoveringTyped
<1>5. Begins(r) /\ Ready(r)
  BY <1>3 DEF Begins, Ready
<1>6. \A q \in Rollups : \A v \in Current(q), p \in SourcesOf[q] :
          Misses(q, v, p) /\ Pays(run[c], p, q) => Pays(r, p, q)
  <2> SUFFICES ASSUME NEW q \in Rollups, NEW v \in Current(q), NEW p \in SourcesOf[q],
                      Misses(q, v, p), Pays(run[c], p, q)
               PROVE  Pays(r, p, q)
    OBVIOUS
  <2>1. CASE run[c].per = p
    <3>1. 1 \in DOMAIN jobs /\ jobs[1] = q
      BY <2>1, RefreshFinds
    <3> HIDE DEF jobs
    <3>2. 1 \in DOMAIN (jobs \o todo) /\ (jobs \o todo)[1] = q
      BY <1>2, <1>4, <3>1
    <3>3. QED
      BY <1>3, <3>2 DEF Pays
  <2>2. CASE \E i \in DOMAIN todo : todo[i] = q
    <3>1. PICK i \in DOMAIN todo : todo[i] = q
      BY <2>2
    <3> HIDE DEF jobs, todo
    <3>2. Len(jobs) + i \in DOMAIN (jobs \o todo) /\ (jobs \o todo)[Len(jobs) + i] = q
      BY <1>2, <1>4, <3>1
    <3>3. QED
      BY <1>3, <3>2 DEF Pays
  <2>3. QED
    BY <1>1, <2>1, <2>2 DEF Pays
<1>7. UNCHANGED sums
  BY DEF Refresh
<1>8. \A d \in Consolidators : d # c => run[d].pc = "idle"
  BY <1>1, Alone
<1>9. r.op # "correct"
  BY <1>1, <1>3 DEF CalmInv, Solo
<1>10. QED
  BY <1>3, <1>5, <1>6, <1>7, <1>8, <1>9, CalmQuiet

LEMMA NextRollupCalm ==
    ASSUME Inv, CalmInv, Calm, Calm', NEW c \in Consolidators, NextRollup(c)
    PROVE  CalmInv'
<1> DEFINE todo == run[c].todo
<1>1. c \in Actors /\ run[c].pc = "next" /\ todo # <<>>
  BY DEF NextRollup, Actors
<1>2. run[c] \in Run /\ todo \in Seq(Rollups)
  BY <1>1, InHand DEF Run
<1>3. PICK r : /\ run' = [run EXCEPT ![c] = r]
               /\ r.pc = "current" /\ r.op = "rollup"
               /\ r.per = Head(todo) /\ r.todo = Tail(todo)
  <2> DEFINE q == Head(todo)
             rest == Tail(todo)
             r == [run[c] EXCEPT !.pc = "current", !.op = "rollup", !.per = q,
                     !.todo = rest, !.cur = NoSummary, !.says = {}, !.read = {}]
  <2>1. run' = [run EXCEPT ![c] = r]
    BY <1>1, <1>2 DEF NextRollup, Inv, Run
  <2> HIDE DEF q, rest
  <2>2. r.pc = "current" /\ r.op = "rollup" /\ r.per = q /\ r.todo = rest
    BY <1>2 DEF Run
  <2>3. QED
    BY <2>1, <2>2 DEF q, rest
<1>4. Begins(r) /\ Ready(r)
  BY <1>3 DEF Begins, Ready
<1>5. ASSUME NEW p, NEW q, Pays(run[c], p, q)
      PROVE  Pays(r, p, q)
  <2>1. PICK i \in DOMAIN todo : todo[i] = q
    BY <1>1, <1>5 DEF Pays
  <2>2. CASE i = 1
    BY <1>2, <1>3, <2>1, <2>2 DEF Pays
  <2>3. CASE i # 1
    <3> HIDE DEF todo
    <3>1. i - 1 \in DOMAIN Tail(todo) /\ Tail(todo)[i - 1] = q
      BY <1>1, <1>2, <2>1, <2>3
    <3>2. QED
      BY <1>3, <3>1 DEF Pays
  <2>4. QED
    BY <2>2, <2>3
<1>6. UNCHANGED sums
  BY DEF NextRollup
<1>7. \A d \in Consolidators : d # c => run[d].pc = "idle"
  BY <1>1, Alone
<1>8. QED
  BY <1>3, <1>4, <1>5, <1>6, <1>7, CalmQuiet

LEMMA FindContradictionsCalm ==
    ASSUME Inv, CalmInv, Calm, Calm', NEW c \in Consolidators, FindContradictions(c)
    PROVE  CalmInv'
<1>1. c \in Actors /\ run[c].pc = "next"
  BY DEF FindContradictions, Actors
<1>2. run[c] \in Run
  BY <1>1, InHand
<1>3. PICK B : run' = [run EXCEPT ![c].check = FALSE, ![c].checks = B]
  BY DEF FindContradictions
<1>4. PICK r : /\ run' = [run EXCEPT ![c] = r]
               /\ r.pc = "next" /\ r.op = run[c].op /\ r.todo = run[c].todo
  <2> DEFINE r == [run[c] EXCEPT !.check = FALSE, !.checks = B]
  <2>1. run' = [run EXCEPT ![c] = r]
    BY <1>1, <1>2, <1>3 DEF Inv, Run
  <2>2. r.pc = "next" /\ r.op = run[c].op /\ r.todo = run[c].todo
    BY <1>1, <1>2 DEF Run
  <2>3. QED
    BY <2>1, <2>2
<1>5. Begins(r) /\ Ready(r)
  BY <1>4 DEF Begins, Ready
<1>6. \A p, q : Pays(run[c], p, q) => Pays(r, p, q)
  BY <1>1, <1>4 DEF Pays
<1>7. UNCHANGED sums
  BY DEF FindContradictions
<1>8. \A d \in Consolidators : d # c => run[d].pc = "idle"
  BY <1>1, Alone
<1>9. r.op # "correct"
  BY <1>1, <1>4 DEF CalmInv, Solo
<1>10. QED
  BY <1>4, <1>5, <1>6, <1>7, <1>8, <1>9, CalmQuiet

\* With its jobs done a consolidation owes nothing.
LEMMA NothingOwed ==
    ASSUME CalmInv, Calm, NEW c \in Consolidators, run[c].pc = "next", run[c].todo = <<>>
    PROVE  /\ \A p, q : ~Pays(run[c], p, q)
           /\ \A q \in Rollups : \A v \in Current(q), p \in SourcesOf[q] : ~Misses(q, v, p)
<1>1. \A p, q : ~Pays(run[c], p, q)
  BY DEF Pays
<1>2. \A d \in Consolidators : d # c => run[d].pc = "idle"
  BY Alone
<1>3. \A d \in Consolidators : \A p, q : ~Pays(run[d], p, q)
  BY <1>1, <1>2 DEF Pays
<1>4. QED
  BY <1>1, <1>3 DEF CalmInv, Debts

\* A contradiction fix takes over what the rollup has read, which is all there is.
LEMMA FixContradictionCalm ==
    ASSUME Inv, CalmInv, Calm, Calm', NEW c \in Consolidators, FixContradiction(c)
    PROVE  CalmInv'
<1>1. c \in Actors /\ run[c].pc = "next" /\ run[c].todo = <<>>
  BY DEF FixContradiction, Actors
<1>2. run[c] \in Run /\ Good(c, run[c], sums)
  BY <1>1, InHand
<1>3. PICK x \in run[c].checks :
          run' = [run EXCEPT ![c] =
                    [(IF Superseded(x[1], x[2]) THEN run[c]
                      ELSE CorrectFrom(c, "fix", x[1], x[2])) EXCEPT !.checks = @ \ {x}]]
  BY DEF FixContradiction
<1> DEFINE q == x[1]
           v == x[2]
<1>4. q \in Periods /\ v \in DOMAIN sums[q]
  BY <1>2 DEF Good, Run
<1>5. \A d \in Consolidators : d # c => run[d].pc = "idle"
  BY <1>1, Alone
<1>6. UNCHANGED sums
  BY DEF FixContradiction
<1>7. \A p, q1 : ~Pays(run[c], p, q1)
  BY <1>1, NothingOwed
<1>8. CASE Superseded(q, v)
  <2> DEFINE r == [run[c] EXCEPT !.checks = @ \ {x}]
  <2>1. run' = [run EXCEPT ![c] = r]
    BY <1>3, <1>8
  <2>2. r.pc = "next" /\ r.op = run[c].op
    BY <1>1, <1>2 DEF Run
  <2> HIDE DEF r
  <2>3. Begins(r) /\ Ready(r)
    BY <2>2 DEF Begins, Ready
  <2>4. r.op # "correct"
    BY <1>1, <2>2 DEF CalmInv, Solo
  <2>5. QED
    BY <1>5, <1>6, <1>7, <2>1, <2>3, <2>4, CalmQuiet
<1>9. CASE ~Superseded(q, v)
  <2> DEFINE b == CorrectFrom(c, "fix", q, v)
             r == [b EXCEPT !.checks = @ \ {x}]
  <2>1. run' = [run EXCEPT ![c] = r]
    BY <1>3, <1>9
  <2>2. b \in Run
    BY <1>1, <1>4, CorrectFromGood DEF Good
  <2>3. /\ b.pc = "generate" /\ b.op = "fix" /\ b.per = q /\ b.cur = v
        /\ b.read = sums[q][v].read
    BY <1>2 DEF CorrectFrom, Run
  <2> HIDE DEF b
  <2>4. /\ r.pc = "generate" /\ r.op = "fix" /\ r.per = q /\ r.cur = v
        /\ r.read = sums[q][v].read
    BY <2>2, <2>3 DEF Run
  <2> HIDE DEF r
  <2>5. v # NoSummary /\ v \in Current(q)
    BY <1>4, <1>9, RowTyped DEF Current
  <2>6. q \in Rollups /\ Untouched(q) => Covers(r.read, q)
    BY <1>1, <2>4, <2>5, NothingOwed DEF Covers, Misses
  <2>7. Begins(r)
    BY <2>4, <2>5 DEF Begins
  <2>8. Ready(r)
    BY <2>4, <2>5, <2>6 DEF Ready
  <2>9. r.op # "correct"
    BY <2>4
  <2>10. QED
    BY <1>5, <1>6, <1>7, <2>1, <2>7, <2>8, <2>9, CalmQuiet
<1>10. QED
  BY <1>8, <1>9

\* A consolidation that is idle has nothing in hand.
LEMMA IdleCalm ==
    ASSUME Inv
    PROVE  IdleRun.pc = "idle" /\ Begins(IdleRun) /\ Ready(IdleRun)
<1>1. IdleRun.pc = "idle"
  BY DEF IdleRun
<1>2. QED
  BY <1>1 DEF Begins, Ready

LEMMA RunOverCalm ==
    ASSUME Inv, CalmInv, Calm, Calm', NEW c \in Consolidators, RunOver(c)
    PROVE  CalmInv'
<1>1. run[c].pc = "next" /\ run[c].todo = <<>>
  BY DEF RunOver
<1>2. \A d \in Consolidators : d # c => run[d].pc = "idle"
  BY <1>1, Alone
<1>3. run' = [run EXCEPT ![c] = IdleRun] /\ UNCHANGED sums
  BY DEF RunOver
<1>4. QED
  BY <1>1, <1>2, <1>3, NothingOwed, IdleCalm, CalmQuiet

----------------------------------------------------------------------------
(* Operators, and transactions.                                            *)

LEMMA CorrectCalm ==
    ASSUME Inv, CalmInv, Calm, Calm', NEW o \in Operators, Correct(o)
    PROVE  CalmInv'
<1>1. o \in Actors
  BY DEF Actors
<1>2. PICK p \in Periods : \E v \in DOMAIN sums[p] :
          run' = [run EXCEPT ![o] = CorrectFrom(o, "correct", p, v)]
  BY DEF Correct
<1>3. PICK v \in DOMAIN sums[p] : run' = [run EXCEPT ![o] = CorrectFrom(o, "correct", p, v)]
  BY <1>2
<1> DEFINE r == CorrectFrom(o, "correct", p, v)
<1>4. r.pc = "generate" /\ r.op = "correct" /\ r.cur = v
  BY <1>1, InHand DEF CorrectFrom, Run
<1>5. v # NoSummary
  BY RowTyped
<1>6. UNCHANGED sums
  BY DEF Correct
<1> HIDE DEF r
<1>7. QED
  BY <1>3, <1>4, <1>5, <1>6, CalmOperator DEF r

\* A transaction that begins is younger than every row.
LEMMA BeginStoreCalm ==
    ASSUME Inv, CalmInv, Calm, Calm', NEW a \in Actors, BeginStore(a)
    PROVE  CalmInv'
<1>1. run[a] \in Run /\ run[a].pc = "generate"
  BY InHand DEF BeginStore
<1>2. PICK r : /\ run' = [run EXCEPT ![a] = r]
               /\ r.pc = "store" /\ r.at = clock + 1 /\ r.op = run[a].op
               /\ r.per = run[a].per /\ r.cur = run[a].cur
               /\ r.read = run[a].read /\ r.todo = run[a].todo
  <2> DEFINE r == [run[a] EXCEPT !.pc = "store", !.at = clock + 1]
  <2>1. run' = [run EXCEPT ![a] = r]
    BY <1>1 DEF BeginStore, Inv, Run
  <2>2. /\ r.pc = "store" /\ r.at = clock + 1 /\ r.op = run[a].op
        /\ r.per = run[a].per /\ r.cur = run[a].cur
        /\ r.read = run[a].read /\ r.todo = run[a].todo
    BY <1>1 DEF Run
  <2>3. QED
    BY <2>1, <2>2
<1>3. UNCHANGED sums
  BY DEF BeginStore
<1>4. CASE a \in Operators
  <2>1. r.op = "correct" /\ r.cur # NoSummary
    BY <1>1, <1>2, <1>4 DEF CalmInv, Solo
  <2>2. QED
    BY <1>2, <1>3, <1>4, <2>1, CalmOperator
<1>5. CASE a \in Consolidators
  <2>1. \A d \in Consolidators : d # a => run[d].pc = "idle"
    BY <1>1, <1>5, Alone
  <2>2. r.op # "correct"
    BY <1>1, <1>2, <1>5 DEF CalmInv, Solo
  <2>3. Begins(r)
    BY <1>1, <1>2, <1>5 DEF CalmInv, Begins
  <2>4. \A q \in Rollups : \A v \in DOMAIN sums[q] : sums[q][v].created < clock + 1
    <3> SUFFICES ASSUME NEW q \in Rollups, NEW v \in DOMAIN sums[q]
                 PROVE  sums[q][v].created < clock + 1
      OBVIOUS
    <3>1. q \in Periods
      BY DEF Periods
    <3>2. sums[q][v].created \in Int /\ sums[q][v].created <= clock /\ clock \in Int
      BY <3>1, RowTyped DEF SummaryRow, Inv, GoodHistories
    <3>3. QED
      BY <3>2
  <2>5. Ready(r)
    BY <1>1, <1>2, <1>5, <2>4 DEF CalmInv, Ready
  <2>6. \A p, q : Pays(run[a], p, q) => Pays(r, p, q)
    BY <1>1, <1>2 DEF Pays
  <2>7. QED
    BY <1>2, <1>3, <1>5, <2>1, <2>2, <2>3, <2>5, <2>6, CalmQuiet
<1>6. QED
  BY <1>4, <1>5 DEF Actors

\* A refused row would have replaced a version that somebody else, an operator, has
\* replaced already.
LEMMA CommitRefusedCalm ==
    ASSUME Inv, CalmInv, Calm, Calm', NEW a \in Actors, CommitRefused(a)
    PROVE  CalmInv'
<1>1. /\ run[a] \in Run /\ run[a].pc = "store" /\ run[a].cur # NoSummary
      /\ Superseded(run[a].per, run[a].cur) /\ UNCHANGED sums
  BY InHand DEF CommitRefused
<1>2. PICK r : /\ run' = [run EXCEPT ![a] = r]
               /\ run[a].op \in {"daily", "correct"} => r = IdleRun
               /\ run[a].op \notin {"daily", "correct"} =>
                     r.pc = "next" /\ r.op = run[a].op /\ r.todo = run[a].todo
  <2>1. CASE run[a].op \in {"daily", "correct"}
    BY <2>1 DEF CommitRefused, Failed
  <2>2. CASE run[a].op \notin {"daily", "correct"}
    <3> DEFINE r == [run[a] EXCEPT !.pc = "next"]
    <3>1. run' = [run EXCEPT ![a] = r]
      BY <2>2 DEF CommitRefused, Failed
    <3>2. r.pc = "next" /\ r.op = run[a].op /\ r.todo = run[a].todo
      BY <1>1 DEF Run
    <3>3. QED
      BY <2>2, <3>1, <3>2
  <2>3. QED
    BY <2>1, <2>2
<1>3. CASE a \in Operators
  <2>1. r = IdleRun
    BY <1>1, <1>2, <1>3 DEF CalmInv, Solo
  <2>2. QED
    BY <1>1, <1>2, <1>3, <2>1, IdleCalm, CalmOperator
<1>4. CASE a \in Consolidators
  <2>1. \A d \in Consolidators : d # a => run[d].pc = "idle"
    BY <1>1, <1>4, Alone
  <2>2. run[a].op # "correct"
    BY <1>1, <1>4 DEF CalmInv, Solo
  <2>3. Ready(run[a])
    BY <1>4 DEF CalmInv
  <2>4. CASE run[a].op = "daily"
    <3>1. run[a].todo = <<>>
      BY <1>1, <2>3, <2>4 DEF Ready
    <3>2. \A p, q : ~Pays(run[a], p, q)
      BY <1>1, <2>4, <3>1 DEF Pays
    <3>3. r = IdleRun
      BY <1>2, <2>4
    <3>4. QED
      BY <1>1, <1>2, <1>4, <2>1, <3>2, <3>3, IdleCalm, CalmQuiet
  <2>5. CASE run[a].op # "daily"
    <3>1. r.pc = "next" /\ r.op = run[a].op /\ r.todo = run[a].todo
      BY <1>2, <2>2, <2>5
    <3>2. Begins(r) /\ Ready(r)
      BY <3>1 DEF Begins, Ready
    <3>3. \A q \in Rollups : \A v \in Current(q), p \in SourcesOf[q] :
              Misses(q, v, p) /\ Pays(run[a], p, q) => Pays(r, p, q)
      <4> SUFFICES ASSUME NEW q \in Rollups, NEW v \in Current(q), NEW p \in SourcesOf[q],
                          Misses(q, v, p), Pays(run[a], p, q)
                   PROVE  Pays(r, p, q)
        OBVIOUS
      <4>1. CASE \E i \in DOMAIN run[a].todo : run[a].todo[i] = q
        BY <3>1, <4>1 DEF Pays
      <4>2. CASE q = run[a].per
        <5>1. run[a].cur \in Current(q)
          BY <1>1, <2>3, <4>2 DEF Misses, Ready
        <5>2. QED
          BY <1>1, <4>2, <5>1 DEF Current
      <4>3. QED
        BY <1>1, <4>1, <4>2 DEF Pays
    <3>4. QED
      BY <1>1, <1>2, <1>4, <2>1, <2>2, <3>1, <3>2, <3>3, CalmQuiet
  <2>6. QED
    BY <2>4, <2>5
<1>5. QED
  BY <1>3, <1>4 DEF Actors

\* What a transaction that commits makes of the history of its period: its row is
\* the current one, and the first only where there was none.
LEMMA Stored ==
    ASSUME Inv, CalmInv, Calm, NEW a \in Actors, CommitStore(a),
           NEW p, p = run[a].per, NEW n, n = Len(sums[p]) + 1
    PROVE  /\ p \in Periods /\ n \notin DOMAIN sums[p]
           /\ \A q \in Periods : q # p => sums'[q] = sums[q]
           /\ (\A i : i \in DOMAIN sums'[p] <=> i \in DOMAIN sums[p] \/ i = n)
           /\ \A i \in DOMAIN sums[p] : sums'[p][i] = sums[p][i]
           /\ sums'[p][n] = NewRow(a)
           /\ sums'[p] # <<>> /\ (run[a].cur = NoSummary <=> sums[p] = <<>>)
           /\ BeganOnce(sums'[p]) /\ CurrentIn(sums'[p]) = {n}
<1> DEFINE h == sums[p]
           e == NewRow(a)
           g == Append(h, e)
<1>1. /\ run[a] \in Run /\ Good(a, run[a], sums) /\ run[a].pc = "store" /\ p \in Periods
  BY InHand DEF CommitStore
<1>2. e \in SummaryRow /\ Follows(h, e) /\ e.sup = run[a].cur
  BY NewRowFollows
<1>3. h \in Seq(SummaryRow) /\ Backward(h) /\ Chain(h) /\ BeganOnce(h)
  BY <1>1 DEF Inv, Histories, GoodHistories, CalmInv
<1>4. sums'[p] = g /\ \A q \in Periods : q # p => sums'[q] = sums[q]
  BY <1>1 DEF CommitStore, Inv, Histories
<1> HIDE DEF e
<1>5. /\ g \in Seq(SummaryRow) /\ Len(h) \in Nat /\ DOMAIN h = 1..Len(h)
      /\ Len(g) = Len(h) + 1 /\ DOMAIN g = 1..(Len(h) + 1)
      /\ \A i \in DOMAIN h : g[i] = h[i]
      /\ g[Len(h) + 1] = e
  BY <1>2, <1>3, Appended
<1>6. run[a].cur = NoSummary => h = <<>>
  <2>1. ASSUME run[a].cur = NoSummary PROVE a \in Consolidators
    BY <1>1, <2>1 DEF CalmInv, Solo, Actors
  <2>2. QED
    BY <1>1, <2>1 DEF CalmInv, Begins
<1>7. h = <<>> => run[a].cur = NoSummary
  BY <1>1 DEF Good, NoSummary
<1>8. Backward(g)
  BY <1>2, <1>3, ChainGrows
<1> HIDE DEF g
<1>9. BeganOnce(g)
  <2>1. CASE e.sup = NoSummary
    <3>1. DOMAIN g = {1}
      BY <1>2, <1>5, <1>6, <2>1
    <3>2. QED
      BY <3>1 DEF BeganOnce, RootsIn
  <2>2. CASE e.sup # NoSummary
    <3>1. RootsIn(g) \subseteq RootsIn(h)
      BY <1>5, <2>2 DEF RootsIn
    <3>2. QED
      BY <1>3, <3>1 DEF BeganOnce
  <2>3. QED
    BY <2>1, <2>2
<1>10. CurrentIn(g) \subseteq {n}
  BY <1>2, <1>3, <1>9, Replaces DEF g
<1>11. n \in CurrentIn(g)
  BY <1>5, <1>8, NewestIsCurrent
<1>12. DOMAIN g = DOMAIN h \cup {n} /\ n \notin DOMAIN h /\ g # <<>>
  BY <1>5
<1>13. QED
  BY <1>1, <1>4, <1>5, <1>6, <1>7, <1>9, <1>10, <1>11, <1>12 DEF e

\* The same in terms of the queries.
LEMMA StoredQueries ==
    ASSUME Inv, CalmInv, Calm, NEW a \in Actors, CommitStore(a),
           NEW p, p = run[a].per, NEW n, n = Len(sums[p]) + 1
    PROVE  /\ (\A v : v \in Current(p)' <=> v = n)
           /\ \A q \in Periods : q # p => Current(q)' = Current(q) /\ (Untouched(q)' <=> Untouched(q))
           /\ Untouched(p)' => Untouched(p) /\ NewRow(a).fix \notin Operators
           /\ \A q \in Periods : Roots(q) \subseteq Roots(q)'
           /\ run[a].cur = NoSummary => n \in Roots(p)'
           /\ \A q \in Periods : \A v \in DOMAIN sums[q] : sums'[q][v] = sums[q][v]
           /\ \A q \in Periods : BeganOnce(sums'[q])
<1>a. /\ p \in Periods /\ n \notin DOMAIN sums[p]
      /\ \A q \in Periods : q # p => sums'[q] = sums[q]
      /\ BeganOnce(sums'[p]) /\ CurrentIn(sums'[p]) = {n}
  BY Stored
<1>b. (\A i : i \in DOMAIN sums'[p] <=> i \in DOMAIN sums[p] \/ i = n)
  BY Stored
<1>c. ASSUME NEW i \in DOMAIN sums[p] PROVE sums'[p][i] = sums[p][i]
  BY Stored
<1>d. sums'[p][n] = NewRow(a)
  BY Stored
<1>1. /\ p \in Periods /\ n \notin DOMAIN sums[p]
      /\ \A q \in Periods : q # p => sums'[q] = sums[q]
      /\ (\A i : i \in DOMAIN sums'[p] <=> i \in DOMAIN sums[p] \/ i = n)
      /\ \A i \in DOMAIN sums[p] : sums'[p][i] = sums[p][i]
      /\ sums'[p][n] = NewRow(a)
      /\ BeganOnce(sums'[p]) /\ CurrentIn(sums'[p]) = {n}
  BY <1>a, <1>b, <1>c, <1>d
<1>2. (\A v : v \in Current(p)' <=> v = n)
  BY <1>1 DEF Current, Superseded, CurrentIn, SupersededIn
<1>3. \A q \in Periods : q # p => Current(q)' = Current(q) /\ (Untouched(q)' <=> Untouched(q))
  BY <1>1 DEF Current, Superseded, Untouched
<1>4. Untouched(p)' => Untouched(p) /\ NewRow(a).fix \notin Operators
  BY <1>1 DEF Untouched
<1>5. \A q \in Periods : \A v \in DOMAIN sums[q] : v \in DOMAIN sums'[q] /\ sums'[q][v] = sums[q][v]
  BY <1>1
<1>6. \A q \in Periods : Roots(q) \subseteq Roots(q)'
  BY <1>5 DEF Roots
<1>7. run[a].cur = NoSummary => n \in Roots(p)'
  BY <1>1 DEF Roots, NewRow
<1>8. \A q \in Periods : BeganOnce(sums'[q])
  BY <1>1 DEF CalmInv
<1>9. QED
  BY <1>2, <1>3, <1>4, <1>5, <1>6, <1>7, <1>8

\* An operator rewrites a rollup, which is then the operator's own, or a day that
\* has a summary.
LEMMA CommitByOperator ==
    ASSUME Inv, CalmInv, Calm, Calm', NEW o \in Operators, CommitStore(o)
    PROVE  CalmInv'
<1>1. PICK p : p = run[o].per
  OBVIOUS
<1>2. PICK n : n = Len(sums[p]) + 1
  OBVIOUS
<1>3. /\ o \in Actors /\ run[o].pc = "store" /\ run[o].op = "correct" /\ run[o].cur # NoSummary
  BY DEF CommitStore, Actors, CalmInv, Solo
<1>4. /\ run'[o] = IdleRun
      /\ \A d \in Operators : d # o => run'[d] = run[d]
      /\ \A c \in Consolidators : run'[c] = run[c]
  BY <1>3, ActorAssumption DEF CommitStore, Actors, Inv
<1>5. /\ p \in Periods /\ \A q \in Periods : q # p => sums'[q] = sums[q]
      /\ sums'[p] # <<>> /\ sums[p] # <<>>
  BY <1>1, <1>2, <1>3, Stored
<1>6. /\ \A q \in Periods : q # p => Current(q)' = Current(q) /\ (Untouched(q)' <=> Untouched(q))
      /\ \A q \in Periods : Roots(q) \subseteq Roots(q)'
      /\ \A q \in Periods : \A v \in DOMAIN sums[q] : sums'[q][v] = sums[q][v]
      /\ \A q \in Periods : BeganOnce(sums'[q])
      /\ Untouched(p)' => NewRow(o).fix \notin Operators
  BY <1>1, <1>2, <1>3, StoredQueries
<1>7. ~Untouched(p)'
  BY <1>3, <1>6 DEF NewRow
<1>8. \A q \in Periods : sums'[q] # <<>> <=> sums[q] # <<>>
  BY <1>5
<1>9. Solo'
  BY <1>4, IdleCalm DEF CalmInv, Solo
<1>10. ASSUME NEW c \in Consolidators PROVE Begins(run[c])' /\ Ready(run[c])'
  <2>1. /\ run'[c] = run[c] /\ run[c].per \in Periods /\ Begins(run[c]) /\ Ready(run[c])
    BY <1>4, InHand DEF Actors, CalmInv
  <2>2. Begins(run[c])'
    BY <1>5, <2>1 DEF Begins
  <2>3. \A q \in Rollups : Untouched(q)' => Untouched(q) /\ q \in Periods /\ sums'[q] = sums[q]
    BY <1>5, <1>6, <1>7 DEF Periods
  <2>5. ASSUME run'[c].per \in Rollups, Untouched(run[c].per)'
        PROVE  /\ Untouched(run[c].per)
               /\ Current(run[c].per)' = Current(run[c].per)
               /\ Covers(run[c].read, run[c].per) => Covers(run[c].read, run[c].per)'
    <3>1. PICK q \in Rollups : q = run[c].per /\ q = run'[c].per
      BY <2>1, <2>5
    <3>2. Untouched(q)' /\ q \in Periods
      BY <2>5, <3>1 DEF Untouched, Periods
    <3>3. Untouched(q) /\ Current(q)' = Current(q)
      BY <1>6, <1>7, <3>2
    <3>4. Current(run[c].per)' = Current(q)'
      BY <3>1 DEF Current, Superseded
    <3>5. SourcesOf[q] \subseteq Periods
      BY PeriodAssumption
    <3>6. Covers(run[c].read, run[c].per) => Covers(run[c].read, run[c].per)'
      BY <1>8, <2>1, <3>1, <3>5 DEF Covers
    <3>7. QED
      BY <3>1, <3>3, <3>4, <3>6
  <2>6. Ready(run[c])'
    BY <2>1, <2>3, <2>5 DEF Ready
  <2>7. QED
    BY <2>2, <2>6
<1>11. Debts'
  <2> SUFFICES ASSUME NEW q \in Rollups, NEW v \in Current(q)', NEW m \in SourcesOf[q],
                      Misses(q, v, m)'
               PROVE  /\ \E u \in Roots(m)' : sums'[m][u].created > sums'[q][v].created
                      /\ \E c \in Consolidators : Pays(run'[c], m, q)
    BY DEF Debts, Pays
  <2>1. q \in Periods /\ m \in Periods
    BY PeriodAssumption DEF Periods
  <2>2. q # p
    BY <1>7 DEF Misses
  <2>3. v \in Current(q) /\ Untouched(q) /\ sums'[q] = sums[q] /\ sums[m] # <<>>
    BY <1>5, <1>6, <1>8, <2>1, <2>2 DEF Misses
  <2>4. Misses(q, v, m)
    BY <2>3 DEF Misses
  <2>5. /\ \E u \in Roots(m) : sums[m][u].created > sums[q][v].created
        /\ \E c \in Consolidators : Pays(run[c], m, q)
    BY <2>3, <2>4 DEF CalmInv, Debts
  <2>6. \A u \in Roots(m) : u \in Roots(m)' /\ sums'[m][u] = sums[m][u]
    BY <1>6, <2>1 DEF Roots
  <2>7. QED
    BY <1>4, <2>3, <2>5, <2>6
<1>12. QED
  BY <1>6, <1>9, <1>10, <1>11 DEF CalmInv

\* A consolidation stores a rollup that has read all its sources, or a source that it
\* will now read into its rollup.
LEMMA CommitByConsolidator ==
    ASSUME Inv, CalmInv, Calm, Calm', NEW c \in Consolidators, CommitStore(c)
    PROVE  CalmInv'
<1>1. PICK p : p = run[c].per
  OBVIOUS
<1>2. PICK n : n = Len(sums[p]) + 1
  OBVIOUS
<1>3. c \in Actors /\ run[c] \in Run /\ run[c].pc = "store" /\ run[c].op # "correct"
  BY InHand DEF CommitStore, Actors, CalmInv, Solo
<1>4. PICK r : /\ run' = [run EXCEPT ![c] = r]
               /\ r.pc = "refresh" /\ r.op = run[c].op /\ r.per = p /\ r.todo = run[c].todo
  <2> DEFINE r == [run[c] EXCEPT !.pc = "refresh"]
  <2>1. run' = [run EXCEPT ![c] = r]
    BY <1>3 DEF CommitStore
  <2>2. r.pc = "refresh" /\ r.op = run[c].op /\ r.per = p /\ r.todo = run[c].todo
    BY <1>1, <1>3 DEF Run
  <2>3. QED
    BY <2>1, <2>2
<1>5. /\ run'[c] = r
      /\ \A d \in Consolidators : d # c => run'[d] = run[d] /\ run[d].pc = "idle"
      /\ \A o \in Operators : run'[o] = run[o]
  BY <1>3, <1>4, Alone, ActorAssumption DEF Actors, Inv
<1>6. /\ p \in Periods /\ \A q \in Periods : q # p => sums'[q] = sums[q]
      /\ sums'[p][n] = NewRow(c)
      /\ run[c].cur = NoSummary <=> sums[p] = <<>>
  BY <1>1, <1>2, <1>3, Stored
<1>a. /\ (\A v : v \in Current(p)' <=> v = n)
      /\ \A q \in Periods : q # p => Current(q)' = Current(q) /\ (Untouched(q)' <=> Untouched(q))
      /\ Untouched(p)' => Untouched(p)
      /\ run[c].cur = NoSummary => n \in Roots(p)'
  BY <1>1, <1>2, <1>3, StoredQueries
<1>b. /\ \A q \in Periods : Roots(q) \subseteq Roots(q)'
      /\ \A q \in Periods : \A v \in DOMAIN sums[q] : sums'[q][v] = sums[q][v]
      /\ \A q \in Periods : BeganOnce(sums'[q])
  BY <1>1, <1>2, <1>3, StoredQueries
<1>8. NewRow(c).read = run[c].read /\ NewRow(c).created = run[c].at
  BY DEF NewRow
<1>9. Solo'
  BY <1>3, <1>4, <1>5 DEF CalmInv, Solo
<1>10. \A d \in Consolidators : run'[d].pc \in {"idle", "refresh"}
  BY <1>4, <1>5
<1>11. \A d \in Consolidators : Begins(run[d])' /\ Ready(run[d])'
  BY <1>10 DEF Begins, Ready
<1>12. Ready(run[c])
  BY DEF CalmInv
<1>13. Debts'
  <2> SUFFICES ASSUME NEW q \in Rollups, NEW v \in Current(q)', NEW m \in SourcesOf[q],
                      Misses(q, v, m)'
               PROVE  /\ \E u \in Roots(m)' : sums'[m][u].created > sums'[q][v].created
                      /\ Pays(r, m, q)
    BY <1>5 DEF Debts, Pays
  <2>1. q \in Periods /\ m \in Periods /\ m # q
    BY PeriodAssumption DEF Periods
  <2>2. q # p
    <3> SUFFICES ASSUME q = p PROVE FALSE
      OBVIOUS
    <3>1. Untouched(p) /\ v = n
      BY <1>a DEF Misses
    <3>2. Covers(run[c].read, p)
      BY <1>1, <1>3, <1>12, <3>1 DEF Ready
    <3>3. sums[m] # <<>>
      BY <1>6, <2>1 DEF Misses
    <3>4. \E x \in sums'[q][v].read : x[1] = m
      BY <1>6, <1>8, <3>1, <3>2, <3>3 DEF Covers
    <3>5. QED
      BY <3>4 DEF Misses
  <2>3. v \in Current(q) /\ Untouched(q) /\ sums'[q] = sums[q] /\ v \in DOMAIN sums[q]
    BY <1>6, <1>a, <1>b, <2>1, <2>2 DEF Misses, Current
  <2>4. ASSUME sums[m] # <<>>
        PROVE  /\ \E u \in Roots(m)' : sums'[m][u].created > sums'[q][v].created
               /\ Pays(run[c], m, q)
    <3>1. Misses(q, v, m)
      BY <2>3, <2>4 DEF Misses
    <3>2. /\ \E u \in Roots(m) : sums[m][u].created > sums[q][v].created
          /\ \E d \in Consolidators : Pays(run[d], m, q)
      BY <2>3, <3>1 DEF CalmInv, Debts
    <3>3. \A u \in Roots(m) : u \in Roots(m)' /\ sums'[m][u] = sums[m][u]
      BY <1>b, <2>1 DEF Roots
    <3>4. \A d \in Consolidators : d # c => ~Pays(run[d], m, q)
      BY <1>5 DEF Pays
    <3>5. QED
      BY <2>3, <3>2, <3>3, <3>4
  <2>5. CASE m = p
    <3>1. Pays(r, m, q)
      BY <1>4, <2>5 DEF Pays
    <3>2. CASE sums[p] # <<>>
      BY <2>4, <2>5, <3>1, <3>2
    <3>3. CASE sums[p] = <<>>
      <4>1. n \in Roots(m)' /\ sums'[m][n].created = run[c].at
        BY <1>6, <1>a, <1>b, <1>8, <2>5, <3>3
      <4>2. sums[q][v].created < run[c].at
        BY <1>3, <1>12, <2>3 DEF Ready
      <4>3. sums[q][v].created \in Int /\ run[c].at \in Int
        BY <1>3, <2>1, <2>3, RowTyped DEF SummaryRow, Run
      <4>4. QED
        BY <2>3, <3>1, <4>1, <4>2, <4>3
    <3>4. QED
      BY <3>2, <3>3
  <2>6. CASE m # p
    <3>1. sums[m] # <<>>
      BY <1>6, <2>1, <2>6 DEF Misses
    <3>2. \E i \in DOMAIN run[c].todo : run[c].todo[i] = q
      BY <1>1, <1>3, <2>2, <2>4, <3>1 DEF Pays
    <3>3. Pays(r, m, q)
      BY <1>4, <3>2 DEF Pays
    <3>4. QED
      BY <2>4, <3>1, <3>3
  <2>7. QED
    BY <2>5, <2>6
<1>14. QED
  BY <1>a, <1>b, <1>9, <1>11, <1>13 DEF CalmInv

----------------------------------------------------------------------------
(* No day is missed.                                                       *)

\* At the start a rollup has read every source that has a summary.
LEMMA CalmInit ==
    ASSUME Init
    PROVE  CalmInv
<1> USE PeriodAssumption
<1>1. Inv
  BY InitInv
<1>2. \A a \in Actors : run[a] = IdleRun
  BY DEF Init
<1>3. \A a \in Actors : run[a].pc = "idle"
  BY <1>1, <1>2, IdleCalm
<1>4. Solo
  BY <1>3 DEF Solo, Actors
<1>5. \A c \in Consolidators : Begins(run[c]) /\ Ready(run[c])
  BY <1>1, <1>2, IdleCalm DEF Actors
<1>6. \A p \in Periods : SeedRow(p) \in SummaryRow
  BY BoundAssumption DEF SeedRow, SummaryRow, Versions, Periods, NoSummary
<1>7. \A p \in Periods :
          /\ sums[p] = IF p \in SeedPeriods THEN <<SeedRow(p)>> ELSE <<>>
          /\ DOMAIN sums[p] = IF p \in SeedPeriods THEN {1} ELSE {}
          /\ p \in SeedPeriods => sums[p][1] = SeedRow(p)
  BY <1>6 DEF Init
<1>8. \A p \in Periods : BeganOnce(sums[p])
  BY <1>7 DEF BeganOnce, RootsIn
<1>9. Debts
  <2> SUFFICES ASSUME NEW q \in Rollups, NEW v \in Current(q), NEW p \in SourcesOf[q],
                      Misses(q, v, p)
               PROVE  FALSE
    BY DEF Debts
  <2>1. q \in Periods /\ p \in Periods /\ q \notin Days
    BY DEF Periods
  <2>2. v = 1 /\ q \in SeedPeriods
    <3>1. v \in DOMAIN sums[q]
      BY DEF Current
    <3>2. DOMAIN sums[q] = IF q \in SeedPeriods THEN {1} ELSE {}
      BY <1>7, <2>1
    <3> HIDE PeriodAssumption
    <3>3. QED
      BY <3>1, <3>2
  <2>3. sums[q][v] = SeedRow(q)
    BY <1>7, <2>1, <2>2
  <2>4. sums[q][v].read = (SourcesOf[q] \cap SeedPeriods) \X {1}
    BY <2>1, <2>3 DEF SeedRow
  <2>5. p \in SeedPeriods
    BY <1>7, <2>1 DEF Misses
  <2>6. <<p, 1>> \in sums[q][v].read
    BY <2>4, <2>5
  <2>7. QED
    BY <2>6 DEF Misses
<1>10. QED
  BY <1>4, <1>5, <1>8, <1>9 DEF CalmInv

LEMMA CalmNext ==
    ASSUME Inv, CalmInv, [Next]_vars
    PROVE  CalmInv'
<1> SUFFICES ASSUME Calm' PROVE CalmInv'
  BY DEF CalmInv
<1>1. ASSUME UNCHANGED <<sums, run, failures, apart>> PROVE CalmInv'
  <2>1. Calm
    BY <1>1 DEF Calm
  <2>2. Solo' /\ Debts'
    BY <1>1, <2>1 DEF CalmInv, Solo, Debts, Misses, Pays, Untouched, Current, Superseded, Roots
  <2>3. \A c \in Consolidators : Begins(run'[c]) /\ Ready(run'[c])
    BY <1>1, <2>1 DEF CalmInv
  <2>4. \A c \in Consolidators : Begins(run[c])' /\ Ready(run[c])'
    BY <1>1, <2>3, SameHistories
  <2>5. QED
    BY <1>1, <2>1, <2>2, <2>4 DEF CalmInv
<1>2. CASE \E e \in Episodes : Capture(e)
  BY <1>1, <1>2 DEF Capture
<1>3. CASE \E c \in Consolidators : ConsolidatorStep(c)
  <2>1. PICK c \in Consolidators : ConsolidatorStep(c)
    BY <1>3
  <2>2. CASE DailyEpisodes(c) \/ RollupDue(c)
    BY <2>2, DailyEpisodesCalm, RollupDueCalm
  <2>3. ASSUME UNCHANGED <<failures, apart>> PROVE Calm
    BY <2>3 DEF Calm
  <2>4. CASE DailyCurrent(c)
    BY <2>3, <2>4, DailyCurrentCalm DEF DailyCurrent
  <2>5. CASE RollupCurrent(c)
    BY <2>3, <2>5, RollupCurrentCalm DEF RollupCurrent
  <2>6. CASE RollupStale(c)
    BY <2>3, <2>6, RollupStaleCalm DEF RollupStale
  <2>7. CASE RollupLoad(c)
    BY <2>3, <2>7, RollupLoadCalm DEF RollupLoad
  <2>8. CASE Refresh(c)
    BY <2>3, <2>8, RefreshCalm DEF Refresh
  <2>9. CASE NextRollup(c)
    BY <2>3, <2>9, NextRollupCalm DEF NextRollup
  <2>10. CASE FindContradictions(c)
    BY <2>3, <2>10, FindContradictionsCalm DEF FindContradictions
  <2>11. CASE FixContradiction(c)
    BY <2>3, <2>11, FixContradictionCalm DEF FixContradiction
  <2>12. CASE RunOver(c)
    BY <2>3, <2>12, RunOverCalm DEF RunOver
  <2>13. QED
    BY <2>1, <2>2, <2>4, <2>5, <2>6, <2>7, <2>8, <2>9, <2>10, <2>11, <2>12
    DEF ConsolidatorStep
<1>4. CASE \E o \in Operators : Correct(o)
  <2>1. PICK o \in Operators : Correct(o)
    BY <1>4
  <2>2. Calm
    BY <2>1 DEF Correct, Calm
  <2>3. QED
    BY <2>1, <2>2, CorrectCalm
<1>5. CASE \E a \in Actors : StoreStep(a)
  <2>1. PICK a \in Actors : StoreStep(a)
    BY <1>5
  <2>2. ~CallFails(a) /\ ~Crash(a)
    <3>1. failures \in Nat
      BY BoundAssumption DEF Inv
    <3>2. failures' # failures + 1
      BY <3>1 DEF Calm
    <3>3. QED
      BY <3>2 DEF CallFails, Crash
  <2>3. CASE BeginStore(a)
    <3>1. Calm
      BY <2>3 DEF BeginStore, Calm
    <3>2. QED
      BY <2>3, <3>1, BeginStoreCalm
  <2>4. CASE CommitRefused(a)
    <3>1. Calm
      BY <2>4 DEF CommitRefused, Calm
    <3>2. QED
      BY <2>4, <3>1, CommitRefusedCalm
  <2>5. CASE CommitStore(a)
    <3>1. Calm
      BY <2>5 DEF CommitStore, Calm
    <3>2. QED
      BY <2>5, <3>1, CommitByOperator, CommitByConsolidator DEF Actors
  <2>6. QED
    BY <2>1, <2>2, <2>3, <2>4, <2>5 DEF StoreStep
<1>6. CASE UNCHANGED vars
  BY <1>1, <1>6 DEF vars
<1>7. QED
  BY <1>2, <1>3, <1>4, <1>5, <1>6 DEF Next

\* As long as consolidations follow each other and nothing fails, a rollup that no
\* operator has rewritten misses no source period once they are at rest, for any
\* calendar, any number of levels and any number of operators: whatever it misses
\* began after it, so rollupIsStale sees it, and its RunDaily or RunRollup still has
\* the refresh on its list.
THEOREM NoDayIsMissed == Spec => []RollupMissesNoDay
<1>1. Inv /\ CalmInv => RollupMissesNoDay
  <2> SUFFICES ASSUME Inv, CalmInv, Calm, \A c \in Consolidators : run[c].pc = "idle",
                      NEW q \in Rollups, Untouched(q), NEW v \in Current(q),
                      NEW p \in SourcesOf[q], sums[p] # <<>>,
                      \A x \in sums[q][v].read : x[1] # p
               PROVE  FALSE
    BY DEF RollupMissesNoDay, Calm, Untouched
  <2>1. Misses(q, v, p)
    BY DEF Misses
  <2>2. \E c \in Consolidators : Pays(run[c], p, q)
    BY <2>1 DEF CalmInv, Debts
  <2>3. QED
    BY <2>2 DEF Pays
<1>2. Init => Inv /\ CalmInv
  BY InitInv, CalmInit
<1>3. Inv /\ CalmInv /\ [Next]_vars => (Inv /\ CalmInv)'
  BY NextInv, CalmNext
<1>4. QED
  BY <1>1, <1>2, <1>3, PTL DEF Spec

============================================================================
