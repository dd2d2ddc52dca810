---------------------------- MODULE SummaryChain ----------------------------
(***************************************************************************)
(* The summary history of one scope: how internal/consolidation's Runner   *)
(* writes versions of a day's summary (RunDaily), of a week's, month's or  *)
(* year's rollup (RunRollup), and of a corrected summary (Correct), while  *)
(* hupi-consolidate, the demo's consolidate-now and hupi-correct run in    *)
(* processes of their own.                                                 *)
(*                                                                         *)
(* A summary row is never changed once it is inserted (key rotation apart),*)
(* so a period's history is a sequence of rows whose index is the version  *)
(* number of nextSummaryID.  One action is one statement on the database:  *)
(* under READ COMMITTED two SELECTs of one transaction see different       *)
(* states.  The text a language model writes is abstracted to what it was  *)
(* given: the episodes and corrections a row's text is derived from.       *)
(***************************************************************************)
EXTENDS Integers, Sequences, FiniteSets

CONSTANTS
    Consolidators,  \* processes that call RunDaily and RunRollup
    Operators,      \* people running hupi-correct
    Days,           \* periods of level daily
    Rollups,        \* periods of level weekly, monthly and yearly
    SourcesOf,      \* a rollup's source_summary_periods: the calendar template
    Episodes,
    DayOf,          \* the day an episode's timestamp falls on
    SeedPeriods,    \* periods that already have a first version at the start
    MaxStores,      \* bound on storeSummary transactions begun
    MaxFailures,    \* bound on crashes and failed model or database calls
    Nobody          \* a row that is not a correction

Actors == Consolidators \cup Operators
Periods == Days \cup Rollups
Facts == Episodes \cup Actors

\* A source level is one below its rollup's level, and each period is rolled
\* up in one place only (weeklyRollup, monthlyRollup, yearlyRollup).
ASSUME PeriodAssumption ==
    /\ Days \cap Rollups = {}
    /\ SourcesOf \in [Rollups -> SUBSET Periods]
    /\ \A p \in Periods, q, r \in Rollups :
          p \in SourcesOf[q] /\ p \in SourcesOf[r] => q = r
    /\ \A q \in Rollups : q \notin SourcesOf[q]
    /\ DayOf \in [Episodes -> Days]
    /\ SeedPeriods \subseteq Periods
ASSUME ActorAssumption ==
    /\ Consolidators \cap Operators = {}
    /\ Nobody \notin Actors
    /\ Actors \cap Episodes = {}
    /\ Days # {}
ASSUME BoundAssumption ==
    /\ MaxStores \in Nat
    /\ MaxFailures \in Nat

VARIABLES
    captured,   \* the episodes stored so far
    sums,       \* period -> its summary rows, in version order
    run,        \* what each process has in hand
    clock,      \* now(): one tick for each transaction that writes a summary
    failures,   \* how many calls have failed
    apart       \* history: no two consolidations have overlapped so far

vars == <<captured, sums, run, clock, failures, apart>>

----------------------------------------------------------------------------
(* Types.                                                                  *)

Versions == 1..(MaxStores + 1)
NoSummary == 0

SummaryRow ==
    [sup : {NoSummary} \cup Versions,       \* supersedes
     created : 0..MaxStores,                \* created_at: transaction start
     says : SUBSET Facts,
     read : SUBSET (Periods \X Versions),   \* the source rows of a rollup
     fix : Actors \cup {Nobody}]            \* whose correction this row is

Run ==
    [pc : {"idle", "current", "stale", "load", "generate", "store", "refresh",
           "next"},
     op : {"daily", "rollup", "fix", "correct"},
     per : Periods, day : Days, cur : {NoSummary} \cup Versions,
     says : SUBSET Facts, read : SUBSET (Periods \X Versions), at : 0..MaxStores,
     todo : Seq(Rollups), check : BOOLEAN, checks : SUBSET (Periods \X Versions)]

\* Every variable stays in its type, and what a process is about to supersede
\* is a row that exists.
TypeOK ==
    /\ captured \in SUBSET Episodes
    /\ sums \in [Periods -> Seq(SummaryRow)]
    /\ run \in [Actors -> Run]
    /\ clock \in 0..MaxStores
    /\ failures \in 0..MaxFailures
    /\ apart \in BOOLEAN
    /\ \A a \in Actors :
          /\ run[a].pc \in {"stale", "load", "generate", "store"} =>
                run[a].cur \in 0..Len(sums[run[a].per])
          /\ run[a].pc = "stale" => run[a].cur # NoSummary
          /\ run[a].op = "rollup" => run[a].per \in Rollups

----------------------------------------------------------------------------
(* What the queries return.                                                *)

Superseded(p, v) == \E u \in DOMAIN sums[p] : sums[p][u].sup = v

\* "Current": no newer row's supersedes points at it.
Current(p) == {v \in DOMAIN sums[p] : ~Superseded(p, v)}

Roots(p) == {v \in DOMAIN sums[p] : sums[p][v].sup = NoSummary}

\* currentSummaryID: the current version, the latest created if there are
\* several, or none.
currentSummaryIDIs(p, v) ==
    \/ v = NoSummary /\ Current(p) = {}
    \/ /\ v \in Current(p)
       /\ \A u \in Current(p) :
             \/ sums[p][u].created < sums[p][v].created
             \/ sums[p][u].created = sums[p][v].created /\ u <= v

\* rollupIsStale: only source rows that themselves supersede nothing are
\* compared with the rollup.
rollupIsStale(q, v) ==
    \E p \in SourcesOf[q] : \E u \in Roots(p) :
        sums[p][u].created > sums[q][v].created

\* loadSummaries: the current versions of the source periods.
loadSummaries(q) == {x \in Periods \X Versions :
                        x[1] \in SourcesOf[q] /\ x[2] \in Current(x[1])}

\* refreshRollupsCovering's query: one job for each root row of the rollup
\* that lists the period among its sources.
rollupsCovering(p) ==
    IF \E q \in Rollups : p \in SourcesOf[q]
    THEN LET q == CHOOSE r \in Rollups : p \in SourcesOf[r]
         IN [i \in 1..Cardinality(Roots(q)) |-> q]
    ELSE <<>>

SeedRow(p) ==
    [sup |-> NoSummary, created |-> 0,
     says |-> {}, fix |-> Nobody,
     read |-> IF p \in Days THEN {} ELSE (SourcesOf[p] \cap SeedPeriods) \X {1}]

IdleRun ==
    LET d == CHOOSE x \in Days : TRUE
    IN [pc |-> "idle", op |-> "daily", per |-> d, day |-> d,
        cur |-> NoSummary, says |-> {}, read |-> {}, at |-> 0, todo |-> <<>>,
        check |-> FALSE, checks |-> {}]

Init ==
    /\ captured = {}
    /\ sums = [p \in Periods |-> IF p \in SeedPeriods THEN <<SeedRow(p)>> ELSE <<>>]
    /\ run = [a \in Actors |-> IdleRun]
    /\ clock = 0
    /\ failures = 0
    /\ apart = TRUE

----------------------------------------------------------------------------
\* store.Capture commits an episode of some day, today's or a past one's (an
\* import).
Capture(e) ==
    /\ e \notin captured
    /\ captured' = captured \cup {e}
    /\ UNCHANGED <<sums, run, clock, failures, apart>>

(* RunDaily.                                                               *)

\* loadDailyEpisodes; a day without episodes is a no-op.
DailyEpisodes(c) ==
    /\ run[c].pc = "idle"
    /\ \E d \in Days :
          LET E == {e \in captured : DayOf[e] = d}
          IN /\ E # {}
             /\ run' = [run EXCEPT ![c] = [IdleRun EXCEPT
                          !.pc = "current", !.op = "daily", !.per = d, !.day = d,
                          !.says = E, !.check = TRUE]]
    /\ apart' = (apart /\ \A b \in Consolidators : run[b].pc = "idle")
    /\ UNCHANGED <<captured, sums, clock, failures>>

\* Variant: the model sees only the raw episodes again.
DailyCurrent_rawOnly(c) ==
    /\ run[c].pc = "current"
    /\ run[c].op = "daily"
    /\ \E v \in 0..Len(sums[run[c].per]) :
          /\ currentSummaryIDIs(run[c].per, v)
          /\ run' = [run EXCEPT ![c].pc = "generate", ![c].cur = v]
    /\ UNCHANGED <<captured, sums, clock, failures, apart>>

\* currentSummaryID, and loadSummaryText of that immutable row: the
\* established record the model is asked to respect.
DailyCurrent(c) ==
    /\ run[c].pc = "current"
    /\ run[c].op = "daily"
    /\ \E v \in 0..Len(sums[run[c].per]) :
          /\ currentSummaryIDIs(run[c].per, v)
          /\ run' = [run EXCEPT ![c].pc = "generate", ![c].cur = v,
                       ![c].says = @ \cup IF v = NoSummary THEN {}
                                          ELSE sums[run[c].per][v].says]
    /\ UNCHANGED <<captured, sums, clock, failures, apart>>

(* RunRollup.                                                              *)

\* runDueRollups calls it for the rollups due on a date.
RollupDue(c) ==
    /\ run[c].pc = "idle"
    /\ \E q \in Rollups :
          run' = [run EXCEPT ![c] = [IdleRun EXCEPT !.pc = "current",
                                       !.op = "rollup", !.per = q]]
    /\ apart' = (apart /\ \A b \in Consolidators : run[b].pc = "idle")
    /\ UNCHANGED <<captured, sums, clock, failures>>

\* Variant: staleness is asked of a rollup that does not exist yet.
RollupCurrent_alwaysStaleCheck(c) ==
    /\ run[c].pc = "current"
    /\ run[c].op = "rollup"
    /\ \E v \in 0..Len(sums[run[c].per]) :
          /\ currentSummaryIDIs(run[c].per, v)
          /\ run' = [run EXCEPT ![c].pc = "stale", ![c].cur = v]
    /\ UNCHANGED <<captured, sums, clock, failures, apart>>

RollupCurrent(c) ==
    /\ run[c].pc = "current"
    /\ run[c].op = "rollup"
    /\ \E v \in 0..Len(sums[run[c].per]) :
          /\ currentSummaryIDIs(run[c].per, v)
          /\ run' = [run EXCEPT ![c].pc = IF v = NoSummary THEN "load" ELSE "stale",
                                ![c].cur = v]
    /\ UNCHANGED <<captured, sums, clock, failures, apart>>

\* A rollup that is not stale is left alone.
RollupStale(c) ==
    /\ run[c].pc = "stale"
    /\ run' = [run EXCEPT ![c].pc =
                 IF rollupIsStale(run[c].per, run[c].cur) THEN "load" ELSE "next"]
    /\ UNCHANGED <<captured, sums, clock, failures, apart>>

RollupLoad(c) ==
    LET R == loadSummaries(run[c].per)
    IN /\ run[c].pc = "load"
       /\ run' = [run EXCEPT ![c].pc = IF R = {} THEN "next" ELSE "generate",
                    ![c].read = R,
                    ![c].says = UNION {sums[x[1]][x[2]].says : x \in R}]
       /\ UNCHANGED <<captured, sums, clock, failures, apart>>

----------------------------------------------------------------------------
(* storeSummary, after the model's answer and its grounding check.         *)

BeginStore(a) ==
    /\ run[a].pc = "generate"
    /\ clock < MaxStores
    /\ clock' = clock + 1
    /\ run' = [run EXCEPT ![a].pc = "store", ![a].at = clock + 1]
    /\ UNCHANGED <<captured, sums, failures, apart>>

\* A failed RunDaily or hupi-correct is over; a failed refresh or contradiction
\* fix is logged, and the loop it is part of goes on.
Failed(a) ==
    run' = [run EXCEPT ![a] = IF run[a].op \in {"daily", "correct"}
                              THEN IdleRun ELSE [@ EXCEPT !.pc = "next"]]

NewRow(a) ==
    [sup |-> run[a].cur, created |-> run[a].at, says |-> run[a].says,
     read |-> run[a].read,
     fix |-> IF run[a].op \in {"fix", "correct"} THEN a ELSE Nobody]

\* Variant: no unique index on supersedes.
CommitStore_noIndex(a) ==
    /\ run[a].pc = "store"
    /\ sums' = [sums EXCEPT ![run[a].per] = Append(@, NewRow(a))]
    /\ run' = [run EXCEPT ![a] = IF run[a].op = "correct" THEN IdleRun
                                 ELSE [@ EXCEPT !.pc = "refresh"]]
    /\ UNCHANGED <<captured, clock, failures, apart>>

\* Variant: what to supersede is looked up again at insert time.
CommitStore_lateLookup(a) ==
    LET p == run[a].per
    IN /\ run[a].pc = "store"
       /\ \E v \in 0..Len(sums[p]) :
             /\ currentSummaryIDIs(p, v)
             /\ sums' = [sums EXCEPT ![p] = Append(@, [NewRow(a) EXCEPT !.sup = v])]
       /\ run' = [run EXCEPT ![a] = IF run[a].op = "correct" THEN IdleRun
                                    ELSE [@ EXCEPT !.pc = "refresh"]]
       /\ UNCHANGED <<captured, clock, failures, apart>>

\* nextSummaryID under its transaction-long advisory lock, the insert, and
\* the commit.  hupi-correct is then done; the others refresh rollups.
CommitStore(a) ==
    LET p == run[a].per
    IN /\ run[a].pc = "store"
       /\ run[a].cur = NoSummary \/ ~Superseded(p, run[a].cur)
       /\ sums' = [sums EXCEPT ![p] = Append(@, NewRow(a))]
       /\ run' = [run EXCEPT ![a] = IF run[a].op = "correct" THEN IdleRun
                                    ELSE [@ EXCEPT !.pc = "refresh"]]
       /\ UNCHANGED <<captured, clock, failures, apart>>

\* summaries_supersedes_unique_idx: a row that supersedes an already
\* superseded one is refused.
CommitRefused(a) ==
    /\ run[a].pc = "store"
    /\ run[a].cur # NoSummary
    /\ Superseded(run[a].per, run[a].cur)
    /\ Failed(a)
    /\ UNCHANGED <<captured, sums, clock, failures, apart>>

\* A model call or a statement fails before anything is committed.
CallFails(a) ==
    /\ run[a].pc \in {"generate", "store"}
    /\ failures < MaxFailures
    /\ failures' = failures + 1
    /\ Failed(a)
    /\ UNCHANGED <<captured, sums, clock, apart>>

----------------------------------------------------------------------------
(* What follows a stored summary.                                          *)

\* Variant: rollups are refreshed only when a draft was superseded.
Refresh_onlyIfSuperseding(c) ==
    /\ run[c].pc = "refresh"
    /\ run' = [run EXCEPT ![c].pc = "next",
                  ![c].todo = IF run[c].cur = NoSummary THEN @
                              ELSE rollupsCovering(run[c].per) \o @]
    /\ UNCHANGED <<captured, sums, clock, failures, apart>>

\* refreshRollupsCovering lists its jobs; each is a RunRollup, which lists
\* the jobs of the level above before the next one here.
Refresh(c) ==
    /\ run[c].pc = "refresh"
    /\ run' = [run EXCEPT ![c].pc = "next",
                          ![c].todo = rollupsCovering(run[c].per) \o @]
    /\ UNCHANGED <<captured, sums, clock, failures, apart>>

NextRollup(c) ==
    /\ run[c].pc = "next"
    /\ run[c].todo # <<>>
    /\ run' = [run EXCEPT ![c].pc = "current", ![c].op = "rollup",
                 ![c].per = Head(run[c].todo), ![c].todo = Tail(@),
                 ![c].cur = NoSummary, ![c].says = {}, ![c].read = {}]
    /\ UNCHANGED <<captured, sums, clock, failures, apart>>

\* checkCrossPeriodContradictions: the day's stored row is read back, every
\* other current summary may be related, and the model finds some of those
\* to contradict it.
FindContradictions(c) ==
    /\ run[c].pc = "next"
    /\ run[c].todo = <<>>
    /\ run[c].check
    /\ \E v \in Current(run[c].day) :
          LET related == {x \in Periods \X Versions :
                             x[2] \in Current(x[1]) /\ x # <<run[c].day, v>>}
          IN \E B \in SUBSET related :
                run' = [run EXCEPT ![c].check = FALSE, ![c].checks = B]
    /\ UNCHANGED <<captured, sums, clock, failures, apart>>

\* Correct's guard: only a summary nothing supersedes yet.  The new content
\* starts from CurrentContent of that row.
CorrectFrom(a, op, p, v) ==
    [run[a] EXCEPT !.pc = "generate", !.op = op, !.per = p, !.cur = v,
        !.says = sums[p][v].says \cup {a}, !.read = sums[p][v].read]

\* checkOneRelatedSummary: a summary superseded meanwhile is skipped.
FixContradiction(c) ==
    /\ run[c].pc = "next"
    /\ run[c].todo = <<>>
    /\ ~run[c].check
    /\ \E x \in run[c].checks :
          LET next == IF Superseded(x[1], x[2]) THEN run[c]
                      ELSE CorrectFrom(c, "fix", x[1], x[2])
          IN run' = [run EXCEPT ![c] = [next EXCEPT !.checks = @ \ {x}]]
    /\ UNCHANGED <<captured, sums, clock, failures, apart>>

RunOver(c) ==
    /\ run[c].pc = "next"
    /\ run[c].todo = <<>>
    /\ ~run[c].check
    /\ run[c].checks = {}
    /\ run' = [run EXCEPT ![c] = IdleRun]
    /\ UNCHANGED <<captured, sums, clock, failures, apart>>

\* hupi-correct on any summary that is not superseded.
Correct(o) ==
    /\ run[o].pc = "idle"
    /\ \E p \in Periods : \E v \in DOMAIN sums[p] :
          /\ ~Superseded(p, v)
          /\ run' = [run EXCEPT ![o] = CorrectFrom(o, "correct", p, v)]
    /\ UNCHANGED <<captured, sums, clock, failures, apart>>

Crash(a) ==
    /\ run[a].pc # "idle"
    /\ failures < MaxFailures
    /\ failures' = failures + 1
    /\ run' = [run EXCEPT ![a] = IdleRun]
    /\ UNCHANGED <<captured, sums, clock, apart>>

ConsolidatorStep(c) ==
    \/ DailyEpisodes(c) \/ DailyCurrent(c)
    \/ RollupDue(c) \/ RollupCurrent(c) \/ RollupStale(c) \/ RollupLoad(c)
    \/ Refresh(c) \/ NextRollup(c)
    \/ FindContradictions(c) \/ FixContradiction(c) \/ RunOver(c)

StoreStep(a) ==
    BeginStore(a) \/ CommitStore(a) \/ CommitRefused(a) \/ CallFails(a) \/ Crash(a)

Next ==
    \/ \E e \in Episodes : Capture(e)
    \/ \E c \in Consolidators : ConsolidatorStep(c)
    \/ \E o \in Operators : Correct(o)
    \/ \E a \in Actors : StoreStep(a)

Spec == Init /\ [][Next]_vars

----------------------------------------------------------------------------
(* Properties.                                                             *)

OneRoot(p) == \A u, v \in Roots(p) : u = v

\* Correct's guard and the unique index on supersedes: however re-runs,
\* contradiction fixes and operators race, a history that began once never
\* forks, so retrieval finds one current version.
NoFork ==
    \A p \in Periods : OneRoot(p) => \A u, v \in Current(p) : u = v

\* RunDaily's established record: an accepted correction of a day is part of
\* the day's current summary, whatever is regenerated afterwards.
CorrectionKept ==
    \A d \in Days : OneRoot(d) =>
        \A u \in DOMAIN sums[d], v \in Current(d) :
            sums[d][u].fix # Nobody => sums[d][u].fix \in sums[d][v].says

\* RunRollup reads its predecessor before its sources: a regenerated rollup
\* never falls back to an older version of a source than the one it replaces.
RollupNeverRollsBack ==
    \A q \in Rollups : \A v \in DOMAIN sums[q] :
        sums[q][v].sup # NoSummary =>
            \A x \in sums[q][sums[q][v].sup].read :
                \E y \in sums[q][v].read : y[1] = x[1] /\ y[2] >= x[2]

\* RunDaily always calls refreshRollupsCovering: as long as consolidations have
\* not overlapped, once they are idle again no day that has a summary is missing
\* from a rollup that lists it, also when the day was backfilled after the
\* rollup (unless an operator rewrote the rollup, or a call failed).
RollupMissesNoDay ==
    (apart /\ failures = 0 /\ \A c \in Consolidators : run[c].pc = "idle") =>
        \A q \in Rollups :
            (\A v \in DOMAIN sums[q] : sums[q][v].fix \notin Operators) =>
                \A v \in Current(q) : \A p \in SourcesOf[q] :
                    sums[p] # <<>> => \E x \in sums[q][v].read : x[1] = p

\* rollupIsStale, RunRollup: a rollup with a source period whose current summary
\* was created after it is regenerated, so that at rest every rollup has read
\* the current version of its sources.
RollupReflectsSources ==
    (failures = 0 /\ \A a \in Actors : run[a].pc = "idle") =>
        \A q \in Rollups : \A v \in Current(q) : \A p \in SourcesOf[q] :
            \A u \in Current(p) : <<p, u>> \in sums[q][v].read
============================================================================
