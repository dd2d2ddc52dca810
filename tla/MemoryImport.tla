---------------------------- MODULE MemoryImport ----------------------------
(***************************************************************************)
(* Moving one scope's memory to another: hupi-export writes a bundle of    *)
(* the source scope in three transactions, hupi-import loads it into the   *)
(* target scope in as many phases as there are entities, summary periods   *)
(* and episodes to commit, while both scopes are in use, and may be        *)
(* killed and run again with -merge (internal/hpmf, cmd/hupi-export,       *)
(* cmd/hupi-import).                                                       *)
(*                                                                         *)
(* An episode's id is unique in the deployment; its hash identifies an     *)
(* interaction's text, and is empty on a feedback row, which refers to an  *)
(* interaction by id.  A summary period is the sequence of its versions in *)
(* created_at order, a version's sup the position of the one it            *)
(* supersedes.  Entities are their ids.  Encryption is left out (each side *)
(* uses its own scope's keys), and so are the embeddings, which a bundle   *)
(* never holds.                                                            *)
(***************************************************************************)
EXTENDS Integers, Sequences, FiniteSets, SequencesExt

CONSTANTS
    SourceLog,      \* what the source scope captures, in order
    LocalLog,       \* what the target scope captures, in order
    Periods, Entities,
    SameDatabase,   \* whether both scopes may live in one deployment: a set of BOOLEANs
    MaxVersions,    \* bound on the versions of a period
    MaxExports, MaxImports, MaxFailures     \* bounds

\* An episode id is a name and the import that made it up, 0 for a captured one.
Ids == {SourceLog[i].id : i \in DOMAIN SourceLog}
         \cup {LocalLog[i].id : i \in DOMAIN LocalLog}
NoRef == <<"none", 0>>
Feedback == ""
Record == [id : Ids, hash : STRING, ref : Ids \cup {NoRef}]

ASSUME LogAssumption ==
    /\ SourceLog \in Seq(Record) /\ LocalLog \in Seq(Record)
    \* id is the primary key of the episodes of a deployment
    /\ Ids \subseteq STRING \X {0} /\ NoRef \notin Ids
    /\ \A i, j \in DOMAIN SourceLog : SourceLog[i].id = SourceLog[j].id => i = j
    /\ \A i, j \in DOMAIN LocalLog : LocalLog[i].id = LocalLog[j].id => i = j
    /\ \A i \in DOMAIN SourceLog, j \in DOMAIN LocalLog : SourceLog[i].id # LocalLog[j].id
    \* handleFeedbackScoped: feedback names an earlier episode, and has no hash
    /\ \A i \in DOMAIN SourceLog :
          /\ SourceLog[i].ref # NoRef <=> SourceLog[i].hash = Feedback
          /\ SourceLog[i].ref # NoRef =>
                \E j \in 1..(i - 1) : SourceLog[j].id = SourceLog[i].ref
ASSUME BoundAssumption ==
    /\ {MaxVersions, MaxExports, MaxImports, MaxFailures} \subseteq Nat
    /\ SameDatabase \subseteq BOOLEAN

VARIABLES
    sameDB,     \* both scopes are in one deployment
    src,        \* the source scope
    exp,        \* hupi-export, with the directory it is writing
    bundle,     \* the .age file there is to import
    tgt,        \* the target scope
    imp,        \* hupi-import
    given,      \* history: the bundle's history a period was imported from
    raced,      \* history: periods a consolidation begun without a version was late for
    failures

vars == <<sameDB, src, exp, bundle, tgt, imp, given, raced, failures>>

----------------------------------------------------------------------------
(* Types.                                                                  *)

Row == [id : Ids \cup ({x[1] : x \in Ids} \X (1..MaxImports)), hash : STRING,
        ref : Ids \cup {NoRef} \cup ({x[1] : x \in Ids} \X (1..MaxImports)),
        from : Ids,             \* the exported id
        pass : 0..MaxImports]   \* the import that inserted it, 0 for a capture
Version == [sup : 0..(2 * MaxVersions), imported : BOOLEAN]
History == Seq(Version)

Directory == [eps : Seq(Record), sums : [Periods -> History], ents : SUBSET Entities]
NoDirectory == [eps |-> <<>>, sums |-> [p \in Periods |-> <<>>], ents |-> {}]

\* n counts the files hupi-export opened; whole: the last one was closed in order.
Bundle == [n : 0..MaxExports, whole : BOOLEAN, dir : Directory]
NoBundle == [n |-> 0, whole |-> FALSE, dir |-> NoDirectory]

\* Every variable stays in its type, and an episode id is a primary key of the
\* whole deployment.
TypeOK ==
    /\ src \in Directory /\ exp.dir \in Directory
    /\ bundle \in Bundle
    /\ tgt.eps \in Seq(Row) /\ tgt.sums \in [Periods -> History]
    /\ tgt.ents \subseteq Entities
    /\ exp.pc \in {"idle", "episodes", "summaries", "entities", "pack", "packing"}
    /\ imp.pc \in {"idle", "start", "entities", "logEntities", "summaries", "period",
                   "logSummaries", "hashes", "episodes", "logEpisodes", "done", "failed"}
    /\ imp.merge \in BOOLEAN /\ imp.dir \in Directory
    /\ imp.todo \subseteq Periods /\ imp.file \subseteq imp.todo
    /\ \A h \in imp.known : h \in STRING
    /\ failures \in 0..MaxFailures
    /\ \A i, j \in DOMAIN tgt.eps : tgt.eps[i].id = tgt.eps[j].id => i = j
    /\ sameDB => \A i \in DOMAIN tgt.eps, j \in DOMAIN src.eps :
                        tgt.eps[i].id # src.eps[j].id

IdleImp == [pc |-> "idle", pass |-> 0, merge |-> FALSE, dir |-> NoDirectory,
            todo |-> {}, file |-> {}, known |-> {}]

Init ==
    /\ sameDB \in SameDatabase
    /\ src = NoDirectory
    /\ exp = [pc |-> "idle", dir |-> NoDirectory]
    /\ bundle = NoBundle
    /\ tgt = [eps |-> <<>>, sums |-> [p \in Periods |-> <<>>], ents |-> {}]
    /\ imp = IdleImp
    /\ given = [p \in Periods |-> <<>>]
    /\ raced = {}
    /\ failures = 0

Current(h) == {i \in DOMAIN h : \A j \in DOMAIN h : h[j].sup # i}

\* RunDaily reads the current version, asks the model, and stores its own without
\* looking again.  The read changes nothing, so a store is all there is to see: it
\* supersedes none (0) if the read found none, however much was stored or imported
\* since, or a version that is still current (the unique index on supersedes
\* refuses any other), as a correction always does.
Extensions(h) ==
    {Append(h, [sup |-> i, imported |-> FALSE]) : i \in {0} \cup Current(h)}

\* Whether h became g by a store whose read was out of date.
Late(h, g) == h # <<>> /\ g[Len(g)].sup = 0

----------------------------------------------------------------------------
(* The source scope in use, and its export.                                *)

SourceWrites ==
    /\ \/ /\ Len(src.eps) < Len(SourceLog)
          /\ src' = [src EXCEPT !.eps = Append(@, SourceLog[Len(@) + 1])]
       \/ \E p \in Periods :
             /\ Len(src.sums[p]) < MaxVersions
             /\ \E h \in Extensions(src.sums[p]) : src' = [src EXCEPT !.sums[p] = h]
       \/ \E e \in Entities \ src.ents : src' = [src EXCEPT !.ents = @ \cup {e}]
    /\ UNCHANGED <<sameDB, exp, bundle, tgt, imp, given, raced, failures>>

\* ExportBundle: a fresh temporary directory.
ExportStart ==
    /\ exp.pc = "idle"
    /\ bundle.n < MaxExports
    /\ exp' = [pc |-> "episodes", dir |-> NoDirectory]
    /\ UNCHANGED <<sameDB, src, bundle, tgt, imp, given, raced, failures>>

\* Each phase is one transaction that sees the scope as it is then, followed by
\* its own audit row.
ExportEpisodes ==
    /\ exp.pc = "episodes"
    /\ exp' = [exp EXCEPT !.pc = "summaries", !.dir.eps = src.eps]
    /\ UNCHANGED <<sameDB, src, bundle, tgt, imp, given, raced, failures>>

ExportSummaries ==
    /\ exp.pc = "summaries"
    /\ exp' = [exp EXCEPT !.pc = "entities", !.dir.sums = src.sums]
    /\ UNCHANGED <<sameDB, src, bundle, tgt, imp, given, raced, failures>>

ExportEntities ==
    /\ exp.pc = "entities"
    /\ exp' = [exp EXCEPT !.pc = "pack", !.dir.ents = src.ents]
    /\ UNCHANGED <<sameDB, src, bundle, tgt, imp, given, raced, failures>>

\* PackAndEncrypt opens its output with O_TRUNC: an earlier bundle under the same
\* name is gone, one under another name stays.
OpenOut ==
    /\ exp.pc = "pack"
    /\ \E left \in {bundle, NoBundle} : bundle' = [left EXCEPT !.n = bundle.n + 1]
    /\ exp' = [exp EXCEPT !.pc = "packing"]
    /\ UNCHANGED <<sameDB, src, tgt, imp, given, raced, failures>>

\* The archive is written and closed, and the directory removed.
Pack ==
    /\ exp.pc = "packing"
    /\ bundle' = [n |-> bundle.n, whole |-> TRUE, dir |-> exp.dir]
    /\ exp' = [pc |-> "idle", dir |-> NoDirectory]
    /\ UNCHANGED <<sameDB, src, tgt, imp, given, raced, failures>>

\* A failed or killed export leaves no bundle, or the beginning of one.
ExportFails ==
    /\ exp.pc # "idle"
    /\ exp' = [pc |-> "idle", dir |-> NoDirectory]
    /\ UNCHANGED <<sameDB, src, bundle, tgt, imp, given, raced, failures>>

----------------------------------------------------------------------------
(* The target scope in use.                                                *)

LocalCapture ==
    LET n == Cardinality({i \in DOMAIN tgt.eps : tgt.eps[i].pass = 0})
    IN /\ n < Len(LocalLog)
       /\ LET r == LocalLog[n + 1]
          IN tgt' = [tgt EXCEPT !.eps = Append(@,
                       [id |-> r.id, hash |-> r.hash, ref |-> r.ref, from |-> r.id,
                        pass |-> 0])]
       /\ UNCHANGED <<sameDB, src, exp, bundle, imp, given, raced, failures>>

LocalConsolidate ==
    /\ \E p \in Periods :
          /\ Len(tgt.sums[p]) < MaxVersions
          /\ \E h \in Extensions(tgt.sums[p]) :
                /\ tgt' = [tgt EXCEPT !.sums[p] = h]
                /\ raced' = IF p \in imp.file \/ Late(tgt.sums[p], h)
                            THEN raced \cup {p} ELSE raced
    /\ UNCHANGED <<sameDB, src, exp, bundle, imp, given, failures>>

----------------------------------------------------------------------------
(* hupi-import: importOne and ImportScope.                                 *)

\* The bundle is unpacked and its manifest read; the beginning of one does not
\* decrypt or untar.
ImportStart ==
    /\ imp.pc \in {"idle", "done", "failed"}
    /\ bundle.n > 0
    /\ imp.pass < MaxImports
    /\ \/ /\ bundle.whole
          /\ \E merge \in BOOLEAN :
                imp' = [IdleImp EXCEPT !.pc = "start", !.pass = imp.pass + 1,
                                       !.merge = merge, !.dir = bundle.dir]
       \/ /\ ~bundle.whole
          /\ imp' = [IdleImp EXCEPT !.pc = "failed", !.pass = imp.pass + 1]
    /\ UNCHANGED <<sameDB, src, exp, bundle, tgt, given, raced, failures>>

\* The process ends with an error, and only its transactions remain.
Failed == [IdleImp EXCEPT !.pc = "failed", !.pass = imp.pass]

scopeIsEmpty ==
    tgt.eps = <<>> /\ tgt.ents = {} /\ \A p \in Periods : tgt.sums[p] = <<>>

\* Without -merge the target must be empty.
CheckEmpty ==
    /\ imp.pc = "start"
    /\ imp' = IF imp.merge \/ scopeIsEmpty THEN [imp EXCEPT !.pc = "entities"] ELSE Failed
    /\ UNCHANGED <<sameDB, src, exp, bundle, tgt, given, raced, failures>>

\* importEntities: an entity the target has is left as it is.
ImportEntities ==
    /\ imp.pc = "entities"
    /\ tgt' = [tgt EXCEPT !.ents = @ \cup imp.dir.ents]
    /\ imp' = [imp EXCEPT !.pc = "logEntities"]
    /\ UNCHANGED <<sameDB, src, exp, bundle, given, raced, failures>>

\* logPhase: the audit row, in a transaction of its own after the phase's.
LogPhase ==
    /\ \/ /\ imp.pc = "logEntities"
          /\ imp' = [imp EXCEPT !.pc = "summaries",
                       !.todo = {p \in Periods : imp.dir.sums[p] # <<>>}]
       \/ imp.pc = "logSummaries" /\ imp' = [imp EXCEPT !.pc = "hashes"]
       \/ imp.pc = "logEpisodes" /\ imp' = [imp EXCEPT !.pc = "done"]
    /\ UNCHANGED <<sameDB, src, exp, bundle, tgt, given, raced, failures>>

\* Variant: a period the target already has is imported over it.
PeriodExists_never(p) == FALSE

periodExists(p) == tgt.sums[p] # <<>>

\* importSummaries begins the transaction of the next file: a period the target
\* has any version of is skipped.
ImportPeriod ==
    /\ imp.pc = "summaries"
    /\ \E p \in imp.todo :
          imp' = IF periodExists(p) THEN [imp EXCEPT !.todo = @ \ {p}]
                 ELSE [imp EXCEPT !.pc = "period", !.file = {p}]
    /\ UNCHANGED <<sameDB, src, exp, bundle, tgt, given, raced, failures>>

\* Fresh ids follow the newest version there is, n, and idMap renames the
\* version superseded.
Renumbered(h, n) ==
    [i \in DOMAIN h |-> [sup |-> IF h[i].sup = 0 THEN 0 ELSE h[i].sup + n,
                         imported |-> TRUE]]

\* The rest of the transaction: all versions of the file, in its order.
CommitPeriod ==
    /\ imp.pc = "period"
    /\ \E p \in imp.file :
          /\ tgt' = [tgt EXCEPT !.sums[p] = @ \o Renumbered(imp.dir.sums[p], Len(@))]
          /\ given' = [given EXCEPT ![p] = imp.dir.sums[p]]
          /\ imp' = [imp EXCEPT !.pc = "summaries", !.todo = @ \ {p}, !.file = {}]
    /\ UNCHANGED <<sameDB, src, exp, bundle, raced, failures>>

PeriodsDone ==
    /\ imp.pc = "summaries" /\ imp.todo = {}
    /\ imp' = [imp EXCEPT !.pc = "logSummaries"]
    /\ UNCHANGED <<sameDB, src, exp, bundle, tgt, given, raced, failures>>

\* importEpisodes begins its one transaction with the hashes the scope has.
LoadHashes ==
    /\ imp.pc = "hashes"
    /\ imp' = [imp EXCEPT !.pc = "episodes",
                          !.known = {tgt.eps[i].hash : i \in DOMAIN tgt.eps}]
    /\ UNCHANGED <<sameDB, src, exp, bundle, tgt, given, raced, failures>>

\* The ids an insert would conflict with, wherever their rows are.
TakenIds(rows) ==
    {rows[i].id : i \in DOMAIN rows}
      \cup IF sameDB THEN {src.eps[i].id : i \in DOMAIN src.eps} ELSE {}

\* Variant: the exported id is kept although it is taken.
FreeId_taken(id, rows) == id

\* on conflict (id) do nothing, then another try under a fresh id.
FreeId(id, rows) == IF id \in TakenIds(rows) THEN <<id[1], imp.pass>> ELSE id

\* Variant: the references of feedback are copied as they are.
RefersTo_exported(ref, idMap) == ref

RefersTo(ref, idMap) == IF ref \in DOMAIN idMap THEN idMap[ref] ELSE ref

\* One record: skipped when its hash is known, refused by the foreign key when
\* what it refers to is nowhere in the deployment.
InsertEpisode(acc, r) ==
    LET id == FreeId(r.id, acc.rows)
        ref == RefersTo(r.ref, acc.idMap)
    IN IF r.hash \in acc.known \/ ~acc.ok THEN acc
       ELSE [rows |-> Append(acc.rows, [id |-> id, hash |-> r.hash, ref |-> ref,
                                        from |-> r.id, pass |-> imp.pass]),
             known |-> acc.known \cup {r.hash},
             idMap |-> IF id = r.id THEN acc.idMap
                       ELSE [x \in DOMAIN acc.idMap \cup {r.id} |->
                               IF x = r.id THEN id ELSE acc.idMap[x]],
             ok |-> ref = NoRef \/ ref \in TakenIds(acc.rows)]

\* The insert of every record of every file, and the commit.
ImportEpisodes ==
    LET end == FoldLeft(InsertEpisode,
                        [rows |-> tgt.eps, known |-> imp.known, idMap |-> <<>>, ok |-> TRUE],
                        imp.dir.eps)
    IN /\ imp.pc = "episodes"
       /\ \/ /\ end.ok
             /\ tgt' = [tgt EXCEPT !.eps = end.rows]
             /\ imp' = [imp EXCEPT !.pc = "logEpisodes"]
          \/ /\ ~end.ok
             /\ imp' = Failed
             /\ UNCHANGED tgt
       /\ UNCHANGED <<sameDB, src, exp, bundle, given, raced, failures>>

Running == imp.pc \notin {"idle", "done", "failed"}

\* A statement fails (a summary id that a racing consolidation took first, a
\* lost connection) or the process is killed: the transaction of the phase is
\* rolled back, what the earlier ones committed stays.
ImportFails ==
    /\ Running
    /\ \/ failures < MaxFailures /\ failures' = failures + 1
       \/ imp.file \cap raced # {} /\ UNCHANGED failures
    /\ imp' = Failed
    /\ UNCHANGED <<sameDB, src, exp, bundle, tgt, given, raced>>

\* What the source scope does, and what is exported, after the last import has
\* begun is of no interest to any.
SourceInUse ==
    /\ imp.pass < MaxImports
    /\ \/ SourceWrites
       \/ ExportStart \/ ExportEpisodes \/ ExportSummaries \/ ExportEntities
       \/ OpenOut \/ Pack \/ ExportFails

Next ==
    \/ SourceInUse
    \/ LocalCapture \/ LocalConsolidate
    \/ ImportStart \/ CheckEmpty \/ ImportEntities \/ LogPhase
    \/ ImportPeriod \/ CommitPeriod \/ PeriodsDone
    \/ LoadHashes \/ ImportEpisodes \/ ImportFails

Spec == Init /\ [][Next]_vars

----------------------------------------------------------------------------
(* Properties.                                                             *)

\* A history in which every version supersedes the one before it: it has one
\* first version, one current one, and nothing is superseded twice.
Chain(h) == \A i \in DOMAIN h : h[i].sup = i - 1

\* Whatever was killed, retried or merged, a period's imported versions are
\* one exported history, whole, in its order and with its supersedes links,
\* and no second one is ever added to it.  If that history was a chain, so is the
\* period's, the scope's own versions included, but in two cases: the scope
\* consolidated it between periodExists and the insert, or stored a consolidation
\* that had found no version after one was stored or imported (importSummaries,
\* periodExists, RunDaily).
HistoryWhole ==
    \A p \in Periods :
        LET h == tgt.sums[p]
            rows == {i \in DOMAIN h : h[i].imported}
            n == Cardinality({i \in DOMAIN h : \A j \in rows : i < j})
        IN /\ rows # {} =>
                /\ rows = (n + 1)..(n + Len(given[p]))
                /\ \A i \in rows :
                      LET sup == given[p][i - n].sup
                      IN h[i].sup = IF sup = 0 THEN 0 ELSE sup + n
           /\ p \notin raced /\ Chain(given[p]) => Chain(h)

\* What a finished import left out of its bundle, the scope has another row with
\* the hash of: an interaction with the same words, or, as all feedback has the
\* empty hash, any feedback; and no hash was imported twice, however often its
\* bundle was.  Imported feedback on an imported interaction refers to that row
\* whichever imports brought the two, unless an earlier import than the feedback's
\* had to give the interaction a fresh id; and it never comes first
\* (importEpisodes, which dedupes by hash and remaps refers_to).
EpisodesArrive ==
    LET imported == {i \in DOMAIN tgt.eps : tgt.eps[i].pass # 0}
    IN /\ imp.pc = "done" =>
             \A i \in DOMAIN imp.dir.eps :
                \E k \in DOMAIN tgt.eps : tgt.eps[k].hash = imp.dir.eps[i].hash
       /\ \A i, j \in imported :
             /\ tgt.eps[i].hash = tgt.eps[j].hash => i = j
             /\ (\E k \in DOMAIN SourceLog :
                    SourceLog[k].id = tgt.eps[i].from /\ SourceLog[k].ref = tgt.eps[j].from)
                => \/ tgt.eps[i].ref = tgt.eps[j].id
                   \/ /\ tgt.eps[j].pass < tgt.eps[i].pass
                      /\ tgt.eps[j].id # tgt.eps[j].from

=============================================================================
