------------------------------- MODULE Reembed -------------------------------
(***************************************************************************)
(* The embeddings of one scope's rows: hupi-reembed (internal/reembed and  *)
(* cmd/hupi-reembed) moving every row to the configured embedding model,   *)
(* while consolidation stores summaries, upserts entities and embeds what  *)
(* it has just committed, and while the scope's key is rotated.            *)
(*                                                                         *)
(* A row's ciphertext is its text and the key version it is encrypted      *)
(* under, which change together.  An embedding is the text it was computed *)
(* from and the model that computed it.  An entity's text is the set of    *)
(* attributes it has been given; the other rows' texts never change.       *)
(* Episodes and facts are the important and the grounded ones: the others  *)
(* are never embedded by anyone.  A rotation's batches are read in one     *)
(* step and written by id in another, prune looks in one and deletes in    *)
(* another, and a writer resolves its key before it commits; what Start    *)
(* does under its lock is one step (KeyRotation has its detail).           *)
(***************************************************************************)
EXTENDS Integers, Sequences, FiniteSets, FiniteSetsExt, SequencesExt

CONSTANTS
    Summaries, Episodes, Entities, Facts,   \* the rows of the four tables
    FactsOf,        \* a summary's grounded key facts
    SeedRows,       \* rows that exist at the start, embedded by another model
    Patches,        \* attributes an entity may be given
    SeedText,       \* the attributes the entities have at the start
    Consolidators,
    Rotators,       \* processes that run hupi-rotate-key
    ModelOf,        \* the model a consolidator is configured with
    NewModel,       \* EmbedderIdentity of the hupi-reembed run
    OldModel,
    NoModel,        \* embedding is null
    BatchSize,      \* hupi-reembed -batch-size
    MaxVersion,     \* bound on key versions
    MaxStores,      \* bound on storeSummary transactions
    MaxFailures,    \* bound on failed embedder, audit and process calls
    MaxRuns         \* bound on hupi-reembed invocations

Rows == Summaries \cup Episodes \cup Entities \cup Facts
Models == {NewModel, OldModel}
Nobody == "nobody"

ASSUME RowAssumption ==
    /\ FactsOf \in [Summaries -> SUBSET Facts]
    /\ SeedRows \subseteq Rows /\ SeedText \subseteq Patches
    /\ ModelOf \in [Consolidators -> Models]
    /\ NoModel \notin Models
    /\ NewModel # OldModel
    \* rows of different tables are different, and there are finitely many
    /\ Summaries \cap (Episodes \cup Entities \cup Facts) = {}
    /\ Episodes \cap (Entities \cup Facts) = {} /\ Entities \cap Facts = {}
    /\ IsFiniteSet(Rows)
ASSUME BoundAssumption ==
    /\ BatchSize \in Nat \ {0} /\ MaxVersion \in Nat \ {0}
    /\ {MaxStores, MaxFailures, MaxRuns} \subseteq Nat

VARIABLES
    here,       \* the rows that exist
    text,       \* row -> its plaintext
    ver,        \* row -> key_version
    of,         \* row -> the text its embedding was computed from
    model,      \* row -> embedding_model
    over,       \* the summaries some other summary supersedes
    late,       \* history: rows last written under a version that was not the
                \* newest any more
    keys,       \* the key versions that exist
    rot,        \* the scope's key_rotations row
    rt,         \* the rotators
    pruning,    \* to-versions whose prune has looked and not yet deleted
    job,        \* the hupi-reembed process
    cons,       \* the consolidation processes
    stores, failures, runs,     \* how often each has happened
    spoiled     \* history: entities changed under an embedder's hands, not
                \* embedded after their last change, or put back by a migration

db == <<here, text, ver, of, model, over, late>>
ring == <<keys, rot, rt, pruning>>
vars == <<here, text, ver, of, model, over, late, keys, rot, rt, pruning, job, cons,
          stores, failures, runs, spoiled>>

----------------------------------------------------------------------------
(* Types.                                                                  *)

Texts == SUBSET Patches
\* What a SELECT returns of a row: its id and its ciphertext.  History: whether
\* the row was late then.
Snapshot == [id : Rows, text : Texts, ver : 1..MaxVersion, late : BOOLEAN]

Job ==
    [pc : {"idle", "select", "decrypt", "refetch", "rekey", "embed", "update",
           "log", "done", "failed"},
     table : 1..4,
     todo : Seq(Snapshot),      \* rows of the batch not decrypted yet
     ready : Seq(Snapshot),     \* rows decrypted, to be embedded together
     prunes : Nat,              \* history: versions deleted since the SELECT
     lost : BOOLEAN,            \* history: a row's key was gone,
     late : BOOLEAN,            \* ... of a row that was or had been late
     due : SUBSET Rows]         \* history: rows pending at the start of the
                                \* run that nobody else has embedded since

Con ==
    [pc : {"idle", "store", "summary", "entity", "key", "write", "facts", "episodes",
           "episode"},
     last : BOOLEAN,            \* the second embedEntities, of the missing ones
     ver : 0..MaxVersion,       \* the key version resolved for the summary
     sum : Summaries \cup {Nobody},
     ids : SUBSET Rows,         \* entities, then episodes, still to embed
     got : Seq(Snapshot)]       \* the entity being embedded

Rotation ==
    [status : {"none", "in_progress", "completed"},
     from : 0..MaxVersion, to : 0..MaxVersion,
     table : 1..4]              \* episodes, summaries, entities, done

Rotator ==
    [pc : {"idle", "batch", "update"},
     from : 0..MaxVersion, to : 0..MaxVersion, table : 1..4,
     got : SUBSET Snapshot]     \* the rows of the batch, as selected

\* Every variable stays in its type, and a batch is never larger than asked.
TypeOK ==
    /\ here \subseteq Rows /\ over \subseteq Summaries /\ late \subseteq Rows
    /\ text \in [Rows -> Texts] /\ of \in [Rows -> Texts]
    /\ ver \in [Rows -> 1..MaxVersion] /\ keys \subseteq 1..MaxVersion
    /\ model \in [Rows -> Models \cup {NoModel}]
    /\ rot \in Rotation /\ rt \in [Rotators -> Rotator] /\ pruning \subseteq 1..MaxVersion
    /\ job \in Job /\ cons \in [Consolidators -> Con]
    /\ stores \in 0..MaxStores /\ failures \in 0..MaxFailures /\ runs \in 0..MaxRuns
    /\ spoiled \subseteq Entities
    /\ Len(job.todo) + Len(job.ready) <= BatchSize

IdleJob == [pc |-> "idle", table |-> 1, todo |-> <<>>, ready |-> <<>>,
            prunes |-> 0, lost |-> FALSE, late |-> FALSE, due |-> {}]
IdleCon == [pc |-> "idle", last |-> FALSE, ver |-> 0, sum |-> Nobody,
            ids |-> {}, got |-> <<>>]
NoRotation == [status |-> "none", from |-> 0, to |-> 0, table |-> 1]
IdleRotator == [pc |-> "idle", from |-> 0, to |-> 0, table |-> 1, got |-> {}]

Init ==
    /\ here = SeedRows
    /\ text = [r \in Rows |-> IF r \in Entities \cap SeedRows THEN SeedText ELSE {}]
    /\ ver = [r \in Rows |-> 1]
    /\ of = text
    /\ model = [r \in Rows |-> IF r \in SeedRows THEN OldModel ELSE NoModel]
    /\ over = {} /\ late = {}
    /\ keys = {1} /\ rot = NoRotation /\ pruning = {}
    /\ rt = [q \in Rotators |-> IdleRotator]
    /\ job = IdleJob
    /\ cons = [c \in Consolidators |-> IdleCon]
    /\ stores = 0 /\ failures = 0 /\ runs = 0
    /\ spoiled = {}

----------------------------------------------------------------------------
(* What the queries return.                                                *)

TableRows == <<Summaries, Episodes, Entities, Facts>>

\* The rows of a table without an embedding by model m.  A fact of a
\* superseded summary is not pending: it is never going to be read.
pending(t, m) ==
    {r \in TableRows[t] \cap here :
        /\ model[r] # m
        /\ t = 4 => \A s \in over : r \notin FactsOf[s]}

Row(r) == [id |-> r, text |-> text[r], ver |-> ver[r], late |-> r \in late]

\* The sequences a SELECT with limit n may return of the rows R.
Selections(R, n) ==
    {[i \in 1..Len(s) |-> Row(s[i])] :
        s \in {SetToSeq(B) : B \in kSubset(Min({n, Cardinality(R)}), R)}}

\* UPDATE ... SET embedding, embedding_model for the rows decrypted to S.
WriteEmbeddings(S, m) ==
    /\ of' = [r \in Rows |-> IF \E x \in S : x.id = r
                             THEN (CHOOSE x \in S : x.id = r).text ELSE of[r]]
    /\ model' = [r \in Rows |-> IF \E x \in S : x.id = r THEN m ELSE model[r]]
    /\ UNCHANGED <<here, text, ver, over, late>>

\* Somebody has read the entity and not yet written its embedding.
Held(e) ==
    \/ \E x \in Range(job.todo) \cup Range(job.ready) : x.id = e
    \/ \E c \in Consolidators : \E x \in Range(cons[c].got) : x.id = e

Due(e) == \E c \in Consolidators : e \in cons[c].ids

----------------------------------------------------------------------------
(* hupi-reembed: run, reembedAll, Continue.                                *)

StartJob ==
    /\ job.pc \in {"idle", "done", "failed"}
    /\ runs < MaxRuns
    /\ runs' = runs + 1
    /\ job' = [IdleJob EXCEPT !.pc = "select",
                              !.due = UNION {pending(t, NewModel) : t \in 1..4}]
    /\ UNCHANGED <<db, ring, cons, stores, failures, spoiled>>

\* Variant: done once the three tables the comment names are.
SelectBatch_threeTables ==
    LET P == pending(job.table, NewModel)
    IN /\ job.pc = "select"
       /\ job' \in IF P = {}
                   THEN {[job EXCEPT !.pc = IF job.table = 3 THEN "done" ELSE @,
                                     !.table = IF @ = 3 THEN @ ELSE @ + 1]}
                   ELSE {[job EXCEPT !.pc = "decrypt", !.todo = s, !.prunes = 0] :
                            s \in Selections(P, BatchSize)}
       /\ UNCHANGED <<db, ring, cons, stores, failures, runs, spoiled>>

\* The SELECT of a table's batch; an empty one moves on to the next table, and
\* past the last one the run is done.
SelectBatch ==
    LET P == pending(job.table, NewModel)
    IN /\ job.pc = "select"
       /\ job' \in IF P = {}
                   THEN {[job EXCEPT !.pc = IF job.table = 4 THEN "done" ELSE @,
                                     !.table = IF @ = 4 THEN @ ELSE @ + 1]}
                   ELSE {[job EXCEPT !.pc = "decrypt", !.todo = s, !.prunes = 0] :
                            s \in Selections(P, BatchSize)}
       /\ UNCHANGED <<db, ring, cons, stores, failures, runs, spoiled>>

\* The invocation ends with an error.
Fails(lost, wasLate) ==
    job' = [IdleJob EXCEPT !.pc = "failed", !.lost = lost, !.late = wasLate,
                           !.prunes = job.prunes]

\* The head of todo is decrypted to x.  Facts are embedded together once all are
\* decrypted, any other row at once.
Decrypted(x) ==
    job' = [job EXCEPT !.todo = Tail(@), !.ready = Append(@, x),
              !.prunes = IF Len(job.todo) > 1 THEN @ ELSE 0,
              !.pc = IF job.table = 4 /\ Len(job.todo) > 1 THEN "decrypt" ELSE "embed"]

\* decryptWithRetry's first try, with the version and ciphertext selected.
Decrypt ==
    /\ job.pc = "decrypt"
    /\ IF Head(job.todo).ver \in keys
       THEN Decrypted(Head(job.todo))
       ELSE job' = [job EXCEPT !.pc = "refetch"]
    /\ UNCHANGED <<db, ring, cons, stores, failures, runs, spoiled>>

\* Variant: the retry reads the version alone and keeps the old ciphertext,
\* which the new key cannot open.
RefetchRow_versionOnly ==
    /\ job.pc = "refetch"
    /\ Fails(TRUE, Head(job.todo).late \/ Head(job.todo).id \in late)
    /\ UNCHANGED <<db, ring, cons, stores, failures, runs, spoiled>>

\* refetchRow: version and ciphertext in one query; the same version again
\* means the key is really gone.
RefetchRow ==
    LET x == Head(job.todo)
    IN /\ job.pc = "refetch"
       /\ IF ver[x.id] = x.ver
          THEN Fails(TRUE, x.late \/ x.id \in late)
          ELSE job' = [job EXCEPT !.pc = "rekey",
                         !.todo[1] = [Row(x.id) EXCEPT !.late = @ \/ x.late]]
       /\ UNCHANGED <<db, ring, cons, stores, failures, runs, spoiled>>

\* GetVersion for the refetched row: there is no third try.
Rekey ==
    /\ job.pc = "rekey"
    /\ IF Head(job.todo).ver \in keys
       THEN Decrypted(Head(job.todo))
       ELSE Fails(TRUE, Head(job.todo).late)
    /\ UNCHANGED <<db, ring, cons, stores, failures, runs, spoiled>>

\* The embedder answers, or the batch is given up with the rows already
\* written in it left as they are.
Embed ==
    /\ job.pc = "embed"
    /\ \/ job' = [job EXCEPT !.pc = "update"] /\ UNCHANGED failures
       \/ /\ failures < MaxFailures
          /\ failures' = failures + 1
          /\ Fails(FALSE, FALSE)
    /\ UNCHANGED <<db, ring, cons, stores, runs, spoiled>>

\* Variant: the rows written are not forgotten.
AfterUpdate_keepReady ==
    job' = [job EXCEPT !.pc = IF job.todo = <<>> THEN "log" ELSE "decrypt"]

AfterUpdate ==
    job' = [job EXCEPT !.pc = IF job.todo = <<>> THEN "log" ELSE "decrypt",
                       !.ready = <<>>]

\* Variant: the model that made the vector is not recorded with it.
Update_unlabelled ==
    /\ job.pc = "update"
    /\ of' = [r \in Rows |-> IF \E x \in Range(job.ready) : x.id = r
                             THEN text[r] ELSE of[r]]
    /\ AfterUpdate
    /\ UNCHANGED <<here, text, ver, over, late, model, ring, cons, stores, failures,
                   runs, spoiled>>

\* One row by id, or a batch of facts in one transaction, whatever has been
\* written to the row since it was selected.
Update ==
    /\ job.pc = "update"
    /\ WriteEmbeddings(Range(job.ready), NewModel)
    /\ AfterUpdate
    /\ UNCHANGED <<ring, cons, stores, failures, runs, spoiled>>

\* LogRun after every batch; then Continue starts over with the first table.
LogRun ==
    /\ job.pc = "log"
    /\ \/ job' = [job EXCEPT !.pc = "select", !.table = 1] /\ UNCHANGED failures
       \/ failures < MaxFailures /\ failures' = failures + 1 /\ Fails(FALSE, FALSE)
    /\ UNCHANGED <<db, ring, cons, stores, runs, spoiled>>

JobStep ==
    SelectBatch \/ Decrypt \/ RefetchRow \/ Rekey \/ Embed \/ Update \/ LogRun

\* The process is killed; there is no position to resume from.
Crash ==
    /\ job.pc \notin {"idle", "done", "failed"}
    /\ failures < MaxFailures
    /\ failures' = failures + 1
    /\ job' = IdleJob
    /\ UNCHANGED <<db, ring, cons, stores, runs, spoiled>>

----------------------------------------------------------------------------
(* Consolidation: storeSummary and the embedding after its commit.         *)

\* upsertEntities: the given attribute over what is kept of the existing ones
\* (all of them in a merge, none when a correction replaces, all but the
\* superseded keys otherwise); existing ones whose key is gone can only be replaced.
MergedTexts(e, p) ==
    {(text[e] \ D) \cup {p} : D \in IF ver[e] \in keys THEN SUBSET text[e] ELSE {text[e]}}

\* storeSummary resolves the key it encrypts the summary and its facts with, ...
ResolveKey(c) ==
    /\ cons[c].pc = "idle"
    /\ stores < MaxStores
    /\ stores' = stores + 1
    /\ cons' = [cons EXCEPT ![c] = [IdleCon EXCEPT !.pc = "store", !.ver = Max(keys)]]
    /\ UNCHANGED <<db, ring, job, failures, runs, spoiled>>

\* The rows written under v are late if v is not the newest version any more.
LateIn(W, v) == IF v < Max(keys) THEN W ELSE {}

\* ... and commits its transaction: a summary with its facts, superseding an
\* earlier one or not, and the upsert of the entities it touches, for which
\* upsertEntities has resolved the key again, some time since.  The embedding
\* columns of an existing entity are left alone.
StoreSummary(c) ==
    /\ cons[c].pc = "store"
    /\ \E s \in Summaries \ here, E \in {{}} \cup {{e} : e \in Entities},
          p \in Patches, old \in SUBSET ((Summaries \cap here) \ over),
          v \in cons[c].ver..Max(keys) :
          LET new == {s} \cup FactsOf[s]
          IN /\ Cardinality(old) <= 1
             /\ here' = here \cup new \cup E
             /\ over' = over \cup old
             /\ ver' = [r \in Rows |-> IF r \in new THEN cons[c].ver
                                      ELSE IF r \in E THEN v ELSE ver[r]]
             /\ late' = (late \ (new \cup E)) \cup LateIn(new, cons[c].ver) \cup LateIn(E, v)
             /\ \E t \in IF E = {} THEN {{}} ELSE MergedTexts(CHOOSE e \in E : TRUE, p) :
                   text' = [r \in Rows |-> IF r \in E THEN t ELSE text[r]]
             /\ spoiled' = (spoiled \ E) \cup {e \in E : Held(e)}
             /\ cons' = [cons EXCEPT ![c] = [IdleCon EXCEPT
                           !.pc = "summary", !.sum = s, !.ids = E]]
    /\ UNCHANGED <<of, model, ring, job, stores, failures, runs>>

\* c writes the embeddings of the rows read as S.
ConWrites(c, S) ==
    /\ WriteEmbeddings(S, ModelOf[c])
    /\ job' = [job EXCEPT !.due = @ \ {x.id : x \in S}]

\* An embedder or database call of a best-effort step fails and is logged.
Logged == /\ failures < MaxFailures
          /\ failures' = failures + 1
          /\ UNCHANGED <<db, job>>

EmbedSummary(c) ==
    /\ cons[c].pc = "summary"
    /\ \/ ConWrites(c, {Row(cons[c].sum)}) /\ UNCHANGED failures
       \/ Logged
    /\ cons' = [cons EXCEPT ![c].pc = "entity"]
    /\ UNCHANGED <<ring, stores, runs, spoiled>>

\* embedEntities, one entity: the stored row is read back, ...
ReadEntity(c) ==
    /\ cons[c].pc = "entity"
    /\ \E e \in cons[c].ids :
          cons' = [cons EXCEPT ![c].pc = "key", ![c].got = <<Row(e)>>,
                               ![c].ids = @ \ {e}]
    /\ UNCHANGED <<db, ring, job, stores, failures, runs, spoiled>>

\* Variant: the name alone is embedded, without the attributes of the row.
EmbedEntity_nameOnly(c) ==
    /\ cons[c].pc = "key"
    /\ Head(cons[c].got).ver \in keys
    /\ cons' = [cons EXCEPT ![c].pc = "write", ![c].got[1].text = {}]
    /\ UNCHANGED <<db, ring, job, stores, failures, runs, spoiled>>

\* ... decrypted and embedded, ...
EmbedEntity(c) ==
    /\ cons[c].pc = "key"
    /\ Head(cons[c].got).ver \in keys
    /\ cons' = [cons EXCEPT ![c].pc = "write"]
    /\ UNCHANGED <<db, ring, job, stores, failures, runs, spoiled>>

\* ... or, its key gone or the embedder failing, passed over, ...
EntityFails(c) ==
    /\ cons[c].pc \in {"key", "write"}
    /\ \/ /\ cons[c].pc = "key"
          /\ Head(cons[c].got).ver \notin keys
          /\ UNCHANGED <<db, job, failures>>
       \/ Logged
    /\ spoiled' = IF cons[c].last THEN spoiled ELSE spoiled \cup {Head(cons[c].got).id}
    /\ cons' = [cons EXCEPT ![c].pc = "entity", ![c].got = <<>>]
    /\ UNCHANGED <<ring, stores, runs>>

\* ... and its embedding written by id.
WriteEntity(c) ==
    /\ cons[c].pc = "write"
    /\ ConWrites(c, Range(cons[c].got))
    /\ cons' = [cons EXCEPT ![c].pc = "entity", ![c].got = <<>>]
    /\ UNCHANGED <<ring, stores, failures, runs, spoiled>>

EntitiesEmbedded(c) ==
    /\ cons[c].pc = "entity"
    /\ cons[c].ids = {}
    /\ cons' = [cons EXCEPT ![c] = IF cons[c].last THEN IdleCon
                                   ELSE [@ EXCEPT !.pc = "facts"]]
    /\ UNCHANGED <<db, ring, job, stores, failures, runs, spoiled>>

\* embedKeyFacts: the texts just stored, in one call and one transaction.
\* RunRollup and Correct return after it; RunDaily goes on.
EmbedKeyFacts(c) ==
    /\ cons[c].pc = "facts"
    /\ \/ ConWrites(c, {Row(f) : f \in FactsOf[cons[c].sum]}) /\ UNCHANGED failures
       \/ Logged
    /\ \E p \in {"episodes", "idle"} : cons' = [cons EXCEPT ![c] = [IdleCon EXCEPT !.pc = p]]
    /\ UNCHANGED <<ring, stores, runs, spoiled>>

\* embedHighImportanceEpisodes: the candidates, ...
SelectEpisodes(c) ==
    /\ cons[c].pc = "episodes"
    /\ cons' = [cons EXCEPT ![c].pc = "episode", ![c].ids = pending(2, ModelOf[c])]
    /\ UNCHANGED <<db, ring, job, stores, failures, runs, spoiled>>

\* ... one at a time; the first failure ends it.
EmbedEpisode(c) ==
    /\ cons[c].pc = "episode"
    /\ \E e \in cons[c].ids :
          \/ /\ ConWrites(c, {Row(e)})
             /\ cons' = [cons EXCEPT ![c].ids = @ \ {e}]
             /\ UNCHANGED failures
          \/ Logged /\ cons' = [cons EXCEPT ![c].ids = {}]
    /\ UNCHANGED <<ring, stores, runs, spoiled>>

\* entitiesMissingEmbeddings, for a second embedEntities.
EntitiesMissingEmbeddings(c) ==
    /\ cons[c].pc = "episode"
    /\ cons[c].ids = {}
    /\ cons' = [cons EXCEPT ![c].pc = "entity", ![c].last = TRUE,
                            ![c].ids = pending(3, ModelOf[c])]
    /\ UNCHANGED <<db, ring, job, stores, failures, runs, spoiled>>

\* The process dies, or its transaction fails.
ConCrash(c) ==
    /\ cons[c].pc # "idle"
    /\ failures < MaxFailures
    /\ failures' = failures + 1
    /\ spoiled' = IF cons[c].last THEN spoiled
                  ELSE spoiled \cup (Entities \cap cons[c].ids)
                         \cup {x.id : x \in Range(cons[c].got)}
    /\ cons' = [cons EXCEPT ![c] = IdleCon]
    /\ UNCHANGED <<db, ring, job, stores, runs>>

ConStep(c) ==
    \/ ResolveKey(c) \/ StoreSummary(c) \/ EmbedSummary(c)
    \/ ReadEntity(c) \/ EmbedEntity(c) \/ EntityFails(c) \/ WriteEntity(c)
    \/ EntitiesEmbedded(c) \/ EmbedKeyFacts(c)
    \/ SelectEpisodes(c) \/ EmbedEpisode(c) \/ EntitiesMissingEmbeddings(c)
    \/ ConCrash(c)

----------------------------------------------------------------------------
(* Key rotation and prune.                                                 *)

\* Start: a new version and the key_rotations row that says so, which a crash
\* after the first may leave unwritten.
StartRotation ==
    /\ rot.status # "in_progress"
    /\ Max(keys) < MaxVersion
    /\ keys' = keys \cup {Max(keys) + 1}
    /\ rot' \in {rot, [status |-> "in_progress", from |-> Max(keys), to |-> Max(keys) + 1,
                       table |-> 1]}
    /\ UNCHANGED <<db, rt, pruning, job, cons, stores, failures, runs, spoiled>>

\* Continue reads the row, and the keys it names.
Continue(q) ==
    /\ rt[q].pc = "idle"
    /\ rot.status = "in_progress"
    /\ {rot.from, rot.to} \subseteq keys
    /\ rt' = [rt EXCEPT ![q] = [pc |-> "batch", from |-> rot.from, to |-> rot.to,
                               table |-> rot.table, got |-> {}]]
    /\ UNCHANGED <<db, keys, rot, pruning, job, cons, stores, failures, runs, spoiled>>

\* The rows of q's table under its old version.
ToMigrate(q) ==
    {r \in here \cap <<Episodes, Summaries, Entities, {}>>[rt[q].table] : ver[r] = rt[q].from}

\* The SELECT of a batch; ...
ReadBatch(q) ==
    /\ rt[q].pc = "batch"
    /\ \E B \in SUBSET ToMigrate(q) :
          /\ B # {}
          /\ rt' = [rt EXCEPT ![q].pc = "update", ![q].got = {Row(r) : r \in B}]
    /\ UNCHANGED <<db, keys, rot, pruning, job, cons, stores, failures, runs, spoiled>>

\* ... an empty one moves on to the next table, ...
NextTable(q) ==
    /\ rt[q].pc = "batch" /\ rt[q].table < 4
    /\ ToMigrate(q) = {}
    /\ rt' = [rt EXCEPT ![q].table = @ + 1]
    /\ rot' = [rot EXCEPT !.table = rt[q].table + 1]
    /\ UNCHANGED <<db, keys, pruning, job, cons, stores, failures, runs, spoiled>>

\* ... and after the last one the rotation is completed.
MarkCompleted(q) ==
    /\ rt[q].pc = "batch" /\ rt[q].table = 4
    /\ rt' = [rt EXCEPT ![q] = IdleRotator]
    /\ rot' = [rot EXCEPT !.status = "completed"]
    /\ UNCHANGED <<db, keys, pruning, job, cons, stores, failures, runs, spoiled>>

\* The rows q's UPDATEs touch: those selected, and with a summary its facts.
Migrated(q) ==
    {x.id : x \in rt[q].got}
      \cup {f \in Facts : ver[f] = rt[q].from /\ \E x \in rt[q].got :
                             x.id \in Summaries /\ f \in FactsOf[x.id]}

\* The UPDATEs of the batch, by id: the text selected, under the new version,
\* whatever has been written to the row since.
UpdateBatch(q) ==
    /\ rt[q].pc = "update"
    /\ ver' = [r \in Rows |-> IF r \in Migrated(q) THEN rt[q].to ELSE ver[r]]
    /\ text' = [r \in Rows |-> IF \E x \in rt[q].got : x.id = r
                               THEN (CHOOSE x \in rt[q].got : x.id = r).text ELSE text[r]]
    /\ late' = (late \ Migrated(q)) \cup LateIn(Migrated(q), rt[q].to)
    /\ spoiled' = spoiled \cup {e \in Entities : text'[e] # text[e]}
    /\ rt' = [rt EXCEPT ![q] = IdleRotator]
    /\ UNCHANGED <<here, of, model, over, keys, rot, pruning, job, cons, stores, failures, runs>>

\* The process dies between two steps; its transaction is rolled back.
RotatorCrash(q) ==
    /\ rt[q].pc # "idle"
    /\ rt' = [rt EXCEPT ![q] = IdleRotator]
    /\ UNCHANGED <<db, keys, rot, pruning, job, cons, stores, failures, runs, spoiled>>

\* Prune's check: the rotation is completed and no row is under an older version.
CheckPrune ==
    /\ rot.status = "completed"
    /\ \E v \in keys : v < rot.to
    /\ \A r \in here : ver[r] >= rot.to
    /\ pruning' = pruning \cup {rot.to}
    /\ UNCHANGED <<db, keys, rot, rt, job, cons, stores, failures, runs, spoiled>>

\* Its delete, in a transaction of its own.
Prune ==
    /\ \E v \in pruning :
          /\ pruning' = pruning \ {v}
          /\ keys' = {k \in keys : k >= v}
    /\ job' = [job EXCEPT !.prunes = IF job.todo = <<>> \/ keys' = keys THEN @ ELSE @ + 1]
    /\ UNCHANGED <<db, rot, rt, cons, stores, failures, runs, spoiled>>

RotatorStep(q) ==
    Continue(q) \/ ReadBatch(q) \/ NextTable(q) \/ MarkCompleted(q) \/ UpdateBatch(q)
      \/ RotatorCrash(q)

Next ==
    \/ StartJob \/ JobStep \/ Crash
    \/ \E c \in Consolidators : ConStep(c)
    \/ \E q \in Rotators : RotatorStep(q)
    \/ StartRotation \/ CheckPrune \/ Prune

\* A started hupi-reembed process is scheduled until it ends.
Spec == Init /\ [][Next]_vars /\ WF_vars(JobStep)

----------------------------------------------------------------------------
(* Properties.                                                             *)

\* decryptWithRetry refetches version and ciphertext together: a batch fails
\* for want of a key only if versions were deleted twice while it was at work,
\* or on a row that was committed under a version already superseded.  No
\* rotation and prune of the rows written in time can make it fail.
OneRotationIsSurvived == job.lost => job.prunes >= 2 \/ job.late

\* Continue's done: when hupi-reembed reports completion, every row of any of
\* the four tables that was pending when it started is on the configured
\* model, whatever was stored, rotated or superseded meanwhile (unless a
\* consolidator embedded that row itself, or a superseding summary has put it
\* out of reach).
DoneMeansDone ==
    job.pc = "done" =>
        \A r \in job.due :
            model[r] = NewModel \/ \E s \in over : r \in FactsOf[s]

\* embedEntities reads the merged row back: once nobody has an entity in hand,
\* an embedding labelled with the configured model is the embedding of the
\* entity's present attributes, unless they were changed while someone was
\* embedding the earlier ones, their own embedding failed, or a rotation's
\* UPDATE put earlier attributes back.
LabelIsTruthful ==
    \A e \in Entities \cap here :
        model[e] = NewModel /\ ~Held(e) /\ ~Due(e) /\ e \notin spoiled
            => of[e] = text[e]

\* reembedAll's loop: an invocation ends, because a row it has written is no
\* longer pending.
RunEnds == job.pc = "select" ~> job.pc \in {"done", "failed", "idle"}
==============================================================================
