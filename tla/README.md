# hupi: TLA+ models, checks and proofs

hupi is a memory layer for chat models: a gateway that looks like an
OpenAI-compatible endpoint, retrieves what it remembers, forwards the turn to a
provider, and captures the turn as an encrypted *episode* in Postgres. Batch
programs consolidate episodes into summaries, rotate keys, re-embed rows, export
and import memory. Nothing is coordinated by a central process: the gateway, the
cron jobs and the operator's commands meet only in the database. That is where
the hard behaviour is, and what these models are about.

## 1. Inventory

| Part | State it keeps | Operations | What is hard | What makes it correct |
|---|---|---|---|---|
| Key store `internal/crypto/keystore.go` | `scope_keys` (scope, version → wrapped data key), a cache per process | `GetOrCreate`, `GetVersion`, `CreateNextVersion`, eviction | creation race between processes; a cache that outlives what it caches | all processes agree on the key of a version |
| Key rotation `internal/rotate`, `hupi-rotate-key` | `key_rotations` (from, to, cursor), `key_version` of every encrypted row | `Start`, `Continue` (batches of three tables, facts with their summaries), `Prune` | runs killed and resumed, overlapping runs, writes during the migration | every row committed in time is migrated, stays readable and keeps its content; rotation finishes |
| Episode capture `internal/store/capture.go` | `episodes`, refs, audit log | `Capture` of a turn or of feedback | key resolved before, row committed after, on the request's context | an episode is what the client saw |
| Summary history `internal/consolidation/runner.go`, `store.go` | `summaries` with `supersedes`, key facts | `RunDaily`, `RunRollup`, `refreshRollupsCovering`, `Correct` | minutes between reading a predecessor and storing its successor; cron, demo and operator at once | a history stays a chain; corrections survive; rollups reflect their sources |
| Contradiction checks `contradiction.go` | the same | find, judge and correct related summaries | they correct summaries other runs are replacing | as above |
| Entities and relationships `store.go` | `entities`, `relationships` | read-merge-write upserts | first insert, lock order, rotation in between | no merge is lost |
| Grounding, clusters, supersession, prompts | none | per-cluster generation, checks of model output | – | – |
| Demo `internal/demo`, `cmd/hupi-demo*` | `demo_sessions`, guests and all they wrote | `CreateSession`, `Resolve`, `ConsolidateNow`, `Sweep` | a cap counted over a window whose rows are swept; requests in flight during a sweep | the cap holds; live guests are kept; the content and keys of expired ones disappear |
| Gateway `internal/gateway` | the turn being answered | chat (streamed or not), feedback | client, handler and reading goroutine interleave; cancellation | one answer, stored as shown, before the client is told it is done |
| Provider adapters `internal/provider` | none | `sendWithRetry`, `connectWithRetry`, stream readers | which failures may be retried; blocked sends | one billed generation; no goroutine left behind |
| Retrieval `internal/store/retrieve.go`, `temporal.go`, `bm25.go` | none; reads rows and keys | gate, seven searches, graph walk, budget | statements at different moments while rows are superseded and keys rotated; the same row found several times | what is cited was current, is cited once, and a half-done rotation is not noticed |
| Re-embedding `internal/reembed`, `hupi-reembed` | embedding and model of each row | `Continue` in batches over four tables, `LogRun` | rows rotated or pruned between SELECT and decrypt; entities changed between read and write; no saved position | done means nothing is left; a label names the model and the text of its vector; a run ends |
| Export, import `internal/hpmf`, `hupi-export`, `hupi-import` | bundles | export of episodes, summaries, entities; import, with or without `-merge` | imports repeated, killed between or inside phases, beside a scope in use; ids that are taken | every history arrives whole or not at all; what is left out is a duplicate; feedback refers to the interaction it rates |
| Identity, admin, dashboard, audit, ingest, bench, metrics | users, teams, keys | single statements, reads, reports | – | – |

The parts interact through rows only: writers resolve a key version
(`GetOrCreate`), encrypt, and commit later in a transaction of their own;
rotation re-encrypts these rows; consolidation reads episodes and writes
summaries, facts and entities, and embeds them after the commit; `hupi-reembed`
embeds them anew; retrieval reads all of them in statements of their own; export
and import move them between scopes; the demo sweep deletes what a guest wrote and its key.
`PROJECT.json` lists every component with its status, and, under `hazards`, each
place where an order of steps that no test writes down can go wrong.

## 2. Modules

| Module | Models |
|---|---|
| `KeyRotation` | key store, rotation and the three encrypting write paths, for one scope |
| `KeyRotationProofs` | theorems about it |
| `SummaryChain` | the version history of days and rollups of one scope |
| `SummaryChainProofs` | theorems about it |
| `DemoSessions` | guest sessions, their requests and the sweep |
| `DemoSessionsProofs` | theorems about it |
| `ChatTurn` | a turn: handler, retry loop, stream goroutine, client, capture, feedback |
| `ChatTurnProofs` | theorems about it, and that it implements `TurnContract` |
| `TurnContract` | what a turn promises its client, without vendor, retries, goroutines and database |
| `Reembed` | `hupi-reembed`, the embedding that consolidation does itself, and a rotation as both meet it |
| `ReembedProofs` | theorems about it |
| `MemoryImport` | export of a scope, and its import into another |
| `MemoryImportProofs` | theorems about it |
| `Retrieval` | one `Retrieve` call, statement by statement, against writers and a rotation |
| `RetrievalProofs` | theorems about it |
| `LibraryLemmas` | what the operators of the community modules that the specifications use return (`Max`, `Min`, `SetToSeq`), and the least element of a set of naturals, for the proofs |
| `MC*` | the instances TLC checks (rows and tables, calendar, symmetry) |

Definitions called `X_something`, marked *Variant*, stand directly before the
definition `X` they vary: each is `X` with a plausible mistake, and shows that
the properties can tell the difference. They are not part of any specification.

### KeyRotation

One action is one transaction, or one statement outside a transaction. Postgres
runs READ COMMITTED without row locks in `migrate*Batch`, so a batch is two
actions, `BatchSelect` and `BatchUpdate`. A data key is the name of the actor
that generated it; a ciphertext is `[ver, dek, val]`: the version recorded beside
it, the key it was really encrypted with, and the writers whose text it contains.
With that, using a wrong key, losing an update or leaving a row behind are all
visible. `Home` assigns actors to processes; each process has a `cache`, lost in
a `Crash`, together with its goroutines and its session lock.

| Actions | Code |
|---|---|
| `ResolveCurrent`, `CreateVersion`, `LoadKey` | `GetOrCreate`, `createVersion`, `GetVersion` |
| `InsertRow` | `Capture`, `storeSummary` (a summary with its facts) |
| `UpsertExisting`, `UpsertReplace`, `UpsertMiss`, `UpsertInsert` | `upsertEntities`, merging or replacing (`Correct`), found or not found |
| `StartLock` … `StartRow` | `Start` under its advisory lock |
| `ContinueBegin` … `MarkCompleted` | `Continue` and its batches |
| `PruneBegin` … `PruneDelete` | `Prune`: check and delete are two transactions |

`late` is a history variable: the rows whose present ciphertext was committed
under a version that a recorded rotation had already superseded. It names exactly
the rows the protocol cannot help, and lets the properties be about all others.

### SummaryChain

A period's history is a sequence of rows; a row records what it `supersedes`,
when its transaction began, what its text is derived from (`says`), which source
rows it `read`, and whose correction it is. The text a language model writes is
what it was given. `DailyEpisodes`, `DailyCurrent`, `RollupCurrent`, `RollupStale`,
`RollupLoad` are the separate reads of a run; `BeginStore` and `CommitStore` the
storing transaction (with the unique index on `supersedes`); `Refresh` and
`NextRollup` the refresh of the rollups above; `FindContradictions`,
`FixContradiction` and `Correct` the corrections. Any call may fail (`CallFails`)
and any process may die (`Crash`). `apart` is a history variable: no two
consolidations have overlapped so far.

### DemoSessions

Time is a counter. `LockCap` … `InsertSession` are `CreateSession` with the user
and key it provisions in between; `Chat`, `ConsolidateNow`, `Recall`,
`ReadDay`, `ResolveKey`, `WriteData`, `UpdateCounts` a guest's requests: what a request
retrieves and writes leaves audit rows (`log`), and a consolidation a row of
`scope_corpus_size` (`counts`); `SweepQuery`, `SweepGuest`,
`SweepRows` the sweep's phases. `MaxSweepTime` is an assumption: a sweep is over
before `CapWindow` has passed again. `SweepGuest` deletes what `deleteGuest` deletes: the
guest's rows of content, its key and its user, and neither `counts` nor `log`.

### ChatTurn

`turn` is the handler, `src` the goroutine that reads the vendor's stream, `client`
what the client has seen. An answer is its number of deltas. The channel is
unbuffered, so `Deliver` is a joint step of goroutine and handler. `client.gone`
is the cancelled request context: `net/http` cancels it when the client leaves,
and (`CtxDone`) when the handler returns. Retrieval, attachments and the
aggregation hint change the text that is sent and never fail a turn (a bad
attachment is `Reject`), so they are part of `Request`; the attribution check is
part of `Finish`. `billed` counts generations of the answer; the hint and the
check are calls of their own.

`Contract` instantiates `TurnContract` with what the client has `seen`, the
episodes (`memory`), and whether the one attempt to capture failed or was skipped
(`lost`). In the contract a turn shows pieces, makes one attempt to remember, ends
well or badly, and may be rated; what is remembered is what was shown, a failed
turn has shown and remembered nothing, and only a remembered turn can be rated.

### Reembed

A row has a `text`, a key version `ver`, and an embedding: the text it was computed
from (`of`) and the `model` that computed it. `SelectBatch` is the SELECT of
`reembed*Batch` for the table `Continue` has reached; `Decrypt`, `RefetchRow` and
`Rekey` are `decryptWithRetry`, `Embed` and `Update` the embedder call and the
UPDATE by id (one row at a time, facts together), `LogRun` the audit entry after
which `reembedAll` starts again at the first table. `ResolveKey` and `StoreSummary` are
`storeSummary`, which takes its key before its transaction, and the steps after them what
`RunDaily` and `RunRollup` embed once it has committed: the summary, the entities as they are
stored now, the facts, important episodes, entities without an embedding.
A rotation is `StartRotation`, then `Continue`, `ReadBatch`, `UpdateBatch`, `NextTable` and
`MarkCompleted` by any number of rotators; `CheckPrune` and `Prune` are the two transactions
of a prune. What `Start` does under its lock is one step, key caches are left out, and
`KeyRotation` has that detail. `UpdateBatch` writes by id what `ReadBatch` selected, so it
can put an entity's earlier text back. Two history variables name what the code cannot
help: `late`, the rows last written under a version that was no longer the newest, and
`spoiled`, the entities whose text changed while someone had read it to embed it, whose own
embedding failed, or whose earlier text a migration put back.

### MemoryImport

`ExportEpisodes`, `ExportSummaries`, `ExportEntities` are the three transactions of an
export, between which the source scope may change (`SourceWrites`); `OpenOut` truncates the
output file, which may be the earlier bundle's, and `Pack` completes the new bundle; an
export that dies in between leaves a partial file, on which an import fails. `CheckEmpty` …
`ImportEpisodes` are the phases of an import, each with its `LogPhase`; summaries commit
period by period (`ImportPeriod`, `CommitPeriod`), with `periodExists` asked first; episodes
are one transaction, folded record by record with `InsertEpisode`, which dedupes by hash,
takes a fresh id where the exported one is taken, and remaps `refers_to`. The target scope
captures and consolidates meanwhile: a consolidation may have read the period's current
version, or that there is none, at any earlier moment (`Extensions`), as `RunDaily` reads at
`runner.go:117` and stores at `:182`. The source's histories are written the same way, so a
bundle may hold a history with two first versions. `ImportFails` is a kill or an error at
any point; the next import needs `-merge` if anything was committed. What the source does
after the last import has begun is left out (`SourceInUse`): no import can see it. `given`
remembers the history a period was imported from, `raced` the periods consolidated between
`periodExists` and the insert, or by a first version that was stored when there already was
one.

### Retrieval

Each SELECT of `Retrieve` is an action that reads rows with the key version they
are under at that moment (`r.batch`); the `Open*` actions after it look up that version
(`Openable`: cached, or still in `scope_keys`) and go on, or fail. The order is the
code's: anchor, stage-1 entities, the embedding of the query, entity narrowing, vector,
keyword and fact search for summaries, the pick with its separate `LoadKeyFacts`,
episodes, entities, their keyword searches, the graph walk. What a search by
similarity or words finds is any set its WHERE clause lets through, up to its
limit. `Insert` and `Relate` are the scope in use, under a
key version resolved at any earlier moment; `NewVersion`, `SelectBatch`, `Migrate`,
`CheckPrune`, `Prune` a rotation, its batches (SELECT, then UPDATE by id) and its prunes (check,
then delete) in two steps each. `late` names the rows last written under a version that a
prune had already checked or deleted.
`r.fresh` collects the summaries that were current at some moment of the call,
`r.excused` the reasons for which a retrieval may fail.

## 3. Runs

| Run | Bounds | What it shows |
|---|---|---|
| `KeyRotation_resume` | one capture, one summary with a fact, four rows, one rotation run that may start again, three versions, one crash, `-batch-size 0`, pruning | a rotation killed anywhere and resumed: rows committed in time stay readable and leave the old version, facts move with their summary, no insert is lost, the newest key is kept, the rotation finishes |
| `KeyRotation_overlap` | two rotation runs, one upsert, one correction, an entity row, scope with or without a key, three versions, no pruning | the race for the first key and for the next: all agree on the key of a version; while a rotation is in progress a row goes back to an older version only by an upsert that took its key, or a batch that was selected, before that rotation began (both do happen) |
| `SummaryChain_histories` | two consolidators, one operator, two days, a week, a month, three stores, one failure; consolidators are symmetric | no fork, corrections kept, rollups never fall back, a day first stored after its week and month reaches both (a day stored *again* does not: `SummaryChain_stale_rollup`) |
| `DemoSessions_cap` | three guests, one request, cap 1, one failure, five ticks | daily cap over every window, sweepability of guests not abandoned half made, no content or key of a swept guest unless a request raced, live guests kept, expired ones swept |
| `ChatTurn_turn` | one turn, five attempts (the code's `maxRetries`), three chunks | one generation, truncation flagged, what is stored is no less than what the client was shown, done after capture, errors clean, nothing leaks; and the turn implements `TurnContract` |
| `Reembed_switch` | two summaries, one with a fact, an episode, an entity; one consolidator on the new model, one store, one rotator, batches of two, two key versions, one failure, one run | a rotation and prune of rows written in time never fails a batch, done means done, labels are truthful but for the cases of `spoiled`, a run ends |
| `MemoryImport_merge` | two source records (an interaction and feedback on it), a local one with the same words, one period of up to two versions, two exports, two imports, one failure, one or two databases | an imported history is whole and the period a chain unless `raced`; what is left out is a duplicate by hash; feedback refers to the interaction it rates unless an earlier import renamed that |
| `Retrieval_answer` | a day, its correction and a week, an episode, two entities and the self model, two key versions, batches of three, one batch in hand, at most two results per search, one walked entity, four questions (empty; nothing named; an entity and days it is not of; an entity and no days) | cited summaries were current and in the days asked about, nothing is cited twice, keys are missing only in the two windows of the code and for late rows |
| `KeyRotation_start_crash` | *violated* | a crash between `CreateNextVersion` and the `key_rotations` row leaves rows behind for good |
| `KeyRotation_lost_upsert` | *violated* | an upsert between a batch's SELECT and UPDATE is overwritten |
| `SummaryChain_stale_rollup` | *violated* | a re-consolidated day never makes its week stale |
| `ChatTurn_disconnect` | *violated* | a partial turn is captured on the context that was just cancelled, and is lost |

The last four state what a comment or a document of the repository promises;
`findings` in `PROJECT.json` quotes the line.

Why the bounds suffice. Rotation treats rows independently but for a summary and
its facts, and actors meet in pairs: two writers and a run, or two runs and two
writers, contain each pairwise order; three versions are needed for "the next
rotation begins while something of the last is in hand". Turns share no state, so
one is enough; three chunks give a first, a middle and a last one. The sweep and
the cap meet within one `CapWindow` plus one `SessionTTL`, which five ticks cover.
A summary race needs two storers and a third row to see the damage, and a backfill
two days and a rollup over a rollup. Re-embedding meets a rotation in the batch it
holds, and a batch of two has a row before and a row after the one in trouble; two versions
and one rotator give a rotation in batches, a late row under the pruned version and a text
put back. The second prune that `decryptWithRetry` does not survive, a second rotator and a
second run (which starts from whatever the first left) are covered by the proofs alone. An
import meets what an earlier import, the target's own captures or an export at another
moment left behind: two of each. A retrieval cites a row twice if any two searches find
it, and is overtaken by one correction, one relation, one rotation; with one walked entity
the second hop of the graph walk is covered by the proof of `CitedOnce` alone, and so are
two batches of different rotations at once.

What the bounds leave out: `RotationFinishes` is checked for one rotation run at a time, not
for two that hinder each other; `ExpiredIsSwept` for a guest whose deletion fails once, not
every time (then no guest after it in the list is ever swept).

`CHECK_DEADLOCK FALSE` throughout: every model may come to rest once its writers
have written, its episodes are captured, its clock or its store bound is used up.

### Behaviours known not to satisfy the stronger property

These were met while choosing the properties; most are hazards with a note in
`PROJECT.json`, and the passing properties name and exclude exactly these cases:

- a write that resolved its version before `Start` and commits after the rotation
  completed stays on the old version (`late`); if `Prune` deletes that version
  between its check and the commit, the row is unreadable: every re-embedding batch that
  selects it and every retrieval that reads it fails;
- a delayed `Continue` of a finished rotation moves the cursor of the next one
  (`setCursorTable` and `markCompleted` do not name their rotation), and a batch it had
  selected puts its rows back under the older version;
- two first upserts of one entity: `for update` has no row to lock;
- a first write delayed until version 1 was rotated away and pruned creates
  version 1 again, with another key;
- two first consolidations of a day both insert a row that supersedes nothing;
- a request in flight when its guest is swept writes data and a key no later sweep
  finds; and a swept guest's `scope_corpus_size` row and audit rows stay in any case, although
  `cmd/hupi-demo-sweep/main.go:2` and `docs/INSTALL.md:543` speak of "everything they wrote";
- a guest whose `CreateSession` failed after `CreateUser` has no session row and is never
  swept; a session life longer than the cap's window (excluded by `DeadlineAssumption`)
  would have the same effect;
- a stream that ends with neither stop nor error is stored as a whole answer;
- two overlapping consolidations: `created_at` is the transaction's start, so a source
  stored late by the earlier one looks older than the rollup that missed it; and after
  a failure between a day and its rollups nothing remembers the refresh;
- re-embedding: an entity changed between an embedder's read and its UPDATE by id keeps the
  older text's vector under the current label, and so does one whose embedding after an
  upsert fails, or whose upsert a key migration overwrites after it was embedded;
  `-batch-size 0` reports done with every row pending; a batch that fails half way has
  committed rows without an audit entry, although `cmd/hupi-reembed/main.go:96` speaks of no
  such window;
- import: a period consolidated between `periodExists` and the insert has two first
  versions, and so has one for which a consolidation that had found none stores after an
  import or another consolidation; duplicates are recognised by hash alone
  (`docs/MEMORY_FORMAT.md:228` says by id and hash), so of two interactions with the same words one
  arrives, and of all feedback, whose hash is empty, one row at most; feedback keeps the
  exported id when its interaction was skipped as a duplicate (in another database the
  foreign key then fails the import), or when an earlier import had renamed it
  (`docs/GAP_CLOSURE_PLAN.md:311` wants it remapped); a kill
  between a phase's commit and its `logPhase` leaves it unlogged; two imports at once
  (not modelled) can insert an interaction twice; `retrieved_refs` and
  `source_episode_ids` are not remapped;
- an export to the file of an earlier bundle destroys that when it is opened: killed before
  `Pack` is done, it leaves neither;
- an export's three transactions see three moments: a summary may speak of an episode
  the bundle does not hold;
- retrieval: a summary migrated between its SELECT and `loadKeyFacts`, or a version
  pruned between a SELECT and its lookup, fails the call, and the turn is answered
  without memory; an old and a new version of one period may both be cited when the
  correction falls between two statements; walked entities ignore the days asked about.

## 4. Fairness

- `KeyRotation`: a run that can take a step takes it, and while a rotation is in
  progress `hupi-rotate-key` is run again (its documentation asks for cron). Writers
  get no fairness.
- `DemoSessions`: `hupi-demo-sweep` is run by cron and is weakly fair; requests
  and session creations are not.
- `ChatTurn`: runnable goroutines run; a call, a backoff or a read returns once its
  context is done, as `net/http` and `select` guarantee. The vendor may fall silent
  for ever, and the client may stay for ever: neither is fair.
- `Reembed`: a started `hupi-reembed` process is scheduled until it ends
  (`WF_vars(JobStep)`). Nothing else is fair; `RunEnds` says that its loop ends.
- `SummaryChain`, `MemoryImport` and `Retrieval` claim no liveness: nothing guarantees
  that a period is consolidated again, or that a failed import is repeated, and a
  retrieval has no loop but the walk, which is bounded.

## 5. Proofs

TLAPS proves, for all values of the constants that satisfy the named assumptions:

- `TypeCorrect`: `KeyRotation`'s `TypeOK`, including `InHand` (no action is ever
  handed a version or key it has not resolved).
- `PruneSafe`: `UnreadableOnlyIfLate`. It is not inductive: a prune deletes keys
  long after it checked. The invariant `PruneInv` adds that `Start` holds its lock
  (`StartHeld`), that the recorded version exists (`RecordedExists`), that the
  version a `Start` is about to record is newer than the recorded one
  (`StartAhead`), that a prune never reaches above the recorded version
  (`PruneBehind`), that since its check only late commits use what it will delete
  (`PruneChecked`), and that a version in hand exists or is already superseded
  (`InHandUsable`). This covers overlapping runs with pruning, which no run does.
- `NewestKept`: the action property `NewestKeyKept`, from `PruneInv`.
- `OneKeyPerVersion`: `OneDEKPerVersion`, if the scope had a key from the start or nothing is
  pruned (without either it is false: the hazard at `keystore.go:75`). The property
  looks at rows and caches; `KeyInv` also at what a writer or a run holds in a variable as
  the key of a version (`Agree`), and says why no second key of a version can be made
  (`Backed`).
- `EpisodesAndSummariesKept`, `InsertsAreKept`: `NoLostWrite` for the tables that are only
  inserted into, and as it stands in a scope without entities. `WriteInv`: a
  row is inserted once, by its writer, and the plaintext a run has in hand is what the row
  says, so writing it back changes nothing. Entities are excluded by hypothesis, because
  for them the property is false (`KeyRotation_lost_upsert`, and the hazard at
  `store.go:413`).
- `RotationComplete`, `FactsFollow`: `MigrationComplete` and `FactsInLockstep`, for any rows,
  writers, crashes, restarts and batch size, under `OneAtATime`: either one rotation run at a
  time, or any number of runs of the one rotation that two versions allow. Overlapping runs of
  different rotations are the hazard at `rotate.go:297`, where both are false. `TurnInv` follows
  the cursor: a run at work is at work on the recorded rotation (`SameRotation`), which goes to
  the newest version (`Ascending`), and in the tables the cursor has passed only late rows
  are on the old one (`PassedIsClean`), although others write there meanwhile.
- `OnlyForwards`: the action property `OnlyOvertakenGoBack`, without that hypothesis: any number
  of overlapping runs of any rotations. `AscendingInvariant` is what is left of `TurnInv` then:
  a rotation in progress goes to the newest version there is, so who moves a row back holds
  an older one.
- `OneBilledGeneration`, `EpisodeIsWhatWasSent`, `CutAnswersAreFlagged`,
  `CaptureBeforeDone`, `ErrorsAreClean`: the safety properties of `ChatTurn`, for any
  retry limit and answer length. The invariant says stage by stage what is billed,
  buffered, shown and stored: nothing until the vendor answered (`NothingYet`); the
  buffer lags what the goroutine read by the chunk it is sending (`Buffered`); a
  client that is there was sent the buffer (`Shown`); an episode equals the buffer
  (`Stored`). `EpisodeIsWhatWasSent` is `EpisodeHoldsWhatWasShown`: the episode has every chunk the
  client has seen, also when the vendor breaks off; it says nothing of a turn that is not
  stored. Every step touches one turn, so each action is proved for its turn
  (`Keeps`) and `KeepsInv` adds the others.
- `TurnTyped`: `ChatTurn`'s `TypeOK`, from the same invariant.
- `TurnRefines`: `ChatTurn` implements `TurnContract`. The initial state maps to the
  contract's; each action is one of the contract's steps or changes nothing of what it
  speaks of, under the invariant above and one more fact, `Untried`: before its capture a
  turn has no outcome of it, so there is only one attempt.
- `HistoriesTyped`, `NeverForks`, `CorrectionsSurvive`, `RollupsOnlyMoveForward`, for any
  calendar and any number of processes, stores and failures. None of the last three is
  inductive, because a process stores minutes after it read. The invariant judges histories
  by themselves (`GoodHistories`: a row supersedes an earlier one, creation times are
  distinct, a history that began once is a chain, and so on) and what a process has in hand
  against the histories it read (`Good`): a successor of a day includes all its predecessor
  says, a successor of a rollup has read no older source. Histories only grow, so `Good`
  survives the steps of others; the unique index makes the commit's predecessor the current
  row, so the new row inherits from it. That a history has at most `MaxStores` rows is a
  pigeonhole argument over their distinct creation times (`Stamps`).
- `NoDayIsMissed`: `RollupMissesNoDay`, the last of `SummaryChain`'s safety properties. It
  speaks of the moment when everybody is at rest; `CalmInv` says what holds on the way:
  whatever a current rollup misses began after it, so `rollupIsStale` will see it, and
  some consolidation still owes the refresh (`Debts`, `Pays`): it has just stored the source,
  or has the rollup on its list or in hand. That needs consolidations to follow each other
  (`Solo`), hence a period to begin once, and a store in hand to know every source there is
  and be younger than every rollup it will have to be noticed by (`Begins`, `Ready`).
- `SessionsTyped`, `GuestsAreFound`, `SweptGuestsAreGone`, `LiveGuestsAreKept`, `CapHolds`:
  all of `DemoSessions`' safety, for any number of guests, requests and ticks
  (`SweptGuestsAreGone` is `SweptContentGone`: the corpus-size and audit rows are in the model and
  not in the claim). `LifeInv`
  follows a guest from its provisioning to its deletion: who holds the lock
  (`Provisioning`), what its row says and when it may be gone (`RowInv`), that nobody
  live is on a sweep's list and that whoever is missing from it had still to expire when
  the sweep began (`ListInv`), what may be left of it (`TraceInv`). `CapInv` adds that
  between the count and the insert, both under the lock, there is room for one more:
  a swept row is too old for any window the next session falls into.
- `ReembedProofs`: `Typing`, `RotationSurvived` (`OneRotationIsSurvived`), `Done`
  (`DoneMeansDone`), `Truthful` (`LabelIsTruthful`): all of `Reembed`'s safety, for any
  rows, consolidators, batch size and number of versions. The invariant says where a
  batch stands in its table (`BatchInHand`); that a key the process has fetched still
  opens what it selected unless a version was deleted since, and after the refetch unless
  two were, or the row was late (`KeysHold`, with `Rotating` for the versions rotators and
  prunes have in hand); that every row behind the cursor is settled (`PassedIsSettled`);
  and, for entities, who is still to embed a change and that whoever holds a text holds
  the present one (`Turns`, `EntitiesTrue`).
- `RetrievalProofs`: `Typing`, `Fresh` (`AnswersFromCurrent`), `Once` (`CitedOnce`), `Unnoticed`
  (`HalfRotationUnnoticed`): all of `Retrieval`, for any rows, limits, questions, writers,
  overlapping batches and prunes. A row that is not late has its key, and no prune under way
  will delete it (`Database`); of late rows nothing is claimed, and `TypeOK` only says that
  some key version exists. Stage by stage the
  invariant says under which versions what was read can still be opened
  (`KeysHold`), that candidates were current when they were read (`FreshHold`), and what
  may be cited by now while what is in hand is not (`CitesHold`).
- `MemoryImportProofs`: `Typing`, `Whole` (`HistoryWhole`), `Arrive` (`EpisodesArrive`): all
  of `MemoryImport`, for any logs, periods and number of exports, imports and failures. A
  period's history is local versions with at most one imported history among them, and a
  chain if that is one and the period was not raced (`GoodPeriod`); a bundle, whole or
  partial, holds a prefix of the source's log and histories whose versions supersede earlier
  ones (`Exports`); imported rows have ids no capture has and hashes of their own
  (`GoodRows`), feedback refers to its row or to one an earlier import renamed (`Refers`),
  and comes after the interaction it rates or a duplicate of that (`RatedIn`).
  `ImportEpisodes` is a fold over the records of a bundle. Its proof is an induction after
  all: `FoldSteps` unfolds the library's `FoldLeft` into one state per record, `NextRecord`
  shows that `InsertEpisode` keeps the accumulator `Merged`, and of the records after which
  it were not, the least (`Least`) would contradict that.

Assumptions: in `KeyRotation`, actors are distinct, a rotation run has a process of
its own (it is a command), facts have a summary and exist from the start if it does,
bounds are naturals; in `Reembed` and `Retrieval`, rows of different tables are
different and finitely many, there is a first key version, and a batch is not empty;
in `MemoryImport`, episode ids are distinct in a log and between the two, and feedback
names an earlier episode of its log; in `ChatTurn`, at least one attempt; in
`SummaryChain`, days and rollups are distinct, a rollup's sources are other periods
and a period is the source of one rollup; in `DemoSessions`, a session's life is not
longer than the backstop and, with the time a sweep takes, than the cap's window
(`DeadlineAssumption`; the defaults are 3, 24 and 24 hours, and
`HUPI_DEMO_SESSION_TTL` is the deployment's to choose: one longer than the window
would let phase 2 of a sweep delete the row a live guest is found by).

Only model-checked: liveness (`RotationFinishes`, `ExpiredIsSwept`, `NothingLeaks`, `RunEnds`),
which is outside the prover's reach. Every other property of a passing run is a theorem,
and where a theorem has a hypothesis the runs' instances satisfy it.

## 6. Not modelled, and the plan

Not modelled: cryptography (a ciphertext carries its key), prompts, grounding,
clustering and the judgment of language models (inside one model call of
`SummaryChain`), scores (BM25, MMR, vector distance), SQL ranking, the parsing of time
expressions and the token budget of retrieval (a search finds any set its filters allow), wire
and file formats (a bundle is its records; no tar or age), row-level
security policies, `-all` of export and import, frontends, benchmarks, metrics, ingest
and configuration: they keep no state that two actors share, or are the database's.

Next, in this order:

1. `Entities`: several entities per transaction (lock order), relationships,
   predicates and their supersession.
2. The per-IP limiter of the demo; per-cluster generation as the refinement of
   `SummaryChain`'s one model call.
3. An abstract memory store (append an episode; a history per period; delete a scope)
   that `KeyRotation` and `SummaryChain` implement.
4. Proofs: `NoLostWrite` of entities whose upserts do not meet a batch; the store of
   item 3 as a refinement.
