---------------------------- MODULE KeyRotation ----------------------------
(***************************************************************************)
(* The per-scope data-encryption keys of hupi and their online rotation,   *)
(* for one scope: KeyStore (internal/crypto/keystore.go), the rotation     *)
(* runner (internal/rotate/rotate.go) as `hupi-rotate-key` drives it, and  *)
(* the three write paths that encrypt under the current key: Capture       *)
(* (internal/store/capture.go), storeSummary and upsertEntities            *)
(* (internal/consolidation/store.go).                                      *)
(*                                                                         *)
(* One action is one database transaction or one statement outside a       *)
(* transaction: everything a goroutine does between two of them is local.  *)
(* Postgres runs them READ COMMITTED, so a batch that SELECTs and later    *)
(* UPDATEs in one transaction is two actions.  A data key is named by the  *)
(* actor that generated it; a ciphertext is the version recorded beside    *)
(* it, the key it was really encrypted under, and what it says.            *)
(***************************************************************************)
EXTENDS Integers, FiniteSets

CONSTANTS
    Writers,        \* goroutines that each store one thing
    Correctors,     \* the writers that are calls of Runner.Correct
    Rotators,       \* invocations of hupi-rotate-key
    Procs,          \* operating-system processes, each with its own KeyStore
    Home,           \* the process an actor runs in
    Rows,           \* ids of encrypted rows
    TableOf,        \* the table of a row
    ParentOf,       \* the summary a key fact belongs to
    SeedRows,       \* rows stored before the modelled period, under version 1
    Provisioned,    \* has the scope a key when the modelled period starts?
                    \* The answers to be considered
    Pruning,        \* does the operator ever run -prune-old-versions?
    BatchSize,      \* the -batch-size the operator asks for
    MaxBatchSize,   \* rotate.MaxBatchSize
    MaxVersion,     \* bound: no version above this one is created
    MaxCrashes,     \* bound on process crashes and failed rotation runs
    Genesis,        \* the creator of version 1 of a provisioned scope
    NoDEK,          \* no key
    Nobody          \* nobody holds the advisory lock

Actors == Writers \cup Rotators
DEKs == Actors \cup {Genesis}
Versions == 1..MaxVersion
Tables == {"episodes", "summaries", "facts", "entities"}

ASSUME ActorAssumption ==
    /\ Writers \cap Rotators = {}
    /\ Correctors \subseteq Writers
    /\ Genesis \notin Actors
    /\ NoDEK \notin DEKs
    /\ Nobody \notin Rotators
    /\ Home \in [Actors -> Procs]
    /\ \A r \in Rotators, a \in Actors : Home[a] = Home[r] => a = r
ASSUME RowAssumption ==
    /\ TableOf \in [Rows -> Tables]
    /\ ParentOf \in [Rows -> Rows]
    /\ \A f \in Rows : TableOf[f] = "facts" => TableOf[ParentOf[f]] = "summaries"
    /\ Rows # {}
    /\ SeedRows \subseteq Rows
    \* a summary is stored together with its facts
    /\ \A f \in Rows : TableOf[f] = "facts" =>
          (f \in SeedRows <=> ParentOf[f] \in SeedRows)
    /\ Provisioned \subseteq BOOLEAN
    /\ Pruning \in BOOLEAN
ASSUME BoundAssumption ==
    /\ BatchSize \in Int
    /\ MaxBatchSize \in Nat \ {0}
    /\ MaxVersion \in Nat \ {0}
    /\ MaxCrashes \in Nat

VARIABLES
    keys,       \* scope_keys: version -> wrapped DEK
    cache,      \* KeyStore.cache of each process
    rot,        \* the scope's key_rotations row
    lock,       \* holder of Start's session advisory lock
    rows,       \* the encrypted rows of all four tables
    wr,         \* what each writer has in hand
    rt,         \* what each rotation run has in hand
    late,       \* history: rows whose ciphertext was committed under a version
                \* older than the to_version recorded at that moment
    crashes     \* history: how many crashes have happened

vars == <<keys, cache, rot, lock, rows, wr, rt, late, crashes>>

----------------------------------------------------------------------------
(* Types.                                                                  *)

Row == [ver : 0..MaxVersion, dek : DEKs \cup {NoDEK}, val : SUBSET Writers]
NoRow == [ver |-> 0, dek |-> NoDEK, val |-> {}]

RotationStatus ==
    [status : {"none", "in_progress", "completed"},
     from : 0..MaxVersion, to : 0..MaxVersion,
     table : {"episodes", "summaries", "entities", "done"}]

Writer ==
    [pc : {"idle", "create", "load", "write", "insert", "done"},
     row : Rows, ver : 0..MaxVersion, dek : DEKs \cup {NoDEK}]

Rotator ==
    [pc : {"idle", "start_read", "start_create", "start_row", "status",
           "select", "update", "advance", "complete",
           "prune_check", "prune_delete"},
     from : 0..MaxVersion, to : 0..MaxVersion,
     table : {"episodes", "summaries", "entities", "done"},
     fromDek : DEKs \cup {NoDEK}, toDek : DEKs \cup {NoDEK},
     batch : SUBSET Rows, buf : [Rows -> SUBSET Writers]]

\* Which fields of an actor's record mean something at which step.
InHand ==
    /\ rot.status # "none" => rot.from \in Versions /\ rot.to \in Versions
    /\ \A w \in Writers :
          /\ wr[w].pc # "idle" => wr[w].ver \in Versions
          /\ wr[w].pc \in {"write", "insert", "done"} => wr[w].dek \in DEKs
    /\ \A r \in Rotators :
          /\ rt[r].pc \in {"start_create", "start_row"} => rt[r].from \in Versions
          /\ rt[r].pc \in {"start_row", "prune_check", "prune_delete"} =>
                rt[r].to \in Versions
          /\ rt[r].pc \in {"select", "update", "advance", "complete"} =>
                /\ rt[r].from \in Versions /\ rt[r].to \in Versions
                /\ rt[r].fromDek \in DEKs /\ rt[r].toDek \in DEKs
          /\ rt[r].pc \in {"status", "select", "update", "advance", "complete"} =>
                rot.status # "none"

\* Every variable stays in its type, and a version or a key is in hand
\* wherever GetVersion, Encrypt or Decrypt is about to be handed one.
TypeOK ==
    /\ InHand
    /\ keys \in [Versions -> DEKs \cup {NoDEK}]
    /\ cache \in [Procs -> [Versions -> DEKs \cup {NoDEK}]]
    /\ rot \in RotationStatus
    /\ lock \in Rotators \cup {Nobody}
    /\ rows \in [Rows -> Row]
    /\ wr \in [Writers -> Writer]
    /\ rt \in [Rotators -> Rotator]
    /\ late \in SUBSET Rows
    /\ crashes \in 0..MaxCrashes

----------------------------------------------------------------------------
(* KeyStore.                                                               *)

Existing == {v \in Versions : keys[v] # NoDEK}

\* KeyStore.CurrentVersion returns v: the highest existing version, or 0.
CurrentVersionIs(v) ==
    \/ v = 0 /\ Existing = {}
    \/ v \in Existing /\ \A u \in Existing : u <= v

\* KeyStore.GetVersion in process p: the cached key, else the persisted one.
\* NoDEK is ErrKeyVersionNotFound.
GetVersion(p, v) == IF cache[p][v] # NoDEK THEN cache[p][v] ELSE keys[v]

CacheWith(p, v) == [cache EXCEPT ![p][v] = GetVersion(p, v)]

EmptyCache == [v \in Versions |-> NoDEK]

----------------------------------------------------------------------------
(* Rows.                                                                   *)

Present(r) == rows[r].ver # 0

\* A summary is written, and migrated, together with its key facts.
FactsOf(r) == {f \in Rows : TableOf[f] = "facts" /\ ParentOf[f] = r}

\* Rows committed under version v: late when a newer to_version is recorded.
LateAfter(X, v) == IF v < rot.to THEN late \cup X ELSE late \ X

AnyRow == CHOOSE r \in Rows : TRUE

Idle == [pc |-> "idle", row |-> AnyRow, ver |-> 0, dek |-> NoDEK]

IdleRun ==
    [pc |-> "idle", from |-> 0, to |-> 0, table |-> "done",
     fromDek |-> NoDEK, toDek |-> NoDEK,
     batch |-> {}, buf |-> [x \in Rows |-> {}]]

Init ==
    /\ \E p \in Provisioned :
          /\ keys = [v \in Versions |-> IF p /\ v = 1 THEN Genesis ELSE NoDEK]
          /\ rows = [r \in Rows |-> IF p /\ r \in SeedRows
                                    THEN [ver |-> 1, dek |-> Genesis, val |-> {}]
                                    ELSE NoRow]
    /\ cache = [p \in Procs |-> EmptyCache]
    /\ rot = [status |-> "none", from |-> 0, to |-> 0, table |-> "done"]
    /\ lock = Nobody
    /\ wr = [w \in Writers |-> Idle]
    /\ rt = [r \in Rotators |-> IdleRun]
    /\ late = {}
    /\ crashes = 0

----------------------------------------------------------------------------
(* Writers.  GetOrCreate reads the current version, creates version 1 if   *)
(* there is none, and loads that version's key; the row is written later,  *)
(* in a transaction of its own.                                            *)

\* The id of a new episode or summary is fresh; an entity id is not.
Writable(w, r) ==
    \/ TableOf[r] = "entities"
    \/ /\ TableOf[r] \in {"episodes", "summaries"}
       /\ ~Present(r)
       /\ \A u \in Writers \ {w} : wr[u].pc # "idle" => wr[u].row # r

ResolveCurrent(w) ==
    /\ wr[w].pc = "idle"
    /\ \E r \in Rows, v \in 0..MaxVersion :
          /\ Writable(w, r)
          /\ CurrentVersionIs(v)
          /\ wr' = [wr EXCEPT ![w] =
                     IF v = 0
                     THEN [pc |-> "create", row |-> r, ver |-> 1, dek |-> NoDEK]
                     ELSE [pc |-> "load", row |-> r, ver |-> v, dek |-> NoDEK]]
    /\ UNCHANGED <<keys, cache, rot, lock, rows, rt, late, crashes>>

\* Variant: the generated key is trusted over the stored one, and cached.
CreateVersion_trustsOwnKey(w) ==
    /\ wr[w].pc = "create"
    /\ keys' = [keys EXCEPT ![wr[w].ver] = IF @ = NoDEK THEN w ELSE @]
    /\ cache' = [cache EXCEPT ![Home[w]][wr[w].ver] = w]
    /\ wr' = [wr EXCEPT ![w].pc = "load"]
    /\ UNCHANGED <<rot, lock, rows, rt, late, crashes>>

\* createVersion(1): insert ... on conflict do nothing, never trusting the
\* key generated here over the one that is really stored.
CreateVersion(w) ==
    /\ wr[w].pc = "create"
    /\ keys' = [keys EXCEPT ![wr[w].ver] = IF @ = NoDEK THEN w ELSE @]
    /\ wr' = [wr EXCEPT ![w].pc = "load"]
    /\ UNCHANGED <<cache, rot, lock, rows, rt, late, crashes>>

LoadKey(w) ==
    LET p == Home[w]
        v == wr[w].ver
    IN /\ wr[w].pc = "load"
       /\ cache' = CacheWith(p, v)
       /\ wr' = [wr EXCEPT ![w] =
                  IF GetVersion(p, v) = NoDEK
                  THEN Idle
                  ELSE [@ EXCEPT !.pc = "write", !.dek = GetVersion(p, v)]]
       /\ UNCHANGED <<keys, rot, lock, rows, rt, late, crashes>>

\* Capture's and storeSummary's inserts.
InsertRow(w) ==
    LET r == wr[w].row
        X == {r} \cup FactsOf(r)
    IN /\ wr[w].pc = "write"
       /\ TableOf[r] # "entities"
       /\ rows' = [x \in Rows |->
                     IF x \in X
                     THEN [ver |-> wr[w].ver, dek |-> wr[w].dek, val |-> {w}]
                     ELSE rows[x]]
       /\ late' = LateAfter(X, wr[w].ver)
       /\ wr' = [wr EXCEPT ![w].pc = "done"]
       /\ UNCHANGED <<keys, cache, rot, lock, rt, crashes>>

\* upsertEntities finds the row and locks it (select ... for update): read,
\* merge and write are one step.  The row is read with its own key_version.
UpsertExisting(w) ==
    LET r == wr[w].row
        p == Home[w]
        old == rows[r]
        k == GetVersion(p, old.ver)
    IN /\ wr[w].pc = "write"
       /\ TableOf[r] = "entities"
       /\ Present(r)
       /\ w \notin Correctors
       /\ cache' = CacheWith(p, old.ver)
       /\ IF k # NoDEK /\ k = old.dek
          THEN /\ rows' = [rows EXCEPT ![r] =
                             [ver |-> wr[w].ver, dek |-> wr[w].dek,
                              val |-> old.val \cup {w}]]
               /\ late' = LateAfter({r}, wr[w].ver)
               /\ wr' = [wr EXCEPT ![w].pc = "done"]
          ELSE /\ wr' = [wr EXCEPT ![w] = Idle]
               /\ UNCHANGED <<rows, late>>
       /\ UNCHANGED <<keys, rot, lock, rt, crashes>>

\* Correct's upsertEntities (replace): the locked row is overwritten unread.
UpsertReplace(w) ==
    LET r == wr[w].row
    IN /\ wr[w].pc = "write"
       /\ TableOf[r] = "entities"
       /\ Present(r)
       /\ w \in Correctors
       /\ rows' = [rows EXCEPT ![r] =
                     [ver |-> wr[w].ver, dek |-> wr[w].dek, val |-> {w}]]
       /\ late' = LateAfter({r}, wr[w].ver)
       /\ wr' = [wr EXCEPT ![w].pc = "done"]
       /\ UNCHANGED <<keys, cache, rot, lock, rt, crashes>>

\* upsertEntities finds no row: for update locks nothing, and the insert
\* that follows overwrites whatever a concurrent writer inserted meanwhile.
UpsertMiss(w) ==
    /\ wr[w].pc = "write"
    /\ TableOf[wr[w].row] = "entities"
    /\ ~Present(wr[w].row)
    /\ wr' = [wr EXCEPT ![w].pc = "insert"]
    /\ UNCHANGED <<keys, cache, rot, lock, rows, rt, late, crashes>>

UpsertInsert(w) ==
    LET r == wr[w].row
    IN /\ wr[w].pc = "insert"
       /\ rows' = [rows EXCEPT ![r] =
                     [ver |-> wr[w].ver, dek |-> wr[w].dek, val |-> {w}]]
       /\ late' = LateAfter({r}, wr[w].ver)
       /\ wr' = [wr EXCEPT ![w].pc = "done"]
       /\ UNCHANGED <<keys, cache, rot, lock, rt, crashes>>

\* A failed statement or a cancelled request: nothing is written.
WriteFails(w) ==
    /\ wr[w].pc \notin {"idle", "done"}
    /\ wr' = [wr EXCEPT ![w] = Idle]
    /\ UNCHANGED <<keys, cache, rot, lock, rows, rt, late, crashes>>

WriterStep(w) ==
    \/ ResolveCurrent(w)
    \/ CreateVersion(w)
    \/ LoadKey(w)
    \/ InsertRow(w)
    \/ UpsertExisting(w)
    \/ UpsertReplace(w)
    \/ UpsertMiss(w)
    \/ UpsertInsert(w)
    \/ WriteFails(w)

----------------------------------------------------------------------------
(* hupi-rotate-key: Start, then Continue until it reports done; or Prune.  *)
(* When a run ends its process exits, and its KeyStore's cache with it.    *)

Exit(r) ==
    /\ rt' = [rt EXCEPT ![r] = IdleRun]
    /\ cache' = [cache EXCEPT ![Home[r]] = EmptyCache]

\* Start blocks on pg_advisory_lock before it looks at anything.
StartLock(r) ==
    /\ rt[r].pc = "idle"
    /\ lock = Nobody
    /\ lock' = r
    /\ rt' = [rt EXCEPT ![r].pc = "start_read"]
    /\ UNCHANGED <<keys, cache, rot, rows, wr, late, crashes>>

\* A rotation is in progress: return it, unlock, and continue it.
StartResume(r) ==
    /\ rt[r].pc = "start_read"
    /\ rot.status = "in_progress"
    /\ lock' = Nobody
    /\ rt' = [rt EXCEPT ![r].pc = "status"]
    /\ UNCHANGED <<keys, cache, rot, rows, wr, late, crashes>>

\* Variant: a rotation in progress does not keep the next one from starting.
StartFresh_overlapping(r) ==
    /\ rt[r].pc = "start_read"
    /\ \E v \in 1..(MaxVersion - 1) :
          /\ CurrentVersionIs(v)
          /\ rt' = [rt EXCEPT ![r].pc = "start_create", ![r].from = v]
    /\ UNCHANGED <<keys, cache, rot, lock, rows, wr, late, crashes>>

StartFresh(r) ==
    /\ rt[r].pc = "start_read"
    /\ rot.status # "in_progress"
    /\ \E v \in 1..(MaxVersion - 1) :
          /\ CurrentVersionIs(v)
          /\ rt' = [rt EXCEPT ![r].pc = "start_create", ![r].from = v]
    /\ UNCHANGED <<keys, cache, rot, lock, rows, wr, late, crashes>>

\* The scope has no key yet (or, a bound of the model, has had its last).
StartRefused(r) ==
    /\ rt[r].pc = "start_read"
    /\ rot.status # "in_progress"
    /\ CurrentVersionIs(0) \/ CurrentVersionIs(MaxVersion)
    /\ lock' = Nobody
    /\ Exit(r)
    /\ UNCHANGED <<keys, rot, rows, wr, late, crashes>>

\* CreateNextVersion: current + 1, through createVersion.
StartCreate(r) ==
    /\ rt[r].pc = "start_create"
    /\ \E v \in 1..(MaxVersion - 1) :
          /\ CurrentVersionIs(v)
          /\ keys' = [keys EXCEPT ![v + 1] = IF @ = NoDEK THEN r ELSE @]
          /\ cache' = [cache EXCEPT ![Home[r]][v + 1] = keys'[v + 1]]
          /\ rt' = [rt EXCEPT ![r].pc = "start_row", ![r].to = v + 1]
    /\ UNCHANGED <<rot, lock, rows, wr, late, crashes>>

\* The upsert of the key_rotations row, and the unlock.
StartRow(r) ==
    /\ rt[r].pc = "start_row"
    /\ rot' = [status |-> "in_progress", from |-> rt[r].from, to |-> rt[r].to,
               table |-> "episodes"]
    /\ lock' = Nobody
    /\ rt' = [rt EXCEPT ![r].pc = "status"]
    /\ UNCHANGED <<keys, cache, rows, wr, late, crashes>>

\* Continue: nothing in progress is done; a key that is gone is an error.
\* Both end the run.
ContinueOver(r) ==
    /\ rt[r].pc = "status"
    /\ \/ rot.status # "in_progress"
       \/ GetVersion(Home[r], rot.from) = NoDEK
       \/ GetVersion(Home[r], rot.to) = NoDEK
    /\ Exit(r)
    /\ UNCHANGED <<keys, rot, lock, rows, wr, late, crashes>>

ContinueBegin(r) ==
    LET f == GetVersion(Home[r], rot.from)
        t == GetVersion(Home[r], rot.to)
    IN /\ rt[r].pc = "status"
       /\ rot.status = "in_progress"
       /\ f # NoDEK
       /\ t # NoDEK
       /\ cache' = [cache EXCEPT ![Home[r]][rot.from] = f, ![Home[r]][rot.to] = t]
       /\ rt' = [rt EXCEPT ![r] =
                  [@ EXCEPT !.pc = IF rot.table = "done" THEN "complete" ELSE "select",
                            !.from = rot.from, !.to = rot.to, !.table = rot.table,
                            !.fromDek = f, !.toDek = t]]
       /\ UNCHANGED <<keys, rot, lock, rows, wr, late, crashes>>

\* Variant: a -batch-size of 0 goes through, and LIMIT 0 finds nothing to do.
clampBatchSize_unclamped(n) == IF n > MaxBatchSize THEN MaxBatchSize ELSE n

\* clampBatchSize: into 1..MaxBatchSize, whatever the operator asked for.
clampBatchSize(n) ==
    IF n <= 0 THEN 1 ELSE IF n > MaxBatchSize THEN MaxBatchSize ELSE n

OnOldVersion(r) ==
    {x \in Rows : TableOf[x] = rt[r].table /\ rows[x].ver = rt[r].from}

\* select ... where key_version = from order by id limit batchSize.  Ids are
\* opaque, so which rows come first is left open.
IsBatch(B, r) ==
    /\ B \subseteq OnOldVersion(r)
    /\ Cardinality(B) <= clampBatchSize(BatchSize)
    /\ B # OnOldVersion(r) => Cardinality(B) = clampBatchSize(BatchSize)

\* The SELECT finds nothing: Continue moves to the next table.
BatchEmpty(r) ==
    /\ rt[r].pc = "select"
    /\ IsBatch({}, r)
    /\ rt' = [rt EXCEPT ![r].pc = "advance"]
    /\ UNCHANGED <<keys, cache, rot, lock, rows, wr, late, crashes>>

\* The SELECT finds rows, without locking them, and every one decrypts (one
\* that does not ends the run with an error, as Crash does).
BatchSelect(r) ==
    /\ rt[r].pc = "select"
    /\ \E B \in SUBSET OnOldVersion(r) :
          /\ B # {}
          /\ IsBatch(B, r)
          /\ \A x \in B : rows[x].dek = rt[r].fromDek
          /\ rt' = [rt EXCEPT ![r].pc = "update", ![r].batch = B,
                      ![r].buf = [x \in Rows |-> IF x \in B THEN rows[x].val ELSE {}]]
    /\ UNCHANGED <<keys, cache, rot, lock, rows, wr, late, crashes>>

\* Variant: key facts are forgotten when their summary is migrated.
BatchFacts_none(r) == {}

\* migrateKeyFacts: the facts of the batch's summaries that are still on the
\* old version when they are looked up, in the same transaction.
BatchFacts(r) ==
    {f \in Rows : /\ TableOf[f] = "facts"
                  /\ ParentOf[f] \in rt[r].batch
                  /\ rows[f].ver = rt[r].from}

\* Variant: the buffer of decrypted rows is cleared before it is written back.
BatchUpdate_clearedBuffer(r) ==
    LET X == rt[r].batch \cup BatchFacts(r)
    IN /\ rt[r].pc = "update"
       /\ rows' = [x \in Rows |-> IF x \in X
                                  THEN [ver |-> rt[r].to, dek |-> rt[r].toDek, val |-> {}]
                                  ELSE rows[x]]
       /\ late' = LateAfter(X, rt[r].to)
       /\ rt' = [rt EXCEPT ![r].pc = "status", ![r].batch = {},
                            ![r].buf = [x \in Rows |-> {}]]
       /\ UNCHANGED <<keys, cache, rot, lock, wr, crashes>>

\* update ... set key_version = to where id = ...: whatever the row holds by
\* now is replaced by the re-encryption of what the SELECT saw.
BatchUpdate(r) ==
    LET B == rt[r].batch
        F == BatchFacts(r)
        Under(val) == [ver |-> rt[r].to, dek |-> rt[r].toDek, val |-> val]
    IN /\ rt[r].pc = "update"
       /\ \A f \in F : rows[f].dek = rt[r].fromDek
       /\ rows' = [x \in Rows |-> CASE x \in B -> Under(rt[r].buf[x])
                                   [] x \in F -> Under(rows[x].val)
                                   [] OTHER -> rows[x]]
       /\ late' = LateAfter(B \cup F, rt[r].to)
       /\ rt' = [rt EXCEPT ![r].pc = "status", ![r].batch = {},
                            ![r].buf = [x \in Rows |-> {}]]
       /\ UNCHANGED <<keys, cache, rot, lock, wr, crashes>>

\* Variant: facts taken for a table of the cursor's own.
nextTable_facts(t) ==
    CASE t = "episodes" -> "summaries"
      [] t = "summaries" -> "facts"
      [] t = "facts" -> "entities"
      [] OTHER -> "done"

\* Variant: after the last table the cursor starts over.
nextTable_wraps(t) ==
    CASE t = "episodes" -> "summaries"
      [] t = "summaries" -> "entities"
      [] OTHER -> "episodes"

nextTable(t) ==
    CASE t = "episodes" -> "summaries"
      [] t = "summaries" -> "entities"
      [] OTHER -> "done"

\* setCursorTable: whatever rotation the key_rotations row now describes.
Advance(r) ==
    LET t == nextTable(rt[r].table)
    IN /\ rt[r].pc = "advance"
       /\ rot' = [rot EXCEPT !.table = t]
       /\ rt' = [rt EXCEPT ![r].pc = IF t = "done" THEN "complete" ELSE "select",
                            ![r].table = t]
       /\ UNCHANGED <<keys, cache, lock, rows, wr, late, crashes>>

\* markCompleted: whatever rotation the key_rotations row now describes.
MarkCompleted(r) ==
    /\ rt[r].pc = "complete"
    /\ rot' = [rot EXCEPT !.status = "completed"]
    /\ Exit(r)
    /\ UNCHANGED <<keys, lock, rows, wr, late, crashes>>

\* Prune, on anything but a completed rotation, refuses: no state changes.
PruneBegin(r) ==
    /\ Pruning
    /\ rt[r].pc = "idle"
    /\ rot.status = "completed"
    /\ rt' = [rt EXCEPT ![r].pc = "prune_check", ![r].from = rot.from, ![r].to = rot.to]
    /\ UNCHANGED <<keys, cache, rot, lock, rows, wr, late, crashes>>

StillReferenced(v) == {x \in Rows : Present(x) /\ rows[x].ver < v}

\* Variant: no second look at what still references an old version.
PruneCheck_trusting(r) ==
    /\ rt[r].pc = "prune_check"
    /\ rt' = [rt EXCEPT ![r].pc = "prune_delete"]
    /\ UNCHANGED <<keys, cache, rot, lock, rows, wr, late, crashes>>

PruneCheck(r) ==
    /\ rt[r].pc = "prune_check"
    /\ StillReferenced(rt[r].to) = {}
    /\ rt' = [rt EXCEPT ![r].pc = "prune_delete"]
    /\ UNCHANGED <<keys, cache, rot, lock, rows, wr, late, crashes>>

PruneRefused(r) ==
    /\ rt[r].pc = "prune_check"
    /\ StillReferenced(rt[r].to) # {}
    /\ Exit(r)
    /\ UNCHANGED <<keys, rot, lock, rows, wr, late, crashes>>

\* Variant: version <= to.
PruneDelete_inclusive(r) ==
    /\ rt[r].pc = "prune_delete"
    /\ keys' = [v \in Versions |-> IF v <= rt[r].to THEN NoDEK ELSE keys[v]]
    /\ Exit(r)
    /\ UNCHANGED <<rot, lock, rows, wr, late, crashes>>

\* delete from scope_keys ... version < to, in a second transaction; the
\* evictions that follow touch only the cache of the process that now exits.
PruneDelete(r) ==
    /\ rt[r].pc = "prune_delete"
    /\ keys' = [v \in Versions |-> IF v < rt[r].to THEN NoDEK ELSE keys[v]]
    /\ Exit(r)
    /\ UNCHANGED <<rot, lock, rows, wr, late, crashes>>

RotatorStep(r) ==
    \/ StartLock(r)
    \/ StartResume(r)
    \/ StartFresh(r)
    \/ StartRefused(r)
    \/ StartCreate(r)
    \/ StartRow(r)
    \/ ContinueOver(r)
    \/ ContinueBegin(r)
    \/ BatchEmpty(r)
    \/ BatchSelect(r)
    \/ BatchUpdate(r)
    \/ Advance(r)
    \/ MarkCompleted(r)
    \/ PruneBegin(r)
    \/ PruneCheck(r)
    \/ PruneRefused(r)
    \/ PruneDelete(r)

----------------------------------------------------------------------------
\* A process dies, or a rotation run ends with an error: its goroutines, its
\* cache and its session lock are gone, an open transaction rolls back, the
\* database keeps what was committed.
Crash(p) ==
    /\ crashes < MaxCrashes
    /\ crashes' = crashes + 1
    /\ cache' = [cache EXCEPT ![p] = EmptyCache]
    /\ wr' = [w \in Writers |-> IF Home[w] = p /\ wr[w].pc # "done"
                                THEN Idle ELSE wr[w]]
    /\ rt' = [r \in Rotators |-> IF Home[r] = p THEN IdleRun ELSE rt[r]]
    /\ lock' = IF lock # Nobody /\ \E r \in Rotators : r = lock /\ Home[r] = p
               THEN Nobody ELSE lock
    /\ UNCHANGED <<keys, rot, rows, late>>

Next ==
    \/ \E w \in Writers : WriterStep(w)
    \/ \E r \in Rotators : RotatorStep(r)
    \/ \E p \in Procs : Crash(p)

Spec == Init /\ [][Next]_vars

----------------------------------------------------------------------------
(* Properties.                                                             *)

\* createVersion and GetVersion: all processes agree on the key of a version.
\* Whatever the scope_keys row, any process's cache or any stored ciphertext
\* takes version v to be, it is one and the same key, so a row that names a
\* version is never decrypted with another key.
OneDEKPerVersion ==
    \A v \in Versions :
        \A d, e \in ({keys[v]} \cup {cache[p][v] : p \in Procs}
                       \cup {rows[x].dek : x \in {y \in Rows : rows[y].ver = v}})
                     \ {NoDEK} : d = e

\* Prune: a stored row loses its key only if its ciphertext was committed under
\* a version that a recorded rotation had already superseded.  A row committed
\* in time is never made unreadable.
UnreadableOnlyIfLate ==
    \A x \in Rows : Present(x) /\ keys[rows[x].ver] = NoDEK => x \in late

\* Continue: when the rotation is marked completed, every row committed before
\* it was recorded has left the old version, however often the run was killed
\* and resumed.
MigrationComplete ==
    rot.status = "completed" =>
        \A x \in Rows : rows[x].ver = rot.from => x \in late

\* migrateSummaryBatch: a key fact is under the version of its summary, which
\* is what its readers decrypt it with.
FactsInLockstep ==
    \A x \in Rows : TableOf[x] = "facts" => rows[x].ver = rows[ParentOf[x]].ver

\* Capture, storeSummary, upsertEntities: once a write has returned, what it
\* said stays in the row, whatever rotates or merges it afterwards; only a
\* correction, which replaces an entity's attributes, may take it out.
NoLostWrite ==
    \A w \in Writers : wr[w].pc = "done" =>
        (\E c \in Correctors \cup {w} : c \in rows[wr[w].row].val)

\* Start and migrate*Batch: while a rotation is in progress, a row goes back to an
\* older key only in the hands of someone it has overtaken: an upsert that resolved
\* its key before, or the batch of a run of an earlier rotation.  A batch of the
\* rotation in progress moves rows forward, also those that another run migrated
\* or a writer replaced since it selected them.
OnlyOvertakenGoBack ==
    [][\A x \in Rows : rows'[x].ver < rows[x].ver /\ rot.status = "in_progress" =>
          rows'[x].ver < rot.to]_rows

\* Prune never deletes the version GetOrCreate hands out.
NewestKeyKept ==
    [][\A v \in Existing : (\A u \in Existing : u <= v) => keys'[v] = keys[v]]_keys

\* Continue: "done is true once every table has nothing left on the old version"
\* and Start: new writes use the new version, so there is no moving target.
NothingLeftBehind ==
    rot.status = "completed" =>
        \A x \in Rows : Present(x) => rows[x].ver >= rot.to

\* An operator (or a cron job) reruns hupi-rotate-key while a rotation is in
\* progress, and a run that can take its next step eventually takes it.
RotatorFairness ==
    \A r \in Rotators :
        /\ WF_vars(RotatorStep(r) /\ rt[r].pc # "idle")
        /\ WF_vars(StartLock(r) /\ rot.status = "in_progress")

FairSpec == Spec /\ RotatorFairness

\* Continue: a rotation that was recorded is eventually completed.
RotationFinishes == rot.status = "in_progress" ~> rot.status = "completed"
============================================================================
