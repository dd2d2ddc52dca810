------------------------------ MODULE Retrieval -----------------------------
(***************************************************************************)
(* One Store.Retrieve call (internal/store/retrieve.go), statement by      *)
(* statement, while the scope it reads is consolidated, related and moved  *)
(* to a new key.  Its two transactions are READ COMMITTED, so every SELECT *)
(* sees the database of its own moment; the ciphertext it returns is       *)
(* opened after that, with a key version GetVersion looks up on another    *)
(* connection unless the process has it cached.                            *)
(*                                                                         *)
(* Texts, vectors and scores are left out: what a search by similarity or  *)
(* by words finds is any set of the rows its WHERE clause lets through, up *)
(* to its limit.  A row is covered by a span of days, its period, its      *)
(* timestamp's day or the day it was last updated.  A summary's facts are  *)
(* under the key of the summary (KeyRotation, FactsInLockstep).            *)
(*                                                                         *)
(* Whoever writes a row resolves the key first and commits later, with no  *)
(* check in between: a row may be written under any version that has ever  *)
(* been the newest, one that has been pruned meanwhile included.           *)
(***************************************************************************)
EXTENDS Integers, Sequences, FiniteSets, SequencesExt, FiniteSetsExt, Functions

CONSTANTS
    Summaries, Episodes, Entities,  \* rows that exist or may be inserted
    Self,           \* the entity of kind self_model
    Seed,           \* the rows there are from the start
    Supersedes,     \* the summary a summary supersedes
    Absent,         \* what a first summary supersedes
    WithFacts,      \* the summaries with a grounded fact
    Span,           \* the days of a row, <<first, end>>
    Questions,      \* what a user may ask: see Question
    GraphWalk,      \* HUPI_ENABLE_RELATIONSHIP_GRAPH_WALK
    MaxResults,     \* maxVectorResults
    MaxWalk,        \* graphWalkMaxResults
    BatchSize,      \* of a key rotation
    MaxBatches,     \* bound on the batches of a rotation in flight at a time
    MaxKeys         \* bound on the key versions

Rows == Summaries \cup Episodes \cup Entities \cup {Self}
NoWindow == <<0, 0>>

\* The last user message: the entities it names, whether a stage 1 signal (a
\* keyword or a question) and terms to search for are in it, and the days it
\* speaks of.  Empty: no message of the user.
Question == [empty : BOOLEAN, names : SUBSET Entities, signal : BOOLEAN,
             terms : BOOLEAN, window : Nat \X Nat]

ASSUME RowAssumption ==
    \* rows of different tables are different, and a database is finite
    /\ Summaries \cap Episodes = {} /\ Summaries \cap Entities = {}
    /\ Episodes \cap Entities = {} /\ Self \notin Summaries \cup Episodes \cup Entities
    /\ Seed \subseteq Rows /\ IsFiniteSet(Seed)
    /\ WithFacts \subseteq Summaries
    /\ Supersedes \in [Summaries -> Summaries \cup {Absent}] /\ Absent \notin Rows
    /\ Span \in [Rows -> Nat \X Nat] /\ \A x \in Rows : Span[x][1] < Span[x][2]
ASSUME QuestionAssumption == Questions \subseteq Question
ASSUME BoundAssumption ==
    /\ MaxResults \in Nat \ {0} /\ MaxWalk \in Nat \ {0} /\ MaxKeys \in Nat \ {0}
    /\ BatchSize \in Nat \ {0} /\ MaxBatches \in Nat
    /\ GraphWalk \in BOOLEAN

VARIABLES
    rows,       \* the rows there are
    key,        \* the key version a row is encrypted with
    keys,       \* the versions in scope_keys
    late,       \* history: rows written under a version a prune had checked or deleted
    moving,     \* the batches a rotation has selected and not updated yet
    pruning,    \* ToVersion of the prunes that have checked and not deleted yet
    related,    \* the relationships with no valid_until
    cache,      \* the versions the gateway's KeyStore has unwrapped
    r           \* the retrieval

vars == <<rows, key, keys, late, moving, pruning, related, cache, r>>

\* The self model's own relationships are left out.
Pairs == {{a, b} : a, b \in Entities}

----------------------------------------------------------------------------
(* Types.                                                                  *)

PCs == {"idle", "anchor", "openAnchor", "stage1", "format", "openFormat", "embed", "tier",
        "vector", "openVector", "keyword", "openKeyword", "fact", "openFact", "pick",
        "loadFacts", "episodes", "openEpisodes", "entities", "openEntities",
        "keywordEpisodes", "openKeywordEpisodes", "keywordEntities", "openKeywordEntities",
        "walk", "load", "openLoad", "done", "failed"}

\* Every variable stays in its type, and a scope with keys always has one.
TypeOK ==
    /\ rows \subseteq Rows /\ late \subseteq rows
    /\ key \in [Rows -> 1..MaxKeys]
    /\ pruning \subseteq 2..MaxKeys /\ moving \subseteq [to : 2..MaxKeys, ids : SUBSET rows]
    /\ keys # {} /\ keys \subseteq 1..MaxKeys /\ cache \subseteq 1..MaxKeys
    /\ related \subseteq Pairs
    /\ r.pc \in PCs
    /\ r.q \in Questions
    /\ r.gate \in {"none", "skipped", "partial", "full"}
    /\ r.tier \in {"full", "narrowed", "disabled"}
    /\ r.batch \in UNION {[X -> 1..MaxKeys] : X \in SUBSET rows}
    /\ r.cands \in UNION {[X -> 1..MaxKeys] : X \in SUBSET (Summaries \cap rows)}
    /\ r.matched \subseteq Entities
    /\ r.todo \subseteq rows
    /\ r.refs \in Seq(rows)
    /\ r.fresh \subseteq Summaries
    /\ r.hop \in 0..2 /\ Cardinality(r.walked) <= MaxWalk
    /\ {r.hit, r.excused} \subseteq BOOLEAN

Idle(q) ==
    [pc |-> "idle", q |-> q, gate |-> "none", tier |-> "full", batch |-> <<>>,
     cands |-> <<>>, matched |-> {}, todo |-> {}, refs |-> <<>>, hit |-> FALSE,
     front |-> {}, walked |-> {}, hop |-> 0,
     fresh |-> {},          \* history: summaries that were current since the start
     excused |-> FALSE]     \* history: what it had read was moved from under it,
                            \* or was written under a version already given up

Init ==
    /\ rows = Seed
    /\ key = [x \in Rows |-> 1]
    /\ keys = {1} /\ late = {} /\ moving = {} /\ pruning = {}
    /\ related = {}
    /\ cache = {}
    /\ r \in {Idle(q) : q \in Questions}

Newest == Max(keys)

\* not exists (select 1 from summaries newer where newer.supersedes = s.id)
Current(s, db) == s \in db /\ \A t \in db \cap Summaries : Supersedes[t] # s

CurrentSummaries == {s \in Summaries : Current(s, rows)}

----------------------------------------------------------------------------
(* The scope in use.                                                       *)

\* Rows X are written under v: too late for their key to be kept if a prune has
\* checked, or deleted, what is older than v + 1.
WriteUnder(X, v) ==
    /\ key' = [x \in Rows |-> IF x \in X THEN v ELSE key[x]]
    /\ late' = IF v \notin keys \/ \E to \in pruning : v < to THEN late \cup X ELSE late \ X

\* A committed insert: consolidation stores a summary over the one it
\* supersedes, or an entity; the gateway captures an episode.  GetOrCreate gave
\* the version that was the newest when it was called: by now, any.
Insert ==
    /\ \E x \in Rows \ rows :
          /\ x \in Summaries => Supersedes[x] \in rows \cup {Absent}
          /\ rows' = rows \cup {x}
          /\ \E v \in 1..Newest : WriteUnder({x}, v)
          /\ r' = [r EXCEPT !.fresh = IF x \in Summaries THEN @ \cup {x} ELSE @]
    /\ UNCHANGED <<keys, moving, pruning, related, cache>>

\* A relationship is asserted, or a later consolidation ends it.
Relate ==
    /\ \E p \in Pairs :
          /\ p \subseteq rows /\ Cardinality(p) = 2
          /\ related' = IF p \in related THEN related \ {p} ELSE related \cup {p}
    /\ UNCHANGED <<rows, key, keys, late, moving, pruning, cache, r>>

\* CreateNextVersion.
NewVersion ==
    /\ Newest < MaxKeys
    /\ keys' = keys \cup {Newest + 1}
    /\ UNCHANGED <<rows, key, late, moving, pruning, related, cache, r>>

\* Summaries whose facts are still to be read with the key the summary was
\* under when it was read.
HeldSummaries ==
    IF r.pc \in {"openVector", "keyword", "openKeyword", "fact", "openFact", "pick",
                "loadFacts"}
    THEN WithFacts \cap (DOMAIN r.cands \cup DOMAIN r.batch) ELSE {}

\* A rotation selects the next batch of a table under the version it moves from.
SelectBatch ==
    /\ Cardinality(moving) < MaxBatches
    /\ \E table \in {Summaries, Episodes, Entities \cup {Self}}, to \in 2..Newest :
          \E from \in 1..to - 1 :
             LET old == {x \in table \cap rows : key[x] = from}
             IN \E X \in SUBSET old :
                   /\ X # {} /\ Cardinality(X) = Min({BatchSize, Cardinality(old)})
                   /\ moving' = moving \cup {[to |-> to, ids |-> X]}
    /\ UNCHANGED <<rows, key, keys, late, pruning, related, cache, r>>

\* It updates them by their ids, whatever version they are under by now.
Migrate ==
    /\ \E m \in moving :
          /\ WriteUnder(m.ids, m.to)
          /\ moving' = moving \ {m}
          /\ r' = [r EXCEPT !.excused = @ \/ m.ids \cap HeldSummaries # {}]
    /\ UNCHANGED <<rows, keys, pruning, related, cache>>

\* No row is under a version older than to.
Unreferenced(to) == \A x \in rows : key[x] >= to

\* -prune, its first transaction: the count of the rows that need an old key.
CheckPrune ==
    /\ \E to \in keys \ {1} : Unreferenced(to) /\ pruning' = pruning \cup {to}
    /\ UNCHANGED <<rows, key, keys, late, moving, related, cache, r>>

\* Variant: the version rotated to is deleted with the others.
Kept_after(to) == {v \in keys : v > to}

Kept(to) == {v \in keys : v >= to}

\* Its second transaction deletes the old versions.
Prune ==
    /\ \E to \in pruning :
          /\ keys' = Kept(to) /\ pruning' = pruning \ {to}
          /\ r' = [r EXCEPT !.excused = @ \/ Range(r.batch) \cap (keys \ Kept(to)) # {}]
    /\ UNCHANGED <<rows, key, late, moving, related, cache>>

\* What happens once the retrieval has returned is of no interest to it.
ScopeInUse ==
    /\ r.pc \notin {"done", "failed"}
    /\ Insert \/ Relate \/ NewVersion \/ SelectBatch \/ Migrate \/ CheckPrune \/ Prune

----------------------------------------------------------------------------
(* Reading and opening rows.                                               *)

\* Rows of X whose key was pruned because they were written too late for it.
Lost(X) == {x \in X \cap late : key[x] \notin cache \cup keys}

\* A SELECT: the rows X with the versions they are under now.
Read(X, pc) ==
    r' = [r EXCEPT !.batch = [x \in X |-> key[x]], !.pc = pc,
                   !.excused = @ \/ Lost(X) # {}]

\* Variant: rows are opened with the current key, not their own.
Openable_newest(v) == v = Newest

\* KeyStore.GetVersion: cached, or still in scope_keys.
Openable(v) == v \in cache \cup keys

Opened == \A x \in DOMAIN r.batch : Openable(r.batch[x])

\* The loop over the rows has opened them all.
Open(pc) ==
    /\ r.pc = pc
    /\ Opened
    /\ cache' = cache \cup Range(r.batch)
    /\ UNCHANGED <<rows, key, keys, late, moving, pruning, related>>

\* resolve encryption key: the retrieval returns the error.
OpenFails ==
    /\ ~Opened
    /\ r' = [r EXCEPT !.pc = "failed", !.batch = <<>>]
    /\ UNCHANGED <<rows, key, keys, late, moving, pruning, related, cache>>

\* Found rows become refs and citations, and make the gate full.
Found(X, pc) ==
    r' = [r EXCEPT !.refs = @ \o SetToSeq(X), !.hit = @ \/ X # {},
                   !.batch = <<>>, !.pc = pc]

RefsOf(kind) == {x \in kind : x \in Range(r.refs)}

UpTo(k, X) == {Y \in SUBSET X : Cardinality(Y) <= k}

\* The documents that score above zero against the query's terms.
bm25Score(docs) == SUBSET docs

rankBM25(docs) == {M \in bm25Score(docs) : Cardinality(M) <= MaxResults}

periodsOverlap(a, b) == a[1] < b[2] /\ b[1] < a[2]

\* resolveQueryTimeframe, and what it keeps.
InWindow(x) == r.q.window = NoWindow \/ periodsOverlap(Span[x], r.q.window)
Within(X) == {x \in X : InWindow(x)}

\* Summaries and episodes: the filter is dropped when it would leave nothing.
WithinIfAny(X) == IF Within(X) = {} THEN X ELSE Within(X)

----------------------------------------------------------------------------
(* The first transaction: the anchor and the entities the question names.  *)

Start ==
    /\ r.pc = "idle"
    /\ r' = [r EXCEPT !.pc = "anchor", !.fresh = CurrentSummaries]
    /\ UNCHANGED <<rows, key, keys, late, moving, pruning, related, cache>>

\* buildAnchor: the self model (the latest daily period it also names is text).
ReadAnchor ==
    /\ r.pc = "anchor"
    /\ Read({Self} \cap rows, "openAnchor")
    /\ UNCHANGED <<rows, key, keys, late, moving, pruning, related, cache>>

\* Without a message of the user that is all there is.
OpenAnchor ==
    /\ Open("openAnchor")
    /\ r' = [r EXCEPT !.refs = SetToSeq(DOMAIN r.batch), !.batch = <<>>,
                      !.pc = IF r.q.empty THEN "done" ELSE "stage1",
                      !.gate = IF r.q.empty THEN "skipped" ELSE "none"]

\* stage1EntityMatches, and the matches outside the days asked about dropped.
MatchEntities ==
    /\ r.pc = "stage1"
    /\ LET matched == Within(r.q.names \cap rows)
       IN r' = [r EXCEPT !.matched = matched, !.todo = matched, !.pc = "format"]
    /\ UNCHANGED <<rows, key, keys, late, moving, pruning, related, cache>>

\* formatEntity, one by one.
FormatEntity ==
    /\ r.pc = "format"
    /\ \E e \in r.todo : Read({e}, "openFormat")
    /\ UNCHANGED <<rows, key, keys, late, moving, pruning, related, cache>>

OpenEntity ==
    /\ Open("openFormat")
    /\ r' = [r EXCEPT !.todo = @ \ DOMAIN r.batch, !.batch = <<>>, !.pc = "format"]

\* The gate of stage 1: nothing named and no signal, no search.
Stage1Gate ==
    /\ r.pc = "format" /\ r.todo = {}
    /\ IF r.matched = {} /\ ~r.q.signal
       THEN r' = [r EXCEPT !.gate = "skipped", !.pc = "done"]
       ELSE Found(r.matched, "embed")
    /\ UNCHANGED <<rows, key, keys, late, moving, pruning, related, cache>>

\* The embedder is asked with no transaction open; without a vector the
\* retrieval fails.
EmbedQuery ==
    /\ r.pc = "embed"
    /\ \/ r' = [r EXCEPT !.pc = "tier"]
       \/ r' = [r EXCEPT !.pc = "failed", !.excused = TRUE]
    /\ UNCHANGED <<rows, key, keys, late, moving, pruning, related, cache>>

----------------------------------------------------------------------------
(* The second transaction: the searches.                                   *)

Keywords == r.q.terms /\ r.tier # "disabled"

\* keywordSearchTierForScope: the corpus may have any size.
ReadTier ==
    /\ r.pc = "tier"
    /\ \E t \in {"full", "narrowed", "disabled"} :
          r' = [r EXCEPT !.tier = t, !.pc = "vector"]
    /\ UNCHANGED <<rows, key, keys, late, moving, pruning, related, cache>>

VectorSummaries ==
    /\ r.pc = "vector"
    /\ \E X \in UpTo(3 * MaxResults, CurrentSummaries) : Read(X, "openVector")
    /\ UNCHANGED <<rows, key, keys, late, moving, pruning, related, cache>>

OpenVector ==
    /\ Open("openVector")
    /\ r' = [r EXCEPT !.cands = r.batch, !.batch = <<>>,
                      !.pc = IF Keywords THEN "keyword" ELSE "fact"]

\* Variant: the keyword search reads superseded summaries too.
KeywordDocs_superseded == Summaries \cap rows

KeywordDocs == CurrentSummaries

\* All current summaries; narrowed, only those touching a matched entity.  The
\* candidates have been opened already.
KeywordSummaries ==
    /\ r.pc = "keyword"
    /\ \E touching \in IF r.tier = "narrowed" /\ r.matched # {} THEN SUBSET KeywordDocs
                       ELSE {KeywordDocs} :
          Read(touching \ DOMAIN r.cands, "openKeyword")
    /\ UNCHANGED <<rows, key, keys, late, moving, pruning, related, cache>>

\* The rows M just opened beside the candidates there are already.
Joined(M) == [s \in M \cup DOMAIN r.cands |-> IF s \in M THEN r.batch[s] ELSE r.cands[s]]

\* Those that match are candidates too, up to the overfetch limit.
OpenKeyword ==
    /\ Open("openKeyword")
    /\ \E M \in bm25Score(DOMAIN r.batch) :
          /\ Cardinality(M) <= 3 * MaxResults
          /\ r' = [r EXCEPT !.cands = Joined(M), !.batch = <<>>,
                            !.pc = "fact"]

\* Summaries found by one of their facts.
FactSummaries ==
    /\ r.pc = "fact"
    /\ \E X \in UpTo(3 * MaxResults, CurrentSummaries \cap WithFacts) :
          Read(X \ DOMAIN r.cands, "openFact")
    /\ UNCHANGED <<rows, key, keys, late, moving, pruning, related, cache>>

OpenFact ==
    /\ Open("openFact")
    /\ r' = [r EXCEPT !.cands = Joined(DOMAIN r.batch), !.batch = <<>>, !.pc = "pick"]

\* mmrSelect: relevance less redundancy decides which.
mmrSelect(pool) ==
    {P \in SUBSET pool : Cardinality(P) = Min({MaxResults, Cardinality(pool)})}

Pool == WithinIfAny(DOMAIN r.cands)

\* The pool, its fused scores, and the selection from it.
PickSummaries ==
    /\ r.pc = "pick"
    /\ \E P \in mmrSelect(Pool) :
          r' = [r EXCEPT !.todo = P, !.front = P, !.pc = "loadFacts"]
    /\ UNCHANGED <<rows, key, keys, late, moving, pruning, related, cache>>

\* loadKeyFacts: the facts as they are now, opened with the key of the summary
\* as it was read.
LoadKeyFacts ==
    /\ r.pc = "loadFacts"
    /\ \E s \in r.todo :
          r' = IF s \in WithFacts /\ key[s] # r.cands[s]
               THEN [r EXCEPT !.pc = "failed"]
               ELSE [r EXCEPT !.todo = @ \ {s}]
    /\ UNCHANGED <<rows, key, keys, late, moving, pruning, related, cache>>

\* The guarantees and the depth of every pick are written, and its refs.
WriteSummaries ==
    /\ r.pc = "loadFacts" /\ r.todo = {}
    /\ Found(r.front, "episodes")
    /\ UNCHANGED <<rows, key, keys, late, moving, pruning, related, cache>>

VectorEpisodes ==
    /\ r.pc = "episodes"
    /\ \E X \in UpTo(MaxResults, Episodes \cap rows) : Read(X, "openEpisodes")
    /\ UNCHANGED <<rows, key, keys, late, moving, pruning, related, cache>>

OpenEpisodes ==
    /\ Open("openEpisodes")
    /\ Found(WithinIfAny(DOMAIN r.batch), "entities")

\* The entities already matched are excluded.  An entity outside the days asked
\* about is not opened.
VectorEntities ==
    /\ r.pc = "entities"
    /\ \E X \in UpTo(MaxResults, (Entities \cap rows) \ r.matched) :
          Read(Within(X), "openEntities")
    /\ UNCHANGED <<rows, key, keys, late, moving, pruning, related, cache>>

OpenEntities ==
    /\ Open("openEntities")
    /\ Found(DOMAIN r.batch, IF Keywords THEN "keywordEpisodes" ELSE "walk")

\* Every other episode is read and opened.
KeywordEpisodes ==
    /\ r.pc = "keywordEpisodes"
    /\ Read((Episodes \cap rows) \ RefsOf(Episodes), "openKeywordEpisodes")
    /\ UNCHANGED <<rows, key, keys, late, moving, pruning, related, cache>>

OpenKeywordEpisodes ==
    /\ Open("openKeywordEpisodes")
    /\ \E M \in rankBM25(DOMAIN r.batch) : Found(WithinIfAny(M), "keywordEntities")

\* Variant: only the entities the question names are excluded.
NewEntities_notNamed == (Entities \cap rows) \ r.matched

NewEntities == (Entities \cap rows) \ RefsOf(Entities)

KeywordEntities ==
    /\ r.pc = "keywordEntities"
    /\ Read(NewEntities, "openKeywordEntities")
    /\ UNCHANGED <<rows, key, keys, late, moving, pruning, related, cache>>

OpenKeywordEntities ==
    /\ Open("openKeywordEntities")
    /\ \E M \in rankBM25(DOMAIN r.batch) : Found(Within(M), "walk")

\* graphWalkRelationships: a hop from the entities found so far, over the
\* relationships valid now, to at most MaxWalk new ones in all.
Hop ==
    LET front == IF r.hop = 0 THEN RefsOf(Entities \cup {Self}) ELSE r.front
        seen == RefsOf(Entities \cup {Self}) \cup r.walked
        next == (UNION {p \in related : p \cap front # {}}) \ seen
    IN /\ r.pc = "walk"
       /\ GraphWalk /\ r.hop < 2 /\ front # {} /\ Cardinality(r.walked) < MaxWalk
       /\ \E X \in SUBSET next :
             /\ Cardinality(X) = Min({Cardinality(next), MaxWalk - Cardinality(r.walked)})
             /\ r' = [r EXCEPT !.front = X, !.walked = @ \cup X, !.hop = @ + 1]
       /\ UNCHANGED <<rows, key, keys, late, moving, pruning, related, cache>>

\* The walk is over.
WalkEnds ==
    /\ r.pc = "walk"
    /\ \/ ~GraphWalk \/ r.hop = 2 \/ Cardinality(r.walked) = MaxWalk
       \/ r.hop = 0 /\ RefsOf(Entities \cup {Self}) = {}
       \/ r.hop > 0 /\ r.front = {}
    /\ r' = [r EXCEPT !.todo = r.walked, !.pc = "load"]
    /\ UNCHANGED <<rows, key, keys, late, moving, pruning, related, cache>>

LoadWalked ==
    /\ r.pc = "load"
    /\ \E e \in r.todo : Read({e}, "openLoad")
    /\ UNCHANGED <<rows, key, keys, late, moving, pruning, related, cache>>

OpenWalked ==
    /\ Open("openLoad")
    /\ r' = [r EXCEPT !.todo = @ \ DOMAIN r.batch, !.batch = <<>>, !.pc = "load",
                      !.refs = @ \o SetToSeq(DOMAIN r.batch), !.hit = TRUE]

\* The gate, and the audit row of Retrieve, whose failure is only logged.
Finish ==
    /\ r.pc = "load" /\ r.todo = {}
    /\ r' = [r EXCEPT !.gate = IF r.hit THEN "full" ELSE "partial", !.pc = "done"]
    /\ UNCHANGED <<rows, key, keys, late, moving, pruning, related, cache>>

Next ==
    \/ ScopeInUse
    \/ Start \/ ReadAnchor \/ OpenAnchor \/ MatchEntities \/ FormatEntity \/ OpenEntity
    \/ Stage1Gate \/ EmbedQuery \/ ReadTier
    \/ VectorSummaries \/ OpenVector \/ KeywordSummaries \/ OpenKeyword
    \/ FactSummaries \/ OpenFact \/ PickSummaries \/ LoadKeyFacts \/ WriteSummaries
    \/ VectorEpisodes \/ OpenEpisodes \/ VectorEntities \/ OpenEntities
    \/ KeywordEpisodes \/ OpenKeywordEpisodes \/ KeywordEntities \/ OpenKeywordEntities
    \/ Hop \/ WalkEnds \/ LoadWalked \/ OpenWalked \/ Finish \/ OpenFails

Spec == Init /\ [][Next]_vars

----------------------------------------------------------------------------
(* Properties.                                                             *)

\* Every summary an answer cites was current at some moment of the retrieval,
\* although three statements looked for candidates at three moments, and it
\* lies in the days asked about unless no candidate did
\* (fusedSearchSummaries).
AnswersFromCurrent ==
    r.pc = "done" =>
        \A s \in RefsOf(Summaries) :
            /\ s \in r.fresh
            /\ InWindow(s) \/ Within(DOMAIN r.cands) = {}

\* However many of the seven searches find a row, and whatever is inserted or
\* related between them, it is cited once (the exclusion lists the searches
\* hand on, and graphWalkRelationships' visited set); and the gate is full
\* exactly when something besides the anchor is cited.
CitedOnce ==
    /\ IsInjective(r.refs)
    /\ r.pc = "done" => (r.gate = "full" <=> Range(r.refs) \ {Self} # {})

\* A rotation that is half done is not noticed by a retrieval: one fails only
\* because the embedder did, a version was pruned while rows read under it
\* were still to be opened, a summary was migrated after it was read and
\* before its facts were (GetVersion; loadKeyFacts takes the key along), or
\* it read a row that was written under an old version when Prune had already
\* checked that none was: such a row fails every retrieval that reads it.
HalfRotationUnnoticed ==
    r.pc = "failed" => r.excused

=============================================================================
