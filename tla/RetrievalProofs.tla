--------------------------- MODULE RetrievalProofs ---------------------------
(***************************************************************************)
(* Theorems about Retrieval, for any rows, questions, limits and versions, *)
(* and whatever the scope's writers and a rotation do meanwhile.           *)
(***************************************************************************)
EXTENDS Retrieval, LibraryLemmas

Gates == {"none", "skipped", "partial", "full"}
Tiers == {"full", "narrowed", "disabled"}

\* Rows with the versions they were under when they were read.
Versioned == UNION {[X -> 1..MaxKeys] : X \in SUBSET Rows}

Fields == {"pc", "q", "gate", "tier", "batch", "cands", "matched", "todo", "refs", "hit",
           "front", "walked", "hop", "fresh", "excused"}

\* The rows and the keys of the scope.  The version of a row that was not written
\* too late is there, and no prune under way is going to delete it; and a prune
\* leaves the version it was for.
Database ==
    /\ rows \subseteq Rows /\ IsFiniteSet(rows)
    /\ key \in [Rows -> 1..MaxKeys]
    /\ late \subseteq rows
    /\ pruning \subseteq 2..MaxKeys /\ moving \subseteq [to : 2..MaxKeys, ids : SUBSET rows]
    /\ \A x \in rows \ late : key[x] \in keys /\ \A to \in pruning : key[x] >= to
    /\ keys # {} /\ keys \subseteq 1..MaxKeys /\ cache \subseteq 1..MaxKeys
    /\ \A to \in pruning : \E v \in keys : v >= to
    /\ related \subseteq Pairs
    /\ \A p \in related : p \subseteq rows

\* What the call has in hand is in the database.
InHand ==
    /\ r = [f \in Fields |-> r[f]]
    /\ r.pc \in PCs /\ r.q \in Questions /\ r.gate \in Gates /\ r.tier \in Tiers
    /\ r.batch \in Versioned /\ r.cands \in Versioned /\ r.refs \in Seq(Rows)
    /\ r.hit \in BOOLEAN /\ r.excused \in BOOLEAN /\ r.hop \in 0..2
    /\ r.matched \subseteq Entities /\ r.fresh \subseteq Summaries
    /\ DOMAIN r.batch \subseteq rows
    /\ DOMAIN r.cands \subseteq Summaries \cap rows
    /\ r.matched \subseteq rows /\ r.todo \subseteq rows /\ r.front \subseteq rows
    /\ r.walked \subseteq rows \cap Entities /\ Cardinality(r.walked) <= MaxWalk
    /\ Range(r.refs) \subseteq rows

Typed == Database /\ InHand

NoCandidates == {"idle", "anchor", "openAnchor", "stage1", "format", "openFormat", "embed",
                 "tier", "vector", "openVector"}
Opening == {"openAnchor", "openFormat", "openVector", "openKeyword", "openFact", "openEpisodes",
            "openEntities", "openKeywordEpisodes", "openKeywordEntities", "openLoad"}
Holding == {"openVector", "keyword", "openKeyword", "fact", "openFact", "pick", "loadFacts"}

\* As long as nothing excuses a failure, what has been read can be opened with
\* the version it was read under, and facts with their summary's.
KeysHold ==
    /\ r.pc \notin Opening => DOMAIN r.batch = {}
    /\ r.pc \in NoCandidates => DOMAIN r.cands = {}
    /\ r.pc = "loadFacts" => r.todo \subseteq DOMAIN r.cands
    /\ r.pc = "failed" => r.excused
    /\ ~r.excused => \A x \in DOMAIN r.batch : r.batch[x] \in cache \cup keys
    /\ ~r.excused /\ r.pc \in Holding =>
          /\ \A s \in WithFacts \cap DOMAIN r.cands : r.cands[s] = key[s]
          /\ \A s \in WithFacts \cap DOMAIN r.batch : r.batch[s] = key[s]

\* A summary that may be cited: one that was current, of the days asked about if
\* any candidate is.
Citable(s) == s \in r.fresh /\ (InWindow(s) \/ Within(DOMAIN r.cands) = {})

FreshHold ==
    /\ r.pc # "idle" => CurrentSummaries \subseteq r.fresh
    /\ DOMAIN r.cands \subseteq r.fresh
    /\ r.pc \in {"openVector", "openKeyword", "openFact"} => DOMAIN r.batch \subseteq r.fresh
    /\ r.pc = "loadFacts" => \A s \in r.front : Citable(s)
    /\ \A s \in Range(r.refs) \cap Summaries : Citable(s)

BeforeSummaries == {"embed", "tier", "vector", "openVector", "keyword", "openKeyword", "fact",
                    "openFact", "pick", "loadFacts"}

\* What may have been cited by now.
CitedByNow ==
    /\ r.pc \in {"idle", "anchor", "openAnchor"} => Range(r.refs) = {}
    /\ r.pc \in {"stage1", "format", "openFormat"} => Range(r.refs) \subseteq {Self}
    /\ r.pc \in BeforeSummaries => Range(r.refs) \subseteq {Self} \cup r.matched
    /\ r.pc \in {"episodes", "openEpisodes"} =>
          Range(r.refs) \subseteq {Self} \cup r.matched \cup Summaries
    /\ r.pc \in {"entities", "openEntities"} =>
          Range(r.refs) \subseteq {Self} \cup r.matched \cup Summaries \cup Episodes

\* What has been read to be cited next, and is not cited yet.
BatchIsNew ==
    /\ r.pc = "openAnchor" => DOMAIN r.batch \subseteq {Self}
    /\ r.pc \in Holding => DOMAIN r.batch \subseteq Summaries
    /\ r.pc = "loadFacts" => r.front \subseteq Summaries
    /\ r.pc = "openEpisodes" => DOMAIN r.batch \subseteq Episodes
    /\ r.pc = "openEntities" => DOMAIN r.batch \subseteq Entities \ r.matched
    /\ r.pc = "openKeywordEpisodes" => DOMAIN r.batch \subseteq Episodes \ Range(r.refs)
    /\ r.pc = "openKeywordEntities" => DOMAIN r.batch \subseteq Entities \ Range(r.refs)
    /\ r.pc = "walk" => r.walked \cap Range(r.refs) = {}
    /\ r.pc \in {"load", "openLoad"} => r.todo \subseteq r.walked \ Range(r.refs)
    /\ r.pc = "openLoad" => DOMAIN r.batch \subseteq r.todo /\ DOMAIN r.batch # {}
    /\ r.pc \notin {"walk", "load", "openLoad", "done", "failed"} => r.walked = {}

CitesHold ==
    /\ IsInjective(r.refs)
    /\ CitedByNow
    /\ r.hit <=> Range(r.refs) \ {Self} # {}
    /\ r.gate = "full" => r.pc = "done"
    /\ r.pc = "done" => (r.gate = "full" <=> r.hit)
    /\ BatchIsNew

Inv == Typed /\ KeysHold /\ FreshHold /\ CitesHold

----------------------------------------------------------------------------
(* Lemmas about the operators.                                             *)

\* What a SELECT returns is rows with their versions.
LEMMA VersionedIn ==
    ASSUME NEW X, X \subseteq Rows, NEW f \in [X -> 1..MaxKeys]
    PROVE  f \in Versioned
BY DEF Versioned

LEMMA VersionedOut ==
    ASSUME NEW f \in Versioned
    PROVE  /\ DOMAIN f \subseteq Rows
           /\ f \in [DOMAIN f -> 1..MaxKeys]
           /\ \A x \in DOMAIN f : f[x] \in 1..MaxKeys
           /\ Range(f) \subseteq 1..MaxKeys
<1>1. PICK X \in SUBSET Rows : f \in [X -> 1..MaxKeys]
  BY DEF Versioned
<1>2. QED
  BY <1>1 DEF Range

\* No rows.
LEMMA NoRowsVersioned == <<>> \in Versioned /\ DOMAIN <<>> = {} /\ Range(<<>>) = {}
<1>1. DOMAIN <<>> = {}
  OBVIOUS
<1>2. <<>> \in [{} -> 1..MaxKeys]
  BY <1>1
<1>3. Range(<<>>) = {}
  BY <1>1 DEF Range
<1>4. QED
  BY <1>1, <1>2, <1>3, VersionedIn

\* Of the call, a step changes only the fields F.
Changes(F) ==
    /\ r' = [f \in Fields |-> r'[f]]
    /\ \A f \in Fields \ F : r'[f] = r[f]

\* Reading rows X.
LEMMA ReadEffect ==
    ASSUME Typed, NEW X, X \subseteq rows, NEW pc \in PCs, Read(X, pc),
           UNCHANGED <<rows, key, keys, late, moving, pruning, related, cache>>
    PROVE  /\ Changes({"pc", "batch", "excused"}) /\ r'.pc = pc
           /\ DOMAIN r'.batch = X /\ \A x \in X : r'.batch[x] = key[x]
           /\ ~r'.excused => ~r.excused /\ \A x \in X : key[x] \in cache \cup keys
           /\ Typed'
<1>1. [x \in X |-> key[x]] \in Versioned
  <2>1. [x \in X |-> key[x]] \in [X -> 1..MaxKeys]
    BY DEF Typed, Database
  <2>2. QED
    BY <2>1, VersionedIn DEF Typed, Database
<1>2. /\ Changes({"pc", "batch", "excused"})
      /\ r'.pc = pc /\ r'.batch = [x \in X |-> key[x]]
      /\ r'.excused = (r.excused \/ Lost(X) # {})
  BY DEF Typed, InHand, Fields, Changes, Read
<1>3. r'.excused \in BOOLEAN
  BY <1>2, Zenon
<1>4. InHand'
  BY <1>1, <1>2, <1>3 DEF Typed, InHand, Fields, Changes
<1>5. ASSUME ~r'.excused
      PROVE  ~r.excused /\ \A x \in X : key[x] \in cache \cup keys
  <2>1. ~r.excused /\ Lost(X) = {}
    BY <1>2, <1>5, Zenon
  <2>2. \A x \in X : x \in late => key[x] \in cache \cup keys
    BY <2>1 DEF Lost
  <2>3. \A x \in X : x \notin late => key[x] \in keys
    BY DEF Typed, Database
  <2>4. QED
    BY <2>1, <2>2, <2>3
<1>6. QED
  BY <1>2, <1>4, <1>5 DEF Typed, Database

\* Opening them: what the cache has more are versions.
LEMMA OpenEffect ==
    ASSUME Typed, NEW pc, Open(pc)
    PROVE  Database' /\ rows' = rows /\ cache \subseteq cache' /\ keys' = keys /\ key' = key
<1>1. Range(r.batch) \subseteq 1..MaxKeys
  BY VersionedOut DEF Typed, InHand
<1>2. QED
  BY <1>1 DEF Typed, Database, Open

\* Citing rows X that are not cited yet.
LEMMA FoundEffect ==
    ASSUME Typed, NEW X, X \subseteq rows, NEW pc \in PCs, Found(X, pc), Database', rows' = rows
    PROVE  /\ Changes({"pc", "refs", "hit", "batch"}) /\ r'.pc = pc
           /\ DOMAIN r'.batch = {}
           /\ r'.hit <=> (r.hit \/ X # {})
           /\ Range(r'.refs) = Range(r.refs) \cup X
           /\ IsInjective(r.refs) /\ X \cap Range(r.refs) = {} => IsInjective(r'.refs)
           /\ Typed'
<1>1. IsFiniteSet(X)
  BY FS_Subset DEF Typed, Database
<1>2. /\ SetToSeq(X) \in Seq(X) /\ IsInjective(SetToSeq(X)) /\ Range(SetToSeq(X)) = X
  BY <1>1, SetAsSeq
<1>3. SetToSeq(X) \in Seq(Rows) /\ r.refs \in Seq(Rows)
  BY <1>2 DEF Typed, Database, InHand
<1>4. /\ Changes({"pc", "refs", "hit", "batch"}) /\ r'.pc = pc
      /\ r'.batch = <<>> /\ r'.hit \in BOOLEAN /\ (r'.hit <=> r.hit \/ X # {})
      /\ r'.refs = r.refs \o SetToSeq(X)
  BY DEF Typed, InHand, Fields, Changes, Found
<1>5. /\ r'.refs \in Seq(Rows) /\ Range(r'.refs) = Range(r.refs) \cup X
      /\ IsInjective(r.refs) /\ X \cap Range(r.refs) = {} => IsInjective(r'.refs)
  BY <1>2, <1>3, <1>4, Concatenated
<1>6. InHand'
  BY <1>4, <1>5, NoRowsVersioned DEF Typed, InHand, Fields, Changes
<1>7. QED
  BY <1>4, <1>5, <1>6, NoRowsVersioned DEF Typed

\* Rows of different tables are different.
LEMMA Tables ==
    /\ \A x \in Summaries : x \notin Episodes /\ x \notin Entities /\ x # Self
    /\ \A x \in Episodes : x \notin Entities /\ x # Self
    /\ \A x \in Entities : x # Self
BY RowAssumption

\* The candidates with the rows just opened.
LEMMA JoinedEffect ==
    ASSUME Typed, NEW M, M \subseteq DOMAIN r.batch
    PROVE  /\ Joined(M) \in Versioned
           /\ DOMAIN Joined(M) = M \cup DOMAIN r.cands
           /\ \A s \in M : Joined(M)[s] = r.batch[s]
           /\ \A s \in DOMAIN r.cands \ M : Joined(M)[s] = r.cands[s]
<1>1. /\ \A s \in DOMAIN r.batch : r.batch[s] \in 1..MaxKeys
      /\ \A s \in DOMAIN r.cands : r.cands[s] \in 1..MaxKeys
      /\ DOMAIN r.batch \subseteq Rows /\ DOMAIN r.cands \subseteq Rows
  BY VersionedOut DEF Typed, InHand
<1>2. Joined(M) \in [M \cup DOMAIN r.cands -> 1..MaxKeys]
  BY <1>1 DEF Joined
<1>3. M \cup DOMAIN r.cands \subseteq Rows
  BY <1>1
<1>4. QED
  BY <1>2, <1>3, VersionedIn DEF Joined

\* What is current, and what may be cited, depends on little.
LEMMA CurrentKept == ASSUME rows' = rows PROVE CurrentSummaries' = CurrentSummaries
BY DEF CurrentSummaries, Current

LEMMA CitableKept ==
    ASSUME r'.q = r.q, r'.cands = r.cands, r'.fresh = r.fresh
    PROVE  \A s : Citable(s)' <=> Citable(s)
BY DEF Citable, Within, InWindow

\* The properties of the refs when rows X are cited that were not.
LEMMA CitesGrow ==
    ASSUME Inv, NEW X, X \cap Range(r.refs) = {}, Self \notin X,
           Changes({"pc", "refs", "hit", "batch"}), r.pc # "done", r'.pc # "done",
           r'.hit <=> (r.hit \/ X # {}),
           Range(r'.refs) = Range(r.refs) \cup X,
           IsInjective(r.refs) /\ X \cap Range(r.refs) = {} => IsInjective(r'.refs),
           CitedByNow', BatchIsNew'
    PROVE  CitesHold'
<1>1. r'.hit <=> Range(r'.refs) \ {Self} # {}
  <2>1. r.hit <=> Range(r.refs) \ {Self} # {}
    BY DEF Inv, CitesHold
  <2>2. Range(r'.refs) \ {Self} # {} <=> (Range(r.refs) \ {Self} # {} \/ X # {})
    OBVIOUS
  <2>3. QED
    BY <2>1, <2>2
<1>2. r'.gate # "full"
  BY DEF Inv, CitesHold, Changes, Fields
<1>3. QED
  BY <1>1, <1>2 DEF Inv, CitesHold

----------------------------------------------------------------------------
(* The steps.                                                              *)

\* The retrieval starts.
LEMMA StartStep ==
    ASSUME Inv, Start
    PROVE  Inv'
<1>1. /\ rows' = rows /\ key' = key /\ keys' = keys /\ cache' = cache
      /\ Changes({"pc", "fresh"})
      /\ r.pc = "idle" /\ r'.pc = "anchor"
      /\ r'.fresh = CurrentSummaries
  BY DEF Inv, Typed, InHand, Fields, Changes, Start
<1>2. Typed'
  BY <1>1, NoRowsVersioned DEF Inv, Typed, Database, InHand, Fields, Changes, Start, PCs,
     Gates, Tiers, CurrentSummaries, Current
<1>3. KeysHold'
  BY <1>1, <1>2 DEF Inv, Typed, InHand, Fields, Changes, Database, KeysHold, NoCandidates,
     Opening, Holding
<1>4. FreshHold'
  BY <1>1, <1>2, CurrentKept, CitableKept DEF Inv, Typed, InHand, Fields, Changes, FreshHold,
     KeysHold, NoCandidates, CitesHold, CitedByNow
<1>5. CitedByNow'
  BY <1>1, <1>2 DEF Inv, Typed, InHand, Fields, Changes, CitesHold, CitedByNow,
     BeforeSummaries
<1>6. BatchIsNew'
  BY <1>1, <1>2 DEF Inv, Typed, InHand, Fields, Changes, CitesHold, BatchIsNew, Holding
<1>7. CitesHold'
  BY <1>1, <1>2, <1>5, <1>6 DEF Inv, Typed, InHand, Fields, Changes, CitesHold
<1>8. QED
  BY <1>1, <1>2, <1>3, <1>4, <1>5, <1>6, <1>7 DEF Inv

\* Reading the self model.
LEMMA ReadAnchorStep ==
    ASSUME Inv, ReadAnchor
    PROVE  Inv'
<1>1. ({Self} \cap rows) \subseteq rows
  BY DEF Inv, Typed, Database, InHand, ReadAnchor
<1>2. /\ rows' = rows /\ key' = key /\ keys' = keys /\ cache' = cache
      /\ r.pc = "anchor"
      /\ Changes({"pc", "batch", "excused"}) /\ r'.pc = "openAnchor"
      /\ DOMAIN r'.batch = ({Self} \cap rows)
        /\ \A x \in ({Self} \cap rows) : r'.batch[x] = key[x]
      /\ ~r'.excused => ~r.excused /\ \A x \in ({Self} \cap rows) : key[x] \in cache \cup keys
      /\ Typed'
  BY <1>1, ReadEffect DEF Inv, ReadAnchor, PCs
<1>3. KeysHold'
  BY <1>1, <1>2 DEF Inv, Typed, InHand, Fields, Changes, Database, KeysHold, NoCandidates,
     Opening, Holding
<1>4. FreshHold'
  BY <1>1, <1>2, CurrentKept, CitableKept DEF Inv, Typed, InHand, Fields, Changes, FreshHold
<1>5. CitedByNow'
  BY <1>1, <1>2 DEF Inv, Typed, InHand, Fields, Changes, CitesHold, CitedByNow,
     BeforeSummaries
<1>6. BatchIsNew'
  BY <1>1, <1>2 DEF Inv, Typed, InHand, Fields, Changes, CitesHold, BatchIsNew, Holding
<1>7. CitesHold'
  BY <1>1, <1>2, <1>5, <1>6 DEF Inv, Typed, InHand, Fields, Changes, CitesHold
<1>8. QED
  BY <1>1, <1>2, <1>3, <1>4, <1>5, <1>6, <1>7 DEF Inv

\* The entities the question names.
LEMMA MatchEntitiesStep ==
    ASSUME Inv, MatchEntities
    PROVE  Inv'
<1>1. /\ rows' = rows /\ key' = key /\ keys' = keys /\ cache' = cache
      /\ Changes({"matched", "todo", "pc"})
      /\ r.pc = "stage1" /\ r'.pc = "format"
      /\ r'.matched \subseteq r.q.names \cap rows /\ r'.todo = r'.matched
      /\ r.q.names \subseteq Entities
  BY QuestionAssumption DEF Inv, Typed, InHand, Fields, Changes, MatchEntities, Within,
     Question
<1>2. Typed'
  BY <1>1, NoRowsVersioned DEF Inv, Typed, Database, InHand, Fields, Changes, MatchEntities,
     PCs, Gates, Tiers
<1>3. KeysHold'
  BY <1>1, <1>2 DEF Inv, Typed, InHand, Fields, Changes, Database, KeysHold, NoCandidates,
     Opening, Holding
<1>4. FreshHold'
  BY <1>1, <1>2, CurrentKept, CitableKept DEF Inv, Typed, InHand, Fields, Changes, FreshHold
<1>5. CitedByNow'
  BY <1>1, <1>2 DEF Inv, Typed, InHand, Fields, Changes, CitesHold, CitedByNow,
     BeforeSummaries
<1>6. BatchIsNew'
  BY <1>1, <1>2 DEF Inv, Typed, InHand, Fields, Changes, CitesHold, BatchIsNew, Holding
<1>7. CitesHold'
  BY <1>1, <1>2, <1>5, <1>6 DEF Inv, Typed, InHand, Fields, Changes, CitesHold
<1>8. QED
  BY <1>1, <1>2, <1>3, <1>4, <1>5, <1>6, <1>7 DEF Inv

\* Reading one of them.
LEMMA FormatEntityStep ==
    ASSUME Inv, FormatEntity
    PROVE  Inv'
<1>1. PICK e \in r.todo : Read({e}, "openFormat")
  BY DEF FormatEntity
<1>2. {e} \subseteq rows
  BY <1>1 DEF Inv, Typed, Database, InHand, FormatEntity
<1>3. /\ rows' = rows /\ key' = key /\ keys' = keys /\ cache' = cache
      /\ r.pc = "format"
      /\ Changes({"pc", "batch", "excused"}) /\ r'.pc = "openFormat"
      /\ DOMAIN r'.batch = {e} /\ \A x \in {e} : r'.batch[x] = key[x]
      /\ ~r'.excused => ~r.excused /\ \A x \in {e} : key[x] \in cache \cup keys
      /\ Typed'
  BY <1>1, <1>2, ReadEffect DEF Inv, FormatEntity, PCs
<1>4. KeysHold'
  BY <1>1, <1>2, <1>3 DEF Inv, Typed, InHand, Fields, Changes, Database, KeysHold,
     NoCandidates, Opening, Holding
<1>5. FreshHold'
  BY <1>1, <1>2, <1>3, CurrentKept, CitableKept DEF Inv, Typed, InHand, Fields, Changes,
     FreshHold
<1>6. CitedByNow'
  BY <1>1, <1>2, <1>3 DEF Inv, Typed, InHand, Fields, Changes, CitesHold, CitedByNow,
     BeforeSummaries
<1>7. BatchIsNew'
  BY <1>1, <1>2, <1>3 DEF Inv, Typed, InHand, Fields, Changes, CitesHold, BatchIsNew, Holding
<1>8. CitesHold'
  BY <1>1, <1>2, <1>3, <1>6, <1>7 DEF Inv, Typed, InHand, Fields, Changes, CitesHold
<1>9. QED
  BY <1>1, <1>2, <1>3, <1>4, <1>5, <1>6, <1>7, <1>8 DEF Inv

\* Summaries like the question.
LEMMA VectorSummariesStep ==
    ASSUME Inv, VectorSummaries
    PROVE  Inv'
<1>1. PICK X \in UpTo(3 * MaxResults, CurrentSummaries) : Read(X, "openVector")
  BY DEF VectorSummaries
<1>2. X \subseteq rows /\ X \subseteq CurrentSummaries /\ CurrentSummaries \subseteq Summaries
  BY <1>1 DEF Inv, Typed, Database, InHand, VectorSummaries, UpTo, CurrentSummaries, Current
<1>3. /\ rows' = rows /\ key' = key /\ keys' = keys /\ cache' = cache
      /\ r.pc = "vector"
      /\ Changes({"pc", "batch", "excused"}) /\ r'.pc = "openVector"
      /\ DOMAIN r'.batch = X /\ \A x \in X : r'.batch[x] = key[x]
      /\ ~r'.excused => ~r.excused /\ \A x \in X : key[x] \in cache \cup keys
      /\ Typed'
  BY <1>1, <1>2, ReadEffect DEF Inv, VectorSummaries, PCs
<1>4. KeysHold'
  BY <1>1, <1>2, <1>3 DEF Inv, Typed, InHand, Fields, Changes, Database, KeysHold,
     NoCandidates, Opening, Holding
<1>5. FreshHold'
  BY <1>1, <1>2, <1>3, CurrentKept, CitableKept DEF Inv, Typed, InHand, Fields, Changes,
     FreshHold
<1>6. CitedByNow'
  BY <1>1, <1>2, <1>3 DEF Inv, Typed, InHand, Fields, Changes, CitesHold, CitedByNow,
     BeforeSummaries
<1>7. BatchIsNew'
  BY <1>1, <1>2, <1>3 DEF Inv, Typed, InHand, Fields, Changes, CitesHold, BatchIsNew, Holding
<1>8. CitesHold'
  BY <1>1, <1>2, <1>3, <1>6, <1>7 DEF Inv, Typed, InHand, Fields, Changes, CitesHold
<1>9. QED
  BY <1>1, <1>2, <1>3, <1>4, <1>5, <1>6, <1>7, <1>8 DEF Inv

\* The tier of the keyword search.
LEMMA ReadTierStep ==
    ASSUME Inv, ReadTier
    PROVE  Inv'
<1>1. /\ rows' = rows /\ key' = key /\ keys' = keys /\ cache' = cache
      /\ Changes({"tier", "pc"})
      /\ r.pc = "tier" /\ r'.pc = "vector"
      /\ r'.tier \in Tiers
  BY DEF Inv, Typed, InHand, Fields, Changes, ReadTier, Tiers
<1>2. Typed'
  BY <1>1, NoRowsVersioned DEF Inv, Typed, Database, InHand, Fields, Changes, ReadTier, PCs,
     Gates, Tiers
<1>3. KeysHold'
  BY <1>1, <1>2 DEF Inv, Typed, InHand, Fields, Changes, Database, KeysHold, NoCandidates,
     Opening, Holding
<1>4. FreshHold'
  BY <1>1, <1>2, CurrentKept, CitableKept DEF Inv, Typed, InHand, Fields, Changes, FreshHold
<1>5. CitedByNow'
  BY <1>1, <1>2 DEF Inv, Typed, InHand, Fields, Changes, CitesHold, CitedByNow,
     BeforeSummaries
<1>6. BatchIsNew'
  BY <1>1, <1>2 DEF Inv, Typed, InHand, Fields, Changes, CitesHold, BatchIsNew, Holding
<1>7. CitesHold'
  BY <1>1, <1>2, <1>5, <1>6 DEF Inv, Typed, InHand, Fields, Changes, CitesHold
<1>8. QED
  BY <1>1, <1>2, <1>3, <1>4, <1>5, <1>6, <1>7 DEF Inv

\* The embedder answers, or not.
LEMMA EmbedQueryStep ==
    ASSUME Inv, EmbedQuery
    PROVE  Inv'
<1>1. rows' = rows /\ key' = key /\ keys' = keys /\ cache' = cache
      /\ late' = late /\ moving' = moving /\ pruning' = pruning /\ related' = related
      /\ r.pc = "embed"
  BY DEF EmbedQuery
<1>2. /\ Changes({"pc", "excused"})
      /\ r'.excused \in BOOLEAN
      /\ \/ r'.pc = "tier" /\ Changes({"pc"})
         \/ r'.pc = "failed" /\ r'.excused = TRUE
  <2>1. CASE r' = [r EXCEPT !.pc = "tier"]
    BY <2>1 DEF Inv, Typed, InHand, Fields, Changes
  <2>2. CASE r' = [r EXCEPT !.pc = "failed", !.excused = TRUE]
    BY <2>2 DEF Inv, Typed, InHand, Fields, Changes
  <2>3. QED
    BY <2>1, <2>2 DEF EmbedQuery
<1>3. Typed'
  BY <1>1, <1>2 DEF Inv, Typed, Database, InHand, Fields, Changes, PCs
<1>4. KeysHold'
  BY <1>1, <1>2, <1>3 DEF Inv, Typed, InHand, Fields, Changes, Database, KeysHold,
     NoCandidates, Opening, Holding
<1>5. FreshHold'
  BY <1>1, <1>2, <1>3, CurrentKept, CitableKept DEF Inv, Typed, InHand, Fields, Changes,
     FreshHold
<1>6. CitedByNow'
  BY <1>1, <1>2, <1>3 DEF Inv, Typed, InHand, Fields, Changes, CitesHold, CitedByNow,
     BeforeSummaries
<1>7. BatchIsNew'
  BY <1>1, <1>2, <1>3 DEF Inv, Typed, InHand, Fields, Changes, CitesHold, BatchIsNew, Holding
<1>8. CitesHold'
  BY <1>1, <1>2, <1>3, <1>6, <1>7 DEF Inv, Typed, InHand, Fields, Changes, CitesHold
<1>9. QED
  BY <1>1, <1>2, <1>3, <1>4, <1>5, <1>6, <1>7, <1>8 DEF Inv

\* Citing the self model.
LEMMA OpenAnchorStep ==
    ASSUME Inv, OpenAnchor
    PROVE  Inv'
<1>1. /\ Database' /\ rows' = rows /\ cache \subseteq cache' /\ keys' = keys /\ key' = key
      /\ r.pc = "openAnchor"
  BY OpenEffect DEF Inv, OpenAnchor, Open
<1>2. /\ Changes({"refs", "batch", "pc", "gate"})
      /\ r'.refs = SetToSeq(DOMAIN r.batch) /\ r'.batch = <<>> /\ DOMAIN r'.batch = {}
      /\ r'.pc = (IF r.q.empty THEN "done" ELSE "stage1")
      /\ r'.gate = (IF r.q.empty THEN "skipped" ELSE "none")
  BY NoRowsVersioned DEF Inv, Typed, InHand, Fields, Changes, OpenAnchor
<1>3. DOMAIN r.batch \subseteq {Self} \cap rows /\ r.hit = FALSE
  BY <1>1 DEF Inv, Typed, InHand, CitesHold, CitedByNow, BatchIsNew
<1>4. r'.refs \in Seq(DOMAIN r.batch) /\ Range(r'.refs) = DOMAIN r.batch /\ IsInjective(r'.refs)
  BY <1>2, <1>3, SetAsSeq, FS_Subset DEF Inv, Typed, Database
<1>5. r'.refs \in Seq(Rows)
  BY <1>3, <1>4 DEF Inv, Typed, Database
<1>6. Typed'
  BY <1>1, <1>2, <1>3, <1>4, <1>5, NoRowsVersioned DEF Inv, Typed, InHand, Fields, Changes,
     PCs, Gates, Tiers
<1>7. KeysHold'
  BY <1>1, <1>2, <1>3, <1>4, <1>5, <1>6 DEF Inv, Typed, InHand, Fields, Changes, Database,
     KeysHold, NoCandidates, Opening, Holding
<1>8. FreshHold'
  BY <1>1, <1>2, <1>3, <1>4, <1>5, <1>6, CurrentKept, CitableKept, Tables DEF Inv, Typed,
     InHand, Fields, Changes, FreshHold
<1>9. CitedByNow'
  BY <1>1, <1>2, <1>3, <1>4, <1>5, <1>6 DEF Inv, Typed, InHand, Fields, Changes, CitesHold,
     CitedByNow, BeforeSummaries
<1>10. BatchIsNew'
  BY <1>1, <1>2, <1>3, <1>4, <1>5, <1>6 DEF Inv, Typed, InHand, Fields, Changes, CitesHold,
     BatchIsNew, Holding
<1>11. CitesHold'
  BY <1>1, <1>2, <1>3, <1>4, <1>5, <1>6, <1>9, <1>10 DEF Inv, Typed, InHand, Fields, Changes,
     CitesHold, BatchIsNew
<1>12. QED
  BY <1>1, <1>2, <1>3, <1>4, <1>5, <1>6, <1>7, <1>8, <1>9, <1>10, <1>11 DEF Inv

\* A named entity is opened.
LEMMA OpenEntityStep ==
    ASSUME Inv, OpenEntity
    PROVE  Inv'
<1>1. /\ Database' /\ rows' = rows /\ cache \subseteq cache' /\ keys' = keys /\ key' = key
      /\ r.pc = "openFormat"
  BY OpenEffect DEF Inv, OpenEntity, Open
<1>2. /\ Changes({"todo", "batch", "pc"})
      /\ r'.todo = r.todo \ DOMAIN r.batch /\ r'.batch = <<>> /\ DOMAIN r'.batch = {}
      /\ r'.pc = "format"
  BY NoRowsVersioned DEF Inv, Typed, InHand, Fields, Changes, OpenEntity
<1>3. Typed'
  BY <1>1, <1>2, NoRowsVersioned DEF Inv, Typed, InHand, Fields, Changes, PCs, Gates, Tiers
<1>4. KeysHold'
  BY <1>1, <1>2, <1>3 DEF Inv, Typed, InHand, Fields, Changes, Database, KeysHold,
     NoCandidates, Opening, Holding
<1>5. FreshHold'
  BY <1>1, <1>2, <1>3, CurrentKept, CitableKept DEF Inv, Typed, InHand, Fields, Changes,
     FreshHold
<1>6. CitedByNow'
  BY <1>1, <1>2, <1>3 DEF Inv, Typed, InHand, Fields, Changes, CitesHold, CitedByNow,
     BeforeSummaries
<1>7. BatchIsNew'
  BY <1>1, <1>2, <1>3 DEF Inv, Typed, InHand, Fields, Changes, CitesHold, BatchIsNew, Holding
<1>8. CitesHold'
  BY <1>1, <1>2, <1>3, <1>6, <1>7 DEF Inv, Typed, InHand, Fields, Changes, CitesHold
<1>9. QED
  BY <1>1, <1>2, <1>3, <1>4, <1>5, <1>6, <1>7, <1>8 DEF Inv

\* Nothing to search for, or the entities named are cited.
LEMMA Stage1GateStep ==
    ASSUME Inv, Stage1Gate
    PROVE  Inv'
<1>1. /\ Database' /\ rows' = rows /\ key' = key /\ keys' = keys /\ cache' = cache
      /\ r.pc = "format" /\ r.todo = {}
  BY DEF Inv, Typed, Database, Stage1Gate
<1>2. CASE r.matched = {} /\ ~r.q.signal
  <2>1. /\ Changes({"pc", "gate"}) /\ r'.pc = "done" /\ r'.gate = "skipped"
    BY <1>2 DEF Inv, Typed, InHand, Fields, Changes, Stage1Gate
  <2>2. Typed'
    BY <1>1, <2>1 DEF Inv, Typed, InHand, Fields, Changes, PCs, Gates
  <2>3. KeysHold'
    BY <1>1, <2>1 DEF Inv, Typed, InHand, Fields, Changes, KeysHold, NoCandidates, Opening,
       Holding
  <2>4. FreshHold'
    BY <1>1, <2>1, CurrentKept, CitableKept DEF Inv, Typed, InHand, Fields, Changes, FreshHold
  <2>5. CitesHold'
    BY <1>1, <2>1 DEF Inv, Typed, InHand, Fields, Changes, CitesHold, CitedByNow, BatchIsNew,
       BeforeSummaries, Holding
  <2>6. QED
    BY <2>2, <2>3, <2>4, <2>5 DEF Inv
<1>3. CASE ~(r.matched = {} /\ ~r.q.signal)
  <2>1. /\ r.matched \subseteq rows
        /\ r.matched \cap Range(r.refs) = {} /\ Self \notin r.matched
        /\ r.matched \cap Summaries = {}
    BY <1>1, Tables DEF Inv, Typed, InHand, CitesHold, CitedByNow
  <2>2. /\ Changes({"pc", "refs", "hit", "batch"}) /\ r'.pc = "embed"
        /\ DOMAIN r'.batch = {}
        /\ r'.hit <=> (r.hit \/ r.matched # {})
        /\ Range(r'.refs) = Range(r.refs) \cup r.matched
        /\ IsInjective(r.refs) /\ r.matched \cap Range(r.refs) = {} => IsInjective(r'.refs)
        /\ Typed'
    BY <1>1, <1>3, <2>1, FoundEffect DEF Inv, Stage1Gate, PCs
  <2>3. KeysHold'
    BY <1>1, <2>2 DEF Inv, Fields, Changes, KeysHold, NoCandidates, Opening, Holding
  <2>4. FreshHold'
    BY <1>1, <2>1, <2>2, CurrentKept, CitableKept DEF Inv, Fields, Changes, FreshHold
  <2>5. CitedByNow'
    BY <1>1, <2>2 DEF Inv, Fields, Changes, CitesHold, CitedByNow, BeforeSummaries
  <2>6. BatchIsNew'
    BY <1>1, <2>2 DEF Inv, Fields, Changes, CitesHold, BatchIsNew, Holding
  <2>7. CitesHold'
    BY <1>1, <2>1, <2>2, <2>5, <2>6, CitesGrow
  <2>8. QED
    BY <2>2, <2>3, <2>4, <2>7 DEF Inv
<1>4. QED
  BY <1>2, <1>3

\* The summaries found are the candidates.
LEMMA OpenVectorStep ==
    ASSUME Inv, OpenVector
    PROVE  Inv'
<1>1. /\ Database' /\ rows' = rows /\ cache \subseteq cache' /\ keys' = keys /\ key' = key
      /\ r.pc = "openVector"
  BY OpenEffect DEF Inv, OpenVector, Open
<1>2. /\ Changes({"cands", "batch", "pc"})
      /\ r'.cands = r.batch /\ r'.batch = <<>> /\ DOMAIN r'.batch = {}
      /\ r'.pc \in {"keyword", "fact"}
  BY NoRowsVersioned DEF Inv, Typed, InHand, Fields, Changes, OpenVector
<1>3. Typed'
  BY <1>1, <1>2, NoRowsVersioned DEF Inv, Typed, InHand, Fields, Changes, PCs, Gates, Tiers,
     CitesHold, BatchIsNew, Holding
<1>4. KeysHold'
  BY <1>1, <1>2, <1>3 DEF Inv, Typed, InHand, Fields, Changes, Database, KeysHold,
     NoCandidates, Opening, Holding
<1>5. FreshHold'
  BY <1>1, <1>2, <1>3, CurrentKept, Tables DEF Inv, Typed, InHand, Fields, Changes,
     FreshHold, CitesHold, CitedByNow, BeforeSummaries
<1>6. CitedByNow'
  BY <1>1, <1>2, <1>3 DEF Inv, Typed, InHand, Fields, Changes, CitesHold, CitedByNow,
     BeforeSummaries
<1>7. BatchIsNew'
  BY <1>1, <1>2, <1>3 DEF Inv, Typed, InHand, Fields, Changes, CitesHold, BatchIsNew, Holding
<1>8. CitesHold'
  BY <1>1, <1>2, <1>3, <1>6, <1>7 DEF Inv, Typed, InHand, Fields, Changes, CitesHold
<1>9. QED
  BY <1>1, <1>2, <1>3, <1>4, <1>5, <1>6, <1>7, <1>8 DEF Inv

\* The documents of the keyword search.
LEMMA KeywordSummariesStep ==
    ASSUME Inv, KeywordSummaries
    PROVE  Inv'
<1>1. PICK X \in SUBSET KeywordDocs : Read((X \ DOMAIN r.cands), "openKeyword")
  BY DEF KeywordSummaries
<1>2. (X \ DOMAIN r.cands) \subseteq rows /\ X \subseteq CurrentSummaries
        /\ CurrentSummaries \subseteq Summaries
  BY <1>1 DEF Inv, Typed, Database, InHand, KeywordSummaries, KeywordDocs, CurrentSummaries,
     Current
<1>3. /\ rows' = rows /\ key' = key /\ keys' = keys /\ cache' = cache
      /\ r.pc = "keyword"
      /\ Changes({"pc", "batch", "excused"}) /\ r'.pc = "openKeyword"
      /\ DOMAIN r'.batch = (X \ DOMAIN r.cands)
        /\ \A x \in (X \ DOMAIN r.cands) : r'.batch[x] = key[x]
      /\ ~r'.excused => ~r.excused /\ \A x \in (X \ DOMAIN r.cands) : key[x] \in cache \cup keys
      /\ Typed'
  BY <1>1, <1>2, ReadEffect DEF Inv, KeywordSummaries, PCs
<1>4. KeysHold'
  BY <1>1, <1>2, <1>3 DEF Inv, Typed, InHand, Fields, Changes, Database, KeysHold,
     NoCandidates, Opening, Holding
<1>5. FreshHold'
  BY <1>1, <1>2, <1>3, CurrentKept, CitableKept DEF Inv, Typed, InHand, Fields, Changes,
     FreshHold
<1>6. CitedByNow'
  BY <1>1, <1>2, <1>3 DEF Inv, Typed, InHand, Fields, Changes, CitesHold, CitedByNow,
     BeforeSummaries
<1>7. BatchIsNew'
  BY <1>1, <1>2, <1>3 DEF Inv, Typed, InHand, Fields, Changes, CitesHold, BatchIsNew, Holding
<1>8. CitesHold'
  BY <1>1, <1>2, <1>3, <1>6, <1>7 DEF Inv, Typed, InHand, Fields, Changes, CitesHold
<1>9. QED
  BY <1>1, <1>2, <1>3, <1>4, <1>5, <1>6, <1>7, <1>8 DEF Inv

\* Those that match are candidates.
LEMMA OpenKeywordStep ==
    ASSUME Inv, OpenKeyword
    PROVE  Inv'
<1>1. PICK M \in SUBSET (DOMAIN r.batch) :
          r' = [r EXCEPT !.cands = Joined(M), !.batch = <<>>, !.pc = "fact"]
  BY DEF OpenKeyword, bm25Score
<1>2. /\ Database' /\ rows' = rows /\ cache \subseteq cache' /\ keys' = keys /\ key' = key
      /\ r.pc = "openKeyword"
  BY OpenEffect DEF Inv, OpenKeyword, Open
<1>3. /\ Changes({"cands", "batch", "pc"})
      /\ r'.cands = Joined(M) /\ r'.batch = <<>> /\ DOMAIN r'.batch = {}
      /\ r'.pc = "fact"
  BY <1>1, NoRowsVersioned DEF Inv, Typed, InHand, Fields, Changes, OpenKeyword
<1>4. /\ Joined(M) \in Versioned
      /\ DOMAIN Joined(M) = M \cup DOMAIN r.cands
      /\ \A s \in M : Joined(M)[s] = r.batch[s]
      /\ \A s \in DOMAIN r.cands \ M : Joined(M)[s] = r.cands[s]
  BY JoinedEffect DEF Inv
<1>5. Typed'
  BY <1>1, <1>2, <1>3, <1>4, NoRowsVersioned DEF Inv, Typed, InHand, Fields, Changes, PCs,
     Gates, Tiers, CitesHold, BatchIsNew, Holding
<1>6. KeysHold'
  BY <1>2, <1>3, <1>4, <1>5 DEF Inv, Typed, InHand, Fields, Changes, Database, KeysHold,
     NoCandidates, Opening, Holding
<1>7. FreshHold'
  BY <1>2, <1>3, <1>4, <1>5, CurrentKept, Tables DEF Inv, Typed, InHand, Fields, Changes,
     FreshHold, CitesHold, CitedByNow, BeforeSummaries
<1>8. CitedByNow'
  BY <1>2, <1>3, <1>4, <1>5 DEF Inv, Typed, InHand, Fields, Changes, CitesHold, CitedByNow,
     BeforeSummaries
<1>9. BatchIsNew'
  BY <1>2, <1>3, <1>4, <1>5 DEF Inv, Typed, InHand, Fields, Changes, CitesHold, BatchIsNew,
     Holding
<1>10. CitesHold'
  BY <1>2, <1>3, <1>4, <1>5, <1>8, <1>9 DEF Inv, Typed, InHand, Fields, Changes, CitesHold
<1>11. QED
  BY <1>2, <1>3, <1>4, <1>5, <1>6, <1>7, <1>8, <1>9, <1>10 DEF Inv

\* Summaries with a fact like the question.
LEMMA FactSummariesStep ==
    ASSUME Inv, FactSummaries
    PROVE  Inv'
<1>1. PICK X \in UpTo(3 * MaxResults, CurrentSummaries \cap WithFacts) :
          Read((X \ DOMAIN r.cands), "openFact")
  BY DEF FactSummaries
<1>2. (X \ DOMAIN r.cands) \subseteq rows /\ X \subseteq CurrentSummaries
        /\ CurrentSummaries \subseteq Summaries
  BY <1>1 DEF Inv, Typed, Database, InHand, FactSummaries, UpTo, CurrentSummaries, Current
<1>3. /\ rows' = rows /\ key' = key /\ keys' = keys /\ cache' = cache
      /\ r.pc = "fact"
      /\ Changes({"pc", "batch", "excused"}) /\ r'.pc = "openFact"
      /\ DOMAIN r'.batch = (X \ DOMAIN r.cands)
        /\ \A x \in (X \ DOMAIN r.cands) : r'.batch[x] = key[x]
      /\ ~r'.excused => ~r.excused /\ \A x \in (X \ DOMAIN r.cands) : key[x] \in cache \cup keys
      /\ Typed'
  BY <1>1, <1>2, ReadEffect DEF Inv, FactSummaries, PCs
<1>4. KeysHold'
  BY <1>1, <1>2, <1>3 DEF Inv, Typed, InHand, Fields, Changes, Database, KeysHold,
     NoCandidates, Opening, Holding
<1>5. FreshHold'
  BY <1>1, <1>2, <1>3, CurrentKept, CitableKept DEF Inv, Typed, InHand, Fields, Changes,
     FreshHold
<1>6. CitedByNow'
  BY <1>1, <1>2, <1>3 DEF Inv, Typed, InHand, Fields, Changes, CitesHold, CitedByNow,
     BeforeSummaries
<1>7. BatchIsNew'
  BY <1>1, <1>2, <1>3 DEF Inv, Typed, InHand, Fields, Changes, CitesHold, BatchIsNew, Holding
<1>8. CitesHold'
  BY <1>1, <1>2, <1>3, <1>6, <1>7 DEF Inv, Typed, InHand, Fields, Changes, CitesHold
<1>9. QED
  BY <1>1, <1>2, <1>3, <1>4, <1>5, <1>6, <1>7, <1>8 DEF Inv

\* They are candidates.
LEMMA OpenFactStep ==
    ASSUME Inv, OpenFact
    PROVE  Inv'
<1>1. /\ Database' /\ rows' = rows /\ cache \subseteq cache' /\ keys' = keys /\ key' = key
      /\ r.pc = "openFact"
  BY OpenEffect DEF Inv, OpenFact, Open
<1>2. /\ Changes({"cands", "batch", "pc"})
      /\ r'.cands = Joined(DOMAIN r.batch) /\ r'.batch = <<>> /\ DOMAIN r'.batch = {}
      /\ r'.pc = "pick"
  BY NoRowsVersioned DEF Inv, Typed, InHand, Fields, Changes, OpenFact
<1>3. /\ Joined(DOMAIN r.batch) \in Versioned
      /\ DOMAIN Joined(DOMAIN r.batch) = DOMAIN r.batch \cup DOMAIN r.cands
      /\ \A s \in DOMAIN r.batch : Joined(DOMAIN r.batch)[s] = r.batch[s]
      /\ \A s \in DOMAIN r.cands \ DOMAIN r.batch : Joined(DOMAIN r.batch)[s] = r.cands[s]
  BY JoinedEffect DEF Inv
<1>4. Typed'
  BY <1>1, <1>2, <1>3, NoRowsVersioned DEF Inv, Typed, InHand, Fields, Changes, PCs, Gates,
     Tiers, CitesHold, BatchIsNew, Holding
<1>5. KeysHold'
  BY <1>1, <1>2, <1>3, <1>4 DEF Inv, Typed, InHand, Fields, Changes, Database, KeysHold,
     NoCandidates, Opening, Holding
<1>6. FreshHold'
  BY <1>1, <1>2, <1>3, <1>4, CurrentKept, Tables DEF Inv, Typed, InHand, Fields, Changes,
     FreshHold, CitesHold, CitedByNow, BeforeSummaries
<1>7. CitedByNow'
  BY <1>1, <1>2, <1>3, <1>4 DEF Inv, Typed, InHand, Fields, Changes, CitesHold, CitedByNow,
     BeforeSummaries
<1>8. BatchIsNew'
  BY <1>1, <1>2, <1>3, <1>4 DEF Inv, Typed, InHand, Fields, Changes, CitesHold, BatchIsNew,
     Holding
<1>9. CitesHold'
  BY <1>1, <1>2, <1>3, <1>4, <1>7, <1>8 DEF Inv, Typed, InHand, Fields, Changes, CitesHold
<1>10. QED
  BY <1>1, <1>2, <1>3, <1>4, <1>5, <1>6, <1>7, <1>8, <1>9 DEF Inv

\* The selection from the candidates.
LEMMA PickSummariesStep ==
    ASSUME Inv, PickSummaries
    PROVE  Inv'
<1>1. /\ rows' = rows /\ key' = key /\ keys' = keys /\ cache' = cache
      /\ Changes({"todo", "front", "pc"})
      /\ r.pc = "pick" /\ r'.pc = "loadFacts"
      /\ r'.todo \subseteq Pool /\ r'.front = r'.todo
  BY DEF Inv, Typed, InHand, Fields, Changes, PickSummaries, mmrSelect
<1>2. /\ Pool \subseteq DOMAIN r.cands
      /\ \A s \in Pool : InWindow(s) \/ Within(DOMAIN r.cands) = {}
  BY DEF Pool, WithinIfAny, Within
<1>3. Typed'
  BY <1>1, <1>2 DEF Inv, Typed, Database, InHand, Fields, Changes, PickSummaries, PCs
<1>4. \A s : Citable(s)' <=> Citable(s)
  BY <1>1, CitableKept DEF Fields, Changes
<1>5. KeysHold'
  BY <1>1, <1>2, <1>3, <1>4 DEF Inv, Typed, InHand, Fields, Changes, Database, KeysHold,
     NoCandidates, Opening, Holding
<1>6. FreshHold'
  BY <1>1, <1>2, <1>3, <1>4, CurrentKept, CitableKept DEF Inv, Typed, InHand, Fields,
     Changes, FreshHold, Citable
<1>7. CitedByNow'
  BY <1>1, <1>2, <1>3, <1>4 DEF Inv, Typed, InHand, Fields, Changes, CitesHold, CitedByNow,
     BeforeSummaries
<1>8. BatchIsNew'
  BY <1>1, <1>2, <1>3, <1>4 DEF Inv, Typed, InHand, Fields, Changes, CitesHold, BatchIsNew,
     Holding
<1>9. CitesHold'
  BY <1>1, <1>2, <1>3, <1>4, <1>7, <1>8 DEF Inv, Typed, InHand, Fields, Changes, CitesHold
<1>10. QED
  BY <1>1, <1>2, <1>3, <1>4, <1>5, <1>6, <1>7, <1>8, <1>9 DEF Inv

\* The facts of one of them.
LEMMA LoadKeyFactsStep ==
    ASSUME Inv, LoadKeyFacts
    PROVE  Inv'
<1>1. /\ rows' = rows /\ key' = key /\ keys' = keys /\ cache' = cache
      /\ Changes({"todo", "pc"})
      /\ r.pc = "loadFacts"
      /\ \/ r'.pc = r.pc /\ r'.todo \subseteq r.todo
         \/ r'.pc = "failed" /\ r'.todo = r.todo
           /\ \E s \in r.todo \cap WithFacts : key[s] # r.cands[s]
  BY DEF Inv, Typed, InHand, Fields, Changes, LoadKeyFacts
<1>2. Typed'
  BY <1>1, NoRowsVersioned DEF Inv, Typed, Database, InHand, Fields, Changes, LoadKeyFacts,
     PCs, Gates, Tiers
<1>3. KeysHold'
  BY <1>1, <1>2 DEF Inv, Typed, InHand, Fields, Changes, Database, KeysHold, NoCandidates,
     Opening, Holding
<1>4. FreshHold'
  BY <1>1, <1>2, CurrentKept, CitableKept DEF Inv, Typed, InHand, Fields, Changes, FreshHold
<1>5. CitedByNow'
  BY <1>1, <1>2 DEF Inv, Typed, InHand, Fields, Changes, CitesHold, CitedByNow,
     BeforeSummaries
<1>6. BatchIsNew'
  BY <1>1, <1>2 DEF Inv, Typed, InHand, Fields, Changes, CitesHold, BatchIsNew, Holding
<1>7. CitesHold'
  BY <1>1, <1>2, <1>5, <1>6 DEF Inv, Typed, InHand, Fields, Changes, CitesHold
<1>8. QED
  BY <1>1, <1>2, <1>3, <1>4, <1>5, <1>6, <1>7 DEF Inv

\* The selection is cited.
LEMMA WriteSummariesStep ==
    ASSUME Inv, WriteSummaries
    PROVE  Inv'
<1>1. /\ Database' /\ rows' = rows /\ cache' = cache /\ keys' = keys /\ key' = key
      /\ r.pc = "loadFacts"
  BY DEF Inv, Typed, Database, WriteSummaries
<1>2. /\ r.front \subseteq rows
      /\ r.front \cap Range(r.refs) = {} /\ Self \notin r.front
  BY <1>1, Tables DEF Inv, Typed, InHand, CitesHold, CitedByNow, BatchIsNew, BeforeSummaries,
     Holding
<1>3. /\ Changes({"pc", "refs", "hit", "batch"}) /\ r'.pc = "episodes"
      /\ DOMAIN r'.batch = {}
      /\ (r'.hit <=> r.hit \/ r.front # {})
      /\ Range(r'.refs) = Range(r.refs) \cup r.front
      /\ IsInjective(r.refs) /\ r.front \cap Range(r.refs) = {} => IsInjective(r'.refs)
      /\ Typed'
  BY <1>1, <1>2, FoundEffect DEF Inv, WriteSummaries, PCs, Keywords
<1>4. KeysHold'
  BY <1>1, <1>2, <1>3 DEF Inv, Typed, InHand, Fields, Changes, Database, KeysHold,
     NoCandidates, Opening, Holding
<1>5. FreshHold'
  BY <1>1, <1>2, <1>3, CurrentKept, CitableKept DEF Inv, Typed, InHand, Fields, Changes,
     FreshHold
<1>6. CitedByNow'
  BY <1>1, <1>2, <1>3 DEF Inv, Typed, InHand, Fields, Changes, CitesHold, CitedByNow,
     BeforeSummaries, BatchIsNew, Holding
<1>7. BatchIsNew'
  BY <1>1, <1>2, <1>3 DEF Inv, Typed, InHand, Fields, Changes, CitesHold, BatchIsNew, Holding
<1>8. CitesHold'
  BY <1>1, <1>2, <1>3, <1>6, <1>7, CitesGrow DEF Inv, Typed, InHand, Fields, Changes, Keywords
<1>9. QED
  BY <1>1, <1>2, <1>3, <1>4, <1>5, <1>6, <1>7, <1>8 DEF Inv

\* Episodes like the question.
LEMMA VectorEpisodesStep ==
    ASSUME Inv, VectorEpisodes
    PROVE  Inv'
<1>1. PICK X \in UpTo(MaxResults, Episodes \cap rows) : Read(X, "openEpisodes")
  BY DEF VectorEpisodes
<1>2. X \subseteq rows /\ X \subseteq Episodes
  BY <1>1 DEF Inv, Typed, Database, InHand, VectorEpisodes, UpTo
<1>3. /\ rows' = rows /\ key' = key /\ keys' = keys /\ cache' = cache
      /\ r.pc = "episodes"
      /\ Changes({"pc", "batch", "excused"}) /\ r'.pc = "openEpisodes"
      /\ DOMAIN r'.batch = X /\ \A x \in X : r'.batch[x] = key[x]
      /\ ~r'.excused => ~r.excused /\ \A x \in X : key[x] \in cache \cup keys
      /\ Typed'
  BY <1>1, <1>2, ReadEffect DEF Inv, VectorEpisodes, PCs
<1>4. KeysHold'
  BY <1>1, <1>2, <1>3 DEF Inv, Typed, InHand, Fields, Changes, Database, KeysHold,
     NoCandidates, Opening, Holding
<1>5. FreshHold'
  BY <1>1, <1>2, <1>3, CurrentKept, CitableKept DEF Inv, Typed, InHand, Fields, Changes,
     FreshHold
<1>6. CitedByNow'
  BY <1>1, <1>2, <1>3 DEF Inv, Typed, InHand, Fields, Changes, CitesHold, CitedByNow,
     BeforeSummaries
<1>7. BatchIsNew'
  BY <1>1, <1>2, <1>3 DEF Inv, Typed, InHand, Fields, Changes, CitesHold, BatchIsNew, Holding
<1>8. CitesHold'
  BY <1>1, <1>2, <1>3, <1>6, <1>7 DEF Inv, Typed, InHand, Fields, Changes, CitesHold
<1>9. QED
  BY <1>1, <1>2, <1>3, <1>4, <1>5, <1>6, <1>7, <1>8 DEF Inv

\* They are cited.
LEMMA OpenEpisodesStep ==
    ASSUME Inv, OpenEpisodes
    PROVE  Inv'
<1>1. /\ Database' /\ rows' = rows /\ cache \subseteq cache' /\ keys' = keys /\ key' = key
      /\ r.pc = "openEpisodes"
  BY OpenEffect DEF Inv, OpenEpisodes, Open
<1>2. /\ WithinIfAny(DOMAIN r.batch) \subseteq rows
        /\ WithinIfAny(DOMAIN r.batch) \cap Summaries = {}
        /\ WithinIfAny(DOMAIN r.batch) \subseteq DOMAIN r.batch
      /\ WithinIfAny(DOMAIN r.batch) \cap Range(r.refs) = {}
        /\ Self \notin WithinIfAny(DOMAIN r.batch)
  BY <1>1, Tables DEF Inv, Typed, InHand, CitesHold, CitedByNow, BatchIsNew, BeforeSummaries,
     Holding, WithinIfAny, Within
<1>3. /\ Changes({"pc", "refs", "hit", "batch"}) /\ r'.pc = "entities"
      /\ DOMAIN r'.batch = {}
      /\ (r'.hit <=> r.hit \/ WithinIfAny(DOMAIN r.batch) # {})
      /\ Range(r'.refs) = Range(r.refs) \cup WithinIfAny(DOMAIN r.batch)
      /\ IsInjective(r.refs)
        /\ WithinIfAny(DOMAIN r.batch) \cap Range(r.refs) = {} => IsInjective(r'.refs)
      /\ Typed'
  BY <1>1, <1>2, FoundEffect DEF Inv, OpenEpisodes, PCs, Keywords
<1>4. KeysHold'
  BY <1>1, <1>2, <1>3 DEF Inv, Typed, InHand, Fields, Changes, Database, KeysHold,
     NoCandidates, Opening, Holding
<1>5. FreshHold'
  BY <1>1, <1>2, <1>3, CurrentKept, CitableKept DEF Inv, Typed, InHand, Fields, Changes,
     FreshHold
<1>6. CitedByNow'
  BY <1>1, <1>2, <1>3 DEF Inv, Typed, InHand, Fields, Changes, CitesHold, CitedByNow,
     BeforeSummaries, BatchIsNew, Holding
<1>7. BatchIsNew'
  BY <1>1, <1>2, <1>3 DEF Inv, Typed, InHand, Fields, Changes, CitesHold, BatchIsNew, Holding
<1>8. CitesHold'
  BY <1>1, <1>2, <1>3, <1>6, <1>7, CitesGrow DEF Inv, Typed, InHand, Fields, Changes, Keywords
<1>9. QED
  BY <1>1, <1>2, <1>3, <1>4, <1>5, <1>6, <1>7, <1>8 DEF Inv

\* Entities like the question.
LEMMA VectorEntitiesStep ==
    ASSUME Inv, VectorEntities
    PROVE  Inv'
<1>1. PICK X \in UpTo(MaxResults, (Entities \cap rows) \ r.matched) :
          Read(Within(X), "openEntities")
  BY DEF VectorEntities
<1>2. Within(X) \subseteq rows /\ Within(X) \subseteq Entities \ r.matched
  BY <1>1 DEF Inv, Typed, Database, InHand, VectorEntities, UpTo, Within
<1>3. /\ rows' = rows /\ key' = key /\ keys' = keys /\ cache' = cache
      /\ r.pc = "entities"
      /\ Changes({"pc", "batch", "excused"}) /\ r'.pc = "openEntities"
      /\ DOMAIN r'.batch = Within(X) /\ \A x \in Within(X) : r'.batch[x] = key[x]
      /\ ~r'.excused => ~r.excused /\ \A x \in Within(X) : key[x] \in cache \cup keys
      /\ Typed'
  BY <1>1, <1>2, ReadEffect DEF Inv, VectorEntities, PCs
<1>4. KeysHold'
  BY <1>1, <1>2, <1>3 DEF Inv, Typed, InHand, Fields, Changes, Database, KeysHold,
     NoCandidates, Opening, Holding
<1>5. FreshHold'
  BY <1>1, <1>2, <1>3, CurrentKept, CitableKept DEF Inv, Typed, InHand, Fields, Changes,
     FreshHold
<1>6. CitedByNow'
  BY <1>1, <1>2, <1>3 DEF Inv, Typed, InHand, Fields, Changes, CitesHold, CitedByNow,
     BeforeSummaries
<1>7. BatchIsNew'
  BY <1>1, <1>2, <1>3 DEF Inv, Typed, InHand, Fields, Changes, CitesHold, BatchIsNew, Holding
<1>8. CitesHold'
  BY <1>1, <1>2, <1>3, <1>6, <1>7 DEF Inv, Typed, InHand, Fields, Changes, CitesHold
<1>9. QED
  BY <1>1, <1>2, <1>3, <1>4, <1>5, <1>6, <1>7, <1>8 DEF Inv

\* They are cited.
LEMMA OpenEntitiesStep ==
    ASSUME Inv, OpenEntities
    PROVE  Inv'
<1>1. /\ Database' /\ rows' = rows /\ cache \subseteq cache' /\ keys' = keys /\ key' = key
      /\ r.pc = "openEntities"
  BY OpenEffect DEF Inv, OpenEntities, Open
<1>2. /\ (DOMAIN r.batch) \subseteq rows /\ (DOMAIN r.batch) \cap Summaries = {} 
      /\ (DOMAIN r.batch) \cap Range(r.refs) = {} /\ Self \notin (DOMAIN r.batch)
  BY <1>1, Tables DEF Inv, Typed, InHand, CitesHold, CitedByNow, BatchIsNew, BeforeSummaries,
     Holding
<1>3. /\ Changes({"pc", "refs", "hit", "batch"})
        /\ r'.pc = (IF Keywords THEN "keywordEpisodes" ELSE "walk")
      /\ DOMAIN r'.batch = {}
      /\ (r'.hit <=> r.hit \/ (DOMAIN r.batch) # {})
      /\ Range(r'.refs) = Range(r.refs) \cup (DOMAIN r.batch)
      /\ IsInjective(r.refs) /\ (DOMAIN r.batch) \cap Range(r.refs) = {} => IsInjective(r'.refs)
      /\ Typed'
  BY <1>1, <1>2, FoundEffect DEF Inv, OpenEntities, PCs, Keywords
<1>4. KeysHold'
  BY <1>1, <1>2, <1>3 DEF Inv, Typed, InHand, Fields, Changes, Database, KeysHold,
     NoCandidates, Opening, Holding
<1>5. FreshHold'
  BY <1>1, <1>2, <1>3, CurrentKept, CitableKept DEF Inv, Typed, InHand, Fields, Changes,
     FreshHold
<1>6. CitedByNow'
  BY <1>1, <1>2, <1>3 DEF Inv, Typed, InHand, Fields, Changes, CitesHold, CitedByNow,
     BeforeSummaries
<1>7. BatchIsNew'
  BY <1>1, <1>2, <1>3 DEF Inv, Typed, InHand, Fields, Changes, CitesHold, BatchIsNew, Holding
<1>8. CitesHold'
  BY <1>1, <1>2, <1>3, <1>6, <1>7, CitesGrow DEF Inv, Typed, InHand, Fields, Changes, Keywords
<1>9. QED
  BY <1>1, <1>2, <1>3, <1>4, <1>5, <1>6, <1>7, <1>8 DEF Inv

\* The other episodes.
LEMMA KeywordEpisodesStep ==
    ASSUME Inv, KeywordEpisodes
    PROVE  Inv'
<1>1. ((Episodes \cap rows) \ RefsOf(Episodes)) \subseteq rows
  BY DEF Inv, Typed, Database, InHand, KeywordEpisodes
<1>2. /\ rows' = rows /\ key' = key /\ keys' = keys /\ cache' = cache
      /\ r.pc = "keywordEpisodes"
      /\ Changes({"pc", "batch", "excused"}) /\ r'.pc = "openKeywordEpisodes"
      /\ DOMAIN r'.batch = ((Episodes \cap rows) \ RefsOf(Episodes))
        /\ \A x \in ((Episodes \cap rows) \ RefsOf(Episodes)) : r'.batch[x] = key[x]
      /\ ~r'.excused => /\ ~r.excused
                        /\ \A x \in ((Episodes \cap rows) \ RefsOf(Episodes)) :
                              key[x] \in cache \cup keys
      /\ Typed'
  BY <1>1, ReadEffect DEF Inv, KeywordEpisodes, PCs
<1>3. KeysHold'
  BY <1>1, <1>2 DEF Inv, Typed, InHand, Fields, Changes, Database, KeysHold, NoCandidates,
     Opening, Holding
<1>4. FreshHold'
  BY <1>1, <1>2, CurrentKept, CitableKept DEF Inv, Typed, InHand, Fields, Changes, FreshHold
<1>5. CitedByNow'
  BY <1>1, <1>2 DEF Inv, Typed, InHand, Fields, Changes, CitesHold, CitedByNow,
     BeforeSummaries
<1>6. BatchIsNew'
  BY <1>1, <1>2 DEF Inv, Typed, InHand, Fields, Changes, CitesHold, BatchIsNew, Holding,
     RefsOf
<1>7. CitesHold'
  BY <1>1, <1>2, <1>5, <1>6 DEF Inv, Typed, InHand, Fields, Changes, CitesHold
<1>8. QED
  BY <1>1, <1>2, <1>3, <1>4, <1>5, <1>6, <1>7 DEF Inv

\* Those that match are cited.
LEMMA OpenKeywordEpisodesStep ==
    ASSUME Inv, OpenKeywordEpisodes
    PROVE  Inv'
<1>1. PICK M \in rankBM25(DOMAIN r.batch) : Found(WithinIfAny(M), "keywordEntities")
  BY DEF OpenKeywordEpisodes
<1>2. /\ Database' /\ rows' = rows /\ cache \subseteq cache' /\ keys' = keys /\ key' = key
      /\ r.pc = "openKeywordEpisodes"
  BY OpenEffect DEF Inv, OpenKeywordEpisodes, Open
<1>3. /\ WithinIfAny(M) \subseteq rows /\ WithinIfAny(M) \cap Summaries = {}
        /\ WithinIfAny(M) \subseteq DOMAIN r.batch
      /\ WithinIfAny(M) \cap Range(r.refs) = {} /\ Self \notin WithinIfAny(M)
  BY <1>1, <1>2, Tables DEF Inv, Typed, InHand, CitesHold, CitedByNow, BatchIsNew,
     BeforeSummaries, Holding, WithinIfAny, Within, rankBM25, bm25Score
<1>4. /\ Changes({"pc", "refs", "hit", "batch"}) /\ r'.pc = "keywordEntities"
      /\ DOMAIN r'.batch = {}
      /\ (r'.hit <=> r.hit \/ WithinIfAny(M) # {})
      /\ Range(r'.refs) = Range(r.refs) \cup WithinIfAny(M)
      /\ IsInjective(r.refs) /\ WithinIfAny(M) \cap Range(r.refs) = {} => IsInjective(r'.refs)
      /\ Typed'
  BY <1>1, <1>2, <1>3, FoundEffect DEF Inv, OpenKeywordEpisodes, PCs, Keywords
<1>5. KeysHold'
  BY <1>1, <1>2, <1>3, <1>4 DEF Inv, Typed, InHand, Fields, Changes, Database, KeysHold,
     NoCandidates, Opening, Holding
<1>6. FreshHold'
  BY <1>1, <1>2, <1>3, <1>4, CurrentKept, CitableKept DEF Inv, Typed, InHand, Fields,
     Changes, FreshHold
<1>7. CitedByNow'
  BY <1>1, <1>2, <1>3, <1>4 DEF Inv, Typed, InHand, Fields, Changes, CitesHold, CitedByNow,
     BeforeSummaries
<1>8. BatchIsNew'
  BY <1>1, <1>2, <1>3, <1>4 DEF Inv, Typed, InHand, Fields, Changes, CitesHold, BatchIsNew,
     Holding
<1>9. CitesHold'
  BY <1>1, <1>2, <1>3, <1>4, <1>7, <1>8, CitesGrow DEF Inv, Typed, InHand, Fields, Changes,
     Keywords
<1>10. QED
  BY <1>1, <1>2, <1>3, <1>4, <1>5, <1>6, <1>7, <1>8, <1>9 DEF Inv

\* The other entities.
LEMMA KeywordEntitiesStep ==
    ASSUME Inv, KeywordEntities
    PROVE  Inv'
<1>1. NewEntities \subseteq rows
  BY DEF Inv, Typed, Database, InHand, KeywordEntities, NewEntities
<1>2. /\ rows' = rows /\ key' = key /\ keys' = keys /\ cache' = cache
      /\ r.pc = "keywordEntities"
      /\ Changes({"pc", "batch", "excused"}) /\ r'.pc = "openKeywordEntities"
      /\ DOMAIN r'.batch = NewEntities /\ \A x \in NewEntities : r'.batch[x] = key[x]
      /\ ~r'.excused => ~r.excused /\ \A x \in NewEntities : key[x] \in cache \cup keys
      /\ Typed'
  BY <1>1, ReadEffect DEF Inv, KeywordEntities, PCs
<1>3. KeysHold'
  BY <1>1, <1>2 DEF Inv, Typed, InHand, Fields, Changes, Database, KeysHold, NoCandidates,
     Opening, Holding
<1>4. FreshHold'
  BY <1>1, <1>2, CurrentKept, CitableKept DEF Inv, Typed, InHand, Fields, Changes, FreshHold
<1>5. CitedByNow'
  BY <1>1, <1>2 DEF Inv, Typed, InHand, Fields, Changes, CitesHold, CitedByNow,
     BeforeSummaries
<1>6. BatchIsNew'
  BY <1>1, <1>2 DEF Inv, Typed, InHand, Fields, Changes, CitesHold, BatchIsNew, Holding,
     NewEntities, RefsOf
<1>7. CitesHold'
  BY <1>1, <1>2, <1>5, <1>6 DEF Inv, Typed, InHand, Fields, Changes, CitesHold
<1>8. QED
  BY <1>1, <1>2, <1>3, <1>4, <1>5, <1>6, <1>7 DEF Inv

\* Those that match are cited.
LEMMA OpenKeywordEntitiesStep ==
    ASSUME Inv, OpenKeywordEntities
    PROVE  Inv'
<1>1. PICK M \in rankBM25(DOMAIN r.batch) : Found(Within(M), "walk")
  BY DEF OpenKeywordEntities
<1>2. /\ Database' /\ rows' = rows /\ cache \subseteq cache' /\ keys' = keys /\ key' = key
      /\ r.pc = "openKeywordEntities"
  BY OpenEffect DEF Inv, OpenKeywordEntities, Open
<1>3. /\ Within(M) \subseteq rows /\ Within(M) \cap Summaries = {}
        /\ Within(M) \subseteq DOMAIN r.batch
      /\ Within(M) \cap Range(r.refs) = {} /\ Self \notin Within(M)
  BY <1>1, <1>2, Tables DEF Inv, Typed, InHand, CitesHold, CitedByNow, BatchIsNew,
     BeforeSummaries, Holding, Within, rankBM25, bm25Score
<1>4. /\ Changes({"pc", "refs", "hit", "batch"}) /\ r'.pc = "walk"
      /\ DOMAIN r'.batch = {}
      /\ (r'.hit <=> r.hit \/ Within(M) # {})
      /\ Range(r'.refs) = Range(r.refs) \cup Within(M)
      /\ IsInjective(r.refs) /\ Within(M) \cap Range(r.refs) = {} => IsInjective(r'.refs)
      /\ Typed'
  BY <1>1, <1>2, <1>3, FoundEffect DEF Inv, OpenKeywordEntities, PCs, Keywords
<1>5. KeysHold'
  BY <1>1, <1>2, <1>3, <1>4 DEF Inv, Typed, InHand, Fields, Changes, Database, KeysHold,
     NoCandidates, Opening, Holding
<1>6. FreshHold'
  BY <1>1, <1>2, <1>3, <1>4, CurrentKept, CitableKept DEF Inv, Typed, InHand, Fields,
     Changes, FreshHold
<1>7. CitedByNow'
  BY <1>1, <1>2, <1>3, <1>4 DEF Inv, Typed, InHand, Fields, Changes, CitesHold, CitedByNow,
     BeforeSummaries
<1>8. BatchIsNew'
  BY <1>1, <1>2, <1>3, <1>4 DEF Inv, Typed, InHand, Fields, Changes, CitesHold, BatchIsNew,
     Holding
<1>9. CitesHold'
  BY <1>1, <1>2, <1>3, <1>4, <1>7, <1>8, CitesGrow DEF Inv, Typed, InHand, Fields, Changes,
     Keywords
<1>10. QED
  BY <1>1, <1>2, <1>3, <1>4, <1>5, <1>6, <1>7, <1>8, <1>9 DEF Inv

\* The walk is over.
LEMMA WalkEndsStep ==
    ASSUME Inv, WalkEnds
    PROVE  Inv'
<1>1. /\ rows' = rows /\ key' = key /\ keys' = keys /\ cache' = cache
      /\ Changes({"todo", "pc"})
      /\ r.pc = "walk" /\ r'.pc = "load"
      /\ r'.todo = r.walked
  BY DEF Inv, Typed, InHand, Fields, Changes, WalkEnds
<1>2. Typed'
  BY <1>1, NoRowsVersioned DEF Inv, Typed, Database, InHand, Fields, Changes, WalkEnds, PCs,
     Gates, Tiers
<1>3. KeysHold'
  BY <1>1, <1>2 DEF Inv, Typed, InHand, Fields, Changes, Database, KeysHold, NoCandidates,
     Opening, Holding
<1>4. FreshHold'
  BY <1>1, <1>2, CurrentKept, CitableKept DEF Inv, Typed, InHand, Fields, Changes, FreshHold
<1>5. CitedByNow'
  BY <1>1, <1>2 DEF Inv, Typed, InHand, Fields, Changes, CitesHold, CitedByNow,
     BeforeSummaries
<1>6. BatchIsNew'
  BY <1>1, <1>2 DEF Inv, Typed, InHand, Fields, Changes, CitesHold, BatchIsNew, Holding
<1>7. CitesHold'
  BY <1>1, <1>2, <1>5, <1>6 DEF Inv, Typed, InHand, Fields, Changes, CitesHold
<1>8. QED
  BY <1>1, <1>2, <1>3, <1>4, <1>5, <1>6, <1>7 DEF Inv

\* Reading an entity the walk met.
LEMMA LoadWalkedStep ==
    ASSUME Inv, LoadWalked
    PROVE  Inv'
<1>1. PICK e \in r.todo : Read({e}, "openLoad")
  BY DEF LoadWalked
<1>2. {e} \subseteq rows
  BY <1>1 DEF Inv, Typed, Database, InHand, LoadWalked
<1>3. /\ rows' = rows /\ key' = key /\ keys' = keys /\ cache' = cache
      /\ r.pc = "load"
      /\ Changes({"pc", "batch", "excused"}) /\ r'.pc = "openLoad"
      /\ DOMAIN r'.batch = {e} /\ \A x \in {e} : r'.batch[x] = key[x]
      /\ ~r'.excused => ~r.excused /\ \A x \in {e} : key[x] \in cache \cup keys
      /\ Typed'
  BY <1>1, <1>2, ReadEffect DEF Inv, LoadWalked, PCs
<1>4. KeysHold'
  BY <1>1, <1>2, <1>3 DEF Inv, Typed, InHand, Fields, Changes, Database, KeysHold,
     NoCandidates, Opening, Holding
<1>5. FreshHold'
  BY <1>1, <1>2, <1>3, CurrentKept, CitableKept DEF Inv, Typed, InHand, Fields, Changes,
     FreshHold
<1>6. CitedByNow'
  BY <1>1, <1>2, <1>3 DEF Inv, Typed, InHand, Fields, Changes, CitesHold, CitedByNow,
     BeforeSummaries
<1>7. BatchIsNew'
  BY <1>1, <1>2, <1>3 DEF Inv, Typed, InHand, Fields, Changes, CitesHold, BatchIsNew, Holding
<1>8. CitesHold'
  BY <1>1, <1>2, <1>3, <1>6, <1>7 DEF Inv, Typed, InHand, Fields, Changes, CitesHold
<1>9. QED
  BY <1>1, <1>2, <1>3, <1>4, <1>5, <1>6, <1>7, <1>8 DEF Inv

\* The gate.
LEMMA FinishStep ==
    ASSUME Inv, Finish
    PROVE  Inv'
<1>1. /\ rows' = rows /\ key' = key /\ keys' = keys /\ cache' = cache
      /\ Changes({"gate", "pc"})
      /\ r.pc = "load" /\ r.todo = {} /\ r'.pc = "done"
      /\ r'.gate = (IF r.hit THEN "full" ELSE "partial")
  BY DEF Inv, Typed, InHand, Fields, Changes, Finish
<1>2. Typed'
  BY <1>1, NoRowsVersioned DEF Inv, Typed, Database, InHand, Fields, Changes, Finish, PCs,
     Gates, Tiers
<1>3. KeysHold'
  BY <1>1, <1>2 DEF Inv, Typed, InHand, Fields, Changes, Database, KeysHold, NoCandidates,
     Opening, Holding
<1>4. FreshHold'
  BY <1>1, <1>2, CurrentKept, CitableKept DEF Inv, Typed, InHand, Fields, Changes, FreshHold
<1>5. CitedByNow'
  BY <1>1, <1>2 DEF Inv, Typed, InHand, Fields, Changes, CitesHold, CitedByNow,
     BeforeSummaries
<1>6. BatchIsNew'
  BY <1>1, <1>2 DEF Inv, Typed, InHand, Fields, Changes, CitesHold, BatchIsNew, Holding
<1>7. CitesHold'
  BY <1>1, <1>2, <1>5, <1>6 DEF Inv, Typed, InHand, Fields, Changes, CitesHold
<1>8. QED
  BY <1>1, <1>2, <1>3, <1>4, <1>5, <1>6, <1>7 DEF Inv

\* A version is gone.
LEMMA OpenFailsStep ==
    ASSUME Inv, OpenFails
    PROVE  Inv'
<1>1. /\ rows' = rows /\ key' = key /\ keys' = keys /\ cache' = cache
      /\ Changes({"pc", "batch"})
      /\ ~Opened /\ r'.pc = "failed" /\ r'.batch = <<>> /\ DOMAIN r'.batch = {}
  BY NoRowsVersioned DEF Inv, Typed, InHand, Fields, Changes, OpenFails
<1>2. Typed'
  BY <1>1, NoRowsVersioned DEF Inv, Typed, Database, InHand, Fields, Changes, OpenFails, PCs,
     Gates, Tiers
<1>3. KeysHold'
  BY <1>1, <1>2 DEF Inv, Typed, InHand, Fields, Changes, Database, KeysHold, NoCandidates,
     Opening, Holding, Opened, Openable
<1>4. FreshHold'
  BY <1>1, <1>2, CurrentKept, CitableKept DEF Inv, Typed, InHand, Fields, Changes, FreshHold,
     Opened, KeysHold, Opening
<1>5. CitedByNow'
  BY <1>1, <1>2 DEF Inv, Typed, InHand, Fields, Changes, CitesHold, CitedByNow,
     BeforeSummaries, Opened, KeysHold, Opening
<1>6. BatchIsNew'
  BY <1>1, <1>2 DEF Inv, Typed, InHand, Fields, Changes, CitesHold, BatchIsNew, Holding
<1>7. CitesHold'
  BY <1>1, <1>2, <1>5, <1>6 DEF Inv, Typed, InHand, Fields, Changes, CitesHold, BatchIsNew,
     Opened, KeysHold, Opening
<1>8. QED
  BY <1>1, <1>2, <1>3, <1>4, <1>5, <1>6, <1>7 DEF Inv

\* An entity the walk met is cited.
LEMMA OpenWalkedStep ==
    ASSUME Inv, OpenWalked
    PROVE  Inv'
<1>1. /\ Database' /\ rows' = rows /\ cache \subseteq cache' /\ keys' = keys /\ key' = key
      /\ r.pc = "openLoad"
  BY OpenEffect DEF Inv, OpenWalked, Open
<1>2. /\ DOMAIN r.batch \subseteq rows /\ DOMAIN r.batch # {} /\ DOMAIN r.batch \subseteq r.todo
      /\ r.todo \subseteq r.walked \ Range(r.refs)
      /\ DOMAIN r.batch \cap Range(r.refs) = {} /\ Self \notin DOMAIN r.batch
      /\ DOMAIN r.batch \cap Summaries = {}
  BY <1>1, Tables DEF Inv, Typed, InHand, CitesHold, BatchIsNew
<1>3. /\ Changes({"pc", "todo", "batch", "refs", "hit"})
      /\ r'.pc = "load" /\ r'.todo = r.todo \ DOMAIN r.batch
      /\ r'.batch = <<>> /\ DOMAIN r'.batch = {}
      /\ r'.refs = r.refs \o SetToSeq(DOMAIN r.batch) /\ r'.hit = TRUE
  BY NoRowsVersioned DEF Inv, Typed, InHand, Fields, Changes, OpenWalked
<1>4. /\ SetToSeq(DOMAIN r.batch) \in Seq(DOMAIN r.batch)
        /\ IsInjective(SetToSeq(DOMAIN r.batch))
      /\ Range(SetToSeq(DOMAIN r.batch)) = DOMAIN r.batch
  BY <1>2, SetAsSeq, FS_Subset DEF Inv, Typed, Database
<1>5. SetToSeq(DOMAIN r.batch) \in Seq(Rows) /\ r.refs \in Seq(Rows)
  <2>1. DOMAIN r.batch \subseteq Rows /\ r.refs \in Seq(Rows)
    BY <1>2 DEF Inv, Typed, Database, InHand
  <2>2. QED
    BY <1>4, <2>1
<1>6. /\ r'.refs \in Seq(Rows) /\ Range(r'.refs) = Range(r.refs) \cup DOMAIN r.batch
      /\ IsInjective(r.refs) => IsInjective(r'.refs)
  BY <1>2, <1>3, <1>4, <1>5, Concatenated
<1>7. Typed'
  BY <1>1, <1>2, <1>3, <1>6, NoRowsVersioned DEF Inv, Typed, InHand, Fields, Changes, PCs
<1>8. KeysHold'
  BY <1>1, <1>3 DEF Inv, Fields, Changes, KeysHold, NoCandidates, Opening, Holding
<1>9. FreshHold'
  BY <1>1, <1>2, <1>3, <1>6, CurrentKept, CitableKept DEF Inv, Fields, Changes, FreshHold
<1>10. CitedByNow'
  BY <1>3 DEF CitedByNow, BeforeSummaries
<1>11. BatchIsNew'
  BY <1>1, <1>2, <1>3, <1>6 DEF Inv, Fields, Changes, CitesHold, BatchIsNew, Holding
<1>12. CitesHold'
  BY <1>1, <1>2, <1>3, <1>6, <1>10, <1>11 DEF Inv, Fields, Changes, CitesHold
<1>13. QED
  BY <1>7, <1>8, <1>9, <1>12 DEF Inv

\* A hop of the walk: the entities it meets are new, and within the limit.
LEMMA HopStep ==
    ASSUME Inv, Hop
    PROVE  Inv'
<1> DEFINE front == IF r.hop = 0 THEN RefsOf(Entities \cup {Self}) ELSE r.front
           seen == RefsOf(Entities \cup {Self}) \cup r.walked
           next == (UNION {p \in related : p \cap front # {}}) \ seen
<1>1. /\ rows' = rows /\ key' = key /\ keys' = keys /\ cache' = cache /\ related' = related
      /\ late' = late /\ moving' = moving /\ pruning' = pruning
      /\ r.pc = "walk" /\ r.hop < 2
  BY DEF Hop
<1>2. PICK X \in SUBSET next :
        /\ Cardinality(X) = Min({Cardinality(next), MaxWalk - Cardinality(r.walked)})
        /\ r' = [r EXCEPT !.front = X, !.walked = @ \cup X, !.hop = @ + 1]
  BY DEF Hop
<1>3. X \subseteq Entities \cap rows /\ next \subseteq rows
  BY DEF Inv, Typed, Database, Pairs
<1>4. X \cap r.walked = {} /\ X \cap Range(r.refs) = {}
  BY <1>2, <1>3 DEF RefsOf
<1> HIDE DEF next, front, seen
<1>5. /\ Changes({"front", "walked", "hop"})
      /\ r'.front = X /\ r'.walked = r.walked \cup X /\ r'.hop = r.hop + 1
  BY <1>2 DEF Inv, Typed, InHand, Fields, Changes
<1>6. Cardinality(r'.walked) <= MaxWalk
  <2>1. IsFiniteSet(X) /\ IsFiniteSet(next) /\ IsFiniteSet(r.walked)
    BY <1>3, FS_Subset DEF Inv, Typed, Database, InHand
  <2>2. /\ Cardinality(X) \in Nat /\ Cardinality(next) \in Nat /\ Cardinality(r.walked) \in Nat
    BY <2>1, FS_CardinalityType
  <2>3. Cardinality(X) <= MaxWalk - Cardinality(r.walked)
    <3>1. MaxWalk - Cardinality(r.walked) \in Int
      BY <2>2, BoundAssumption
    <3>2. Min({Cardinality(next), MaxWalk - Cardinality(r.walked)})
              <= MaxWalk - Cardinality(r.walked)
      BY <2>2, <3>1, LesserOfTwo
    <3>3. QED
      BY <1>2, <3>2
  <2>4. Cardinality(r.walked \cup X) =
            Cardinality(r.walked) + Cardinality(X) - Cardinality(r.walked \cap X)
    BY <2>1, FS_Union
  <2>5. Cardinality(r.walked \cap X) = 0
    BY <1>4, FS_EmptySet
  <2>6. QED
    BY <1>5, <2>2, <2>3, <2>4, <2>5, BoundAssumption
<1>7. Typed'
  <2>1. r'.hop \in 0..2
    BY <1>1, <1>5 DEF Inv, Typed, InHand
  <2>2. QED
    BY <1>1, <1>3, <1>5, <1>6, <2>1 DEF Inv, Typed, Database, InHand, Fields, Changes, PCs
<1>8. KeysHold'
  BY <1>1, <1>5 DEF Inv, Fields, Changes, KeysHold, NoCandidates, Opening, Holding
<1>9. FreshHold'
  BY <1>1, <1>5, CurrentKept, CitableKept DEF Inv, Fields, Changes, FreshHold
<1>10. CitedByNow'
  BY <1>1, <1>5 DEF Fields, Changes, CitedByNow, BeforeSummaries
<1>11. BatchIsNew'
  BY <1>1, <1>4, <1>5 DEF Inv, Fields, Changes, CitesHold, BatchIsNew, Holding
<1>12. CitesHold'
  BY <1>1, <1>5, <1>10, <1>11 DEF Inv, Fields, Changes, CitesHold
<1>13. QED
  BY <1>7, <1>8, <1>9, <1>12 DEF Inv

----------------------------------------------------------------------------
(* The scope in use.                                                       *)

\* The newest version is one.
LEMMA NewestIsThere ==
    ASSUME Typed
    PROVE  Newest \in keys /\ Newest \in 1..MaxKeys /\ \A v \in keys : v <= Newest
BY MaxIsThere, BoundAssumption DEF Typed, Database, Newest

\* The refs, and what they rest on, are left alone.
LEMMA CitesKept ==
    ASSUME Inv, Changes({"fresh", "excused"})
    PROVE  CitesHold'
<1>1. CitedByNow'
  BY DEF Inv, CitesHold, Fields, Changes, CitedByNow
<1>2. BatchIsNew'
  BY DEF Inv, CitesHold, Fields, Changes, BatchIsNew
<1>3. QED
  BY <1>1, <1>2 DEF Inv, Fields, Changes, CitesHold

\* Rows are written: those under a version that is not to stay are late.
LEMMA WriteUnderEffect ==
    ASSUME Typed, NEW X, NEW v \in 1..MaxKeys, WriteUnder(X, v), X \subseteq rows',
           rows \subseteq rows', rows' \subseteq rows \cup X, rows' \subseteq Rows,
           keys' = keys, pruning' = pruning
    PROVE  /\ key' \in [Rows -> 1..MaxKeys] /\ late' \subseteq rows'
           /\ \A x \in rows' \ late' : key'[x] \in keys' /\ \A to \in pruning' : key'[x] >= to
           /\ \A y \in Rows \ X : key'[y] = key[y]
<1>1. key' = [x \in Rows |-> IF x \in X THEN v ELSE key[x]]
  BY DEF WriteUnder
<1>2. key' \in [Rows -> 1..MaxKeys] /\ \A y \in Rows \ X : key'[y] = key[y]
  BY <1>1 DEF Typed, Database
<1>3. CASE v \notin keys \/ \E to \in pruning : v < to
  <2>1. late' = late \cup X
    BY <1>3 DEF WriteUnder
  <2>2. \A x \in rows' \ late' : x \in rows \ late /\ key'[x] = key[x]
    BY <1>2, <2>1
  <2>3. QED
    BY <1>2, <2>1, <2>2 DEF Typed, Database
<1>4. CASE v \in keys /\ \A to \in pruning : ~(v < to)
  <2>1. late' = late \ X
    BY <1>4 DEF WriteUnder
  <2>2. \A x \in rows' \ late' : x \in X \/ (x \in rows \ late /\ key'[x] = key[x])
    BY <1>2, <2>1
  <2>3. \A x \in X : key'[x] = v
    BY <1>1
  <2>4. \A to \in pruning : v >= to
    BY <1>4 DEF Typed, Database
  <2>5. ASSUME NEW x \in rows' \ late'
        PROVE  key'[x] \in keys /\ \A to \in pruning : key'[x] >= to
    <3>1. CASE x \in X
      BY <1>4, <2>3, <2>4, <3>1
    <3>2. CASE x \in rows \ late /\ key'[x] = key[x]
      BY <3>2 DEF Typed, Database
    <3>3. QED
      BY <2>2, <2>5, <3>1, <3>2
  <2>6. late' \subseteq rows'
    BY <2>1 DEF Typed, Database
  <2>7. QED
    BY <1>2, <2>5, <2>6
<1>5. QED
  BY <1>3, <1>4

\* A row is inserted.  A summary it supersedes was current until now.
LEMMA InsertStep ==
    ASSUME Inv, Insert
    PROVE  Inv'
<1>1. PICK x \in Rows \ rows :
        /\ rows' = rows \cup {x}
        /\ \E v \in 1..Newest : WriteUnder({x}, v)
        /\ r' = [r EXCEPT !.fresh = IF x \in Summaries THEN @ \cup {x} ELSE @]
  BY DEF Insert
<1>2. /\ Changes({"fresh"})
      /\ r'.fresh = IF x \in Summaries THEN r.fresh \cup {x} ELSE r.fresh
  BY <1>1 DEF Inv, Typed, InHand, Fields, Changes
<1>3. keys' = keys /\ moving' = moving /\ pruning' = pruning /\ related' = related
      /\ cache' = cache
  BY DEF Insert
<1>4. /\ key' \in [Rows -> 1..MaxKeys] /\ late' \subseteq rows'
      /\ \A y \in rows' \ late' : key'[y] \in keys' /\ \A to \in pruning' : key'[y] >= to
      /\ \A y \in Rows \ {x} : key'[y] = key[y]
  <2>1. PICK v \in 1..Newest : WriteUnder({x}, v)
    BY <1>1
  <2>2. v \in 1..MaxKeys
    BY NewestIsThere, BoundAssumption DEF Inv
  <2>3. {x} \subseteq rows' /\ rows \subseteq rows' /\ rows' \subseteq rows \cup {x}
        /\ rows' \subseteq Rows
    BY <1>1 DEF Inv, Typed, Database
  <2>4. QED
    BY <1>3, <2>1, <2>2, <2>3, WriteUnderEffect DEF Inv
<1>5. IsFiniteSet(rows')
  BY <1>1, FS_AddElement DEF Inv, Typed, Database
<1>6. Database'
  BY <1>1, <1>3, <1>4, <1>5 DEF Inv, Typed, Database
<1>7. InHand'
  BY <1>1, <1>2 DEF Inv, Typed, InHand, Fields, Changes
<1>8. KeysHold'
  BY <1>1, <1>2, <1>3, <1>4 DEF Inv, Typed, Database, InHand, Fields, Changes, KeysHold
<1>9. CurrentSummaries' \subseteq CurrentSummaries \cup ({x} \cap Summaries)
  BY <1>1 DEF CurrentSummaries, Current
<1>10. \A s : Citable(s) => Citable(s)'
  BY <1>2 DEF Fields, Changes, Citable, Within, InWindow
<1>11. FreshHold'
  BY <1>2, <1>9, <1>10 DEF Inv, Fields, Changes, FreshHold
<1>12. CitesHold'
  BY <1>2, CitesKept DEF Fields, Changes
<1>13. QED
  BY <1>6, <1>7, <1>8, <1>11, <1>12 DEF Inv, Typed

\* A relationship begins or ends.
LEMMA RelateStep ==
    ASSUME Inv, Relate
    PROVE  Inv'
<1>1. /\ rows' = rows /\ key' = key /\ keys' = keys /\ cache' = cache /\ r' = r
      /\ late' = late /\ moving' = moving /\ pruning' = pruning
  BY DEF Relate
<1>2. Database'
  BY <1>1 DEF Inv, Typed, Database, Relate
<1>3. InHand' /\ KeysHold'
  BY <1>1 DEF Inv, Typed, InHand, KeysHold
<1>4. FreshHold'
  BY <1>1, CurrentKept, CitableKept DEF Inv, FreshHold
<1>5. CitesHold'
  BY <1>1, CitesKept DEF Inv, Typed, InHand, Changes
<1>6. QED
  BY <1>2, <1>3, <1>4, <1>5 DEF Inv, Typed

\* A version is added.
LEMMA NewVersionStep ==
    ASSUME Inv, NewVersion
    PROVE  Inv'
<1>1. /\ rows' = rows /\ key' = key /\ related' = related /\ cache' = cache /\ r' = r
      /\ late' = late /\ moving' = moving /\ pruning' = pruning
      /\ keys' = keys \cup {Newest + 1} /\ Newest < MaxKeys
  BY DEF NewVersion
<1>2. Newest + 1 \in 1..MaxKeys
  BY <1>1, NewestIsThere, BoundAssumption DEF Inv
<1>3. Database'
  BY <1>1, <1>2 DEF Inv, Typed, Database
<1>4. InHand' /\ KeysHold'
  BY <1>1 DEF Inv, Typed, InHand, KeysHold
<1>5. FreshHold'
  BY <1>1, CurrentKept, CitableKept DEF Inv, FreshHold
<1>6. CitesHold'
  BY <1>1, CitesKept DEF Inv, Typed, InHand, Changes
<1>7. QED
  BY <1>3, <1>4, <1>5, <1>6 DEF Inv, Typed

\* A batch is selected.
LEMMA SelectBatchStep ==
    ASSUME Inv, SelectBatch
    PROVE  Inv'
<1>1. /\ rows' = rows /\ key' = key /\ keys' = keys /\ related' = related /\ cache' = cache
      /\ r' = r /\ late' = late /\ pruning' = pruning
  BY DEF SelectBatch
<1>2. PICK to \in 2..Newest, X \in SUBSET rows : moving' = moving \cup {[to |-> to, ids |-> X]}
  BY DEF SelectBatch
<1>3. to \in 2..MaxKeys
  BY NewestIsThere, BoundAssumption DEF Inv
<1>4. moving' \subseteq [to : 2..MaxKeys, ids : SUBSET rows']
  BY <1>1, <1>2, <1>3 DEF Inv, Typed, Database
<1>5. Database'
  BY <1>1, <1>4 DEF Inv, Typed, Database
<1>6. InHand' /\ KeysHold'
  BY <1>1 DEF Inv, Typed, InHand, KeysHold
<1>7. FreshHold'
  BY <1>1, CurrentKept, CitableKept DEF Inv, FreshHold
<1>8. CitesHold'
  BY <1>1, CitesKept DEF Inv, Typed, InHand, Changes
<1>9. QED
  BY <1>5, <1>6, <1>7, <1>8 DEF Inv, Typed

\* A batch is migrated; a summary that was in hand with its facts unread
\* excuses the retrieval.
LEMMA MigrateStep ==
    ASSUME Inv, Migrate
    PROVE  Inv'
<1>1. PICK m \in moving :
        /\ WriteUnder(m.ids, m.to) /\ moving' = moving \ {m}
        /\ r' = [r EXCEPT !.excused = @ \/ m.ids \cap HeldSummaries # {}]
  BY DEF Migrate
<1>2. rows' = rows /\ keys' = keys /\ related' = related /\ cache' = cache /\ pruning' = pruning
  BY DEF Migrate
<1>2a. PICK X \in SUBSET rows, v \in 1..MaxKeys : X = m.ids /\ v = m.to
  BY BoundAssumption DEF Inv, Typed, Database
<1>3. /\ Changes({"excused"}) /\ r'.excused \in BOOLEAN
      /\ r'.excused <=> (r.excused \/ X \cap HeldSummaries # {})
  BY <1>1, <1>2a DEF Inv, Typed, InHand, Fields, Changes
<1>4. /\ key' \in [Rows -> 1..MaxKeys] /\ late' \subseteq rows'
      /\ \A x \in rows' \ late' : key'[x] \in keys' /\ \A to \in pruning' : key'[x] >= to
      /\ \A x \in Rows \ X : key'[x] = key[x]
  <2>1. WriteUnder(X, v)
    BY <1>1, <1>2a
  <2>2. QED
    BY <1>2, <2>1, WriteUnderEffect DEF Inv, Typed, Database
<1>5. Database'
  BY <1>1, <1>2, <1>4 DEF Inv, Typed, Database
<1>6. InHand'
  BY <1>2, <1>3 DEF Inv, Typed, InHand, Fields, Changes
<1>7. KeysHold'
  <2>1. ASSUME ~r'.excused, r.pc \in Holding
        PROVE  /\ \A s \in WithFacts \cap DOMAIN r.cands : s \notin X
               /\ \A s \in WithFacts \cap DOMAIN r.batch : s \notin X
    BY <1>3, <2>1 DEF HeldSummaries, Holding
  <2>2. DOMAIN r.cands \subseteq Rows /\ DOMAIN r.batch \subseteq Rows
    BY DEF Inv, Typed, Database, InHand
  <2>3. QED
    BY <1>2, <1>3, <1>4, <2>1, <2>2 DEF Inv, Fields, Changes, KeysHold
<1>8. FreshHold'
  BY <1>2, <1>3, CurrentKept, CitableKept DEF Inv, Fields, Changes, FreshHold
<1>9. CitesHold'
  BY <1>3, CitesKept DEF Fields, Changes
<1>10. QED
  BY <1>5, <1>6, <1>7, <1>8, <1>9 DEF Inv, Typed

\* A prune finds no row under an older version.
LEMMA CheckPruneStep ==
    ASSUME Inv, CheckPrune
    PROVE  Inv'
<1>1. /\ rows' = rows /\ key' = key /\ keys' = keys /\ related' = related /\ cache' = cache
      /\ r' = r /\ late' = late /\ moving' = moving
  BY DEF CheckPrune
<1>2. PICK to \in keys \ {1} :
        (\A x \in rows : key[x] >= to) /\ pruning' = pruning \cup {to}
  BY DEF CheckPrune, Unreferenced
<1>3. to \in 2..MaxKeys
  BY BoundAssumption DEF Inv, Typed, Database
<1>4. /\ pruning' \subseteq 2..MaxKeys
      /\ \A x \in rows \ late : \A u \in pruning' : key[x] >= u
      /\ \A u \in pruning' : \E v \in keys : v >= u
  BY <1>2, <1>3 DEF Inv, Typed, Database
<1>5. Database'
  BY <1>1, <1>4 DEF Inv, Typed, Database
<1>6. InHand' /\ KeysHold'
  BY <1>1 DEF Inv, Typed, InHand, KeysHold
<1>7. FreshHold'
  BY <1>1, CurrentKept, CitableKept DEF Inv, FreshHold
<1>8. CitesHold'
  BY <1>1, CitesKept DEF Inv, Typed, InHand, Changes
<1>9. QED
  BY <1>5, <1>6, <1>7, <1>8 DEF Inv, Typed

\* The older versions are dropped; one that something read is under excuses the
\* retrieval.
LEMMA PruneStep ==
    ASSUME Inv, Prune
    PROVE  Inv'
<1>1. PICK to \in pruning :
        /\ keys' = Kept(to) /\ pruning' = pruning \ {to}
        /\ r' = [r EXCEPT !.excused = @ \/ Range(r.batch) \cap (keys \ Kept(to)) # {}]
  BY DEF Prune
<1>2. rows' = rows /\ key' = key /\ related' = related /\ cache' = cache /\ late' = late
      /\ moving' = moving
  BY DEF Prune
<1>3. /\ Changes({"excused"}) /\ r'.excused \in BOOLEAN
      /\ r'.excused <=> (r.excused \/ Range(r.batch) \cap (keys \ Kept(to)) # {})
  BY <1>1 DEF Inv, Typed, InHand, Fields, Changes
<1>4. Database'
  <2>1. keys' = {v \in keys : v >= to}
    BY <1>1 DEF Kept
  <2>2. keys \subseteq 1..MaxKeys /\ pruning \subseteq 2..MaxKeys
        /\ \A u \in pruning : \E v \in keys : v >= u
    BY DEF Inv, Typed, Database
  <2>3. PICK w \in keys' : w >= to
    BY <2>1, <2>2
  <2>4. \A u \in pruning : \E v \in keys' : v >= u
    <3> SUFFICES ASSUME NEW u \in pruning PROVE \E v \in keys' : v >= u
      OBVIOUS
    <3>1. PICK v \in keys : v >= u
      BY <2>2
    <3>2. CASE v >= to
      BY <2>1, <3>1, <3>2
    <3>3. CASE ~(v >= to)
      <4>1. w >= u
        BY <2>1, <2>2, <2>3, <3>1, <3>3, BoundAssumption
      <4>2. QED
        BY <2>3, <4>1
    <3>4. QED
      BY <3>2, <3>3
  <2>5. \A x \in rows \ late : key[x] \in keys' /\ \A u \in pruning' : key[x] >= u
    BY <1>1, <2>1 DEF Inv, Typed, Database
  <2>6. keys' # {} /\ keys' \subseteq 1..MaxKeys /\ pruning' \subseteq 2..MaxKeys
        /\ \A u \in pruning' : \E v \in keys' : v >= u
    BY <1>1, <2>1, <2>2, <2>3, <2>4
  <2>7. QED
    BY <1>2, <2>5, <2>6 DEF Inv, Typed, Database
<1>5. InHand'
  BY <1>2, <1>3 DEF Inv, Typed, InHand, Fields, Changes
<1>6. KeysHold'
  BY <1>1, <1>2, <1>3 DEF Inv, Fields, Changes, KeysHold, Range
<1>7. FreshHold'
  BY <1>2, <1>3, CurrentKept, CitableKept DEF Inv, Fields, Changes, FreshHold
<1>8. CitesHold'
  BY <1>3, CitesKept DEF Fields, Changes
<1>9. QED
  BY <1>4, <1>5, <1>6, <1>7, <1>8 DEF Inv, Typed

----------------------------------------------------------------------------
(* The theorems.                                                           *)

\* Nothing has been asked yet.
LEMMA InitInv == Init => Inv
<1> SUFFICES ASSUME Init PROVE Inv
  OBVIOUS
<1>1. /\ rows = Seed /\ key = [x \in Rows |-> 1] /\ keys = {1} /\ related = {} /\ cache = {}
      /\ late = {} /\ moving = {} /\ pruning = {}
  BY DEF Init
<1>2. PICK q \in Questions : r = Idle(q)
  BY DEF Init
<1>3. /\ r.pc = "idle" /\ r.q = q /\ r.gate = "none" /\ r.tier = "full"
      /\ r.batch = <<>> /\ r.cands = <<>> /\ r.matched = {} /\ r.todo = {} /\ r.refs = <<>>
      /\ r.hit = FALSE /\ r.front = {} /\ r.walked = {} /\ r.hop = 0 /\ r.fresh = {}
      /\ r.excused = FALSE /\ r = [f \in Fields |-> r[f]]
  BY <1>2 DEF Idle, Fields
<1>4. Database
  BY <1>1, RowAssumption, BoundAssumption DEF Database
<1>5. InHand
  <2>1. Cardinality(r.walked) <= MaxWalk
    BY <1>3, FS_EmptySet, BoundAssumption
  <2>2. r.refs \in Seq(Rows)
    BY <1>3
  <2>3. /\ Range(r.refs) \subseteq rows
        /\ DOMAIN r.batch \subseteq rows /\ DOMAIN r.cands \subseteq Summaries \cap rows
        /\ r.batch \in Versioned /\ r.cands \in Versioned
    BY <1>3, NoRowsVersioned
  <2>4. r.pc \in PCs /\ r.gate \in Gates /\ r.tier \in Tiers
    BY <1>3 DEF PCs, Gates, Tiers
  <2>5. /\ r.q \in Questions /\ r.hop \in 0..2
        /\ r.matched \subseteq Entities /\ r.fresh \subseteq Summaries
        /\ r.matched \subseteq rows /\ r.todo \subseteq rows /\ r.front \subseteq rows
        /\ r.walked \subseteq rows \cap Entities
    BY <1>3
  <2>6. r = [f \in Fields |-> r[f]]
    BY <1>3
  <2>7. r.hit \in BOOLEAN /\ r.excused \in BOOLEAN
    BY <1>3, Zenon
  <2>8. QED
    BY <2>1, <2>2, <2>3, <2>4, <2>5, <2>6, <2>7, Zenon DEF InHand
<1>6. KeysHold
  BY <1>3, NoRowsVersioned DEF KeysHold, Opening, Holding
<1>7. FreshHold
  BY <1>3, NoRowsVersioned DEF FreshHold
<1>8. CitesHold
  <2>1. IsInjective(r.refs)
    BY <1>3, NoRowsVersioned DEF IsInjective
  <2>2. CitedByNow
    BY <1>3, NoRowsVersioned DEF CitedByNow, BeforeSummaries
  <2>3. BatchIsNew
    BY <1>3, NoRowsVersioned DEF BatchIsNew, Holding
  <2>4. QED
    BY <1>3, <2>1, <2>2, <2>3, NoRowsVersioned DEF CitesHold
<1>9. QED
  BY <1>4, <1>5, <1>6, <1>7, <1>8 DEF Inv, Typed

\* Every step keeps the invariant.
LEMMA NextInv ==
    ASSUME Inv, [Next]_vars
    PROVE  Inv'
<1>1. CASE UNCHANGED vars
  <2>1. rows' = rows /\ key' = key /\ keys' = keys /\ related' = related /\ cache' = cache
        /\ r' = r /\ late' = late /\ moving' = moving /\ pruning' = pruning
    BY <1>1 DEF vars
  <2>2. Typed' /\ KeysHold'
    BY <2>1 DEF Inv, Typed, Database, InHand, KeysHold
  <2>3. FreshHold'
    BY <2>1, CurrentKept, CitableKept DEF Inv, FreshHold
  <2>4. CitesHold'
    BY <2>1, CitesKept DEF Inv, Typed, InHand, Changes
  <2>5. QED
    BY <2>2, <2>3, <2>4 DEF Inv
<1>2. CASE ScopeInUse
  BY <1>2, InsertStep, RelateStep, NewVersionStep, SelectBatchStep, MigrateStep,
     CheckPruneStep, PruneStep DEF ScopeInUse
<1>3. CASE Next /\ ~ScopeInUse
  BY <1>3, StartStep, ReadAnchorStep, OpenAnchorStep, MatchEntitiesStep, FormatEntityStep,
     OpenEntityStep, Stage1GateStep, EmbedQueryStep, ReadTierStep, VectorSummariesStep,
     OpenVectorStep, KeywordSummariesStep, OpenKeywordStep, FactSummariesStep, OpenFactStep,
     PickSummariesStep, LoadKeyFactsStep, WriteSummariesStep, VectorEpisodesStep,
     OpenEpisodesStep, VectorEntitiesStep, OpenEntitiesStep, KeywordEpisodesStep,
     OpenKeywordEpisodesStep, KeywordEntitiesStep, OpenKeywordEntitiesStep, HopStep,
     WalkEndsStep, LoadWalkedStep, OpenWalkedStep, FinishStep, OpenFailsStep DEF Next
<1>4. QED
  BY <1>1, <1>2, <1>3

\* The invariant holds throughout.
LEMMA Invariant == Spec => []Inv
BY InitInv, NextInv, PTL DEF Spec

\* Every variable stays in its type, the graph walk within its limit and the
\* scope with a key (Prune's version < ToVersion), for any rows, limits and
\* number of versions, and any number of batches and prunes under way.
THEOREM Typing == Spec => []TypeOK
<1>1. Inv => TypeOK
  <2> SUFFICES ASSUME Inv PROVE TypeOK
    OBVIOUS
  <2>1. /\ r.batch \in [DOMAIN r.batch -> 1..MaxKeys] /\ DOMAIN r.batch \in SUBSET rows
        /\ r.cands \in [DOMAIN r.cands -> 1..MaxKeys]
        /\ DOMAIN r.cands \in SUBSET (Summaries \cap rows)
    BY VersionedOut DEF Inv, Typed, InHand
  <2>2. /\ r.batch \in UNION {[X -> 1..MaxKeys] : X \in SUBSET rows}
        /\ r.cands \in UNION {[X -> 1..MaxKeys] : X \in SUBSET (Summaries \cap rows)}
    BY <2>1
  <2>3. r.refs \in Seq(rows)
    <3>1. r.refs \in Seq(Rows) /\ \A i \in DOMAIN r.refs : r.refs[i] \in rows
      BY DEF Inv, Typed, InHand, Range
    <3>2. DOMAIN r.refs = 1..Len(r.refs) /\ Len(r.refs) \in Nat
      BY <3>1
    <3>3. r.refs \in [1..Len(r.refs) -> rows]
      BY <3>1, <3>2
    <3>4. QED
      BY <3>2, <3>3
  <2>4. QED
    BY <2>2, <2>3 DEF Inv, Typed, Database, InHand, TypeOK, Gates, Tiers
<1>2. QED
  BY <1>1, Invariant, PTL

\* Every summary cited was current at some moment of the retrieval, and lies in
\* the days asked about unless no candidate does, whatever is inserted
\* between its statements (fusedSearchSummaries).
THEOREM Fresh == Spec => []AnswersFromCurrent
<1>1. Inv => AnswersFromCurrent
  BY DEF Inv, FreshHold, Citable, AnswersFromCurrent, RefsOf
<1>2. QED
  BY <1>1, Invariant, PTL

\* Nothing is cited twice by the seven searches, and the gate tells whether
\* something besides the anchor is cited (the exclusion lists the searches
\* hand on).
THEOREM Once == Spec => []CitedOnce
<1>1. Inv => CitedOnce
  BY DEF Inv, CitesHold, CitedOnce
<1>2. QED
  BY <1>1, Invariant, PTL

\* A retrieval fails on a key only if the version of what it had read was
\* pruned, or of a summary whose facts it had still to read was changed, after
\* it had read it, or if it read a row written under an old version after a
\* prune's check (GetVersion, loadKeyFacts, Prune).
THEOREM Unnoticed == Spec => []HalfRotationUnnoticed
<1>1. Inv => HalfRotationUnnoticed
  BY DEF Inv, KeysHold, HalfRotationUnnoticed
<1>2. QED
  BY <1>1, Invariant, PTL
=============================================================================
