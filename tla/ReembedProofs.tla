---------------------------- MODULE ReembedProofs ----------------------------
(***************************************************************************)
(* Theorems about Reembed, for any rows, consolidators, models and limits. *)
(***************************************************************************)
EXTENDS Reembed, LibraryLemmas

Newest == Max(keys)

\* A batch is in hand from its SELECT to its last UPDATE, and there is a row at
\* its head wherever one is decrypted.
BatchInHand ==
    /\ job.pc \in {"idle", "select", "log", "done", "failed"} =>
          job.todo = <<>> /\ job.ready = <<>>
    /\ job.pc \in {"decrypt", "refetch", "rekey"} => job.todo # <<>>

\* Nobody rotates to, or prunes up to, a version newer than the newest.
Rotating ==
    /\ rot.to <= Newest /\ \A v \in pruning : v <= Newest
    /\ \A q \in Rotators : rt[q].to <= Newest /\ (rt[q].pc # "idle" => rt[q].to >= 1)

\* A row that is not late can be read with its present version, which no prune
\* under way will delete.  One that was selected earlier can be unless a version
\* was deleted since.
KeysHold ==
    /\ keys # {}
    /\ \A r \in here \ late : ver[r] \in keys /\ \A v \in pruning : v <= ver[r]
    /\ \A r \in Rows : ver[r] <= Newest
    /\ \A i \in DOMAIN job.todo :
          /\ job.todo[i].id \in here /\ job.todo[i].ver <= Newest
          /\ job.todo[i].ver \in keys \/ job.todo[i].late \/ job.prunes >= 1
    /\ job.pc = "refetch" => job.todo[1].ver \notin keys
    /\ job.pc = "rekey" =>
          \/ job.todo[1].late
          \/ job.prunes >= 1 /\ (job.todo[1].ver \in keys \/ job.prunes >= 2)
    /\ job.lost => job.pc = "failed" /\ (job.prunes >= 2 \/ job.late)
    /\ Rotating

\* On the configured model, or out of reach.
Settled(r) == model[r] = NewModel \/ \E s \in over : r \in FactsOf[s]

\* What the run has passed is settled.
PassedIsSettled ==
    /\ job.due \subseteq here
    /\ \A t \in 1..4 : t < job.table => \A r \in job.due \cap TableRows[t] : Settled(r)
    /\ job.pc = "done" => \A r \in job.due : Settled(r)

\* Whose turn it is to embed what, at each step of a consolidation.
Turns ==
    \A c \in Consolidators :
        /\ cons[c].got # <<>> <=> cons[c].pc \in {"key", "write"}
        /\ cons[c].got # <<>> => Len(cons[c].got) = 1
        /\ \A i \in DOMAIN cons[c].got : cons[c].got[i].id \in Entities
        /\ cons[c].pc \in {"summary", "entity", "key", "write"} => cons[c].ids \subseteq Entities
        /\ cons[c].pc \in {"idle", "store", "facts", "episodes"} => cons[c].ids = {}
        /\ cons[c].pc = "store" => cons[c].ver >= 1
        /\ cons[c].pc = "episode" => cons[c].ids \subseteq Episodes

\* Consolidator c is to embed e after its own change to it.
Owes(c, e) ==
    ~cons[c].last /\ (e \in cons[c].ids \/ \E i \in DOMAIN cons[c].got : cons[c].got[i].id = e)

\* An entity that was not spoiled is embedded as it is, or will be; and
\* everybody who holds one holds it as it is.
EntitiesTrue ==
    \A e \in (Entities \cap here) \ spoiled :
        /\ model[e] = NewModel /\ of[e] # text[e] => \E c \in Consolidators : Owes(c, e)
        /\ \A i \in DOMAIN job.todo : job.todo[i].id = e => job.todo[i].text = text[e]
        /\ \A i \in DOMAIN job.ready : job.ready[i].id = e => job.ready[i].text = text[e]
        /\ \A c \in Consolidators : \A i \in DOMAIN cons[c].got :
              cons[c].got[i].id = e => cons[c].got[i].text = text[e]

Inv == TypeOK /\ BatchInHand /\ KeysHold /\ PassedIsSettled /\ Turns /\ EntitiesTrue

----------------------------------------------------------------------------
(* Lemmas about the operators.                                             *)

\* The newest version is one.
LEMMA NewestIsThere ==
    ASSUME Inv
    PROVE  Newest \in keys /\ Newest \in 1..MaxVersion /\ \A v \in keys : v <= Newest
BY MaxIsThere, BoundAssumption DEF Inv, TypeOK, KeysHold, Rotating, Newest

\* What an UPDATE of embeddings leaves in each row.
LEMMA WriteEffect ==
    ASSUME Inv, NEW S, NEW m \in Models, WriteEmbeddings(S, m),
           \A x \in S : x.id \in Rows => x.text \in Texts
    PROVE  /\ of' \in [Rows -> Texts] /\ model' \in [Rows -> Models \cup {NoModel}]
           /\ \A r \in Rows :
                 \/ \E x \in S : x.id = r /\ of'[r] = x.text /\ model'[r] = m
                 \/ (\A x \in S : x.id # r) /\ of'[r] = of[r] /\ model'[r] = model[r]
           /\ here' = here /\ text' = text /\ ver' = ver /\ over' = over /\ late' = late
<1>1. here' = here /\ text' = text /\ ver' = ver /\ over' = over /\ late' = late
  BY DEF WriteEmbeddings
<1>2. ASSUME NEW r \in Rows
      PROVE  /\ \/ \E x \in S : x.id = r /\ of'[r] = x.text /\ model'[r] = m
                \/ (\A x \in S : x.id # r) /\ of'[r] = of[r] /\ model'[r] = model[r]
             /\ of'[r] \in Texts /\ model'[r] \in Models \cup {NoModel}
  <2>1. /\ of'[r] = IF \E x \in S : x.id = r THEN (CHOOSE x \in S : x.id = r).text ELSE of[r]
        /\ model'[r] = IF \E x \in S : x.id = r THEN m ELSE model[r]
    BY DEF WriteEmbeddings
  <2>2. CASE \E x \in S : x.id = r
    <3>1. PICK y : y = (CHOOSE x \in S : x.id = r)
      OBVIOUS
    <3>2. y \in S /\ y.id = r
      BY <2>2, <3>1
    <3>3. QED
      BY <2>1, <2>2, <3>1, <3>2
  <2>3. CASE ~\E x \in S : x.id = r
    BY <2>1, <2>3 DEF Inv, TypeOK
  <2>4. QED
    BY <2>2, <2>3
<1>3. of' \in [Rows -> Texts] /\ model' \in [Rows -> Models \cup {NoModel}]
  BY <1>2 DEF WriteEmbeddings
<1>4. QED
  BY <1>1, <1>2, <1>3

\* The rows a SELECT returns: some of R, as they are, at least one if there is one.
LEMMA SelectionOf ==
    ASSUME Inv, NEW R, R \subseteq here, R # {}, NEW s \in Selections(R, BatchSize)
    PROVE  /\ s \in Seq(Snapshot) /\ s # <<>> /\ Len(s) <= BatchSize
           /\ \A i \in DOMAIN s : \E r \in R : s[i] = Row(r)
<1>1. PICK B \in kSubset(Min({BatchSize, Cardinality(R)}), R) :
         s = [i \in 1..Len(SetToSeq(B)) |-> Row(SetToSeq(B)[i])]
  BY DEF Selections
<1>2. B \subseteq R /\ Cardinality(B) = Min({BatchSize, Cardinality(R)})
  BY <1>1 DEF kSubset
<1>3. IsFiniteSet(R) /\ IsFiniteSet(B)
  BY <1>2, FS_Subset, RowAssumption DEF Inv, TypeOK
<1>4. Cardinality(R) \in Nat /\ Cardinality(R) # 0
  BY <1>3, FS_CardinalityType, FS_EmptySet
<1>5. Cardinality(B) \in Nat /\ Cardinality(B) # 0 /\ Cardinality(B) <= BatchSize
  <2>1. Cardinality(R) \in Int /\ BatchSize \in Int
    BY <1>4, BoundAssumption
  <2>2. QED
    BY <1>2, <1>4, <2>1, LesserOfTwo, BoundAssumption
<1>6. /\ SetToSeq(B) \in Seq(B) /\ Len(SetToSeq(B)) = Cardinality(B)
  BY <1>3, SetAsSeq
<1>7. \A i \in 1..Len(SetToSeq(B)) : SetToSeq(B)[i] \in R
  BY <1>2, <1>6
<1>8. \A r \in R : Row(r) \in Snapshot
  BY DEF Inv, TypeOK, Row, Snapshot
<1>9. /\ s \in [1..Cardinality(B) -> Snapshot]
      /\ \A i \in DOMAIN s : \E r \in R : s[i] = Row(r)
  BY <1>1, <1>6, <1>7, <1>8
<1>10. s \in Seq(Snapshot) /\ Len(s) = Cardinality(B)
  BY <1>5, <1>9
<1>11. QED
  BY <1>5, <1>9, <1>10

\* Sums of lengths.
LEMMA MoreThanOne == ASSUME NEW n \in Nat, n # 0 PROVE (n > 1) <=> (n - 1 # 0)
OBVIOUS

\* A row moves from one sequence to the other.
LEMMA OneOver == ASSUME NEW m \in Nat, NEW n \in Nat PROVE (m - 1) + (n + 1) = m + n
OBVIOUS

\* The emptied batch is within the limit.
LEMMA LessIsWithin ==
    ASSUME NEW m \in Nat, NEW n \in Nat, NEW b \in Nat, m + n <= b PROVE m + 0 <= b
OBVIOUS

\* What is in hand are snapshots.
LEMMA SnapshotsInHand ==
    ASSUME NEW s \in Seq(Snapshot)
    PROVE  \A i \in DOMAIN s : s[i] \in Snapshot /\ s[i].text \in Texts /\ s[i].ver \in Int
<1>1. \A i \in DOMAIN s : s[i] \in Snapshot
  OBVIOUS
<1>2. QED
  BY <1>1 DEF Snapshot

\* Opening the row at the head of the batch.
LEMMA DecryptedEffect ==
    ASSUME Inv, job.todo # <<>>, Decrypted(Head(job.todo))
    PROVE  /\ job' \in Job
           /\ job'.pc \in {"decrypt", "embed"} /\ (job'.pc = "decrypt" => job'.todo # <<>>)
           /\ Len(job'.todo) + Len(job'.ready) = Len(job.todo) + Len(job.ready)
           /\ \A i \in DOMAIN job'.todo : \E j \in DOMAIN job.todo : job'.todo[i] = job.todo[j]
           /\ \A i \in DOMAIN job'.ready :
                 \/ \E j \in DOMAIN job.ready : job'.ready[i] = job.ready[j]
                 \/ \E j \in DOMAIN job.todo : job'.ready[i] = job.todo[j]
           /\ job'.todo # <<>> => job'.prunes = job.prunes
           /\ job'.table = job.table /\ job'.due = job.due /\ job'.lost = job.lost
<1>1. /\ job \in Job /\ job.todo \in Seq(Snapshot) /\ job.ready \in Seq(Snapshot)
  BY DEF Inv, TypeOK, Job
<1>2. /\ Head(job.todo) = job.todo[1] /\ 1 \in DOMAIN job.todo /\ job.todo[1] \in Snapshot
      /\ Tail(job.todo) \in Seq(Snapshot) /\ Len(Tail(job.todo)) = Len(job.todo) - 1
      /\ \A i \in DOMAIN Tail(job.todo) :
            i + 1 \in DOMAIN job.todo /\ Tail(job.todo)[i] = job.todo[i + 1]
  BY <1>1, TailOf
<1> DEFINE x == job.todo[1]
<1>3. /\ Append(job.ready, x) \in Seq(Snapshot)
      /\ Len(Append(job.ready, x)) = Len(job.ready) + 1
      /\ \A i \in DOMAIN Append(job.ready, x) :
            \/ i \in DOMAIN job.ready /\ Append(job.ready, x)[i] = job.ready[i]
            \/ Append(job.ready, x)[i] = x
  BY <1>1, <1>2, Appended
<1>4. /\ job'.todo = Tail(job.todo) /\ job'.ready = Append(job.ready, x)
      /\ job'.prunes = IF Len(job.todo) > 1 THEN job.prunes ELSE 0
      /\ job'.pc = IF job.table = 4 /\ Len(job.todo) > 1 THEN "decrypt" ELSE "embed"
      /\ job'.table = job.table /\ job'.due = job.due /\ job'.lost = job.lost
  BY <1>1, <1>2 DEF Decrypted, Job
<1>5. job' \in Job
  BY <1>1, <1>2, <1>3 DEF Decrypted, Job
<1>6. Len(job.todo) \in Nat /\ Len(job.ready) \in Nat
  BY <1>1
<1>7. (Len(job.todo) > 1) <=> (Tail(job.todo) # <<>>)
  <2>1. Tail(job.todo) # <<>> <=> Len(Tail(job.todo)) # 0
    BY <1>2, EmptyIsLenZero
  <2>2. job.todo # <<>> <=> Len(job.todo) # 0
    BY <1>1, EmptyIsLenZero
  <2>3. Len(Tail(job.todo)) = Len(job.todo) - 1
    BY <1>2
  <2>4. Len(job.todo) # 0
    BY <2>2
  <2>5. (Len(job.todo) > 1) <=> (Len(job.todo) - 1 # 0)
    BY <1>6, <2>4, MoreThanOne
  <2>6. QED
    BY <2>1, <2>3, <2>5, Zenon
<1> HIDE DEF x
<1>8. /\ job'.pc \in {"decrypt", "embed"} /\ (job'.pc = "decrypt" => job'.todo # <<>>)
      /\ Len(job'.todo) + Len(job'.ready) = Len(job.todo) + Len(job.ready)
      /\ job'.todo # <<>> => job'.prunes = job.prunes
  <2>1. /\ job'.pc \in {"decrypt", "embed"} /\ (job'.pc = "decrypt" => job'.todo # <<>>)
        /\ job'.todo # <<>> => job'.prunes = job.prunes
    BY <1>4, <1>7
  <2>2. Len(job'.todo) = Len(job.todo) - 1 /\ Len(job'.ready) = Len(job.ready) + 1
    BY <1>2, <1>3, <1>4
  <2>3. Len(job'.todo) + Len(job'.ready) = Len(job.todo) + Len(job.ready)
    BY <1>6, <2>2, OneOver
  <2>4. QED
    BY <2>1, <2>3
<1>9. \A i \in DOMAIN job'.todo : \E j \in DOMAIN job.todo : job'.todo[i] = job.todo[j]
  BY <1>2, <1>4
<1>10. \A i \in DOMAIN job'.ready :
          \/ \E j \in DOMAIN job.ready : job'.ready[i] = job.ready[j]
          \/ \E j \in DOMAIN job.todo : job'.ready[i] = job.todo[j]
  BY <1>2, <1>3, <1>4 DEF x
<1>11. QED
  BY <1>4, <1>5, <1>8, <1>9, <1>10

\* The invocation ends.
LEMMA FailsEffect ==
    ASSUME Inv, NEW lost \in BOOLEAN, NEW wasLate \in BOOLEAN, Fails(lost, wasLate)
    PROVE  /\ job' \in Job /\ job'.pc = "failed" /\ job'.table = 1
           /\ job'.todo = <<>> /\ job'.ready = <<>> /\ DOMAIN <<>> = {} /\ Len(<<>>) = 0
           /\ job'.prunes = job.prunes /\ job'.lost = lost /\ job'.late = wasLate
           /\ job'.due = {}
<1>1. job.prunes \in Nat
  BY DEF Inv, TypeOK, Job
<1>2. job' = [pc |-> "failed", table |-> 1, todo |-> <<>>, ready |-> <<>>,
              prunes |-> job.prunes, lost |-> lost, late |-> wasLate, due |-> {}]
  BY DEF Fails, IdleJob
<1>3. QED
  BY <1>1, <1>2 DEF Job

\* The process is gone.
LEMMA IdleJobEffect ==
    /\ IdleJob \in Job /\ IdleJob.pc = "idle" /\ IdleJob.table = 1
    /\ IdleJob.todo = <<>> /\ IdleJob.ready = <<>> /\ DOMAIN <<>> = {} /\ Len(<<>>) = 0
    /\ IdleJob.prunes = 0 /\ ~IdleJob.lost /\ IdleJob.due = {}
BY DEF Job, IdleJob

----------------------------------------------------------------------------
(* hupi-reembed.                                                           *)

\* A step of the job that writes nothing and holds rows as they are, or were.
LEMMA JobHolds ==
    ASSUME Inv, UNCHANGED <<db, cons, spoiled>>,
           \A i \in DOMAIN job'.todo :
              \/ \E j \in DOMAIN job.todo : job'.todo[i] = job.todo[j]
              \/ job'.todo[i].text = text[job'.todo[i].id],
           \A i \in DOMAIN job'.ready :
              \/ \E j \in DOMAIN job.ready : job'.ready[i] = job.ready[j]
              \/ \E j \in DOMAIN job.todo : job'.ready[i] = job.todo[j]
    PROVE  Turns' /\ EntitiesTrue'
<1>1. /\ here' = here /\ text' = text /\ of' = of /\ model' = model
      /\ cons' = cons /\ spoiled' = spoiled
  BY DEF db, ring
<1>2. Turns'
  BY <1>1 DEF Inv, Turns
<1>3. EntitiesTrue'
  BY <1>1 DEF Inv, EntitiesTrue, Owes
<1>4. QED
  BY <1>2, <1>3

\* A run starts.
LEMMA StartJobStep ==
    ASSUME Inv, StartJob
    PROVE  Inv'
<1>1. /\ here' = here /\ text' = text /\ ver' = ver /\ of' = of /\ model' = model /\ over' = over
      /\ late' = late /\ rot' = rot /\ rt' = rt /\ pruning' = pruning
      /\ keys' = keys /\ cons' = cons /\ stores' = stores /\ failures' = failures
      /\ spoiled' = spoiled /\ runs' \in 0..MaxRuns
  BY BoundAssumption DEF Inv, TypeOK, StartJob, db, ring
<1>2. /\ job' \in Job /\ job'.pc = "select" /\ job'.table = 1 /\ job'.due \subseteq here
      /\ job'.todo = <<>> /\ job'.ready = <<>> /\ job'.prunes = 0 /\ ~job'.lost
  <2>1. (UNION {pending(t, NewModel) : t \in 1..4}) \subseteq here
    BY DEF pending
  <2>2. job' = [pc |-> "select", table |-> 1, todo |-> <<>>, ready |-> <<>>, prunes |-> 0,
                lost |-> FALSE, late |-> FALSE, due |-> UNION {pending(t, NewModel) : t \in 1..4}]
    BY DEF StartJob, IdleJob
  <2>3. QED
    BY <2>1, <2>2 DEF Inv, TypeOK, Job
<1>3. TypeOK'
  BY <1>1, <1>2, IdleJobEffect, BoundAssumption DEF Inv, TypeOK
<1>4. BatchInHand' /\ KeysHold' /\ PassedIsSettled'
  BY <1>1, <1>2, IdleJobEffect DEF Inv, BatchInHand, KeysHold, Rotating, PassedIsSettled, Newest, Settled
<1>5. Turns' /\ EntitiesTrue'
  BY <1>1, <1>2, IdleJobEffect, JobHolds DEF db, ring
<1>6. QED
  BY <1>3, <1>4, <1>5 DEF Inv

\* The SELECT of a batch, or the next table.
LEMMA SelectBatchStep ==
    ASSUME Inv, SelectBatch
    PROVE  Inv'
<1>1. /\ here' = here /\ text' = text /\ ver' = ver /\ of' = of /\ model' = model /\ over' = over
      /\ late' = late /\ rot' = rot /\ rt' = rt /\ pruning' = pruning
      /\ keys' = keys /\ cons' = cons /\ stores' = stores /\ failures' = failures
      /\ runs' = runs /\ spoiled' = spoiled /\ job.pc = "select"
  BY DEF SelectBatch, db, ring
<1>2. job.todo = <<>> /\ job.ready = <<>> /\ job \in Job /\ job.table \in 1..4
  BY <1>1 DEF Inv, BatchInHand, TypeOK, Job
<1>3. CASE pending(job.table, NewModel) = {}
  <2>1. job' = [job EXCEPT !.pc = IF job.table = 4 THEN "done" ELSE @,
                           !.table = IF @ = 4 THEN @ ELSE @ + 1]
    BY <1>3 DEF SelectBatch
  <2>2. /\ job' \in Job /\ job'.todo = <<>> /\ job'.ready = <<>> /\ job'.due = job.due
        /\ job'.prunes = job.prunes /\ job'.lost = job.lost
        /\ job'.pc = IF job.table = 4 THEN "done" ELSE "select"
        /\ job'.table = IF job.table = 4 THEN 4 ELSE job.table + 1
    <3>1. /\ job'.todo = <<>> /\ job'.ready = <<>> /\ job'.due = job.due
          /\ job'.prunes = job.prunes /\ job'.lost = job.lost
          /\ job'.pc = IF job.table = 4 THEN "done" ELSE "select"
          /\ job'.table = IF job.table = 4 THEN 4 ELSE job.table + 1
      BY <1>1, <1>2, <2>1 DEF Job
    <3>2. job'.pc \in {"done", "select"} /\ job'.table \in 1..4
      BY <1>2, <3>1
    <3>3. job' \in Job
      <4> DEFINE p == IF job.table = 4 THEN "done" ELSE job.pc
                 t == IF job.table = 4 THEN job.table ELSE job.table + 1
      <4>1. job' = [job EXCEPT !.pc = p, !.table = t]
        BY <2>1
      <4>2. p \in {"done", "select"} /\ t \in 1..4
        BY <1>1, <1>2
      <4> HIDE DEF p, t
      <4>3. QED
        BY <1>2, <4>1, <4>2 DEF Job
    <3>4. QED
      BY <3>1, <3>3
  <2>3. \A r \in job.due \cap TableRows[job.table] : Settled(r)
    BY <1>3 DEF Inv, PassedIsSettled, pending, Settled
  <2>4. \A r \in job.due : \E t \in 1..4 : r \in TableRows[t]
    <3>1. job.due \subseteq Summaries \cup Episodes \cup Entities \cup Facts
      BY <1>2 DEF Job, Rows
    <3>2. /\ TableRows[1] = Summaries /\ TableRows[2] = Episodes
          /\ TableRows[3] = Entities /\ TableRows[4] = Facts
      BY DEF TableRows
    <3>3. QED
      BY <3>1, <3>2
  <2>5. PassedIsSettled'
    <3>1. \A r : Settled(r)' <=> Settled(r)
      BY <1>1 DEF Settled
    <3>2. \A t \in 1..4 : t <= job.table => \A r \in job.due \cap TableRows[t] : Settled(r)
      BY <1>2, <2>3 DEF Inv, PassedIsSettled
    <3>3. QED
      BY <1>1, <1>2, <2>2, <2>4, <3>1, <3>2 DEF Inv, PassedIsSettled
  <2>6. TypeOK'
    BY <1>1, <1>2, <2>2 DEF Inv, TypeOK
  <2>7. BatchInHand' /\ KeysHold'
    BY <1>1, <1>2, <2>2, IdleJobEffect DEF Inv, BatchInHand, KeysHold, Rotating, Newest
  <2>8. Turns' /\ EntitiesTrue'
    BY <1>1, <2>2, IdleJobEffect, JobHolds DEF db, ring
  <2>9. QED
    BY <2>5, <2>6, <2>7, <2>8 DEF Inv
<1>4. CASE pending(job.table, NewModel) # {}
  <2>1. PICK s \in Selections(pending(job.table, NewModel), BatchSize) :
           job' = [job EXCEPT !.pc = "decrypt", !.todo = s, !.prunes = 0]
    BY <1>4 DEF SelectBatch
  <2>2. pending(job.table, NewModel) \subseteq here
    BY DEF pending
  <2>3. /\ s \in Seq(Snapshot) /\ s # <<>> /\ Len(s) <= BatchSize
        /\ \A i \in DOMAIN s : \E r \in here : s[i] = Row(r)
    BY <1>4, <2>1, <2>2, SelectionOf
  <2>4. /\ job' \in Job /\ job'.todo = s /\ job'.ready = <<>> /\ job'.due = job.due
        /\ job'.prunes = 0 /\ job'.lost = job.lost /\ job'.pc = "decrypt"
        /\ job'.table = job.table
    BY <1>2, <2>1, <2>3 DEF Job
  <2>5. \A i \in DOMAIN s : /\ s[i].id \in here /\ s[i].ver = ver[s[i].id]
                            /\ s[i].text = text[s[i].id] /\ s[i].late = (s[i].id \in late)
    BY <2>3 DEF Row
  <2>6. TypeOK'
    <3>1. Len(job'.todo) + Len(job'.ready) <= BatchSize
      BY <2>3, <2>4, IdleJobEffect, BoundAssumption
    <3>2. QED
      BY <1>1, <2>4, <3>1 DEF Inv, TypeOK
  <2>7. BatchInHand'
    BY <2>3, <2>4 DEF BatchInHand
  <2>8. KeysHold'
    <3>1. \A i \in DOMAIN s : (s[i].ver \in keys \/ s[i].late) /\ s[i].ver <= Newest
      BY <2>5 DEF Inv, TypeOK, KeysHold
    <3>2. ~job.lost
      BY <1>1 DEF Inv, KeysHold, Rotating
    <3>3. QED
      BY <1>1, <2>4, <2>5, <3>1, <3>2 DEF Inv, KeysHold, Rotating, Newest
  <2>9. PassedIsSettled'
    BY <1>1, <2>4 DEF Inv, PassedIsSettled, Settled
  <2>10. Turns' /\ EntitiesTrue'
    BY <1>1, <2>4, <2>5, IdleJobEffect, JobHolds DEF db, ring
  <2>11. QED
    BY <2>6, <2>7, <2>8, <2>9, <2>10 DEF Inv
<1>5. QED
  BY <1>3, <1>4

\* The head of the batch is opened.
LEMMA DecryptedKeeps ==
    ASSUME Inv, job.pc \in {"decrypt", "rekey"}, Decrypted(Head(job.todo)),
           UNCHANGED <<db, ring, cons, stores, failures, runs, spoiled>>
    PROVE  Inv'
<1>1. /\ here' = here /\ text' = text /\ ver' = ver /\ of' = of /\ model' = model /\ over' = over
      /\ late' = late /\ rot' = rot /\ rt' = rt /\ pruning' = pruning
      /\ keys' = keys /\ cons' = cons /\ stores' = stores /\ failures' = failures
      /\ runs' = runs /\ spoiled' = spoiled
  BY DEF db, ring
<1>2. job.todo # <<>>
  BY DEF Inv, BatchInHand
<1>3. /\ job' \in Job
      /\ job'.pc \in {"decrypt", "embed"} /\ (job'.pc = "decrypt" => job'.todo # <<>>)
      /\ Len(job'.todo) + Len(job'.ready) = Len(job.todo) + Len(job.ready)
      /\ \A i \in DOMAIN job'.todo : \E j \in DOMAIN job.todo : job'.todo[i] = job.todo[j]
      /\ \A i \in DOMAIN job'.ready :
            \/ \E j \in DOMAIN job.ready : job'.ready[i] = job.ready[j]
            \/ \E j \in DOMAIN job.todo : job'.ready[i] = job.todo[j]
      /\ job'.todo # <<>> => job'.prunes = job.prunes
      /\ job'.table = job.table /\ job'.due = job.due /\ job'.lost = job.lost
  BY <1>2, DecryptedEffect
<1>4. TypeOK'
  BY <1>1, <1>3 DEF Inv, TypeOK
<1>5. BatchInHand'
  BY <1>3 DEF BatchInHand
<1>6. KeysHold'
  <2>1. ~job.lost
    BY DEF Inv, KeysHold, Rotating
  <2>2. job'.todo = <<>> => DOMAIN job'.todo = {}
    BY IdleJobEffect
  <2>3. QED
    BY <1>1, <1>3, <2>1, <2>2 DEF Inv, KeysHold, Rotating, Newest
<1>7. PassedIsSettled'
  BY <1>1, <1>3 DEF Inv, PassedIsSettled, Settled
<1>8. Turns' /\ EntitiesTrue'
  BY <1>1, <1>3, JobHolds DEF db, ring
<1>9. QED
  BY <1>4, <1>5, <1>6, <1>7, <1>8 DEF Inv

\* The invocation fails; for want of a key, only after two versions were
\* deleted or on a late row.
LEMMA FailsKeeps ==
    ASSUME Inv, NEW lost \in BOOLEAN, NEW wasLate \in BOOLEAN, Fails(lost, wasLate),
           lost => job.prunes >= 2 \/ wasLate,
           failures' \in 0..MaxFailures, UNCHANGED <<db, ring, cons, stores, runs, spoiled>>
    PROVE  Inv'
<1>1. /\ here' = here /\ text' = text /\ ver' = ver /\ of' = of /\ model' = model /\ over' = over
      /\ late' = late /\ rot' = rot /\ rt' = rt /\ pruning' = pruning
      /\ keys' = keys /\ cons' = cons /\ stores' = stores
      /\ runs' = runs /\ spoiled' = spoiled
  BY DEF db, ring
<1>2. /\ job' \in Job /\ job'.pc = "failed" /\ job'.table = 1
      /\ job'.todo = <<>> /\ job'.ready = <<>> /\ DOMAIN <<>> = {} /\ Len(<<>>) = 0
      /\ job'.prunes = job.prunes /\ job'.lost = lost /\ job'.late = wasLate
      /\ job'.due = {}
  BY FailsEffect
<1>3. TypeOK'
  BY <1>1, <1>2, BoundAssumption DEF Inv, TypeOK
<1>4. BatchInHand' /\ KeysHold' /\ PassedIsSettled'
  BY <1>1, <1>2 DEF Inv, BatchInHand, KeysHold, Rotating, PassedIsSettled, Newest
<1>5. Turns' /\ EntitiesTrue'
  BY <1>1, <1>2, JobHolds DEF db, ring
<1>6. QED
  BY <1>3, <1>4, <1>5 DEF Inv

\* decryptWithRetry's first try.
LEMMA DecryptStep ==
    ASSUME Inv, Decrypt
    PROVE  Inv'
<1>1. /\ here' = here /\ text' = text /\ ver' = ver /\ of' = of /\ model' = model /\ over' = over
      /\ late' = late /\ rot' = rot /\ rt' = rt /\ pruning' = pruning
      /\ keys' = keys /\ cons' = cons /\ stores' = stores /\ failures' = failures
      /\ runs' = runs /\ spoiled' = spoiled /\ job.pc = "decrypt"
  BY DEF Decrypt, db, ring
<1>2. /\ job.todo # <<>> /\ job \in Job /\ Head(job.todo) = job.todo[1]
      /\ ~job.lost
  BY <1>1, TailOf DEF Inv, BatchInHand, TypeOK, Job, KeysHold, Rotating
<1>3. CASE Head(job.todo).ver \in keys
  BY <1>1, <1>3, DecryptedKeeps DEF Decrypt
<1>4. CASE Head(job.todo).ver \notin keys
  <2>1. job' = [job EXCEPT !.pc = "refetch"]
    BY <1>4 DEF Decrypt
  <2>2. /\ job' \in Job /\ job'.todo = job.todo /\ job'.ready = job.ready /\ job'.due = job.due
        /\ job'.prunes = job.prunes /\ job'.lost = job.lost /\ job'.pc = "refetch"
        /\ job'.table = job.table
    BY <1>2, <2>1 DEF Job
  <2>3. TypeOK'
    BY <1>1, <2>2 DEF Inv, TypeOK
  <2>4. BatchInHand' /\ KeysHold'
    BY <1>1, <1>2, <1>4, <2>2 DEF Inv, BatchInHand, KeysHold, Rotating, Newest
  <2>5. PassedIsSettled'
    BY <1>1, <2>2 DEF Inv, PassedIsSettled, Settled
  <2>6. Turns' /\ EntitiesTrue'
    BY <1>1, <2>2, JobHolds DEF db, ring
  <2>7. QED
    BY <2>3, <2>4, <2>5, <2>6 DEF Inv
<1>5. QED
  BY <1>3, <1>4

\* refetchRow: the row has another version now, since its own is gone, unless it
\* is late.
LEMMA RefetchRowStep ==
    ASSUME Inv, RefetchRow
    PROVE  Inv'
<1>1. /\ here' = here /\ text' = text /\ ver' = ver /\ of' = of /\ model' = model /\ over' = over
      /\ late' = late /\ rot' = rot /\ rt' = rt /\ pruning' = pruning
      /\ keys' = keys /\ cons' = cons /\ stores' = stores /\ failures' = failures
      /\ runs' = runs /\ spoiled' = spoiled /\ job.pc = "refetch"
  BY DEF RefetchRow, db, ring
<1>2. /\ job.todo # <<>> /\ job \in Job /\ job.todo \in Seq(Snapshot)
      /\ Head(job.todo) = job.todo[1] /\ 1 \in DOMAIN job.todo
      /\ ~job.lost
  BY <1>1, TailOf DEF Inv, BatchInHand, TypeOK, Job, KeysHold
<1> DEFINE x == job.todo[1]
<1>3. /\ x \in Snapshot /\ x.late \in BOOLEAN /\ x.id \in here /\ x.id \in Rows /\ x.ver \notin keys
      /\ x.late \/ job.prunes >= 1
      /\ x.id \in late \/ ver[x.id] \in keys
  <2>1. x \in Snapshot
    BY <1>2
  <2>2. QED
    BY <1>1, <1>2, <2>1 DEF Inv, TypeOK, KeysHold, Snapshot
<1>4. CASE ver[x.id] = x.ver
  <2>1. Fails(TRUE, x.late \/ x.id \in late)
    BY <1>2, <1>4 DEF RefetchRow
  <2>2. (x.late \/ x.id \in late) = TRUE
    BY <1>3, <1>4
  <2>3. Fails(TRUE, TRUE)
    BY <2>1, <2>2
  <2>4. failures' \in 0..MaxFailures
    BY <1>1 DEF Inv, TypeOK
  <2>5. UNCHANGED <<db, ring, cons, stores, runs, spoiled>>
    BY DEF RefetchRow
  <2>6. QED
    BY <2>3, <2>4, <2>5, FailsKeeps
<1>5. CASE ver[x.id] # x.ver
  <2>1. PICK y \in Snapshot : /\ y.id = x.id /\ y.text = text[x.id] /\ y.ver = ver[x.id]
                              /\ y.late = (x.id \in late \/ x.late)
                              /\ job' = [job EXCEPT !.pc = "rekey", !.todo[1] = y]
    <3> DEFINE z == [Row(x.id) EXCEPT !.late = @ \/ x.late]
    <3>1. /\ z.id = x.id /\ z.text = text[x.id] /\ z.ver = ver[x.id]
          /\ z.late = (x.id \in late \/ x.late)
      BY DEF Row
    <3>2. z \in Snapshot
      <4>1. Row(x.id) \in Snapshot
        BY <1>3 DEF Inv, TypeOK, Row, Snapshot
      <4>2. PICK w \in BOOLEAN : w = (Row(x.id).late \/ x.late)
        OBVIOUS
      <4>3. z = [Row(x.id) EXCEPT !.late = w]
        BY <4>2
      <4>4. QED
        BY <4>1, <4>3 DEF Snapshot
    <3>3. job' = [job EXCEPT !.pc = "rekey", !.todo[1] = z]
      BY <1>2, <1>5 DEF RefetchRow
    <3> HIDE DEF z
    <3>4. QED
      BY <3>1, <3>2, <3>3
  <2> HIDE DEF x
  <2>2. /\ job'.todo = [job.todo EXCEPT ![1] = y] /\ job'.ready = job.ready
        /\ job'.due = job.due /\ job'.prunes = job.prunes /\ job'.lost = job.lost
        /\ job'.pc = "rekey" /\ job'.table = job.table
    BY <1>2, <2>1 DEF Job
  <2>3. /\ job'.todo \in Seq(Snapshot) /\ DOMAIN job'.todo = DOMAIN job.todo
        /\ Len(job'.todo) = Len(job.todo)
        /\ job'.todo[1] = y /\ \A i \in DOMAIN job.todo \ {1} : job'.todo[i] = job.todo[i]
    BY <1>2, <2>1, <2>2
  <2>4. job' \in Job
    <3>1. job' = [job EXCEPT !.pc = "rekey", !.todo = job'.todo]
      BY <1>2, <2>1, <2>2 DEF Job
    <3>2. QED
      BY <1>2, <2>3, <3>1 DEF Job
  <2>5. TypeOK'
    BY <1>1, <2>2, <2>3, <2>4 DEF Inv, TypeOK
  <2>6. BatchInHand'
    BY <1>2, <2>2, <2>3, EmptyIsLenZero DEF BatchInHand
  <2>7. KeysHold'
    <3>1. y.ver <= Newest /\ (y.ver \in keys \/ y.late) /\ (y.late \/ job.prunes >= 1)
          /\ y.id \in here
      BY <1>3, <2>1 DEF Inv, KeysHold
    <3>2. QED
      BY <1>1, <1>2, <2>2, <2>3, <3>1 DEF Inv, KeysHold, Rotating, Newest
  <2>8. PassedIsSettled'
    BY <1>1, <2>2 DEF Inv, PassedIsSettled, Settled
  <2>9. Turns' /\ EntitiesTrue'
    <3>1. \A i \in DOMAIN job'.todo :
             \/ \E j \in DOMAIN job.todo : job'.todo[i] = job.todo[j]
             \/ job'.todo[i].text = text[job'.todo[i].id]
      BY <2>1, <2>3
    <3>2. QED
      BY <1>1, <2>2, <3>1, JobHolds DEF db
  <2>10. QED
    BY <2>5, <2>6, <2>7, <2>8, <2>9 DEF Inv
<1>6. QED
  BY <1>4, <1>5

\* The second try.
LEMMA RekeyStep ==
    ASSUME Inv, Rekey
    PROVE  Inv'
<1>1. /\ job.pc = "rekey" /\ UNCHANGED <<db, ring, cons, stores, failures, runs, spoiled>>
  BY DEF Rekey
<1>2. /\ job.todo # <<>> /\ job.todo \in Seq(Snapshot)
      /\ Head(job.todo) = job.todo[1] /\ 1 \in DOMAIN job.todo
  BY <1>1, TailOf DEF Inv, BatchInHand, TypeOK, Job
<1>3. CASE Head(job.todo).ver \in keys
  BY <1>1, <1>3, DecryptedKeeps DEF Rekey
<1>4. CASE Head(job.todo).ver \notin keys
  <2>1. PICK w \in BOOLEAN : w = job.todo[1].late
    <3>1. job.todo[1] \in Snapshot
      BY <1>2
    <3>2. QED
      BY <3>1 DEF Snapshot
  <2>2. Fails(TRUE, w) /\ (job.prunes >= 2 \/ w)
    BY <1>1, <1>2, <1>4, <2>1 DEF Inv, KeysHold, Rekey
  <2>3. failures' \in 0..MaxFailures
    BY <1>1 DEF Inv, TypeOK
  <2>4. QED
    BY <1>1, <2>2, <2>3, FailsKeeps
<1>5. QED
  BY <1>3, <1>4

\* A step of the job that only moves on.
LEMMA JobMoves ==
    ASSUME Inv,
           \/ job.pc = "embed" /\ job' = [job EXCEPT !.pc = "update"]
           \/ job.pc = "log" /\ job' = [job EXCEPT !.pc = "select", !.table = 1],
           UNCHANGED <<db, ring, cons, stores, failures, runs, spoiled>>
    PROVE  Inv'
<1>1. /\ here' = here /\ text' = text /\ ver' = ver /\ of' = of /\ model' = model /\ over' = over
      /\ late' = late /\ rot' = rot /\ rt' = rt /\ pruning' = pruning
      /\ keys' = keys /\ cons' = cons /\ stores' = stores /\ failures' = failures
      /\ runs' = runs /\ spoiled' = spoiled
  BY DEF db, ring
<1>2. /\ job' \in Job /\ job'.todo = job.todo /\ job'.ready = job.ready /\ job'.due = job.due
      /\ job'.prunes = job.prunes /\ job'.lost = job.lost
      /\ \/ job.pc = "embed" /\ job'.pc = "update" /\ job'.table = job.table
         \/ job.pc = "log" /\ job'.pc = "select" /\ job'.table = 1
  <2>1. CASE job.pc = "embed" /\ job' = [job EXCEPT !.pc = "update"]
    BY <2>1 DEF Inv, TypeOK, Job
  <2>2. CASE job.pc = "log" /\ job' = [job EXCEPT !.pc = "select", !.table = 1]
    <3>1. job \in Job
      BY DEF Inv, TypeOK
    <3>2. job' \in Job
      <4>1. PICK t \in 1..4 : t = 1
        OBVIOUS
      <4>2. job' = [job EXCEPT !.pc = "select", !.table = t]
        BY <2>2, <4>1
      <4>3. QED
        BY <3>1, <4>2 DEF Job
    <3>3. QED
      BY <2>2, <3>1, <3>2 DEF Job
  <2>3. QED
    BY <2>1, <2>2
<1>3. TypeOK'
  BY <1>1, <1>2 DEF Inv, TypeOK
<1>4. BatchInHand' /\ KeysHold'
  BY <1>1, <1>2 DEF Inv, BatchInHand, KeysHold, Rotating, Newest
<1>5. PassedIsSettled'
  BY <1>1, <1>2 DEF Inv, PassedIsSettled, Settled
<1>6. Turns' /\ EntitiesTrue'
  BY <1>1, <1>2, JobHolds DEF db, ring
<1>7. QED
  BY <1>3, <1>4, <1>5, <1>6 DEF Inv

\* A failure is counted.
LEMMA FailureCounted ==
    ASSUME Inv, failures < MaxFailures, failures' = failures + 1
    PROVE  failures' \in 0..MaxFailures
BY BoundAssumption DEF Inv, TypeOK

\* The embedder answers or fails.
LEMMA EmbedStep ==
    ASSUME Inv, Embed
    PROVE  Inv'
<1>1. /\ job.pc = "embed" /\ UNCHANGED <<db, ring, cons, stores, runs, spoiled>>
  BY DEF Embed
<1>2. CASE job' = [job EXCEPT !.pc = "update"] /\ UNCHANGED failures
  BY <1>1, <1>2, JobMoves
<1>3. CASE failures < MaxFailures /\ failures' = failures + 1 /\ Fails(FALSE, FALSE)
  BY <1>1, <1>3, FailureCounted, FailsKeeps
<1>4. QED
  BY <1>2, <1>3 DEF Embed

\* The batch is logged, or the audit write fails.
LEMMA LogRunStep ==
    ASSUME Inv, LogRun
    PROVE  Inv'
<1>1. /\ job.pc = "log" /\ UNCHANGED <<db, ring, cons, stores, runs, spoiled>>
  BY DEF LogRun
<1>2. CASE job' = [job EXCEPT !.pc = "select", !.table = 1] /\ UNCHANGED failures
  BY <1>1, <1>2, JobMoves
<1>3. CASE failures < MaxFailures /\ failures' = failures + 1 /\ Fails(FALSE, FALSE)
  BY <1>1, <1>3, FailureCounted, FailsKeeps
<1>4. QED
  BY <1>2, <1>3 DEF LogRun

\* The embeddings are written: rows nobody changed meanwhile get their own.
LEMMA UpdateStep ==
    ASSUME Inv, Update
    PROVE  Inv'
<1>1. /\ job.pc = "update" /\ WriteEmbeddings(Range(job.ready), NewModel)
      /\ ring' = ring /\ keys' = keys /\ cons' = cons /\ stores' = stores /\ failures' = failures
      /\ runs' = runs /\ spoiled' = spoiled
  BY DEF Update, ring
<1>2. job \in Job /\ job.ready \in Seq(Snapshot) /\ job.todo \in Seq(Snapshot)
  BY DEF Inv, TypeOK, Job
<1>3. \A x \in Range(job.ready) : x.text \in Texts /\ \E i \in DOMAIN job.ready : x = job.ready[i]
  BY <1>2, SnapshotsInHand DEF Range
<1>4. /\ of' \in [Rows -> Texts] /\ model' \in [Rows -> Models \cup {NoModel}]
      /\ \A r \in Rows :
            \/ \E x \in Range(job.ready) : x.id = r /\ of'[r] = x.text /\ model'[r] = NewModel
            \/ (\A x \in Range(job.ready) : x.id # r) /\ of'[r] = of[r] /\ model'[r] = model[r]
      /\ here' = here /\ text' = text /\ ver' = ver /\ over' = over
      /\ late' = late /\ rot' = rot /\ rt' = rt /\ pruning' = pruning
  BY <1>1, <1>3, WriteEffect DEF Models, ring
<1>5. /\ job' \in Job /\ job'.todo = job.todo /\ job'.ready = <<>> /\ job'.due = job.due
      /\ job'.prunes = job.prunes /\ job'.lost = job.lost /\ job'.table = job.table
      /\ job'.pc = IF job.todo = <<>> THEN "log" ELSE "decrypt"
  <2>1. PICK p : p = IF job.todo = <<>> THEN "log" ELSE "decrypt"
    OBVIOUS
  <2>2. job' = [job EXCEPT !.pc = p, !.ready = <<>>] /\ p \in {"log", "decrypt"}
    BY <2>1 DEF Update, AfterUpdate
  <2>3. <<>> \in Seq(Snapshot)
    OBVIOUS
  <2>4. job' \in Job
    BY <1>2, <2>2, <2>3 DEF Job
  <2>5. /\ job'.todo = job.todo /\ job'.ready = <<>> /\ job'.due = job.due
        /\ job'.prunes = job.prunes /\ job'.lost = job.lost /\ job'.table = job.table
        /\ job'.pc = p
    BY <1>2, <2>2 DEF Job
  <2>6. QED
    BY <2>1, <2>4, <2>5
<1>6. Len(job'.todo) + Len(job'.ready) <= BatchSize
  <2>1. Len(job'.ready) = 0 /\ Len(job'.todo) = Len(job.todo)
    BY <1>5, IdleJobEffect
  <2>2. Len(job.todo) \in Nat /\ Len(job.ready) \in Nat /\ BatchSize \in Nat
    BY <1>2, BoundAssumption
  <2>3. Len(job.todo) + Len(job.ready) <= BatchSize
    BY DEF Inv, TypeOK
  <2>4. QED
    BY <2>1, <2>2, <2>3, LessIsWithin
<1>7. TypeOK'
  BY <1>1, <1>4, <1>5, <1>6 DEF Inv, TypeOK
<1>8. BatchInHand' /\ KeysHold'
  BY <1>1, <1>4, <1>5 DEF Inv, BatchInHand, KeysHold, Rotating, Newest
<1>9. PassedIsSettled'
  <2>1. \A r \in Rows : Settled(r) => Settled(r)'
    BY <1>4 DEF Settled
  <2>2. job.due \subseteq Rows
    BY <1>2 DEF Job
  <2>3. job'.pc # "done"
    BY <1>5
  <2>4. QED
    BY <1>4, <1>5, <2>1, <2>2, <2>3 DEF Inv, PassedIsSettled
<1>10. Turns'
  BY <1>1 DEF Inv, Turns
<1>11. EntitiesTrue'
  <2> SUFFICES ASSUME NEW e \in (Entities \cap here) \ spoiled
               PROVE  /\ model'[e] = NewModel /\ of'[e] # text[e]
                            => \E c \in Consolidators : Owes(c, e)
                      /\ \A i \in DOMAIN job.todo :
                            job.todo[i].id = e => job.todo[i].text = text[e]
                      /\ \A c \in Consolidators : \A i \in DOMAIN cons[c].got :
                            cons[c].got[i].id = e => cons[c].got[i].text = text[e]
    BY <1>1, <1>4, <1>5, IdleJobEffect DEF EntitiesTrue, Owes
  <2>1. e \in Rows
    BY DEF Rows
  <2>2. \A x \in Range(job.ready) : x.id = e => x.text = text[e]
    BY <1>3 DEF Inv, EntitiesTrue
  <2>3. QED
    BY <1>4, <2>1, <2>2 DEF Inv, EntitiesTrue
<1>12. QED
  BY <1>7, <1>8, <1>9, <1>10, <1>11 DEF Inv

\* The process is killed.
LEMMA CrashStep ==
    ASSUME Inv, Crash
    PROVE  Inv'
<1>1. /\ here' = here /\ text' = text /\ ver' = ver /\ of' = of /\ model' = model /\ over' = over
      /\ late' = late /\ rot' = rot /\ rt' = rt /\ pruning' = pruning
      /\ keys' = keys /\ cons' = cons /\ stores' = stores /\ runs' = runs /\ spoiled' = spoiled
      /\ job' = IdleJob /\ failures' \in 0..MaxFailures
  BY FailureCounted DEF Crash, db, ring
<1>2. TypeOK'
  BY <1>1, IdleJobEffect, BoundAssumption DEF Inv, TypeOK
<1>3. BatchInHand' /\ KeysHold' /\ PassedIsSettled'
  BY <1>1, IdleJobEffect DEF Inv, BatchInHand, KeysHold, Rotating, PassedIsSettled, Newest
<1>4. Turns' /\ EntitiesTrue'
  BY <1>1, IdleJobEffect, JobHolds DEF db, ring
<1>5. QED
  BY <1>2, <1>3, <1>4 DEF Inv

----------------------------------------------------------------------------
(* Key rotation.                                                           *)

\* An idle rotator.
LEMMA IdleRotatorEffect ==
    IdleRotator \in Rotator /\ IdleRotator.pc = "idle" /\ IdleRotator.to = 0
<1>1. 0 \in 0..MaxVersion
  BY BoundAssumption
<1>2. QED
  BY <1>1 DEF IdleRotator, Rotator

\* Only the rotation's own state has moved: nobody who reads notices.
LEMMA OnlyRotation ==
    ASSUME Inv, rot' \in Rotation, rt' \in [Rotators -> Rotator], pruning' \subseteq 1..MaxVersion,
           Rotating', \A r \in here \ late : \A v \in pruning' : v <= ver[r],
           UNCHANGED <<db, keys, job, cons, stores, failures, runs, spoiled>>
    PROVE  Inv'
<1>1. /\ here' = here /\ text' = text /\ ver' = ver /\ of' = of /\ model' = model /\ over' = over
      /\ late' = late /\ keys' = keys /\ job' = job /\ cons' = cons /\ stores' = stores
      /\ failures' = failures /\ runs' = runs /\ spoiled' = spoiled
  BY DEF db
<1>2. TypeOK'
  BY <1>1 DEF Inv, TypeOK
<1>3. BatchInHand' /\ PassedIsSettled'
  BY <1>1 DEF Inv, BatchInHand, PassedIsSettled, Settled
<1>4. KeysHold'
  BY <1>1 DEF Inv, KeysHold, Newest
<1>5. Turns' /\ EntitiesTrue'
  BY <1>1 DEF Inv, Turns, EntitiesTrue, Owes
<1>6. QED
  BY <1>2, <1>3, <1>4, <1>5 DEF Inv

\* The newest version, when another is added.
LEMMA OneMore ==
    ASSUME Inv, keys' = keys \cup {Newest + 1}, Newest < MaxVersion
    PROVE  /\ Newest + 1 \in 1..MaxVersion /\ keys' \subseteq 1..MaxVersion
           /\ Newest' = Newest + 1
<1>1. Newest \in keys /\ Newest \in 1..MaxVersion /\ \A v \in keys : v <= Newest
  BY NewestIsThere
<1>2. Newest + 1 \in 1..MaxVersion
  BY <1>1, BoundAssumption
<1>3. keys' \subseteq 1..MaxVersion /\ keys' # {}
  BY <1>2 DEF Inv, TypeOK
<1>4. Newest' \in keys' /\ \A v \in keys' : v <= Newest'
  BY <1>3, MaxIsThere, BoundAssumption DEF Newest
<1>5. Newest' \in Int /\ Newest' >= Newest + 1
  BY <1>3, <1>4
<1>6. QED
  BY <1>1, <1>2, <1>3, <1>4, <1>5

\* A new version; the rows stay under theirs.
LEMMA StartRotationStep ==
    ASSUME Inv, StartRotation
    PROVE  Inv'
<1>1. /\ here' = here /\ text' = text /\ ver' = ver /\ of' = of /\ model' = model /\ over' = over
      /\ late' = late /\ rt' = rt /\ pruning' = pruning
      /\ job' = job /\ cons' = cons /\ stores' = stores /\ failures' = failures
      /\ runs' = runs /\ spoiled' = spoiled
      /\ keys' = keys \cup {Newest + 1} /\ Newest < MaxVersion
  BY DEF StartRotation, Newest, db
<1>2. Newest \in keys /\ Newest \in 1..MaxVersion /\ \A v \in keys : v <= Newest
  BY NewestIsThere
<1>3. /\ Newest + 1 \in 1..MaxVersion /\ keys' \subseteq 1..MaxVersion
      /\ Newest' = Newest + 1
  BY <1>1, OneMore
<1>4. rot' \in Rotation /\ rot'.to <= Newest'
  <2>1. CASE rot' = rot
    BY <1>2, <1>3, <2>1 DEF Inv, TypeOK, Rotation, KeysHold, Rotating
  <2>2. CASE rot' = [status |-> "in_progress", from |-> Newest, to |-> Newest + 1, table |-> 1]
    BY <1>2, <1>3, <2>2 DEF Rotation
  <2>3. QED
    BY <2>1, <2>2 DEF StartRotation, Newest
<1>5. TypeOK'
  BY <1>1, <1>3, <1>4 DEF Inv, TypeOK
<1>6. KeysHold'
  <2>1. \A i \in DOMAIN job.todo : job.todo[i].ver \in Int
    BY SnapshotsInHand DEF Inv, TypeOK, Job
  <2>2. \A i \in DOMAIN job.todo : job.todo[i].ver <= Newest'
    BY <1>2, <1>3, <2>1 DEF Inv, KeysHold
  <2>3. job.pc = "refetch" => job.todo[1].ver \notin keys'
    <3>1. job.pc = "refetch" => 1 \in DOMAIN job.todo
      BY TailOf DEF Inv, BatchInHand, TypeOK, Job
    <3>2. QED
      BY <1>1, <1>2, <2>1, <3>1 DEF Inv, KeysHold
  <2>4. Rotating'
    <3>1. \A v \in pruning : v \in Int /\ v <= Newest
      BY DEF Inv, TypeOK, KeysHold, Rotating
    <3>2. \A q \in Rotators : rt[q].to \in Int /\ rt[q].to <= Newest
                              /\ (rt[q].pc # "idle" => rt[q].to >= 1)
      BY DEF Inv, TypeOK, Rotator, KeysHold, Rotating
    <3>3. QED
      BY <1>1, <1>2, <1>3, <1>4, <3>1, <3>2 DEF Rotating
  <2>5. \A r \in Rows : ver[r] <= Newest'
    BY <1>2, <1>3 DEF Inv, TypeOK, KeysHold
  <2>6. QED
    BY <1>1, <2>2, <2>3, <2>4, <2>5 DEF Inv, KeysHold
<1>7. BatchInHand' /\ PassedIsSettled'
  BY <1>1 DEF Inv, BatchInHand, PassedIsSettled, Settled
<1>8. Turns' /\ EntitiesTrue'
  BY <1>1 DEF Inv, Turns, EntitiesTrue, Owes
<1>9. QED
  BY <1>5, <1>6, <1>7, <1>8 DEF Inv

\* A rotator moves on, to a version it had or the row's.
LEMMA RotatorMoves ==
    ASSUME Inv, NEW q \in Rotators, NEW z \in Rotator, rt' = [rt EXCEPT ![q] = z],
           z.to <= Newest, z.pc # "idle" => z.to >= 1,
           rot' \in Rotation, rot'.to = rot.to,
           UNCHANGED <<db, keys, pruning, job, cons, stores, failures, runs, spoiled>>
    PROVE  Inv'
<1>1. rt' \in [Rotators -> Rotator] /\ pruning' \subseteq 1..MaxVersion
  BY DEF Inv, TypeOK
<1>2. Rotating'
  BY DEF Inv, TypeOK, KeysHold, Rotating, Newest
<1>3. \A r \in here \ late : \A v \in pruning' : v <= ver[r]
  BY DEF Inv, KeysHold
<1>4. QED
  BY <1>1, <1>2, <1>3, OnlyRotation

\* What a rotator is.
LEMMA TheRotator ==
    ASSUME Inv, NEW q \in Rotators
    PROVE  /\ rt[q] \in Rotator /\ rt[q].to \in 0..MaxVersion /\ rt[q].to <= Newest
           /\ rt[q].pc # "idle" => rt[q].to >= 1
           /\ rt[q].table \in 1..4 /\ rt[q].got \subseteq Snapshot
           /\ rot \in Rotation /\ rot.to \in 0..MaxVersion /\ rot.to <= Newest
           /\ Newest \in 1..MaxVersion
BY NewestIsThere DEF Inv, TypeOK, Rotator, Rotation, KeysHold, Rotating

\* The row is read.
LEMMA ContinueStep ==
    ASSUME Inv, NEW q \in Rotators, Continue(q)
    PROVE  Inv'
<1>1. rot.to \in keys /\ rot.to >= 1
  <2>1. rot.to \in keys
    BY DEF Continue
  <2>2. keys \subseteq 1..MaxVersion
    BY Zenon DEF Inv, TypeOK
  <2>3. \A n \in keys : n >= 1
    BY <2>2, BoundAssumption
  <2>4. QED
    BY <2>1, <2>3, Zenon
<1>2. PICK z : z = [pc |-> "batch", from |-> rot.from, to |-> rot.to, table |-> rot.table,
                    got |-> {}]
  OBVIOUS
<1>3. /\ rt' = [rt EXCEPT ![q] = z] /\ rot' = rot
      /\ UNCHANGED <<db, keys, pruning, job, cons, stores, failures, runs, spoiled>>
  BY <1>2 DEF Continue
<1>4. z \in Rotator /\ z.to <= Newest /\ z.to >= 1
  BY <1>1, <1>2, TheRotator DEF Rotator, Rotation
<1>5. rot' \in Rotation /\ rot'.to = rot.to
  BY <1>3, TheRotator
<1>6. QED
  BY <1>3, <1>4, <1>5, RotatorMoves

\* A batch is read.
LEMMA ReadBatchStep ==
    ASSUME Inv, NEW q \in Rotators, ReadBatch(q)
    PROVE  Inv'
<1>1. PICK B \in SUBSET ToMigrate(q) :
         rt' = [rt EXCEPT ![q].pc = "update", ![q].got = {Row(r) : r \in B}]
  BY DEF ReadBatch
<1>2. PICK G : G = {Row(r) : r \in B}
  OBVIOUS
<1>3. B \subseteq Rows
  BY DEF ToMigrate, Inv, TypeOK
<1>4. \A r \in Rows : Row(r) \in Snapshot
  BY DEF Inv, TypeOK, Row, Snapshot
<1>5. G \subseteq Snapshot
  BY <1>2, <1>3, <1>4
<1>6. PICK z : z = [rt[q] EXCEPT !.pc = "update", !.got = G]
  OBVIOUS
<1>7. rt[q] \in Rotator /\ rt \in [Rotators -> Rotator] /\ rt[q].pc = "batch"
  BY DEF Inv, TypeOK, ReadBatch
<1>8. rt' = [rt EXCEPT ![q] = z]
  BY <1>1, <1>2, <1>6
<1>9. z \in Rotator /\ z.to = rt[q].to
  BY <1>5, <1>6, <1>7 DEF Rotator
<1>10. z.to <= Newest /\ z.to >= 1
  BY <1>7, <1>9, TheRotator
<1>11. rot' \in Rotation /\ rot'.to = rot.to
  BY TheRotator DEF ReadBatch
<1>12. UNCHANGED <<db, keys, pruning, job, cons, stores, failures, runs, spoiled>>
  BY DEF ReadBatch
<1>13. QED
  BY <1>8, <1>9, <1>10, <1>11, <1>12, RotatorMoves

\* The next table.
LEMMA NextTableStep ==
    ASSUME Inv, NEW q \in Rotators, NextTable(q)
    PROVE  Inv'
<1>1. /\ rt[q].pc = "batch" /\ rt[q].table < 4 /\ rt[q].table \in 1..4
      /\ rt[q] \in Rotator /\ rt \in [Rotators -> Rotator] /\ rot \in Rotation
  BY TheRotator DEF NextTable, Inv, TypeOK
<1>2. PICK t \in 1..4 : t = rt[q].table + 1
  BY <1>1
<1>3. PICK z : z = [rt[q] EXCEPT !.table = t]
  OBVIOUS
<1>4. /\ rt' = [rt EXCEPT ![q] = z] /\ rot' = [rot EXCEPT !.table = t]
      /\ UNCHANGED <<db, keys, pruning, job, cons, stores, failures, runs, spoiled>>
  BY <1>1, <1>2, <1>3 DEF NextTable
<1>5. z \in Rotator /\ z.to = rt[q].to
  BY <1>1, <1>2, <1>3 DEF Rotator
<1>6. z.to <= Newest /\ z.to >= 1
  BY <1>1, <1>5, TheRotator
<1>7. rot' \in Rotation /\ rot'.to = rot.to
  BY <1>1, <1>2, <1>4 DEF Rotation
<1>8. QED
  BY <1>4, <1>5, <1>6, <1>7, RotatorMoves

\* The rotation is completed.
LEMMA MarkCompletedStep ==
    ASSUME Inv, NEW q \in Rotators, MarkCompleted(q)
    PROVE  Inv'
<1>1. /\ rt' = [rt EXCEPT ![q] = IdleRotator] /\ rot' = [rot EXCEPT !.status = "completed"]
      /\ UNCHANGED <<db, keys, pruning, job, cons, stores, failures, runs, spoiled>>
  BY DEF MarkCompleted
<1>2. rot' \in Rotation /\ rot'.to = rot.to
  BY <1>1, TheRotator DEF Rotation
<1>3. IdleRotator.to <= Newest
  BY IdleRotatorEffect, TheRotator
<1>4. QED
  BY <1>1, <1>2, <1>3, IdleRotatorEffect, RotatorMoves

\* The rotator dies.
LEMMA RotatorCrashStep ==
    ASSUME Inv, NEW q \in Rotators, RotatorCrash(q)
    PROVE  Inv'
<1>1. /\ rt' = [rt EXCEPT ![q] = IdleRotator] /\ rot' = rot
      /\ UNCHANGED <<db, keys, pruning, job, cons, stores, failures, runs, spoiled>>
  BY DEF RotatorCrash
<1>2. rot' \in Rotation /\ rot'.to = rot.to
  BY <1>1, TheRotator
<1>3. IdleRotator.to <= Newest
  BY IdleRotatorEffect, TheRotator
<1>4. QED
  BY <1>1, <1>2, <1>3, IdleRotatorEffect, RotatorMoves

\* A batch is written: its rows can be read unless it was overtaken, which makes
\* them late, and an entity whose text it has put back is spoiled.
LEMMA UpdateBatchStep ==
    ASSUME Inv, NEW q \in Rotators, UpdateBatch(q)
    PROVE  Inv'
<1>1. /\ here' = here /\ of' = of /\ model' = model /\ over' = over /\ keys' = keys
      /\ rot' = rot /\ pruning' = pruning /\ job' = job /\ cons' = cons /\ stores' = stores
      /\ failures' = failures /\ runs' = runs
      /\ rt[q].pc = "update" /\ rt' = [rt EXCEPT ![q] = IdleRotator]
  BY DEF UpdateBatch
<1> DEFINE G == rt[q].got
<1>2. PICK M, n : M = Migrated(q) /\ n = rt[q].to
  OBVIOUS
<1>3. /\ n \in 1..MaxVersion /\ n <= Newest /\ G \subseteq Snapshot
  BY <1>1, <1>2, TheRotator
<1>4. /\ ver' = [r \in Rows |-> IF r \in M THEN n ELSE ver[r]]
      /\ late' = (late \ M) \cup LateIn(M, n)
      /\ spoiled' = spoiled \cup {e \in Entities : text'[e] # text[e]}
  BY <1>2 DEF UpdateBatch
<1>5. M \subseteq Rows
  BY <1>2, <1>3 DEF Migrated, Snapshot, Rows
<1>6. text' \in [Rows -> Texts]
  <2>1. text' = [r \in Rows |-> IF \E x \in G : x.id = r
                               THEN (CHOOSE x \in G : x.id = r).text ELSE text[r]]
    BY DEF UpdateBatch
  <2>2. ASSUME NEW r \in Rows
        PROVE  (IF \E x \in G : x.id = r
                THEN (CHOOSE x \in G : x.id = r).text ELSE text[r]) \in Texts
    <3>1. CASE \E x \in G : x.id = r
      <4>1. PICK y : y = CHOOSE x \in G : x.id = r
        OBVIOUS
      <4>2. y \in G
        BY <3>1, <4>1
      <4>3. y.text \in Texts
        BY <1>3, <4>2 DEF Snapshot
      <4>4. QED
        BY <3>1, <4>1, <4>3
    <3>2. CASE ~\E x \in G : x.id = r
      BY <3>2 DEF Inv, TypeOK
    <3>3. QED
      BY <3>1, <3>2
  <2>3. QED
    BY <2>1, <2>2
<1> HIDE DEF G
<1>7. TypeOK'
  <2>1. ver' \in [Rows -> 1..MaxVersion]
    BY <1>3, <1>4 DEF Inv, TypeOK
  <2>2. late' \subseteq Rows /\ spoiled' \subseteq Entities
    BY <1>4, <1>5 DEF Inv, TypeOK, LateIn
  <2>3. rt' \in [Rotators -> Rotator]
    BY <1>1, IdleRotatorEffect DEF Inv, TypeOK
  <2>4. QED
    BY <1>1, <1>6, <2>1, <2>2, <2>3 DEF Inv, TypeOK
<1>8. KeysHold'
  <2>1. Newest' = Newest /\ Newest \in keys /\ Newest \in 1..MaxVersion
    BY <1>1, NewestIsThere DEF Newest
  <2>2. Rotating'
    BY <1>1, <2>1, IdleRotatorEffect DEF Inv, TypeOK, KeysHold, Rotating
  <2>3. \A r \in Rows : ver'[r] <= Newest
    BY <1>3, <1>4 DEF Inv, KeysHold
  <2>4. ASSUME NEW r \in here \ late'
        PROVE  ver'[r] \in keys /\ \A w \in pruning : w <= ver'[r]
    <3>1. r \in Rows
      BY DEF Inv, TypeOK
    <3>2. CASE r \in M
      <4>1. ~(n < Newest)
        BY <1>4, <3>2 DEF LateIn, Newest
      <4>2. ver'[r] = Newest
        BY <1>3, <1>4, <2>1, <3>1, <3>2, <4>1
      <4>3. QED
        BY <2>1, <4>2 DEF Inv, KeysHold, Rotating
    <3>3. CASE r \notin M
      BY <1>4, <3>1, <3>3 DEF Inv, KeysHold
    <3>4. QED
      BY <3>2, <3>3
  <2>5. QED
    BY <1>1, <2>1, <2>2, <2>3, <2>4 DEF Inv, KeysHold
<1>9. BatchInHand' /\ PassedIsSettled'
  BY <1>1 DEF Inv, BatchInHand, PassedIsSettled, Settled
<1>10. Turns'
  BY <1>1 DEF Inv, Turns
<1>11. EntitiesTrue'
  <2>1. \A e \in (Entities \cap here) \ spoiled' : text'[e] = text[e] /\ e \notin spoiled
    BY <1>4
  <2>2. QED
    BY <1>1, <2>1 DEF Inv, EntitiesTrue, Owes
<1>12. QED
  BY <1>7, <1>8, <1>9, <1>10, <1>11 DEF Inv

\* A prune has looked.
LEMMA CheckPruneStep ==
    ASSUME Inv, CheckPrune
    PROVE  Inv'
<1>1. /\ pruning' = pruning \cup {rot.to} /\ rot' = rot /\ rt' = rt
      /\ UNCHANGED <<db, keys, job, cons, stores, failures, runs, spoiled>>
  BY DEF CheckPrune
<1>2. rot.to \in 1..MaxVersion /\ rot.to <= Newest
  <2>1. PICK v \in keys : v < rot.to
    BY DEF CheckPrune
  <2>2. v \in 1..MaxVersion /\ rot.to \in 0..MaxVersion /\ rot.to <= Newest
    BY DEF Inv, TypeOK, Rotation, KeysHold, Rotating
  <2>3. QED
    BY <2>1, <2>2
<1>3. rot' \in Rotation /\ rt' \in [Rotators -> Rotator] /\ pruning' \subseteq 1..MaxVersion
  BY <1>1, <1>2 DEF Inv, TypeOK
<1>4. Rotating'
  BY <1>1, <1>2 DEF Inv, KeysHold, Rotating, Newest
<1>5. \A r \in here \ late : \A v \in pruning' : v <= ver[r]
  <2>1. \A r \in here : rot.to <= ver[r]
    BY <1>2 DEF CheckPrune, Inv, TypeOK
  <2>2. QED
    BY <1>1, <2>1 DEF Inv, KeysHold
<1>6. QED
  BY <1>1, <1>3, <1>4, <1>5, OnlyRotation

\* The versions below one no row in time uses are deleted; what the job holds may
\* have used them.
LEMMA PruneStep ==
    ASSUME Inv, Prune
    PROVE  Inv'
<1>1. /\ here' = here /\ text' = text /\ ver' = ver /\ of' = of /\ model' = model /\ over' = over
      /\ late' = late /\ rot' = rot /\ rt' = rt
      /\ cons' = cons /\ stores' = stores /\ failures' = failures
      /\ runs' = runs /\ spoiled' = spoiled
      /\ job' = [job EXCEPT !.prunes = IF job.todo = <<>> \/ keys' = keys THEN @ ELSE @ + 1]
  BY DEF Prune, db
<1>2. PICK v \in pruning : pruning' = pruning \ {v} /\ keys' = {k \in keys : k >= v}
  BY DEF Prune
<1>3. Newest \in keys /\ Newest \in 1..MaxVersion /\ \A w \in keys : w <= Newest
  BY NewestIsThere
<1>4. job \in Job /\ job.prunes \in Nat
  BY DEF Inv, TypeOK, Job
<1>5. PICK n \in Nat : /\ n = (IF job.todo = <<>> \/ keys' = keys THEN job.prunes ELSE job.prunes + 1)
                       /\ job' = [job EXCEPT !.prunes = n]
  <2>1. (IF job.todo = <<>> \/ keys' = keys THEN job.prunes ELSE job.prunes + 1) \in Nat
    BY <1>4
  <2>2. job' = [job EXCEPT !.prunes = IF job.todo = <<>> \/ keys' = keys
                                      THEN job.prunes ELSE job.prunes + 1]
    BY <1>1
  <2>3. QED
    BY <2>1, <2>2, Zenon
<1>6. /\ job' \in Job /\ job'.todo = job.todo /\ job'.ready = job.ready /\ job'.due = job.due
      /\ job'.prunes = n /\ job'.lost = job.lost /\ job'.late = job.late
      /\ job'.table = job.table /\ job'.pc = job.pc
  BY <1>4, <1>5 DEF Job
<1>7. keys' \subseteq keys /\ pruning' \subseteq pruning /\ v \in 1..MaxVersion /\ v <= Newest
  BY <1>2 DEF Inv, TypeOK, KeysHold, Rotating
<1>8. TypeOK'
  BY <1>1, <1>6, <1>7 DEF Inv, TypeOK
<1>9. Newest' = Newest /\ Newest \in keys'
  <2>1. Newest \in keys'
    BY <1>2, <1>3, <1>7
  <2>2. Newest' \in keys' /\ \A w \in keys' : w <= Newest'
    BY <1>8, <2>1, MaxIsThere, BoundAssumption DEF TypeOK, Newest
  <2>3. QED
    BY <1>3, <1>7, <1>8, <2>1, <2>2 DEF TypeOK
<1>10. KeysHold'
  <2>1. \A r \in here \ late : ver[r] \in keys' /\ \A w \in pruning' : w <= ver[r]
    BY <1>2, <1>7 DEF Inv, KeysHold
  <2>2. job.todo = <<>> => DOMAIN job.todo = {}
    BY IdleJobEffect
  <2>3. job.pc \in {"refetch", "rekey"} => job.todo # <<>>
    BY DEF Inv, BatchInHand
  <2>4. /\ n >= job.prunes
        /\ job.todo # <<>> /\ keys' # keys => n = job.prunes + 1
    BY <1>4, <1>5
  <2>5. \A i \in DOMAIN job.todo :
           job.todo[i].ver \in keys' \/ job.todo[i].late \/ n >= 1
    BY <1>4, <2>2, <2>4 DEF Inv, KeysHold
  <2>6. job.pc = "rekey" =>
           \/ job.todo[1].late
           \/ n >= 1 /\ (job.todo[1].ver \in keys' \/ n >= 2)
    BY <1>4, <2>3, <2>4 DEF Inv, KeysHold
  <2>7. Rotating'
    BY <1>1, <1>7, <1>9 DEF Inv, KeysHold, Rotating
  <2>8. job.lost => n >= 2 \/ job.late
    BY <1>4, <2>4 DEF Inv, KeysHold
  <2>9. QED
    BY <1>1, <1>6, <1>7, <1>9, <2>1, <2>5, <2>6, <2>7, <2>8 DEF Inv, KeysHold
<1>11. BatchInHand' /\ PassedIsSettled'
  BY <1>1, <1>6 DEF Inv, BatchInHand, PassedIsSettled, Settled
<1>12. Turns' /\ EntitiesTrue'
  BY <1>1, <1>6 DEF Inv, Turns, EntitiesTrue, Owes
<1>13. QED
  BY <1>8, <1>10, <1>11, <1>12 DEF Inv

----------------------------------------------------------------------------
(* Consolidation.                                                          *)

\* Nothing but consolidator c has moved.
OnlyCon(c) == \A d \in Consolidators \ {c} : cons'[d] = cons[d]

\* A step of a consolidator that writes no embedding leaves the job as it was.
LEMMA ConLeavesJob ==
    ASSUME Inv, cons' \in [Consolidators -> Con], UNCHANGED <<db, ring, job, stores, runs>>,
           failures' \in 0..MaxFailures, spoiled' \subseteq Entities
    PROVE  TypeOK' /\ BatchInHand' /\ KeysHold' /\ PassedIsSettled'
<1>1. /\ here' = here /\ text' = text /\ ver' = ver /\ of' = of /\ model' = model /\ over' = over
      /\ late' = late /\ rot' = rot /\ rt' = rt /\ pruning' = pruning
      /\ keys' = keys /\ job' = job /\ stores' = stores /\ runs' = runs
  BY DEF db, ring
<1>2. QED
  BY <1>1 DEF Inv, TypeOK, BatchInHand, KeysHold, Rotating, PassedIsSettled, Newest, Settled

\* One that writes the embeddings of S takes their rows off what the job has to do.
LEMMA ConWritesEffect ==
    ASSUME Inv, NEW c \in Consolidators, NEW S, ConWrites(c, S),
           \A x \in S : x.id \in Rows => x.text \in Texts,
           cons' \in [Consolidators -> Con], UNCHANGED <<ring, stores, failures, runs, spoiled>>
    PROVE  /\ TypeOK' /\ BatchInHand' /\ KeysHold' /\ PassedIsSettled'
           /\ \A r \in Rows :
                 \/ \E x \in S : x.id = r /\ of'[r] = x.text /\ model'[r] = ModelOf[c]
                 \/ (\A x \in S : x.id # r) /\ of'[r] = of[r] /\ model'[r] = model[r]
           /\ here' = here /\ text' = text /\ job'.todo = job.todo /\ job'.ready = job.ready
<1>1. ModelOf[c] \in Models
  BY RowAssumption
<1>2. /\ of' \in [Rows -> Texts] /\ model' \in [Rows -> Models \cup {NoModel}]
      /\ \A r \in Rows :
            \/ \E x \in S : x.id = r /\ of'[r] = x.text /\ model'[r] = ModelOf[c]
            \/ (\A x \in S : x.id # r) /\ of'[r] = of[r] /\ model'[r] = model[r]
      /\ here' = here /\ text' = text /\ ver' = ver /\ over' = over
      /\ late' = late /\ keys' = keys /\ rot' = rot /\ rt' = rt /\ pruning' = pruning
  BY <1>1, WriteEffect DEF ConWrites, ring
<1>3. /\ job' \in Job /\ job'.todo = job.todo /\ job'.ready = job.ready
      /\ job'.due = job.due \ {x.id : x \in S}
      /\ job'.prunes = job.prunes /\ job'.lost = job.lost /\ job'.late = job.late
      /\ job'.table = job.table /\ job'.pc = job.pc
  <2>1. job \in Job
    BY DEF Inv, TypeOK
  <2>2. PICK D : D = job.due \ {x.id : x \in S}
    OBVIOUS
  <2>3. job' = [job EXCEPT !.due = D] /\ D \subseteq job.due
    BY <2>2 DEF ConWrites
  <2>4. D \subseteq Rows
    BY <2>1, <2>3 DEF Job
  <2>5. QED
    BY <2>1, <2>2, <2>3, <2>4 DEF Job
<1>4. TypeOK'
  BY <1>2, <1>3 DEF Inv, TypeOK
<1>5. BatchInHand' /\ KeysHold'
  BY <1>2, <1>3 DEF Inv, BatchInHand, KeysHold, Rotating, Newest
<1>6. PassedIsSettled'
  <2>1. \A r \in job'.due : r \in Rows /\ (\A x \in S : x.id # r)
    BY <1>3 DEF Inv, TypeOK, Job
  <2>2. \A r \in job'.due : Settled(r) => Settled(r)'
    BY <1>2, <2>1 DEF Settled
  <2>3. QED
    BY <1>2, <1>3, <2>2 DEF Inv, PassedIsSettled
<1>7. QED
  BY <1>2, <1>3, <1>4, <1>5, <1>6

\* A step that writes no embedding: c still owes what it owed, unless that is
\* spoiled now, and holds nothing but what is stored.
LEMMA NothingWritten ==
    ASSUME Inv, NEW c \in Consolidators, OnlyCon(c), UNCHANGED <<db, job>>,
           spoiled \subseteq spoiled',
           \A i \in DOMAIN cons'[c].got :
              \/ i \in DOMAIN cons[c].got /\ cons'[c].got[i] = cons[c].got[i]
              \/ cons'[c].got[i].text = text[cons'[c].got[i].id],
           \A e \in Entities : Owes(c, e) => Owes(c, e)' \/ e \in spoiled'
    PROVE  EntitiesTrue'
<1>1. here' = here /\ text' = text /\ of' = of /\ model' = model /\ job' = job
  BY DEF db, ring
<1> SUFFICES ASSUME NEW e \in (Entities \cap here) \ spoiled'
             PROVE  /\ model[e] = NewModel /\ of[e] # text[e]
                          => \E d \in Consolidators : Owes(d, e)'
                    /\ \A i \in DOMAIN job.todo : job.todo[i].id = e => job.todo[i].text = text[e]
                    /\ \A i \in DOMAIN job.ready :
                          job.ready[i].id = e => job.ready[i].text = text[e]
                    /\ \A d \in Consolidators : \A i \in DOMAIN cons'[d].got :
                          cons'[d].got[i].id = e => cons'[d].got[i].text = text[e]
  BY <1>1 DEF EntitiesTrue
<1>2. \A d \in Consolidators : Owes(d, e) => Owes(d, e)'
  BY DEF Owes, OnlyCon
<1>3. \A d \in Consolidators : \A i \in DOMAIN cons'[d].got :
         cons'[d].got[i].id = e => cons'[d].got[i].text = text[e]
  BY DEF Inv, EntitiesTrue, OnlyCon
<1>4. QED
  BY <1>2, <1>3 DEF Inv, EntitiesTrue

\* A step that writes embeddings of texts that are stored: c owes what it owed
\* besides.
LEMMA StoredTextWritten ==
    ASSUME Inv, NEW c \in Consolidators, OnlyCon(c), NEW S, spoiled' = spoiled,
           \A r \in Rows :
              \/ \E x \in S : x.id = r /\ of'[r] = x.text /\ model'[r] = ModelOf[c]
              \/ (\A x \in S : x.id # r) /\ of'[r] = of[r] /\ model'[r] = model[r],
           here' = here, text' = text, job'.todo = job.todo, job'.ready = job.ready,
           \A x \in S : x.id \in (Entities \cap here) \ spoiled => x.text = text[x.id],
           cons'[c].got = cons[c].got \/ DOMAIN cons'[c].got = {},
           \A e \in Entities : Owes(c, e) => Owes(c, e)' \/ \E x \in S : x.id = e
    PROVE  EntitiesTrue'
<1> SUFFICES ASSUME NEW e \in (Entities \cap here) \ spoiled
             PROVE  /\ model'[e] = NewModel /\ of'[e] # text[e]
                          => \E d \in Consolidators : Owes(d, e)'
                    /\ \A i \in DOMAIN job.todo : job.todo[i].id = e => job.todo[i].text = text[e]
                    /\ \A i \in DOMAIN job.ready :
                          job.ready[i].id = e => job.ready[i].text = text[e]
                    /\ \A d \in Consolidators : \A i \in DOMAIN cons'[d].got :
                          cons'[d].got[i].id = e => cons'[d].got[i].text = text[e]
  BY DEF EntitiesTrue
<1>1. e \in Rows
  BY DEF Rows
<1>2. \A d \in Consolidators : \A i \in DOMAIN cons'[d].got :
         cons'[d].got[i].id = e => cons'[d].got[i].text = text[e]
  BY DEF Inv, EntitiesTrue, OnlyCon
<1>3. CASE \E x \in S : x.id = e
  <2>1. of'[e] = text[e]
    BY <1>1, <1>3
  <2>2. QED
    BY <1>2, <2>1 DEF Inv, EntitiesTrue
<1>4. CASE ~\E x \in S : x.id = e
  <2>1. of'[e] = of[e] /\ model'[e] = model[e]
    BY <1>1, <1>4
  <2>2. \A d \in Consolidators : Owes(d, e) => Owes(d, e)'
    BY <1>4 DEF Owes, OnlyCon
  <2>3. QED
    BY <1>2, <2>1, <2>2 DEF Inv, EntitiesTrue
<1>5. QED
  BY <1>3, <1>4

\* Whose turn it is, for the others.
LEMMA TurnsOfOthers ==
    ASSUME Inv, NEW c \in Consolidators, OnlyCon(c),
           /\ cons'[c].got # <<>> <=> cons'[c].pc \in {"key", "write"}
           /\ cons'[c].got # <<>> => Len(cons'[c].got) = 1
           /\ \A i \in DOMAIN cons'[c].got : cons'[c].got[i].id \in Entities
           /\ cons'[c].pc \in {"summary", "entity", "key", "write"} =>
                 cons'[c].ids \subseteq Entities
           /\ cons'[c].pc \in {"idle", "store", "facts", "episodes"} => cons'[c].ids = {}
           /\ cons'[c].pc = "store" => cons'[c].ver >= 1
           /\ cons'[c].pc = "episode" => cons'[c].ids \subseteq Episodes
    PROVE  Turns'
BY DEF Inv, Turns, OnlyCon

\* A stored row, read.
LEMMA RowIsSnapshot ==
    ASSUME Inv, NEW r \in Rows
    PROVE  Row(r) \in Snapshot /\ Row(r).id = r /\ Row(r).text = text[r] /\ text[r] \in Texts
BY DEF Inv, TypeOK, Row, Snapshot

\* An idle consolidator.
LEMMA IdleConEffect ==
    /\ IdleCon \in Con /\ IdleCon.pc = "idle" /\ ~IdleCon.last /\ IdleCon.ids = {}
    /\ IdleCon.got = <<>> /\ DOMAIN <<>> = {}
<1>1. 0 \in 0..MaxVersion
  BY BoundAssumption
<1>2. QED
  BY <1>1 DEF IdleCon, Con

\* An entity is read back.
LEMMA ReadEntityStep ==
    ASSUME Inv, NEW c \in Consolidators, ReadEntity(c)
    PROVE  Inv'
<1>1. PICK e \in cons[c].ids :
         cons' = [cons EXCEPT ![c].pc = "key", ![c].got = <<Row(e)>>, ![c].ids = @ \ {e}]
  BY DEF ReadEntity
<1>2. /\ cons[c].pc = "entity" /\ UNCHANGED <<db, ring, job, stores, failures, runs, spoiled>>
      /\ cons \in [Consolidators -> Con] /\ cons[c] \in Con /\ e \in Rows
  BY DEF ReadEntity, Inv, TypeOK, Con
<1>3. Row(e) \in Snapshot /\ Row(e).id = e /\ Row(e).text = text[e]
  BY <1>2, RowIsSnapshot
<1>4. <<Row(e)>> \in Seq(Snapshot) /\ <<Row(e)>> # <<>> /\ Len(<<Row(e)>>) = 1
      /\ DOMAIN <<Row(e)>> = {1} /\ <<Row(e)>>[1] = Row(e)
  BY <1>3
<1>5. /\ cons'[c].pc = "key" /\ cons'[c].got = <<Row(e)>> /\ cons'[c].ids = cons[c].ids \ {e}
      /\ cons'[c].last = cons[c].last /\ OnlyCon(c)
      /\ cons' \in [Consolidators -> Con]
  BY <1>1, <1>2, <1>4 DEF Con, OnlyCon
<1>6. TypeOK' /\ BatchInHand' /\ KeysHold' /\ PassedIsSettled'
  BY <1>2, <1>5, ConLeavesJob DEF Inv, TypeOK
<1>7. Turns'
  <2>1. cons[c].ids \subseteq Entities
    BY <1>2 DEF Inv, Turns
  <2>2. QED
    BY <1>3, <1>4, <1>5, <2>1, TurnsOfOthers
<1>8. EntitiesTrue'
  <2>1. \A f \in Entities : Owes(c, f) => Owes(c, f)'
    <3>1. cons[c].got = <<>>
      BY <1>2 DEF Inv, Turns
    <3>2. QED
      BY <1>3, <1>4, <1>5, <3>1, IdleConEffect DEF Owes
  <2>2. QED
    BY <1>2, <1>3, <1>4, <1>5, <2>1, NothingWritten
<1>9. QED
  BY <1>6, <1>7, <1>8 DEF Inv

\* It is decrypted and embedded.
LEMMA EmbedEntityStep ==
    ASSUME Inv, NEW c \in Consolidators, EmbedEntity(c)
    PROVE  Inv'
<1>1. /\ cons' = [cons EXCEPT ![c].pc = "write"] /\ cons[c].pc = "key"
      /\ UNCHANGED <<db, ring, job, stores, failures, runs, spoiled>>
      /\ cons \in [Consolidators -> Con] /\ cons[c] \in Con
  BY DEF EmbedEntity, Inv, TypeOK
<1>2. /\ cons'[c].pc = "write" /\ cons'[c].got = cons[c].got /\ cons'[c].ids = cons[c].ids
      /\ cons'[c].last = cons[c].last /\ OnlyCon(c)
      /\ cons' \in [Consolidators -> Con]
  BY <1>1 DEF Con, OnlyCon
<1>3. TypeOK' /\ BatchInHand' /\ KeysHold' /\ PassedIsSettled'
  BY <1>1, <1>2, ConLeavesJob DEF Inv, TypeOK
<1>4. Turns'
  BY <1>1, <1>2, TurnsOfOthers DEF Inv, Turns
<1>5. EntitiesTrue'
  <2>1. \A f \in Entities : Owes(c, f) => Owes(c, f)'
    BY <1>2 DEF Owes
  <2>2. QED
    BY <1>1, <1>2, <2>1, NothingWritten
<1>6. QED
  BY <1>3, <1>4, <1>5 DEF Inv

\* A step of c that writes the embeddings of rows as they are stored.
LEMMA StoredRowsWritten ==
    ASSUME Inv, NEW c \in Consolidators, OnlyCon(c), NEW S, ConWrites(c, S),
           \A x \in S : \E r : x = Row(r),
           cons' \in [Consolidators -> Con], UNCHANGED <<ring, stores, failures, runs, spoiled>>,
           cons'[c].got = cons[c].got,
           \A e \in Entities : Owes(c, e) => Owes(c, e)',
           Turns'
    PROVE  Inv'
<1>1. \A x \in S : x.id \in Rows => x.text \in Texts /\ x.text = text[x.id]
  BY DEF Inv, TypeOK, Row
<1>2. /\ TypeOK' /\ BatchInHand' /\ KeysHold' /\ PassedIsSettled'
      /\ \A r \in Rows :
            \/ \E x \in S : x.id = r /\ of'[r] = x.text /\ model'[r] = ModelOf[c]
            \/ (\A x \in S : x.id # r) /\ of'[r] = of[r] /\ model'[r] = model[r]
      /\ here' = here /\ text' = text /\ job'.todo = job.todo /\ job'.ready = job.ready
  BY <1>1, ConWritesEffect
<1>3. EntitiesTrue'
  <2>1. \A x \in S : x.id \in (Entities \cap here) \ spoiled => x.text = text[x.id]
    BY <1>1 DEF Rows
  <2>2. spoiled' = spoiled
    OBVIOUS
  <2>3. QED
    BY <1>2, <2>1, <2>2, StoredTextWritten
<1>4. QED
  BY <1>2, <1>3 DEF Inv

\* A step of c that fails and is logged.
LEMMA LoggedKeeps ==
    ASSUME Inv, NEW c \in Consolidators, OnlyCon(c), Logged,
           cons' \in [Consolidators -> Con], UNCHANGED <<ring, stores, runs, spoiled>>,
           cons'[c].got = cons[c].got,
           \A e \in Entities : Owes(c, e) => Owes(c, e)',
           Turns'
    PROVE  Inv'
<1>1. failures' \in 0..MaxFailures /\ UNCHANGED <<db, job>> /\ spoiled' \subseteq Entities
      /\ spoiled' = spoiled
  BY FailureCounted DEF Logged, Inv, TypeOK
<1>2. TypeOK' /\ BatchInHand' /\ KeysHold' /\ PassedIsSettled'
  BY <1>1, ConLeavesJob
<1>3. EntitiesTrue'
  BY <1>1, NothingWritten
<1>4. QED
  BY <1>2, <1>3 DEF Inv

\* It is passed over: the entity c has just changed is spoiled.
LEMMA EntityFailsStep ==
    ASSUME Inv, NEW c \in Consolidators, EntityFails(c)
    PROVE  Inv'
<1>1. /\ cons[c].pc \in {"key", "write"} /\ UNCHANGED <<db, ring, job, stores, runs>>
      /\ cons' = [cons EXCEPT ![c].pc = "entity", ![c].got = <<>>]
      /\ cons \in [Consolidators -> Con] /\ cons[c] \in Con
  BY DEF EntityFails, Logged, Inv, TypeOK
<1>2. failures' \in 0..MaxFailures
  BY FailureCounted DEF EntityFails, Logged, Inv, TypeOK
<1>3. /\ cons'[c].pc = "entity" /\ cons'[c].got = <<>> /\ cons'[c].ids = cons[c].ids
      /\ cons'[c].last = cons[c].last /\ OnlyCon(c)
      /\ cons' \in [Consolidators -> Con]
  <2>1. <<>> \in Seq(Snapshot)
    OBVIOUS
  <2>2. /\ cons'[c] = [cons[c] EXCEPT !.pc = "entity", !.got = <<>>] /\ OnlyCon(c)
        /\ cons' \in [Consolidators -> {cons[d] : d \in Consolidators} \cup {cons'[c]}]
    BY <1>1 DEF OnlyCon
  <2>3. /\ cons'[c] \in Con /\ cons'[c].pc = "entity" /\ cons'[c].got = <<>>
        /\ cons'[c].ids = cons[c].ids /\ cons'[c].last = cons[c].last
    BY <1>1, <2>1, <2>2 DEF Con
  <2>4. cons' \in [Consolidators -> Con]
    BY <1>1, <2>2, <2>3
  <2>5. QED
    BY <2>2, <2>3, <2>4
<1>4. /\ cons[c].got \in Seq(Snapshot) /\ cons[c].got # <<>> /\ Len(cons[c].got) = 1
      /\ DOMAIN cons[c].got = {1} /\ Head(cons[c].got) = cons[c].got[1]
  BY <1>1, TailOf DEF Inv, Turns, Con
<1>5. /\ spoiled' = (IF cons[c].last THEN spoiled ELSE spoiled \cup {cons[c].got[1].id})
  BY <1>4 DEF EntityFails
<1>6. cons[c].got[1].id \in Entities /\ cons[c].ids \subseteq Entities
  BY <1>1, <1>4 DEF Inv, Turns
<1>7. spoiled' \subseteq Entities
  BY <1>4, <1>5, <1>6 DEF Inv, TypeOK
<1>8. TypeOK' /\ BatchInHand' /\ KeysHold' /\ PassedIsSettled'
  BY <1>1, <1>2, <1>3, <1>7, ConLeavesJob
<1>9. Turns'
  BY <1>3, <1>6, IdleConEffect, TurnsOfOthers
<1>10. EntitiesTrue'
  <2>1. \A f \in Entities : Owes(c, f) => Owes(c, f)' \/ f \in spoiled'
    BY <1>3, <1>4, <1>5 DEF Owes
  <2>2. spoiled \subseteq spoiled'
    BY <1>5
  <2>3. QED
    BY <1>1, <1>3, <2>1, <2>2, IdleConEffect, NothingWritten
<1>11. QED
  BY <1>8, <1>9, <1>10 DEF Inv

\* Its embedding is written.
LEMMA WriteEntityStep ==
    ASSUME Inv, NEW c \in Consolidators, WriteEntity(c)
    PROVE  Inv'
<1>1. /\ cons[c].pc = "write" /\ UNCHANGED <<ring, stores, failures, runs, spoiled>>
      /\ cons' = [cons EXCEPT ![c].pc = "entity", ![c].got = <<>>]
      /\ ConWrites(c, Range(cons[c].got))
      /\ cons \in [Consolidators -> Con] /\ cons[c] \in Con
  BY DEF WriteEntity, Inv, TypeOK
<1>2. /\ cons'[c].pc = "entity" /\ cons'[c].got = <<>> /\ cons'[c].ids = cons[c].ids
      /\ cons'[c].last = cons[c].last /\ OnlyCon(c)
      /\ cons' \in [Consolidators -> Con]
  <2>1. <<>> \in Seq(Snapshot)
    OBVIOUS
  <2>2. /\ cons'[c] = [cons[c] EXCEPT !.pc = "entity", !.got = <<>>] /\ OnlyCon(c)
        /\ cons' \in [Consolidators -> {cons[d] : d \in Consolidators} \cup {cons'[c]}]
    BY <1>1 DEF OnlyCon
  <2>3. /\ cons'[c] \in Con /\ cons'[c].pc = "entity" /\ cons'[c].got = <<>>
        /\ cons'[c].ids = cons[c].ids /\ cons'[c].last = cons[c].last
    BY <1>1, <2>1, <2>2 DEF Con
  <2>4. cons' \in [Consolidators -> Con]
    BY <1>1, <2>2, <2>3
  <2>5. QED
    BY <2>2, <2>3, <2>4
<1>3. \A x \in Range(cons[c].got) :
         x.text \in Texts /\ \E i \in DOMAIN cons[c].got : x = cons[c].got[i]
  <2>1. cons[c].got \in Seq(Snapshot)
    BY <1>1 DEF Con
  <2>2. QED
    BY <2>1, SnapshotsInHand DEF Range
<1>4. /\ TypeOK' /\ BatchInHand' /\ KeysHold' /\ PassedIsSettled'
      /\ \A r \in Rows :
            \/ \E x \in Range(cons[c].got) : x.id = r /\ of'[r] = x.text /\ model'[r] = ModelOf[c]
            \/ /\ \A x \in Range(cons[c].got) : x.id # r
               /\ of'[r] = of[r] /\ model'[r] = model[r]
      /\ here' = here /\ text' = text /\ job'.todo = job.todo /\ job'.ready = job.ready
  BY <1>1, <1>2, <1>3, ConWritesEffect
<1>5. Turns'
  <2>1. cons[c].ids \subseteq Entities
    BY <1>1 DEF Inv, Turns
  <2>2. QED
    BY <1>2, <2>1, IdleConEffect, TurnsOfOthers
<1>6. EntitiesTrue'
  <2>1. \A f \in Entities : Owes(c, f) => Owes(c, f)' \/ \E x \in Range(cons[c].got) : x.id = f
    BY <1>2 DEF Owes, Range
  <2>2. \A x \in Range(cons[c].got) :
           x.id \in (Entities \cap here) \ spoiled => x.text = text[x.id]
    BY <1>3 DEF Inv, EntitiesTrue
  <2>3. cons'[c].got = cons[c].got \/ DOMAIN cons'[c].got = {}
    BY <1>2, IdleConEffect
  <2>4. spoiled' = spoiled
    BY <1>1
  <2>5. QED
    BY <1>2, <1>4, <2>1, <2>2, <2>3, <2>4, StoredTextWritten
<1>7. QED
  BY <1>4, <1>5, <1>6 DEF Inv

\* The summary is embedded, or that fails and is logged.
LEMMA EmbedSummaryStep ==
    ASSUME Inv, NEW c \in Consolidators, EmbedSummary(c)
    PROVE  Inv'
<1>1. /\ cons[c].pc = "summary" /\ UNCHANGED <<ring, stores, runs, spoiled>>
      /\ cons' = [cons EXCEPT ![c].pc = "entity"]
      /\ cons \in [Consolidators -> Con] /\ cons[c] \in Con
  BY DEF EmbedSummary, Inv, TypeOK
<1>2. /\ cons'[c].pc = "entity" /\ cons'[c].got = cons[c].got /\ cons'[c].ids = cons[c].ids
      /\ cons'[c].last = cons[c].last /\ OnlyCon(c)
      /\ cons' \in [Consolidators -> Con]
  BY <1>1 DEF Con, OnlyCon
<1>3. Turns'
  BY <1>1, <1>2, TurnsOfOthers DEF Inv, Turns
<1>4. \A f \in Entities : Owes(c, f) => Owes(c, f)'
  BY <1>2 DEF Owes
<1>5. CASE ConWrites(c, {Row(cons[c].sum)}) /\ UNCHANGED failures
  BY <1>1, <1>2, <1>3, <1>4, <1>5, StoredRowsWritten
<1>6. CASE Logged
  BY <1>1, <1>2, <1>3, <1>4, <1>6, LoggedKeeps
<1>7. QED
  BY <1>5, <1>6 DEF EmbedSummary

\* So are its key facts.
LEMMA EmbedKeyFactsStep ==
    ASSUME Inv, NEW c \in Consolidators, EmbedKeyFacts(c)
    PROVE  Inv'
<1>1. /\ cons[c].pc = "facts" /\ UNCHANGED <<ring, stores, runs, spoiled>>
      /\ cons \in [Consolidators -> Con] /\ cons[c] \in Con
  BY DEF EmbedKeyFacts, Inv, TypeOK
<1>2. cons[c].got = <<>> /\ cons[c].ids = {}
  BY <1>1 DEF Inv, Turns
<1>3. /\ cons'[c].pc \in {"episodes", "idle"} /\ cons'[c].got = <<>> /\ cons'[c].ids = {}
      /\ OnlyCon(c) /\ cons' \in [Consolidators -> Con]
  <2>1. PICK p \in {"episodes", "idle"} : cons' = [cons EXCEPT ![c] = [IdleCon EXCEPT !.pc = p]]
    BY DEF EmbedKeyFacts
  <2>2. PICK k : /\ k \in Con /\ k.pc = p /\ k.got = <<>> /\ k.ids = {}
                 /\ cons' = [cons EXCEPT ![c] = k]
    <3>1. /\ [IdleCon EXCEPT !.pc = p] \in Con /\ [IdleCon EXCEPT !.pc = p].pc = p
          /\ [IdleCon EXCEPT !.pc = p].got = <<>> /\ [IdleCon EXCEPT !.pc = p].ids = {}
      BY IdleConEffect DEF Con
    <3>2. QED
      BY <2>1, <3>1
  <2>3. QED
    BY <1>1, <2>2 DEF OnlyCon
<1>4. Turns'
  BY <1>3, IdleConEffect, TurnsOfOthers
<1>5. \A f \in Entities : Owes(c, f) => Owes(c, f)'
  BY <1>2, IdleConEffect DEF Owes
<1>6. CASE ConWrites(c, {Row(f) : f \in FactsOf[cons[c].sum]}) /\ UNCHANGED failures
  <2>1. \A x \in {Row(f) : f \in FactsOf[cons[c].sum]} : \E f : x = Row(f)
    OBVIOUS
  <2>2. QED
    BY <1>1, <1>2, <1>3, <1>4, <1>5, <1>6, <2>1, StoredRowsWritten
<1>7. CASE Logged
  BY <1>1, <1>2, <1>3, <1>4, <1>5, <1>7, LoggedKeeps
<1>8. QED
  BY <1>6, <1>7 DEF EmbedKeyFacts

\* Consolidator c becomes k.
LEMMA ConBecomes ==
    ASSUME Inv, NEW c \in Consolidators, NEW k \in Con, cons' = [cons EXCEPT ![c] = k]
    PROVE  cons' \in [Consolidators -> Con] /\ cons'[c] = k /\ OnlyCon(c)
BY DEF Inv, TypeOK, OnlyCon

\* The entities are done.
LEMMA EntitiesEmbeddedStep ==
    ASSUME Inv, NEW c \in Consolidators, EntitiesEmbedded(c)
    PROVE  Inv'
<1>1. /\ cons[c].pc = "entity" /\ cons[c].ids = {}
      /\ UNCHANGED <<db, ring, job, stores, failures, runs, spoiled>>
      /\ cons[c] \in Con
  BY DEF EntitiesEmbedded, Inv, TypeOK
<1>2. cons[c].got = <<>>
  BY <1>1 DEF Inv, Turns
<1>3. PICK k : /\ k \in Con /\ k.pc \in {"idle", "facts"} /\ k.ids = {} /\ k.got = <<>>
               /\ cons' = [cons EXCEPT ![c] = k]
  <2>1. CASE cons[c].last
    BY <2>1, IdleConEffect DEF EntitiesEmbedded
  <2>2. CASE ~cons[c].last
    <3>1. cons' = [cons EXCEPT ![c] = [cons[c] EXCEPT !.pc = "facts"]]
      BY <2>2 DEF EntitiesEmbedded
    <3>2. /\ [cons[c] EXCEPT !.pc = "facts"] \in Con
          /\ [cons[c] EXCEPT !.pc = "facts"].pc = "facts"
          /\ [cons[c] EXCEPT !.pc = "facts"].ids = {}
          /\ [cons[c] EXCEPT !.pc = "facts"].got = <<>>
      BY <1>1, <1>2 DEF Con
    <3>3. QED
      BY <3>1, <3>2
  <2>3. QED
    BY <2>1, <2>2
<1>4. cons' \in [Consolidators -> Con] /\ cons'[c] = k /\ OnlyCon(c)
  BY <1>3, ConBecomes
<1>5. TypeOK' /\ BatchInHand' /\ KeysHold' /\ PassedIsSettled'
  BY <1>1, <1>4, ConLeavesJob DEF Inv, TypeOK
<1>6. Turns'
  BY <1>3, <1>4, IdleConEffect, TurnsOfOthers
<1>7. \A f \in Entities : ~Owes(c, f)
  BY <1>1, <1>2, IdleConEffect DEF Owes
<1>8. EntitiesTrue'
  BY <1>1, <1>3, <1>4, <1>7, IdleConEffect, NothingWritten
<1>9. QED
  BY <1>5, <1>6, <1>8 DEF Inv

\* The episodes are selected.
LEMMA SelectEpisodesStep ==
    ASSUME Inv, NEW c \in Consolidators, SelectEpisodes(c)
    PROVE  Inv'
<1>1. PICK P : P = pending(2, ModelOf[c])
  OBVIOUS
<1>2. /\ cons[c].pc = "episodes" /\ cons' = [cons EXCEPT ![c].pc = "episode", ![c].ids = P]
      /\ UNCHANGED <<db, ring, job, stores, failures, runs, spoiled>>
      /\ cons \in [Consolidators -> Con] /\ cons[c] \in Con
  BY <1>1 DEF SelectEpisodes, Inv, TypeOK
<1>3. P \subseteq Episodes /\ P \subseteq Rows
  BY <1>1 DEF pending, TableRows, Rows
<1>4. cons[c].got = <<>> /\ cons[c].ids = {}
  BY <1>2 DEF Inv, Turns
<1>5. /\ cons'[c].pc = "episode" /\ cons'[c].got = <<>> /\ cons'[c].ids = P
      /\ OnlyCon(c) /\ cons' \in [Consolidators -> Con]
  BY <1>2, <1>3, <1>4 DEF Con, OnlyCon
<1>6. TypeOK' /\ BatchInHand' /\ KeysHold' /\ PassedIsSettled'
  BY <1>2, <1>5, ConLeavesJob DEF Inv, TypeOK
<1>7. Turns'
  BY <1>3, <1>5, IdleConEffect, TurnsOfOthers
<1>8. \A f \in Entities : ~Owes(c, f)
  BY <1>4, IdleConEffect DEF Owes
<1>9. EntitiesTrue'
  BY <1>2, <1>5, <1>8, IdleConEffect, NothingWritten
<1>10. QED
  BY <1>6, <1>7, <1>9 DEF Inv

\* One of them is embedded, or the rest is given up.
LEMMA EmbedEpisodeStep ==
    ASSUME Inv, NEW c \in Consolidators, EmbedEpisode(c)
    PROVE  Inv'
<1>1. PICK e \in cons[c].ids :
         \/ ConWrites(c, {Row(e)}) /\ cons' = [cons EXCEPT ![c].ids = @ \ {e}]
            /\ UNCHANGED failures
         \/ Logged /\ cons' = [cons EXCEPT ![c].ids = {}]
  BY DEF EmbedEpisode
<1>2. /\ cons[c].pc = "episode" /\ UNCHANGED <<ring, stores, runs, spoiled>>
      /\ cons \in [Consolidators -> Con] /\ cons[c] \in Con
  BY DEF EmbedEpisode, Inv, TypeOK
<1>3. cons[c].got = <<>> /\ cons[c].ids \subseteq Episodes
  BY <1>2 DEF Inv, Turns
<1>4. \A f \in Entities : ~Owes(c, f)
  BY <1>3, IdleConEffect, RowAssumption DEF Owes
<1>5. CASE ConWrites(c, {Row(e)}) /\ cons' = [cons EXCEPT ![c].ids = @ \ {e}]
           /\ UNCHANGED failures
  <2>1. /\ cons'[c].pc = "episode" /\ cons'[c].got = <<>> /\ cons'[c].ids \subseteq Episodes
        /\ OnlyCon(c) /\ cons' \in [Consolidators -> Con]
    BY <1>2, <1>3, <1>5 DEF Con, OnlyCon
  <2>2. Turns'
    BY <2>1, IdleConEffect, TurnsOfOthers
  <2>3. \A x \in {Row(e)} : \E r : x = Row(r)
    OBVIOUS
  <2>4. UNCHANGED <<ring, stores, failures, runs, spoiled>> /\ cons'[c].got = cons[c].got
    BY <1>2, <1>3, <1>5, <2>1
  <2>5. \A f \in Entities : Owes(c, f) => Owes(c, f)'
    BY <1>4, Zenon
  <2>6. PICK S : S = {Row(e)}
    OBVIOUS
  <2>7. ConWrites(c, S)
    BY <1>5, <2>6 DEF ConWrites, WriteEmbeddings
  <2>8. \A x \in S : \E r : x = Row(r)
    BY <2>3, <2>6
  <2>9. OnlyCon(c) /\ cons' \in [Consolidators -> Con]
    BY <2>1, Zenon
  <2>10. QED
    BY <2>2, <2>4, <2>5, <2>7, <2>8, <2>9, StoredRowsWritten, Zenon
<1>6. CASE Logged /\ cons' = [cons EXCEPT ![c].ids = {}]
  <2>1. /\ cons'[c].pc = "episode" /\ cons'[c].got = <<>> /\ cons'[c].ids = {}
        /\ OnlyCon(c) /\ cons' \in [Consolidators -> Con]
    BY <1>2, <1>3, <1>6 DEF Con, OnlyCon
  <2>2. Turns'
    BY <2>1, IdleConEffect, TurnsOfOthers
  <2>3. QED
    BY <1>2, <1>3, <1>4, <1>6, <2>1, <2>2, LoggedKeeps
<1>7. QED
  BY <1>1, <1>5, <1>6

\* The entities nobody has embedded are next.
LEMMA EntitiesMissingEmbeddingsStep ==
    ASSUME Inv, NEW c \in Consolidators, EntitiesMissingEmbeddings(c)
    PROVE  Inv'
<1>1. PICK P : P = pending(3, ModelOf[c])
  OBVIOUS
<1>2. /\ cons[c].pc = "episode" /\ cons[c].ids = {}
      /\ cons' = [cons EXCEPT ![c].pc = "entity", ![c].last = TRUE, ![c].ids = P]
      /\ UNCHANGED <<db, ring, job, stores, failures, runs, spoiled>>
      /\ cons \in [Consolidators -> Con] /\ cons[c] \in Con
  BY <1>1 DEF EntitiesMissingEmbeddings, Inv, TypeOK
<1>3. P \subseteq Entities /\ P \subseteq Rows
  BY <1>1 DEF pending, TableRows, Rows
<1>4. cons[c].got = <<>>
  BY <1>2 DEF Inv, Turns
<1>5. /\ cons'[c].pc = "entity" /\ cons'[c].got = <<>> /\ cons'[c].ids = P
      /\ OnlyCon(c) /\ cons' \in [Consolidators -> Con]
  BY <1>2, <1>3, <1>4 DEF Con, OnlyCon
<1>6. TypeOK' /\ BatchInHand' /\ KeysHold' /\ PassedIsSettled'
  BY <1>2, <1>5, ConLeavesJob DEF Inv, TypeOK
<1>7. Turns'
  BY <1>3, <1>5, IdleConEffect, TurnsOfOthers
<1>8. \A f \in Entities : ~Owes(c, f)
  BY <1>2, <1>4, IdleConEffect DEF Owes
<1>9. EntitiesTrue'
  BY <1>2, <1>5, <1>8, IdleConEffect, NothingWritten
<1>10. QED
  BY <1>6, <1>7, <1>9 DEF Inv

\* The consolidator dies: what it owed is spoiled.
LEMMA ConCrashStep ==
    ASSUME Inv, NEW c \in Consolidators, ConCrash(c)
    PROVE  Inv'
<1>1. /\ UNCHANGED <<db, ring, job, stores, runs>> /\ cons' = [cons EXCEPT ![c] = IdleCon]
      /\ failures' \in 0..MaxFailures /\ cons[c] \in Con
  BY FailureCounted DEF ConCrash, Inv, TypeOK
<1>2. cons' \in [Consolidators -> Con] /\ cons'[c] = IdleCon /\ OnlyCon(c)
  BY <1>1, IdleConEffect, ConBecomes
<1>3. \A i \in DOMAIN cons[c].got : cons[c].got[i].id \in Entities
  BY DEF Inv, Turns
<1>4. spoiled' = IF cons[c].last THEN spoiled
                 ELSE spoiled \cup (Entities \cap cons[c].ids)
                        \cup {x.id : x \in Range(cons[c].got)}
  BY DEF ConCrash
<1>5. {x.id : x \in Range(cons[c].got)} = {cons[c].got[i].id : i \in DOMAIN cons[c].got}
  BY DEF Range
<1>6. spoiled' \subseteq Entities /\ spoiled \subseteq spoiled'
  BY <1>3, <1>4, <1>5 DEF Inv, TypeOK
<1>7. \A f \in Entities : Owes(c, f) => f \in spoiled'
  BY <1>4, <1>5 DEF Owes
<1>8. TypeOK' /\ BatchInHand' /\ KeysHold' /\ PassedIsSettled'
  BY <1>1, <1>2, <1>6, ConLeavesJob
<1>9. Turns'
  BY <1>2, IdleConEffect, TurnsOfOthers
<1>10. EntitiesTrue'
  BY <1>1, <1>2, <1>6, <1>7, IdleConEffect, NothingWritten
<1>11. QED
  BY <1>8, <1>9, <1>10 DEF Inv

\* A consolidator that has resolved version v, and one that has stored summary s.
Resolved(v) == [IdleCon EXCEPT !.pc = "store", !.ver = v]
Storing(s, E) == [IdleCon EXCEPT !.pc = "summary", !.sum = s, !.ids = E]

\* It is well formed, and has the entities to embed.
LEMMA StoringCon ==
    ASSUME NEW s \in Summaries, NEW E \in SUBSET Rows
    PROVE  /\ Storing(s, E) \in Con /\ Storing(s, E).pc = "summary"
           /\ ~Storing(s, E).last /\ Storing(s, E).ids = E
           /\ Storing(s, E).got = <<>>
BY IdleConEffect DEF Con, Storing, IdleCon

\* The key is resolved.
LEMMA ResolveKeyStep ==
    ASSUME Inv, NEW c \in Consolidators, ResolveKey(c)
    PROVE  Inv'
<1>1. /\ cons[c].pc = "idle" /\ UNCHANGED <<db, ring, job, failures, runs, spoiled>>
      /\ cons' = [cons EXCEPT ![c] = Resolved(Newest)] /\ stores' \in 0..MaxStores
      /\ failures' \in 0..MaxFailures
  BY BoundAssumption DEF ResolveKey, Resolved, Newest, Inv, TypeOK
<1>2. Newest \in 1..MaxVersion
  BY NewestIsThere
<1>3. PICK k \in Con : /\ k.pc = "store" /\ k.ver >= 1 /\ k.ids = {} /\ k.got = <<>>
                       /\ cons' = [cons EXCEPT ![c] = k]
  <2>1. PICK v \in 1..MaxVersion : v = Newest
    BY <1>2
  <2>2. v \in 0..MaxVersion /\ v >= 1
    BY BoundAssumption
  <2>3. Resolved(v) \in Con /\ Resolved(v).pc = "store" /\ Resolved(v).ver = v
        /\ Resolved(v).ids = {} /\ Resolved(v).got = <<>>
    BY <2>2, IdleConEffect DEF Con, Resolved, IdleCon
  <2>4. QED
    BY <1>1, <2>1, <2>2, <2>3
<1>4. cons' \in [Consolidators -> Con] /\ cons'[c] = k /\ OnlyCon(c)
  BY <1>3, ConBecomes
<1>5. TypeOK' /\ BatchInHand' /\ KeysHold' /\ PassedIsSettled'
  <2>1. /\ here' = here /\ text' = text /\ ver' = ver /\ of' = of /\ model' = model
        /\ over' = over /\ late' = late /\ keys' = keys /\ rot' = rot /\ rt' = rt
        /\ pruning' = pruning /\ job' = job /\ failures' = failures /\ runs' = runs
        /\ spoiled' = spoiled
    BY <1>1 DEF db, ring
  <2>2. TypeOK'
    BY <1>1, <1>4, <2>1 DEF Inv, TypeOK
  <2>3. BatchInHand' /\ KeysHold' /\ PassedIsSettled'
    BY <2>1 DEF Inv, BatchInHand, KeysHold, Rotating, PassedIsSettled, Newest, Settled
  <2>4. QED
    BY <2>2, <2>3
<1>6. Turns'
  BY <1>3, <1>4, IdleConEffect, TurnsOfOthers
<1>7. \A f \in Entities : ~Owes(c, f)
  BY <1>1, IdleConEffect DEF Owes, Inv, Turns
<1>8. EntitiesTrue'
  BY <1>1, <1>3, <1>4, <1>7, IdleConEffect, NothingWritten
<1>9. QED
  BY <1>5, <1>6, <1>8 DEF Inv

\* A summary is stored with its facts and its entities: what is new and not late
\* can be read, c owes the entities it has changed, and those somebody holds are
\* spoiled.
LEMMA StoreSummaryStep ==
    ASSUME Inv, NEW c \in Consolidators, StoreSummary(c)
    PROVE  Inv'
<1>1. PICK s \in Summaries \ here, E \in {{}} \cup {{e} : e \in Entities}, p \in Patches,
           old \in SUBSET ((Summaries \cap here) \ over), v \in cons[c].ver..Max(keys) :
         /\ Cardinality(old) <= 1
         /\ here' = here \cup ({s} \cup FactsOf[s]) \cup E
         /\ over' = over \cup old
         /\ ver' = [r \in Rows |-> IF r \in {s} \cup FactsOf[s] THEN cons[c].ver
                                   ELSE IF r \in E THEN v ELSE ver[r]]
         /\ late' = (late \ (({s} \cup FactsOf[s]) \cup E))
                      \cup LateIn({s} \cup FactsOf[s], cons[c].ver) \cup LateIn(E, v)
         /\ \E t \in IF E = {} THEN {{}} ELSE MergedTexts(CHOOSE e \in E : TRUE, p) :
               text' = [r \in Rows |-> IF r \in E THEN t ELSE text[r]]
         /\ spoiled' = (spoiled \ E) \cup {e \in E : Held(e)}
         /\ cons' = [cons EXCEPT ![c] = [IdleCon EXCEPT
                       !.pc = "summary", !.sum = s, !.ids = E]]
  BY Zenon DEF StoreSummary
<1>2. /\ cons[c].pc = "store" /\ of' = of /\ model' = model /\ keys' = keys /\ job' = job
      /\ failures' = failures /\ runs' = runs /\ stores' = stores
      /\ rot' = rot /\ rt' = rt /\ pruning' = pruning
  BY DEF StoreSummary, ring
<1>3. Newest \in keys /\ Newest \in 1..MaxVersion /\ \A k \in keys : k <= Newest
  BY NewestIsThere
<1>4. E \subseteq Entities /\ E \subseteq Rows
  BY DEF Rows
<1>5. FactsOf[s] \subseteq Facts /\ FactsOf[s] \subseteq Rows /\ s \in Rows
  BY RowAssumption DEF Rows
<1>6. PICK t \in Texts : text' = [r \in Rows |-> IF r \in E THEN t ELSE text[r]]
  <2>1. CASE E = {}
    <3>1. {} \in Texts
      BY DEF Texts
    <3>2. QED
      BY <1>1, <2>1, <3>1
  <2>2. CASE E # {}
    <3>1. PICK e : e = CHOOSE f \in E : TRUE
      OBVIOUS
    <3>2. e \in E
      BY <2>2, <3>1
    <3>3. text[e] \subseteq Patches
      BY <1>4, <3>2 DEF Inv, TypeOK, Texts
    <3>4. \A u \in MergedTexts(e, p) : u \in Texts
      BY <3>3 DEF MergedTexts, Texts
    <3>5. QED
      BY <1>1, <2>2, <3>1, <3>4
  <2>3. QED
    BY <2>1, <2>2
<1>7. PICK k : /\ k \in Con /\ k.pc = "summary" /\ ~k.last /\ k.ids = E /\ k.got = <<>>
               /\ cons' = [cons EXCEPT ![c] = k]
  <2>1. cons' = [cons EXCEPT ![c] = Storing(s, E)]
    BY <1>1, Zenon DEF Storing
  <2>2. E \in SUBSET Rows /\ s \in Summaries
    BY <1>4
  <2>3. QED
    BY <2>1, <2>2, StoringCon
<1>8. cons' \in [Consolidators -> Con] /\ cons'[c] = k /\ OnlyCon(c)
  BY <1>7, ConBecomes
<1>9. cons[c].got = <<>> /\ cons[c].ids = {}
  BY <1>2 DEF Inv, Turns
<1>10. TypeOK'
  <2>1. ver' \in [Rows -> 1..MaxVersion]
    <3>1. cons[c].ver \in 1..MaxVersion
      BY <1>2, BoundAssumption DEF Inv, TypeOK, Con, Turns
    <3>2. v \in cons[c].ver..Newest
      BY DEF Newest
    <3>3. v \in 1..MaxVersion
      BY <1>3, <3>1, <3>2, BoundAssumption
    <3>4. QED
      BY <1>1, <3>1, <3>3 DEF Inv, TypeOK
  <2>2. text' \in [Rows -> Texts]
    BY <1>6 DEF Inv, TypeOK
  <2>3. here' \subseteq Rows /\ over' \subseteq Summaries /\ spoiled' \subseteq Entities
    BY <1>1, <1>4, <1>5 DEF Inv, TypeOK
  <2>4. late' \subseteq Rows
    BY <1>1, <1>4, <1>5 DEF Inv, TypeOK, LateIn
  <2>5. QED
    BY <1>2, <1>8, <2>1, <2>2, <2>3, <2>4 DEF Inv, TypeOK
<1>11. BatchInHand'
  BY <1>2 DEF Inv, BatchInHand
<1>12. KeysHold'
  <2>1. cons[c].ver \in Int /\ cons[c].ver <= Newest /\ v \in Int /\ v <= Newest
    BY <1>3 DEF Inv, TypeOK, Con, Newest
  <2>2. \A r \in Rows : ver'[r] <= Newest
    BY <1>1, <2>1 DEF Inv, KeysHold
  <2>3. ASSUME NEW r \in here' \ late'
        PROVE  ver'[r] \in keys /\ \A w \in pruning : w <= ver'[r]
    <3>1. r \in Rows
      BY <1>1, <1>4, <1>5 DEF Inv, TypeOK
    <3>2. CASE r \in {s} \cup FactsOf[s]
      <4>1. ver'[r] = cons[c].ver
        BY <1>1, <3>1, <3>2
      <4>2. ~(cons[c].ver < Newest)
        BY <1>1, <3>2 DEF LateIn, Newest
      <4>3. cons[c].ver = Newest
        BY <1>3, <2>1, <4>2
      <4>4. QED
        BY <1>3, <4>1, <4>3 DEF Inv, KeysHold, Rotating
    <3>3. CASE r \notin {s} \cup FactsOf[s] /\ r \in E
      <4>1. ver'[r] = v
        BY <1>1, <3>1, <3>3
      <4>2. ~(v < Newest)
        BY <1>1, <3>3 DEF LateIn, Newest
      <4>3. v = Newest
        BY <1>3, <2>1, <4>2
      <4>4. QED
        BY <1>3, <4>1, <4>3 DEF Inv, KeysHold, Rotating
    <3>4. CASE r \notin {s} \cup FactsOf[s] /\ r \notin E
      BY <1>1, <3>1, <3>4 DEF Inv, KeysHold
    <3>5. QED
      BY <3>2, <3>3, <3>4
  <2>4. here \subseteq here' /\ Newest' = Newest
    BY <1>1, <1>2 DEF Newest
  <2>5. Rotating'
    BY <1>2, <2>4 DEF Inv, KeysHold, Rotating
  <2>6. QED
    BY <1>2, <2>2, <2>3, <2>4, <2>5 DEF Inv, KeysHold
<1>13. PassedIsSettled'
  <2>1. \A r : Settled(r) => Settled(r)'
    BY <1>1, <1>2 DEF Settled
  <2>2. here \subseteq here'
    BY <1>1
  <2>3. QED
    BY <1>2, <2>1, <2>2 DEF Inv, PassedIsSettled
<1>14. Turns'
  BY <1>4, <1>7, <1>8, IdleConEffect, TurnsOfOthers
<1>15. EntitiesTrue'
  <2> SUFFICES ASSUME NEW e \in (Entities \cap here') \ spoiled'
               PROVE  /\ model[e] = NewModel /\ of[e] # text'[e]
                            => \E d \in Consolidators : Owes(d, e)'
                      /\ \A i \in DOMAIN job.todo :
                            job.todo[i].id = e => job.todo[i].text = text'[e]
                      /\ \A i \in DOMAIN job.ready :
                            job.ready[i].id = e => job.ready[i].text = text'[e]
                      /\ \A d \in Consolidators : \A i \in DOMAIN cons'[d].got :
                            cons'[d].got[i].id = e => cons'[d].got[i].text = text'[e]
    BY <1>2 DEF EntitiesTrue
  <2>1. CASE e \in E
    <3>1. ~Held(e)
      BY <1>1, <2>1
    <3>2. /\ \A i \in DOMAIN job.todo : job.todo[i].id # e
          /\ \A i \in DOMAIN job.ready : job.ready[i].id # e
          /\ \A d \in Consolidators : \A i \in DOMAIN cons[d].got : cons[d].got[i].id # e
      BY <3>1 DEF Held, Range
    <3>3. Owes(c, e)'
      BY <1>7, <1>8, <2>1 DEF Owes
    <3>4. \A d \in Consolidators : \A i \in DOMAIN cons'[d].got : cons'[d].got[i].id # e
      BY <1>7, <1>8, <3>2, IdleConEffect DEF OnlyCon
    <3>5. QED
      BY <3>2, <3>3, <3>4
  <2>2. CASE e \notin E
    <3>1. e \in here /\ e \notin spoiled
      BY <1>1, <1>5, <2>2, RowAssumption
    <3>2. text'[e] = text[e]
      BY <1>6, <2>2 DEF Rows
    <3>3. \A d \in Consolidators : Owes(d, e) => Owes(d, e)'
      <4>1. ~Owes(c, e)
        BY <1>9, IdleConEffect DEF Owes
      <4>2. \A d \in Consolidators \ {c} : Owes(d, e) => Owes(d, e)'
        BY <1>8 DEF Owes, OnlyCon
      <4>3. QED
        BY <4>1, <4>2
    <3>4. \A d \in Consolidators : \A i \in DOMAIN cons'[d].got :
             cons'[d].got[i].id = e => cons'[d].got[i].text = text[e]
      BY <1>7, <1>8, <3>1, IdleConEffect DEF Inv, EntitiesTrue, OnlyCon
    <3>5. QED
      BY <3>1, <3>2, <3>3, <3>4 DEF Inv, EntitiesTrue
  <2>3. QED
    BY <2>1, <2>2
<1>16. QED
  BY <1>10, <1>11, <1>12, <1>13, <1>14, <1>15 DEF Inv

----------------------------------------------------------------------------
(* The invariant, and what follows.                                        *)

\* Nothing has happened.
LEMMA InitInv ==
    ASSUME Init
    PROVE  Inv
<1>1. /\ here = SeedRows /\ over = {} /\ keys = {1} /\ stores = 0 /\ failures = 0 /\ runs = 0
      /\ spoiled = {} /\ job = IdleJob /\ of = text /\ ver = [r \in Rows |-> 1]
      /\ late = {} /\ pruning = {} /\ rot = NoRotation
      /\ rt = [q \in Rotators |-> IdleRotator]
      /\ cons = [c \in Consolidators |-> IdleCon]
  BY DEF Init
<1>2. /\ text \in [Rows -> Texts]
      /\ model \in [Rows -> {OldModel, NoModel}] /\ 1 \in 1..MaxVersion
  BY RowAssumption, BoundAssumption DEF Init, Texts
<1>3. Newest = 1
  <2>1. keys \subseteq Int /\ keys # {} /\ 1 \in Nat
    BY <1>1
  <2>2. Newest \in keys
    BY <1>1, <1>2, MaxIsThere, BoundAssumption DEF Newest
  <2>3. QED
    BY <1>1, <2>2
<1>4. TypeOK
  <2>1. cons \in [Consolidators -> Con]
    BY <1>1, IdleConEffect
  <2>2. ver \in [Rows -> 1..MaxVersion] /\ keys \subseteq 1..MaxVersion
    BY <1>1, <1>2
  <2>3. Len(job.todo) + Len(job.ready) <= BatchSize /\ job \in Job
    BY <1>1, IdleJobEffect, BoundAssumption
  <2>4. /\ here \subseteq Rows /\ over \subseteq Summaries /\ spoiled \subseteq Entities
        /\ model \in [Rows -> Models \cup {NoModel}] /\ of \in [Rows -> Texts]
    BY <1>1, <1>2, RowAssumption DEF Models
  <2>5. stores \in 0..MaxStores /\ failures \in 0..MaxFailures /\ runs \in 0..MaxRuns
    BY <1>1, BoundAssumption
  <2>6. rot \in Rotation /\ rt \in [Rotators -> Rotator] /\ late \subseteq Rows
        /\ pruning \subseteq 1..MaxVersion
    BY <1>1, IdleRotatorEffect, BoundAssumption DEF NoRotation, Rotation
  <2>7. QED
    BY <1>2, <2>1, <2>2, <2>3, <2>4, <2>5, <2>6 DEF TypeOK
<1>5. BatchInHand /\ PassedIsSettled
  BY <1>1, IdleJobEffect DEF BatchInHand, PassedIsSettled
<1>6. KeysHold
  <2>1. \A r \in here : ver[r] \in keys
    BY <1>1, RowAssumption
  <2>2. Rotating
    BY <1>1, <1>3, IdleRotatorEffect DEF Rotating, NoRotation
  <2>3. QED
    BY <1>1, <1>3, <2>1, <2>2, IdleJobEffect DEF KeysHold
<1>7. Turns
  BY <1>1, IdleConEffect DEF Turns
<1>8. EntitiesTrue
  BY <1>1, IdleConEffect, IdleJobEffect DEF EntitiesTrue
<1>9. QED
  BY <1>4, <1>5, <1>6, <1>7, <1>8 DEF Inv

\* No step disturbs the invariant.
LEMMA NextInv ==
    ASSUME Inv, [Next]_vars
    PROVE  Inv'
<1>1. CASE StartJob
  BY <1>1, StartJobStep
<1>2. CASE JobStep
  BY <1>2, SelectBatchStep, DecryptStep, RefetchRowStep, RekeyStep, EmbedStep, UpdateStep,
     LogRunStep DEF JobStep
<1>3. CASE Crash
  BY <1>3, CrashStep
<1>4. ASSUME NEW c \in Consolidators, ConStep(c)
      PROVE  Inv'
  BY <1>4, ResolveKeyStep, StoreSummaryStep, EmbedSummaryStep, ReadEntityStep, EmbedEntityStep,
     EntityFailsStep, WriteEntityStep, EntitiesEmbeddedStep, EmbedKeyFactsStep,
     SelectEpisodesStep, EmbedEpisodeStep, EntitiesMissingEmbeddingsStep, ConCrashStep
     DEF ConStep
<1>5. ASSUME NEW q \in Rotators, RotatorStep(q)
      PROVE  Inv'
  BY <1>5, ContinueStep, ReadBatchStep, NextTableStep, MarkCompletedStep, UpdateBatchStep,
     RotatorCrashStep DEF RotatorStep
<1>6. CASE StartRotation \/ CheckPrune \/ Prune
  BY <1>6, StartRotationStep, CheckPruneStep, PruneStep
<1>7. CASE UNCHANGED vars
  <2>1. /\ here' = here /\ text' = text /\ ver' = ver /\ of' = of /\ model' = model
        /\ over' = over /\ late' = late /\ keys' = keys /\ rot' = rot /\ rt' = rt
        /\ pruning' = pruning /\ job' = job /\ cons' = cons /\ stores' = stores
        /\ failures' = failures /\ runs' = runs /\ spoiled' = spoiled
    BY <1>7 DEF vars
  <2>2. TypeOK' /\ BatchInHand' /\ KeysHold' /\ PassedIsSettled'
    BY <2>1 DEF Inv, TypeOK, BatchInHand, KeysHold, Rotating, PassedIsSettled, Newest, Settled
  <2>3. Turns' /\ EntitiesTrue'
    BY <2>1 DEF Inv, Turns, EntitiesTrue, Owes
  <2>4. QED
    BY <2>2, <2>3 DEF Inv
<1>8. QED
  BY <1>1, <1>2, <1>3, <1>4, <1>5, <1>6, <1>7 DEF Next

\* The invariant holds throughout.
THEOREM Invariant == Spec => []Inv
BY InitInv, NextInv, PTL DEF Spec

\* Every variable of the re-embedding model stays in its type, and no batch of
\* hupi-reembed is larger than -batch-size.
THEOREM Typing == Spec => []TypeOK
<1>1. Inv => TypeOK
  BY DEF Inv
<1>2. QED
  BY <1>1, Invariant, PTL

\* A batch fails for want of a key only if versions were deleted twice while it
\* was at work, or on a row that was committed under a version superseded by
\* then: decryptWithRetry's one refetch survives any single rotation and prune
\* of the rows that were written in time.
THEOREM RotationSurvived == Spec => []OneRotationIsSurvived
<1>1. Inv => OneRotationIsSurvived
  BY DEF Inv, KeysHold, Rotating, OneRotationIsSurvived
<1>2. QED
  BY <1>1, Invariant, PTL

\* When hupi-reembed reports completion, every row that was pending when it
\* started is on the configured model, embedded by somebody else since, or out
\* of reach.
THEOREM Done == Spec => []DoneMeansDone
<1>1. Inv => DoneMeansDone
  BY DEF Inv, PassedIsSettled, Settled, DoneMeansDone
<1>2. QED
  BY <1>1, Invariant, PTL

\* An entity nobody has in hand or on their list, that was not changed under an
\* embedder's hands and not put back by a rotation's UPDATE, has the embedding of
\* its present attributes if its label says so.
THEOREM Truthful == Spec => []LabelIsTruthful
<1>1. Inv => LabelIsTruthful
  <2> SUFFICES ASSUME Inv, NEW e \in Entities \cap here, model[e] = NewModel,
                      ~Held(e), ~Due(e), e \notin spoiled
               PROVE  of[e] = text[e]
    BY DEF LabelIsTruthful
  <2>1. \A c \in Consolidators : ~Owes(c, e)
    BY DEF Held, Due, Owes, Range
  <2>2. QED
    BY <2>1 DEF Inv, EntitiesTrue
<1>2. QED
  BY <1>1, Invariant, PTL
=============================================================================
