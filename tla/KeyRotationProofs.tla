------------------------- MODULE KeyRotationProofs -------------------------
(***************************************************************************)
(* Theorems about KeyRotation, for every set of actors, rows, processes    *)
(* and every bound.                                                        *)
(***************************************************************************)
EXTENDS KeyRotation, FiniteSetTheorems, TLAPS

LEMMA IdleTyped == Idle \in Writer /\ Idle.dek = NoDEK /\ Idle.pc = "idle"
<1>1. AnyRow \in Rows
  BY RowAssumption DEF AnyRow
<1>2. QED
  BY <1>1, BoundAssumption DEF Idle, Writer

LEMMA IdleRunTyped == IdleRun \in Rotator
BY BoundAssumption DEF IdleRun, Rotator


LEMMA TypeInit == Init => TypeOK
<1> SUFFICES ASSUME Init PROVE TypeOK
  OBVIOUS
<1>1. keys \in [Versions -> DEKs \cup {NoDEK}]
  BY DEF Init, DEKs
<1>2. cache \in [Procs -> [Versions -> DEKs \cup {NoDEK}]]
  BY DEF Init, EmptyCache
<1>3. rot \in RotationStatus
  BY BoundAssumption DEF Init, RotationStatus
<1>4. rows \in [Rows -> Row]
  BY BoundAssumption DEF Init, Row, NoRow, DEKs
<1>5. wr \in [Writers -> Writer] /\ rt \in [Rotators -> Rotator]
  BY IdleTyped, IdleRunTyped DEF Init
<1>6. lock \in Rotators \cup {Nobody} /\ late \in SUBSET Rows /\ crashes \in 0..MaxCrashes
  BY BoundAssumption DEF Init
<1>7. InHand
  BY IdleTyped DEF Init, InHand, IdleRun
<1>8. QED
  BY <1>1, <1>2, <1>3, <1>4, <1>5, <1>6, <1>7 DEF TypeOK

LEMMA GetVersionTyped ==
    ASSUME TypeOK, NEW p \in Procs, NEW v \in Versions
    PROVE  /\ GetVersion(p, v) \in DEKs \cup {NoDEK}
           /\ CacheWith(p, v) \in [Procs -> [Versions -> DEKs \cup {NoDEK}]]
BY DEF GetVersion, CacheWith, TypeOK

LEMMA LateTyped ==
    ASSUME TypeOK, NEW X \in SUBSET Rows, NEW v
    PROVE  LateAfter(X, v) \in SUBSET Rows
BY DEF LateAfter, TypeOK

LEMMA WriterTypes ==
    ASSUME TypeOK, NEW w \in Writers, WriterStep(w)
    PROVE  TypeOK'
<1> USE BoundAssumption DEF Versions
<1>h. Home[w] \in Procs
  BY ActorAssumption DEF Actors
<1>r. wr[w] \in Writer /\ FactsOf(wr[w].row) \in SUBSET Rows
  BY DEF TypeOK, FactsOf
<1>1. CASE ResolveCurrent(w)
  BY <1>1 DEF ResolveCurrent, TypeOK, Writer, InHand
<1>2. CASE CreateVersion(w)
  BY <1>2 DEF CreateVersion, TypeOK, Writer, DEKs, Actors, InHand
<1>3. CASE LoadKey(w)
  <2>1. wr[w].ver \in Versions
    BY <1>3 DEF LoadKey, TypeOK, InHand
  <2>2. wr'[w] \in Writer /\ (wr'[w].pc # "idle" => wr'[w].ver \in Versions /\ wr'[w].dek \in DEKs)
    BY <1>3, <1>h, <1>r, <2>1, IdleTyped, GetVersionTyped DEF LoadKey, TypeOK, Writer
  <2>3. \A u \in Writers : u # w => wr'[u] = wr[u]
    BY <1>3 DEF LoadKey, TypeOK
  <2>4. wr' \in [Writers -> Writer]
    BY <1>3, <2>2, <2>3 DEF LoadKey, TypeOK
  <2>5. InHand'
    BY <1>3, <2>2, <2>3 DEF LoadKey, TypeOK, InHand
  <2>6. QED
    BY <1>3, <1>h, <2>1, <2>4, <2>5, GetVersionTyped DEF LoadKey, TypeOK
<1>4. CASE InsertRow(w)
  <2>1. [ver |-> wr[w].ver, dek |-> wr[w].dek, val |-> {w}] \in Row
    BY <1>r DEF Writer, Row
  <2>2. rows' \in [Rows -> Row]
    BY <1>4, <2>1 DEF InsertRow, TypeOK
  <2>3. late' \in SUBSET Rows
    BY <1>4, <1>r, LateTyped DEF InsertRow, Writer
  <2>4. wr' \in [Writers -> Writer] /\ InHand'
    BY <1>4, <1>r DEF InsertRow, TypeOK, Writer, InHand
  <2>5. QED
    BY <1>4, <2>2, <2>3, <2>4 DEF InsertRow, TypeOK
<1>5. CASE UpsertExisting(w)
  <2>1. rows[wr[w].row] \in Row /\ rows[wr[w].row].ver \in Versions
    BY <1>5, <1>r DEF UpsertExisting, TypeOK, Writer, Present, Row
  <2>2. cache' \in [Procs -> [Versions -> DEKs \cup {NoDEK}]]
    BY <1>5, <2>1, <1>h, GetVersionTyped DEF UpsertExisting
  <2>3. [ver |-> wr[w].ver, dek |-> wr[w].dek, val |-> rows[wr[w].row].val \cup {w}] \in Row
    BY <1>r, <2>1 DEF Writer, Row
  <2>4. rows' \in [Rows -> Row]
    BY <1>5, <2>3 DEF UpsertExisting, TypeOK
  <2>5. late' \in SUBSET Rows
    BY <1>5, <1>r, LateTyped DEF UpsertExisting, Writer, TypeOK
  <2>6. wr' \in [Writers -> Writer] /\ InHand'
    <3>1. \/ wr' = [wr EXCEPT ![w].pc = "done"]
          \/ wr' = [wr EXCEPT ![w] = Idle]
      BY <1>5 DEF UpsertExisting
    <3>2. wr[w].pc = "write" /\ UNCHANGED <<rot, rt>>
      BY <1>5 DEF UpsertExisting
    <3>3. wr'[w] \in Writer /\ (wr'[w].pc # "idle" => wr'[w].ver \in Versions /\ wr'[w].dek \in DEKs)
      <4>1. wr[w].ver \in Versions /\ wr[w].dek \in DEKs
        BY <3>2 DEF TypeOK, InHand
      <4>2. CASE wr' = [wr EXCEPT ![w].pc = "done"]
        BY <1>r, <4>1, <4>2 DEF TypeOK, Writer
      <4>3. CASE wr' = [wr EXCEPT ![w] = Idle]
        BY <4>3, IdleTyped DEF TypeOK
      <4>4. QED
        BY <3>1, <4>2, <4>3
    <3>4. \A u \in Writers : u # w => wr'[u] = wr[u]
      BY <3>1 DEF TypeOK
    <3>5. wr' \in [Writers -> Writer]
      BY <3>1, <3>3, <3>4 DEF TypeOK
    <3>6. QED
      BY <3>2, <3>3, <3>4, <3>5 DEF TypeOK, InHand
  <2>7. QED
    BY <1>5, <2>2, <2>4, <2>5, <2>6 DEF UpsertExisting, TypeOK
<1>6. CASE UpsertMiss(w)
  BY <1>6 DEF UpsertMiss, TypeOK, Writer, InHand
<1>7. CASE UpsertInsert(w)
  <2>1. [ver |-> wr[w].ver, dek |-> wr[w].dek, val |-> {w}] \in Row
    BY <1>r DEF Writer, Row
  <2>2. rows' \in [Rows -> Row]
    BY <1>7, <2>1 DEF UpsertInsert, TypeOK
  <2>3. late' \in SUBSET Rows
    BY <1>7, <1>r, LateTyped DEF UpsertInsert, Writer
  <2>4. wr' \in [Writers -> Writer] /\ InHand'
    BY <1>7, <1>r DEF UpsertInsert, TypeOK, Writer, InHand
  <2>5. QED
    BY <1>7, <2>2, <2>3, <2>4 DEF UpsertInsert, TypeOK
<1>8. CASE WriteFails(w)
  BY <1>8, IdleTyped DEF WriteFails, TypeOK, Writer, InHand
<1>9. CASE UpsertReplace(w)
  <2>1. [ver |-> wr[w].ver, dek |-> wr[w].dek, val |-> {w}] \in Row
    BY <1>r DEF Writer, Row
  <2>2. rows' \in [Rows -> Row]
    BY <1>9, <2>1 DEF UpsertReplace, TypeOK
  <2>3. late' \in SUBSET Rows
    BY <1>9, <1>r, LateTyped DEF UpsertReplace, Writer
  <2>4. wr' \in [Writers -> Writer] /\ InHand'
    BY <1>9, <1>r DEF UpsertReplace, TypeOK, Writer, InHand
  <2>5. QED
    BY <1>9, <2>2, <2>3, <2>4 DEF UpsertReplace, TypeOK
<1>10. QED
  BY <1>1, <1>2, <1>3, <1>4, <1>5, <1>6, <1>7, <1>8, <1>9 DEF WriterStep

LEMMA ExitTyped ==
    ASSUME TypeOK, NEW r \in Rotators, Exit(r)
    PROVE  /\ rt' \in [Rotators -> Rotator]
           /\ rt'[r] = IdleRun
           /\ \A q \in Rotators : q # r => rt'[q] = rt[q]
           /\ cache' \in [Procs -> [Versions -> DEKs \cup {NoDEK}]]
           /\ UNCHANGED <<rot, wr>> => InHand'
<1>1. /\ rt' \in [Rotators -> Rotator]
      /\ rt'[r] = IdleRun
      /\ \A q \in Rotators : q # r => rt'[q] = rt[q]
      /\ cache' \in [Procs -> [Versions -> DEKs \cup {NoDEK}]]
  BY IdleRunTyped DEF Exit, EmptyCache, TypeOK
<1>2. rt'[r].pc = "idle"
  BY <1>1 DEF IdleRun
<1>3. ASSUME UNCHANGED <<rot, wr>> PROVE InHand'
  BY <1>1, <1>2, <1>3 DEF TypeOK, InHand
<1>4. QED
  BY <1>1, <1>3

LEMMA RotatorTypes ==
    ASSUME TypeOK, NEW r \in Rotators, RotatorStep(r)
    PROVE  TypeOK'
<1> USE BoundAssumption DEF Versions
<1>h. Home[r] \in Procs
  BY ActorAssumption DEF Actors
<1>r. rt[r] \in Rotator /\ r \in DEKs
  BY DEF TypeOK, DEKs, Actors
<1>1. CASE StartLock(r)
  BY <1>1, <1>r DEF StartLock, TypeOK, Rotator, InHand
<1>2. CASE StartResume(r)
  BY <1>2, <1>r DEF StartResume, TypeOK, Rotator, InHand
<1>3. CASE StartFresh(r)
  <2>1. PICK v \in 1..(MaxVersion - 1) :
          rt' = [rt EXCEPT ![r].pc = "start_create", ![r].from = v]
    BY <1>3 DEF StartFresh
  <2>e. rt'[r] = [rt[r] EXCEPT !.pc = "start_create", !.from = v]
    BY <2>1 DEF TypeOK
  <2>v. v \in Versions /\ v \in 0..MaxVersion
    OBVIOUS
  <2>2. rt'[r] \in Rotator /\ rt'[r].pc = "start_create" /\ rt'[r].from \in Versions
    <3> HIDE BoundAssumption DEF Versions
    <3>1. QED
      BY <1>r, <2>e, <2>v DEF Rotator
  <2>3. rt' \in [Rotators -> Rotator] /\ \A q \in Rotators : q # r => rt'[q] = rt[q]
    BY <2>1, <2>2 DEF TypeOK
  <2>4. QED
    BY <1>3, <2>2, <2>3 DEF StartFresh, TypeOK, InHand
<1>4. CASE StartRefused(r)
  BY <1>4, ExitTyped DEF StartRefused, TypeOK
<1>5. CASE StartCreate(r)
  <2>1. PICK v \in 1..(MaxVersion - 1) :
          /\ keys' = [keys EXCEPT ![v + 1] = IF @ = NoDEK THEN r ELSE @]
          /\ cache' = [cache EXCEPT ![Home[r]][v + 1] = keys'[v + 1]]
          /\ rt' = [rt EXCEPT ![r].pc = "start_row", ![r].to = v + 1]
    BY <1>5 DEF StartCreate
  <2>2. keys' \in [Versions -> DEKs \cup {NoDEK}] /\ v + 1 \in Versions
    BY <1>r, <2>1 DEF TypeOK
  <2>3. cache' \in [Procs -> [Versions -> DEKs \cup {NoDEK}]]
    BY <1>h, <2>1, <2>2 DEF TypeOK
  <2>4. rt' \in [Rotators -> Rotator] /\ InHand'
    <3>1. rt[r].from \in Versions
      BY <1>5 DEF StartCreate, TypeOK, InHand
    <3>e. rt'[r] = [rt[r] EXCEPT !.pc = "start_row", !.to = v + 1]
      BY <2>1 DEF TypeOK
    <3>2. /\ rt'[r] \in Rotator /\ rt'[r].pc = "start_row"
          /\ rt'[r].from \in Versions /\ rt'[r].to \in Versions
      <4>1. v + 1 \in 0..MaxVersion /\ v + 1 \in Versions
        OBVIOUS
      <4> HIDE BoundAssumption DEF Versions
      <4> DEFINE u == v + 1
      <4> HIDE DEF u
      <4>2. rt'[r] = [rt[r] EXCEPT !.pc = "start_row", !.to = u] /\ u \in 0..MaxVersion /\ u \in Versions
        BY <3>e, <4>1 DEF u
      <4>3. QED
        BY <1>r, <3>1, <4>2 DEF Rotator
    <3>3. rt' \in [Rotators -> Rotator] /\ \A q \in Rotators : q # r => rt'[q] = rt[q]
      BY <2>1, <3>2 DEF TypeOK
    <3>4. QED
      BY <1>5, <3>2, <3>3 DEF StartCreate, TypeOK, InHand
  <2>5. QED
    BY <1>5, <2>2, <2>3, <2>4 DEF StartCreate, TypeOK
<1>6. CASE StartRow(r)
  BY <1>6, <1>r DEF StartRow, TypeOK, Rotator, RotationStatus, InHand
<1>7. CASE ContinueOver(r)
  BY <1>7, ExitTyped DEF ContinueOver, TypeOK
<1>8. CASE ContinueBegin(r)
  <2> DEFINE f == GetVersion(Home[r], rot.from)
             t == GetVersion(Home[r], rot.to)
  <2>1. rot.from \in Versions /\ rot.to \in Versions
    BY <1>8 DEF ContinueBegin, TypeOK, InHand
  <2>2. f \in DEKs /\ t \in DEKs
    BY <1>8, <1>h, <2>1, GetVersionTyped DEF ContinueBegin
  <2> HIDE DEF f, t
  <2>3. cache' = [cache EXCEPT ![Home[r]][rot.from] = f, ![Home[r]][rot.to] = t]
    BY <1>8 DEF ContinueBegin, f, t
  <2>4. cache' \in [Procs -> [Versions -> DEKs \cup {NoDEK}]]
    BY <1>h, <2>1, <2>2, <2>3 DEF TypeOK
  <2>5. rt' = [rt EXCEPT ![r] =
                  [@ EXCEPT !.pc = IF rot.table = "done" THEN "complete" ELSE "select",
                            !.from = rot.from, !.to = rot.to, !.table = rot.table,
                            !.fromDek = f, !.toDek = t]]
    BY <1>8 DEF ContinueBegin, f, t
  <2>6. rt' \in [Rotators -> Rotator] /\ InHand'
    <3>1. /\ rt'[r] \in Rotator /\ rt'[r].pc \in {"complete", "select"}
          /\ rt'[r].from \in Versions /\ rt'[r].to \in Versions
          /\ rt'[r].fromDek \in DEKs /\ rt'[r].toDek \in DEKs
      BY <1>r, <2>1, <2>2, <2>5 DEF TypeOK, Rotator, RotationStatus
    <3>2. rt' \in [Rotators -> Rotator] /\ \A q \in Rotators : q # r => rt'[q] = rt[q]
      BY <2>5, <3>1 DEF TypeOK
    <3>3. QED
      BY <1>8, <3>1, <3>2 DEF ContinueBegin, TypeOK, InHand
  <2>7. QED
    BY <1>8, <2>4, <2>6 DEF ContinueBegin, TypeOK
<1>9. CASE BatchEmpty(r)
  BY <1>9, <1>r DEF BatchEmpty, TypeOK, Rotator, InHand
<1>10. CASE BatchSelect(r)
  <2>1. PICK B \in SUBSET OnOldVersion(r) :
          rt' = [rt EXCEPT ![r].pc = "update", ![r].batch = B,
                      ![r].buf = [x \in Rows |-> IF x \in B THEN rows[x].val ELSE {}]]
    BY <1>10 DEF BatchSelect
  <2>2. B \in SUBSET Rows
    BY DEF OnOldVersion
  <2>3. [x \in Rows |-> IF x \in B THEN rows[x].val ELSE {}] \in [Rows -> SUBSET Writers]
    BY DEF TypeOK, Row
  <2>4. rt' \in [Rotators -> Rotator] /\ InHand'
    BY <1>10, <1>r, <2>1, <2>2, <2>3 DEF BatchSelect, TypeOK, Rotator, InHand
  <2>5. QED
    BY <1>10, <2>4 DEF BatchSelect, TypeOK
<1>11. CASE BatchUpdate(r)
  <2>1. rt[r].to \in Versions /\ rt[r].toDek \in DEKs /\ rt[r].batch \cup BatchFacts(r) \in SUBSET Rows
    BY <1>11, <1>r DEF BatchUpdate, TypeOK, InHand, BatchFacts, Rotator
  <2>2. rows' \in [Rows -> Row]
    BY <1>11, <1>r, <2>1 DEF BatchUpdate, TypeOK, Rotator, Row
  <2>3. late' \in SUBSET Rows
    BY <1>11, <2>1, LateTyped DEF BatchUpdate
  <2>4. rt' \in [Rotators -> Rotator] /\ InHand'
    BY <1>11, <1>r DEF BatchUpdate, TypeOK, Rotator, InHand
  <2>5. QED
    BY <1>11, <2>2, <2>3, <2>4 DEF BatchUpdate, TypeOK
<1>12. CASE Advance(r)
  <2>1. nextTable(rt[r].table) \in {"summaries", "entities", "done"}
    BY DEF nextTable
  <2>2. rt' \in [Rotators -> Rotator] /\ rot' \in RotationStatus /\ InHand'
    BY <1>12, <1>r, <2>1 DEF Advance, TypeOK, Rotator, RotationStatus, InHand
  <2>3. QED
    BY <1>12, <2>2 DEF Advance, TypeOK
<1>13. CASE MarkCompleted(r)
  <2>1. rot' \in RotationStatus
    BY <1>13 DEF MarkCompleted, TypeOK, RotationStatus
  <2>2. rot.from \in Versions /\ rot.to \in Versions
    BY <1>13 DEF MarkCompleted, TypeOK, InHand
  <2>3. rot'.from = rot.from /\ rot'.to = rot.to /\ rot'.status = "completed" /\ wr' = wr
    BY <1>13 DEF MarkCompleted, TypeOK, RotationStatus
  <2>4. /\ rt'[r] = IdleRun
        /\ \A q \in Rotators : q # r => rt'[q] = rt[q]
    BY <1>13, ExitTyped DEF MarkCompleted
  <2>5. InHand'
    BY <2>2, <2>3, <2>4 DEF TypeOK, InHand, IdleRun
  <2>6. QED
    BY <1>13, <2>1, <2>5, ExitTyped DEF MarkCompleted, TypeOK
<1>14. CASE PruneBegin(r)
  BY <1>14, <1>r DEF PruneBegin, TypeOK, Rotator, RotationStatus, InHand
<1>15. CASE PruneCheck(r)
  BY <1>15, <1>r DEF PruneCheck, TypeOK, Rotator, InHand
<1>16. CASE PruneRefused(r)
  <2>1. UNCHANGED <<keys, rot, lock, rows, wr, late, crashes>> /\ Exit(r)
    BY <1>16 DEF PruneRefused
  <2>2. QED
    BY <2>1, ExitTyped DEF TypeOK
<1>17. CASE PruneDelete(r)
  <2>1. keys' \in [Versions -> DEKs \cup {NoDEK}]
    BY <1>17 DEF PruneDelete, TypeOK
  <2>2. UNCHANGED <<rot, lock, rows, wr, late, crashes>> /\ Exit(r)
    BY <1>17 DEF PruneDelete
  <2>3. QED
    BY <2>1, <2>2, ExitTyped DEF TypeOK
<1>18. QED
  BY <1>1, <1>2, <1>3, <1>4, <1>5, <1>6, <1>7, <1>8, <1>9, <1>10, <1>11, <1>12,
     <1>13, <1>14, <1>15, <1>16, <1>17 DEF RotatorStep

LEMMA CrashTypes ==
    ASSUME TypeOK, NEW p \in Procs, Crash(p)
    PROVE  TypeOK'
<1>1. cache' \in [Procs -> [Versions -> DEKs \cup {NoDEK}]]
  BY DEF Crash, EmptyCache, TypeOK
<1>2. wr' \in [Writers -> Writer] /\ rt' \in [Rotators -> Rotator]
  BY IdleTyped, IdleRunTyped DEF Crash, TypeOK
<1>3. /\ \A w \in Writers : wr'[w] \in {Idle, wr[w]}
      /\ \A r \in Rotators : rt'[r] \in {IdleRun, rt[r]}
  BY DEF Crash, TypeOK
<1>4. InHand'
  BY <1>3, IdleTyped DEF Crash, TypeOK, InHand, IdleRun
<1>5. crashes' \in 0..MaxCrashes /\ lock' \in Rotators \cup {Nobody}
  BY BoundAssumption DEF Crash, TypeOK
<1>6. QED
  BY <1>1, <1>2, <1>4, <1>5 DEF Crash, TypeOK

LEMMA TypeNext == TypeOK /\ [Next]_vars => TypeOK'
<1> SUFFICES ASSUME TypeOK, [Next]_vars PROVE TypeOK'
  OBVIOUS
<1>1. CASE UNCHANGED vars
  BY <1>1 DEF vars, TypeOK, InHand
<1>2. CASE Next
  BY <1>2, WriterTypes, RotatorTypes, CrashTypes DEF Next
<1>3. QED
  BY <1>1, <1>2

\* The type invariant: every version and key handed to GetVersion, Encrypt or
\* Decrypt is one, in every interleaving of writers, rotation runs and crashes.
THEOREM TypeCorrect == Spec => []TypeOK
<1>1. Init => TypeOK
  BY TypeInit
<1>2. TypeOK /\ [Next]_vars => TypeOK'
  BY TypeNext
<1>3. QED
  BY <1>1, <1>2, PTL DEF Spec

----------------------------------------------------------------------------
(* Prune: the inductive invariant behind UnreadableOnlyIfLate.             *)

\* Between its lock and its unlock, a Start holds the advisory lock.
StartHeld ==
    \A r \in Rotators :
        rt[r].pc \in {"start_read", "start_create", "start_row"} => lock = r

\* The recorded to_version is an existing version, 0 before the first rotation.
RecordedExists ==
    IF rot.status = "none" THEN rot.to = 0 ELSE keys[rot.to] # NoDEK

\* The version a Start has created is newer than any it may replace.
StartAhead ==
    \A r \in Rotators :
        rt[r].pc = "start_row" => rt[r].to > rot.to /\ keys[rt[r].to] # NoDEK

\* A Prune deletes below a to_version that was recorded once.
PruneBehind ==
    \A r \in Rotators :
        rt[r].pc \in {"prune_check", "prune_delete"} => rt[r].to <= rot.to

\* Since its check, only late commits can have used what a Prune will delete.
PruneChecked ==
    \A r \in Rotators : rt[r].pc = "prune_delete" =>
        \A x \in Rows : Present(x) /\ rows[x].ver < rt[r].to => x \in late

\* A version in hand still exists, or using it makes the row late.
Usable(v) == keys[v] # NoDEK \/ v < rot.to

InHandUsable ==
    /\ \A w \in Writers :
          wr[w].pc \in {"load", "write", "insert"} => Usable(wr[w].ver)
    /\ \A r \in Rotators :
          rt[r].pc \in {"select", "update", "advance"} => Usable(rt[r].to)

PruneInv ==
    /\ StartHeld
    /\ RecordedExists
    /\ StartAhead
    /\ PruneBehind
    /\ PruneChecked
    /\ InHandUsable
    /\ UnreadableOnlyIfLate

LEMMA PruneInit == Init => PruneInv
<1> SUFFICES ASSUME Init PROVE PruneInv
  OBVIOUS
<1>1. /\ \A w \in Writers : wr[w].pc = "idle"
      /\ \A r \in Rotators : rt[r].pc = "idle"
  BY DEF Init, Idle, IdleRun
<1>2. RecordedExists
  BY DEF Init, RecordedExists
<1>3. UnreadableOnlyIfLate
  <2> SUFFICES ASSUME NEW x \in Rows, Present(x), keys[rows[x].ver] = NoDEK
               PROVE  FALSE
    BY DEF UnreadableOnlyIfLate
  <2>p. PICK p \in Provisioned :
           /\ keys = [v \in Versions |-> IF p /\ v = 1 THEN Genesis ELSE NoDEK]
           /\ rows = [r \in Rows |-> IF p /\ r \in SeedRows
                                     THEN [ver |-> 1, dek |-> Genesis, val |-> {}]
                                     ELSE NoRow]
    BY DEF Init
  <2>1. p /\ rows[x].ver = 1
    BY <2>p DEF Present, NoRow
  <2>2. keys[1] = Genesis
    BY <2>p, <2>1, BoundAssumption DEF Versions
  <2>3. QED
    BY <2>1, <2>2, ActorAssumption DEF DEKs
<1>4. QED
  BY <1>1, <1>2, <1>3 DEF PruneInv, StartHeld, StartAhead, PruneBehind, PruneChecked, InHandUsable

\* What commits rows X under a usable version v keeps the two facts about rows.
LEMMA CommitKeeps ==
    ASSUME TypeOK, PruneInv,
           NEW v \in Versions, Usable(v),
           NEW X \in SUBSET Rows,
           rows' \in [Rows -> Row],
           \A x \in Rows : x \in X => rows'[x].ver = v,
           \A x \in Rows : x \notin X => rows'[x] = rows[x],
           late' = LateAfter(X, v),
           UNCHANGED <<keys, rot>>,
           \A r \in Rotators : rt'[r].pc = "prune_delete" => rt'[r] = rt[r]
    PROVE  PruneChecked' /\ UnreadableOnlyIfLate'
<1>1. UnreadableOnlyIfLate'
  BY DEF UnreadableOnlyIfLate, PruneInv, LateAfter, Usable, Present, TypeOK
<1>2. ASSUME NEW r \in Rotators, rt'[r].pc = "prune_delete",
             NEW x \in Rows, Present(x)', rows'[x].ver < rt'[r].to
      PROVE  x \in late'
  <2>1. rt[r].pc = "prune_delete" /\ rt'[r] = rt[r]
    BY <1>2
  <2>2. rt[r].to <= rot.to /\ rt[r].to \in Int /\ rot.to \in Int /\ v \in Int
    BY <2>1, BoundAssumption DEF PruneInv, PruneBehind, TypeOK, Rotator, RotationStatus, Versions
  <2>3. CASE x \in X
    BY <1>2, <2>1, <2>2, <2>3 DEF LateAfter
  <2>4. CASE x \notin X
    <3>1. x \in late
      BY <1>2, <2>1, <2>4 DEF PruneInv, PruneChecked, Present
    <3>2. QED
      BY <3>1, <2>4 DEF LateAfter
  <2>5. QED
    BY <2>3, <2>4
<1>3. QED
  BY <1>1, <1>2 DEF PruneChecked

LEMMA PruneWriter ==
    ASSUME TypeOK, TypeOK', PruneInv, NEW w \in Writers, WriterStep(w)
    PROVE  PruneInv'
<1> USE BoundAssumption
<1>o. UNCHANGED <<rt, rot, lock>>
  BY DEF WriterStep, ResolveCurrent, CreateVersion, LoadKey, InsertRow,
         UpsertExisting, UpsertReplace, UpsertMiss, UpsertInsert, WriteFails
<1>p. StartHeld' /\ PruneBehind'
  BY <1>o DEF PruneInv, StartHeld, PruneBehind
<1>1. CASE ResolveCurrent(w)
  <2>1. UNCHANGED <<keys, rows, late>>
    BY <1>1 DEF ResolveCurrent
  <2>2. \A u \in Writers : u # w => wr'[u] = wr[u]
    BY <1>1 DEF ResolveCurrent, TypeOK
  <2>3. wr'[w].pc = "load" => keys[wr'[w].ver] # NoDEK
    BY <1>1 DEF ResolveCurrent, TypeOK, CurrentVersionIs, Existing
  <2>4. wr'[w].pc \in {"load", "create"}
    BY <1>1 DEF ResolveCurrent, TypeOK
  <2>5. QED
    BY <1>o, <1>p, <2>1, <2>2, <2>3, <2>4
    DEF PruneInv, RecordedExists, StartAhead, PruneChecked, InHandUsable, Usable,
        UnreadableOnlyIfLate, Present
<1>2. CASE CreateVersion(w)
  <2>1. /\ wr[w].ver \in Versions
        /\ keys' = [keys EXCEPT ![wr[w].ver] = IF @ = NoDEK THEN w ELSE @]
        /\ wr' = [wr EXCEPT ![w].pc = "load"]
        /\ UNCHANGED <<rows, late>>
    BY <1>2 DEF CreateVersion, TypeOK, InHand
  <2>2. w # NoDEK
    BY ActorAssumption DEF DEKs, Actors
  <2>3. \A v : keys[v] # NoDEK => keys'[v] # NoDEK
    BY <2>1, <2>2 DEF TypeOK
  <2>4. keys'[wr[w].ver] # NoDEK
    BY <2>1, <2>2 DEF TypeOK
  <2>5. wr'[w].ver = wr[w].ver /\ \A u \in Writers : u # w => wr'[u] = wr[u]
    BY <2>1 DEF TypeOK, Writer
  <2>6. InHandUsable'
    BY <1>o, <2>3, <2>4, <2>5 DEF PruneInv, InHandUsable, Usable
  <2>7. QED
    BY <1>o, <1>p, <2>1, <2>3, <2>6
    DEF PruneInv, RecordedExists, StartAhead, PruneChecked, UnreadableOnlyIfLate, Present
<1>3. CASE LoadKey(w)
  <2>1. UNCHANGED <<keys, rows, late>>
    BY <1>3 DEF LoadKey
  <2>2. /\ \A u \in Writers : u # w => wr'[u] = wr[u]
        /\ wr[w].pc = "load"
        /\ wr'[w].pc # "idle" => wr'[w].ver = wr[w].ver
    BY <1>3, IdleTyped DEF LoadKey, TypeOK, Writer
  <2>3. InHandUsable'
    BY <1>o, <2>1, <2>2 DEF PruneInv, InHandUsable, Usable
  <2>4. QED
    BY <1>o, <1>p, <2>1, <2>3
    DEF PruneInv, RecordedExists, StartAhead, PruneChecked, UnreadableOnlyIfLate, Present
<1>4. CASE InsertRow(w) \/ UpsertInsert(w) \/ UpsertReplace(w)
  <2>1. /\ UNCHANGED keys
        /\ \A u \in Writers : u # w => wr'[u] = wr[u]
        /\ wr'[w].pc = "done"
        /\ wr[w].pc \in {"write", "insert"}
    BY <1>4 DEF InsertRow, UpsertInsert, UpsertReplace, TypeOK, Writer
  <2>2. Usable(wr[w].ver) /\ wr[w].ver \in Versions /\ wr[w].row \in Rows
    BY <2>1 DEF PruneInv, InHandUsable, TypeOK, InHand, Writer
  <2>3. PruneChecked' /\ UnreadableOnlyIfLate'
    <3>1. CASE InsertRow(w)
      <4> DEFINE X == {wr[w].row} \cup FactsOf(wr[w].row)
      <4>1. X \in SUBSET Rows
        BY <2>2 DEF FactsOf
      <4>2. \A x \in Rows : IF x \in X THEN rows'[x].ver = wr[w].ver ELSE rows'[x] = rows[x]
        BY <3>1 DEF InsertRow
      <4>3. late' = LateAfter(X, wr[w].ver) /\ UNCHANGED <<keys, rot, rt>>
        BY <3>1 DEF InsertRow
      <4> HIDE DEF X
      <4>4. QED
        BY <2>2, <4>1, <4>2, <4>3, CommitKeeps DEF TypeOK
    <3>2. CASE UpsertInsert(w) \/ UpsertReplace(w)
      <4> DEFINE X == {wr[w].row}
      <4>1. X \in SUBSET Rows
        BY <2>2
      <4>2. \A x \in Rows : IF x \in X THEN rows'[x].ver = wr[w].ver ELSE rows'[x] = rows[x]
        BY <3>2 DEF UpsertInsert, UpsertReplace, TypeOK
      <4>3. late' = LateAfter(X, wr[w].ver) /\ UNCHANGED <<keys, rot, rt>>
        BY <3>2 DEF UpsertInsert, UpsertReplace
      <4> HIDE DEF X
      <4>4. QED
        BY <2>2, <4>1, <4>2, <4>3, CommitKeeps DEF TypeOK
    <3>3. QED
      BY <1>4, <3>1, <3>2
  <2>4. QED
    BY <1>o, <1>p, <2>1, <2>3
    DEF PruneInv, RecordedExists, StartAhead, InHandUsable, Usable
<1>5. CASE UpsertExisting(w)
  <2>1. /\ UNCHANGED keys
        /\ \A u \in Writers : u # w => wr'[u] = wr[u]
        /\ wr'[w].pc \in {"done", "idle"}
        /\ wr[w].pc = "write"
    BY <1>5, IdleTyped DEF UpsertExisting, TypeOK, Writer
  <2>2. Usable(wr[w].ver) /\ wr[w].ver \in Versions /\ wr[w].row \in Rows
    BY <2>1 DEF PruneInv, InHandUsable, TypeOK, InHand, Writer
  <2>3. PruneChecked' /\ UnreadableOnlyIfLate'
    <3>1. CASE UNCHANGED <<rows, late>>
      BY <1>o, <2>1, <3>1 DEF PruneInv, PruneChecked, UnreadableOnlyIfLate, Present
    <3>2. CASE ~ UNCHANGED <<rows, late>>
      <4> DEFINE X == {wr[w].row}
      <4>1. X \in SUBSET Rows
        BY <2>2
      <4>2. \A x \in Rows : IF x \in X THEN rows'[x].ver = wr[w].ver ELSE rows'[x] = rows[x]
        BY <1>5, <3>2 DEF UpsertExisting, TypeOK
      <4>3. late' = LateAfter(X, wr[w].ver) /\ UNCHANGED <<keys, rot, rt>>
        BY <1>5, <3>2 DEF UpsertExisting
      <4> HIDE DEF X
      <4>4. QED
        BY <2>2, <4>1, <4>2, <4>3, CommitKeeps DEF TypeOK
    <3>3. QED
      BY <3>1, <3>2
  <2>4. QED
    BY <1>o, <1>p, <2>1, <2>3
    DEF PruneInv, RecordedExists, StartAhead, InHandUsable, Usable
<1>6. CASE UpsertMiss(w) \/ WriteFails(w)
  <2>1. /\ UNCHANGED <<keys, rows, late>>
        /\ \A u \in Writers : u # w => wr'[u] = wr[u]
        /\ \/ wr'[w].pc = "idle"
           \/ wr[w].pc = "write" /\ wr'[w].ver = wr[w].ver
    BY <1>6, IdleTyped DEF UpsertMiss, WriteFails, TypeOK, Writer
  <2>2. InHandUsable'
    BY <1>o, <2>1 DEF PruneInv, InHandUsable, Usable
  <2>3. QED
    BY <1>o, <1>p, <2>1, <2>2
    DEF PruneInv, RecordedExists, StartAhead, PruneChecked, UnreadableOnlyIfLate, Present
<1>7. QED
  BY <1>1, <1>2, <1>3, <1>4, <1>5, <1>6 DEF WriterStep

\* A step of run r that leaves the keys, the rotation and the rows alone.
LEMMA PruneLocal ==
    ASSUME TypeOK, PruneInv, NEW r \in Rotators,
           UNCHANGED <<keys, rot, rows, wr, late>>,
           \A q \in Rotators : q # r => rt'[q] = rt[q] /\ (lock = q => lock' = q),
           rt'[r].pc \in {"start_read", "start_create"} => lock' = r,
           rt'[r].pc # "start_row",
           rt'[r].pc \in {"prune_check", "prune_delete"} => rt'[r].to <= rot.to,
           rt'[r].pc = "prune_delete" => StillReferenced(rt'[r].to) = {},
           rt'[r].pc \in {"select", "update", "advance"} => Usable(rt'[r].to)
    PROVE  PruneInv'
<1>1. StartHeld' /\ RecordedExists' /\ StartAhead' /\ PruneBehind'
  BY DEF PruneInv, StartHeld, RecordedExists, StartAhead, PruneBehind
<1>2. PruneChecked'
  BY DEF PruneInv, PruneChecked, StillReferenced, Present
<1>3. InHandUsable' /\ UnreadableOnlyIfLate'
  BY DEF PruneInv, InHandUsable, UnreadableOnlyIfLate, Usable, Present
<1>4. QED
  BY <1>1, <1>2, <1>3 DEF PruneInv

LEMMA PruneRotator ==
    ASSUME TypeOK, TypeOK', PruneInv, NEW r \in Rotators, RotatorStep(r)
    PROVE  PruneInv'
<1> USE BoundAssumption
<1>o. \A q \in Rotators : q # r => rt'[q] = rt[q]
  BY ExitTyped DEF RotatorStep, StartLock, StartResume, StartFresh, StartRefused,
     StartCreate, StartRow, ContinueOver, ContinueBegin, BatchEmpty, BatchSelect,
     BatchUpdate, Advance, MarkCompleted, PruneBegin, PruneCheck, PruneRefused,
     PruneDelete, TypeOK
<1>n. r # Nobody
  BY ActorAssumption
<1>l. rt[r].pc \in {"start_read", "start_create", "start_row"} => lock = r
  BY DEF PruneInv, StartHeld
<1>1. CASE StartLock(r)
  <2>1. lock = Nobody /\ lock' = r /\ rt'[r].pc = "start_read"
    BY <1>1 DEF StartLock, TypeOK, Rotator
  <2>2. UNCHANGED <<keys, rot, rows, wr, late>>
    BY <1>1 DEF StartLock
  <2>3. \A q \in Rotators : lock # q
    BY <2>1, ActorAssumption
  <2>4. QED
    BY <1>o, <2>1, <2>2, <2>3, PruneLocal
<1>2. CASE StartResume(r)
  <2>1. lock = r /\ lock' = Nobody /\ rt'[r].pc = "status"
    BY <1>2, <1>l DEF StartResume, TypeOK, Rotator
  <2>2. UNCHANGED <<keys, rot, rows, wr, late>>
    BY <1>2 DEF StartResume
  <2>3. QED
    BY <1>o, <2>1, <2>2, PruneLocal
<1>3. CASE StartFresh(r)
  <2>1. lock = r /\ lock' = lock /\ rt'[r].pc = "start_create"
    BY <1>3, <1>l DEF StartFresh, TypeOK, Rotator
  <2>2. UNCHANGED <<keys, rot, rows, wr, late>>
    BY <1>3 DEF StartFresh
  <2>3. QED
    BY <1>o, <2>1, <2>2, PruneLocal
<1>4. CASE StartRefused(r)
  <2>1. lock = r /\ lock' = Nobody /\ rt'[r].pc = "idle"
    BY <1>4, <1>l, ExitTyped DEF StartRefused, IdleRun
  <2>2. UNCHANGED <<keys, rot, rows, wr, late>>
    BY <1>4 DEF StartRefused
  <2>3. QED
    BY <1>o, <2>1, <2>2, PruneLocal
<1>5. CASE StartCreate(r)
  <2>1. PICK v \in 1..(MaxVersion - 1) :
          /\ CurrentVersionIs(v)
          /\ keys' = [keys EXCEPT ![v + 1] = IF @ = NoDEK THEN r ELSE @]
          /\ rt' = [rt EXCEPT ![r].pc = "start_row", ![r].to = v + 1]
    BY <1>5 DEF StartCreate
  <2>2. v + 1 \in Versions /\ r # NoDEK
    BY ActorAssumption DEF Versions, DEKs, Actors
  <2>3. keys'[v + 1] # NoDEK /\ \A u : keys[u] # NoDEK => keys'[u] # NoDEK
    BY <2>1, <2>2 DEF TypeOK
  <2>4. rt'[r].pc = "start_row" /\ rt'[r].to = v + 1
    BY <2>1 DEF TypeOK, Rotator
  <2>5. rot.to <= v /\ rot.to \in Int
    <3>1. CASE rot.status = "none"
      BY <3>1 DEF PruneInv, RecordedExists
    <3>2. CASE rot.status # "none"
      <4>1. rot.to \in Existing
        BY <3>2 DEF PruneInv, RecordedExists, Existing, TypeOK, InHand
      <4>2. QED
        BY <2>1, <4>1 DEF CurrentVersionIs, Existing, Versions
    <3>3. QED
      BY <3>1, <3>2
  <2>6. UNCHANGED <<rot, lock, rows, wr, late>> /\ lock = r
    BY <1>5, <1>l DEF StartCreate
  <2>7. StartHeld' /\ RecordedExists' /\ PruneBehind' /\ PruneChecked'
    BY <1>o, <2>3, <2>4, <2>6
    DEF PruneInv, StartHeld, RecordedExists, PruneBehind, PruneChecked, Present
  <2>8. StartAhead'
    BY <1>o, <2>3, <2>4, <2>5, <2>6 DEF PruneInv, StartAhead
  <2>9. InHandUsable' /\ UnreadableOnlyIfLate'
    BY <1>o, <2>3, <2>4, <2>6 DEF PruneInv, InHandUsable, Usable, UnreadableOnlyIfLate, Present
  <2>10. QED
    BY <2>7, <2>8, <2>9 DEF PruneInv
<1>6. CASE StartRow(r)
  <2>1. /\ rot'.status = "in_progress" /\ rot'.to = rt[r].to
        /\ lock = r /\ lock' = Nobody /\ rt'[r].pc = "status"
        /\ UNCHANGED <<keys, rows, wr, late>>
        /\ rt[r].pc = "start_row"
    BY <1>6, <1>l DEF StartRow, TypeOK, Rotator
  <2>2. rot.to < rot'.to /\ keys[rot'.to] # NoDEK /\ rot.to \in Int /\ rot'.to \in Int
    BY <2>1 DEF PruneInv, StartAhead, TypeOK, RotationStatus
  <2>3. \A q \in Rotators : q # r => rt[q].pc # "start_row" /\ rt[q].pc # "start_read" /\ rt[q].pc # "start_create"
    BY <2>1 DEF PruneInv, StartHeld
  <2>4. StartHeld' /\ RecordedExists' /\ StartAhead'
    BY <1>o, <2>1, <2>2, <2>3 DEF StartHeld, RecordedExists, StartAhead
  <2>i. /\ \A q \in Rotators : rt[q].to \in Int
        /\ \A w \in Writers : wr[w].ver \in Int
    BY DEF TypeOK, Rotator, Writer
  <2>5. PruneBehind' /\ PruneChecked'
    BY <1>o, <2>1, <2>2, <2>i DEF PruneInv, PruneBehind, PruneChecked, Present
  <2>6. InHandUsable' /\ UnreadableOnlyIfLate'
    BY <1>o, <2>1, <2>2, <2>i DEF PruneInv, InHandUsable, Usable, UnreadableOnlyIfLate, Present
  <2>7. QED
    BY <2>4, <2>5, <2>6 DEF PruneInv
<1>7. CASE ContinueOver(r) \/ PruneRefused(r)
  <2>1. UNCHANGED <<keys, rot, lock, rows, wr, late>> /\ rt'[r].pc = "idle"
    BY <1>7, ExitTyped DEF ContinueOver, PruneRefused, IdleRun
  <2>2. QED
    BY <1>o, <2>1, PruneLocal
<1>8. CASE ContinueBegin(r)
  <2>1. UNCHANGED <<keys, rot, lock, rows, wr, late>> /\ rot.status = "in_progress"
    BY <1>8 DEF ContinueBegin
  <2>2. rt'[r].pc \in {"complete", "select"} /\ rt'[r].to = rot.to
    BY <1>8 DEF ContinueBegin, TypeOK, Rotator
  <2>3. Usable(rot.to)
    BY <2>1 DEF PruneInv, RecordedExists, Usable
  <2>4. QED
    BY <1>o, <2>1, <2>2, <2>3, PruneLocal
<1>9. CASE BatchEmpty(r)
  <2>1. UNCHANGED <<keys, rot, lock, rows, wr, late>> /\ rt[r].pc = "select"
    BY <1>9 DEF BatchEmpty
  <2>2. rt'[r].pc = "advance" /\ rt'[r].to = rt[r].to
    BY <1>9 DEF BatchEmpty, TypeOK, Rotator
  <2>3. Usable(rt[r].to)
    BY <2>1 DEF PruneInv, InHandUsable
  <2>4. QED
    BY <1>o, <2>1, <2>2, <2>3, PruneLocal
<1>10. CASE BatchSelect(r)
  <2>1. UNCHANGED <<keys, rot, lock, rows, wr, late>> /\ rt[r].pc = "select"
    BY <1>10 DEF BatchSelect
  <2>2. rt'[r].pc = "update" /\ rt'[r].to = rt[r].to
    <3>1. PICK B, b : rt' = [rt EXCEPT ![r].pc = "update", ![r].batch = B, ![r].buf = b]
      BY <1>10 DEF BatchSelect
    <3>2. QED
      BY <3>1 DEF TypeOK, Rotator
  <2>3. Usable(rt[r].to)
    BY <2>1 DEF PruneInv, InHandUsable
  <2>4. QED
    BY <1>o, <2>1, <2>2, <2>3, PruneLocal
<1>11. CASE BatchUpdate(r)
  <2> DEFINE X == rt[r].batch \cup BatchFacts(r)
  <2>1. UNCHANGED <<keys, rot, lock, wr>> /\ rt[r].pc = "update" /\ rt'[r].pc = "status"
    BY <1>11 DEF BatchUpdate, TypeOK, Rotator
  <2>2. Usable(rt[r].to) /\ rt[r].to \in Versions
    BY <2>1 DEF PruneInv, InHandUsable, TypeOK, InHand
  <2>3. X \in SUBSET Rows
    BY DEF BatchFacts, TypeOK, Rotator
  <2>4. \A x \in Rows : IF x \in X THEN rows'[x].ver = rt[r].to ELSE rows'[x] = rows[x]
    BY <1>11 DEF BatchUpdate, TypeOK
  <2>5. late' = LateAfter(X, rt[r].to)
    BY <1>11 DEF BatchUpdate
  <2> HIDE DEF X
  <2>6. PruneChecked' /\ UnreadableOnlyIfLate'
    <3>1. \A q \in Rotators : rt'[q].pc = "prune_delete" => rt'[q] = rt[q]
      BY <1>o, <2>1
    <3>2. rows' \in [Rows -> Row] /\ UNCHANGED <<keys, rot>>
      BY <2>1 DEF TypeOK
    <3>3. /\ \A x \in Rows : x \in X => rows'[x].ver = rt[r].to
          /\ \A x \in Rows : x \notin X => rows'[x] = rows[x]
      BY <2>4
    <3>4. QED
      BY <2>2, <2>3, <2>5, <3>1, <3>2, <3>3, CommitKeeps
  <2>7. QED
    BY <1>o, <2>1, <2>6
    DEF PruneInv, StartHeld, RecordedExists, StartAhead, PruneBehind, InHandUsable, Usable
<1>12. CASE Advance(r) \/ MarkCompleted(r)
  <2>1. /\ UNCHANGED <<keys, lock, rows, wr, late>>
        /\ rot.status # "none" /\ rot'.status # "none" /\ rot'.to = rot.to
    BY <1>12 DEF Advance, MarkCompleted, TypeOK, RotationStatus, InHand
  <2>2. /\ rt'[r].pc \in {"idle", "complete", "select"}
        /\ rt'[r].pc = "select" => rt'[r].to = rt[r].to
        /\ rt'[r].pc = "select" => rt[r].pc = "advance"
    BY <1>12, ExitTyped DEF Advance, MarkCompleted, TypeOK, Rotator, IdleRun
  <2>3. StartHeld' /\ RecordedExists' /\ StartAhead' /\ PruneBehind' /\ PruneChecked'
    BY <1>o, <2>1, <2>2
    DEF PruneInv, StartHeld, RecordedExists, StartAhead, PruneBehind, PruneChecked, Present
  <2>4. InHandUsable' /\ UnreadableOnlyIfLate'
    BY <1>o, <2>1, <2>2 DEF PruneInv, InHandUsable, Usable, UnreadableOnlyIfLate, Present
  <2>5. QED
    BY <2>3, <2>4 DEF PruneInv
<1>13. CASE PruneBegin(r)
  <2>1. UNCHANGED <<keys, rot, lock, rows, wr, late>>
    BY <1>13 DEF PruneBegin
  <2>2. rt'[r].pc = "prune_check" /\ rt'[r].to = rot.to /\ rot.to \in Int
    BY <1>13 DEF PruneBegin, TypeOK, Rotator, RotationStatus
  <2>3. QED
    BY <1>o, <2>1, <2>2, PruneLocal
<1>14. CASE PruneCheck(r)
  <2>1. /\ UNCHANGED <<keys, rot, lock, rows, wr, late>> /\ rt[r].pc = "prune_check"
        /\ StillReferenced(rt[r].to) = {}
    BY <1>14 DEF PruneCheck
  <2>2. rt'[r].pc = "prune_delete" /\ rt'[r].to = rt[r].to
    BY <1>14 DEF PruneCheck, TypeOK, Rotator
  <2>3. rt[r].to <= rot.to
    BY <2>1 DEF PruneInv, PruneBehind
  <2>4. QED
    BY <1>o, <2>1, <2>2, <2>3, PruneLocal
<1>15. CASE PruneDelete(r)
  <2>1. /\ UNCHANGED <<rot, lock, rows, wr, late>> /\ rt[r].pc = "prune_delete"
        /\ keys' = [v \in Versions |-> IF v < rt[r].to THEN NoDEK ELSE keys[v]]
        /\ rt'[r].pc = "idle"
    BY <1>15, ExitTyped DEF PruneDelete, IdleRun
  <2>2. rt[r].to <= rot.to /\ rt[r].to \in Int /\ rot.to \in Int
    BY <2>1 DEF PruneInv, PruneBehind, TypeOK, Rotator, RotationStatus
  <2>3. \A v \in Versions : keys'[v] # NoDEK \/ v < rot.to \/ keys[v] = NoDEK
    BY <2>1, <2>2 DEF Versions
  <2>4. StartHeld' /\ PruneBehind' /\ PruneChecked'
    BY <1>o, <2>1 DEF PruneInv, StartHeld, PruneBehind, PruneChecked, Present
  <2>5. RecordedExists' /\ StartAhead'
    <3>1. RecordedExists'
      BY <2>1, <2>3, <2>2 DEF PruneInv, RecordedExists, TypeOK, InHand
    <3>2. ASSUME NEW q \in Rotators, rt'[q].pc = "start_row"
          PROVE  rt'[q].to > rot'.to /\ keys'[rt'[q].to] # NoDEK
      <4>1. rt'[q] = rt[q] /\ rt[q].pc = "start_row" /\ rt[q].to \in Versions /\ rt[q].to \in Int
        BY <1>o, <2>1, <3>2 DEF TypeOK, InHand, Rotator
      <4>2. rt[q].to > rot.to /\ keys[rt[q].to] # NoDEK
        BY <4>1 DEF PruneInv, StartAhead
      <4>3. QED
        BY <2>1, <2>2, <2>3, <4>1, <4>2
    <3>3. QED
      BY <3>1, <3>2 DEF StartAhead
  <2>6. InHandUsable'
    BY <1>o, <2>1, <2>3 DEF PruneInv, InHandUsable, Usable, TypeOK, InHand
  <2>7. UnreadableOnlyIfLate'
    <3> SUFFICES ASSUME NEW x \in Rows, Present(x), keys'[rows[x].ver] = NoDEK
                 PROVE  x \in late
      BY <2>1 DEF UnreadableOnlyIfLate, Present
    <3>1. rows[x].ver \in Versions
      BY DEF TypeOK, Row, Present, Versions
    <3>2. rows[x].ver < rt[r].to \/ keys[rows[x].ver] = NoDEK
      BY <2>1, <3>1
    <3>3. QED
      BY <2>1, <3>2 DEF PruneInv, PruneChecked, UnreadableOnlyIfLate
  <2>8. QED
    BY <2>4, <2>5, <2>6, <2>7 DEF PruneInv
<1>16. QED
  BY <1>1, <1>2, <1>3, <1>4, <1>5, <1>6, <1>7, <1>8, <1>9, <1>10, <1>11, <1>12,
     <1>13, <1>14, <1>15 DEF RotatorStep

LEMMA PruneCrash ==
    ASSUME TypeOK, PruneInv, NEW p \in Procs, Crash(p)
    PROVE  PruneInv'
<1>1. UNCHANGED <<keys, rot, rows, late>>
  BY DEF Crash
<1>2. \A w \in Writers : wr'[w] = wr[w] \/ wr'[w].pc = "idle"
  BY IdleTyped DEF Crash
<1>3. \A r \in Rotators : rt'[r] = rt[r] \/ rt'[r].pc = "idle"
  BY DEF Crash, IdleRun
<1>4. StartHeld'
  <2> SUFFICES ASSUME NEW r \in Rotators,
                      rt'[r].pc \in {"start_read", "start_create", "start_row"}
               PROVE  lock' = r
    BY DEF StartHeld
  <2>1. rt'[r] = rt[r] /\ Home[r] # p
    BY DEF Crash, IdleRun
  <2>2. lock = r
    BY <2>1 DEF PruneInv, StartHeld
  <2>3. QED
    BY <2>1, <2>2 DEF Crash
<1>5. RecordedExists' /\ StartAhead' /\ PruneBehind' /\ PruneChecked'
  BY <1>1, <1>3 DEF PruneInv, RecordedExists, StartAhead, PruneBehind, PruneChecked, Present
<1>6. InHandUsable' /\ UnreadableOnlyIfLate'
  BY <1>1, <1>2, <1>3 DEF PruneInv, InHandUsable, Usable, UnreadableOnlyIfLate, Present
<1>7. QED
  BY <1>4, <1>5, <1>6 DEF PruneInv

LEMMA PruneNext == TypeOK /\ TypeOK' /\ PruneInv /\ [Next]_vars => PruneInv'
<1> SUFFICES ASSUME TypeOK, TypeOK', PruneInv, [Next]_vars PROVE PruneInv'
  OBVIOUS
<1>1. CASE UNCHANGED vars
  BY <1>1 DEF vars, PruneInv, StartHeld, RecordedExists, StartAhead, PruneBehind,
     PruneChecked, InHandUsable, Usable, UnreadableOnlyIfLate, Present
<1>2. CASE Next
  BY <1>2, PruneWriter, PruneRotator, PruneCrash DEF Next
<1>3. QED
  BY <1>1, <1>2

LEMMA PruneInvariant == Spec => []PruneInv
BY PruneInit, PruneNext, TypeCorrect, PTL DEF Spec

\* Prune never takes the key of a row that was committed in time: the only rows
\* it can make unreadable are those whose ciphertext was committed under a
\* version that a recorded rotation had already replaced.
THEOREM PruneSafe == Spec => []UnreadableOnlyIfLate
<1>1. PruneInv => UnreadableOnlyIfLate
  BY DEF PruneInv
<1>2. QED
  BY <1>1, PruneInvariant, PTL

----------------------------------------------------------------------------
(* What a step may do to the newest key.                                   *)

\* A Prune deletes below a version that was recorded, and so still exists.
LEMMA PruneDeleteKeepsNewest ==
    ASSUME TypeOK, PruneInv, NEW r \in Rotators, PruneDelete(r),
           NEW v \in Existing, \A u \in Existing : u <= v
    PROVE  keys'[v] = keys[v]
<1>1. rt[r].to \in Versions /\ rot.to \in 0..MaxVersion
  BY DEF PruneDelete, TypeOK, InHand, RotationStatus
<1>2. rt[r].to <= rot.to
  BY DEF PruneDelete, PruneInv, PruneBehind
<1>3. rot.to \in Existing
  BY <1>1, <1>2, BoundAssumption DEF PruneInv, RecordedExists, Existing, Versions
<1>4. rt[r].to <= v /\ v \in Versions
  BY <1>1, <1>2, <1>3, BoundAssumption DEF Existing, Versions
<1>5. QED
  BY <1>1, <1>4, BoundAssumption DEF PruneDelete, Versions

\* createVersion inserts on conflict do nothing.
LEMMA OthersKeepKeys ==
    ASSUME TypeOK, [Next]_vars, ~ \E r \in Rotators : PruneDelete(r),
           NEW v \in Existing
    PROVE  keys'[v] = keys[v]
<1>0. keys \in [Versions -> DEKs \cup {NoDEK}] /\ v \in Versions /\ keys[v] # NoDEK
  BY DEF TypeOK, Existing
<1>1. CASE UNCHANGED vars
  BY <1>1 DEF vars
<1>2. CASE \E w \in Writers : WriterStep(w)
  BY <1>0, <1>2 DEF WriterStep, ResolveCurrent, CreateVersion, LoadKey, InsertRow,
     UpsertExisting, UpsertReplace, UpsertMiss, UpsertInsert, WriteFails
<1>3. CASE \E r \in Rotators : RotatorStep(r)
  <2>1. PICK r \in Rotators : RotatorStep(r)
    BY <1>3
  <2>2. CASE StartCreate(r)
    <3>1. PICK u \in 1..(MaxVersion - 1) :
             keys' = [keys EXCEPT ![u + 1] = IF @ = NoDEK THEN r ELSE @]
      BY <2>2 DEF StartCreate
    <3>2. QED
      BY <1>0, <3>1
  <2>3. CASE ~StartCreate(r)
    BY <2>1, <2>3 DEF RotatorStep, StartLock, StartResume, StartFresh, StartRefused,
       StartRow, ContinueOver, ContinueBegin, BatchEmpty, BatchSelect, BatchUpdate, Advance,
       MarkCompleted, PruneBegin, PruneCheck, PruneRefused
  <2>4. QED
    BY <2>2, <2>3
<1>4. CASE \E p \in Procs : Crash(p)
  BY <1>4 DEF Crash
<1>5. QED
  BY <1>1, <1>2, <1>3, <1>4 DEF Next

\* No step deletes or replaces the newest version, the one GetOrCreate hands out,
\* however many rotations and prunes overlap.
THEOREM NewestKept == Spec => NewestKeyKept
<1>1. TypeOK /\ PruneInv /\ [Next]_vars =>
        [\A v \in Existing : (\A u \in Existing : u <= v) => keys'[v] = keys[v]]_keys
  BY PruneDeleteKeepsNewest, OthersKeepKeys
<1>2. QED
  BY <1>1, TypeCorrect, PruneInvariant, PTL DEF Spec, NewestKeyKept

----------------------------------------------------------------------------
(* One key per version.                                                    *)

\* Version v, or a later one, exists.
Reached(v) == \E u \in Existing : v <= u

\* The steps at which a run holds the keys and the versions of a rotation.
Migrating == {"select", "update", "advance", "complete"}

\* Somebody, or something stored, takes d for the key of version v.
Holds(v, d) ==
    \/ keys[v] = d
    \/ \E p \in Procs : cache[p][v] = d
    \/ \E x \in Rows : rows[x].ver = v /\ rows[x].dek = d
    \/ \E w \in Writers : wr[w].pc \in {"write", "insert"} /\ wr[w].ver = v /\ wr[w].dek = d
    \/ \E r \in Rotators : /\ rt[r].pc \in Migrating
                           /\ \/ rt[r].from = v /\ rt[r].fromDek = d
                              \/ rt[r].to = v /\ rt[r].toDek = d

\* They all agree, and a key in use is that of a version that was reached.
Agree ==
    \A v \in Versions, d \in DEKs : Holds(v, d) =>
        Reached(v) /\ \A e \in DEKs : Holds(v, e) => d = e

\* Where nothing is pruned a key in use is stored.  A provisioned scope never is
\* without a key, so nobody creates version 1.
Backed ==
    /\ ~Pruning => /\ \A v \in Versions, d \in DEKs : Holds(v, d) => keys[v] = d
                   /\ \A r \in Rotators : rt[r].pc \notin {"prune_check", "prune_delete"}
    /\ Provisioned = {TRUE} => /\ Reached(1)
                               /\ \A w \in Writers : wr[w].pc # "create"

KeyInv == Agree /\ Backed

----------------------------------------------------------------------------
(* A row is inserted once.                                                 *)

\* Until its writer inserts it a new episode or summary is not there, and is
\* nobody else's.
InsertedOnce ==
    \A w \in Writers :
        /\ wr[w].pc # "idle" => TableOf[wr[w].row] # "facts"
        /\ wr[w].pc = "insert" => TableOf[wr[w].row] = "entities"
        /\ wr[w].pc \in {"create", "load", "write"} /\ TableOf[wr[w].row] # "entities" =>
              /\ ~Present(wr[w].row)
              /\ \A u \in Writers \ {w} : wr[u].pc # "idle" => wr[u].row # wr[w].row

\* What a run has selected is there, and says what was selected, unless it is an
\* entity, which an upsert may have replaced.
BufferTrue ==
    \A r \in Rotators : rt[r].pc = "update" =>
        \A x \in rt[r].batch :
            /\ TableOf[x] = rt[r].table /\ Present(x)
            /\ TableOf[x] # "entities" => rt[r].buf[x] = rows[x].val

\* An inserted row says what its writer wrote.
InsertsKept ==
    \A w \in Writers : wr[w].pc = "done" /\ TableOf[wr[w].row] # "entities" =>
        w \in rows[wr[w].row].val

WriteInv == InsertedOnce /\ BufferTrue /\ InsertsKept

----------------------------------------------------------------------------
(* One rotation at a time.                                                 *)

\* No two runs of hupi-rotate-key overlap, or they all work on one rotation.
OneAtATime == (\A q, r \in Rotators : q = r) \/ MaxVersion <= 2

\* A rotation goes to the newest version.
Ascending ==
    /\ rot.status # "none" => rot.from < rot.to
    /\ rot.status = "in_progress" => \A u \in Existing : u <= rot.to
    /\ \A r \in Rotators :
          /\ rt[r].pc = "start_create" => Reached(rt[r].from)
          /\ rt[r].pc = "start_row" =>
                rt[r].from < rt[r].to /\ \A u \in Existing : u <= rt[r].to
          /\ rt[r].pc \in {"start_create", "start_row"} => rot.status # "in_progress"
          /\ rt[r].pc \in Migrating => Reached(rt[r].to)
    /\ \A x \in Rows : Present(x) => Reached(rows[x].ver)
    /\ \A w \in Writers :
          /\ wr[w].pc = "create" => wr[w].ver = 1
          /\ wr[w].pc \in {"load", "write", "insert"} => Reached(wr[w].ver)

\* A run at work is at work on the rotation that is recorded.
SameRotation ==
    \A r \in Rotators : rt[r].pc \in Migrating =>
        /\ rt[r].from = rot.from /\ rt[r].to = rot.to
        /\ \A u \in Existing : u <= rot.to

\* Facts are where their summary is, and late if it is.
Lockstep ==
    \A f \in Rows : TableOf[f] = "facts" =>
        /\ rows[f].ver = rows[ParentOf[f]].ver
        /\ f \in late <=> ParentOf[f] \in late

\* What a run has selected and no other has migrated is on the old version.
BatchAt ==
    \A r \in Rotators : rt[r].pc = "update" =>
        \A x \in rt[r].batch : TableOf[x] # "entities" =>
            rows[x].ver \in {rot.from, rot.to}

\* The tables a cursor has passed.
Passed(t) ==
    CASE t = "episodes" -> {}
      [] t = "summaries" -> {"episodes"}
      [] t = "entities" -> {"episodes", "summaries", "facts"}
      [] OTHER -> Tables

\* What is still on the old version in these tables was written too late.
Clean(T) == \A x \in Rows : TableOf[x] \in T /\ rows[x].ver = rot.from => x \in late

PassedIsClean ==
    /\ \A x \in late : rows[x].ver < rot.to
    /\ rot.status # "none" => Clean(Passed(rot.table))
    /\ rot.status = "completed" => Clean(Tables)
    /\ \A r \in Rotators :
          /\ rt[r].pc \in {"select", "update", "advance"} => Clean(Passed(rt[r].table))
          /\ rt[r].pc = "advance" => Clean({rt[r].table})
          /\ rt[r].pc = "complete" => Clean(Tables)

TurnInv == Ascending /\ SameRotation /\ Lockstep /\ BatchAt /\ PassedIsClean

\* A version is not lost sight of: the newest is never deleted.
LEMMA ReachedKept ==
    ASSUME TypeOK, PruneInv, [Next]_vars, NEW v \in Int, Reached(v)
    PROVE  Reached(v)'
<1>1. PICK u \in Existing : v <= u
  BY DEF Reached
<1>2. u \in Versions /\ u \in Int
  BY DEF Existing, Versions
<1>3. CASE ~ \E r \in Rotators : PruneDelete(r)
  <2>1. keys'[u] = keys[u]
    BY <1>1, <1>3, OthersKeepKeys
  <2>2. QED
    BY <1>1, <1>2, <2>1 DEF Reached, Existing
<1>4. ASSUME NEW r \in Rotators, PruneDelete(r)
      PROVE  Reached(v)'
  <2>1. keys' = [n \in Versions |-> IF n < rt[r].to THEN NoDEK ELSE keys[n]]
    BY <1>4 DEF PruneDelete
  <2>2. rt[r].to \in Versions /\ rot.to \in 0..MaxVersion /\ rt[r].to <= rot.to
    BY <1>4 DEF PruneDelete, TypeOK, InHand, RotationStatus, PruneInv, PruneBehind
  <2>3. rot.to \in Versions /\ rot.to \in Int /\ rt[r].to \in Int
    BY <2>2, BoundAssumption DEF Versions
  <2>4. keys[rot.to] # NoDEK
    BY <2>2, <2>3 DEF PruneInv, RecordedExists, Versions
  <2>5. CASE u < rt[r].to
    <3>1. rot.to \in Existing' /\ v <= rot.to
      BY <1>1, <1>2, <2>1, <2>2, <2>3, <2>4, <2>5 DEF Existing
    <3>2. QED
      BY <3>1 DEF Reached
  <2>6. CASE ~(u < rt[r].to)
    BY <1>1, <1>2, <2>1, <2>6 DEF Reached, Existing
  <2>7. QED
    BY <2>5, <2>6
<1>5. QED
  BY <1>3, <1>4

\* Everything in use after the step was in use before it.
LEMMA NothingNew ==
    ASSUME \A v \in Versions : keys'[v] \in {NoDEK, keys[v]},
           \A p \in Procs, v \in Versions : cache'[p][v] \in {NoDEK, cache[p][v], keys[v]},
           \A x \in Rows : rows'[x].ver \in Versions => Holds(rows'[x].ver, rows'[x].dek),
           \A w \in Writers :
              wr'[w].pc \in {"write", "insert"} => Holds(wr'[w].ver, wr'[w].dek),
           \A r \in Rotators : rt'[r].pc \in Migrating =>
              Holds(rt'[r].from, rt'[r].fromDek) /\ Holds(rt'[r].to, rt'[r].toDek)
    PROVE  \A v \in Versions, d \in DEKs : Holds(v, d)' => Holds(v, d)
<1> SUFFICES ASSUME NEW v \in Versions, NEW d \in DEKs, Holds(v, d)'
             PROVE  Holds(v, d)
  OBVIOUS
<1>1. d # NoDEK
  BY ActorAssumption
<1>2. CASE keys'[v] = d
  BY <1>1, <1>2 DEF Holds
<1>3. CASE \E p \in Procs : cache'[p][v] = d
  BY <1>1, <1>3 DEF Holds
<1>4. CASE \E x \in Rows : rows'[x].ver = v /\ rows'[x].dek = d
  BY <1>4
<1>5. CASE \E w \in Writers :
              wr'[w].pc \in {"write", "insert"} /\ wr'[w].ver = v /\ wr'[w].dek = d
  BY <1>5
<1>6. CASE \E r \in Rotators : /\ rt'[r].pc \in Migrating
                               /\ \/ rt'[r].from = v /\ rt'[r].fromDek = d
                                  \/ rt'[r].to = v /\ rt'[r].toDek = d
  BY <1>6
<1>7. QED
  BY <1>2, <1>3, <1>4, <1>5, <1>6 DEF Holds, Migrating

\* What is held where, and what GetVersion hands out, is in use.
LEMMA InUse ==
    /\ \A v \in Versions : Holds(v, keys[v]) /\ \A p \in Procs : Holds(v, cache[p][v])
    /\ \A p \in Procs, v \in Versions : Holds(v, GetVersion(p, v))
    /\ \A x \in Rows : Holds(rows[x].ver, rows[x].dek)
    /\ \A w \in Writers : wr[w].pc \in {"write", "insert"} => Holds(wr[w].ver, wr[w].dek)
    /\ \A r \in Rotators : rt[r].pc \in Migrating =>
          Holds(rt[r].from, rt[r].fromDek) /\ Holds(rt[r].to, rt[r].toDek)
BY DEF Holds, GetVersion

\* The cache of p after GetVersion.
LEMMA CacheAfter ==
    ASSUME TypeOK, NEW q \in Procs, NEW u \in Versions, cache' = CacheWith(q, u)
    PROVE  \A p \in Procs, v \in Versions : cache'[p][v] \in {NoDEK, cache[p][v], keys[v]}
BY DEF CacheWith, GetVersion, TypeOK

\* A writer's step, other than the creation of a key.
LEMMA WriterUsesOld ==
    ASSUME TypeOK, TypeOK', NEW w \in Writers, WriterStep(w), ~CreateVersion(w)
    PROVE  \A v \in Versions, d \in DEKs : Holds(v, d)' => Holds(v, d)
<1>h. Home[w] \in Procs /\ wr[w] \in Writer
  BY ActorAssumption DEF Actors, TypeOK
<1>1. CASE ResolveCurrent(w)
  <2>1. /\ UNCHANGED <<keys, cache, rows, rt>> /\ wr'[w].pc \in {"create", "load"}
        /\ \A u \in Writers : u # w => wr'[u] = wr[u]
    BY <1>1 DEF ResolveCurrent, TypeOK
  <2>2. QED
    BY <2>1, InUse, NothingNew
<1>2. CASE LoadKey(w)
  <2>1. wr[w].ver \in Versions
    BY <1>2 DEF LoadKey, TypeOK, InHand
  <2>2. /\ UNCHANGED <<keys, rows, rt>> /\ cache' = CacheWith(Home[w], wr[w].ver)
        /\ \A u \in Writers : u # w => wr'[u] = wr[u]
        /\ \/ wr'[w] = Idle
           \/ wr'[w].ver = wr[w].ver /\ wr'[w].dek = GetVersion(Home[w], wr[w].ver)
    BY <1>2, <1>h DEF LoadKey, TypeOK, Writer
  <2>3. \A p \in Procs, v \in Versions : cache'[p][v] \in {NoDEK, cache[p][v], keys[v]}
    BY <1>h, <2>1, <2>2, CacheAfter
  <2>4. wr'[w].pc \in {"write", "insert"} => Holds(wr'[w].ver, wr'[w].dek)
    BY <1>h, <2>1, <2>2, InUse, IdleTyped
  <2>5. QED
    BY <2>2, <2>3, <2>4, InUse, NothingNew
<1>3. CASE InsertRow(w) \/ UpsertInsert(w) \/ UpsertReplace(w)
  <2>1. /\ UNCHANGED <<keys, cache, rt>> /\ wr[w].pc \in {"write", "insert"}
        /\ \A u \in Writers : u # w => wr'[u] = wr[u]
        /\ wr'[w].pc = "done"
    BY <1>3 DEF InsertRow, UpsertInsert, UpsertReplace, TypeOK, Writer
  <2>2. \A x \in Rows : \/ rows'[x] = rows[x]
                        \/ rows'[x].ver = wr[w].ver /\ rows'[x].dek = wr[w].dek
    BY <1>3 DEF InsertRow, UpsertInsert, UpsertReplace, TypeOK
  <2>3. \A x \in Rows : Holds(rows'[x].ver, rows'[x].dek)
    BY <2>1, <2>2, InUse
  <2>4. QED
    BY <2>1, <2>3, InUse, NothingNew
<1>4. CASE UpsertExisting(w)
  <2>1. /\ UNCHANGED <<keys, rt>> /\ wr[w].pc = "write" /\ wr[w].row \in Rows
        /\ \A u \in Writers : u # w => wr'[u] = wr[u]
        /\ wr'[w].pc \in {"done", "idle"}
    BY <1>4, <1>h, IdleTyped DEF UpsertExisting, TypeOK, Writer
  <2>2. \A x \in Rows : \/ rows'[x] = rows[x]
                        \/ rows'[x].ver = wr[w].ver /\ rows'[x].dek = wr[w].dek
    BY <1>4 DEF UpsertExisting, TypeOK
  <2>3. \A x \in Rows : Holds(rows'[x].ver, rows'[x].dek)
    BY <2>1, <2>2, InUse
  <2>4. rows[wr[w].row].ver \in Versions
    BY <1>4, <2>1 DEF UpsertExisting, TypeOK, Present, Row, Versions
  <2>5. \A p \in Procs, v \in Versions : cache'[p][v] \in {NoDEK, cache[p][v], keys[v]}
    BY <1>4, <1>h, <2>4, CacheAfter DEF UpsertExisting
  <2>6. QED
    BY <2>1, <2>3, <2>5, InUse, NothingNew
<1>5. CASE UpsertMiss(w) \/ WriteFails(w)
  <2>1. /\ UNCHANGED <<keys, cache, rows, rt>>
        /\ \A u \in Writers : u # w => wr'[u] = wr[u]
        /\ \/ wr'[w].pc = "idle"
           \/ wr[w].pc = "write" /\ wr'[w].ver = wr[w].ver /\ wr'[w].dek = wr[w].dek
    BY <1>5, <1>h, IdleTyped DEF UpsertMiss, WriteFails, TypeOK, Writer
  <2>2. wr'[w].pc \in {"write", "insert"} => Holds(wr'[w].ver, wr'[w].dek)
    BY <2>1, InUse
  <2>3. QED
    BY <2>1, <2>2, InUse, NothingNew
<1>6. QED
  BY <1>1, <1>2, <1>3, <1>4, <1>5 DEF WriterStep

\* A run that ends.
LEMMA ExitUsesOld ==
    ASSUME TypeOK, NEW r \in Rotators, Exit(r), UNCHANGED <<rows, wr>>,
           \A v \in Versions : keys'[v] \in {NoDEK, keys[v]}
    PROVE  \A v \in Versions, d \in DEKs : Holds(v, d)' => Holds(v, d)
<1>1. Home[r] \in Procs
  BY ActorAssumption DEF Actors
<1>2. \A q \in Rotators : rt'[q].pc \in Migrating => rt'[q] = rt[q]
  BY DEF Exit, IdleRun, TypeOK, Migrating
<1>3. \A p \in Procs, v \in Versions : cache'[p][v] \in {NoDEK, cache[p][v], keys[v]}
  BY <1>1 DEF Exit, EmptyCache, TypeOK
<1>4. QED
  BY <1>2, <1>3, InUse, NothingNew

\* A run's step, other than the creation of a key.
LEMMA RotatorUsesOld ==
    ASSUME TypeOK, TypeOK', NEW r \in Rotators, RotatorStep(r), ~StartCreate(r)
    PROVE  \A v \in Versions, d \in DEKs : Holds(v, d)' => Holds(v, d)
<1>h. Home[r] \in Procs /\ rt[r] \in Rotator
  BY ActorAssumption DEF Actors, TypeOK
<1>1. CASE StartLock(r) \/ StartResume(r) \/ StartFresh(r) \/ StartRow(r) \/ PruneBegin(r)
           \/ PruneCheck(r)
  <2>1. /\ UNCHANGED <<keys, cache, rows, wr>>
        /\ \A q \in Rotators : q # r => rt'[q] = rt[q]
        /\ rt'[r].pc \notin Migrating
    BY <1>1, <1>h DEF StartLock, StartResume, StartFresh, StartRow, PruneBegin, PruneCheck,
       TypeOK, Rotator, Migrating
  <2>2. QED
    BY <2>1, InUse, NothingNew
<1>2. CASE StartRefused(r) \/ ContinueOver(r) \/ MarkCompleted(r) \/ PruneRefused(r)
  BY <1>2, ExitUsesOld DEF StartRefused, ContinueOver, MarkCompleted, PruneRefused
<1>3. CASE PruneDelete(r)
  <2>1. \A v \in Versions : keys'[v] \in {NoDEK, keys[v]}
    BY <1>3 DEF PruneDelete
  <2>2. QED
    BY <1>3, <2>1, ExitUsesOld DEF PruneDelete
<1>4. CASE ContinueBegin(r)
  <2>1. rot.from \in Versions /\ rot.to \in Versions
    BY <1>4 DEF ContinueBegin, TypeOK, InHand
  <2>2. /\ UNCHANGED <<keys, rows, wr>>
        /\ \A q \in Rotators : q # r => rt'[q] = rt[q]
        /\ rt'[r].from = rot.from /\ rt'[r].fromDek = GetVersion(Home[r], rot.from)
        /\ rt'[r].to = rot.to /\ rt'[r].toDek = GetVersion(Home[r], rot.to)
    BY <1>4, <1>h DEF ContinueBegin, TypeOK, Rotator
  <2>3. \A p \in Procs, v \in Versions : cache'[p][v] \in {NoDEK, cache[p][v], keys[v]}
    <3>1. cache' = [cache EXCEPT ![Home[r]][rot.from] = GetVersion(Home[r], rot.from),
                                 ![Home[r]][rot.to] = GetVersion(Home[r], rot.to)]
      BY <1>4 DEF ContinueBegin
    <3>2. \A v \in Versions : GetVersion(Home[r], v) \in {cache[Home[r]][v], keys[v]}
      BY DEF GetVersion
    <3>3. QED
      BY <1>h, <2>1, <3>1, <3>2 DEF TypeOK
  <2>4. \A q \in Rotators : rt'[q].pc \in Migrating =>
           Holds(rt'[q].from, rt'[q].fromDek) /\ Holds(rt'[q].to, rt'[q].toDek)
    <3>1. Holds(rt'[r].from, rt'[r].fromDek) /\ Holds(rt'[r].to, rt'[r].toDek)
      BY <1>h, <2>1, <2>2, InUse
    <3>2. QED
      BY <2>2, <3>1, InUse
  <2>5. QED
    BY <2>2, <2>3, <2>4, InUse, NothingNew
<1>5. CASE BatchEmpty(r) \/ BatchSelect(r) \/ Advance(r)
  <2>1. UNCHANGED <<keys, cache, rows, wr>> /\ rt[r].pc \in Migrating
    BY <1>5 DEF BatchEmpty, BatchSelect, Advance, Migrating
  <2>2. /\ \A q \in Rotators : q # r => rt'[q] = rt[q]
        /\ rt'[r].from = rt[r].from /\ rt'[r].fromDek = rt[r].fromDek
        /\ rt'[r].to = rt[r].to /\ rt'[r].toDek = rt[r].toDek
    <3>1. CASE BatchEmpty(r) \/ Advance(r)
      BY <1>h, <3>1 DEF BatchEmpty, Advance, TypeOK, Rotator
    <3>2. CASE BatchSelect(r)
      <4>1. PICK B, b : rt' = [rt EXCEPT ![r].pc = "update", ![r].batch = B, ![r].buf = b]
        BY <3>2 DEF BatchSelect
      <4>2. QED
        BY <1>h, <4>1 DEF TypeOK, Rotator
    <3>3. QED
      BY <1>5, <3>1, <3>2
  <2>3. \A q \in Rotators : rt'[q].pc \in Migrating =>
           Holds(rt'[q].from, rt'[q].fromDek) /\ Holds(rt'[q].to, rt'[q].toDek)
    BY <2>1, <2>2, InUse
  <2>4. QED
    BY <2>1, <2>3, InUse, NothingNew
<1>6. CASE BatchUpdate(r)
  <2>1. /\ UNCHANGED <<keys, cache, wr>> /\ rt[r].pc \in Migrating
        /\ \A q \in Rotators : q # r => rt'[q] = rt[q]
        /\ rt'[r].pc \notin Migrating
    BY <1>6, <1>h DEF BatchUpdate, TypeOK, Rotator, Migrating
  <2>2. \A x \in Rows :
           rows'[x] = rows[x] \/ (rows'[x].ver = rt[r].to /\ rows'[x].dek = rt[r].toDek)
    BY <1>6 DEF BatchUpdate
  <2>3. \A x \in Rows : Holds(rows'[x].ver, rows'[x].dek)
    BY <2>1, <2>2, InUse
  <2>4. QED
    BY <2>1, <2>3, InUse, NothingNew
<1>7. QED
  BY <1>1, <1>2, <1>3, <1>4, <1>5, <1>6 DEF RotatorStep

\* A crash.
LEMMA CrashUsesOld ==
    ASSUME TypeOK, NEW q \in Procs, Crash(q)
    PROVE  \A v \in Versions, d \in DEKs : Holds(v, d)' => Holds(v, d)
<1>1. /\ UNCHANGED <<keys, rows>>
      /\ \A w \in Writers : wr'[w].pc \in {"write", "insert"} => wr'[w] = wr[w]
      /\ \A r \in Rotators : rt'[r].pc \in Migrating => rt'[r] = rt[r]
  BY IdleTyped DEF Crash, IdleRun, Migrating
<1>2. \A p \in Procs, v \in Versions : cache'[p][v] \in {NoDEK, cache[p][v], keys[v]}
  BY DEF Crash, EmptyCache, TypeOK
<1>3. QED
  BY <1>1, <1>2, InUse, NothingNew

\* A key a is created for version n, which had none.
LEMMA KeyCreated ==
    ASSUME TypeOK, PruneInv, [Next]_vars, KeyInv, NEW n \in Versions, NEW a \in DEKs,
           keys'[n] = IF keys[n] = NoDEK THEN a ELSE keys[n],
           \A v \in Versions : v # n => keys'[v] = keys[v],
           \A p \in Procs, v \in Versions :
              cache'[p][v] \in {cache[p][v], keys[v]} \/ (v = n /\ cache'[p][v] = keys'[n]),
           UNCHANGED rows,
           \A w \in Writers : wr'[w].pc \in {"write", "insert"} => wr'[w] = wr[w],
           \A r \in Rotators : rt'[r].pc \in Migrating => rt'[r] = rt[r],
           keys[n] = NoDEK => \A d \in DEKs : ~Holds(n, d)
    PROVE  Agree' /\ (~Pruning => \A v \in Versions, d \in DEKs : Holds(v, d)' => keys'[v] = d)
<1>t. keys \in [Versions -> DEKs \cup {NoDEK}] /\ a # NoDEK
  BY ActorAssumption DEF TypeOK
<1>k. /\ keys'[n] = IF keys[n] = NoDEK THEN a ELSE keys[n]
      /\ \A v \in Versions : v # n => keys'[v] = keys[v]
      /\ keys'[n] \in DEKs
  BY <1>t
<1>1. ASSUME NEW v \in Versions, NEW d \in DEKs, Holds(v, d)'
      PROVE  Holds(v, d) \/ (v = n /\ d = keys'[n])
  <2>1. CASE keys'[v] = d
    BY <1>k, <2>1 DEF Holds
  <2>2. CASE \E p \in Procs : cache'[p][v] = d
    BY <2>2 DEF Holds
  <2>3. CASE \E x \in Rows : rows'[x].ver = v /\ rows'[x].dek = d
    BY <2>3 DEF Holds
  <2>4. CASE \E w \in Writers :
                wr'[w].pc \in {"write", "insert"} /\ wr'[w].ver = v /\ wr'[w].dek = d
    BY <2>4 DEF Holds
  <2>5. CASE \E r \in Rotators : /\ rt'[r].pc \in Migrating
                                 /\ \/ rt'[r].from = v /\ rt'[r].fromDek = d
                                    \/ rt'[r].to = v /\ rt'[r].toDek = d
    BY <2>5 DEF Holds
  <2>6. QED
    BY <1>1, <2>1, <2>2, <2>3, <2>4, <2>5 DEF Holds, Migrating
<1>2. \A d \in DEKs : Holds(n, d) => d = keys'[n]
  <2>1. CASE keys[n] = NoDEK
    BY <2>1
  <2>2. CASE keys[n] # NoDEK
    <3>1. Holds(n, keys[n]) /\ keys[n] \in DEKs
      BY <1>t, <2>2, InUse
    <3>2. QED
      BY <1>k, <2>2, <3>1 DEF KeyInv, Agree
  <2>3. QED
    BY <2>1, <2>2
<1>3. Agree'
  <2> SUFFICES ASSUME NEW v \in Versions, NEW d \in DEKs, Holds(v, d)'
               PROVE  Reached(v)' /\ \A e \in DEKs : Holds(v, e)' => d = e
    BY DEF Agree
  <2>1. \A e \in DEKs : Holds(v, e)' => d = e
    BY <1>1, <1>2 DEF KeyInv, Agree
  <2>2. Reached(v)'
    <3>1. CASE Holds(v, d)
      <4>1. v \in Int
        BY DEF Versions
      <4>2. QED
        BY <3>1, <4>1, ReachedKept DEF KeyInv, Agree
    <3>2. CASE v = n /\ d = keys'[n]
      <4>1. keys'[v] # NoDEK
        BY <1>k, <3>2, ActorAssumption
      <4>2. QED
        BY <4>1 DEF Reached, Existing, Versions
    <3>3. QED
      BY <1>1, <3>1, <3>2
  <2>3. QED
    BY <2>1, <2>2
<1>4. ASSUME ~Pruning, NEW v \in Versions, NEW d \in DEKs, Holds(v, d)'
      PROVE  keys'[v] = d
  <2>1. CASE v = n
    BY <1>1, <1>2, <1>4, <2>1
  <2>2. CASE v # n
    BY <1>1, <1>4, <1>k, <2>2 DEF KeyInv, Backed
  <2>3. QED
    BY <2>1, <2>2
<1>5. QED
  BY <1>3, <1>4

\* Nobody starts a prune where none is wanted, and nobody creates version 1 of a
\* scope that has a key.
LEMMA NoneStarts ==
    ASSUME TypeOK, PruneInv, KeyInv, [Next]_vars
    PROVE  /\ ~Pruning => \A r \in Rotators : rt'[r].pc \notin {"prune_check", "prune_delete"}
           /\ Provisioned = {TRUE} => Reached(1)' /\ \A w \in Writers : wr'[w].pc # "create"
<1>1. CASE UNCHANGED vars
  BY <1>1 DEF vars, KeyInv, Backed, Reached, Existing
<1>2. ASSUME NEW w \in Writers, WriterStep(w)
      PROVE  /\ UNCHANGED rt
             /\ Provisioned = {TRUE} => \A u \in Writers : wr'[u].pc # "create"
  <2>1. UNCHANGED rt
    BY <1>2 DEF WriterStep, ResolveCurrent, CreateVersion, LoadKey, InsertRow,
       UpsertExisting, UpsertReplace, UpsertMiss, UpsertInsert, WriteFails
  <2>2. \A u \in Writers : u # w => wr'[u] = wr[u]
    BY <1>2 DEF WriterStep, ResolveCurrent, CreateVersion, LoadKey, InsertRow,
       UpsertExisting, UpsertReplace, UpsertMiss, UpsertInsert, WriteFails, TypeOK
  <2>3. CASE ResolveCurrent(w)
    <3>1. PICK r \in Rows, v \in 0..MaxVersion :
             /\ CurrentVersionIs(v)
             /\ wr' = [wr EXCEPT ![w] =
                        IF v = 0
                        THEN [pc |-> "create", row |-> r, ver |-> 1, dek |-> NoDEK]
                        ELSE [pc |-> "load", row |-> r, ver |-> v, dek |-> NoDEK]]
      BY <2>3 DEF ResolveCurrent
    <3>2. Provisioned = {TRUE} => v # 0
      BY <3>1 DEF KeyInv, Backed, Reached, CurrentVersionIs, Existing, Versions
    <3>3. Provisioned = {TRUE} => wr'[w].pc = "load"
      BY <3>1, <3>2 DEF TypeOK
    <3>4. QED
      BY <2>1, <2>2, <3>3 DEF KeyInv, Backed
  <2>4. CASE ~ResolveCurrent(w)
    <3>1. wr'[w].pc # "create"
      <4>1. CASE LoadKey(w) \/ UpsertExisting(w)
        <5>1. wr'[w] = Idle \/ wr'[w].pc \in {"write", "done"}
          <6>1. CASE LoadKey(w)
            BY <6>1 DEF LoadKey, TypeOK, Writer
          <6>2. CASE UpsertExisting(w)
            <7>1. wr' = [wr EXCEPT ![w].pc = "done"] \/ wr' = [wr EXCEPT ![w] = Idle]
              BY <6>2 DEF UpsertExisting
            <7>2. QED
              BY <7>1 DEF TypeOK, Writer
          <6>3. QED
            BY <4>1, <6>1, <6>2
        <5>2. QED
          BY <5>1, IdleTyped
      <4>2. CASE ~LoadKey(w) /\ ~UpsertExisting(w)
        BY <1>2, <2>4, <4>2, IdleTyped DEF WriterStep, CreateVersion, InsertRow,
           UpsertReplace, UpsertMiss, UpsertInsert, WriteFails, TypeOK, Writer
      <4>3. QED
        BY <4>1, <4>2
    <3>2. QED
      BY <2>1, <2>2, <3>1 DEF KeyInv, Backed
  <2>5. QED
    BY <2>3, <2>4
<1>3. ASSUME NEW r \in Rotators, RotatorStep(r)
      PROVE  /\ UNCHANGED wr
             /\ ~Pruning => \A q \in Rotators : rt'[q].pc \notin {"prune_check", "prune_delete"}
  <2>1. UNCHANGED wr
    BY <1>3 DEF RotatorStep, StartLock, StartResume, StartFresh, StartRefused,
       StartCreate, StartRow, ContinueOver, ContinueBegin, BatchEmpty, BatchSelect,
       BatchUpdate, Advance, MarkCompleted, PruneBegin, PruneCheck, PruneRefused, PruneDelete
  <2>2. \A q \in Rotators : q # r => rt'[q] = rt[q]
    BY <1>3, ExitTyped DEF RotatorStep, StartLock, StartResume, StartFresh, StartRefused,
       StartCreate, StartRow, ContinueOver, ContinueBegin, BatchEmpty, BatchSelect,
       BatchUpdate, Advance, MarkCompleted, PruneBegin, PruneCheck, PruneRefused,
       PruneDelete, TypeOK
  <2>3. CASE PruneBegin(r)
    BY <2>1, <2>3 DEF PruneBegin
  <2>4. CASE PruneCheck(r)
    BY <2>1, <2>4 DEF PruneCheck, KeyInv, Backed
  <2>5. CASE StartRefused(r) \/ ContinueOver(r) \/ MarkCompleted(r) \/ PruneRefused(r)
             \/ PruneDelete(r)
    <3>1. rt'[r].pc = "idle"
      BY <2>5, ExitTyped DEF StartRefused, ContinueOver, MarkCompleted, PruneRefused,
         PruneDelete, IdleRun
    <3>2. QED
      BY <2>1, <2>2, <3>1 DEF KeyInv, Backed
  <2>6. CASE StartLock(r) \/ StartResume(r) \/ StartFresh(r) \/ StartCreate(r) \/ StartRow(r)
             \/ ContinueBegin(r) \/ BatchEmpty(r) \/ BatchUpdate(r) \/ Advance(r)
    <3>1. rt'[r].pc \notin {"prune_check", "prune_delete"}
      <4>1. CASE ContinueBegin(r)
        BY <4>1 DEF ContinueBegin, TypeOK, Rotator
      <4>6. CASE Advance(r)
        BY <4>6 DEF Advance, TypeOK, Rotator
      <4>2. CASE StartCreate(r)
        <5>1. PICK v : rt' = [rt EXCEPT ![r].pc = "start_row", ![r].to = v]
          BY <4>2 DEF StartCreate
        <5>2. QED
          BY <5>1 DEF TypeOK, Rotator
      <4>3. CASE StartLock(r) \/ StartResume(r) \/ StartFresh(r) \/ StartRow(r) \/ BatchEmpty(r)
        BY <4>3 DEF StartLock, StartResume, StartFresh, StartRow, BatchEmpty, TypeOK, Rotator
      <4>4. CASE BatchUpdate(r)
        BY <4>4 DEF BatchUpdate, TypeOK, Rotator
      <4>5. QED
        BY <2>6, <4>1, <4>2, <4>3, <4>4, <4>6
    <3>2. QED
      BY <2>1, <2>2, <3>1 DEF KeyInv, Backed
  <2>7. CASE BatchSelect(r)
    <3>1. PICK B, b : rt' = [rt EXCEPT ![r].pc = "update", ![r].batch = B, ![r].buf = b]
      BY <2>7 DEF BatchSelect
    <3>2. rt'[r].pc = "update"
      BY <3>1 DEF TypeOK, Rotator
    <3>3. QED
      BY <2>1, <2>2, <3>2 DEF KeyInv, Backed
  <2>8. QED
    BY <1>3, <2>3, <2>4, <2>5, <2>6, <2>7 DEF RotatorStep
<1>4. ASSUME NEW p \in Procs, Crash(p)
      PROVE  /\ \A r \in Rotators : rt'[r] = rt[r] \/ rt'[r].pc = "idle"
             /\ \A w \in Writers : wr'[w] = wr[w] \/ wr'[w].pc = "idle"
  BY <1>4, IdleTyped DEF Crash, IdleRun
<1>5. Provisioned = {TRUE} => Reached(1)'
  BY ReachedKept DEF KeyInv, Backed
<1>6. QED
  BY <1>1, <1>2, <1>3, <1>4, <1>5 DEF Next, KeyInv, Backed

\* A version that is created was nobody's: it is above the newest, or the first
\* of a scope that never had one.
LEMMA KeyNext ==
    ASSUME TypeOK, TypeOK', PruneInv, KeyInv, [Next]_vars,
           Provisioned = {TRUE} \/ ~Pruning
    PROVE  KeyInv'
<1>1. ASSUME \A v \in Versions, d \in DEKs : Holds(v, d)' => Holds(v, d)
      PROVE  KeyInv'
  <2>1. Agree'
    <3>1. \A v \in Versions : Reached(v) => Reached(v)'
      BY ReachedKept DEF Versions
    <3>2. QED
      BY <1>1, <3>1 DEF KeyInv, Agree
  <2>2. ASSUME ~Pruning, NEW v \in Versions, NEW d \in DEKs, Holds(v, d)'
        PROVE  keys'[v] = d
    <3>1. keys[v] = d /\ d # NoDEK
      BY <1>1, <2>2, ActorAssumption DEF KeyInv, Backed
    <3>2. ~ \E r \in Rotators : PruneDelete(r)
      BY <2>2 DEF KeyInv, Backed, PruneDelete
    <3>3. QED
      BY <3>1, <3>2, OthersKeepKeys DEF Existing
  <2>3. Backed'
    BY <2>2, NoneStarts DEF Backed
  <2>4. QED
    BY <2>1, <2>3 DEF KeyInv
<1>2. CASE UNCHANGED vars
  <2>1. \A v \in Versions, d \in DEKs : Holds(v, d)' => Holds(v, d)
    BY <1>2 DEF vars, Holds
  <2>2. QED
    BY <1>1, <2>1
<1>3. ASSUME NEW w \in Writers, CreateVersion(w)
      PROVE  KeyInv'
  <2>1. /\ wr[w].pc = "create" /\ UNCHANGED <<cache, rows, rt>>
        /\ keys' = [keys EXCEPT ![wr[w].ver] = IF @ = NoDEK THEN w ELSE @]
        /\ \A u \in Writers : wr'[u].pc \in {"write", "insert"} => wr'[u] = wr[u]
    BY <1>3 DEF CreateVersion, TypeOK, Writer
  <2>2. wr[w].ver \in Versions /\ w \in DEKs
    BY <2>1 DEF TypeOK, InHand, DEKs, Actors
  <2>3. ~Pruning
    BY <2>1 DEF KeyInv, Backed
  <2>4. keys[wr[w].ver] = NoDEK => \A d \in DEKs : ~Holds(wr[w].ver, d)
    BY <2>2, <2>3, ActorAssumption DEF KeyInv, Backed
  <2>5. Agree' /\ (~Pruning => \A v \in Versions, d \in DEKs : Holds(v, d)' => keys'[v] = d)
    <3>1. PICK n \in Versions : n = wr[w].ver
      BY <2>2
    <3>2. /\ keys'[n] = IF keys[n] = NoDEK THEN w ELSE keys[n]
          /\ \A v \in Versions : v # n => keys'[v] = keys[v]
      BY <2>1, <3>1 DEF TypeOK
    <3>3. keys[n] = NoDEK => \A d \in DEKs : ~Holds(n, d)
      BY <2>4, <3>1
    <3>4. /\ \A p \in Procs, v \in Versions : cache'[p][v] \in {cache[p][v], keys[v]}
          /\ UNCHANGED rows
          /\ \A r \in Rotators : rt'[r].pc \in Migrating => rt'[r] = rt[r]
          /\ \A u \in Writers : wr'[u].pc \in {"write", "insert"} => wr'[u] = wr[u]
      BY <2>1
    <3>5. QED
      <4>1. w \in DEKs
        BY <2>2
      <4>2. \A p \in Procs, v \in Versions :
               cache'[p][v] \in {cache[p][v], keys[v]} \/ (v = n /\ cache'[p][v] = keys'[n])
        BY <3>4
      <4>3. QED
        BY <3>2, <3>3, <3>4, <4>1, <4>2, KeyCreated
  <2>6. QED
    BY <2>5, NoneStarts DEF KeyInv, Backed
<1>4. ASSUME NEW r \in Rotators, StartCreate(r)
      PROVE  KeyInv'
  <2>1. PICK v \in 1..(MaxVersion - 1) :
           /\ CurrentVersionIs(v)
           /\ keys' = [keys EXCEPT ![v + 1] = IF @ = NoDEK THEN r ELSE @]
           /\ cache' = [cache EXCEPT ![Home[r]][v + 1] = keys'[v + 1]]
           /\ rt' = [rt EXCEPT ![r].pc = "start_row", ![r].to = v + 1]
    BY <1>4 DEF StartCreate
  <2>2. v + 1 \in Versions /\ r \in DEKs /\ Home[r] \in Procs /\ v \in Int
    BY BoundAssumption, ActorAssumption DEF Versions, DEKs, Actors
  <2>3. UNCHANGED <<rows, wr>>
    BY <1>4 DEF StartCreate
  <2>4. \A q \in Rotators : rt'[q].pc \in Migrating => rt'[q] = rt[q]
    BY <2>1 DEF TypeOK, Rotator, Migrating
  <2>5. \A p \in Procs, u \in Versions :
           cache'[p][u] \in {cache[p][u], keys[u]} \/ (u = v + 1 /\ cache'[p][u] = keys'[v + 1])
    <3>1. PICK n, k : n = v + 1 /\ k = keys'[v + 1]
      OBVIOUS
    <3>2. cache' = [cache EXCEPT ![Home[r]][n] = k] /\ n \in Versions
      BY <2>1, <2>2, <3>1
    <3>3. \A p \in Procs, u \in Versions :
             cache'[p][u] = cache[p][u] \/ (u = n /\ cache'[p][u] = k)
      <4>1. /\ cache'[Home[r]] = [cache[Home[r]] EXCEPT ![n] = k]
            /\ \A p \in Procs : p # Home[r] => cache'[p] = cache[p]
        BY <2>2, <3>2 DEF TypeOK
      <4>2. cache[Home[r]] \in [Versions -> DEKs \cup {NoDEK}]
        BY <2>2 DEF TypeOK
      <4>3. \A u \in Versions :
               cache'[Home[r]][u] = cache[Home[r]][u] \/ (u = n /\ cache'[Home[r]][u] = k)
        BY <4>1, <4>2
      <4>4. QED
        BY <4>1, <4>3
    <3>4. QED
      BY <3>1, <3>3
  <2>6. ~Reached(v + 1)
    <3>1. \A u \in Existing : u <= v /\ u \in Int
      BY <2>1 DEF CurrentVersionIs, Existing, Versions
    <3>2. QED
      BY <2>2, <3>1 DEF Reached
  <2>7. \A d \in DEKs : ~Holds(v + 1, d)
    BY <2>2, <2>6 DEF KeyInv, Agree
  <2>8. Agree' /\ (~Pruning => \A u \in Versions, d \in DEKs : Holds(u, d)' => keys'[u] = d)
    <3>1. PICK n \in Versions : n = v + 1
      BY <2>2
    <3>2. /\ keys'[n] = IF keys[n] = NoDEK THEN r ELSE keys[n]
          /\ \A u \in Versions : u # n => keys'[u] = keys[u]
      BY <2>1, <3>1 DEF TypeOK
    <3>3. \A p \in Procs, u \in Versions :
             cache'[p][u] \in {cache[p][u], keys[u]} \/ (u = n /\ cache'[p][u] = keys'[n])
      BY <2>5, <3>1
    <3>4. \A d \in DEKs : ~Holds(n, d)
      BY <2>7, <3>1
    <3>5. QED
      BY <2>2, <2>3, <2>4, <3>2, <3>3, <3>4, KeyCreated
  <2>9. QED
    BY <2>8, NoneStarts DEF KeyInv, Backed
<1>5. QED
  BY <1>1, <1>2, <1>3, <1>4, WriterUsesOld, RotatorUsesOld, CrashUsesOld DEF Next

\* At the start only Genesis is in use, as version 1.
LEMMA KeyInit == Init => KeyInv
<1> SUFFICES ASSUME Init PROVE KeyInv
  OBVIOUS
<1>0. PICK p \in Provisioned :
         /\ keys = [v \in Versions |-> IF p /\ v = 1 THEN Genesis ELSE NoDEK]
         /\ rows = [r \in Rows |-> IF p /\ r \in SeedRows
                                   THEN [ver |-> 1, dek |-> Genesis, val |-> {}]
                                   ELSE NoRow]
  BY DEF Init
<1>1. /\ \A w \in Writers : wr[w].pc = "idle"
      /\ \A r \in Rotators : rt[r].pc = "idle"
      /\ \A q \in Procs, v \in Versions : cache[q][v] = NoDEK
  BY IdleTyped DEF Init, IdleRun, EmptyCache
<1>2. 1 \in Versions /\ Genesis \in DEKs /\ Genesis # NoDEK
  BY BoundAssumption, ActorAssumption DEF Versions, DEKs
<1>3. ASSUME NEW v \in Versions, NEW d \in DEKs, Holds(v, d)
      PROVE  v = 1 /\ d = Genesis /\ keys[1] = Genesis
  <2>1. d # NoDEK
    BY ActorAssumption
  <2>2. CASE keys[v] = d
    BY <1>0, <2>1, <2>2
  <2>3. CASE \E x \in Rows : rows[x].ver = v /\ rows[x].dek = d
    BY <1>0, <1>2, <2>1, <2>3 DEF NoRow
  <2>4. QED
    BY <1>1, <1>3, <2>1, <2>2, <2>3 DEF Holds, Migrating
<1>4. Agree
  BY <1>2, <1>3 DEF Agree, Reached, Existing
<1>5. Backed
  <2>1. Provisioned = {TRUE} => p
    OBVIOUS
  <2>2. Provisioned = {TRUE} => keys[1] = Genesis
    BY <1>0, <1>2, <2>1
  <2>3. QED
    <3>1. Provisioned = {TRUE} => Reached(1)
      BY <1>2, <2>2 DEF Reached, Existing
    <3>2. \A v \in Versions, d \in DEKs : Holds(v, d) => keys[v] = d
      BY <1>3
    <3>3. QED
      BY <1>1, <3>1, <3>2 DEF Backed
<1>6. QED
  BY <1>4, <1>5 DEF KeyInv

\* All processes, caches and ciphertexts agree on the key of every version,
\* however many runs and writers overlap, in a scope that had its key from the
\* start, or where nothing is ever pruned.
THEOREM OneKeyPerVersion ==
    ASSUME Provisioned = {TRUE} \/ ~Pruning
    PROVE  Spec => []OneDEKPerVersion
<1>1. TypeOK /\ KeyInv => OneDEKPerVersion
  <2> SUFFICES ASSUME TypeOK, KeyInv, NEW v \in Versions
               PROVE  \A d, e \in ({keys[v]} \cup {cache[p][v] : p \in Procs}
                                     \cup {rows[x].dek : x \in {y \in Rows : rows[y].ver = v}})
                                   \ {NoDEK} : d = e
    BY DEF OneDEKPerVersion
  <2>1. \A d \in ({keys[v]} \cup {cache[p][v] : p \in Procs}
                    \cup {rows[x].dek : x \in {y \in Rows : rows[y].ver = v}}) \ {NoDEK} :
           d \in DEKs /\ Holds(v, d)
    BY DEF Holds, TypeOK, Row
  <2>2. QED
    BY <2>1 DEF KeyInv, Agree
<1>2. KeyInv /\ TypeOK /\ TypeOK' /\ PruneInv /\ [Next]_vars => KeyInv'
  BY KeyNext
<1>3. QED
  BY <1>1, <1>2, KeyInit, TypeCorrect, PruneInvariant, PTL DEF Spec

\* A writer's step is its own.
LEMMA WriterAlone ==
    ASSUME TypeOK, NEW w \in Writers, WriterStep(w)
    PROVE  UNCHANGED <<rot, lock, rt>> /\ \A u \in Writers : u # w => wr'[u] = wr[u]
BY DEF WriterStep, ResolveCurrent, CreateVersion, LoadKey, InsertRow, UpsertExisting,
   UpsertReplace, UpsertMiss, UpsertInsert, WriteFails, TypeOK

\* A run's step is its own, too.
LEMMA RotatorAlone ==
    ASSUME TypeOK, NEW r \in Rotators, RotatorStep(r)
    PROVE  UNCHANGED wr /\ \A q \in Rotators : q # r => rt'[q] = rt[q]
BY ExitTyped DEF RotatorStep, StartLock, StartResume, StartFresh, StartRefused,
   StartCreate, StartRow, ContinueOver, ContinueBegin, BatchEmpty, BatchSelect,
   BatchUpdate, Advance, MarkCompleted, PruneBegin, PruneCheck, PruneRefused,
   PruneDelete, TypeOK

\* What a run commits, and what it leaves in hand.
LEMMA BatchUpdateEffect ==
    ASSUME TypeOK, BufferTrue, NEW r \in Rotators, BatchUpdate(r)
    PROVE  /\ rt[r].pc = "update" /\ rt'[r].pc = "status"
           /\ UNCHANGED <<keys, cache, rot, lock, wr, crashes>>
           /\ late' = LateAfter(rt[r].batch \cup BatchFacts(r), rt[r].to)
           /\ \A x \in rt[r].batch : rows'[x].ver = rt[r].to /\ rows'[x].val = rt[r].buf[x]
           /\ \A x \in BatchFacts(r) :
                 rows'[x].ver = rt[r].to /\ rows'[x].val = rows[x].val
           /\ \A x \in Rows \ (rt[r].batch \cup BatchFacts(r)) : rows'[x] = rows[x]
           /\ rt[r].batch \subseteq Rows /\ BatchFacts(r) \subseteq Rows
           /\ \A x \in rt[r].batch : TableOf[x] = rt[r].table /\ TableOf[x] # "facts"
           /\ \A x \in BatchFacts(r) : TableOf[x] = "facts"
<1>1. rt[r] \in Rotator
  BY DEF TypeOK
<1>2. /\ rt[r].batch \subseteq Rows /\ BatchFacts(r) \subseteq Rows
      /\ \A x \in BatchFacts(r) : TableOf[x] = "facts"
  BY <1>1 DEF Rotator, BatchFacts
<1>3. /\ rt[r].pc = "update" /\ rt'[r].pc = "status"
      /\ UNCHANGED <<keys, cache, rot, lock, wr, crashes>>
      /\ late' = LateAfter(rt[r].batch \cup BatchFacts(r), rt[r].to)
  BY <1>1 DEF BatchUpdate, TypeOK, Rotator
<1>4. PICK B, F : B = rt[r].batch /\ F = BatchFacts(r)
  OBVIOUS
<1>5. rows' = [x \in Rows |->
                 CASE x \in B -> [ver |-> rt[r].to, dek |-> rt[r].toDek, val |-> rt[r].buf[x]]
                   [] x \in F -> [ver |-> rt[r].to, dek |-> rt[r].toDek, val |-> rows[x].val]
                   [] OTHER -> rows[x]]
  BY <1>4 DEF BatchUpdate
<1>6. \A x \in B : TableOf[x] = rt[r].table /\ TableOf[x] # "facts"
  BY <1>1, <1>3, <1>4 DEF BufferTrue, Rotator
<1>7. \A x \in B : x \in Rows /\ x \notin F
  BY <1>2, <1>4, <1>6
<1>8. \A x \in B : rows'[x].ver = rt[r].to /\ rows'[x].val = rt[r].buf[x]
  BY <1>5, <1>7
<1>9. \A x \in F : rows'[x].ver = rt[r].to /\ rows'[x].val = rows[x].val
  BY <1>2, <1>4, <1>5, <1>7
<1>10. \A x \in Rows \ (B \cup F) : rows'[x] = rows[x]
  BY <1>5
<1>11. QED
  BY <1>2, <1>3, <1>4, <1>6, <1>8, <1>9, <1>10

\* What a writer commits.
LEMMA CommitEffect ==
    ASSUME TypeOK, InsertedOnce, NEW w \in Writers, WriterStep(w)
    PROVE  \/ /\ UNCHANGED <<rows, late>>
              /\ \/ wr'[w].pc = "idle"
                 \/ wr[w].pc = "idle"
                 \/ /\ wr'[w].row = wr[w].row /\ wr[w].pc \in {"create", "load", "write"}
                    /\ wr'[w].pc \in {"load", "write", "insert"}
                    /\ (wr'[w].pc = "insert" => TableOf[wr[w].row] = "entities")
           \/ \E X \in SUBSET Rows :
                 /\ wr[w].pc \in {"write", "insert"} /\ wr'[w].pc = "done"
                 /\ wr'[w].row = wr[w].row /\ wr[w].row \in X
                 /\ late' = LateAfter(X, wr[w].ver)
                 /\ \A x \in X : rows'[x].ver = wr[w].ver /\ w \in rows'[x].val
                 /\ \A x \in Rows \ X : rows'[x] = rows[x]
                 /\ \/ TableOf[wr[w].row] = "entities" /\ X = {wr[w].row}
                    \/ /\ TableOf[wr[w].row] # "entities" /\ wr[w].pc = "write"
                       /\ X = {wr[w].row} \cup FactsOf(wr[w].row)
<1>t. wr[w] \in Writer /\ wr[w].row \in Rows
  BY DEF TypeOK, Writer
<1>1. CASE ResolveCurrent(w)
  BY <1>1 DEF ResolveCurrent
<1>2. CASE CreateVersion(w) \/ UpsertMiss(w) \/ WriteFails(w)
  BY <1>2, <1>t, IdleTyped DEF CreateVersion, UpsertMiss, WriteFails, TypeOK, Writer
<1>3. CASE LoadKey(w)
  <2>1. UNCHANGED <<rows, late>> /\ wr[w].pc = "load"
    BY <1>3 DEF LoadKey
  <2>2. wr'[w] = Idle \/ (wr'[w].pc = "write" /\ wr'[w].row = wr[w].row)
    BY <1>3, <1>t DEF LoadKey, TypeOK, Writer
  <2>3. QED
    BY <2>1, <2>2, IdleTyped
<1>4. CASE InsertRow(w)
  <2>1. PICK X : X = {wr[w].row} \cup FactsOf(wr[w].row)
    OBVIOUS
  <2>2. X \in SUBSET Rows /\ wr[w].row \in X
    BY <1>t, <2>1 DEF FactsOf
  <2>3. /\ rows' = [x \in Rows |-> IF x \in X
                                   THEN [ver |-> wr[w].ver, dek |-> wr[w].dek, val |-> {w}]
                                   ELSE rows[x]]
        /\ late' = LateAfter(X, wr[w].ver) /\ wr[w].pc = "write"
        /\ TableOf[wr[w].row] # "entities"
    BY <1>4, <2>1 DEF InsertRow
  <2>4. wr'[w].pc = "done" /\ wr'[w].row = wr[w].row
    BY <1>4, <1>t DEF InsertRow, TypeOK, Writer
  <2>5. /\ \A x \in X : rows'[x].ver = wr[w].ver /\ w \in rows'[x].val
        /\ \A x \in Rows \ X : rows'[x] = rows[x]
    BY <2>2, <2>3
  <2>6. QED
    BY <2>1, <2>2, <2>3, <2>4, <2>5
<1>5. ASSUME NEW val, w \in val,
             rows' = [rows EXCEPT ![wr[w].row] =
                        [ver |-> wr[w].ver, dek |-> wr[w].dek, val |-> val]],
             late' = LateAfter({wr[w].row}, wr[w].ver), wr' = [wr EXCEPT ![w].pc = "done"],
             wr[w].pc \in {"write", "insert"}, TableOf[wr[w].row] = "entities"
      PROVE  \E X \in SUBSET Rows :
                 /\ wr[w].pc \in {"write", "insert"} /\ wr'[w].pc = "done"
                 /\ wr'[w].row = wr[w].row /\ wr[w].row \in X
                 /\ late' = LateAfter(X, wr[w].ver)
                 /\ \A x \in X : rows'[x].ver = wr[w].ver /\ w \in rows'[x].val
                 /\ \A x \in Rows \ X : rows'[x] = rows[x]
                 /\ TableOf[wr[w].row] = "entities" /\ X = {wr[w].row}
  <2>1. wr'[w].pc = "done" /\ wr'[w].row = wr[w].row
    BY <1>5, <1>t DEF TypeOK, Writer
  <2>2. /\ rows'[wr[w].row].ver = wr[w].ver /\ w \in rows'[wr[w].row].val
        /\ \A x \in Rows \ {wr[w].row} : rows'[x] = rows[x]
    BY <1>5, <1>t DEF TypeOK
  <2>3. QED
    BY <1>5, <1>t, <2>1, <2>2
<1>6. CASE UpsertReplace(w) \/ UpsertInsert(w)
  <2>1. TableOf[wr[w].row] = "entities"
    BY <1>6 DEF UpsertReplace, UpsertInsert, InsertedOnce
  <2>2. QED
    BY <1>5, <1>6, <2>1 DEF UpsertReplace, UpsertInsert
<1>7. CASE UpsertExisting(w)
  <2>1. wr[w].pc = "write" /\ TableOf[wr[w].row] = "entities"
    BY <1>7 DEF UpsertExisting
  <2>2. CASE wr' = [wr EXCEPT ![w] = Idle] /\ UNCHANGED <<rows, late>>
    BY <2>2, IdleTyped DEF TypeOK
  <2>3. CASE ~(wr' = [wr EXCEPT ![w] = Idle] /\ UNCHANGED <<rows, late>>)
    <3>1. PICK val : val = rows[wr[w].row].val \cup {w}
      OBVIOUS
    <3>2. /\ rows' = [rows EXCEPT ![wr[w].row] =
                        [ver |-> wr[w].ver, dek |-> wr[w].dek, val |-> val]]
          /\ late' = LateAfter({wr[w].row}, wr[w].ver) /\ wr' = [wr EXCEPT ![w].pc = "done"]
      BY <1>7, <2>3, <3>1 DEF UpsertExisting
    <3>3. QED
      BY <1>5, <2>1, <3>1, <3>2
  <2>4. QED
    BY <2>2, <2>3
<1>8. QED
  BY <1>1, <1>2, <1>3, <1>4, <1>6, <1>7 DEF WriterStep

\* A new row is inserted by one writer, and an entity is nobody's new row.
LEMMA WriteByWriter ==
    ASSUME TypeOK, WriteInv, NEW w \in Writers, WriterStep(w)
    PROVE  WriteInv'
<1>o. UNCHANGED rt /\ \A u \in Writers : u # w => wr'[u] = wr[u]
  BY WriterAlone
<1>1. CASE ResolveCurrent(w)
  <2>1. PICK r \in Rows : /\ Writable(w, r) /\ wr'[w].row = r
                          /\ wr'[w].pc \in {"create", "load"}
    BY <1>1 DEF ResolveCurrent, TypeOK
  <2>2. UNCHANGED rows
    BY <1>1 DEF ResolveCurrent
  <2>3. TableOf[r] # "facts"
    BY <2>1 DEF Writable
  <2>4. TableOf[r] # "entities" =>
           ~Present(r) /\ \A u \in Writers \ {w} : wr[u].pc # "idle" => wr[u].row # r
    BY <2>1 DEF Writable
  <2>5. InsertedOnce'
    <3> SUFFICES ASSUME NEW u \in Writers
                 PROVE  /\ wr'[u].pc # "idle" => TableOf[wr'[u].row] # "facts"
                        /\ wr'[u].pc = "insert" => TableOf[wr'[u].row] = "entities"
                        /\ wr'[u].pc \in {"create", "load", "write"}
                              /\ TableOf[wr'[u].row] # "entities" =>
                              /\ ~Present(wr'[u].row)
                              /\ \A x \in Writers \ {u} :
                                    wr'[x].pc # "idle" => wr'[x].row # wr'[u].row
      BY <2>2 DEF InsertedOnce, Present
    <3>1. CASE u = w
      BY <1>o, <2>1, <2>3, <2>4, <3>1
    <3>2. CASE u # w
      <4>1. wr'[u] = wr[u]
        BY <1>o, <3>2
      <4>2. wr[u].pc \in {"create", "load", "write"} /\ TableOf[wr[u].row] # "entities" =>
               wr'[w].row # wr[u].row
        BY <2>1, <2>4, <3>2
      <4>3. QED
        BY <1>o, <4>1, <4>2 DEF WriteInv, InsertedOnce
    <3>3. QED
      BY <3>1, <3>2
  <2>6. BufferTrue' /\ InsertsKept'
    BY <1>o, <2>1, <2>2 DEF WriteInv, BufferTrue, InsertsKept, Present
  <2>7. QED
    BY <2>5, <2>6 DEF WriteInv
<1>2. ASSUME UNCHANGED <<rows, late>>,
             \/ wr'[w].pc = "idle"
             \/ /\ wr'[w].row = wr[w].row /\ wr[w].pc \in {"create", "load", "write"}
                /\ wr'[w].pc \in {"load", "write", "insert"}
                /\ (wr'[w].pc = "insert" => TableOf[wr[w].row] = "entities")
      PROVE  WriteInv'
  <2>1. InsertedOnce'
    BY <1>o, <1>2 DEF WriteInv, InsertedOnce, Present
  <2>2. BufferTrue' /\ InsertsKept'
    BY <1>o, <1>2 DEF WriteInv, BufferTrue, InsertsKept, Present
  <2>3. QED
    BY <2>1, <2>2 DEF WriteInv
<1>3. ASSUME NEW X \in SUBSET Rows,
             /\ wr[w].pc \in {"write", "insert"} /\ wr'[w].pc = "done"
             /\ wr'[w].row = wr[w].row /\ wr[w].row \in X
             /\ \A x \in X : rows'[x].ver = wr[w].ver /\ w \in rows'[x].val
             /\ \A x \in Rows \ X : rows'[x] = rows[x]
             /\ \/ TableOf[wr[w].row] = "entities" /\ X = {wr[w].row}
                \/ /\ TableOf[wr[w].row] # "entities" /\ wr[w].pc = "write"
                   /\ X = {wr[w].row} \cup FactsOf(wr[w].row)
      PROVE  WriteInv'
  <2>1. wr[w].ver # 0 /\ \A u \in Writers : wr[u].row \in Rows
    BY <1>3 DEF TypeOK, InHand, Versions, Writer
  <2>2. \A u \in Writers :
           u # w /\ wr[u].pc # "idle" /\ TableOf[wr[u].row] # "entities" =>
              wr[u].row \notin X
    BY <1>3 DEF WriteInv, InsertedOnce, FactsOf
  <2>3. \A u \in Writers :
           u # w /\ wr[u].pc # "idle" /\ TableOf[wr[u].row] # "entities" =>
              rows'[wr[u].row] = rows[wr[u].row]
    BY <1>3, <2>1, <2>2
  <2>4. InsertedOnce'
    BY <1>o, <1>3, <2>3 DEF WriteInv, InsertedOnce, Present
  <2>5. InsertsKept'
    BY <1>o, <1>3, <2>3 DEF WriteInv, InsertsKept
  <2>6. BufferTrue'
    <3> SUFFICES ASSUME NEW r \in Rotators, rt[r].pc = "update", NEW x \in rt[r].batch
                 PROVE  /\ TableOf[x] = rt[r].table /\ rows'[x].ver # 0
                        /\ TableOf[x] # "entities" => rt[r].buf[x] = rows'[x].val
      BY <1>o DEF BufferTrue, Present
    <3>1. /\ TableOf[x] = rt[r].table /\ rows[x].ver # 0 /\ x \in Rows
          /\ TableOf[x] # "entities" => rt[r].buf[x] = rows[x].val
          /\ TableOf[x] # "facts"
      BY DEF WriteInv, BufferTrue, Present, TypeOK, Rotator
    <3>2. CASE x \in X
      <4>1. TableOf[x] = "entities"
        BY <1>3, <3>1, <3>2 DEF WriteInv, InsertedOnce, FactsOf, Present
      <4>2. QED
        BY <1>3, <2>1, <3>1, <3>2, <4>1
    <3>3. CASE x \notin X
      BY <1>3, <3>1, <3>3
    <3>4. QED
      BY <3>2, <3>3
  <2>7. QED
    BY <2>4, <2>5, <2>6 DEF WriteInv
<1>4. wr[w].pc = "idle" => ResolveCurrent(w)
  BY DEF WriterStep, CreateVersion, LoadKey, InsertRow, UpsertExisting,
     UpsertReplace, UpsertMiss, UpsertInsert, WriteFails
<1>5. QED
  BY <1>1, <1>2, <1>3, <1>4, CommitEffect DEF WriteInv

\* A run writes back what it read.
LEMMA WriteByRotator ==
    ASSUME TypeOK, WriteInv, NEW r \in Rotators, RotatorStep(r)
    PROVE  WriteInv'
<1>o. UNCHANGED wr /\ \A q \in Rotators : q # r => rt'[q] = rt[q]
  BY RotatorAlone
<1>1. ASSUME UNCHANGED rows, rt'[r].pc # "update"
      PROVE  WriteInv'
  BY <1>o, <1>1 DEF WriteInv, InsertedOnce, BufferTrue, InsertsKept, Present
<1>2. CASE BatchSelect(r)
  <2>1. PICK B \in SUBSET OnOldVersion(r) :
           rt' = [rt EXCEPT ![r].pc = "update", ![r].batch = B,
                      ![r].buf = [x \in Rows |-> IF x \in B THEN rows[x].val ELSE {}]]
    BY <1>2 DEF BatchSelect
  <2>2. UNCHANGED rows /\ rt[r].from \in Versions
    BY <1>2 DEF BatchSelect, TypeOK, InHand
  <2>3. /\ rt'[r].batch = B /\ rt'[r].table = rt[r].table
        /\ rt'[r].buf = [x \in Rows |-> IF x \in B THEN rows[x].val ELSE {}]
    BY <2>1 DEF TypeOK, Rotator
  <2>4. \A x \in B : /\ x \in Rows /\ TableOf[x] = rt[r].table /\ rows[x].ver # 0
                     /\ rt'[r].buf[x] = rows[x].val
    BY <2>2, <2>3 DEF OnOldVersion, Versions
  <2>5. BufferTrue'
    BY <1>o, <2>2, <2>3, <2>4 DEF WriteInv, BufferTrue, Present
  <2>6. QED
    BY <1>o, <2>2, <2>5 DEF WriteInv, InsertedOnce, InsertsKept, Present
<1>3. CASE BatchUpdate(r)
  <2>1. /\ rt[r].pc = "update" /\ rt'[r].pc = "status"
        /\ \A x \in rt[r].batch : rows'[x].ver = rt[r].to /\ rows'[x].val = rt[r].buf[x]
        /\ \A x \in BatchFacts(r) : rows'[x].ver = rt[r].to /\ rows'[x].val = rows[x].val
        /\ \A x \in Rows \ (rt[r].batch \cup BatchFacts(r)) : rows'[x] = rows[x]
        /\ \A x \in BatchFacts(r) : TableOf[x] = "facts"
    BY <1>3, BatchUpdateEffect DEF WriteInv
  <2>2. rt[r].to # 0
    BY <2>1 DEF TypeOK, InHand, Versions
  <2>3. \A x \in Rows : TableOf[x] # "entities" => rows'[x].val = rows[x].val
    BY <2>1 DEF WriteInv, BufferTrue
  <2>4. \A x \in Rows : Present(x) => rows'[x].ver # 0
    BY <2>1, <2>2 DEF Present
  <2>5. \A x \in Rows : ~Present(x) /\ TableOf[x] # "facts" => rows'[x].ver = 0
    BY <2>1 DEF WriteInv, BufferTrue, Present
  <2>6. \A u \in Writers : wr[u].row \in Rows
    BY DEF TypeOK, Writer
  <2>7. InsertedOnce'
    BY <1>o, <2>5, <2>6 DEF WriteInv, InsertedOnce, Present
  <2>8. InsertsKept'
    BY <1>o, <2>3, <2>6 DEF WriteInv, InsertsKept
  <2>9. BufferTrue'
    <3>1. \A q \in Rotators : rt[q].batch \subseteq Rows
      BY DEF TypeOK, Rotator
    <3>2. \A q \in Rotators : rt'[q].pc = "update" => rt'[q] = rt[q] /\ q # r
      BY <1>o, <2>1
    <3>3. QED
      BY <2>3, <2>4, <3>1, <3>2 DEF WriteInv, BufferTrue, Present
  <2>10. QED
    BY <2>7, <2>8, <2>9 DEF WriteInv
<1>4. CASE ~BatchSelect(r) /\ ~BatchUpdate(r)
  <2>1. UNCHANGED rows
    BY <1>4 DEF RotatorStep, StartLock, StartResume, StartFresh, StartRefused,
       StartCreate, StartRow, ContinueOver, ContinueBegin, BatchEmpty,
       Advance, MarkCompleted, PruneBegin, PruneCheck, PruneRefused, PruneDelete
  <2>2. rt'[r].pc # "update"
    <3>1. CASE StartRefused(r) \/ ContinueOver(r) \/ MarkCompleted(r) \/ PruneRefused(r)
               \/ PruneDelete(r)
      BY <3>1, ExitTyped DEF StartRefused, ContinueOver, MarkCompleted, PruneRefused,
         PruneDelete, IdleRun
    <3>2. CASE ContinueBegin(r)
      BY <3>2 DEF ContinueBegin, TypeOK, Rotator
    <3>3. CASE Advance(r)
      BY <3>3 DEF Advance, TypeOK, Rotator
    <3>4. CASE StartCreate(r)
      <4>1. PICK v : rt' = [rt EXCEPT ![r].pc = "start_row", ![r].to = v]
        BY <3>4 DEF StartCreate
      <4>2. QED
        BY <4>1 DEF TypeOK, Rotator
    <3>5. CASE StartLock(r) \/ StartResume(r) \/ StartFresh(r) \/ StartRow(r) \/ BatchEmpty(r)
               \/ PruneBegin(r) \/ PruneCheck(r)
      BY <3>5 DEF StartLock, StartResume, StartFresh, StartRow, BatchEmpty, PruneBegin,
         PruneCheck, TypeOK, Rotator
    <3>6. QED
      BY <1>4, <3>1, <3>2, <3>3, <3>4, <3>5 DEF RotatorStep
  <2>3. QED
    BY <1>1, <2>1, <2>2
<1>5. QED
  BY <1>2, <1>3, <1>4

\* A crash, and what holds throughout.
LEMMA WriteNext == TypeOK /\ WriteInv /\ [Next]_vars => WriteInv'
<1> SUFFICES ASSUME TypeOK, WriteInv, [Next]_vars PROVE WriteInv'
  OBVIOUS
<1>1. CASE UNCHANGED vars
  BY <1>1 DEF vars, WriteInv, InsertedOnce, BufferTrue, InsertsKept, Present
<1>2. ASSUME NEW p \in Procs, Crash(p)
      PROVE  WriteInv'
  <2>1. /\ UNCHANGED rows
        /\ \A w \in Writers : wr'[w] = wr[w] \/ wr'[w].pc = "idle"
        /\ \A r \in Rotators : rt'[r] = rt[r] \/ rt'[r].pc = "idle"
    BY <1>2, IdleTyped DEF Crash, IdleRun
  <2>2. QED
    BY <2>1 DEF WriteInv, InsertedOnce, BufferTrue, InsertsKept, Present
<1>3. QED
  BY <1>1, <1>2, WriteByWriter, WriteByRotator DEF Next

\* Hence it is an invariant.
LEMMA WriteInvariant == Spec => []WriteInv
<1>1. Init => WriteInv
  BY IdleTyped DEF Init, IdleRun, WriteInv, InsertedOnce, BufferTrue, InsertsKept
<1>2. QED
  BY <1>1, WriteNext, TypeCorrect, PTL DEF Spec

\* What an insert has committed stays in its row, also in a scope with entities:
\* the UPDATE of migrate*Batch writes back what the row says.
THEOREM EpisodesAndSummariesKept == Spec => []InsertsKept
<1>1. WriteInv => InsertsKept
  BY DEF WriteInv
<1>2. QED
  BY <1>1, WriteInvariant, PTL

\* Hence, in a scope without entities, no write is lost, whatever number of runs
\* migrate its row and however they overlap; entities, which an upsert rewrites while
\* a run has them in hand, are excepted.
THEOREM InsertsAreKept ==
    ASSUME \A x \in Rows : TableOf[x] # "entities"
    PROVE  Spec => []NoLostWrite
<1>1. TypeOK /\ WriteInv => NoLostWrite
  BY DEF WriteInv, InsertsKept, NoLostWrite, TypeOK, Writer
<1>2. QED
  BY <1>1, WriteInvariant, TypeCorrect, PTL

\* The steps of a run that record, migrate and create nothing.
LEMMA QuietRun ==
    ASSUME TypeOK, NEW r \in Rotators, RotatorStep(r), ~StartCreate(r), ~StartRow(r),
           ~BatchUpdate(r), ~Advance(r), ~MarkCompleted(r)
    PROVE  /\ UNCHANGED <<rot, rows, late>>
           /\ \A v \in Versions : keys'[v] \in {NoDEK, keys[v]}
<1>1. CASE PruneDelete(r)
  BY <1>1 DEF PruneDelete
<1>2. CASE ~PruneDelete(r)
  BY <1>2 DEF RotatorStep, StartLock, StartResume, StartFresh, StartRefused, ContinueOver,
     ContinueBegin, BatchEmpty, BatchSelect, PruneBegin, PruneCheck, PruneRefused
<1>3. QED
  BY <1>1, <1>2

\* Where they leave the run.
LEMMA QuietRunEnds ==
    ASSUME TypeOK, NEW r \in Rotators, RotatorStep(r), ~StartCreate(r), ~StartRow(r),
           ~BatchUpdate(r), ~Advance(r), ~MarkCompleted(r)
    PROVE  \/ rt'[r].pc \notin {"start_create", "start_row"} \cup Migrating
           \/ StartFresh(r)
           \/ ContinueBegin(r)
           \/ BatchEmpty(r)
           \/ BatchSelect(r)
<1>1. CASE StartRefused(r) \/ ContinueOver(r) \/ PruneRefused(r) \/ PruneDelete(r)
  BY <1>1, ExitTyped DEF StartRefused, ContinueOver, PruneRefused, PruneDelete, IdleRun,
     Migrating
<1>2. CASE StartLock(r) \/ StartResume(r) \/ PruneBegin(r) \/ PruneCheck(r)
  BY <1>2 DEF StartLock, StartResume, PruneBegin, PruneCheck, TypeOK, Rotator, Migrating
<1>3. QED
  BY <1>1, <1>2 DEF RotatorStep

\* A run that selects keeps what it works on.
LEMMA SelectEffect ==
    ASSUME TypeOK, NEW r \in Rotators, BatchEmpty(r) \/ BatchSelect(r)
    PROVE  /\ rt[r].pc = "select" /\ rt'[r].pc \in {"update", "advance"}
           /\ rt'[r].pc = "update" => BatchSelect(r)
           /\ rt'[r].pc = "advance" => BatchEmpty(r)
           /\ rt'[r].from = rt[r].from /\ rt'[r].to = rt[r].to /\ rt'[r].table = rt[r].table
           /\ UNCHANGED <<keys, rot, rows, wr, late>>
<1>1. CASE BatchEmpty(r)
  BY <1>1 DEF BatchEmpty, TypeOK, Rotator
<1>2. CASE BatchSelect(r)
  <2>1. PICK B, b : rt' = [rt EXCEPT ![r].pc = "update", ![r].batch = B, ![r].buf = b]
    BY <1>2 DEF BatchSelect
  <2>2. rt'[r].pc = "update" /\ rt'[r].from = rt[r].from /\ rt'[r].to = rt[r].to
        /\ rt'[r].table = rt[r].table
    BY <2>1 DEF TypeOK, Rotator
  <2>3. QED
    BY <1>2, <2>2 DEF BatchSelect
<1>3. QED
  BY <1>1, <1>2

\* Continue takes on the rotation that is recorded.
LEMMA ContinueEffect ==
    ASSUME TypeOK, NEW r \in Rotators, ContinueBegin(r)
    PROVE  /\ rt[r].pc = "status" /\ rot.status = "in_progress"
           /\ rt'[r].pc = IF rot.table = "done" THEN "complete" ELSE "select"
           /\ rt'[r].from = rot.from /\ rt'[r].to = rot.to /\ rt'[r].table = rot.table
           /\ UNCHANGED <<keys, rot, rows, wr, late>>
<1>1. rt[r] \in Rotator
  BY DEF TypeOK
<1>2. QED
  BY <1>1 DEF ContinueBegin, TypeOK, Rotator

\* The end of a table, or of the rotation.
LEMMA AdvanceEffect ==
    ASSUME TypeOK, NEW r \in Rotators, Advance(r)
    PROVE  /\ rt[r].pc = "advance" /\ rt'[r].table = nextTable(rt[r].table)
           /\ rt'[r].pc = IF nextTable(rt[r].table) = "done" THEN "complete" ELSE "select"
           /\ rt'[r].from = rt[r].from /\ rt'[r].to = rt[r].to
           /\ rot'.status = rot.status /\ rot'.from = rot.from /\ rot'.to = rot.to
           /\ rot'.table = nextTable(rt[r].table)
           /\ UNCHANGED <<keys, rows, wr, late>>
<1>1. rt[r] \in Rotator /\ rot \in RotationStatus
  BY DEF TypeOK
<1>2. PICK t : t = nextTable(rt[r].table)
  OBVIOUS
<1>3. /\ rot' = [rot EXCEPT !.table = t] /\ UNCHANGED <<keys, rows, wr, late>>
      /\ rt' = [rt EXCEPT ![r].pc = IF t = "done" THEN "complete" ELSE "select", ![r].table = t]
      /\ rt[r].pc = "advance"
  BY <1>2 DEF Advance
<1>4. rot'.status = rot.status /\ rot'.from = rot.from /\ rot'.to = rot.to /\ rot'.table = t
  BY <1>1, <1>3 DEF RotationStatus
<1>5. /\ rt'[r].pc = (IF t = "done" THEN "complete" ELSE "select") /\ rt'[r].table = t
      /\ rt'[r].from = rt[r].from /\ rt'[r].to = rt[r].to
  BY <1>1, <1>3 DEF TypeOK, Rotator
<1>6. QED
  BY <1>2, <1>3, <1>4, <1>5

\* markCompleted, and the exit.
LEMMA CompleteEffect ==
    ASSUME TypeOK, NEW r \in Rotators, MarkCompleted(r)
    PROVE  /\ rt[r].pc = "complete" /\ rt'[r].pc = "idle"
           /\ rot'.status = "completed" /\ rot'.from = rot.from /\ rot'.to = rot.to
           /\ rot'.table = rot.table
           /\ UNCHANGED <<keys, rows, wr, late>>
<1>1. rot'.status = "completed" /\ rot'.from = rot.from /\ rot'.to = rot.to
      /\ rot'.table = rot.table
  BY DEF MarkCompleted, TypeOK, RotationStatus
<1>2. rt'[r].pc = "idle"
  BY ExitTyped DEF MarkCompleted, IdleRun
<1>3. QED
  BY <1>1, <1>2 DEF MarkCompleted

\* The recording of a rotation.
LEMMA StartRowEffect ==
    ASSUME TypeOK, NEW r \in Rotators, StartRow(r)
    PROVE  /\ rt[r].pc = "start_row" /\ rt'[r].pc = "status"
           /\ rot'.status = "in_progress" /\ rot'.from = rt[r].from /\ rot'.to = rt[r].to
           /\ rot'.table = "episodes"
           /\ UNCHANGED <<keys, rows, wr, late>>
BY DEF StartRow, TypeOK, Rotator

\* A version above the newest.
LEMMA StartCreateEffect ==
    ASSUME TypeOK, NEW r \in Rotators, StartCreate(r)
    PROVE  /\ rt[r].pc = "start_create" /\ rt'[r].pc = "start_row"
           /\ rt'[r].from = rt[r].from /\ rt'[r].to \in Versions
           /\ \A u \in Existing : u < rt'[r].to
           /\ \A v \in Versions : v # rt'[r].to => keys'[v] = keys[v]
           /\ keys'[rt'[r].to] # NoDEK
           /\ UNCHANGED <<rot, rows, wr, late>>
<1>1. PICK v \in 1..(MaxVersion - 1) :
         /\ CurrentVersionIs(v)
         /\ keys' = [keys EXCEPT ![v + 1] = IF @ = NoDEK THEN r ELSE @]
         /\ rt' = [rt EXCEPT ![r].pc = "start_row", ![r].to = v + 1]
  BY DEF StartCreate
<1>2. PICK n \in Versions : n = v + 1
  BY BoundAssumption DEF Versions
<1>3. rt'[r].pc = "start_row" /\ rt'[r].from = rt[r].from /\ rt'[r].to = n
  BY <1>1, <1>2 DEF TypeOK, Rotator
<1>4. r # NoDEK
  BY ActorAssumption DEF DEKs, Actors
<1>5. keys'[n] # NoDEK /\ \A u \in Versions : u # n => keys'[u] = keys[u]
  BY <1>1, <1>2, <1>4 DEF TypeOK
<1>6. \A u \in Existing : u < n
  BY <1>1, <1>2 DEF CurrentVersionIs, Existing, Versions
<1>7. QED
  BY <1>3, <1>5, <1>6 DEF StartCreate

----------------------------------------------------------------------------
(* A rotation goes to the newest version.                                  *)

\* The version a writer has in hand is the one it resolved.
LEMMA WriterVersion ==
    ASSUME TypeOK, NEW w \in Writers, WriterStep(w)
    PROVE  \/ wr'[w].pc \in {"idle", "done"}
           \/ /\ wr[w].pc \in {"load", "write"} /\ wr'[w].pc \in {"write", "insert"}
              /\ wr'[w].ver = wr[w].ver
           \/ ResolveCurrent(w)
           \/ CreateVersion(w)
<1>1. wr[w] \in Writer
  BY DEF TypeOK
<1>2. CASE LoadKey(w)
  BY <1>1, <1>2, IdleTyped DEF LoadKey, TypeOK, Writer
<1>3. CASE UpsertExisting(w)
  <2>1. wr' = [wr EXCEPT ![w].pc = "done"] \/ wr' = [wr EXCEPT ![w] = Idle]
    BY <1>3 DEF UpsertExisting
  <2>2. QED
    BY <1>1, <2>1, IdleTyped DEF TypeOK, Writer
<1>4. CASE InsertRow(w) \/ UpsertReplace(w) \/ UpsertMiss(w) \/ UpsertInsert(w) \/ WriteFails(w)
  BY <1>1, <1>4, IdleTyped DEF InsertRow, UpsertReplace, UpsertMiss, UpsertInsert, WriteFails,
     TypeOK, Writer
<1>5. QED
  BY <1>2, <1>3, <1>4 DEF WriterStep

\* A version that a writer resolved, or created, was reached.
LEMMA WriterReaches ==
    ASSUME TypeOK, PruneInv, Ascending, NEW w \in Writers, WriterStep(w)
    PROVE  /\ wr'[w].pc = "create" => wr'[w].ver = 1
           /\ wr'[w].pc \in {"load", "write", "insert"} => Reached(wr[w].ver)'
<1>n. [Next]_vars
  BY DEF Next
<1>1. CASE ResolveCurrent(w)
  <2>1. PICK r \in Rows, v \in 0..MaxVersion :
           /\ CurrentVersionIs(v)
           /\ wr' = [wr EXCEPT ![w] =
                      IF v = 0
                      THEN [pc |-> "create", row |-> r, ver |-> 1, dek |-> NoDEK]
                      ELSE [pc |-> "load", row |-> r, ver |-> v, dek |-> NoDEK]]
    BY <1>1 DEF ResolveCurrent
  <2>2. v = 0 => wr'[w].pc = "create" /\ wr'[w].ver = 1
    BY <2>1 DEF TypeOK
  <2>3. v # 0 => wr'[w].pc = "load" /\ wr'[w].ver = v
    BY <2>1 DEF TypeOK
  <2>4. v # 0 => Reached(v)
    BY <2>1 DEF CurrentVersionIs, Reached
  <2>5. v # 0 => Reached(v)'
    BY <1>n, <2>4, ReachedKept
  <2>6. QED
    BY <2>2, <2>3, <2>5 DEF Reached
<1>2. CASE CreateVersion(w)
  <2>1. wr[w].ver = 1 /\ wr'[w].pc = "load" /\ wr'[w].ver = 1
    BY <1>2 DEF CreateVersion, Ascending, TypeOK, Writer
  <2>2. 1 \in Versions /\ w # NoDEK
    BY BoundAssumption, ActorAssumption DEF Versions, DEKs, Actors
  <2>3. keys'[1] # NoDEK
    BY <1>2, <2>1, <2>2 DEF CreateVersion, TypeOK
  <2>4. Reached(1)'
    BY <2>2, <2>3 DEF Reached, Existing
  <2>5. QED
    BY <2>1, <2>4 DEF Reached
<1>3. CASE /\ wr[w].pc \in {"load", "write"} /\ wr'[w].pc \in {"write", "insert"}
           /\ wr'[w].ver = wr[w].ver
  <2>1. wr[w].ver \in Int /\ Reached(wr[w].ver)
    BY <1>3 DEF TypeOK, Writer, Ascending
  <2>2. PICK v \in Int : v = wr[w].ver
    BY <2>1
  <2>3. Reached(v)'
    BY <1>n, <2>1, <2>2, ReachedKept
  <2>4. QED
    BY <1>3, <2>2, <2>3 DEF Reached
<1>4. QED
  BY <1>1, <1>2, <1>3, WriterVersion

\* A writer creates version 1 or none.
LEMMA WriterKeys ==
    ASSUME TypeOK, Ascending, NEW w \in Writers, WriterStep(w)
    PROVE  \A u \in Existing' : u \in Existing \/ u = 1
<1>1. CASE CreateVersion(w)
  BY <1>1 DEF CreateVersion, Ascending, TypeOK, Existing
<1>2. CASE ~CreateVersion(w)
  BY <1>2 DEF WriterStep, ResolveCurrent, LoadKey, InsertRow, UpsertExisting,
     UpsertReplace, UpsertMiss, UpsertInsert, WriteFails, Existing
<1>3. QED
  BY <1>1, <1>2

\* Every step keeps it so.
LEMMA AscendingNext ==
    ASSUME TypeOK, TypeOK', PruneInv, WriteInv, Ascending, [Next]_vars
    PROVE  Ascending'
<1>t. /\ \A x \in Rows : rows[x].ver \in 0..MaxVersion
      /\ \A r \in Rotators : rt[r].from \in 0..MaxVersion /\ rt[r].to \in 0..MaxVersion
      /\ \A w \in Writers : wr[w].ver \in 0..MaxVersion
      /\ rot.from \in 0..MaxVersion /\ rot.to \in 0..MaxVersion
  BY DEF TypeOK, Row, Rotator, Writer, RotationStatus
<1>k. \A v \in 0..MaxVersion : Reached(v) => \E u \in Existing' : v <= u
  BY ReachedKept DEF Reached
<1>r. /\ \A x \in Rows : Present(x) => \E u \in Existing' : rows[x].ver <= u
      /\ \A r \in Rotators :
            /\ rt[r].pc = "start_create" => \E u \in Existing' : rt[r].from <= u
            /\ rt[r].pc \in Migrating => \E u \in Existing' : rt[r].to <= u
      /\ \A w \in Writers :
            wr[w].pc \in {"load", "write", "insert"} => \E u \in Existing' : wr[w].ver <= u
  BY <1>t, <1>k DEF Ascending
<1>1. CASE UNCHANGED vars
  BY <1>1 DEF vars, Ascending, Reached, Existing, Present
<1>2. ASSUME NEW w \in Writers, WriterStep(w)
      PROVE  Ascending'
  <2>1. UNCHANGED <<rot, rt>> /\ \A u \in Writers : u # w => wr'[u] = wr[u]
    BY <1>2, WriterAlone
  <2>2. \A v \in 1..MaxVersion :
           (\A u \in Existing : u <= v) => \A u \in Existing' : u <= v
    BY <1>2, WriterKeys
  <2>3. /\ rot.status # "none" => rot.to \in 1..MaxVersion
        /\ \A r \in Rotators : rt[r].pc = "start_row" => rt[r].to \in 1..MaxVersion
    BY DEF TypeOK, InHand, Versions
  <2>4. \A x \in Rows : rows'[x] = rows[x] \/
           (wr[w].pc \in {"write", "insert"} /\ rows'[x].ver = wr[w].ver)
    BY <1>2, CommitEffect DEF WriteInv
  <2>5. \A x \in Rows : Present(x)' => Reached(rows[x].ver)'
    BY <1>r, <2>4 DEF Present, Reached
  <2>6. \A u \in Writers :
          /\ wr'[u].pc = "create" => wr'[u].ver = 1
          /\ wr'[u].pc \in {"load", "write", "insert"} => Reached(wr[u].ver)'
    BY <1>2, <1>r, <2>1, WriterReaches DEF Ascending, Reached
  <2>7. rot'.status = "in_progress" => \A u \in Existing' : u <= rot'.to
    BY <2>1, <2>2, <2>3 DEF Ascending
  <2>8. \A r \in Rotators :
          /\ rt'[r].pc = "start_create" => Reached(rt[r].from)'
          /\ rt'[r].pc = "start_row" =>
                rt'[r].from < rt'[r].to /\ \A u \in Existing' : u <= rt'[r].to
          /\ rt'[r].pc \in {"start_create", "start_row"} => rot'.status # "in_progress"
          /\ rt'[r].pc \in Migrating => Reached(rt[r].to)'
    BY <1>r, <2>1, <2>2, <2>3 DEF Ascending, Reached
  <2>9. rot'.status # "none" => rot'.from < rot'.to
    BY <2>1 DEF Ascending
  <2>10. QED
    BY <2>5, <2>6, <2>7, <2>8, <2>9 DEF Ascending
<1>3. ASSUME NEW p \in Procs, Crash(p)
      PROVE  Ascending'
  <2>1. /\ UNCHANGED <<keys, rot, rows>>
        /\ \A w \in Writers : wr'[w] = wr[w] \/ wr'[w].pc = "idle"
        /\ \A r \in Rotators : rt'[r] = rt[r] \/ rt'[r].pc = "idle"
    BY <1>3, IdleTyped DEF Crash, IdleRun
  <2>2. QED
    BY <2>1 DEF Ascending, Reached, Existing, Present, Migrating
<1>4. ASSUME NEW r \in Rotators, RotatorStep(r)
      PROVE  Ascending'
  <2>1. UNCHANGED wr /\ \A q \in Rotators : q # r => rt'[q] = rt[q]
    BY <1>4, RotatorAlone
  <2>2. \A w \in Writers :
          /\ wr'[w].pc = "create" => wr'[w].ver = 1
          /\ wr'[w].pc \in {"load", "write", "insert"} => Reached(wr[w].ver)'
    BY <1>r, <2>1 DEF Ascending, Reached
  <2>3. \A q \in Rotators : rt[r].pc \in {"start_read", "start_create", "start_row"}
          /\ q # r => rt[q].pc \notin {"start_create", "start_row"}
    BY DEF PruneInv, StartHeld
  <2>4. ASSUME ~StartCreate(r), ~StartRow(r), ~BatchUpdate(r), ~Advance(r), ~MarkCompleted(r)
        PROVE  Ascending'
    <3>1. UNCHANGED <<rot, rows>> /\ \A u \in Existing' : u \in Existing
      BY <1>4, <2>4, QuietRun DEF Existing
    <3>2. /\ rt'[r].pc = "start_create" => Reached(rt[r].from)' /\ rot.status # "in_progress"
          /\ rt'[r].pc # "start_row"
          /\ rt'[r].pc \in Migrating => Reached(rt[r].to)'
      <4>1. CASE StartFresh(r)
        <5>1. PICK v \in 1..(MaxVersion - 1) :
                 CurrentVersionIs(v) /\ rt' = [rt EXCEPT ![r].pc = "start_create", ![r].from = v]
          BY <4>1 DEF StartFresh
        <5>2. rt'[r].pc = "start_create" /\ rt'[r].from = v
          BY <5>1 DEF TypeOK, Rotator
        <5>3. \E u \in Existing' : v <= u
          BY <1>k, <5>1, BoundAssumption DEF CurrentVersionIs, Reached
        <5>4. QED
          BY <4>1, <5>2, <5>3 DEF StartFresh, Reached, Migrating
      <4>2. CASE ContinueBegin(r)
        <5>1. rt'[r].pc \in {"complete", "select"} /\ rt'[r].to = rot.to
              /\ rot.status = "in_progress"
          BY <4>2, ContinueEffect
        <5>2. rot.to \in Versions /\ keys[rot.to] # NoDEK
          BY <5>1 DEF TypeOK, InHand, PruneInv, RecordedExists
        <5>3. Reached(rot.to)
          BY <5>2 DEF Reached, Existing, Versions
        <5>4. \E u \in Existing' : rot.to <= u
          BY <1>k, <1>t, <5>3
        <5>5. QED
          BY <5>1, <5>4 DEF Reached, Migrating
      <4>3. CASE BatchEmpty(r) \/ BatchSelect(r)
        <5>1. rt[r].pc = "select" /\ rt'[r].pc \in {"update", "advance"} /\ rt'[r].to = rt[r].to
          BY <4>3, SelectEffect
        <5>2. QED
          BY <1>r, <5>1 DEF Reached, Migrating
      <4>4. QED
        BY <1>4, <2>4, <4>1, <4>2, <4>3, QuietRunEnds
    <3>3. \A q \in Rotators :
          /\ rt'[q].pc = "start_create" => Reached(rt[q].from)'
          /\ rt'[q].pc = "start_row" =>
                rt'[q].from < rt'[q].to /\ \A u \in Existing' : u <= rt'[q].to
          /\ rt'[q].pc \in {"start_create", "start_row"} => rot'.status # "in_progress"
          /\ rt'[q].pc \in Migrating => Reached(rt[q].to)'
      BY <1>r, <2>1, <3>1, <3>2 DEF Ascending, Reached
    <3>4. QED
      BY <1>r, <2>2, <3>1, <3>3 DEF Ascending, Reached, Present
  <2>5. CASE StartCreate(r)
    <3>1. /\ rt[r].pc = "start_create" /\ rt'[r].pc = "start_row"
          /\ rt'[r].from = rt[r].from /\ rt'[r].to \in Versions
          /\ \A u \in Existing : u < rt'[r].to
          /\ \A v \in Versions : v # rt'[r].to => keys'[v] = keys[v]
          /\ UNCHANGED <<rot, rows>>
      BY <2>5, StartCreateEffect
    <3>2. PICK n \in Versions : n = rt'[r].to
      BY <3>1
    <3>3. \A u \in Existing' : u <= n
      BY <3>1, <3>2 DEF Existing, Versions
    <3>4. PICK u \in Existing : rt[r].from <= u
      BY <3>1 DEF Ascending, Reached
    <3>5. rt[r].from < n
      BY <1>t, <3>1, <3>2, <3>4 DEF Existing, Versions
    <3>6. rot.status # "in_progress"
      BY <3>1 DEF Ascending
    <3>7. \A q \in Rotators :
          /\ rt'[q].pc = "start_create" => Reached(rt[q].from)'
          /\ rt'[q].pc = "start_row" =>
                rt'[q].from < rt'[q].to /\ \A v \in Existing' : v <= rt'[q].to
          /\ rt'[q].pc \in {"start_create", "start_row"} => rot'.status # "in_progress"
          /\ rt'[q].pc \in Migrating => Reached(rt[q].to)'
      BY <1>r, <2>1, <2>3, <3>1, <3>2, <3>3, <3>5, <3>6 DEF Reached, Migrating
    <3>8. QED
      BY <1>r, <2>2, <3>1, <3>6, <3>7 DEF Ascending, Reached, Present
  <2>6. CASE StartRow(r)
    <3>1. /\ rt[r].pc = "start_row" /\ rt'[r].pc = "status"
          /\ rot'.status = "in_progress" /\ rot'.from = rt[r].from /\ rot'.to = rt[r].to
          /\ UNCHANGED <<keys, rows>>
      BY <2>6, StartRowEffect
    <3>2. rt[r].from < rt[r].to /\ \A u \in Existing : u <= rt[r].to
      BY <3>1 DEF Ascending
    <3>3. \A q \in Rotators : /\ rt'[q].pc \notin {"start_create", "start_row"}
                              /\ rt'[q].pc \in Migrating => Reached(rt[q].to)'
      BY <1>r, <2>1, <2>3, <3>1 DEF Reached, Migrating
    <3>4. rot'.from < rot'.to /\ \A u \in Existing' : u <= rot'.to
      BY <3>1, <3>2 DEF Existing
    <3>5. QED
      BY <1>r, <2>2, <3>1, <3>3, <3>4 DEF Ascending, Reached, Present
  <2>7. CASE BatchUpdate(r)
    <3>1. /\ rt[r].pc = "update" /\ rt'[r].pc = "status" /\ UNCHANGED <<keys, rot>>
          /\ \A x \in Rows : rows'[x] = rows[x] \/ rows'[x].ver = rt[r].to
      BY <2>7, BatchUpdateEffect DEF WriteInv
    <3>2. \A x \in Rows : Present(x)' => Reached(rows[x].ver)'
      BY <1>r, <3>1 DEF Present, Reached, Migrating
    <3>3. \A q \in Rotators : rt'[q] = rt[q] \/ rt'[q].pc = "status"
      BY <2>1, <3>1
    <3>4. QED
      BY <2>2, <3>1, <3>2, <3>3 DEF Ascending, Reached, Existing, Migrating
  <2>8. CASE Advance(r)
    <3>1. /\ rt[r].pc = "advance" /\ rt'[r].pc \in {"complete", "select"}
          /\ rt'[r].to = rt[r].to /\ UNCHANGED <<keys, rows>>
          /\ rot'.status = rot.status /\ rot'.from = rot.from /\ rot'.to = rot.to
      BY <2>8, AdvanceEffect
    <3>2. \A q \in Rotators : \/ rt'[q] = rt[q]
                              \/ /\ rt'[q].pc \in {"complete", "select"} /\ rt'[q].to = rt[q].to
                                 /\ rt[q].pc = "advance"
      BY <2>1, <3>1
    <3>3. \A q \in Rotators :
          /\ rt'[q].pc = "start_create" => Reached(rt[q].from)'
          /\ rt'[q].pc = "start_row" =>
                rt'[q].from < rt'[q].to /\ \A v \in Existing' : v <= rt'[q].to
          /\ rt'[q].pc \in {"start_create", "start_row"} => rot'.status # "in_progress"
          /\ rt'[q].pc \in Migrating => Reached(rt[q].to)'
      BY <1>r, <3>1, <3>2 DEF Ascending, Reached, Existing, Migrating
    <3>4. QED
      BY <1>r, <2>2, <3>1, <3>3 DEF Ascending, Reached, Existing, Present
  <2>9. CASE MarkCompleted(r)
    <3>1. /\ rt'[r].pc = "idle" /\ UNCHANGED <<keys, rows>> /\ rt[r].pc = "complete"
          /\ rot'.status = "completed" /\ rot'.from = rot.from /\ rot'.to = rot.to
      BY <2>9, CompleteEffect
    <3>2. rot.from < rot.to
      BY <3>1 DEF Ascending, TypeOK, InHand
    <3>3. \A q \in Rotators : rt'[q] = rt[q] \/ rt'[q].pc = "idle"
      BY <2>1, <3>1
    <3>4. QED
      BY <2>2, <3>1, <3>2, <3>3 DEF Ascending, Reached, Existing, Present, Migrating
  <2>10. QED
    BY <2>4, <2>5, <2>6, <2>7, <2>8, <2>9
<1>5. QED
  BY <1>1, <1>2, <1>3, <1>4 DEF Next

----------------------------------------------------------------------------
(* One rotation at a time: what a completed rotation leaves.               *)

\* While a run is at work no other creates or records the next rotation.
LEMMA NoOtherStarts ==
    ASSUME OneAtATime, TypeOK, PruneInv, Ascending, NEW r \in Rotators, NEW q \in Rotators,
           StartCreate(r) \/ StartRow(r), q # r
    PROVE  rt[q].pc \notin Migrating
<1> SUFFICES ASSUME rt[q].pc \in Migrating
             PROVE  FALSE
  OBVIOUS
<1>1. MaxVersion <= 2
  BY DEF OneAtATime
<1>2. rot.status # "none" /\ rot.from \in Versions /\ rot.to \in Versions
  BY DEF TypeOK, InHand, Migrating
<1>3. rot.to = 2
  BY <1>1, <1>2, BoundAssumption DEF Versions, Ascending
<1>4. 2 \in Existing
  BY <1>2, <1>3 DEF PruneInv, RecordedExists, Existing
<1>5. CASE StartCreate(r)
  <2>1. \A u \in Existing : u < rt'[r].to
    BY <1>5, StartCreateEffect
  <2>2. rt'[r].to \in Versions
    BY <1>5, StartCreateEffect
  <2>3. QED
    BY <1>1, <1>4, <2>1, <2>2, BoundAssumption DEF Versions
<1>6. CASE StartRow(r)
  <2>1. rt[r].pc = "start_row" /\ rt[r].to \in 0..MaxVersion
    BY <1>6 DEF StartRow, TypeOK, Rotator
  <2>2. rt[r].to > 2
    BY <1>3, <2>1 DEF PruneInv, StartAhead
  <2>3. QED
    BY <1>1, <2>1, <2>2, BoundAssumption
<1>7. QED
  BY <1>5, <1>6

\* A run at work stays at work on the recorded rotation.
LEMMA SameRotationNext ==
    ASSUME OneAtATime, TypeOK, PruneInv, WriteInv, Ascending, SameRotation, [Next]_vars
    PROVE  SameRotation'
<1>1. CASE UNCHANGED vars
  BY <1>1 DEF vars, SameRotation, Existing
<1>2. ASSUME NEW w \in Writers, WriterStep(w)
      PROVE  SameRotation'
  <2>1. UNCHANGED <<rot, rt>>
    BY <1>2, WriterAlone
  <2>2. \A r \in Rotators : rt[r].pc \in Migrating => rot.to \in 1..MaxVersion
    BY DEF TypeOK, InHand, Migrating, Versions
  <2>3. \A u \in Existing' : u \in Existing \/ u = 1
    BY <1>2, WriterKeys
  <2>4. QED
    BY <2>1, <2>2, <2>3 DEF SameRotation
<1>3. ASSUME NEW p \in Procs, Crash(p)
      PROVE  SameRotation'
  <2>1. /\ UNCHANGED <<keys, rot>>
        /\ \A r \in Rotators : rt'[r] = rt[r] \/ rt'[r].pc = "idle"
    BY <1>3 DEF Crash, IdleRun
  <2>2. QED
    BY <2>1 DEF SameRotation, Existing, Migrating
<1>4. ASSUME NEW r \in Rotators, RotatorStep(r)
      PROVE  SameRotation'
  <2>1. \A q \in Rotators : q # r => rt'[q] = rt[q]
    BY <1>4, RotatorAlone
  <2>2. CASE StartCreate(r) \/ StartRow(r)
    <3>1. rt'[r].pc \notin Migrating
      BY <2>2, StartCreateEffect, StartRowEffect DEF Migrating
    <3>2. \A q \in Rotators : rt'[q].pc \notin Migrating
      BY <2>1, <2>2, <3>1, NoOtherStarts
    <3>3. QED
      BY <3>2 DEF SameRotation
  <2>3. CASE Advance(r)
    <3>1. /\ rt[r].pc = "advance" /\ rt'[r].from = rt[r].from /\ rt'[r].to = rt[r].to
          /\ rot'.from = rot.from /\ rot'.to = rot.to /\ UNCHANGED keys
      BY <2>3, AdvanceEffect
    <3>2. QED
      BY <2>1, <3>1 DEF SameRotation, Existing, Migrating
  <2>4. CASE MarkCompleted(r)
    <3>1. /\ rt'[r].pc = "idle" /\ rot'.from = rot.from /\ rot'.to = rot.to /\ UNCHANGED keys
      BY <2>4, CompleteEffect
    <3>2. QED
      BY <2>1, <3>1 DEF SameRotation, Existing, Migrating
  <2>5. CASE BatchUpdate(r)
    <3>1. rt'[r].pc = "status" /\ UNCHANGED <<keys, rot>>
      BY <2>5, BatchUpdateEffect DEF WriteInv
    <3>2. QED
      BY <2>1, <3>1 DEF SameRotation, Existing, Migrating
  <2>6. ASSUME ~StartCreate(r), ~StartRow(r), ~BatchUpdate(r), ~Advance(r), ~MarkCompleted(r)
        PROVE  SameRotation'
    <3>1. UNCHANGED rot /\ \A u \in Existing' : u \in Existing
      BY <1>4, <2>6, QuietRun DEF Existing
    <3>2. rt'[r].pc \in Migrating =>
            rt'[r].from = rot.from /\ rt'[r].to = rot.to /\ \A u \in Existing : u <= rot.to
      <4>1. CASE StartFresh(r)
        BY <4>1 DEF StartFresh, TypeOK, Rotator, Migrating
      <4>2. CASE ContinueBegin(r)
        BY <4>2, ContinueEffect DEF Ascending
      <4>3. CASE BatchEmpty(r) \/ BatchSelect(r)
        BY <4>3, SelectEffect DEF SameRotation, Migrating
      <4>4. QED
        BY <1>4, <2>6, <4>1, <4>2, <4>3, QuietRunEnds
    <3>3. QED
      BY <2>1, <3>1, <3>2 DEF SameRotation
  <2>7. QED
    BY <2>2, <2>3, <2>4, <2>5, <2>6
<1>5. QED
  BY <1>1, <1>2, <1>3, <1>4 DEF Next

\* Facts and summary move together when a writer stores them ...
LEMMA LockstepCommit ==
    ASSUME TypeOK, InsertedOnce, Lockstep, NEW w \in Writers, WriterStep(w)
    PROVE  Lockstep'
<1>1. CASE UNCHANGED <<rows, late>>
  BY <1>1 DEF Lockstep
<1>2. ASSUME NEW X \in SUBSET Rows,
             wr[w].pc \in {"write", "insert"}, late' = LateAfter(X, wr[w].ver),
             \A x \in X : rows'[x].ver = wr[w].ver,
             \A x \in Rows \ X : rows'[x] = rows[x],
             \/ TableOf[wr[w].row] = "entities" /\ X = {wr[w].row}
             \/ X = {wr[w].row} \cup FactsOf(wr[w].row)
      PROVE  Lockstep'
  <2> SUFFICES ASSUME NEW f \in Rows, TableOf[f] = "facts"
               PROVE  /\ rows'[f].ver = rows'[ParentOf[f]].ver
                      /\ f \in late' <=> ParentOf[f] \in late'
    BY DEF Lockstep
  <2>1. ParentOf[f] \in Rows /\ TableOf[ParentOf[f]] = "summaries"
    BY RowAssumption
  <2>2. wr[w].row \in Rows /\ TableOf[wr[w].row] # "facts"
    BY <1>2 DEF TypeOK, Writer, InsertedOnce
  <2>3. f \in X <=> ParentOf[f] \in X
    BY <1>2, <2>1, <2>2 DEF FactsOf
  <2>4. rows'[f].ver = rows'[ParentOf[f]].ver
    BY <1>2, <2>1, <2>3 DEF Lockstep
  <2>5. f \in late' <=> ParentOf[f] \in late'
    BY <1>2, <2>1, <2>3 DEF Lockstep, LateAfter
  <2>6. QED
    BY <2>4, <2>5
<1>3. QED
  BY <1>1, <1>2, CommitEffect

\* ... and when a run migrates them.
LEMMA LockstepMigrated ==
    ASSUME TypeOK, WriteInv, SameRotation, Lockstep, BatchAt, PassedIsClean,
           NEW r \in Rotators, BatchUpdate(r)
    PROVE  Lockstep'
<1> SUFFICES ASSUME NEW f \in Rows, TableOf[f] = "facts"
             PROVE  /\ rows'[f].ver = rows'[ParentOf[f]].ver
                    /\ f \in late' <=> ParentOf[f] \in late'
  BY DEF Lockstep
<1>1. PICK B, F : B = rt[r].batch /\ F = BatchFacts(r)
  OBVIOUS
<1>2. PICK n : n = ParentOf[f]
  OBVIOUS
<1>3. n \in Rows /\ TableOf[n] = "summaries"
  BY <1>2, RowAssumption
<1>4. /\ rt[r].pc = "update" /\ late' = LateAfter(B \cup F, rt[r].to)
      /\ \A x \in B : rows'[x].ver = rt[r].to
      /\ \A x \in F : rows'[x].ver = rt[r].to
      /\ \A x \in Rows \ (B \cup F) : rows'[x] = rows[x]
      /\ \A x \in B : TableOf[x] # "facts"
      /\ \A x \in F : TableOf[x] = "facts"
  BY <1>1, BatchUpdateEffect DEF WriteInv
<1>5. rt[r].from = rot.from /\ rt[r].to = rot.to
  BY <1>4 DEF SameRotation, Migrating
<1>6. late' = late \ (B \cup F)
  <2>1. ~(rot.to < rot.to)
    BY DEF TypeOK, RotationStatus
  <2>2. QED
    BY <1>4, <1>5, <2>1 DEF LateAfter
<1>7. rows[f].ver = rows[n].ver /\ (f \in late <=> n \in late)
  BY <1>2 DEF Lockstep
<1>8. f \in F <=> n \in B /\ rows[f].ver = rt[r].from
  BY <1>1, <1>2 DEF BatchFacts
<1>9. CASE n \notin B
  BY <1>2, <1>3, <1>4, <1>6, <1>7, <1>8, <1>9
<1>10. CASE n \in B /\ f \in F
  BY <1>2, <1>3, <1>4, <1>6, <1>10
<1>11. CASE n \in B /\ f \notin F
  <2>1. rows[f].ver = rot.to
    BY <1>1, <1>3, <1>4, <1>5, <1>7, <1>8, <1>11 DEF BatchAt
  <2>2. f \notin late
    BY <2>1 DEF PassedIsClean, TypeOK, RotationStatus
  <2>3. rows'[f] = rows[f]
    BY <1>4, <1>11
  <2>4. QED
    BY <1>2, <1>4, <1>5, <1>6, <1>11, <2>1, <2>2, <2>3
<1>12. QED
  BY <1>9, <1>10, <1>11

\* A writer does not touch an episode or a summary that a run has in hand.
LEMMA BatchAtCommit ==
    ASSUME TypeOK, WriteInv, BatchAt, NEW w \in Writers, WriterStep(w)
    PROVE  BatchAt'
<1>1. UNCHANGED <<rot, rt>>
  BY WriterAlone
<1>2. ASSUME NEW r \in Rotators, rt[r].pc = "update", NEW x \in rt[r].batch,
             TableOf[x] # "entities"
      PROVE  rows'[x] = rows[x]
  <2>1. x \in Rows /\ rt[r].table # "facts"
    BY <1>2 DEF TypeOK, Rotator
  <2>2. TableOf[x] # "facts" /\ Present(x)
    BY <1>2, <2>1 DEF WriteInv, BufferTrue
  <2>3. ASSUME NEW X \in SUBSET Rows, wr[w].pc \in {"write", "insert"},
               \A y \in Rows \ X : rows'[y] = rows[y],
               \/ TableOf[wr[w].row] = "entities" /\ X = {wr[w].row}
               \/ /\ TableOf[wr[w].row] # "entities" /\ wr[w].pc = "write"
                  /\ X = {wr[w].row} \cup FactsOf(wr[w].row)
        PROVE  rows'[x] = rows[x]
    <3>1. x \notin X
      BY <1>2, <2>2, <2>3 DEF FactsOf, WriteInv, InsertedOnce
    <3>2. QED
      BY <2>1, <2>3, <3>1
  <2>4. QED
    BY <2>3, CommitEffect DEF WriteInv
<1>3. QED
  BY <1>1, <1>2 DEF BatchAt

\* A commit under the old version is late, and one under a newer is not on the old.
LEMMA CommitKeepsClean ==
    ASSUME TypeOK, rot.from < rot.to, NEW X \in SUBSET Rows, NEW v \in 0..MaxVersion,
           UNCHANGED rot, late' = LateAfter(X, v),
           \A x \in X : rows'[x].ver = v,
           \A x \in Rows \ X : rows'[x] = rows[x],
           NEW T, Clean(T)
    PROVE  Clean(T)'
<1> SUFFICES ASSUME NEW x \in Rows, TableOf[x] \in T, rows'[x].ver = rot.from
             PROVE  x \in late'
  BY DEF Clean
<1>1. CASE x \in X
  BY <1>1 DEF LateAfter
<1>2. CASE x \notin X
  BY <1>2 DEF LateAfter, Clean
<1>3. QED
  BY <1>1, <1>2

\* And what is late stays behind the recorded version.
LEMMA CommitKeepsLate ==
    ASSUME TypeOK, \A x \in late : rows[x].ver < rot.to,
           NEW X \in SUBSET Rows, NEW v \in 0..MaxVersion,
           UNCHANGED rot, late' = LateAfter(X, v),
           \A x \in X : rows'[x].ver = v,
           \A x \in Rows \ X : rows'[x] = rows[x]
    PROVE  \A x \in late' : rows'[x].ver < rot'.to
<1> SUFFICES ASSUME NEW x \in late'
             PROVE  rows'[x].ver < rot.to
  OBVIOUS
<1>1. x \in late => x \in Rows
  BY DEF TypeOK
<1>2. CASE x \in X
  BY <1>2 DEF LateAfter
<1>3. CASE x \notin X
  BY <1>1, <1>3 DEF LateAfter
<1>4. QED
  BY <1>2, <1>3

\* The tables that a commit finds clean it leaves clean.
LEMMA CleanAfterCommit ==
    ASSUME TypeOK, Ascending, PassedIsClean,
           NEW X \in SUBSET Rows, NEW v \in 0..MaxVersion,
           UNCHANGED rot, late' = LateAfter(X, v),
           \A x \in X : rows'[x].ver = v,
           \A x \in Rows \ X : rows'[x] = rows[x],
           \A r \in Rotators : rt'[r] = rt[r] \/ rt'[r].pc = "status"
    PROVE  PassedIsClean'
<1>1. \A x \in late' : rows'[x].ver < rot'.to
  BY CommitKeepsLate DEF PassedIsClean
<1>2. ASSUME NEW T, Clean(T), rot.status # "none"
      PROVE  Clean(T)'
  <2>1. rot.from < rot.to
    BY <1>2 DEF Ascending
  <2>2. QED
    BY <1>2, <2>1, CommitKeepsClean
<1>3. /\ rot'.status # "none" => Clean(Passed(rot.table))'
      /\ rot'.status = "completed" => Clean(Tables)'
  <2>1. PICK T : T = Passed(rot.table)
    OBVIOUS
  <2>2. rot.status # "none" => Clean(T)'
    BY <1>2, <2>1 DEF PassedIsClean
  <2>3. rot.status = "completed" => Clean(Tables)'
    BY <1>2 DEF PassedIsClean
  <2>4. QED
    BY <2>1, <2>2, <2>3 DEF Clean, Passed
<1>4. ASSUME NEW r \in Rotators
      PROVE  /\ rt'[r].pc \in {"select", "update", "advance"} => Clean(Passed(rt[r].table))'
             /\ rt'[r].pc = "advance" => Clean({rt[r].table})'
             /\ rt'[r].pc = "complete" => Clean(Tables)'
  <2>1. CASE rt'[r].pc = "status"
    BY <2>1
  <2>2. CASE rt'[r] = rt[r] /\ rt[r].pc \in Migrating
    <3>1. rot.status # "none"
      BY <2>2 DEF TypeOK, InHand, Migrating
    <3>2. PICK T, U : T = Passed(rt[r].table) /\ U = {rt[r].table}
      OBVIOUS
    <3>3. /\ rt[r].pc \in {"select", "update", "advance"} => Clean(T)'
          /\ rt[r].pc = "advance" => Clean(U)'
          /\ rt[r].pc = "complete" => Clean(Tables)'
      BY <1>2, <3>1, <3>2 DEF PassedIsClean
    <3>4. QED
      BY <2>2, <3>2, <3>3 DEF Clean, Passed
  <2>3. QED
    BY <1>4, <2>1, <2>2 DEF Migrating
<1>5. QED
  BY <1>1, <1>3, <1>4 DEF PassedIsClean

\* A batch is empty only where nothing is left: LIMIT is at least 1.
LEMMA EmptyBatch ==
    ASSUME NEW r \in Rotators, IsBatch({}, r)
    PROVE  OnOldVersion(r) = {}
<1>1. Cardinality({}) = 0
  BY FS_EmptySet
<1>2. clampBatchSize(BatchSize) # 0
  BY BoundAssumption DEF clampBatchSize
<1>3. QED
  BY <1>1, <1>2 DEF IsBatch

\* The tables before the cursor, when it moves.
LEMMA PassedTables ==
    ASSUME NEW t \in {"episodes", "summaries", "entities", "done"}
    PROVE  /\ \A u \in Passed(nextTable(t)) :
                 u \in Passed(t) \/ u = t \/ (t = "summaries" /\ u = "facts")
           /\ Passed("done") = Tables
           /\ Passed("episodes") = {}
<1>1. CASE t = "episodes"
  BY <1>1 DEF Passed, nextTable
<1>2. CASE t = "summaries"
  BY <1>2 DEF Passed, nextTable
<1>3. CASE t = "entities"
  BY <1>3 DEF Passed, nextTable, Tables
<1>4. CASE t = "done"
  BY <1>4 DEF Passed, nextTable
<1>5. QED
  BY <1>1, <1>2, <1>3, <1>4 DEF Passed

\* Nothing that matters here changes but what runs have in hand.
LEMMA CleanUntouched ==
    ASSUME PassedIsClean, UNCHANGED <<rows, late>>,
           rot'.status = rot.status, rot'.from = rot.from, rot'.to = rot.to,
           rot'.table = rot.table,
           \A r \in Rotators : \/ rt'[r] = rt[r]
                               \/ rt'[r].pc \notin Migrating
                               \/ /\ rt'[r].pc \in {"select", "update", "advance"}
                                     => Clean(Passed(rt'[r].table))
                                  /\ rt'[r].pc = "advance" => Clean({rt'[r].table})
                                  /\ rt'[r].pc = "complete" => Clean(Tables)
    PROVE  PassedIsClean'
<1>1. \A T : Clean(T) =>
         \A x \in Rows : TableOf[x] \in T /\ rows'[x].ver = rot'.from => x \in late'
  BY DEF Clean
<1>2. /\ \A x \in late' : rows'[x].ver < rot'.to
      /\ rot'.status # "none" => Clean(Passed(rot.table))'
      /\ rot'.status = "completed" => Clean(Tables)'
  BY <1>1 DEF PassedIsClean, Clean, Passed
<1>3. ASSUME NEW r \in Rotators
      PROVE  /\ rt'[r].pc \in {"select", "update", "advance"} => Clean(Passed(rt[r].table))'
             /\ rt'[r].pc = "advance" => Clean({rt[r].table})'
             /\ rt'[r].pc = "complete" => Clean(Tables)'
  <2>1. /\ rt'[r].pc \in {"select", "update", "advance"} => Clean(Passed(rt'[r].table))
        /\ rt'[r].pc = "advance" => Clean({rt'[r].table})
        /\ rt'[r].pc = "complete" => Clean(Tables)
    BY DEF PassedIsClean, Migrating
  <2>2. QED
    BY <1>1, <2>1 DEF Clean, Passed
<1>4. QED
  BY <1>2, <1>3 DEF PassedIsClean

\* What a run does to the tables that are clean.
LEMMA CleanRun ==
    ASSUME OneAtATime, TypeOK, PruneInv, WriteInv, TurnInv, NEW r \in Rotators, RotatorStep(r)
    PROVE  PassedIsClean'
<1>t. Ascending /\ SameRotation /\ Lockstep /\ BatchAt /\ PassedIsClean
  BY DEF TurnInv
<1>o. \A q \in Rotators : q # r => rt'[q] = rt[q]
  BY RotatorAlone
<1>1. CASE BatchUpdate(r)
  <2>1. PICK X : X = rt[r].batch \cup BatchFacts(r)
    OBVIOUS
  <2>2. /\ X \in SUBSET Rows /\ UNCHANGED rot /\ late' = LateAfter(X, rt[r].to)
        /\ \A x \in X : rows'[x].ver = rt[r].to
        /\ \A x \in Rows \ X : rows'[x] = rows[x]
        /\ rt'[r].pc = "status"
    BY <1>1, <2>1, BatchUpdateEffect DEF WriteInv
  <2>3. rt[r].to \in 0..MaxVersion
    BY DEF TypeOK, Rotator
  <2>4. \A q \in Rotators : rt'[q] = rt[q] \/ rt'[q].pc = "status"
    BY <1>o, <2>2
  <2>5. QED
    BY <1>t, <2>2, <2>3, <2>4, CleanAfterCommit
<1>2. CASE StartCreate(r)
  <2>1. UNCHANGED <<rot, rows, late>> /\ rt'[r].pc = "start_row"
    BY <1>2, StartCreateEffect
  <2>2. QED
    BY <1>o, <1>t, <2>1, CleanUntouched DEF Migrating
<1>3. CASE StartRow(r)
  <2>1. /\ rt[r].pc = "start_row" /\ rt'[r].pc = "status"
        /\ rot'.status = "in_progress" /\ rot'.to = rt[r].to
        /\ rot'.table = "episodes" /\ UNCHANGED <<rows, late>>
    BY <1>3, StartRowEffect
  <2>2. \A q \in Rotators : rt'[q].pc \notin Migrating
    BY <1>3, <1>o, <1>t, <2>1, NoOtherStarts DEF Migrating
  <2>3. rt[r].to > rot.to /\ rt[r].to \in Int /\ rot.to \in Int
    BY <2>1 DEF PruneInv, StartAhead, TypeOK, Rotator, RotationStatus
  <2>4. \A x \in late : rows[x].ver \in Int /\ rows[x].ver < rot.to
    BY <1>t DEF PassedIsClean, TypeOK, Row
  <2>5. \A x \in late' : rows'[x].ver < rot'.to
    BY <2>1, <2>3, <2>4
  <2>6. Clean(Passed(rot.table))'
    BY <2>1 DEF Clean, Passed
  <2>7. QED
    BY <2>1, <2>2, <2>5, <2>6 DEF PassedIsClean, Migrating
<1>4. CASE Advance(r)
  <2>1. PICK t : t = rt[r].table
    OBVIOUS
  <2>2. PICK n : n = nextTable(t)
    OBVIOUS
  <2>3. /\ rt[r].pc = "advance" /\ rt'[r].table = n
        /\ rt'[r].pc = IF n = "done" THEN "complete" ELSE "select"
        /\ rot'.status = rot.status /\ rot'.from = rot.from /\ rot'.to = rot.to
        /\ rot'.table = n
        /\ UNCHANGED <<rows, late>>
    BY <1>4, <2>1, <2>2, AdvanceEffect
  <2>4. Clean(Passed(t)) /\ Clean({t})
    BY <1>t, <2>1, <2>3 DEF PassedIsClean
  <2>5. t \in {"episodes", "summaries", "entities", "done"}
    BY <2>1 DEF TypeOK, Rotator
  <2>6. \A u \in Passed(n) : u \in Passed(t) \/ u = t \/ (t = "summaries" /\ u = "facts")
    BY <2>2, <2>5, PassedTables
  <2>7. Clean(Passed(n))
    <3> SUFFICES ASSUME NEW x \in Rows, TableOf[x] \in Passed(n), rows[x].ver = rot.from
                 PROVE  x \in late
      BY DEF Clean
    <3>1. CASE TableOf[x] \in Passed(t) \/ TableOf[x] = t
      BY <2>4, <3>1 DEF Clean
    <3>2. CASE t = "summaries" /\ TableOf[x] = "facts"
      <4>1. ParentOf[x] \in Rows /\ TableOf[ParentOf[x]] = t
        BY <3>2, RowAssumption
      <4>2. rows[ParentOf[x]].ver = rot.from /\ (x \in late <=> ParentOf[x] \in late)
        BY <1>t, <3>2 DEF Lockstep
      <4>3. QED
        BY <2>4, <4>1, <4>2 DEF Clean
    <3>3. QED
      BY <2>6, <3>1, <3>2
  <2>8. n = "done" => Clean(Tables)
    BY <2>5, <2>7, PassedTables
  <2>9. \A T : Clean(T) =>
           \A x \in Rows : TableOf[x] \in T /\ rows'[x].ver = rot'.from => x \in late'
    BY <2>3 DEF Clean
  <2>10. /\ \A x \in late' : rows'[x].ver < rot'.to
         /\ rot'.status # "none" => Clean(Passed(rot.table))'
         /\ rot'.status = "completed" => Clean(Tables)'
    BY <1>t, <2>3, <2>7, <2>9 DEF PassedIsClean, Clean, Passed
  <2>11. ASSUME NEW q \in Rotators
         PROVE  /\ rt'[q].pc \in {"select", "update", "advance"} => Clean(Passed(rt[q].table))'
                /\ rt'[q].pc = "advance" => Clean({rt[q].table})'
                /\ rt'[q].pc = "complete" => Clean(Tables)'
    <3>1. /\ rt'[q].pc \in {"select", "update", "advance"} => Clean(Passed(rt'[q].table))
          /\ rt'[q].pc = "advance" => Clean({rt'[q].table})
          /\ rt'[q].pc = "complete" => Clean(Tables)
      BY <1>o, <1>t, <2>3, <2>7, <2>8 DEF PassedIsClean
    <3>2. QED
      BY <2>9, <3>1 DEF Clean, Passed
  <2>12. QED
    BY <2>10, <2>11 DEF PassedIsClean
<1>5. CASE MarkCompleted(r)
  <2>1. /\ rt[r].pc = "complete" /\ rt'[r].pc = "idle"
        /\ rot'.status = "completed" /\ rot'.from = rot.from /\ rot'.to = rot.to
        /\ rot'.table = rot.table
        /\ UNCHANGED <<rows, late>>
    BY <1>5, CompleteEffect
  <2>2. Clean(Tables) /\ rot.status # "none"
    BY <1>t, <2>1 DEF PassedIsClean, TypeOK, InHand
  <2>3. \A T : Clean(T) =>
           \A x \in Rows : TableOf[x] \in T /\ rows'[x].ver = rot'.from => x \in late'
    BY <2>1 DEF Clean
  <2>4. /\ \A x \in late' : rows'[x].ver < rot'.to
        /\ rot'.status # "none" => Clean(Passed(rot.table))'
        /\ rot'.status = "completed" => Clean(Tables)'
    BY <1>t, <2>1, <2>2, <2>3 DEF PassedIsClean, Clean, Passed
  <2>5. ASSUME NEW q \in Rotators
        PROVE  /\ rt'[q].pc \in {"select", "update", "advance"} => Clean(Passed(rt[q].table))'
               /\ rt'[q].pc = "advance" => Clean({rt[q].table})'
               /\ rt'[q].pc = "complete" => Clean(Tables)'
    <3>1. /\ rt'[q].pc \in {"select", "update", "advance"} => Clean(Passed(rt'[q].table))
          /\ rt'[q].pc = "advance" => Clean({rt'[q].table})
          /\ rt'[q].pc = "complete" => Clean(Tables)
      BY <1>o, <1>t, <2>1 DEF PassedIsClean
    <3>2. QED
      BY <2>3, <3>1 DEF Clean, Passed
  <2>6. QED
    BY <2>4, <2>5 DEF PassedIsClean
<1>6. ASSUME ~StartCreate(r), ~StartRow(r), ~BatchUpdate(r), ~Advance(r), ~MarkCompleted(r)
      PROVE  PassedIsClean'
  <2>1. UNCHANGED <<rot, rows, late>>
    BY <1>6, QuietRun
  <2>2. \/ rt'[r].pc \notin Migrating
        \/ /\ rt'[r].pc \in {"select", "update", "advance"} => Clean(Passed(rt'[r].table))
           /\ rt'[r].pc = "advance" => Clean({rt'[r].table})
           /\ rt'[r].pc = "complete" => Clean(Tables)
    <3>1. CASE StartFresh(r)
      BY <3>1 DEF StartFresh, TypeOK, Rotator, Migrating
    <3>2. CASE ContinueBegin(r)
      <4>1. /\ rot.status = "in_progress" /\ rt'[r].table = rot.table
            /\ rt'[r].pc = IF rot.table = "done" THEN "complete" ELSE "select"
        BY <3>2, ContinueEffect
      <4>2. Clean(Passed(rot.table))
        BY <1>t, <4>1 DEF PassedIsClean
      <4>3. rot.table = "done" => Clean(Tables)
        BY <4>2, PassedTables
      <4>4. QED
        BY <4>1, <4>2, <4>3
    <3>3. CASE BatchEmpty(r) \/ BatchSelect(r)
      <4>1. /\ rt[r].pc = "select" /\ rt'[r].pc \in {"update", "advance"}
            /\ rt'[r].pc = "advance" => BatchEmpty(r)
            /\ rt'[r].table = rt[r].table
        BY <3>3, SelectEffect
      <4>2. BatchEmpty(r) => OnOldVersion(r) = {} /\ rt[r].from = rot.from
        BY <1>t, <4>1, EmptyBatch DEF BatchEmpty, SameRotation, Migrating
      <4>3. BatchEmpty(r) => Clean({rt[r].table})
        BY <4>2 DEF OnOldVersion, Clean
      <4>4. QED
        BY <1>t, <4>1, <4>3 DEF PassedIsClean
    <3>4. QED
      BY <1>6, <3>1, <3>2, <3>3, QuietRunEnds
  <2>3. QED
    BY <1>o, <1>t, <2>1, <2>2, CleanUntouched
<1>7. QED
  BY <1>1, <1>2, <1>3, <1>4, <1>5, <1>6

\* What a run has selected stays on the old version, or has reached the new one.
LEMMA BatchAtRun ==
    ASSUME OneAtATime, TypeOK, PruneInv, WriteInv, TurnInv, NEW r \in Rotators, RotatorStep(r)
    PROVE  BatchAt'
<1>t. Ascending /\ SameRotation /\ BatchAt
  BY DEF TurnInv
<1>o. \A q \in Rotators : q # r => rt'[q] = rt[q]
  BY RotatorAlone
<1>1. ASSUME UNCHANGED rows, rot'.from = rot.from, rot'.to = rot.to, rt'[r].pc # "update"
      PROVE  BatchAt'
  BY <1>o, <1>t, <1>1 DEF BatchAt
<1>2. CASE BatchUpdate(r)
  <2>1. /\ rt[r].pc = "update" /\ rt'[r].pc = "status" /\ UNCHANGED rot
        /\ \A x \in Rows : rows'[x] = rows[x] \/ rows'[x].ver = rt[r].to
    BY <1>2, BatchUpdateEffect DEF WriteInv
  <2>2. rt[r].to = rot.to
    BY <1>t, <2>1 DEF SameRotation, Migrating
  <2>3. \A q \in Rotators : rt[q].batch \subseteq Rows
    BY DEF TypeOK, Rotator
  <2>4. \A q \in Rotators : rt'[q].pc = "update" => rt'[q] = rt[q]
    BY <1>o, <2>1
  <2>5. QED
    BY <1>t, <2>1, <2>2, <2>3, <2>4 DEF BatchAt
<1>3. CASE StartRow(r)
  <2>1. rt'[r].pc = "status"
    BY <1>3, StartRowEffect
  <2>2. \A q \in Rotators : rt'[q].pc # "update"
    BY <1>3, <1>o, <1>t, <2>1, NoOtherStarts DEF Migrating
  <2>3. QED
    BY <2>2 DEF BatchAt
<1>4. CASE StartCreate(r)
  BY <1>1, <1>4, StartCreateEffect
<1>5. CASE Advance(r)
  BY <1>1, <1>5, AdvanceEffect
<1>6. CASE MarkCompleted(r)
  BY <1>1, <1>6, CompleteEffect
<1>7. ASSUME ~StartCreate(r), ~StartRow(r), ~BatchUpdate(r), ~Advance(r), ~MarkCompleted(r)
      PROVE  BatchAt'
  <2>1. UNCHANGED <<rot, rows>>
    BY <1>7, QuietRun
  <2>2. CASE BatchSelect(r)
    <3>1. PICK B, b :
             /\ B \in SUBSET OnOldVersion(r)
             /\ rt' = [rt EXCEPT ![r].pc = "update", ![r].batch = B, ![r].buf = b]
      BY <2>2 DEF BatchSelect
    <3>2. rt'[r].batch = B /\ rt[r].pc = "select"
      BY <2>2, <3>1 DEF TypeOK, Rotator, BatchSelect
    <3>3. rt[r].from = rot.from
      BY <1>t, <3>2 DEF SameRotation, Migrating
    <3>4. \A x \in B : rows[x].ver = rot.from
      BY <3>1, <3>3 DEF OnOldVersion
    <3>5. QED
      BY <1>o, <1>t, <2>1, <3>2, <3>4 DEF BatchAt
  <2>3. CASE ~BatchSelect(r)
    <3>1. CASE StartFresh(r)
      BY <1>1, <2>1, <3>1 DEF StartFresh, TypeOK, Rotator
    <3>2. CASE ContinueBegin(r)
      BY <1>1, <2>1, <3>2, ContinueEffect
    <3>3. CASE BatchEmpty(r)
      BY <1>1, <2>1, <2>3, <3>3, SelectEffect
    <3>4. CASE rt'[r].pc \notin Migrating
      BY <1>1, <2>1, <3>4 DEF Migrating
    <3>5. QED
      BY <1>7, <2>3, <3>1, <3>2, <3>3, <3>4, QuietRunEnds
  <2>4. QED
    BY <2>2, <2>3
<1>8. QED
  BY <1>2, <1>3, <1>4, <1>5, <1>6, <1>7

\* A run that does not migrate leaves facts and summaries alone.
LEMMA LockstepRun ==
    ASSUME TypeOK, WriteInv, TurnInv, NEW r \in Rotators, RotatorStep(r)
    PROVE  Lockstep'
<1>1. CASE BatchUpdate(r)
  BY <1>1, LockstepMigrated DEF TurnInv
<1>2. CASE ~BatchUpdate(r)
  <2>1. UNCHANGED <<rows, late>>
    BY <1>2, QuietRun, StartCreateEffect, StartRowEffect, AdvanceEffect, CompleteEffect
  <2>2. QED
    BY <2>1 DEF TurnInv, Lockstep
<1>3. QED
  BY <1>1, <1>2

\* The writers' side.
LEMMA TurnWriter ==
    ASSUME TypeOK, WriteInv, TurnInv, NEW w \in Writers, WriterStep(w)
    PROVE  Lockstep' /\ BatchAt' /\ PassedIsClean'
<1>1. Lockstep' /\ BatchAt'
  BY LockstepCommit, BatchAtCommit DEF TurnInv, WriteInv
<1>2. UNCHANGED <<rot, rt>>
  BY WriterAlone
<1>3. wr[w].ver \in 0..MaxVersion
  BY DEF TypeOK, Writer
<1>4. ASSUME UNCHANGED <<rows, late>>
      PROVE  PassedIsClean'
  BY <1>2, <1>4, CleanUntouched DEF TurnInv
<1>5. ASSUME NEW X \in SUBSET Rows, late' = LateAfter(X, wr[w].ver),
             \A x \in X : rows'[x].ver = wr[w].ver,
             \A x \in Rows \ X : rows'[x] = rows[x]
      PROVE  PassedIsClean'
  BY <1>2, <1>3, <1>5, CleanAfterCommit DEF TurnInv
<1>6. PassedIsClean'
  BY <1>4, <1>5, CommitEffect DEF WriteInv
<1>7. QED
  BY <1>1, <1>6

\* Every step keeps all of it.
LEMMA TurnNext ==
    ASSUME OneAtATime, TypeOK, TypeOK', PruneInv, WriteInv, TurnInv, [Next]_vars
    PROVE  TurnInv'
<1>1. Ascending' /\ SameRotation'
  BY AscendingNext, SameRotationNext DEF TurnInv
<1>2. CASE UNCHANGED vars
  BY <1>2 DEF vars, TurnInv, Ascending, SameRotation, Lockstep, BatchAt, PassedIsClean, Clean,
     Passed, Existing, Reached, Present
<1>3. ASSUME NEW w \in Writers, WriterStep(w)
      PROVE  TurnInv'
  BY <1>1, <1>3, TurnWriter DEF TurnInv
<1>4. ASSUME NEW r \in Rotators, RotatorStep(r)
      PROVE  TurnInv'
  BY <1>1, <1>4, LockstepRun, BatchAtRun, CleanRun DEF TurnInv
<1>5. ASSUME NEW p \in Procs, Crash(p)
      PROVE  TurnInv'
  <2>1. /\ UNCHANGED <<rot, rows, late>>
        /\ \A r \in Rotators : rt'[r] = rt[r] \/ rt'[r].pc = "idle"
    BY <1>5 DEF Crash, IdleRun
  <2>2. Lockstep' /\ BatchAt'
    BY <2>1 DEF TurnInv, Lockstep, BatchAt
  <2>3. PassedIsClean'
    BY <2>1, CleanUntouched DEF TurnInv, Migrating
  <2>4. QED
    BY <1>1, <2>2, <2>3 DEF TurnInv
<1>6. QED
  BY <1>2, <1>3, <1>4, <1>5 DEF Next

\* It holds before anything has happened: seed facts come with their summary.
LEMMA TurnInit == Init => TurnInv
<1> SUFFICES ASSUME Init PROVE TurnInv
  OBVIOUS
<1>1. /\ \A r \in Rotators : rt[r].pc = "idle"
      /\ \A w \in Writers : wr[w].pc = "idle"
      /\ rot.status = "none" /\ late = {}
  BY IdleTyped DEF Init, IdleRun
<1>2. PICK p \in Provisioned :
        /\ keys = [v \in Versions |-> IF p /\ v = 1 THEN Genesis ELSE NoDEK]
        /\ rows = [x \in Rows |-> IF p /\ x \in SeedRows
                                  THEN [ver |-> 1, dek |-> Genesis, val |-> {}]
                                  ELSE NoRow]
  BY DEF Init
<1>3. \A x \in Rows : /\ p /\ x \in SeedRows => rows[x].ver = 1
                      /\ ~(p /\ x \in SeedRows) => rows[x].ver = 0
  BY <1>2 DEF NoRow
<1>4. p => 1 \in Existing
  BY <1>2, BoundAssumption, ActorAssumption DEF Existing, Versions, DEKs
<1>5. Ascending
  BY <1>1, <1>3, <1>4 DEF Ascending, Reached, Present, Migrating
<1>6. Lockstep
  BY <1>1, <1>3, RowAssumption DEF Lockstep
<1>7. SameRotation /\ BatchAt /\ PassedIsClean
  BY <1>1 DEF SameRotation, BatchAt, PassedIsClean, Migrating
<1>8. QED
  BY <1>5, <1>6, <1>7 DEF TurnInv

\* The inductive invariant of rotations that follow each other.
LEMMA TurnInvariant == ASSUME OneAtATime PROVE Spec => []TurnInv
<1>1. TypeOK /\ TypeOK' /\ PruneInv /\ WriteInv /\ TurnInv /\ [Next]_vars => TurnInv'
  BY TurnNext
<1>2. QED
  BY <1>1, TurnInit, TypeCorrect, PruneInvariant, WriteInvariant, PTL DEF Spec

\* Continue: a rotation that is marked completed has moved every row that was
\* committed in time, for any number of rows, writers and crashes and any batch
\* size, when its runs follow each other or all work on one rotation.
THEOREM RotationComplete == ASSUME OneAtATime PROVE Spec => []MigrationComplete
<1>1. TypeOK /\ TurnInv => MigrationComplete
  BY RowAssumption DEF TurnInv, PassedIsClean, Clean, MigrationComplete
<1>2. QED
  BY <1>1, TurnInvariant, TypeCorrect, PTL

\* migrateSummaryBatch, under the same condition: a key fact never is under
\* another version than its summary.
THEOREM FactsFollow == ASSUME OneAtATime PROVE Spec => []FactsInLockstep
<1>1. TurnInv => FactsInLockstep
  BY DEF TurnInv, Lockstep, FactsInLockstep
<1>2. QED
  BY <1>1, TurnInvariant, PTL

\* That a rotation goes to the newest version needs no such condition.
LEMMA AscendingInvariant == Spec => []Ascending
<1>1. Init => Ascending
  BY TurnInit DEF TurnInv
<1>2. TypeOK /\ TypeOK' /\ PruneInv /\ WriteInv /\ Ascending /\ [Next]_vars => Ascending'
  BY AscendingNext
<1>3. QED
  BY <1>1, <1>2, TypeCorrect, PruneInvariant, WriteInvariant, PTL DEF Spec

\* Start and migrate*Batch: while a rotation is in progress no row is under a
\* newer version than it goes to, so that whoever puts a row back holds the key
\* of an earlier one; for any number of overlapping runs, rotations and crashes.
THEOREM OnlyForwards == Spec => OnlyOvertakenGoBack
<1>1. ASSUME TypeOK, TypeOK', Ascending
      PROVE  [\A x \in Rows : rows'[x].ver < rows[x].ver /\ rot.status = "in_progress" =>
                 rows'[x].ver < rot.to]_rows
  <2> SUFFICES ASSUME NEW x \in Rows, rows'[x].ver < rows[x].ver, rot.status = "in_progress"
               PROVE  rows'[x].ver < rot.to
    OBVIOUS
  <2>1. /\ rows[x].ver \in 0..MaxVersion /\ rows'[x].ver \in 0..MaxVersion
        /\ rot.to \in 0..MaxVersion
    BY <1>1 DEF TypeOK, Row, RotationStatus
  <2>2. Present(x)
    BY <2>1 DEF Present
  <2>3. PICK u \in Existing : rows[x].ver <= u
    BY <1>1, <2>2 DEF Ascending, Reached
  <2>4. u <= rot.to /\ u \in Versions
    BY <1>1, <2>3 DEF Ascending, Existing
  <2>5. QED
    BY <2>1, <2>3, <2>4 DEF Versions
<1>2. TypeOK /\ TypeOK' /\ Ascending =>
        [\A x \in Rows : rows'[x].ver < rows[x].ver /\ rot.status = "in_progress" =>
            rows'[x].ver < rot.to]_rows
  BY <1>1
<1>3. QED
  BY <1>2, TypeCorrect, AscendingInvariant, PTL DEF Spec, OnlyOvertakenGoBack

============================================================================
