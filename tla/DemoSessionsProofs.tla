------------------------- MODULE DemoSessionsProofs -------------------------
(***************************************************************************)
(* Theorems about DemoSessions, for any number of guests and requests, any *)
(* limits, and any number of crashes.  One invariant follows a guest       *)
(* through its life (GuestInv), one the counting of sessions (CapInv).     *)
(***************************************************************************)
EXTENDS DemoSessions, FiniteSetTheorems, TLAPS

\* From CreateSession to the row that names the guest.
Provisioning(g) ==
    /\ create[g] \in {"count", "user", "key", "insert"} => lock = g
    /\ create[g] # "over" => made[g] = 0
    /\ create[g] \in {"key", "insert"} => g \in users
    /\ create[g] \in {"idle", "count", "user"} => g \notin users

\* The session row: what it says, and when it may be gone.
RowInv(g) ==
    /\ made[g] <= now
    /\ sess[g].row => made[g] = sess[g].created /\ made[g] # 0
    /\ sess[g].row => sess[g].expires = sess[g].created + SessionTTL
    /\ sess[g].linked => sess[g].row /\ g \in users
    /\ made[g] # 0 /\ ~sess[g].row => made[g] < now - CapWindow

\* The sweep's list: nobody live is on it, and whoever is not on it but had to
\* be, was still to expire when the sweep began.
ListInv(g) ==
    /\ g \in sweep.list => made[g] # 0 /\ (sess[g].row => sess[g].expires <= now)
    /\ sweep.pc = "delete" /\ sess[g].linked /\ g \notin sweep.list =>
          sess[g].expires >= sweep.began

\* What is left of a guest can be found, or is left by a request in flight.
TraceInv(g) ==
    /\ g \in users => create[g] \in {"key", "insert"} \/ g \in abandoned \/ sess[g].linked
    /\ made[g] # 0 /\ g \notin users /\ g \notin racing => g \notin data /\ g \notin keys

GuestInv(g) == Provisioning(g) /\ RowInv(g) /\ ListInv(g) /\ TraceInv(g)

\* A request in flight is one of a guest that exists or that it was deleted under.
RequestInv == \A r \in Requests : req[r].pc # "idle" => req[r].guest \in users \cup racing

SweepInv ==
    /\ sweep.pc = "idle" => sweep.list = {}
    /\ sweep.pc = "delete" => sweep.began <= now /\ now - sweep.began <= MaxSweepTime

LifeInv == TypeOK /\ (\A g \in Guests : GuestInv(g)) /\ RequestInv /\ SweepInv

\* The sessions created within capWindow of t, and not after it.
MadeBy(t) == {g \in Guests : made[g] # 0 /\ made[g] <= t /\ made[g] > t - CapWindow}

\* Once counted under the lock, there is room for one more until the insert.
CapInv ==
    /\ IsFiniteSet({g \in Guests : made[g] # 0})
    /\ DailyCap
    /\ \A g \in Guests : create[g] \in {"user", "key", "insert"} =>
          Cardinality(MadeBy(now)) < MaxSessionsPerDay

Inv == LifeInv /\ CapInv

----------------------------------------------------------------------------
(* A guest's life.                                                         *)

LEMMA InitLife == Init => LifeInv
<1> SUFFICES ASSUME Init PROVE LifeInv
  OBVIOUS
<1> USE LimitAssumption
<1>1. NoSession \in SessionRow
  BY DEF NoSession, SessionRow
<1>2. NoRequest \in Request
  BY DEF NoRequest, Request
<1>3. SweepIdle \in Sweeper
  BY DEF SweepIdle, Sweeper
<1>4. now \in 1..MaxTime
  BY DEF Init
<1>5. TypeOK
  BY <1>1, <1>2, <1>3, <1>4 DEF Init, TypeOK
<1>6. \A g \in Guests : GuestInv(g)
  BY DEF Init, GuestInv, Provisioning, RowInv, ListInv, TraceInv, NoSession, SweepIdle
<1>7. RequestInv /\ SweepInv
  BY DEF Init, RequestInv, SweepInv, NoRequest, SweepIdle
<1>8. QED
  BY <1>5, <1>6, <1>7 DEF LifeInv

LEMMA LockCapKeeps ==
    ASSUME LifeInv, NEW g \in Guests, LockCap(g)
    PROVE  LifeInv'
<1> USE LimitAssumption DEF LockCap, LifeInv
<1>1. TypeOK'
  BY DEF TypeOK
<1>2. \A h \in Guests : GuestInv(h)'
  BY DEF TypeOK, GuestInv, Provisioning, RowInv, ListInv, TraceInv
<1>3. RequestInv'
  BY DEF RequestInv
<1>4. SweepInv'
  BY DEF SweepInv
<1>5. QED
  BY <1>1, <1>2, <1>3, <1>4

LEMMA CountSessionsKeeps ==
    ASSUME LifeInv, NEW g \in Guests, CountSessions(g)
    PROVE  LifeInv'
<1> USE LimitAssumption DEF CountSessions, LifeInv
<1>1. TypeOK'
  BY DEF TypeOK
<1>2. \A h \in Guests : GuestInv(h)'
  BY DEF TypeOK, GuestInv, Provisioning, RowInv, ListInv, TraceInv
<1>3. RequestInv'
  BY DEF RequestInv
<1>4. SweepInv'
  BY DEF SweepInv
<1>5. QED
  BY <1>1, <1>2, <1>3, <1>4

LEMMA CreateUserKeeps ==
    ASSUME LifeInv, NEW g \in Guests, CreateUser(g)
    PROVE  LifeInv'
<1> USE LimitAssumption DEF CreateUser, LifeInv
<1>1. TypeOK'
  BY DEF TypeOK
<1>2. \A h \in Guests : GuestInv(h)'
  BY DEF TypeOK, GuestInv, Provisioning, RowInv, ListInv, TraceInv
<1>3. RequestInv'
  BY DEF RequestInv
<1>4. SweepInv'
  BY DEF SweepInv
<1>5. QED
  BY <1>1, <1>2, <1>3, <1>4

LEMMA ProvisionKeyKeeps ==
    ASSUME LifeInv, NEW g \in Guests, ProvisionKey(g)
    PROVE  LifeInv'
<1> USE LimitAssumption DEF ProvisionKey, LifeInv
<1>1. TypeOK'
  BY DEF TypeOK
<1>2. \A h \in Guests : GuestInv(h)'
  BY DEF TypeOK, GuestInv, Provisioning, RowInv, ListInv, TraceInv
<1>3. RequestInv'
  BY DEF RequestInv
<1>4. SweepInv'
  BY DEF SweepInv
<1>5. QED
  BY <1>1, <1>2, <1>3, <1>4

LEMMA InsertSessionKeeps ==
    ASSUME LifeInv, NEW g \in Guests, InsertSession(g)
    PROVE  LifeInv'
<1> USE LimitAssumption DEF InsertSession, LifeInv
<1>1. TypeOK'
  BY DEF TypeOK, SessionRow
<1>2. \A h \in Guests : GuestInv(h)'
  BY DEF TypeOK, SessionRow, Sweeper, GuestInv, Provisioning, RowInv, ListInv,
     TraceInv, SweepInv
<1>3. RequestInv'
  BY DEF RequestInv
<1>4. SweepInv'
  BY DEF SweepInv
<1>5. QED
  BY <1>1, <1>2, <1>3, <1>4

LEMMA CreateFailsKeeps ==
    ASSUME LifeInv, NEW g \in Guests, CreateFails(g)
    PROVE  LifeInv'
<1> USE LimitAssumption DEF CreateFails, LifeInv
<1>1. TypeOK'
  BY DEF TypeOK
<1>2. \A h \in Guests : GuestInv(h)'
  BY DEF TypeOK, GuestInv, Provisioning, RowInv, ListInv, TraceInv
<1>3. RequestInv'
  BY DEF RequestInv
<1>4. SweepInv'
  BY DEF SweepInv
<1>5. QED
  BY <1>1, <1>2, <1>3, <1>4

LEMMA ChatKeeps ==
    ASSUME LifeInv, NEW r \in Requests, Chat(r)
    PROVE  LifeInv'
<1> USE LimitAssumption DEF Chat, LifeInv
<1>1. TypeOK'
  BY DEF TypeOK, SessionRow, Request, NoRequest
<1>2. \A h \in Guests : GuestInv(h)'
  BY DEF TypeOK, SessionRow, GuestInv, Provisioning, RowInv, ListInv, TraceInv
<1>3. RequestInv'
  BY DEF TypeOK, RequestInv, NoRequest, GuestInv, RowInv
<1>4. SweepInv'
  BY DEF SweepInv
<1>5. QED
  BY <1>1, <1>2, <1>3, <1>4

LEMMA ConsolidateNowKeeps ==
    ASSUME LifeInv, NEW r \in Requests, ConsolidateNow(r)
    PROVE  LifeInv'
<1> USE LimitAssumption DEF ConsolidateNow, LifeInv
<1>1. TypeOK'
  BY DEF TypeOK, SessionRow, Request, NoRequest
<1>2. \A h \in Guests : GuestInv(h)'
  BY DEF TypeOK, SessionRow, GuestInv, Provisioning, RowInv, ListInv, TraceInv
<1>3. RequestInv'
  BY DEF TypeOK, RequestInv, NoRequest, GuestInv, RowInv
<1>4. SweepInv'
  BY DEF SweepInv
<1>5. QED
  BY <1>1, <1>2, <1>3, <1>4

LEMMA ReadDayKeeps ==
    ASSUME LifeInv, NEW r \in Requests, ReadDay(r)
    PROVE  LifeInv'
<1> USE LimitAssumption DEF ReadDay, LifeInv
<1>1. TypeOK'
  BY DEF TypeOK, Request, NoRequest
<1>2. \A h \in Guests : GuestInv(h)'
  BY DEF TypeOK, GuestInv, Provisioning, RowInv, ListInv, TraceInv
<1>3. RequestInv'
  BY DEF TypeOK, Request, RequestInv, NoRequest
<1>4. SweepInv'
  BY DEF SweepInv
<1>5. QED
  BY <1>1, <1>2, <1>3, <1>4

LEMMA ResolveKeyKeeps ==
    ASSUME LifeInv, NEW r \in Requests, ResolveKey(r)
    PROVE  LifeInv'
<1> USE LimitAssumption DEF ResolveKey, LifeInv
<1>1. TypeOK'
  BY DEF TypeOK, Request
<1>2. \A h \in Guests : GuestInv(h)'
  BY DEF TypeOK, GuestInv, Provisioning, RowInv, ListInv, TraceInv, RequestInv
<1>3. RequestInv'
  BY DEF TypeOK, Request, RequestInv
<1>4. SweepInv'
  BY DEF SweepInv
<1>5. QED
  BY <1>1, <1>2, <1>3, <1>4

LEMMA WriteDataKeeps ==
    ASSUME LifeInv, NEW r \in Requests, WriteData(r)
    PROVE  LifeInv'
<1> USE LimitAssumption DEF WriteData, LifeInv
<1>1. TypeOK'
  BY DEF TypeOK, Request, NoRequest
<1>2. \A h \in Guests : GuestInv(h)'
  BY DEF TypeOK, GuestInv, Provisioning, RowInv, ListInv, TraceInv, RequestInv
<1>3. RequestInv'
  BY DEF TypeOK, Request, RequestInv, NoRequest
<1>4. SweepInv'
  BY DEF SweepInv
<1>5. QED
  BY <1>1, <1>2, <1>3, <1>4

LEMMA RecallKeeps ==
    ASSUME LifeInv, NEW r \in Requests, Recall(r)
    PROVE  LifeInv'
<1> USE LimitAssumption DEF Recall, LifeInv
<1>1. TypeOK'
  BY DEF TypeOK, Request, NoRequest
<1>2. \A h \in Guests : GuestInv(h)'
  BY DEF TypeOK, GuestInv, Provisioning, RowInv, ListInv, TraceInv, RequestInv
<1>3. RequestInv'
  BY DEF TypeOK, Request, RequestInv, NoRequest
<1>4. SweepInv'
  BY DEF SweepInv
<1>5. QED
  BY <1>1, <1>2, <1>3, <1>4

LEMMA UpdateCountsKeeps ==
    ASSUME LifeInv, NEW r \in Requests, UpdateCounts(r)
    PROVE  LifeInv'
<1> USE LimitAssumption DEF UpdateCounts, LifeInv
<1>1. TypeOK'
  BY DEF TypeOK, Request, NoRequest
<1>2. \A h \in Guests : GuestInv(h)'
  BY DEF TypeOK, GuestInv, Provisioning, RowInv, ListInv, TraceInv, RequestInv
<1>3. RequestInv'
  BY DEF TypeOK, Request, RequestInv, NoRequest
<1>4. SweepInv'
  BY DEF SweepInv
<1>5. QED
  BY <1>1, <1>2, <1>3, <1>4

LEMMA RequestFailsKeeps ==
    ASSUME LifeInv, NEW r \in Requests, RequestFails(r)
    PROVE  LifeInv'
<1> USE LimitAssumption DEF RequestFails, LifeInv
<1>1. TypeOK'
  BY DEF TypeOK, Request, NoRequest
<1>2. \A h \in Guests : GuestInv(h)'
  BY DEF TypeOK, GuestInv, Provisioning, RowInv, ListInv, TraceInv
<1>3. RequestInv'
  BY DEF TypeOK, Request, RequestInv, NoRequest
<1>4. SweepInv'
  BY DEF SweepInv
<1>5. QED
  BY <1>1, <1>2, <1>3, <1>4

LEMMA DemoCrashKeeps ==
    ASSUME LifeInv, DemoCrash
    PROVE  LifeInv'
<1> USE LimitAssumption DEF DemoCrash, LifeInv
<1>1. TypeOK'
  BY DEF TypeOK, Request, NoRequest
<1>2. \A h \in Guests : GuestInv(h)'
  BY DEF TypeOK, GuestInv, Provisioning, RowInv, ListInv, TraceInv
<1>3. RequestInv'
  BY DEF TypeOK, RequestInv, NoRequest
<1>4. SweepInv'
  BY DEF SweepInv
<1>5. QED
  BY <1>1, <1>2, <1>3, <1>4

LEMMA SweepQueryKeeps ==
    ASSUME LifeInv, SweepQuery
    PROVE  LifeInv'
<1> USE LimitAssumption DEF SweepQuery, LifeInv
<1>1. TypeOK'
  BY DEF TypeOK, Sweeper
<1>2. \A h \in Guests : GuestInv(h)'
  BY DeadlineAssumption DEF TypeOK, SessionRow, Sweeper, GuestInv, Provisioning,
     RowInv, ListInv, TraceInv, Expired, SweepInv
<1>3. RequestInv'
  BY DEF RequestInv
<1>4. SweepInv'
  BY DEF TypeOK, Sweeper, SweepInv
<1>5. QED
  BY <1>1, <1>2, <1>3, <1>4

LEMMA SweepGuestKeeps ==
    ASSUME LifeInv, NEW g \in Guests, SweepGuest(g)
    PROVE  LifeInv'
<1> USE LimitAssumption DEF SweepGuest, LifeInv
<1>1. TypeOK'
  <2>1. sess' \in [Guests -> SessionRow]
    BY DEF TypeOK, SessionRow
  <2>2. sweep' \in Sweeper
    BY DEF TypeOK, Sweeper
  <2>3. racing' \in SUBSET Guests
    BY DEF TypeOK
  <2>4. QED
    BY <2>1, <2>2, <2>3 DEF TypeOK
<1>2. \A h \in Guests : GuestInv(h)'
  BY DEF TypeOK, SessionRow, Sweeper, GuestInv, Provisioning, RowInv, ListInv,
     TraceInv, SweepInv
<1>3. RequestInv'
  BY DEF TypeOK, Request, RequestInv
<1>4. SweepInv'
  BY DEF TypeOK, Sweeper, SweepInv
<1>5. QED
  BY <1>1, <1>2, <1>3, <1>4

LEMMA SweepRowsKeeps ==
    ASSUME LifeInv, SweepRows
    PROVE  LifeInv'
<1> USE LimitAssumption DEF SweepRows, LifeInv
<1>1. TypeOK'
  BY DEF TypeOK, SessionRow, NoSession, Sweeper, SweepIdle
<1>2. \A h \in Guests : GuestInv(h)'
  BY DeadlineAssumption DEF TypeOK, SessionRow, Sweeper, GuestInv, Provisioning,
     RowInv, ListInv, TraceInv, NoSession, SweepIdle, SweepInv
<1>3. RequestInv'
  BY DEF RequestInv
<1>4. SweepInv'
  BY DEF TypeOK, Sweeper, SweepInv, SweepIdle
<1>5. QED
  BY <1>1, <1>2, <1>3, <1>4

LEMMA SweepFailsKeeps ==
    ASSUME LifeInv, SweepFails
    PROVE  LifeInv'
<1> USE LimitAssumption DEF SweepFails, LifeInv
<1>1. TypeOK'
  BY DEF TypeOK, Sweeper, SweepIdle
<1>2. \A h \in Guests : GuestInv(h)'
  BY DEF TypeOK, Sweeper, GuestInv, Provisioning, RowInv, ListInv, TraceInv,
     SweepIdle, SweepInv
<1>3. RequestInv'
  BY DEF RequestInv
<1>4. SweepInv'
  BY DEF TypeOK, Sweeper, SweepInv, SweepIdle
<1>5. QED
  BY <1>1, <1>2, <1>3, <1>4

LEMMA TickKeeps ==
    ASSUME LifeInv, Tick
    PROVE  LifeInv'
<1> USE LimitAssumption DEF Tick, LifeInv
<1>1. TypeOK'
  BY DEF TypeOK
<1>2. \A h \in Guests : GuestInv(h)'
  BY DEF TypeOK, SessionRow, Sweeper, GuestInv, Provisioning, RowInv, ListInv,
     TraceInv
<1>3. RequestInv'
  BY DEF RequestInv
<1>4. SweepInv'
  BY DEF TypeOK, Sweeper, SweepInv
<1>5. QED
  BY <1>1, <1>2, <1>3, <1>4

LEMMA LifeStep ==
    ASSUME LifeInv, [Next]_vars
    PROVE  LifeInv'
<1>1. CASE UNCHANGED vars
  BY <1>1 DEF vars, LifeInv, TypeOK, GuestInv, Provisioning, RowInv, ListInv, TraceInv,
     RequestInv, SweepInv
<1>2. CASE Next
  BY <1>2, LockCapKeeps, CountSessionsKeeps, CreateUserKeeps, ProvisionKeyKeeps,
     InsertSessionKeeps, CreateFailsKeeps, ChatKeeps, ConsolidateNowKeeps, ReadDayKeeps,
     RecallKeeps, ResolveKeyKeeps, WriteDataKeeps, UpdateCountsKeeps, RequestFailsKeeps,
     DemoCrashKeeps, SweepQueryKeeps,
     SweepGuestKeeps, SweepRowsKeeps, SweepFailsKeeps, TickKeeps
  DEF Next, SweepStep
<1>3. QED
  BY <1>1, <1>2

LEMMA LifeInvariant == Spec => []LifeInv
BY InitLife, LifeStep, PTL DEF Spec

\* Every variable keeps its type: the counters of a session within their caps,
\* however many requests of the session Resolve answers at once.
THEOREM SessionsTyped == Spec => []TypeOK
<1>1. LifeInv => TypeOK
  BY DEF LifeInv
<1>2. QED
  BY <1>1, LifeInvariant, PTL

\* Sweep can find every guest that exists, except one whose CreateSession is
\* under way or failed half way.
THEOREM GuestsAreFound == Spec => []GuestSweepable
<1>1. LifeInv => GuestSweepable
  BY DEF LifeInv, TypeOK, GuestInv, RowInv, TraceInv, GuestSweepable
<1>2. QED
  BY <1>1, LifeInvariant, PTL

\* deleteGuest leaves no key and no row of what a guest said, unless it deleted
\* the guest under a request that was being served.  (scope_corpus_size and
\* audit_log rows stay: nothing deletes them.)
THEOREM SweptGuestsAreGone == Spec => []SweptContentGone
<1>1. LifeInv => SweptContentGone
  BY DEF LifeInv, GuestInv, TraceInv, SweptContentGone
<1>2. QED
  BY <1>1, LifeInvariant, PTL

\* No step, of any sweep, deletes a guest whose session is live.
THEOREM LiveGuestsAreKept == Spec => LiveGuestKept
<1>1. ASSUME LifeInv, [Next]_vars, NEW g \in users \ users'
      PROVE  ~Live(g)
  <2>1. \E h \in Guests : SweepGuest(h)
    BY <1>1 DEF Next, SweepStep, vars, LockCap, CountSessions, CreateUser, ProvisionKey,
       InsertSession, CreateFails, Chat, ConsolidateNow, ReadDay, Recall, ResolveKey,
       WriteData, UpdateCounts, RequestFails, DemoCrash, SweepQuery, SweepRows, SweepFails, Tick
  <2>2. g \in Guests /\ g \in sweep.list
    BY <1>1, <2>1 DEF SweepGuest, LifeInv, TypeOK
  <2>3. sess[g].row => sess[g].expires <= now
    BY <1>1, <2>2 DEF LifeInv, GuestInv, ListInv
  <2>4. sess[g].expires \in Int /\ now \in Int
    BY <1>1, <2>2, LimitAssumption DEF LifeInv, TypeOK, SessionRow
  <2>5. QED
    BY <2>3, <2>4 DEF Live
<1>2. LifeInv /\ [Next]_vars => [\A g \in users \ users' : ~Live(g)]_vars
  BY <1>1
<1>3. QED
  BY <1>2, LifeInvariant, PTL DEF Spec, LiveGuestKept

----------------------------------------------------------------------------
(* The daily cap.                                                          *)

\* Whoever was made within the window before now is among those CreateSession
\* counts: a row is dropped only when it is older than that.
LEMMA CountedIsEnough ==
    ASSUME LifeInv
    PROVE  MadeBy(now) \subseteq Counted
<1> SUFFICES ASSUME NEW g \in Guests, made[g] # 0, made[g] <= now, made[g] > now - CapWindow
             PROVE  g \in Counted
  BY DEF MadeBy
<1>1. made[g] \in Int /\ now \in Int /\ CapWindow \in Int
  BY LimitAssumption DEF LifeInv, TypeOK
<1>2. sess[g].row /\ made[g] = sess[g].created
  BY <1>1 DEF LifeInv, GuestInv, RowInv
<1>3. QED
  BY <1>2 DEF Counted

\* A step that creates no session, and lets no time pass.
LEMMA CapFrame ==
    ASSUME CapInv, UNCHANGED <<made, now>>,
           \A g \in Guests : create'[g] \in {"user", "key", "insert"} =>
               create[g] \in {"user", "key", "insert"} \/ Cardinality(MadeBy(now)) < MaxSessionsPerDay
    PROVE  CapInv'
<1>1. MadeBy(now)' = MadeBy(now)
  BY DEF MadeBy
<1>2. QED
  BY <1>1 DEF CapInv, DailyCap

LEMMA MadeByFinite ==
    ASSUME CapInv, NEW t
    PROVE  IsFiniteSet(MadeBy(t)) /\ Cardinality(MadeBy(t)) \in Nat
<1>1. MadeBy(t) \in SUBSET {g \in Guests : made[g] # 0}
  BY DEF MadeBy
<1>2. IsFiniteSet(MadeBy(t))
  BY <1>1, FS_Subset DEF CapInv
<1>3. QED
  BY <1>2, FS_CardinalityType

LEMMA CapInsert ==
    ASSUME Inv, NEW g \in Guests, InsertSession(g)
    PROVE  CapInv'
<1> DEFINE M == MadeBy(now)
<1>1. /\ now \in Int /\ now' = now /\ CapWindow \in Nat /\ MaxSessionsPerDay \in Nat
      /\ now >= 1 /\ \A h \in Guests : made[h] \in Int
  BY LimitAssumption DEF Inv, LifeInv, TypeOK, InsertSession
<1>2. made' = [made EXCEPT ![g] = now] /\ made[g] = 0 /\ lock = g
  BY DEF InsertSession, Inv, LifeInv, GuestInv, Provisioning
<1>3. \A h \in Guests : made'[h] = IF h = g THEN now ELSE made[h]
  BY <1>2 DEF Inv, LifeInv, TypeOK
<1>4. IsFiniteSet({h \in Guests : made'[h] # 0})
  <2>1. {h \in Guests : made'[h] # 0} = {h \in Guests : made[h] # 0} \cup {g}
    BY <1>1, <1>3
  <2>2. QED
    BY <2>1, FS_AddElement DEF Inv, CapInv
<1>5. Cardinality(M) < MaxSessionsPerDay /\ IsFiniteSet(M) /\ Cardinality(M) \in Nat
  BY MadeByFinite DEF Inv, CapInv, InsertSession
<1>6. Cardinality(M \cup {g}) <= MaxSessionsPerDay /\ IsFiniteSet(M \cup {g})
  <2> HIDE DEF M
  <2>1. /\ IsFiniteSet(M \cup {g})
        /\ Cardinality(M \cup {g}) = IF g \in M THEN Cardinality(M) ELSE Cardinality(M) + 1
    BY <1>5, FS_AddElement
  <2>2. QED
    BY <1>1, <1>5, <2>1
<1>7. ASSUME NEW t \in 1..now
      PROVE  Cardinality(MadeBy(t)') <= MaxSessionsPerDay
  <2>1. CASE t < now
    <3>1. MadeBy(t)' = MadeBy(t)
      BY <1>1, <1>2, <1>3, <2>1 DEF MadeBy
    <3>2. QED
      BY <1>7, <3>1 DEF Inv, CapInv, DailyCap, MadeBy
  <2>2. CASE t = now
    <3>1. MadeBy(t)' \in SUBSET (M \cup {g})
      BY <1>3, <2>2 DEF MadeBy
    <3>2. Cardinality(MadeBy(t)') <= Cardinality(M \cup {g}) /\ IsFiniteSet(MadeBy(t)')
      BY <1>6, <3>1, FS_Subset
    <3>3. Cardinality(MadeBy(t)') \in Nat /\ Cardinality(M \cup {g}) \in Nat
      BY <1>6, <3>2, FS_CardinalityType
    <3>4. QED
      BY <1>1, <1>6, <3>2, <3>3
  <2>3. QED
    BY <1>1, <2>1, <2>2
<1>8. DailyCap'
  BY <1>1, <1>7 DEF DailyCap, MadeBy
<1>9. \A h \in Guests : create'[h] \notin {"user", "key", "insert"}
  BY <1>2, LimitAssumption DEF InsertSession, Inv, LifeInv, TypeOK, GuestInv, Provisioning
<1>10. QED
  BY <1>4, <1>8, <1>9 DEF CapInv

LEMMA CapTick ==
    ASSUME Inv, Tick
    PROVE  CapInv'
<1>1. /\ now \in Int /\ now' = now + 1 /\ CapWindow \in Nat /\ MaxSessionsPerDay \in Nat
      /\ now >= 1 /\ made' = made /\ create' = create
      /\ \A h \in Guests : made[h] \in Int /\ made[h] <= now
  BY LimitAssumption DEF Inv, LifeInv, TypeOK, Tick, GuestInv, RowInv
<1>2. MadeBy(now + 1) \in SUBSET MadeBy(now)
  BY <1>1 DEF MadeBy
<1>3. /\ Cardinality(MadeBy(now + 1)) <= Cardinality(MadeBy(now))
      /\ Cardinality(MadeBy(now + 1)) \in Nat /\ Cardinality(MadeBy(now)) \in Nat
  BY <1>2, MadeByFinite, FS_Subset DEF Inv
<1>4. \A t : MadeBy(t)' = MadeBy(t)
  BY <1>1 DEF MadeBy
<1>5. \A t \in 1..now : Cardinality(MadeBy(t)) <= MaxSessionsPerDay
  BY DEF Inv, CapInv, DailyCap, MadeBy
<1>6. \A t \in 1..(now + 1) : Cardinality(MadeBy(t)) <= MaxSessionsPerDay
  <2> SUFFICES ASSUME NEW t \in 1..(now + 1) PROVE Cardinality(MadeBy(t)) <= MaxSessionsPerDay
    OBVIOUS
  <2>1. CASE t \in 1..now
    BY <1>5, <2>1
  <2>2. CASE t = now + 1
    <3>1. Cardinality(MadeBy(now)) <= MaxSessionsPerDay
      BY <1>1, <1>5
    <3>2. QED
      BY <1>1, <1>3, <2>2, <3>1
  <2>3. QED
    BY <1>1, <2>1, <2>2
<1>7. DailyCap'
  BY <1>1, <1>6 DEF DailyCap, MadeBy
<1>8. \A g \in Guests : create[g] \in {"user", "key", "insert"} =>
          Cardinality(MadeBy(now + 1)) < MaxSessionsPerDay
  BY <1>1, <1>3 DEF Inv, CapInv
<1>9. QED
  BY <1>1, <1>4, <1>7, <1>8 DEF Inv, CapInv, MadeBy

LEMMA CapCount ==
    ASSUME Inv, NEW g \in Guests, CountSessions(g)
    PROVE  CapInv'
<1>1. UNCHANGED <<made, now>> /\ IsFiniteSet(Counted)
  <2>1. Counted \in SUBSET {h \in Guests : made[h] # 0}
    BY DEF Counted, Inv, LifeInv, GuestInv, RowInv
  <2>2. QED
    BY <2>1, FS_Subset DEF CountSessions, Inv, CapInv
<1>2. /\ Cardinality(MadeBy(now)) <= Cardinality(Counted)
      /\ Cardinality(MadeBy(now)) \in Nat /\ Cardinality(Counted) \in Nat
  BY <1>1, CountedIsEnough, FS_Subset, FS_CardinalityType DEF Inv
<1>3. ASSUME NEW h \in Guests, create'[h] \in {"user", "key", "insert"}
      PROVE  create[h] \in {"user", "key", "insert"}
             \/ Cardinality(MadeBy(now)) < MaxSessionsPerDay
  BY <1>2, <1>3, LimitAssumption DEF CountSessions, Inv, LifeInv, TypeOK
<1>4. QED
  BY <1>1, <1>3, CapFrame DEF Inv

LEMMA CapStep ==
    ASSUME Inv, [Next]_vars
    PROVE  CapInv'
<1>1. CASE \E g \in Guests : InsertSession(g)
  BY <1>1, CapInsert
<1>2. CASE Tick
  BY <1>2, CapTick
<1>3. CASE \E g \in Guests : CountSessions(g)
  BY <1>3, CapCount
<1>4. CASE \E g \in Guests : LockCap(g) \/ CreateUser(g) \/ ProvisionKey(g) \/ CreateFails(g)
  <2>1. UNCHANGED <<made, now>> /\ \A g \in Guests : create'[g] \in {"user", "key", "insert"} =>
            create[g] \in {"user", "key", "insert"}
    BY <1>4 DEF LockCap, CreateUser, ProvisionKey, CreateFails, Inv, LifeInv, TypeOK
  <2>2. QED
    BY <2>1, CapFrame DEF Inv
<1>5. CASE DemoCrash
  BY <1>5, CapFrame DEF DemoCrash, Inv
<1>6. CASE \/ \E r \in Requests : \/ Chat(r) \/ ConsolidateNow(r) \/ ReadDay(r) \/ ResolveKey(r)
                                  \/ Recall(r) \/ WriteData(r) \/ UpdateCounts(r)
                                  \/ RequestFails(r)
           \/ SweepStep \/ SweepFails \/ UNCHANGED vars
  <2>1. UNCHANGED <<made, now, create>>
    BY <1>6 DEF Chat, ConsolidateNow, ReadDay, Recall, ResolveKey, WriteData, UpdateCounts,
       RequestFails,
       SweepStep, SweepQuery, SweepGuest, SweepRows, SweepFails, vars
  <2>2. QED
    BY <2>1, CapFrame DEF Inv
<1>7. QED
  BY <1>1, <1>2, <1>3, <1>4, <1>5, <1>6 DEF Next

LEMMA InitCap == Init => CapInv
<1> SUFFICES ASSUME Init PROVE CapInv
  OBVIOUS
<1>1. {g \in Guests : made[g] # 0} = {} /\ \A t : MadeBy(t) = {}
  BY DEF Init, MadeBy
<1>2. IsFiniteSet({}) /\ Cardinality({}) = 0
  BY FS_EmptySet
<1>3. \A t : Cardinality(MadeBy(t)) <= MaxSessionsPerDay
  BY <1>1, <1>2, LimitAssumption
<1>4. QED
  BY <1>1, <1>2, <1>3 DEF CapInv, DailyCap, MadeBy, Init

\* CreateSession: over no period of capWindow are more sessions created than the
\* daily cap, for any number of concurrent calls, crashes and sweeps.
THEOREM CapHolds == Spec => []DailyCap
<1>1. Init => Inv
  BY InitLife, InitCap DEF Inv
<1>2. Inv /\ [Next]_vars => Inv'
  BY LifeStep, CapStep DEF Inv
<1>3. Inv => DailyCap
  BY DEF Inv, CapInv
<1>4. QED
  BY <1>1, <1>2, <1>3, PTL DEF Spec

============================================================================
