---------------------------- MODULE DemoSessions ----------------------------
(***************************************************************************)
(* The hosted demo's guest sessions (internal/demo/store.go): CreateSession*)
(* under the daily cap, the chat and consolidate-now requests of a guest   *)
(* served by hupi-demo, and hupi-demo-sweep, which removes expired guests. *)
(*                                                                         *)
(* Time is a counter that moves between any two steps.  A guest is named   *)
(* by the CreateSession call that provisions it.  What a guest wrote is    *)
(* abstracted to whether there is any.  One action is one statement outside*)
(* a transaction, or one transaction.                                      *)
(***************************************************************************)
EXTENDS Integers, FiniteSets

CONSTANTS
    Guests,             \* calls of CreateSession, and the guests they create
    Requests,           \* HTTP requests hupi-demo is serving
    SessionTTL,
    CapWindow,          \* capWindow
    HardBackstop,       \* the age hupi-demo-sweep passes to Sweep
    MaxSessionsPerDay,
    MaxMessages,        \* Limits.MaxMessagesPerSession
    MaxConsolidates,    \* Limits.MaxConsolidatesPerSession
    MaxSweepTime,       \* assumed bound on the time one Sweep takes
    MaxTime,            \* bound on the clock
    MaxFailures,        \* bound on crashes and failed statements
    Nobody              \* nobody holds the daily cap lock

ASSUME LimitAssumption ==
    /\ SessionTTL \in Nat /\ CapWindow \in Nat /\ HardBackstop \in Nat
    /\ MaxSessionsPerDay \in Nat /\ MaxMessages \in Nat /\ MaxConsolidates \in Nat
    /\ MaxSweepTime \in Nat /\ MaxTime \in Nat \ {0} /\ MaxFailures \in Nat
    /\ Nobody \notin Guests /\ Guests # {}

\* The defaults: a session of 3 hours, a backstop and a cap window of 24.
ASSUME DeadlineAssumption ==
    /\ SessionTTL <= HardBackstop
    /\ SessionTTL + MaxSweepTime <= CapWindow

VARIABLES
    now,        \* the clock
    sess,       \* demo_sessions
    users,      \* guests with a users row
    keys,       \* guests with a scope_keys row
    data,       \* guests with rows in episodes, summaries, entities, relationships
    counts,     \* guests with a scope_corpus_size row
    log,        \* guests named in audit_log
    lock,       \* holder of the session advisory lock on the daily cap
    create,     \* where each CreateSession call is
    req,        \* what each request has in hand
    sweep,      \* what hupi-demo-sweep has in hand
    made,       \* history: when each session was created, 0 for never
    abandoned,  \* history: guests whose CreateSession failed half way
    racing,     \* history: guests deleted while a request of theirs was served
    failures    \* how many calls have failed

vars == <<now, sess, users, keys, data, counts, log, lock, create, req, sweep, made,
          abandoned, racing, failures>>

----------------------------------------------------------------------------
(* Types.                                                                  *)

SessionRow ==
    [row : BOOLEAN,         \* is there a row?
     linked : BOOLEAN,      \* is its guest_user_id not null?
     created : 0..MaxTime, expires : 0..(MaxTime + SessionTTL),
     messages : 0..MaxMessages, consolidates : 0..MaxConsolidates]

Request ==
    [pc : {"idle", "recall", "read", "key", "write", "count"}, guest : Guests,
     daily : BOOLEAN]       \* is it a consolidation?

Sweeper ==
    [pc : {"idle", "delete"}, list : SUBSET Guests, began : 0..MaxTime]

\* Every variable stays in its type: the counters within their caps also when
\* several requests of one session race.
TypeOK ==
    /\ now \in 1..MaxTime
    /\ sess \in [Guests -> SessionRow]
    /\ users \in SUBSET Guests
    /\ keys \in SUBSET Guests
    /\ data \in SUBSET Guests
    /\ counts \in SUBSET Guests
    /\ log \in SUBSET Guests
    /\ lock \in Guests \cup {Nobody}
    /\ create \in [Guests -> {"idle", "count", "user", "key", "insert", "over"}]
    /\ req \in [Requests -> Request]
    /\ sweep \in Sweeper
    /\ made \in [Guests -> 0..MaxTime]
    /\ abandoned \in SUBSET Guests
    /\ racing \in SUBSET Guests
    /\ failures \in 0..MaxFailures

NoSession == [row |-> FALSE, linked |-> FALSE, created |-> 0, expires |-> 0,
              messages |-> 0, consolidates |-> 0]

NoRequest == [pc |-> "idle", guest |-> CHOOSE g \in Guests : TRUE, daily |-> FALSE]

SweepIdle == [pc |-> "idle", list |-> {}, began |-> 0]

Init ==
    /\ now = 1
    /\ sess = [g \in Guests |-> NoSession]
    /\ users = {} /\ keys = {} /\ data = {} /\ counts = {} /\ log = {}
    /\ lock = Nobody
    /\ create = [g \in Guests |-> "idle"]
    /\ req = [r \in Requests |-> NoRequest]
    /\ sweep = SweepIdle
    /\ made = [g \in Guests |-> 0]
    /\ abandoned = {} /\ racing = {}
    /\ failures = 0

----------------------------------------------------------------------------
(* CreateSession.                                                          *)

\* select count of the rows created within capWindow.
Counted == {g \in Guests : sess[g].row /\ sess[g].created > now - CapWindow}

\* pg_advisory_lock on a connection of its own, held to the end of the call.
LockCap(g) ==
    /\ create[g] = "idle"
    /\ lock = Nobody
    /\ lock' = g
    /\ create' = [create EXCEPT ![g] = "count"]
    /\ UNCHANGED <<now, sess, users, keys, data, counts, log, req, sweep, made, abandoned,
                   racing, failures>>

\* ErrDailySessionCapReached at the cap.
CountSessions(g) ==
    /\ create[g] = "count"
    /\ IF Cardinality(Counted) >= MaxSessionsPerDay
       THEN /\ create' = [create EXCEPT ![g] = "over"]
            /\ lock' = Nobody
       ELSE /\ create' = [create EXCEPT ![g] = "user"]
            /\ lock' = lock
    /\ UNCHANGED <<now, sess, users, keys, data, counts, log, req, sweep, made, abandoned,
                   racing, failures>>

\* auth.Store.CreateUser: the users row, then its encryption key.
CreateUser(g) ==
    /\ create[g] = "user"
    /\ users' = users \cup {g}
    /\ create' = [create EXCEPT ![g] = "key"]
    /\ UNCHANGED <<now, sess, keys, data, counts, log, lock, req, sweep, made, abandoned,
                   racing, failures>>

ProvisionKey(g) ==
    /\ create[g] = "key"
    /\ keys' = keys \cup {g}
    /\ create' = [create EXCEPT ![g] = "insert"]
    /\ UNCHANGED <<now, sess, users, data, counts, log, lock, req, sweep, made, abandoned,
                   racing, failures>>

InsertSession(g) ==
    /\ create[g] = "insert"
    /\ sess' = [sess EXCEPT ![g] =
                  [row |-> TRUE, linked |-> TRUE, created |-> now,
                   expires |-> now + SessionTTL, messages |-> 0, consolidates |-> 0]]
    /\ made' = [made EXCEPT ![g] = now]
    /\ create' = [create EXCEPT ![g] = "over"]
    /\ lock' = Nobody
    /\ UNCHANGED <<now, users, keys, data, counts, log, req, sweep, abandoned, racing, failures>>

\* An error returned from CreateSession: the deferred unlock runs, the users
\* row stays.
CreateFails(g) ==
    /\ create[g] \in {"count", "user", "key", "insert"}
    /\ failures < MaxFailures
    /\ failures' = failures + 1
    /\ create' = [create EXCEPT ![g] = "over"]
    /\ lock' = Nobody
    /\ abandoned' = abandoned \cup ({g} \cap users)
    /\ UNCHANGED <<now, sess, users, keys, data, counts, log, req, sweep, made, racing>>

----------------------------------------------------------------------------
(* Requests.                                                               *)

Live(g) == sess[g].row /\ sess[g].expires > now

\* Variant: the cap is not part of the update's condition.
Chat_uncapped(r) ==
    /\ req[r].pc = "idle"
    /\ \E g \in Guests :
          /\ Live(g)
          /\ sess' = [sess EXCEPT ![g].messages = @ + 1]
          /\ req' = [req EXCEPT ![r] = IF sess[g].linked
                                       THEN [pc |-> "recall", guest |-> g, daily |-> FALSE]
                                       ELSE NoRequest]
    /\ UNCHANGED <<now, users, keys, data, counts, log, lock, create, sweep, made, abandoned,
                   racing, failures>>

\* Resolve: one statement checks and counts.  A row without its guest fails
\* after it is counted.  The turn is captured once the model has answered.
Chat(r) ==
    /\ req[r].pc = "idle"
    /\ \E g \in Guests :
          /\ Live(g)
          /\ sess[g].messages < MaxMessages
          /\ sess' = [sess EXCEPT ![g].messages = @ + 1]
          /\ req' = [req EXCEPT ![r] = IF sess[g].linked
                                       THEN [pc |-> "recall", guest |-> g, daily |-> FALSE]
                                       ELSE NoRequest]
    /\ UNCHANGED <<now, users, keys, data, counts, log, lock, create, sweep, made, abandoned,
                   racing, failures>>

\* ConsolidateNow has its own counter, and then runs RunDaily.
ConsolidateNow(r) ==
    /\ req[r].pc = "idle"
    /\ \E g \in Guests :
          /\ Live(g)
          /\ sess[g].consolidates < MaxConsolidates
          /\ sess' = [sess EXCEPT ![g].consolidates = @ + 1]
          /\ req' = [req EXCEPT ![r] = IF sess[g].linked
                                       THEN [pc |-> "read", guest |-> g, daily |-> TRUE]
                                       ELSE NoRequest]
    /\ UNCHANGED <<now, users, keys, data, counts, log, lock, create, sweep, made, abandoned,
                   racing, failures>>

\* Retrieve for the turn ends with one audit row whichever way it went, unless it
\* or the logging fails; the turn goes on in any case.
Recall(r) ==
    /\ req[r].pc = "recall"
    /\ log' \in {log, log \cup {req[r].guest}}
    /\ req' = [req EXCEPT ![r].pc = "key"]
    /\ UNCHANGED <<now, sess, users, keys, data, counts, lock, create, sweep, made,
                   abandoned, racing, failures>>

\* RunDaily: no episodes, nothing to do.
ReadDay(r) ==
    /\ req[r].pc = "read"
    /\ req' = [req EXCEPT ![r] = IF req[r].guest \in data
                                 THEN [@ EXCEPT !.pc = "key"] ELSE NoRequest]
    /\ UNCHANGED <<now, sess, users, keys, data, counts, log, lock, create, sweep, made,
                   abandoned, racing, failures>>

\* Capture and storeSummary: GetOrCreate makes the scope a key if it has none.
ResolveKey(r) ==
    /\ req[r].pc = "key"
    /\ keys' = keys \cup {req[r].guest}
    /\ req' = [req EXCEPT ![r].pc = "write"]
    /\ UNCHANGED <<now, sess, users, data, counts, log, lock, create, sweep, made, abandoned,
                   racing, failures>>

\* The transaction of Capture or storeSummary, with its audit row.
WriteData(r) ==
    LET g == req[r].guest
    IN /\ req[r].pc = "write"
       /\ data' = data \cup {g}
       /\ log' = log \cup {g}
       /\ req' = [req EXCEPT ![r] = IF req[r].daily
                                    THEN [@ EXCEPT !.pc = "count"] ELSE NoRequest]
       /\ UNCHANGED <<now, sess, users, keys, counts, lock, create, sweep, made,
                      abandoned, racing, failures>>

\* updateScopeCorpusSize, the last thing RunDaily does; a failure before it
\* (RequestFails) only leaves it out.
UpdateCounts(r) ==
    /\ req[r].pc = "count"
    /\ counts' = counts \cup {req[r].guest}
    /\ req' = [req EXCEPT ![r] = NoRequest]
    /\ UNCHANGED <<now, sess, users, keys, data, log, lock, create, sweep, made,
                   abandoned, racing, failures>>

\* The model call failed: nothing is captured.
RequestFails(r) ==
    /\ req[r].pc # "idle"
    /\ req' = [req EXCEPT ![r] = NoRequest]
    /\ UNCHANGED <<now, sess, users, keys, data, counts, log, lock, create, sweep, made,
                   abandoned, racing, failures>>

\* hupi-demo dies: its calls end where they are, its connection's lock is freed.
DemoCrash ==
    /\ failures < MaxFailures
    /\ failures' = failures + 1
    /\ abandoned' = abandoned \cup
                      {g \in users : create[g] \in {"user", "key", "insert"}}
    /\ create' = [g \in Guests |-> IF create[g] = "idle" THEN "idle" ELSE "over"]
    /\ lock' = Nobody
    /\ req' = [r \in Requests |-> NoRequest]
    /\ UNCHANGED <<now, sess, users, keys, data, counts, log, sweep, made, racing>>

----------------------------------------------------------------------------
(* Sweep.                                                                  *)

\* Variant: the backstop's age is added to the clock, not subtracted.
Expired_wrongSign(g) == sess[g].expires < now \/ sess[g].created < now + HardBackstop

\* Variant: both conditions are asked for.
Expired_both(g) == sess[g].expires < now /\ sess[g].created < now - HardBackstop

Expired(g) == sess[g].expires < now \/ sess[g].created < now - HardBackstop

\* Phase 1 lists the guests to delete.
SweepQuery ==
    /\ sweep.pc = "idle"
    /\ sweep' = [pc |-> "delete", began |-> now,
                 list |-> {g \in Guests : sess[g].row /\ sess[g].linked /\ Expired(g)}]
    /\ UNCHANGED <<now, sess, users, keys, data, counts, log, lock, create, req, made,
                   abandoned, racing, failures>>

\* Variant: guest_user_id's foreign key deletes the session with its guest.
SweepGuest_cascades(g) ==
    /\ sweep.pc = "delete"
    /\ g \in sweep.list
    /\ data' = data \ {g}
    /\ keys' = keys \ {g}
    /\ users' = users \ {g}
    /\ sess' = [sess EXCEPT ![g] = NoSession]
    /\ sweep' = [sweep EXCEPT !.list = @ \ {g}]
    /\ UNCHANGED <<now, counts, log, lock, create, req, made, abandoned, racing, failures>>

\* Variant: the guest's key is left behind.
SweepGuest_keepsKey(g) ==
    /\ sweep.pc = "delete"
    /\ g \in sweep.list
    /\ data' = data \ {g}
    /\ users' = users \ {g}
    /\ sess' = [sess EXCEPT ![g].linked = FALSE]
    /\ sweep' = [sweep EXCEPT !.list = @ \ {g}]
    /\ UNCHANGED <<now, counts, log, keys, lock, create, req, made, abandoned, racing, failures>>

\* deleteGuest, in one transaction: relationships, episodes, summaries, entities,
\* the key, and the users row, which sets the session's guest_user_id to null.
\* Its list of tables has neither scope_corpus_size nor audit_log.
SweepGuest(g) ==
    /\ sweep.pc = "delete"
    /\ g \in sweep.list
    /\ data' = data \ {g}
    /\ keys' = keys \ {g}
    /\ users' = users \ {g}
    /\ sess' = [sess EXCEPT ![g].linked = FALSE]
    /\ racing' = IF \E r \in Requests : req[r].pc # "idle" /\ req[r].guest = g
                 THEN racing \cup {g} ELSE racing
    /\ sweep' = [sweep EXCEPT !.list = @ \ {g}]
    /\ UNCHANGED <<now, counts, log, lock, create, req, made, abandoned, failures>>

\* Variant: rows are dropped as soon as the session is over.
SweepRows_atExpiry ==
    /\ sweep.pc = "delete"
    /\ sweep.list = {}
    /\ sess' = [g \in Guests |-> IF sess[g].row /\ sess[g].created < now - SessionTTL
                                 THEN NoSession ELSE sess[g]]
    /\ sweep' = SweepIdle
    /\ UNCHANGED <<now, users, keys, data, counts, log, lock, create, req, made, abandoned,
                   racing, failures>>

\* Phase 2: rows too old to be counted.
SweepRows ==
    /\ sweep.pc = "delete"
    /\ sweep.list = {}
    /\ sess' = [g \in Guests |-> IF sess[g].row /\ sess[g].created < now - CapWindow
                                 THEN NoSession ELSE sess[g]]
    /\ sweep' = SweepIdle
    /\ UNCHANGED <<now, users, keys, data, counts, log, lock, create, req, made, abandoned,
                   racing, failures>>

\* An error (or the process's death) ends the whole sweep; cron starts another.
SweepFails ==
    /\ sweep.pc = "delete"
    /\ failures < MaxFailures
    /\ failures' = failures + 1
    /\ sweep' = SweepIdle
    /\ UNCHANGED <<now, sess, users, keys, data, counts, log, lock, create, req, made,
                   abandoned, racing>>

Tick ==
    /\ now < MaxTime
    /\ sweep.pc = "delete" => now - sweep.began < MaxSweepTime
    /\ now' = now + 1
    /\ UNCHANGED <<sess, users, keys, data, counts, log, lock, create, req, sweep, made,
                   abandoned, racing, failures>>

SweepStep == SweepQuery \/ (\E g \in Guests : SweepGuest(g)) \/ SweepRows

Next ==
    \/ \E g \in Guests :
          \/ LockCap(g) \/ CountSessions(g) \/ CreateUser(g) \/ ProvisionKey(g)
          \/ InsertSession(g) \/ CreateFails(g)
    \/ \E r \in Requests :
          \/ Chat(r) \/ ConsolidateNow(r) \/ ReadDay(r) \/ ResolveKey(r)
          \/ Recall(r) \/ WriteData(r) \/ UpdateCounts(r) \/ RequestFails(r)
    \/ DemoCrash
    \/ SweepStep
    \/ SweepFails
    \/ Tick

Spec == Init /\ [][Next]_vars

----------------------------------------------------------------------------
(* Properties.                                                             *)

\* CreateSession: in no period of capWindow are more than MaxSessionsPerDay
\* sessions created, whatever races, crashes, or is swept meanwhile.
DailyCap ==
    \A t \in 1..now :
        Cardinality({g \in Guests : made[g] # 0 /\ made[g] <= t /\ made[g] > t - CapWindow})
            <= MaxSessionsPerDay

\* Sweep: a guest that exists can be found by a later sweep, its session row
\* naming it, unless its CreateSession is still under way or failed half way.
GuestSweepable ==
    \A g \in users :
        \/ create[g] \in {"key", "insert"}
        \/ g \in abandoned
        \/ sess[g].row /\ sess[g].linked

\* deleteGuest: of what a swept guest said or had derived from it no row remains,
\* and no key, unless a request of that guest was being served when it was deleted.
\* What does remain is its scope_corpus_size row and its audit rows.
SweptContentGone ==
    \A g \in Guests :
        (made[g] # 0 /\ g \notin users /\ g \notin racing) =>
            g \notin data /\ g \notin keys

\* Sweep never takes a guest whose session can still be used.
LiveGuestKept == [][\A g \in users \ users' : ~Live(g)]_vars

\* cron keeps starting hupi-demo-sweep, and a sweep that can take its next step
\* takes it.
FairSpec == Spec /\ WF_vars(SweepStep)

\* Sweep: the data of every expired session is eventually deleted, also after
\* sweeps that failed.
ExpiredIsSwept ==
    \A g \in Guests :
        (sess[g].linked /\ sess[g].expires < now) ~> ~sess[g].linked
============================================================================
