--------------------------- MODULE SessionService ---------------------------
(***************************************************************************)
(* The workflow session service, automation/service/session.go with        *)
(* automation/types/session.go: the pool of running sessions, the watcher  *)
(* goroutine that spawns and garbage-collects them, the event handler that *)
(* stores what sessions report and sends their prompts, and the callers    *)
(* that start, resume and wait for sessions.  The engine is its life cycle *)
(* (SessionLifecycle): its goroutines run into the service's lock when     *)
(* they report, and the service into the engine's when it looks at a       *)
(* session.                                                                *)
(***************************************************************************)
EXTENDS SessionLifecycle

CONSTANTS
    None,
    Awaited,       \* sessions a caller waits for
    MayShutdown,   \* can the watcher's context be done?
    StoreMayFail   \* can an upsert fail?

ASSUME ServiceAssumption ==
    /\ {MayShutdown, StoreMayFail} \subseteq BOOLEAN
    /\ None \notin Session
    /\ Awaited \subseteq Session

VARIABLES
    start,     \* [Session -> StartPc]: how far Start has got
    pool,      \* sessions the service knows
    row,       \* [Session -> Row]: the types.Session in the pool
    stored,    \* [Session -> Row]: what the store has
    sent,      \* [Session -> SUBSET Token]: pending prompts marked as sent
    times,     \* [Session -> [Token -> Nat]]: how often a pending prompt was
               \* written to the connections of its user
    mux,       \* who holds the service's lock for writing
    handling,  \* the step of the handler that holds it
    todo,      \* sessions the garbage collector has yet to look at
    watcher,   \* the watcher goroutine
    resuming,  \* the session of the caller that holds the lock for reading
    waiter,    \* [Session -> WaiterPc]: the caller in WaitResults
    told       \* [Session -> Report]: the status WaitResults returned

poolVars == <<start, pool>>
rowVars  == <<row, stored, sent, times>>
lockVars == <<mux, handling, todo, watcher, resuming>>
waitVars == <<waiter, told>>
svcVars  == <<poolVars, rowVars, lockVars, waitVars>>
vars     == <<lifeVars, svcVars>>

StartPc  == {"idle", "queued", "spawned", "pooled", "executing", "refused"}
WaiterPc == {"none", "waiting", "seen", "returned"}
RowStatus == {"none", "started", "prompted", "suspended", "failed", "completed"}

\* the fields of types.Session that say how the session stands
Row == [status : RowStatus, suspendedAt : BOOLEAN, completedAt : BOOLEAN]
NoRow  == [status |-> "none", suspendedAt |-> FALSE, completedAt |-> FALSE]
NewRow == [NoRow EXCEPT !.status = "started"]

Free == <<"free">>
Gc   == <<"gc">>
Handler(s, r) == <<"handler", s, r>>

\* mutant: the engine's status is stored as it is
ReportedRaw(w, status) == [w EXCEPT !.status = status]

\* mutant: a delayed session counts as completed
ReportedTooSoon(w, status) ==
    IF status = "active" THEN w
    ELSE [status |-> IF status = "delayed" THEN "completed" ELSE status,
          suspendedAt |-> FALSE, completedAt |-> TRUE]

\* what the handler makes of a status
Reported(w, status) ==
    CASE status = "prompted" ->
           [w EXCEPT !.status = "prompted", !.suspendedAt = TRUE]
      [] status = "delayed" ->
           [w EXCEPT !.status = "suspended", !.suspendedAt = TRUE]
      [] status = "completed" ->
           [status |-> "completed", suspendedAt |-> FALSE, completedAt |-> TRUE]
      [] status = "failed" ->
           [status |-> "failed", suspendedAt |-> FALSE, completedAt |-> TRUE]
      [] OTHER -> w

Init ==
    /\ LifeInit
    /\ start = [s \in Session |-> "idle"]
    /\ pool = {}
    /\ row = [s \in Session |-> NoRow]
    /\ stored = [s \in Session |-> NoRow]
    /\ sent = [s \in Session |-> {}]
    /\ times = [s \in Session |-> [t \in Token |-> 0]]
    /\ mux = Free /\ handling = "none" /\ todo = {}
    /\ watcher = "idle"
    /\ resuming = None
    /\ waiter = [s \in Session |-> "none"]
    /\ told = [s \in Session |-> "none"]

\* nobody reads and nobody writes
CanLock == mux = Free /\ resuming = None

-----------------------------------------------------------------------------
(* Start.  Refused calls (no graph, call stack too deep, no invoker, no or
   more than one starting step) change nothing. *)

Start(s) ==
    /\ start[s] = "idle"
    /\ start' = [start EXCEPT ![s] = "queued"]
    /\ UNCHANGED <<lifeVars, pool, rowVars, lockVars, waitVars>>

(* the other end of the unbuffered spawn queue *)
WatchSpawn(s) ==
    /\ watcher = "idle"
    /\ start[s] = "queued"
    /\ start' = [start EXCEPT ![s] = "spawned"]
    /\ UNCHANGED <<lifeVars, pool, rowVars, lockVars, waitVars>>

StartPool(s) ==
    /\ start[s] = "spawned"
    /\ CanLock
    /\ start' = [start EXCEPT ![s] = "pooled"]
    /\ pool' = pool \cup {s}
    /\ row' = [row EXCEPT ![s] = NewRow]
    /\ UNCHANGED <<lifeVars, stored, sent, times, lockVars, waitVars>>

StartExec(s) ==
    /\ start[s] = "pooled"
    /\ ~locked[s]
    /\ start' = [start EXCEPT ![s] = "executing"]
    /\ UNCHANGED <<lifeVars, pool, rowVars, lockVars, waitVars>>

(* the caller's context is done: nothing is queued, and the session stays in
   the pool for good *)
StartRefused(s) ==
    /\ start[s] = "pooled"
    /\ ~locked[s]
    /\ start' = [start EXCEPT ![s] = "refused"]
    /\ UNCHANGED <<lifeVars, pool, rowVars, lockVars, waitVars>>

-----------------------------------------------------------------------------
(* The engine, between its calls of the handler *)

(* A goroutine inside the handler does nothing else, and a prompt that is
   registered anew is neither marked nor written to anybody. *)
Engine(s) ==
    /\ start[s] = "executing"
    /\ Progress(s)
    /\ \A r \in Reporter : mux = Handler(s, r) => report'[s][r] = report[s][r]
    /\ LET new == prompts'[s] \ prompts[s] IN
       /\ sent' = [sent EXCEPT ![s] = @ \ new]
       /\ times' = [times EXCEPT ![s] =
                       [t \in Token |-> IF t \in new THEN 0 ELSE @[t]]]
    /\ UNCHANGED <<poolVars, row, stored, lockVars, waitVars>>

-----------------------------------------------------------------------------
(* stateChangeHandler, in the goroutine that reports *)

(* the session is not in the pool: a warning *)
HandleMissing(s, r) ==
    /\ CanLock
    /\ s \notin pool
    /\ Deliver(s, r)
    /\ UNCHANGED svcVars

(* An active session is stored every so many frames of its stack trace, if it
   has one: here now and then (HandleEnter, with the row as it is). *)
HandleActive(s, r) ==
    /\ CanLock
    /\ s \in pool
    /\ report[s][r] = "active"
    /\ Deliver(s, r)
    /\ UNCHANGED svcVars

\* mutant: prompts are sent when the session becomes prompted
HandlerStepOnce(s, r) ==
    IF report[s][r] = "prompted" /\ row[s].status # "prompted"
    THEN "send" ELSE "store"

HandlerStep(s, r) == IF report[s][r] = "prompted" THEN "send" ELSE "store"

HandleEnter(s, r) ==
    /\ CanLock
    /\ s \in pool
    /\ report[s][r] \in Status
    /\ mux' = Handler(s, r)
    /\ row' = [row EXCEPT ![s] = Reported(@, report[s][r])]
    /\ handling' = HandlerStep(s, r)
    /\ UNCHANGED <<lifeVars, poolVars, stored, sent, times, todo, watcher,
                   resuming, waitVars>>

\* mutant: the prompts are not marked
MarkedNot(s) == sent

\* MarkSent on every pending prompt, before it is handed to the sender
Marked(s) == [sent EXCEPT ![s] = prompts[s]]

(* UnsentPendingPrompts takes the engine's lock, with the service's held.  The
   mark is all that the engine keeps of a prompt being sent.  What arrives is up
   to Send, in the same critical section: a payload that cannot be marshalled is
   an error, which is logged; a user without a connection and a failed write are
   not even that.  Nothing takes the mark back. *)
HandleSend(s, r) ==
    /\ mux = Handler(s, r) /\ handling = "send"
    /\ ~locked[s]
    /\ \E arrived \in SUBSET (prompts[s] \ sent[s]) :
          times' = [times EXCEPT ![s] =
              [t \in Token |-> IF t \in arrived THEN @[t] + 1 ELSE @[t]]]
    /\ sent' = Marked(s)
    /\ handling' = "store"
    /\ UNCHANGED <<lifeVars, poolVars, row, stored, mux, todo, watcher, resuming,
                   waitVars>>

\* mutant: an error of the store returns without the unlock
StoreFailsLocked(s, r) ==
    /\ StoreMayFail
    /\ mux = Handler(s, r) /\ handling = "store"
    /\ handling' = "none"
    /\ UNCHANGED <<lifeVars, poolVars, rowVars, mux, todo, watcher, resuming,
                   waitVars>>

(* an error of the store is logged *)
StoreFails(s, r) ==
    /\ StoreMayFail
    /\ mux = Handler(s, r) /\ handling = "store"
    /\ handling' = "none" /\ mux' = Free
    /\ Deliver(s, r)
    /\ UNCHANGED <<poolVars, rowVars, todo, watcher, resuming, waitVars>>

HandleStore(s, r) ==
    /\ mux = Handler(s, r) /\ handling = "store"
    /\ stored' = [stored EXCEPT ![s] = row[s]]
    /\ handling' = "none" /\ mux' = Free
    /\ Deliver(s, r)
    /\ UNCHANGED <<poolVars, row, sent, times, todo, watcher, resuming, waitVars>>

Handle(s, r) ==
    \/ HandleMissing(s, r) \/ HandleActive(s, r) \/ HandleEnter(s, r)
    \/ HandleSend(s, r) \/ HandleStore(s, r) \/ StoreFails(s, r)

-----------------------------------------------------------------------------
(* The garbage collector, in the watcher goroutine *)

GcBegin ==
    /\ watcher = "idle"
    /\ CanLock
    /\ pool # {}
    /\ mux' = Gc /\ todo' = pool /\ watcher' = "gc"
    /\ UNCHANGED <<lifeVars, poolVars, rowVars, handling, resuming, waitVars>>

\* Session.GC
IsStale(s) == row[s].completedAt \/ outcome[s] = "failed"

(* the engine's lock is needed unless the row says that the session is over *)
GcVisit(s) ==
    /\ s \in todo
    /\ row[s].completedAt \/ ~locked[s]
    /\ pool' = IF IsStale(s) THEN pool \ {s} ELSE pool
    /\ todo' = todo \ {s}
    /\ UNCHANGED <<lifeVars, start, rowVars, mux, handling, watcher, resuming,
                   waitVars>>

GcEnd ==
    /\ watcher = "gc" /\ todo = {}
    /\ mux' = Free /\ watcher' = "idle"
    /\ UNCHANGED <<lifeVars, poolVars, rowVars, handling, todo, resuming,
                   waitVars>>

WatchStop ==
    /\ MayShutdown
    /\ watcher = "idle"
    /\ watcher' = "stopped"
    /\ UNCHANGED <<lifeVars, poolVars, rowVars, mux, handling, todo, resuming,
                   waitVars>>

-----------------------------------------------------------------------------
(* Resume: the lock is held for reading across the engine's Resume *)

ResumeBegin(s) ==
    /\ CanLock
    /\ s \in pool
    /\ resuming' = s
    /\ UNCHANGED <<lifeVars, poolVars, rowVars, mux, handling, todo, watcher,
                   waitVars>>

ResumePrompt(s, t) ==
    /\ resuming = s
    /\ Answer(s, t)
    /\ UNCHANGED svcVars

(* the prompt was answered, or it is not pending, or not the user's *)
ResumeEnd ==
    /\ resuming # None
    /\ ~locked[resuming]
    /\ resuming' = None
    /\ UNCHANGED <<lifeVars, poolVars, rowVars, mux, handling, todo, watcher,
                   waitVars>>

-----------------------------------------------------------------------------
(* WaitResults: waits for a status and then asks for it again *)

Wait(s) ==
    /\ s \in Awaited
    /\ start[s] = "executing" /\ waiter[s] = "none"
    /\ waiter' = [waiter EXCEPT ![s] = "waiting"]
    /\ UNCHANGED <<lifeVars, poolVars, rowVars, lockVars, told>>

\* mutant: a pending prompt is good enough
WaitUntilPrompted(s) ==
    /\ waiter[s] = "waiting"
    /\ ~locked[s]
    /\ StatusOf(s) \in {"prompted", "failed", "completed"}
    /\ waiter' = [waiter EXCEPT ![s] = "seen"]
    /\ UNCHANGED <<lifeVars, poolVars, rowVars, lockVars, told>>

WaitUntil(s) ==
    /\ waiter[s] = "waiting"
    /\ ~locked[s]
    /\ StatusOf(s) \in {"failed", "completed"}
    /\ waiter' = [waiter EXCEPT ![s] = "seen"]
    /\ UNCHANGED <<lifeVars, poolVars, rowVars, lockVars, told>>

WaitReturn(s) ==
    /\ waiter[s] = "seen"
    /\ ~locked[s]
    /\ waiter' = [waiter EXCEPT ![s] = "returned"]
    /\ told' = [told EXCEPT ![s] = StatusOf(s)]
    /\ UNCHANGED <<lifeVars, poolVars, rowVars, lockVars>>

-----------------------------------------------------------------------------
Starter(s) == StartPool(s) \/ StartExec(s) \/ StartRefused(s)
Collector == GcBegin \/ (\E s \in Session : GcVisit(s)) \/ GcEnd
Waiter(s) == WaitUntil(s) \/ WaitReturn(s)

Next ==
    \/ \E s \in Session :
          \/ Start(s) \/ WatchSpawn(s) \/ Starter(s)
          \/ Engine(s)
          \/ \E r \in Reporter : Handle(s, r)
          \/ ResumeBegin(s) \/ \E t \in Token : ResumePrompt(s, t)
          \/ Wait(s) \/ Waiter(s)
    \/ Collector \/ WatchStop \/ ResumeEnd

Spec == Init /\ [][Next]_vars

(* Every goroutine that can run does, and sync.RWMutex lets everybody who
   waits for it have it in the end: strong fairness of what needs a lock that
   others keep taking.  Nothing is assumed of the engine except that goroutines
   go on to read the status they report. *)
Fairness ==
    /\ \A s \in Session :
          /\ SF_vars(WatchSpawn(s)) /\ SF_vars(Starter(s)) /\ SF_vars(Waiter(s))
          /\ \A r \in Reporter :
                SF_vars(Handle(s, r) \/ (Engine(s) /\ ReadStatus(s, r)))
    /\ SF_vars(Collector)
    /\ SF_vars(ResumeEnd)

FairSpec == Spec /\ Fairness

-----------------------------------------------------------------------------
(* Properties *)

\* Every variable has the shape the Go declarations give it.
TypeOK ==
    /\ outcome \in [Session -> Outcome]
    /\ prompts \in [Session -> SUBSET Token]
    /\ delays \in [Session -> SUBSET Token]
    /\ locked \in [Session -> BOOLEAN]
    /\ report \in [Session -> [Reporter -> Report]]
    /\ start \in [Session -> StartPc]
    /\ pool \subseteq Session
    /\ row \in [Session -> Row] /\ stored \in [Session -> Row]
    /\ sent \in [Session -> SUBSET Token]
    /\ times \in [Session -> [Token -> Nat]]
    /\ mux \in {Free, Gc} \cup {Handler(s, r) : s \in Session, r \in Reporter}
    /\ handling \in {"none", "send", "store"}
    /\ todo \subseteq Session
    /\ watcher \in {"idle", "gc", "stopped"}
    /\ resuming \in Session \cup {None}
    /\ waiter \in [Session -> WaiterPc]
    /\ told \in [Session -> Report]

\* The service's lock: one writer at a time and no writer beside a reader; the
\* collector and the handler touch the pool only as that writer.
Exclusive ==
    /\ mux = Gc <=> watcher = "gc"
    /\ resuming # None => mux = Free
    /\ handling # "none" <=> \E s \in Session, r \in Reporter : mux = Handler(s, r)
    /\ \A s \in Session, r \in Reporter :
          mux = Handler(s, r) => report[s][r] \in Status /\ s \in pool

\* The service calls a session completed, in memory and in the store, only if
\* the engine completed it, whatever the order in which its goroutines report.
CompletedIsGenuine ==
    \A s \in Session :
        row[s].status = "completed" \/ stored[s].status = "completed" =>
            outcome[s] = "completed"

\* A pending prompt is written to the connections of its user once at most
\* (session.go 449, "Prevent prompts from being re-sent"), though every report of
\* a prompted session sends prompts.
SentOnce == \A s \in Session, t \in Token : times[s][t] <= 1

\* WaitResults comes back only from a session that has its outcome.  The status
\* it tells is read once more and may be that of a prompt registered since, but
\* never that of a session still active.
WaitedForOutcome ==
    \A s \in Session :
        waiter[s] = "returned" => outcome[s] # "running" /\ told[s] # "active"

\* engines do not keep their lock for ever
EnginesRelease == \A s \in Session : []<>~locked[s]

\* A session that ended leaves the pool.
PoolDrains ==
    EnginesRelease =>
      \A s \in Session :
        (s \in pool /\ outcome[s] # "running") ~>
            (s \notin pool \/ watcher = "stopped")

\* Every pending prompt of a session in the pool is taken up by the handler,
\* which marks it and hands it to the sender, unless it is answered or the
\* session is collected first: no report of a prompted session is the last one to
\* leave a prompt behind.  Whether it reaches its user is not promised: what Send
\* loses stays marked and is not sent again (HandleSend).
PromptOffered ==
    EnginesRelease =>
      \A s \in Session, t \in Token :
        (t \in prompts[s] /\ s \in pool) ~>
            (t \notin prompts[s] \/ t \in sent[s] \/ s \notin pool)

=============================================================================
