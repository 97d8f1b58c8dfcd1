------------------------ MODULE SessionService_proofs ------------------------
(***************************************************************************)
(* The safety properties of the session service, for any number of         *)
(* sessions, goroutines and suspended states.                              *)
(***************************************************************************)
EXTENDS SessionService, TLAPS

\* the engine's half of TypeOK and the service's
LifeOK ==
    /\ outcome \in [Session -> Outcome]
    /\ prompts \in [Session -> SUBSET Token]
    /\ delays \in [Session -> SUBSET Token]
    /\ locked \in [Session -> BOOLEAN]
    /\ report \in [Session -> [Reporter -> Report]]

Holder == {Free, Gc} \cup {Handler(s, r) : s \in Session, r \in Reporter}

SvcOK ==
    /\ start \in [Session -> StartPc]
    /\ pool \subseteq Session
    /\ row \in [Session -> Row] /\ stored \in [Session -> Row]
    /\ sent \in [Session -> SUBSET Token]
    /\ times \in [Session -> [Token -> Nat]]
    /\ mux \in Holder
    /\ handling \in {"none", "send", "store"}
    /\ todo \subseteq Session
    /\ watcher \in {"idle", "gc", "stopped"}
    /\ resuming \in Session \cup {None}
    /\ waiter \in [Session -> WaiterPc]
    /\ told \in [Session -> Report]

\* nobody reports a completion that has not happened
ReportsGenuine ==
    \A s \in Session, r \in Reporter :
        report[s][r] = "completed" => outcome[s] = "completed"

\* a caller that has seen an outcome, and what it is told
Waited ==
    \A s \in Session :
        /\ waiter[s] \in {"seen", "returned"} => outcome[s] # "running"
        /\ told[s] # "active"

\* a pending prompt without the mark was not written to anybody
UnsentFresh ==
    \A s \in Session, t \in Token :
        /\ times[s][t] <= 1
        /\ t \in prompts[s] \ sent[s] => times[s][t] = 0

Collecting == todo # {} => watcher = "gc"

Inv ==
    /\ LifeOK /\ SvcOK
    /\ Exclusive /\ Collecting
    /\ ReportsGenuine /\ CompletedIsGenuine
    /\ Waited /\ UnsentFresh

\* The holders of the service's lock can be told apart.
LEMMA Holders ==
    /\ Free # Gc
    /\ \A s, r : Handler(s, r) # Free /\ Handler(s, r) # Gc
    /\ \A s, r, x, y : Handler(s, r) = Handler(x, y) => s = x /\ r = y
BY DEF Free, Gc, Handler

\* A status is completed or active only if the outcome says so.
LEMMA StatusOfOutcome ==
    ASSUME LifeOK, NEW s \in Session
    PROVE  /\ StatusOf(s) \in Status
           /\ StatusOf(s) = "completed" => outcome[s] = "completed"
           /\ StatusOf(s) = "failed" => outcome[s] = "failed"
           /\ StatusOf(s) = "active" => outcome[s] = "running"
BY DEF LifeOK, StatusOf, Status, Outcome

-----------------------------------------------------------------------------
(* What a step of the life cycle keeps *)

LifeKept ==
    /\ LifeOK' /\ ReportsGenuine'
    /\ \A s \in Session : outcome[s] # "running" => outcome'[s] = outcome[s]

\* Goroutine r of s has something else to report.
LEMMA ReportSet ==
    ASSUME NEW s \in Session, NEW r \in Reporter, NEW v \in Report,
           report \in [Session -> [Reporter -> Report]],
           ReportsGenuine, v = "completed" => outcome'[s] = "completed",
           \A x \in Session : outcome[x] = "completed" => outcome'[x] = "completed",
           report' = [report EXCEPT ![s][r] = v]
    PROVE  report' \in [Session -> [Reporter -> Report]] /\ ReportsGenuine'
<1>1. report' \in [Session -> [Reporter -> Report]]
  OBVIOUS
<1>2. \A x \in Session, y \in Reporter :
          report'[x][y] = IF x = s /\ y = r THEN v ELSE report[x][y]
  OBVIOUS
<1>3. QED
  BY <1>1, <1>2 DEF ReportsGenuine

\* Progress of one session keeps the types and every outcome there is.
LEMMA ProgressKeeps ==
    ASSUME LifeOK, ReportsGenuine, NEW s \in Session, Progress(s)
    PROVE  LifeKept
<1>1. ASSUME NEW r \in Runner, Finish(s, r)
      PROVE  LifeKept
  BY <1>1, ReportSet DEF Finish, Executed, Report, Reporter, LifeKept, LifeOK
<1>2. ASSUME NEW r \in Runner, Terminate(s, r)
      PROVE  LifeKept
  BY <1>2, ReportSet DEF Terminate, Executed, Report, Reporter, LifeKept, LifeOK
<1>3. ASSUME NEW r \in Runner, Raise(s, r)
      PROVE  LifeKept
  BY <1>3, ReportSet DEF Raise, Report, Status, Reporter, LifeKept, LifeOK
<1>4. ASSUME NEW r \in Runner, NEW t \in Token, Prompt(s, r, t)
      PROVE  LifeKept
  BY <1>4, ReportSet DEF Prompt, Executed, Report, Reporter, LifeKept, LifeOK
<1>5. ASSUME NEW r \in Runner, NEW t \in Delayable, Delay(s, r, t)
      PROVE  LifeKept
  BY <1>5, ReportSet, TokenAssumption
  DEF Delay, Executed, Report, Reporter, LifeKept, LifeOK
<1>6. ASSUME NEW r \in Reporter, ReadStatus(s, r)
      PROVE  LifeKept
  BY <1>6, ReportSet, StatusOfOutcome DEF ReadStatus, Report, LifeKept, LifeOK
<1>7. ASSUME NEW t \in Delayable, Requeue(s, t)
      PROVE  LifeKept
  BY <1>7 DEF Requeue, LifeKept, LifeOK, ReportsGenuine
<1>8. CASE Lock(s) \/ Unlock(s)
  BY <1>8 DEF Lock, Unlock, LifeKept, LifeOK, ReportsGenuine
<1>9. CASE Complete(s)
  <2>1. outcome' \in [Session -> Outcome]
    BY <1>9 DEF Complete, Outcome, LifeOK
  <2>2. \A x \in Session : outcome[x] # "running" => outcome'[x] = outcome[x]
    BY <1>9 DEF Complete, LifeOK
  <2>3. outcome'[s] = "completed"
    BY <1>9 DEF Complete, LifeOK
  <2>4. QED
    BY <1>9, <2>1, <2>2, <2>3, ReportSet
    DEF Complete, Report, Status, Reporter, LifeKept, LifeOK
<1>10. CASE Fail(s)
  BY <1>10 DEF Fail, Outcome, LifeKept, LifeOK, ReportsGenuine
<1>11. QED
  BY <1>1, <1>2, <1>3, <1>4, <1>5, <1>6, <1>7, <1>8, <1>9, <1>10
  DEF Progress

\* Progress of one session leaves the others alone.
LEMMA ProgressIsLocal ==
    ASSUME LifeOK, NEW s \in Session, Progress(s)
    PROVE  \A x \in Session :
               x # s => prompts'[x] = prompts[x] /\ report'[x] = report[x]
<1> USE DEF LifeOK
<1>1. ASSUME NEW r \in Runner, Finish(s, r) \/ Terminate(s, r) \/ Raise(s, r)
      PROVE  \A x \in Session :
                 x # s => prompts'[x] = prompts[x] /\ report'[x] = report[x]
  BY <1>1 DEF Finish, Terminate, Raise, Executed
<1>2. ASSUME NEW r \in Runner, NEW t \in Token, Prompt(s, r, t)
      PROVE  \A x \in Session :
                 x # s => prompts'[x] = prompts[x] /\ report'[x] = report[x]
  BY <1>2 DEF Prompt, Executed
<1>3. ASSUME NEW r \in Runner, NEW t \in Delayable, Delay(s, r, t)
      PROVE  \A x \in Session :
                 x # s => prompts'[x] = prompts[x] /\ report'[x] = report[x]
  BY <1>3 DEF Delay, Executed
<1>4. ASSUME NEW r \in Reporter, ReadStatus(s, r)
      PROVE  \A x \in Session :
                 x # s => prompts'[x] = prompts[x] /\ report'[x] = report[x]
  BY <1>4 DEF ReadStatus
<1>5. CASE \/ \E t \in Delayable : Requeue(s, t)
           \/ Lock(s) \/ Unlock(s) \/ Complete(s) \/ Fail(s)
  BY <1>5 DEF Requeue, Lock, Unlock, Complete, Fail
<1>6. QED
  BY <1>1, <1>2, <1>3, <1>4, <1>5 DEF Progress

\* So does the delivery of a report.
LEMMA DeliverKeeps ==
    ASSUME LifeOK, ReportsGenuine, NEW s \in Session, NEW r \in Reporter,
           Deliver(s, r)
    PROVE  LifeKept
BY ReportSet DEF LifeKept, LifeOK, Deliver, Report

\* So does the answer to a prompt.
LEMMA AnswerKeeps ==
    ASSUME LifeOK, ReportsGenuine, NEW s \in Session, NEW t \in Token,
           Answer(s, t)
    PROVE  LifeKept
BY DEF LifeKept, LifeOK, ReportsGenuine, Answer

\* So does a step of the service alone.
LEMMA QuietKeeps ==
    ASSUME LifeOK, ReportsGenuine, UNCHANGED lifeVars
    PROVE  LifeKept
BY DEF LifeKept, LifeOK, ReportsGenuine, lifeVars

\* What depends on outcomes that are final
LEMMA OutcomeKept ==
    ASSUME Inv, LifeKept
    PROVE  /\ UNCHANGED <<row, stored>> => CompletedIsGenuine'
           /\ UNCHANGED waitVars => Waited'
<1>1. ASSUME UNCHANGED <<row, stored>> PROVE CompletedIsGenuine'
  BY <1>1 DEF Inv, LifeKept, CompletedIsGenuine
<1>2. ASSUME UNCHANGED waitVars PROVE Waited'
  BY <1>2 DEF Inv, LifeKept, Waited, waitVars
<1>3. QED
  BY <1>1, <1>2

-----------------------------------------------------------------------------
(* The steps of the service *)

\* Start and its end of the spawn queue, and the callers in WaitResults, leave
\* the lock, the rows and the prompts alone.
LEMMA CallerInv ==
    ASSUME Inv, NEW s \in Session,
           \/ Start(s) \/ WatchSpawn(s) \/ StartExec(s) \/ StartRefused(s)
           \/ Wait(s) \/ WaitUntil(s) \/ WaitReturn(s)
    PROVE  Inv'
<1>1. UNCHANGED <<lifeVars, pool, rowVars, lockVars>>
  BY DEF Start, WatchSpawn, StartExec, StartRefused, Wait, WaitUntil, WaitReturn,
         poolVars
<1>2. LifeKept
  BY <1>1, QuietKeeps DEF Inv
<1>3. CASE UNCHANGED waitVars
  <2>1. start' \in [Session -> StartPc]
    BY <1>3 DEF Inv, SvcOK, StartPc, Start, WatchSpawn, StartExec, StartRefused,
                Wait, WaitUntil, WaitReturn, waitVars, poolVars
  <2>2. SvcOK'
    BY <1>1, <1>3, <2>1 DEF Inv, SvcOK, rowVars, lockVars, waitVars
  <2>3. QED
    BY <1>1, <1>2, <1>3, <2>2, OutcomeKept
    DEF Inv, LifeKept, Exclusive, Collecting, UnsentFresh, lifeVars, rowVars,
        lockVars
<1>4. CASE Wait(s) \/ WaitUntil(s) \/ WaitReturn(s)
  <2>1. start' = start
    BY <1>4 DEF Wait, WaitUntil, WaitReturn, poolVars
  <2>2. waiter' \in [Session -> WaiterPc] /\ told' \in [Session -> Report]
    BY <1>4, StatusOfOutcome
    DEF Inv, SvcOK, WaiterPc, Report, Wait, WaitUntil, WaitReturn
  <2>3. Waited'
    <3>1. CASE Wait(s)
      BY <3>1 DEF Inv, SvcOK, Waited, Wait, lifeVars
    <3>2. CASE WaitUntil(s)
      BY <3>2, StatusOfOutcome DEF Inv, SvcOK, Waited, WaitUntil, lifeVars
    <3>3. CASE WaitReturn(s)
      BY <3>3, StatusOfOutcome DEF Inv, SvcOK, Waited, WaitReturn, lifeVars
    <3>4. QED
      BY <1>4, <3>1, <3>2, <3>3
  <2>4. SvcOK'
    BY <1>1, <2>1, <2>2 DEF Inv, SvcOK, rowVars, lockVars
  <2>5. QED
    BY <1>1, <1>2, <2>3, <2>4, OutcomeKept
    DEF Inv, LifeKept, Exclusive, Collecting, UnsentFresh, lifeVars, rowVars,
        lockVars
<1>5. QED
  BY <1>3, <1>4 DEF Start, WatchSpawn, StartExec, StartRefused

\* StartPool: a new session is nobody's.
LEMMA StartPoolInv ==
    ASSUME Inv, NEW s \in Session, StartPool(s)
    PROVE  Inv'
<1> USE DEF StartPool
<1>1. LifeKept
  BY QuietKeeps DEF Inv
<1>2. NewRow \in Row /\ NewRow.status = "started"
  BY DEF NewRow, NoRow, Row, RowStatus
<1>3. SvcOK'
  BY <1>2 DEF Inv, SvcOK, StartPc, lockVars, waitVars
<1>4. CompletedIsGenuine'
  BY <1>2 DEF Inv, SvcOK, CompletedIsGenuine, lifeVars
<1>5. Exclusive' /\ Collecting' /\ UnsentFresh'
  BY DEF Inv, Exclusive, Collecting, UnsentFresh, lifeVars, lockVars
<1>6. QED
  BY <1>1, <1>3, <1>4, <1>5, OutcomeKept DEF Inv, LifeKept

\* Engine: the goroutine inside the handler stays there, and a prompt that is
\* new has neither been sent nor marked.
LEMMA EngineInv ==
    ASSUME Inv, NEW s \in Session, Engine(s)
    PROVE  Inv'
<1>1. LifeKept
  BY ProgressKeeps DEF Inv, Engine
<1>2. SvcOK'
  BY DEF Inv, SvcOK, Engine, poolVars, lockVars, waitVars
<1>3. \A x \in Session : x # s => prompts'[x] = prompts[x] /\ report'[x] = report[x]
  BY ProgressIsLocal DEF Inv, Engine
<1>4. Exclusive' /\ Collecting'
  BY <1>3 DEF Inv, Exclusive, Collecting, Engine, poolVars, lockVars
<1>5. UnsentFresh'
  <2> DEFINE new == prompts'[s] \ prompts[s]
  <2>1. \A x \in Session, t \in Token :
            times'[x][t] = IF x = s /\ t \in new THEN 0 ELSE times[x][t]
    BY DEF Inv, SvcOK, Engine
  <2>2. \A x \in Session :
            sent'[x] = IF x = s THEN sent[x] \ new ELSE sent[x]
    BY DEF Inv, SvcOK, Engine
  <2>3. \A x \in Session, t \in Token :
            t \in prompts'[x] \ sent'[x] =>
                (x = s /\ t \in new) \/ t \in prompts[x] \ sent[x]
    BY <1>3, <2>2
  <2> HIDE DEF new
  <2>4. QED
    BY <2>1, <2>3 DEF Inv, SvcOK, UnsentFresh
<1>6. QED
  BY <1>1, <1>2, <1>4, <1>5, OutcomeKept DEF Inv, LifeKept, Engine

\* HandleMissing and HandleActive: nothing but the report changes.
LEMMA HandleQuietInv ==
    ASSUME Inv, NEW s \in Session, NEW r \in Reporter,
           HandleMissing(s, r) \/ HandleActive(s, r)
    PROVE  Inv'
<1>1. CanLock /\ Deliver(s, r) /\ UNCHANGED svcVars
  BY DEF HandleMissing, HandleActive
<1>2. LifeKept
  BY <1>1, DeliverKeeps DEF Inv
<1>3. SvcOK'
  BY <1>1 DEF Inv, SvcOK, svcVars, poolVars, rowVars, lockVars, waitVars
<1>4. Exclusive' /\ Collecting'
  BY <1>1, Holders
  DEF Inv, Exclusive, Collecting, CanLock, svcVars, poolVars, lockVars
<1>5. UnsentFresh'
  BY <1>1 DEF Inv, UnsentFresh, Deliver, svcVars, rowVars
<1>6. QED
  BY <1>1, <1>2, <1>3, <1>4, <1>5, OutcomeKept
  DEF Inv, LifeKept, svcVars, rowVars

\* What the handler makes of a row.
LEMMA ReportedRow ==
    ASSUME NEW w \in Row, NEW v \in Status
    PROVE  /\ Reported(w, v) \in Row
           /\ Reported(w, v).status = "completed" =>
                  v = "completed" \/ w.status = "completed"
<1> USE DEF Row, RowStatus, Reported
<1>1. CASE v = "prompted"
  BY <1>1
<1>2. CASE v = "delayed"
  BY <1>2
<1>3. CASE v = "completed"
  BY <1>3
<1>4. CASE v = "failed"
  BY <1>4
<1>5. CASE v = "active"
  BY <1>5
<1>6. QED
  BY <1>1, <1>2, <1>3, <1>4, <1>5 DEF Status

\* HandleEnter: the row is completed only if the report says so, and then the
\* session is.
LEMMA HandleEnterInv ==
    ASSUME Inv, NEW s \in Session, NEW r \in Reporter, HandleEnter(s, r)
    PROVE  Inv'
<1> USE DEF HandleEnter
<1>1. LifeKept
  BY QuietKeeps DEF Inv
<1>2. Reported(row[s], report[s][r]) \in Row
  BY ReportedRow DEF Inv, SvcOK
<1>3. Reported(row[s], report[s][r]).status = "completed" =>
          report[s][r] = "completed" \/ row[s].status = "completed"
  BY ReportedRow DEF Inv, SvcOK
<1>4. HandlerStep(s, r) \in {"send", "store"}
  BY DEF HandlerStep
<1>5. SvcOK'
  BY <1>2, <1>4 DEF Inv, SvcOK, Holder, poolVars, waitVars
<1>6. CompletedIsGenuine'
  BY <1>3 DEF Inv, SvcOK, CompletedIsGenuine, ReportsGenuine, lifeVars
<1>7. Exclusive'
  <2>1. mux' = Handler(s, r) /\ mux = Free /\ resuming' = None
    BY DEF CanLock
  <2>2. watcher' # "gc" /\ mux' # Gc
    BY <2>1, Holders DEF Inv, Exclusive
  <2>3. \A x \in Session, y \in Reporter :
            mux' = Handler(x, y) => report'[x][y] \in Status /\ x \in pool'
    BY <2>1, Holders DEF lifeVars, poolVars
  <2>4. QED
    BY <1>4, <2>1, <2>2, <2>3 DEF Exclusive
<1>8. Collecting' /\ UnsentFresh'
  BY DEF Inv, Collecting, UnsentFresh, lifeVars
<1>9. QED
  BY <1>1, <1>5, <1>6, <1>7, <1>8, OutcomeKept DEF Inv, LifeKept

\* HandleSend: what arrives was not sent before, and all that was pending is
\* marked.
LEMMA HandleSendInv ==
    ASSUME Inv, NEW s \in Session, NEW r \in Reporter, HandleSend(s, r)
    PROVE  Inv'
<1> USE DEF HandleSend
<1>0. PICK arrived \in SUBSET (prompts[s] \ sent[s]) :
          times' = [times EXCEPT ![s] =
              [t \in Token |-> IF t \in arrived THEN @[t] + 1 ELSE @[t]]]
  OBVIOUS
<1>1. LifeKept
  BY QuietKeeps DEF Inv
<1>2. SvcOK'
  <2>1. times' \in [Session -> [Token -> Nat]]
    BY <1>0 DEF Inv, SvcOK
  <2>2. QED
    BY <2>1 DEF Inv, SvcOK, LifeOK, Marked, poolVars, waitVars
<1>3. UnsentFresh'
  BY <1>0 DEF Inv, SvcOK, LifeOK, UnsentFresh, Marked, lifeVars
<1>4. Exclusive' /\ Collecting'
  BY DEF Inv, Exclusive, Collecting, lifeVars, poolVars
<1>5. QED
  BY <1>1, <1>2, <1>3, <1>4, OutcomeKept DEF Inv, LifeKept

\* StoreFails and HandleStore: the lock is released and the report is delivered.
LEMMA HandleStoreInv ==
    ASSUME Inv, NEW s \in Session, NEW r \in Reporter,
           HandleStore(s, r) \/ StoreFails(s, r)
    PROVE  Inv'
<1>1. /\ mux = Handler(s, r) /\ mux' = Free /\ handling' = "none"
      /\ Deliver(s, r)
      /\ stored' = stored \/ stored' = [stored EXCEPT ![s] = row[s]]
      /\ UNCHANGED <<poolVars, row, sent, times, todo, watcher, resuming, waitVars>>
  BY DEF HandleStore, StoreFails, rowVars
<1>2. LifeKept
  BY <1>1, DeliverKeeps DEF Inv
<1>3. SvcOK'
  BY <1>1 DEF Inv, SvcOK, Holder, poolVars, waitVars
<1>4. CompletedIsGenuine'
  BY <1>1 DEF Inv, SvcOK, CompletedIsGenuine, Deliver
<1>5. Exclusive' /\ Collecting'
  BY <1>1, Holders DEF Inv, Exclusive, Collecting
<1>6. UnsentFresh'
  BY <1>1 DEF Inv, UnsentFresh, Deliver
<1>7. QED
  BY <1>1, <1>2, <1>3, <1>4, <1>5, <1>6, OutcomeKept DEF Inv, LifeKept

\* The collector takes sessions from the pool only with the lock held.
LEMMA CollectorInv ==
    ASSUME Inv, Collector \/ WatchStop
    PROVE  Inv'
<1>1. /\ UNCHANGED <<lifeVars, start, rowVars, handling, resuming, waitVars>>
      /\ pool' \subseteq pool
  BY DEF Collector, GcBegin, GcVisit, GcEnd, WatchStop, poolVars
<1>2. LifeKept
  BY <1>1, QuietKeeps DEF Inv
<1>3. mux' \in Holder /\ todo' \subseteq Session
      /\ watcher' \in {"idle", "gc", "stopped"}
  BY DEF Inv, SvcOK, Holder, Collector, GcBegin, GcVisit, GcEnd, WatchStop
<1>4. SvcOK'
  BY <1>1, <1>3 DEF Inv, SvcOK, rowVars, waitVars
<1>5. Exclusive' /\ Collecting'
  <2>1. CASE GcBegin
    BY <2>1, Holders
    DEF Inv, Exclusive, Collecting, GcBegin, CanLock, lifeVars, poolVars
  <2>2. ASSUME NEW s \in Session, GcVisit(s)
        PROVE  Exclusive' /\ Collecting'
    BY <2>2, Holders DEF Inv, SvcOK, Exclusive, Collecting, GcVisit, lifeVars
  <2>3. CASE GcEnd
    BY <2>3, Holders DEF Inv, Exclusive, Collecting, GcEnd, lifeVars, poolVars
  <2>4. CASE WatchStop
    BY <2>4, Holders
    DEF Inv, Exclusive, Collecting, WatchStop, lifeVars, poolVars
  <2>5. QED
    BY <2>1, <2>2, <2>3, <2>4 DEF Collector
<1>6. UnsentFresh'
  BY <1>1 DEF Inv, UnsentFresh, lifeVars, rowVars
<1>7. QED
  BY <1>1, <1>2, <1>4, <1>5, <1>6, OutcomeKept DEF Inv, LifeKept, rowVars

\* Resume reads: nobody writes meanwhile.
LEMMA ResumeInv ==
    ASSUME Inv,
           \/ \E s \in Session : ResumeBegin(s)
           \/ ResumeEnd
           \/ \E s \in Session, t \in Token : ResumePrompt(s, t)
    PROVE  Inv'
<1>1. ASSUME NEW s \in Session, ResumeBegin(s) \/ ResumeEnd
      PROVE  Inv'
  <2>1. /\ UNCHANGED <<lifeVars, poolVars, rowVars, mux, handling, todo, watcher,
                        waitVars>>
        /\ resuming' \in Session \cup {None}
        /\ resuming' # None => mux = Free
    BY <1>1 DEF ResumeBegin, ResumeEnd, CanLock
  <2>2. LifeKept
    BY <2>1, QuietKeeps DEF Inv
  <2>3. SvcOK'
    BY <2>1 DEF Inv, SvcOK, poolVars, rowVars, waitVars
  <2>4. Exclusive' /\ Collecting' /\ UnsentFresh'
    BY <2>1
    DEF Inv, Exclusive, Collecting, UnsentFresh, lifeVars, poolVars, rowVars
  <2>5. QED
    BY <2>1, <2>2, <2>3, <2>4, OutcomeKept DEF Inv, LifeKept, rowVars
<1>2. CASE ResumeEnd
  BY <1>2, <1>1 DEF Inv, SvcOK, ResumeEnd
<1>3. ASSUME NEW s \in Session, NEW t \in Token, ResumePrompt(s, t)
      PROVE  Inv'
  <2>1. Answer(s, t) /\ UNCHANGED svcVars
    BY <1>3 DEF ResumePrompt
  <2>2. LifeKept
    BY <2>1, AnswerKeeps DEF Inv
  <2>3. SvcOK'
    BY <2>1 DEF Inv, SvcOK, svcVars, poolVars, rowVars, lockVars, waitVars
  <2>4. Exclusive' /\ Collecting'
    BY <2>1
    DEF Inv, Exclusive, Collecting, Answer, svcVars, poolVars, lockVars
  <2>5. UnsentFresh'
    BY <2>1 DEF Inv, LifeOK, UnsentFresh, Answer, svcVars, rowVars
  <2>6. QED
    BY <2>1, <2>2, <2>3, <2>4, <2>5, OutcomeKept
    DEF Inv, LifeKept, svcVars, rowVars
<1>4. QED
  BY <1>1, <1>2, <1>3

-----------------------------------------------------------------------------
(* The theorems *)

\* The inductive invariant holds initially.
LEMMA InitInv ==
    ASSUME Init
    PROVE  Inv
<1> USE DEF Init, LifeInit
<1>1. LifeOK
  BY DEF LifeOK, Outcome, Report
<1>2. NoRow \in Row /\ NoRow.status = "none"
  BY DEF NoRow, Row, RowStatus
<1>3. SvcOK
  BY <1>2 DEF SvcOK, StartPc, Holder, WaiterPc, Report
<1>4. Exclusive /\ Collecting
  BY Holders DEF Exclusive, Collecting
<1>5. ReportsGenuine
  BY DEF ReportsGenuine
<1>6. CompletedIsGenuine
  BY <1>2 DEF CompletedIsGenuine
<1>7. Waited /\ UnsentFresh
  BY DEF Waited, UnsentFresh
<1>8. QED
  BY <1>1, <1>3, <1>4, <1>5, <1>6, <1>7 DEF Inv

\* Every step keeps it.
LEMMA StepInv ==
    ASSUME Inv, [Next]_vars
    PROVE  Inv'
<1>1. CASE UNCHANGED vars
  BY <1>1
  DEF vars, lifeVars, svcVars, poolVars, rowVars, lockVars, waitVars, Inv, LifeOK,
      SvcOK, Exclusive, Collecting, ReportsGenuine, CompletedIsGenuine, Waited,
      UnsentFresh
<1>2. ASSUME NEW s \in Session, NEW r \in Reporter, Handle(s, r)
      PROVE  Inv'
  BY <1>2, HandleQuietInv, HandleEnterInv, HandleSendInv, HandleStoreInv
  DEF Handle
<1>3. ASSUME NEW s \in Session,
             \/ Start(s) \/ WatchSpawn(s) \/ Starter(s) \/ Wait(s) \/ Waiter(s)
      PROVE  Inv'
  BY <1>3, CallerInv, StartPoolInv DEF Starter, Waiter
<1>4. ASSUME NEW s \in Session, Engine(s)
      PROVE  Inv'
  BY <1>4, EngineInv
<1>5. CASE Collector \/ WatchStop
  BY <1>5, CollectorInv
<1>6. CASE \/ \E s \in Session : ResumeBegin(s)
           \/ ResumeEnd
           \/ \E s \in Session, t \in Token : ResumePrompt(s, t)
  BY <1>6, ResumeInv
<1>7. QED
  BY <1>1, <1>2, <1>3, <1>4, <1>5, <1>6 DEF Next

\* The inductive invariant of the service, with any number of sessions.
THEOREM ServiceInvariant == Spec => []Inv
<1>1. Init => Inv
  BY InitInv
<1>2. Inv /\ [Next]_vars => Inv'
  BY StepInv
<1>3. QED
  BY <1>1, <1>2, PTL DEF Spec

\* Every variable keeps its type.
THEOREM TypeCorrect == Spec => []TypeOK
<1>1. Inv => TypeOK
  BY DEF Inv, LifeOK, SvcOK, Holder, TypeOK
<1>2. QED
  BY <1>1, ServiceInvariant, PTL

\* The service's lock has one writer, or readers only; the session in the hands
\* of the handler stays in the pool.
THEOREM LockExclusive == Spec => []Exclusive
<1>1. Inv => Exclusive
  BY DEF Inv
<1>2. QED
  BY <1>1, ServiceInvariant, PTL

\* No session is stored as completed that the engine has not completed, in
\* whatever order reports arrive.
THEOREM StoredCompletionsGenuine == Spec => []CompletedIsGenuine
<1>1. Inv => CompletedIsGenuine
  BY DEF Inv
<1>2. QED
  BY <1>1, ServiceInvariant, PTL

\* A prompt is written to its user's connections at most once while it is
\* pending, however many goroutines report that the session is prompted.
THEOREM PromptsSentOnce == Spec => []SentOnce
<1>1. Inv => SentOnce
  BY DEF Inv, UnsentFresh, SentOnce
<1>2. QED
  BY <1>1, ServiceInvariant, PTL

\* WaitResults returns after the outcome.
THEOREM WaitersSeeOutcome == Spec => []WaitedForOutcome
<1>1. Inv => WaitedForOutcome
  BY DEF Inv, Waited, WaitedForOutcome
<1>2. QED
  BY <1>1, ServiceInvariant, PTL

=============================================================================
