--------------------------- MODULE WorkflowSession ---------------------------
(***************************************************************************)
(* The workflow execution engine, pkg/wfexec: one session, its worker      *)
(* goroutine, the goroutines that execute steps (at most ConcurrentExec at *)
(* a time), the callers that start, resume, cancel and wait for it, the    *)
(* session lock, and the two channels qState and qErr.                     *)
(*                                                                         *)
(* What is kept: every blocking point (a channel send, a lock taken), every*)
(* piece of state a goroutine shares with another, and the whole of the    *)
(* resolution of a step's response into following steps.  What is left     *)
(* out: variables and scopes, timestamps, logging, the trace of frames.    *)
(*                                                                         *)
(* A step.Exec call and the resolution of its response are one atomic step *)
(* each, which is where another goroutine can get in between.              *)
(***************************************************************************)
EXTENDS Integers, Sequences, FiniteSets

CONSTANTS
    Step,            \* the steps of the graph
    Kind,            \* [Step -> StepKind]: what workflow_converter made of each
    Children,        \* [Step -> Seq(Step)]: outbound paths, in definition order
    Enclosing,       \* [Step -> Step \cup {None}]: innermost iterator around a step
    Faults,          \* [Step -> SUBSET Fault]: what its Exec may end in besides
    Starts,          \* the steps a caller may try to start the session at
    Shared,          \* join gateways that other sessions of the workflow reach
    Users,           \* identities that may try to resume a prompt
    PromptOwner,     \* [Step -> Users \cup {NoUser}]
    NoUser,          \* ownerId 0
    None,            \* the nil step
    Final,           \* the nil step of a FinalState
    WaitFor,         \* statuses the waiting caller expects (WaitUntil)
    Rounds,          \* BOUND: iterations of every iterator
    LoopCap,         \* capacity of the loop stack NewState allocates
    QStateCap,       \* sessionStateChanBuf
    ConcurrentExec,  \* sessionConcurrentExec
    MaxStates,       \* BOUND: states a session may create
    MaxRuns,         \* BOUND: goroutines a session may start
    MaxResumes,      \* BOUND: successful Resume calls
    MayWait,         \* starts (None: a refused one) of sessions a caller waits for
    MayCancel,       \* ... whose waiting caller's context can be done
    MayAbandon,      \* ... with a resuming caller whose context can be done
    MayShutdown      \* ... with a worker whose context can be done

StepKind == {"function", "error", "fork", "join", "excl", "incl", "iterator",
             "break", "continue", "delay", "prompt", "errHandler",
             "termination"}

\* "start" and "next" are the errors of an iterator's Start and Next
Fault == {"error", "panic", "start", "next"}

Status == {"active", "prompted", "delayed", "failed", "completed"}

StateId == 1 .. MaxStates
RunId   == 1 .. MaxRuns

ASSUME GraphAssumption ==
    /\ Kind \in [Step -> StepKind]
    /\ Children \in [Step -> Seq(Step)]
    /\ Enclosing \in [Step -> Step \cup {None}]
    /\ Faults \in [Step -> SUBSET Fault]
    /\ Starts \subseteq Step
    /\ Shared \subseteq Step /\ \A s \in Shared : Kind[s] = "join"
    /\ None \notin Step /\ Final \notin Step /\ None # Final
    /\ \A s \in Step : Kind[s] = "iterator" => Len(Children[s]) = 2

ASSUME CallerAssumption ==
    /\ NoUser \notin Users
    /\ PromptOwner \in [Step -> Users \cup {NoUser}]
    /\ WaitFor \subseteq Status
    /\ UNION {MayWait, MayCancel, MayAbandon, MayShutdown} \subseteq Step \cup {None}

ASSUME BoundAssumption ==
    /\ Rounds \in Nat /\ MaxResumes \in Nat
    /\ LoopCap \in Nat \ {0} /\ QStateCap \in Nat \ {0}
    /\ ConcurrentExec \in Nat \ {0}
    /\ MaxStates \in Nat \ {0} /\ MaxRuns \in Nat \ {0}

VARIABLES
    st,        \* the State structs, by order of allocation
    nStates,   \* how many exist
    qState,    \* work queue: state ids
    qErr,      \* crash channel, capacity 1
    mux,       \* who holds the session lock for writing
    delayed,   \* keys of the map of delayed states
    delayedNil,\* has a termination replaced that map by nil?
    due,       \* delayed states whose resumeAt has passed
    prompted,  \* keys of the map of prompted states
    result,    \* is the final result set?
    sesErr,    \* the error the session ended with
    worker,    \* the worker goroutine: pc, the state or error it holds, tick set
    run,       \* the step goroutines, by order of start
    nRuns,     \* how many were started
    joined,    \* [Step -> SUBSET Step]: parents a join gateway has collected
    backing,   \* the array under every loops slice of the session
    left,      \* iterations an iterator object has left
    handled,   \* statuses the event handler was called with
    started,   \* has Exec been called?
    waiter,    \* the caller in WaitUntil
    waitDone,  \* is that caller's context done?
    ctxDone,   \* is the worker's context done?
    resumer,   \* the caller in Resume: the state it is enqueueing, 0 if none
    nResumes

stateVars  == <<st, nStates>>
chanVars   == <<qState, qErr>>
mapVars    == <<delayed, delayedNil, due, prompted>>
endVars    == <<result, sesErr>>
runVars    == <<run, nRuns>>
stepVars   == <<joined, backing, left>>
waitVars   == <<waiter, waitDone>>
resumeVars == <<resumer, nResumes>>
callerVars == <<started, ctxDone, waitVars, resumeVars>>
engineVars == <<stateVars, chanVars, mux, mapVars, endVars, worker, runVars,
                stepVars, handled>>
vars == <<engineVars, callerVars>>

\* what the worker, and what a step goroutine, leaves alone in most steps
workerKeeps == <<stateVars, mapVars, runVars, stepVars, callerVars>>
runKeeps    == <<qState, endVars, worker, nRuns, handled, callerVars>>

-----------------------------------------------------------------------------
(* Values *)

NoErr    == <<"none", 0>>
Stopping == <<"stop", 0>>                  \* the nil that Stop sends
StepErr(i)  == <<"step", i>>
PanicErr(i) == <<"panic", i>>
Canceled == <<"canceled", 0>>
Refused  == <<"refused", 0>>
ErrVal == {NoErr, Stopping, Canceled, Refused}
            \cup ({"step", "panic"} \X StateId)

Free == <<"free", 0>>
Holder == {Free, <<"worker", 0>>, <<"resumer", 0>>} \cup ({"run"} \X RunId)

StateRec == [step : Step \cup {None, Final}, parent : Step \cup {None, Final},
             input : BOOLEAN, err : BOOLEAN, errHandled : BOOLEAN,
             errHandler : Step \cup {None}, depth : 0 .. LoopCap]

NewState(step, parent, errHandler, depth) ==
    [step |-> step, parent |-> parent, input |-> FALSE, err |-> FALSE,
     errHandled |-> FALSE, errHandler |-> errHandler, depth |-> depth]

Unused == NewState(None, None, None, 0)

RunPc == {"none", "call", "resolve", "panic", "post", "check", "push",
          "notify", "enqueue", "done"}

RespKind == {"none", "vars", "steps", "partial", "iterator", "errHandler",
             "break", "continue", "delay", "prompt", "termination"}

RunRec == [pc : RunPc, state : 0 .. MaxStates, curr : 0 .. MaxStates,
           resp : RespKind, to : Seq(Step), nxt : Seq(StateId),
           status : Status, err : BOOLEAN]

Idle == [pc |-> "none", state |-> 0, curr |-> 0, resp |-> "none",
         to |-> <<>>, nxt |-> <<>>, status |-> "active", err |-> FALSE]

WorkerPc == {"loop", "ticking", "tick", "final", "setResult", "completed",
             "acquire", "setErr", "stopping", "done"}

WorkerRec == [pc : WorkerPc, state : 0 .. MaxStates, err : ErrVal,
              tick : SUBSET StateId]

Elems(q) == {q[k] : k \in DOMAIN q}

-----------------------------------------------------------------------------
(* The graph *)

Parents(s) == {p \in Step : s \in Elems(Children[p])}

\* an error handling step with one path out removes the handler
Handler(s) == IF Len(Children[s]) = 2 THEN Children[s][2] ELSE None

(* Session.Status: the order of the cases is the order of their weight *)
CurStatus ==
    IF sesErr # NoErr THEN "failed"
    ELSE IF prompted # {} THEN "prompted"
    ELSE IF delayed # {} THEN "delayed"
    ELSE IF result THEN "completed" ELSE "active"

\* mutant: off by one
RoomInStateOff == Len(qState) <= QStateCap

RoomInState == Len(qState) < QStateCap

RoomInErr == Len(qErr) < 1

Init ==
    /\ st = [i \in StateId |-> Unused]
    /\ nStates = 0
    /\ qState = <<>>
    /\ qErr = <<>>
    /\ mux = Free
    /\ delayed = {} /\ delayedNil = FALSE /\ due = {} /\ prompted = {}
    /\ result = FALSE
    /\ sesErr = NoErr
    /\ worker = [pc |-> "loop", state |-> 0, err |-> NoErr, tick |-> {}]
    /\ run = [r \in RunId |-> Idle]
    /\ nRuns = 0
    /\ joined = [s \in Step |-> {}]
    /\ backing = [k \in 1 .. LoopCap |-> 0]
    /\ left = [i \in StateId |-> 0]
    /\ handled = {}
    /\ started = FALSE
    /\ waiter = "none" /\ waitDone = FALSE /\ ctxDone = FALSE
    /\ resumer = 0 /\ nResumes = 0

-----------------------------------------------------------------------------
(* Callers: Exec, Resume, WaitUntil with Cancel, and the two contexts *)

(* Exec refuses a step with parents and then ends the session through qErr *)
Exec(s) ==
    /\ ~started
    /\ mux = Free
    /\ started' = TRUE
    /\ IF Parents(s) # {}
       THEN /\ RoomInErr
            /\ qErr' = Append(qErr, Refused)
            /\ UNCHANGED <<stateVars, qState>>
       ELSE /\ RoomInState
            /\ st' = [st EXCEPT ![1] = NewState(s, None, None, 0)]
            /\ nStates' = 1
            /\ qState' = Append(qState, 1)
            /\ UNCHANGED qErr
    /\ UNCHANGED <<mapVars, stepVars, waitVars, resumeVars, endVars, runVars,
                   mux, worker, handled, ctxDone>>

\* mutant: the prompt stays in the map
WithoutKept(m, i) == m

\* delete(m, i)
Without(m, i) == m \ {i}

(* Resume by the owner of the prompt.  The state is enqueued under the lock,
   so a caller that finds the queue full keeps everybody out. *)
Resume(u, i, hasInput) ==
    /\ resumer = 0
    /\ nResumes < MaxResumes
    /\ mux = Free
    /\ i \in prompted
    /\ PromptOwner[st[i].step] = u
    /\ prompted' = Without(prompted, i)
    /\ st' = [st EXCEPT ![i].input = hasInput]
    /\ mux' = <<"resumer", 0>>
    /\ resumer' = i
    /\ nResumes' = nResumes + 1
    /\ UNCHANGED <<stepVars, waitVars, chanVars, endVars, runVars, nStates,
                   delayed, delayedNil, due, worker, handled, started,
                   ctxDone>>

\* mutant: the state is not put into the queue
ResumeEnqueueLost ==
    /\ resumer # 0
    /\ mux' = Free
    /\ resumer' = 0
    /\ UNCHANGED <<mapVars, stepVars, waitVars, stateVars, chanVars, endVars,
                   runVars, worker, handled, started, ctxDone, nResumes>>

ResumeEnqueue ==
    /\ resumer # 0
    /\ RoomInState
    /\ qState' = Append(qState, resumer)
    /\ mux' = Free
    /\ resumer' = 0
    /\ UNCHANGED <<mapVars, stepVars, waitVars, stateVars, endVars, runVars,
                   qErr, worker, handled, started, ctxDone, nResumes>>

\* mutant: the early return skips the unlock
ResumeAbandonedLocked ==
    /\ st[1].step \in MayAbandon
    /\ resumer # 0
    /\ resumer' = 0
    /\ UNCHANGED <<engineVars, waitVars, started, ctxDone, nResumes>>

(* enqueue gives up when the resuming caller's own context is done: by then
   the prompt is gone from the map and nothing puts it back *)
ResumeAbandoned ==
    /\ st[1].step \in MayAbandon
    /\ resumer # 0
    /\ mux' = Free
    /\ resumer' = 0
    /\ UNCHANGED <<mapVars, stepVars, waitVars, stateVars, chanVars, endVars,
                   runVars, worker, handled, started, ctxDone, nResumes>>

Wait ==
    /\ st[1].step \in MayWait /\ started /\ waiter = "none"
    /\ waiter' = "waiting"
    /\ UNCHANGED <<engineVars, resumeVars, started, waitDone, ctxDone>>

(* A tick of WaitUntil calls Status, which needs the read lock: while it
   waits for it the caller does not look at its context.  A tick that finds
   the lock free and the status not expected changes nothing. *)
WaitTick ==
    /\ waiter = "waiting"
    /\ mux # Free \/ CurStatus \in WaitFor
    /\ waiter' = "polling"
    /\ UNCHANGED <<engineVars, resumeVars, started, waitDone, ctxDone>>

WaitCheck ==
    /\ waiter = "polling"
    /\ mux = Free
    /\ waiter' = IF CurStatus \in WaitFor THEN "returned" ELSE "waiting"
    /\ UNCHANGED <<engineVars, resumeVars, started, waitDone, ctxDone>>

WaitTimeout ==
    /\ waiter = "waiting" /\ waitDone
    /\ waiter' = "canceling"
    /\ UNCHANGED <<engineVars, resumeVars, started, waitDone, ctxDone>>

\* mutant: the worker is not told
CancelSilent ==
    /\ waiter = "canceling"
    /\ waiter' = "returned"
    /\ UNCHANGED <<engineVars, resumeVars, started, waitDone, ctxDone>>

(* Cancel sends to qErr and blocks while somebody else's error is in it *)
Cancel ==
    /\ waiter = "canceling"
    /\ RoomInErr
    /\ qErr' = Append(qErr, Canceled)
    /\ waiter' = "returned"
    /\ UNCHANGED <<mapVars, stepVars, resumeVars, stateVars, endVars, runVars,
                   qState, mux, worker, handled, started, waitDone, ctxDone>>

CallerGone ==
    /\ st[1].step \in MayCancel
    /\ waiter \in {"waiting", "polling"} /\ ~waitDone
    /\ waitDone' = TRUE
    /\ UNCHANGED <<engineVars, resumeVars, started, waiter, ctxDone>>

Shutdown ==
    /\ st[1].step \in MayShutdown /\ ~ctxDone
    /\ ctxDone' = TRUE
    /\ UNCHANGED <<engineVars, waitVars, resumeVars, started>>

(* the clock reaches the resumeAt of a delayed state *)
BecomeDue(i) ==
    /\ i \in delayed \ due
    /\ due' = due \cup {i}
    /\ UNCHANGED <<runKeeps, stepVars, stateVars, qErr, mux, delayed,
                   delayedNil, prompted, run>>

-----------------------------------------------------------------------------
(* The worker goroutine.  Its select takes any case that is ready. *)

\* mutant: the case does not return
WorkerDoneLoops ==
    /\ worker.pc = "loop" /\ ctxDone
    /\ UNCHANGED vars

WorkerDone ==
    /\ worker.pc = "loop" /\ ctxDone
    /\ worker' = [worker EXCEPT !.pc = "stopping"]
    /\ UNCHANGED <<workerKeeps, chanVars, endVars, mux, handled>>

\* delayed states the tick takes
Overdue == delayed \cap due

(* The ticker is one of the cases of the select, whatever there is to do for
   it: the worker that takes it then waits for the lock and looks at nothing
   else.  A tick that finds the lock free and nothing due changes nothing. *)
TickBegin ==
    /\ worker.pc = "loop"
    /\ mux # Free \/ Overdue # {}
    /\ worker' = [worker EXCEPT !.pc = "ticking"]
    /\ UNCHANGED <<workerKeeps, chanVars, endVars, mux, handled>>

(* queueScheduledSuspended, under the lock until every state that was due
   when it began is back in the queue; one that becomes due meanwhile may or
   may not be noticed. *)
TickLock ==
    /\ worker.pc = "ticking"
    /\ mux = Free
    /\ mux' = <<"worker", 0>>
    /\ worker' = [worker EXCEPT !.pc = "tick", !.tick = Overdue]
    /\ UNCHANGED <<workerKeeps, chanVars, endVars, handled>>

TickEnqueue(i) ==
    /\ worker.pc = "tick"
    /\ i \in Overdue
    /\ RoomInState
    /\ delayed' = Without(delayed, i)
    /\ due' = due \ {i}
    /\ st' = [st EXCEPT ![i].input = TRUE]
    /\ qState' = Append(qState, i)
    /\ UNCHANGED <<callerVars, stepVars, endVars, runVars, nStates, qErr, mux,
                   delayedNil, prompted, worker, handled>>

TickEnd ==
    /\ worker.pc = "tick"
    /\ worker.tick \cap delayed = {}
    /\ mux' = Free
    /\ worker' = [worker EXCEPT !.pc = "loop", !.tick = {}]
    /\ UNCHANGED <<workerKeeps, chanVars, endVars, handled>>

Dequeue ==
    /\ worker.pc = "loop"
    /\ qState # <<>>
    /\ qState' = Tail(qState)
    /\ worker' = [worker EXCEPT
           !.pc = IF st[Head(qState)].step = Final THEN "final" ELSE "acquire",
           !.state = Head(qState)]
    /\ UNCHANGED <<workerKeeps, endVars, qErr, mux, handled>>

FinalDropped(status) == status \in {"prompted", "delayed"}

(* A final state is dropped while something is suspended; otherwise the lock
   is taken again, in another critical section, to set the result. *)
FinalCheck ==
    /\ worker.pc = "final"
    /\ mux = Free
    /\ worker' = [worker EXCEPT
           !.pc = IF FinalDropped(CurStatus) THEN "loop" ELSE "setResult",
           !.state = 0]
    /\ UNCHANGED <<workerKeeps, chanVars, endVars, mux, handled>>

SetResult ==
    /\ worker.pc = "setResult"
    /\ mux = Free
    /\ result' = TRUE
    /\ worker' = [worker EXCEPT !.pc = "completed"]
    /\ UNCHANGED <<workerKeeps, chanVars, mux, sesErr, handled>>

\* mutant: the worker goes on after it has set the result
NotifyCompletedLoops ==
    /\ worker.pc = "completed"
    /\ handled' = handled \cup {"completed"}
    /\ worker' = [worker EXCEPT !.pc = "loop"]
    /\ UNCHANGED <<workerKeeps, chanVars, endVars, mux>>

NotifyCompleted ==
    /\ worker.pc = "completed"
    /\ handled' = handled \cup {"completed"}
    /\ worker' = [worker EXCEPT !.pc = "stopping"]
    /\ UNCHANGED <<workerKeeps, chanVars, endVars, mux>>

\* goroutines that hold a slot of execLock
Executing == {r \in RunId : run[r].pc \notin {"none", "done"}}

(* take a slot of execLock and start the goroutine of the state *)
StartRun ==
    /\ worker.pc = "acquire"
    /\ Cardinality(Executing) < ConcurrentExec
    /\ nRuns < MaxRuns
    /\ run' = [run EXCEPT ![nRuns + 1] =
                  [Idle EXCEPT !.pc = "call", !.state = worker.state]]
    /\ nRuns' = nRuns + 1
    /\ worker' = [worker EXCEPT !.pc = "loop", !.state = 0]
    /\ UNCHANGED <<callerVars, mapVars, stepVars, stateVars, chanVars,
                   endVars, mux, handled>>

TakeErr ==
    /\ worker.pc = "loop"
    /\ qErr # <<>>
    /\ qErr' = Tail(qErr)
    /\ worker' = [worker EXCEPT !.pc = "setErr", !.err = Head(qErr)]
    /\ UNCHANGED <<workerKeeps, endVars, qState, mux, handled>>

SetErr ==
    /\ worker.pc = "setErr"
    /\ mux = Free
    /\ sesErr' = IF worker.err = Stopping THEN sesErr ELSE worker.err
    /\ worker' = [worker EXCEPT !.pc = "stopping", !.err = NoErr]
    /\ UNCHANGED <<workerKeeps, chanVars, mux, result, handled>>

(* the deferred Stop: it sends nil to the channel nobody reads any more *)
Stop ==
    /\ worker.pc = "stopping"
    /\ RoomInErr
    /\ qErr' = Append(qErr, Stopping)
    /\ worker' = [worker EXCEPT !.pc = "done"]
    /\ UNCHANGED <<workerKeeps, endVars, qState, mux, handled>>

-----------------------------------------------------------------------------
(* A step goroutine, first part: st.step.Exec *)

Resp(kind, to) == [kind |-> kind, to |-> to]

\* a join gateway is reached by something that is not one of its paths (an
\* error handler's or a loop's jump)
UnknownParent(i) ==
    Kind[st[i].step] = "join" /\ st[i].parent \notin Parents(st[i].step)

\* the non-empty selections from a list of paths, in the list's order
Picks(cs) ==
    LET Index == {f \in UNION {[1 .. n -> DOMAIN cs] : n \in DOMAIN cs} :
                     \A j, k \in DOMAIN f : j < k => f[j] < f[k]}
    IN {[k \in DOMAIN f |-> cs[f[k]]] : f \in Index}

\* mutant: the gateway goes on with the first path that arrives
JoinReadyEarly(i) == st[i].parent \in Parents(st[i].step)

\* all paths have been collected, this one included
JoinReady(i) ==
    joined[st[i].step] \cup {st[i].parent} = Parents(st[i].step)

\* what the step answers when its Exec succeeds; i is the executed state
Answers(i) ==
    LET s == st[i].step
        cs == Children[s]
    IN CASE Kind[s] = "function" -> {Resp("vars", <<>>)}
         [] Kind[s] = "error" -> {}
         [] Kind[s] = "fork" -> {Resp("steps", <<>>)}
         [] Kind[s] = "excl" -> {Resp("steps", <<c>>) : c \in Elems(cs)}
         [] Kind[s] = "incl" ->
              {Resp("steps", paths) : paths \in Picks(cs)}
         [] Kind[s] = "join" ->
              IF UnknownParent(i) THEN {} ELSE
              {Resp(IF JoinReady(i) THEN "vars" ELSE "partial", <<>>)}
         [] Kind[s] = "delay" ->
              {Resp(IF st[i].input THEN "vars" ELSE "delay", <<>>)}
         [] Kind[s] = "prompt" ->
              {Resp(IF st[i].input THEN "vars" ELSE "prompt", <<>>)}
         [] OTHER -> {Resp(Kind[s], <<>>)}

\* the iterator on top of the state's loop stack, 0 when there is none
LoopCurr(s) == IF s.depth > 0 THEN backing[s.depth] ELSE 0

\* mutant: the iterator is put into the array but the slice does not grow
NewLoopFlat(s) == [s EXCEPT !.err = FALSE]

\* the state when Exec has succeeded with an iterator: newLoop
NewLoop(s) == [s EXCEPT !.err = FALSE, !.depth = @ + 1]

\* State.Next; a FinalState carries nothing over
Next1(cur, s) ==
    IF s = Final THEN NewState(Final, None, None, 0)
    ELSE NewState(s, cur.step, cur.errHandler, cur.depth)

(* The goroutine leaves exec: its state becomes cur, one new state is made
   for each of steps, and err says if exec returned an error. *)
Leave(r, cur, steps, err) ==
    /\ nStates + Len(steps) <= MaxStates
    /\ st' = [i \in StateId |->
                 IF i = run[r].state THEN cur
                 ELSE IF i \in nStates + 1 .. nStates + Len(steps)
                      THEN Next1(cur, steps[i - nStates]) ELSE st[i]]
    /\ nStates' = nStates + Len(steps)
    /\ run' = [run EXCEPT ![r].pc = "post", ![r].err = err,
                  ![r].nxt = [k \in 1 .. Len(steps) |-> nStates + k]]


(* The step the current iterator belongs to is not executed again: the
   iterator itself is the result. *)
CallLoop(r) ==
    LET i == run[r].state
        curr == LoopCurr(st[i])
    IN /\ run[r].pc = "call"
       /\ curr # 0 /\ st[curr].step = st[i].step
       /\ run' = [run EXCEPT ![r].pc = "resolve", ![r].curr = curr,
                     ![r].resp = "iterator"]
       /\ UNCHANGED <<runKeeps, mapVars, stepVars, stateVars, qErr, mux>>

CallStep(r, a) ==
    LET i == run[r].state
        s == st[i].step
        curr == LoopCurr(st[i])
        iterates == a.kind = "iterator"
    IN /\ run[r].pc = "call"
       /\ ~(curr # 0 /\ st[curr].step = s)
       /\ a \in Answers(i)
       /\ iterates => st[i].depth < LoopCap
       /\ run' = [run EXCEPT ![r].pc = "resolve", ![r].curr = curr,
                     ![r].resp = a.kind, ![r].to = a.to]
       /\ st' = [st EXCEPT ![i] =
                    IF iterates THEN NewLoop(@) ELSE [@ EXCEPT !.err = FALSE]]
       /\ backing' = IF iterates
                     THEN [backing EXCEPT ![st[i].depth + 1] = i] ELSE backing
       /\ left' = IF iterates THEN [left EXCEPT ![i] = Rounds] ELSE left
       /\ joined' = IF Kind[s] = "join"
                    THEN [joined EXCEPT ![s] = @ \cup {st[i].parent}]
                    ELSE joined
       /\ UNCHANGED <<runKeeps, mapVars, nStates, qErr, mux>>

(* newLoop comes before Start; an error of Start never meets the handler *)
CallStartFails(r) ==
    LET i == run[r].state
        curr == LoopCurr(st[i])
    IN /\ run[r].pc = "call"
       /\ ~(curr # 0 /\ st[curr].step = st[i].step)
       /\ Kind[st[i].step] = "iterator" /\ "start" \in Faults[st[i].step]
       /\ st[i].depth < LoopCap
       /\ backing' = [backing EXCEPT ![st[i].depth + 1] = i]
       /\ Leave(r, NewLoop(st[i]), <<>>, TRUE)
       /\ UNCHANGED <<runKeeps, mapVars, qErr, mux, joined, left>>

(* Exec returns an error: fail, or go on with the handler and disarm it *)
CallFails(r) ==
    LET i == run[r].state
        s == st[i].step
        curr == LoopCurr(st[i])
        failed == [st[i] EXCEPT !.err = TRUE]
    IN /\ run[r].pc = "call"
       /\ ~(curr # 0 /\ st[curr].step = s)
       /\ Kind[s] = "error" \/ "error" \in Faults[s] \/ UnknownParent(i)
       /\ IF st[i].errHandler = None
          THEN Leave(r, failed, <<>>, TRUE)
          ELSE Leave(r, [failed EXCEPT !.errHandler = None, !.errHandled = TRUE],
                     <<st[i].errHandler>>, FALSE)
       /\ UNCHANGED <<runKeeps, mapVars, stepVars, qErr, mux>>

(* The graph is cached with the workflow and all its sessions run on the same
   gateway objects: a path of another session reaches the gateway, and what it
   leaves there is never taken away again.  Only a goroutine that is about to
   execute the gateway reads it, so that is when the others may come first. *)
ReachedElsewhere(s, p) ==
    /\ \E r \in RunId : run[r].pc = "call" /\ st[run[r].state].step = s
    /\ p \in Parents(s) \ joined[s]
    /\ joined' = [joined EXCEPT ![s] = @ \cup {p}]
    /\ UNCHANGED <<runKeeps, mapVars, stateVars, qErr, mux, backing, left, run>>

CallPanics(r) ==
    LET i == run[r].state
        curr == LoopCurr(st[i])
    IN /\ run[r].pc = "call"
       /\ ~(curr # 0 /\ st[curr].step = st[i].step)
       /\ "panic" \in Faults[st[i].step]
       /\ run' = [run EXCEPT ![r].pc = "panic"]
       /\ UNCHANGED <<runKeeps, mapVars, stepVars, stateVars, qErr, mux>>

(* the recovering defer of exec *)
Recover(r) ==
    /\ run[r].pc = "panic"
    /\ RoomInErr
    /\ qErr' = Append(qErr, PanicErr(run[r].state))
    /\ run' = [run EXCEPT ![r].pc = "post"]
    /\ UNCHANGED <<runKeeps, mapVars, stepVars, stateVars, mux>>

-----------------------------------------------------------------------------
(* A step goroutine, second part: exec resolves the response *)

\* next steps a response names must be children, if the step has any
Consistent(s, next) ==
    \/ next = <<>> \/ Children[s] = <<>>
    \/ Elems(next) \subseteq Elems(Children[s])

\* children when the response names none, back to the iterator from the end
\* of an iteration branch, and the final state when there is nowhere to go
Successors(s, next, curr) ==
    IF next # <<>> THEN next
    ELSE IF Children[s] # <<>> THEN Children[s]
    ELSE IF curr # 0 THEN <<st[curr].step>>
    ELSE <<Final>>

\* the tail of exec, common to the responses that do not return early
Follow(r, cur, next) ==
    IF Consistent(cur.step, next)
    THEN Leave(r, cur, Successors(cur.step, next, run[r].curr), FALSE)
    ELSE Leave(r, cur, <<>>, TRUE)

\* the step out of the loop on top of the stack, and the state without it
LoopExit(s) == Children[st[backing[s.depth]].step][2]

\* mutant: the loop stays on the stack
LoopEndKeeps(s) == s

LoopEnd(s) == [s EXCEPT !.depth = @ - 1]

AtResolve(r, kind) == run[r].pc = "resolve" /\ run[r].resp = kind

ResolveVars(r) ==
    /\ AtResolve(r, "vars")
    /\ Follow(r, st[run[r].state], <<>>)
    /\ UNCHANGED <<runKeeps, mapVars, stepVars, qErr, mux>>

ResolveSteps(r) ==
    /\ AtResolve(r, "steps")
    /\ Follow(r, st[run[r].state], run[r].to)
    /\ UNCHANGED <<runKeeps, mapVars, stepVars, qErr, mux>>

(* the iterator that was just pushed, or the one the state came back to *)
IterObj(r) ==
    LET i == run[r].state
        c == run[r].curr
    IN IF c # 0 /\ st[c].step = st[i].step THEN c ELSE i

ResolveIterator(r) ==
    LET cur == st[run[r].state]
        obj == IterObj(r)
    IN /\ AtResolve(r, "iterator")
       /\ \/ /\ left[obj] > 0
             /\ left' = [left EXCEPT ![obj] = @ - 1]
             /\ Follow(r, cur, <<Children[st[obj].step][1]>>)
          \/ /\ left[obj] = 0
             /\ Follow(r, LoopEnd(cur), <<LoopExit(cur)>>)
             /\ UNCHANGED left
          \/ /\ "next" \in Faults[st[obj].step]
             /\ Leave(r, [cur EXCEPT !.err = TRUE], <<>>, TRUE)
             /\ UNCHANGED left
       /\ UNCHANGED <<runKeeps, mapVars, qErr, mux, joined, backing>>

\* the path out of an error handling step that is not the handler (there are
\* at most two, and the handler is the second)
Armed(s) ==
    IF Children[s] # <<>> /\ Children[s][1] # Handler(s)
    THEN <<Children[s][1]>> ELSE <<>>

ResolveErrHandler(r) ==
    LET cur == st[run[r].state]
    IN /\ AtResolve(r, "errHandler")
       /\ Follow(r, [cur EXCEPT !.errHandler = Handler(cur.step)],
                 Armed(cur.step))
       /\ UNCHANGED <<runKeeps, mapVars, stepVars, qErr, mux>>

ResolveBreak(r) ==
    LET cur == st[run[r].state]
    IN /\ AtResolve(r, "break")
       /\ IF run[r].curr = 0
          THEN Leave(r, cur, <<>>, TRUE)
          ELSE Follow(r, LoopEnd(cur), <<LoopExit(cur)>>)
       /\ UNCHANGED <<runKeeps, mapVars, stepVars, qErr, mux>>

\* mutant: the path does not go back to the iterator
ResolveContinueStops(r) ==
    /\ AtResolve(r, "continue")
    /\ Leave(r, st[run[r].state], <<>>, run[r].curr = 0)
    /\ UNCHANGED <<runKeeps, mapVars, stepVars, qErr, mux>>

ResolveContinue(r) ==
    LET cur == st[run[r].state]
    IN /\ AtResolve(r, "continue")
       /\ IF run[r].curr = 0
          THEN Leave(r, cur, <<>>, TRUE)
          ELSE Follow(r, cur, <<st[run[r].curr].step>>)
       /\ UNCHANGED <<runKeeps, mapVars, stepVars, qErr, mux>>

ResolvePartial(r) ==
    /\ AtResolve(r, "partial")
    /\ Leave(r, st[run[r].state], <<>>, FALSE)
    /\ UNCHANGED <<runKeeps, mapVars, stepVars, qErr, mux>>

(* the map of delayed states is replaced by nil *)
ResolveTermination(r) ==
    /\ AtResolve(r, "termination")
    /\ mux = Free
    /\ delayed' = {} /\ due' = {} /\ delayedNil' = TRUE
    /\ Leave(r, st[run[r].state], <<Final>>, FALSE)
    /\ UNCHANGED <<runKeeps, stepVars, qErr, mux, prompted>>

(* A write into the nil map panics while the lock is held; the recovering
   defer does not release it. *)
ResolveDelay(r) ==
    /\ AtResolve(r, "delay")
    /\ mux = Free
    /\ IF delayedNil
       THEN /\ mux' = <<"run", r>>
            /\ run' = [run EXCEPT ![r].pc = "panic"]
            /\ UNCHANGED <<mapVars, stateVars>>
       ELSE /\ delayed' = delayed \cup {run[r].state}
            /\ Leave(r, st[run[r].state], <<>>, FALSE)
            /\ UNCHANGED <<mux, delayedNil, due, prompted>>
    /\ UNCHANGED <<runKeeps, stepVars, qErr>>

ResolvePrompt(r) ==
    LET i == run[r].state
    IN /\ AtResolve(r, "prompt")
       /\ IF PromptOwner[st[i].step] = NoUser
          THEN Leave(r, st[i], <<>>, TRUE) /\ UNCHANGED prompted
          ELSE /\ mux = Free
               /\ prompted' = prompted \cup {i}
               /\ Leave(r, st[i], <<>>, FALSE)
       /\ UNCHANGED <<runKeeps, stepVars, qErr, mux, delayed, delayedNil,
                      due>>

-----------------------------------------------------------------------------
(* A step goroutine, third part: report, then queue what follows *)

\* mutant: the status is read without the lock
ReadStatusUnlocked(r) ==
    /\ run[r].pc = "post"
    /\ run' = [run EXCEPT ![r].pc = "check", ![r].status = CurStatus]
    /\ st' = [st EXCEPT ![run[r].state].err = @ \/ run[r].err]
    /\ UNCHANGED <<runKeeps, mapVars, stepVars, nStates, qErr, mux>>

(* the status is read first; an error exec returned lands on the state *)
ReadStatus(r) ==
    /\ run[r].pc = "post"
    /\ mux = Free
    /\ run' = [run EXCEPT ![r].pc = "check", ![r].status = CurStatus]
    /\ st' = [st EXCEPT ![run[r].state].err = @ \/ run[r].err]
    /\ UNCHANGED <<runKeeps, mapVars, stepVars, nStates, qErr, mux>>

\* mutant: a handled error counts as well
FailsAnyway(s) == s.err

\* an error no handler took over
Fails(s) == s.err /\ ~s.errHandled

\* mutant: the status read before the error was pushed is reported
ForcedNot(status) == status

\* Status does not know of the error yet
Forced(status) == "failed"

(* An unhandled error goes to qErr under the lock.  The error is read from
   the state, which a resumed goroutine of the same state may be writing. *)
CheckError(r) ==
    LET s == st[run[r].state]
    IN /\ run[r].pc = "check"
       /\ s.err => mux = Free
       /\ IF Fails(s)
          THEN /\ mux' = <<"run", r>>
               /\ run' = [run EXCEPT ![r].pc = "push", ![r].status = Forced(@)]
          ELSE /\ UNCHANGED mux
               /\ run' = [run EXCEPT ![r].pc = "notify"]
       /\ UNCHANGED <<runKeeps, mapVars, stepVars, stateVars, qErr>>

PushError(r) ==
    /\ run[r].pc = "push"
    /\ RoomInErr
    /\ qErr' = Append(qErr, StepErr(run[r].state))
    /\ mux' = Free
    /\ run' = [run EXCEPT ![r].pc = "notify"]
    /\ UNCHANGED <<runKeeps, mapVars, stepVars, stateVars>>

Notify(r) ==
    /\ run[r].pc = "notify"
    /\ handled' = handled \cup {run[r].status}
    /\ run' = [run EXCEPT ![r].pc =
                  IF run[r].nxt = <<>> THEN "done" ELSE "enqueue"]
    /\ UNCHANGED <<callerVars, mapVars, stepVars, stateVars, chanVars,
                   endVars, mux, worker, nRuns>>

Enqueue(r) ==
    /\ run[r].pc = "enqueue"
    /\ RoomInState
    /\ qState' = Append(qState, Head(run[r].nxt))
    /\ run' = [run EXCEPT ![r].nxt = Tail(@),
                  ![r].pc = IF Len(run[r].nxt) = 1 THEN "done" ELSE "enqueue"]
    /\ UNCHANGED <<callerVars, mapVars, stepVars, stateVars, endVars, qErr,
                   mux, worker, nRuns, handled>>

(* the worker's context is done: the states that were to follow are dropped *)
EnqueueAbandoned(r) ==
    /\ run[r].pc = "enqueue"
    /\ ctxDone
    /\ run' = [run EXCEPT ![r].nxt = <<>>, ![r].pc = "done"]
    /\ UNCHANGED <<runKeeps, mapVars, stepVars, stateVars, qErr, mux>>

-----------------------------------------------------------------------------
\* the goroutine keeps the lock for ever: its error finds no room in qErr while
\* the worker waits for that lock or reads no more, or it panicked with it
Keeps(r) == mux = <<"run", r>> /\ (run[r].pc = "push" => ~RoomInErr)

\* somebody sends to qErr, which is full and which nobody reads any more
SendsInVain ==
    /\ worker.pc \in {"stopping", "done"} /\ ~RoomInErr
    /\ \/ worker.pc = "stopping" \/ waiter = "canceling"
       \/ \E r \in RunId : run[r].pc = "panic"

(* A session at rest: no goroutine of it is in the middle of anything, and
   the worker is gone or its ticker finds nothing to do; or one that hangs in
   one of the two ways the code has.  With this step, a deadlock TLC reports is
   another way in which a goroutine or a caller is stuck. *)
Rest ==
    /\ \/ /\ Executing = {} /\ resumer = 0 /\ waiter # "canceling"
          /\ \/ worker.pc = "done"
             \/ worker.pc = "loop" /\ qState = <<>> /\ qErr = <<>>
       \/ SendsInVain
       \/ \E r \in RunId : Keeps(r)
    /\ UNCHANGED vars

Run(r) ==
    \/ CallLoop(r)
    \/ \E a \in Answers(run[r].state) : CallStep(r, a)
    \/ CallStartFails(r) \/ CallFails(r) \/ CallPanics(r) \/ Recover(r)
    \/ ResolveVars(r) \/ ResolveSteps(r) \/ ResolveIterator(r)
    \/ ResolveErrHandler(r) \/ ResolveBreak(r) \/ ResolveContinue(r)
    \/ ResolvePartial(r) \/ ResolveTermination(r) \/ ResolveDelay(r)
    \/ ResolvePrompt(r)
    \/ ReadStatus(r) \/ CheckError(r) \/ PushError(r) \/ Notify(r)
    \/ Enqueue(r) \/ EnqueueAbandoned(r)

Worker ==
    \/ WorkerDone \/ TickBegin \/ TickLock \/ TickEnd \/ Dequeue \/ FinalCheck
    \/ SetResult \/ NotifyCompleted \/ StartRun \/ TakeErr \/ SetErr \/ Stop
    \/ \E i \in delayed : TickEnqueue(i)

Waiter == WaitTick \/ WaitCheck \/ WaitTimeout \/ Cancel

Next ==
    \/ \E s \in Starts : Exec(s)
    \/ \E u \in Users, i \in prompted, hasInput \in BOOLEAN :
           Resume(u, i, hasInput)
    \/ ResumeEnqueue \/ ResumeAbandoned
    \/ Wait \/ Waiter \/ CallerGone \/ Shutdown
    \/ \E i \in delayed : BecomeDue(i)
    \/ Worker
    \/ \E r \in RunId : run[r].pc \notin {"none", "done"} /\ Run(r)
    \/ \E s \in Shared, p \in Step : ReachedElsewhere(s, p)
    \/ Rest

Spec == Init /\ [][Next]_vars

(* The Go scheduler runs every goroutine that can run, time passes, and a
   caller inside Resume or WaitUntil goes on.  Nothing obliges anybody to
   call Exec, Wait or Resume, to give up, or the server to shut down. *)
Fairness ==
    /\ WF_vars(Worker)
    /\ WF_vars(\E r \in RunId : run[r].pc \notin {"none", "done"} /\ Run(r))
    /\ WF_vars(Waiter)
    /\ WF_vars(ResumeEnqueue)
    /\ WF_vars(\E i \in delayed : BecomeDue(i))

FairSpec == Spec /\ Fairness

-----------------------------------------------------------------------------
(* Properties *)

\* Every variable has the shape the Go declarations give it.
TypeOK ==
    /\ st \in [StateId -> StateRec]
    /\ nStates \in 0 .. MaxStates
    /\ qState \in Seq(StateId) /\ Len(qState) <= QStateCap
    /\ qErr \in Seq(ErrVal) /\ Len(qErr) <= 1
    /\ mux \in Holder
    /\ delayed \subseteq StateId /\ due \subseteq delayed
    /\ prompted \subseteq StateId
    /\ {delayedNil, result, started, waitDone, ctxDone} \subseteq BOOLEAN
    /\ sesErr \in ErrVal
    /\ worker \in WorkerRec
    /\ run \in [RunId -> RunRec]
    /\ nRuns \in 0 .. MaxRuns
    /\ joined \in [Step -> SUBSET (Step \cup {None, Final})]
    /\ backing \in [1 .. LoopCap -> 0 .. MaxStates]
    /\ left \in [StateId -> Nat]
    /\ handled \subseteq Status
    /\ waiter \in {"none", "waiting", "polling", "canceling", "returned"}
    /\ resumer \in 0 .. MaxStates
    /\ nResumes \in Nat

\* The session lock is held by whoever is inside a critical section that can
\* block, and by nobody else: the tick, Resume, and the push of a step error
\* (session.go 329, 521, 592).  A goroutine whose write to the nil map of
\* delayed states panicked keeps it.
LockDiscipline ==
    /\ mux = <<"worker", 0>> <=> worker.pc = "tick"
    /\ mux = <<"resumer", 0>> <=> resumer # 0
    /\ \A r \in RunId :
          /\ run[r].pc = "push" => mux = <<"run", r>>
          /\ mux = <<"run", r>> =>
                run[r].pc = "push" \/ (delayedNil /\ run[r].pc \in {"panic", "post"})

\* an iterator object is the state whose execution created it
IsIterator(i) ==
    i \in 1 .. nStates /\ st[i].step \in Step /\ Kind[st[i].step] = "iterator"
IsOrdinary(i) == i \in 1 .. nStates /\ st[i].step \in Step

\* No nil is followed on the way through the graph: queued and suspended
\* states exist, goroutines execute states with a step, and a loop stack of
\* length n has n iterators in the shared array, so that loopEnd never panics
\* with "not inside a loop" (state.go 116).
NavigationSafe ==
    /\ \A i \in 1 .. nStates : st[i].step # None
    /\ \A i \in StateId : \A k \in 1 .. st[i].depth : backing[k] # 0
    /\ \A k \in 1 .. LoopCap : backing[k] # 0 => IsIterator(backing[k])
    /\ \A k \in DOMAIN qState : qState[k] <= nStates
    /\ worker.pc = "acquire" => IsOrdinary(worker.state)
    /\ \A i \in delayed \cup prompted : IsOrdinary(i)
    /\ resumer # 0 => IsOrdinary(resumer)
    /\ \A r \in RunId :
          /\ run[r].pc # "none" => IsOrdinary(run[r].state)
          /\ \A k \in DOMAIN run[r].nxt : run[r].nxt[k] <= nStates
          /\ run[r].pc = "resolve" /\ run[r].curr # 0 =>
                IsIterator(run[r].curr) /\ st[run[r].state].depth > 0
          /\ AtResolve(r, "iterator") =>
                IsIterator(run[r].state) /\ st[run[r].state].depth > 0

\* The ways a state can be on its way to be executed, or being executed
InQueue(i)   == {k \in DOMAIN qState : qState[k] = i}
InNext(i)    == {r \in RunId : i \in Elems(run[r].nxt)}
InExec(i)    == {r \in RunId :
                    run[r].state = i /\ run[r].pc \in {"call", "resolve", "panic"}}
Count(b)     == IF b THEN 1 ELSE 0
Places(i) ==
    Cardinality(InQueue(i)) + Cardinality(InNext(i)) + Cardinality(InExec(i))
      + Count(worker.state = i) + Count(i \in delayed) + Count(i \in prompted)
      + Count(resumer = i)

\* No state is executed twice at a time, queued twice, or queued while it
\* still waits in one of the maps, whichever way Resume, the tick and the
\* goroutine that suspended it interleave.
OnePlace == \A i \in 1 .. nStates : Places(i) <= 1

\* the last execution of the state was not one that suspended it
Finished(i) ==
    \E r \in RunId :
        /\ run[r].state = i
        /\ run[r].pc \notin {"none", "call", "resolve", "panic"}
        /\ run[r].resp \notin {"delay", "prompt"} \/ run[r].err

\* A state that was created is executed to its end or still on its way there:
\* no hand-over between goroutine, queue, map and worker drops it.  Only a
\* termination (delayed states), a done context, and the worker's treatment of
\* final states may.
NoStateLost ==
    \A i \in 1 .. nStates :
        \/ st[i].step = Final
        \/ Places(i) = 1
        \/ Finished(i)
        \/ delayedNil \/ ctxDone \/ st[1].step \in MayAbandon

\* A session fails for a reason: an unhandled error or a panic of a step it
\* did execute, its caller's Cancel, or a refused Exec.  An error that a
\* handler took over never ends the session (session.go 523-532).
FailureIsGenuine ==
    \/ sesErr \in {NoErr, Canceled} \/ sesErr = Refused
    \/ \E i \in 1 .. nStates, r \in RunId :
          /\ run[r].state = i
          /\ \/ sesErr = StepErr(i) /\ st[i].err /\ ~st[i].errHandled
             \/ sesErr = PanicErr(i) /\ ~st[i].err

\* a goroutine that executed a join gateway when its last path had come
GoesOn(r) == run[r].resp = "vars" /\ Kind[st[run[r].state].step] = "join"

\* the states in which gateway j was reached from step p
Reached(j, p) == {i \in 1 .. nStates : st[i].step = j /\ st[i].parent = p}

\* every path into the gateway this goroutine executed has come to its end
AllPathsCame(r) ==
    \A p \in Parents(st[run[r].state].step) :
        \E k \in 1 .. nStates : st[k].step = p /\ Finished(k)

\* A join gateway that only this session reaches goes on only when every path
\* into it has been executed to its end, in whatever order concurrent paths
\* reach it, and it does so once, unless the graph leads to it from the same
\* step again (gateways.go 66: the paths it has collected are never forgotten).
JoinSynchronises ==
    \A r \in RunId : GoesOn(r) =>
       LET j == st[run[r].state].step IN
       \/ j \in Shared
       \/ /\ AllPathsCame(r)
          /\ \/ \A q \in RunId : GoesOn(q) /\ st[run[q].state].step = j => q = r
             \/ \E p \in Parents(j) : \E i, k \in Reached(j, p) : i # k

\* The session has one outcome: once it has a result or an error, neither
\* changes and no further step is started, though goroutines that are already
\* running go on.
OutcomeFinal ==
    [][result \/ sesErr # NoErr =>
          UNCHANGED endVars /\ nRuns' = nRuns]_vars

\* A session whose prompts do not stay unanswered for ever ends: dropping the
\* final state of one path while another is suspended (session.go 464) never
\* leaves it without one when that other path is through.
EndsIfAnswered ==
    []<>(prompted = {}) => (started ~> (result \/ sesErr # NoErr))

\* the session has its outcome
Ended == result \/ sesErr # NoErr

\* What ends the session ends its worker goroutine: its outcome, the end of its
\* context, an unhandled error (session.go 529, "to break worker loop").  The
\* code has two exceptions.  A further error stays in qErr, with the worker
\* where it does not read it: in its own Stop, whose nil finds no room (582), or
\* waiting for the lock, which the sender of the error after that keeps (531)
\* and which every tick needs (592).  Or a delay step panicked with the lock
\* (775).
WorkerStops ==
    \/ (Ended \/ ctxDone \/ \E r \in RunId : run[r].pc = "push") ~> worker.pc = "done"
    \/ <>[](worker.pc \notin {"loop", "done"} /\ ~RoomInErr)
    \/ <>[](delayedNil /\ mux # Free)

\* A session that failed because of a step has told its event handler so: the
\* status Status() returns at that time may still be another one.
FailureReported == sesErr[1] = "step" ~> "failed" \in handled

\* A caller that waits for a session is answered once it has its outcome, and
\* one that gives up ends a session that would never end by itself.  The code
\* has three exceptions: a goroutine keeps the lock that Status needs (a step
\* that fails when another path has completed the session blocks in the send
\* of session.go 531); the caller gives up as the session ends, and Cancel finds
\* qErr full when nobody reads it (429); a prompt is pending in a session that
\* has completed, whose status is then "prompted" for good.
WaitAnswered ==
    \/ /\ (waiter # "none" /\ Ended) ~> waiter = "returned"
       /\ waiter = "canceling" ~> (Ended \/ ctxDone)
    \/ <>[](mux # Free)
    \/ <>[](waiter = "canceling" /\ ~RoomInErr)
    \/ <>[](result /\ prompted # {})

\* The step may be executed with that iterator on top of the loop stack: it is
\* in the iterator's body, or it is the iterator come back to.
Within(s, loop) == loop = Enclosing[s] \/ (Kind[s] = "iterator" /\ loop = s)

\* A goroutine about to execute a step has on top of its loop stack the
\* iterator whose body the step is in (Enclosing), or, coming back to an
\* iterator step, that step's own.
LoopStackNests ==
    \A r \in RunId : run[r].pc = "call" =>
        LET curr == LoopCurr(st[run[r].state])
        IN Within(st[run[r].state].step, IF curr = 0 THEN None ELSE st[curr].step)

\* the step's Exec may return an error
MayFail(s) == Kind[s] \in {"error", "join"} \/ "error" \in Faults[s]

\* The part of a graph in which they do nest, for the theorem.  Its steps are
\* followed one at a time: a fork puts two loop stacks into one array, where an
\* iterator started on one path replaces another's (state.go 91).  A step is
\* in the loop the step before it is in, and an error handler in the loop of
\* every step that may fail: the loop stack of the step that failed goes with
\* the state to the handler, and stays there.
OnePath(path) ==
    \A s \in path :
       LET next == Children[s] IN
       /\ Elems(next) \subseteq path
       /\ Parents(s) = {} => Enclosing[s] = None
       /\ CASE Kind[s] = "iterator" ->
                 Within(next[1], s) /\ Within(next[2], Enclosing[s])
            [] Kind[s] \in {"break", "continue"} -> TRUE
            [] OTHER -> \A c \in Elems(next) : Within(c, Enclosing[s])
       /\ CASE Kind[s] \in {"iterator", "excl"} -> TRUE
            [] Kind[s] = "errHandler" ->
                 Len(next) = 2 =>
                    /\ next[1] # next[2]
                    /\ \A t \in path : MayFail(t) => Within(next[2], Enclosing[t])
            [] OTHER -> Len(next) <= 1

-----------------------------------------------------------------------------
(* What comments in the code say and the code does not do *)

\* session.go 464: "We should not terminate if the session contains any
\* delayed or prompted steps."
NotCompletedWhileSuspended ==
    [][result' /\ ~result => prompted = {} /\ delayed = {}]_vars

\* gateways.go 48: "Join gateways is ready to continue with the Graph when all
\* configured paths are ready to be partial"
JoinWaits == \A r \in RunId : GoesOn(r) => AllPathsCame(r)

=============================================================================
