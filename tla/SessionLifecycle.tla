-------------------------- MODULE SessionLifecycle --------------------------
(***************************************************************************)
(* What a workflow session promises to its users, without its graph, its   *)
(* queues and its steps: an outcome that is final, prompts and delays that *)
(* come and go, and a report to the event handler from every goroutine     *)
(* that executed a step.  A report carries the status of the session at    *)
(* the time it was read, which need not be the one at the time it is       *)
(* delivered.  WorkflowSession implements this specification               *)
(* (WorkflowSessionLife) and SessionService is built on it.                *)
(***************************************************************************)
EXTENDS Naturals

CONSTANTS
    Session,   \* sessions
    Runner,    \* goroutines that execute steps
    Worker,    \* the worker, which reports completion
    Token,     \* states that can be suspended
    Delayable  \* those of them that can be delayed

ASSUME WorkerAssumption == Worker \notin Runner
ASSUME TokenAssumption == Delayable \subseteq Token

VARIABLES
    outcome,   \* [Session -> Outcome]
    prompts,   \* [Session -> SUBSET Token]: pending prompts
    delays,    \* [Session -> SUBSET Token]: delayed states
    locked,    \* [Session -> BOOLEAN]: is the lock held across a blocking operation?
    report     \* [Session -> [Reporter -> Report]]: reports on their way

lifeVars == <<outcome, prompts, delays, locked, report>>

Reporter == Runner \cup {Worker}
Outcome  == {"running", "completed", "failed"}
Status   == {"active", "prompted", "delayed", "failed", "completed"}
\* a goroutine with nothing to report, one that is to read the status, a status
Report   == {"none", "due"} \cup Status

StatusOf(s) ==
    IF outcome[s] = "failed" THEN "failed"
    ELSE IF prompts[s] # {} THEN "prompted"
    ELSE IF delays[s] # {} THEN "delayed"
    ELSE IF outcome[s] = "completed" THEN "completed" ELSE "active"

LifeInit ==
    /\ outcome = [s \in Session |-> "running"]
    /\ prompts = [s \in Session |-> {}]
    /\ delays = [s \in Session |-> {}]
    /\ locked = [s \in Session |-> FALSE]
    /\ report = [s \in Session |-> [r \in Reporter |-> "none"]]

\* goroutine r of s has executed its step
Executed(s, r) ==
    /\ r \in Runner
    /\ report[s][r] = "none"
    /\ report' = [report EXCEPT ![s][r] = "due"]

(* The step goes on, or its path is over; the session is not suspended. *)
Finish(s, r) == UNCHANGED <<outcome, prompts, delays, locked>> /\ Executed(s, r)

Prompt(s, r, t) ==
    /\ ~locked[s]
    /\ prompts' = [prompts EXCEPT ![s] = @ \cup {t}]
    /\ UNCHANGED <<outcome, delays, locked>>
    /\ Executed(s, r)

Delay(s, r, t) ==
    /\ ~locked[s]
    /\ delays' = [delays EXCEPT ![s] = @ \cup {t}]
    /\ UNCHANGED <<outcome, prompts, locked>>
    /\ Executed(s, r)

Terminate(s, r) ==
    /\ ~locked[s]
    /\ delays' = [delays EXCEPT ![s] = {}]
    /\ UNCHANGED <<outcome, prompts, locked>>
    /\ Executed(s, r)

ReadStatus(s, r) ==
    /\ report[s][r] = "due"
    /\ ~locked[s]
    /\ report' = [report EXCEPT ![s][r] = StatusOf(s)]
    /\ UNCHANGED <<outcome, prompts, delays, locked>>

(* The goroutine has an unhandled error: it reports a failure whatever the
   status, and hands the error to the worker under the lock. *)
Raise(s, r) ==
    /\ r \in Runner /\ report[s][r] \in Status
    /\ ~locked[s]
    /\ locked' = [locked EXCEPT ![s] = TRUE]
    /\ report' = [report EXCEPT ![s][r] = "failed"]
    /\ UNCHANGED <<outcome, prompts, delays>>

\* the report reaches the event handler
Deliver(s, r) ==
    /\ report[s][r] \in Status
    /\ report' = [report EXCEPT ![s][r] = "none"]
    /\ UNCHANGED <<outcome, prompts, delays, locked>>

(* A user answers a prompt; its state is queued again under the lock. *)
Answer(s, t) ==
    /\ t \in prompts[s]
    /\ ~locked[s]
    /\ prompts' = [prompts EXCEPT ![s] = @ \ {t}]
    /\ locked' = [locked EXCEPT ![s] = TRUE]
    /\ UNCHANGED <<outcome, delays, report>>

\* a delay is over; its state is queued again by the worker's tick
Requeue(s, t) ==
    /\ t \in delays[s]
    /\ locked[s]
    /\ delays' = [delays EXCEPT ![s] = @ \ {t}]
    /\ UNCHANGED <<outcome, prompts, locked, report>>

Lock(s) ==
    /\ ~locked[s]
    /\ locked' = [locked EXCEPT ![s] = TRUE]
    /\ UNCHANGED <<outcome, prompts, delays, report>>

Unlock(s) ==
    /\ locked[s]
    /\ locked' = [locked EXCEPT ![s] = FALSE]
    /\ UNCHANGED <<outcome, prompts, delays, report>>

Complete(s) ==
    /\ outcome[s] = "running"
    /\ ~locked[s]
    /\ outcome' = [outcome EXCEPT ![s] = "completed"]
    /\ report' = [report EXCEPT ![s][Worker] = "completed"]
    /\ UNCHANGED <<prompts, delays, locked>>

Fail(s) ==
    /\ outcome[s] = "running"
    /\ ~locked[s]
    /\ outcome' = [outcome EXCEPT ![s] = "failed"]
    /\ UNCHANGED <<prompts, delays, locked, report>>

\* what goes on in a session besides reports and answers
Progress(s) ==
    \/ \E r \in Runner :
          \/ Finish(s, r) \/ Terminate(s, r) \/ Raise(s, r)
          \/ \E t \in Token : Prompt(s, r, t)
          \/ \E t \in Delayable : Delay(s, r, t)
    \/ \E r \in Reporter : ReadStatus(s, r)
    \/ \E t \in Delayable : Requeue(s, t)
    \/ Lock(s) \/ Unlock(s) \/ Complete(s) \/ Fail(s)

LifeNext ==
    \E s \in Session :
        \/ Progress(s)
        \/ \E r \in Reporter : Deliver(s, r)
        \/ \E t \in Token : Answer(s, t)

LifeSpec == LifeInit /\ [][LifeNext]_lifeVars

=============================================================================
