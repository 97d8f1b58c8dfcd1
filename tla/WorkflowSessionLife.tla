------------------------- MODULE WorkflowSessionLife -------------------------
(***************************************************************************)
(* The engine seen as the life cycle it promises: one session, whose       *)
(* reporters are its step goroutines and, as number 0, its worker.         *)
(***************************************************************************)
EXTENDS WorkflowSession

It == "session"

LifeOutcome ==
    IF sesErr # NoErr THEN "failed" ELSE IF result THEN "completed" ELSE "running"

LifeReport(r) ==
    IF r = 0 THEN (IF worker.pc = "completed" THEN "completed" ELSE "none")
    ELSE IF run[r].pc = "post" THEN "due"
    ELSE IF run[r].pc \in {"check", "push", "notify"} THEN run[r].status
    ELSE "none"

Life == INSTANCE SessionLifecycle WITH
            Session <- {It}, Runner <- RunId, Worker <- 0, Token <- StateId,
            Delayable <- StateId,
            outcome <- [s \in {It} |-> LifeOutcome],
            prompts <- [s \in {It} |-> prompted],
            delays  <- [s \in {It} |-> delayed],
            locked  <- [s \in {It} |-> mux # Free],
            report  <- [s \in {It} |-> [r \in RunId \cup {0} |-> LifeReport(r)]]

\* Every behaviour of the engine is one of the life cycle: whatever its
\* goroutines do, the outcome is set once, a prompt is gone once it has been
\* answered, and a report carries a status the session had, or the reporting
\* step's own failure.
ImplementsLife == Life!LifeSpec

=============================================================================
