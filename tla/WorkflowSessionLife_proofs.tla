--------------------- MODULE WorkflowSessionLife_proofs ---------------------
(***************************************************************************)
(* What becomes of the states, the errors, the gateways and the session.   *)
(*                                                                         *)
(* The first part gives every step of a goroutine one of five shapes: it   *)
(* executes, departs from exec, settles its report, queues what follows or *)
(* drops it.  The proofs that no state is lost, that a session fails for a *)
(* reason and that gateways join go over those shapes, not over the twenty *)
(* actions; so does the proof that loop stacks nest where one path is      *)
(* followed, except where a step is executed.                              *)
(*                                                                         *)
(* The second part proves that the engine implements its life cycle:       *)
(* initial states map to initial states, and every step of the engine is a *)
(* step of the life cycle or leaves it as it is.                           *)
(***************************************************************************)
EXTENDS WorkflowSessionLife, WorkflowSession_proofs

-----------------------------------------------------------------------------
(* The shapes of a goroutine's steps *)

\* where the worker and the goroutines are, and what they then hold
Orderly ==
    /\ worker.state # 0 => worker.pc \in {"final", "acquire"}
    /\ worker.pc = "final" =>
          worker.state \in 1 .. nStates /\ st[worker.state].step = Final
    /\ \A r \in RunId :
          /\ run[r].pc = "none" => run[r] = Idle
          /\ InExecBy(r) => run[r].nxt = <<>> /\ ~run[r].err
          /\ run[r].pc = "call" => run[r].resp = "none"
          /\ run[r].pc = "panic" => run[r].resp = "none" \/ delayedNil

OthersKeep(r) == \A q \in RunId : q # r => run'[q] = run[q]

\* a state's place in the graph does not change
SamePlace(i) == st'[i].step = st[i].step /\ st'[i].parent = st[i].parent

\* the goroutine goes on executing its state
Executes(r) ==
    /\ run[r].pc \in {"call", "resolve"} /\ run'[r].pc \in {"resolve", "panic"}
    /\ run[r].pc = "resolve" => run'[r].pc = "panic"
    /\ run'[r].state = run[r].state /\ run'[r].nxt = run[r].nxt
    /\ run'[r].err = run[r].err
    /\ run'[r].pc = "panic" =>
          run'[r].resp = run[r].resp /\ (run[r].pc = "call" \/ delayedNil)
    /\ OthersKeep(r)
    /\ UNCHANGED <<nStates, qState, qErr, delayed, prompted, delayedNil>>
    /\ \A i \in 1 .. nStates :
          /\ SamePlace(i) /\ st'[i].errHandled = st[i].errHandled
          /\ i # run[r].state => st'[i] = st[i]
          /\ st'[i].err => st[i].err

\* a new state, without an error, that the goroutine is to queue
Follows(r, i) ==
    /\ ~st'[i].err /\ ~st'[i].errHandled
    /\ st'[i].parent \in {None, st[run[r].state].step}
    /\ \E k \in DOMAIN run'[r].nxt : run'[r].nxt[k] = i

\* the goroutine leaves exec: its state has come to its end or is suspended
Departs(r) ==
    /\ run[r].pc \in {"call", "resolve"} /\ run'[r].pc = "post"
    /\ run'[r].state = run[r].state /\ run'[r].resp = run[r].resp
    /\ OthersKeep(r)
    /\ UNCHANGED <<qState, qErr>>
    /\ nStates <= nStates' /\ nStates' \in 0 .. MaxStates
    /\ nStates' # nStates => run[r].resp \notin {"delay", "prompt"}
    /\ \A i \in 1 .. nStates :
          SamePlace(i) /\ (i # run[r].state => st'[i] = st[i])
    /\ \A i \in nStates + 1 .. nStates' : Follows(r, i)
    /\ \A k \in DOMAIN run'[r].nxt : run'[r].nxt[k] \in nStates + 1 .. nStates'
    /\ \/ /\ UNCHANGED <<delayed, prompted, delayedNil>>
          /\ run[r].resp \notin {"delay", "prompt"} \/ run'[r].err
       \/ /\ delayed' = {} /\ prompted' = prompted /\ delayedNil'
          /\ run[r].resp \notin {"delay", "prompt"}
       \/ /\ UNCHANGED delayedNil /\ ~run'[r].err
          /\ run[r].resp \in {"delay", "prompt"}
          /\ st'[run[r].state] = st[run[r].state]
          /\ \/ delayed' = delayed \cup {run[r].state} /\ prompted' = prompted
             \/ prompted' = prompted \cup {run[r].state} /\ delayed' = delayed

\* the goroutine recovers from a panic, or reports
Settles(r) ==
    /\ run[r].pc \in {"panic", "post", "check", "push", "notify"}
    /\ run'[r].pc \in {"post", "check", "push", "notify", "enqueue", "done"}
    /\ run'[r].state = run[r].state /\ run'[r].nxt = run[r].nxt
    /\ run'[r].err = run[r].err /\ run'[r].resp = run[r].resp
    /\ OthersKeep(r)
    /\ UNCHANGED <<nStates, qState, delayed, prompted, delayedNil>>
    /\ \A i \in 1 .. nStates :
          /\ SamePlace(i) /\ st'[i].errHandled = st[i].errHandled
          /\ i # run[r].state \/ ~run[r].err => st'[i].err = st[i].err
          /\ st[i].err => st'[i].err
    /\ run'[r].pc = "push" => Fails(st[run[r].state]) /\ st' = st
    /\ \/ UNCHANGED qErr
       \/ run[r].pc = "panic" /\ qErr' = Append(qErr, PanicErr(run[r].state))
       \/ run[r].pc = "push" /\ qErr' = Append(qErr, StepErr(run[r].state))

\* the goroutine queues the first of the states that follow
Queues(r) ==
    /\ run[r].pc = "enqueue" /\ run'[r].pc \in {"enqueue", "done"}
    /\ run'[r].state = run[r].state /\ run'[r].nxt = Tail(run[r].nxt)
    /\ run'[r].err = run[r].err /\ run'[r].resp = run[r].resp
    /\ qState' = Append(qState, Head(run[r].nxt))
    /\ OthersKeep(r)
    /\ UNCHANGED <<st, nStates, qErr, delayed, prompted, delayedNil>>

\* ... or drops them, because the worker is to end
Drops(r) ==
    /\ ctxDone
    /\ run[r].pc = "enqueue" /\ run'[r].pc = "done"
    /\ run'[r].state = run[r].state /\ run'[r].nxt = <<>>
    /\ run'[r].err = run[r].err /\ run'[r].resp = run[r].resp
    /\ OthersKeep(r)
    /\ UNCHANGED <<st, nStates, qState, qErr, delayed, prompted, delayedNil>>

\* what leaving exec does to states and goroutines
LeavesAs(r, cur, steps, err) ==
    /\ run'[r].pc = "post" /\ OthersKeep(r)
    /\ run'[r].state = run[r].state /\ run'[r].resp = run[r].resp
    /\ run'[r].err = err
    /\ nStates <= nStates' /\ nStates' \in 0 .. MaxStates
    /\ nStates' # nStates => steps # <<>>
    /\ st'[run[r].state] = cur
    /\ \A i \in 1 .. nStates :
          SamePlace(i) /\ (i # run[r].state => st'[i] = st[i])
    /\ \A i \in nStates + 1 .. nStates' : Follows(r, i)
    /\ \A k \in DOMAIN run'[r].nxt : run'[r].nxt[k] \in nStates + 1 .. nStates'

\* Leaving exec with cur and steps has that effect.
LEMMA LeaveFacts ==
  ASSUME Inv, NEW r \in RunId, run[r].pc \in {"call", "resolve"},
         NEW cur \in StateRec, cur.step = st[run[r].state].step,
         cur.parent = st[run[r].state].parent,
         NEW steps \in Seq(Step \cup {Final}), NEW err \in BOOLEAN,
         Leave(r, cur, steps, err)
  PROVE  LeavesAs(r, cur, steps, err)
<1> DEFINE i0 == run[r].state
           n == Len(steps)
<1>1. /\ i0 \in 1 .. nStates /\ i0 \in StateId
      /\ run \in [RunId -> RunRec] /\ TypeOK
  BY RunState
<1>2. n \in Nat /\ nStates \in 0 .. MaxStates /\ MaxStates \in Nat
  BY <1>1, BoundAssumption DEF TypeOK
<1>3. /\ nStates + n <= MaxStates
      /\ nStates' = nStates + n
      /\ st' = [i \in StateId |->
                  IF i = i0 THEN cur
                  ELSE IF i \in nStates + 1 .. nStates + n
                       THEN Next1(cur, steps[i - nStates]) ELSE st[i]]
      /\ run' = [run EXCEPT ![r].pc = "post", ![r].err = err,
                    ![r].nxt = [k \in 1 .. n |-> nStates + k]]
  BY DEF Leave
<1>4. /\ run'[r].pc = "post" /\ run'[r].state = i0
      /\ run'[r].resp = run[r].resp /\ run'[r].err = err
      /\ run'[r].nxt = [k \in 1 .. n |-> nStates + k]
      /\ OthersKeep(r)
  BY <1>1, <1>3 DEF RunRec, OthersKeep
<1>5. st'[i0] = cur
  BY <1>1, <1>3
<1>6. ASSUME NEW i \in 1 .. nStates
      PROVE  SamePlace(i) /\ (i # i0 => st'[i] = st[i])
  <2>1. i \in StateId /\ i \notin nStates + 1 .. nStates + n
    BY <1>2 DEF StateId
  <2>2. i # i0 => st'[i] = st[i]
    BY <1>3, <2>1
  <2> QED
    BY <1>5, <2>2 DEF SamePlace
<1>7. ASSUME NEW i \in nStates + 1 .. nStates'
      PROVE  Follows(r, i)
  <2>1. i \in StateId /\ i # i0 /\ i \in nStates + 1 .. nStates + n
    BY <1>1, <1>2, <1>3 DEF StateId
  <2>2. st'[i] = Next1(cur, steps[i - nStates])
    BY <1>3, <2>1
  <2>3. ~st'[i].err /\ ~st'[i].errHandled /\ st'[i].parent \in {None, cur.step}
    BY <2>2 DEF Next1, NewState
  <2>4. PICK k \in 1 .. n : nStates + k = i
    <3>1. i - nStates \in 1 .. n /\ nStates + (i - nStates) = i
      BY <1>2, <2>1
    <3> QED
      BY <3>1
  <2>5. \E j \in DOMAIN run'[r].nxt : run'[r].nxt[j] = i
    BY <1>4, <2>4
  <2> QED
    BY <2>3, <2>5 DEF Follows
<1>8. \A k \in DOMAIN run'[r].nxt : run'[r].nxt[k] \in nStates + 1 .. nStates'
  BY <1>2, <1>3, <1>4
<1>9. /\ nStates <= nStates' /\ nStates' \in 0 .. MaxStates
      /\ nStates' # nStates => steps # <<>>
  BY <1>2, <1>3
<1> QED
  BY <1>4, <1>5, <1>6, <1>7, <1>8, <1>9 DEF LeavesAs

\* A goroutine that leaves exec for good departs.
LEMMA LeaveDeparts ==
  ASSUME Inv, NEW r \in RunId, run[r].pc \in {"call", "resolve"},
         NEW cur \in StateRec, cur.step = st[run[r].state].step,
         cur.parent = st[run[r].state].parent,
         NEW steps \in Seq(Step \cup {Final}), NEW err \in BOOLEAN,
         Leave(r, cur, steps, err),
         UNCHANGED <<qState, qErr, delayed, prompted, delayedNil>>,
         run[r].resp \notin {"delay", "prompt"} \/ (err /\ steps = <<>>)
  PROVE  Departs(r)
<1>1. LeavesAs(r, cur, steps, err)
  BY LeaveFacts
<1> QED
  BY <1>1 DEF LeavesAs, Departs

\* The common tail of exec departs.
LEMMA FollowDeparts ==
  ASSUME Inv, NEW r \in RunId, run[r].pc = "resolve",
         run[r].resp \notin {"delay", "prompt"},
         NEW cur \in StateRec, cur.step = st[run[r].state].step,
         cur.parent = st[run[r].state].parent,
         NEW next \in Seq(Step), Follow(r, cur, next),
         UNCHANGED <<qState, qErr, delayed, prompted, delayedNil>>
  PROVE  Departs(r)
<1>1. PICK steps \in Seq(Step \cup {Final}), err \in BOOLEAN :
          Leave(r, cur, steps, err)
  BY FollowLeaves
<1> QED
  BY <1>1, LeaveDeparts


\* A step that answers, comes back to its iterator, or panics.
LEMMA CallShape ==
  ASSUME Inv, Orderly, NEW r \in RunId,
         CallLoop(r) \/ (\E a : CallStep(r, a)) \/ CallPanics(r)
  PROVE  Executes(r)
<1> USE DEF stateVars, mapVars, runKeeps, OthersKeep, SamePlace
<1> DEFINE i0 == run[r].state
<1>1. run[r].pc = "call"
  BY DEF CallLoop, CallStep, CallPanics
<1>2. /\ i0 \in StateId /\ st[i0] \in StateRec /\ run \in [RunId -> RunRec]
      /\ st \in [StateId -> StateRec] /\ TypeOK
  BY <1>1, RunState
<1>3. \A i \in 1 .. nStates : i \in StateId
  BY <1>2, BoundAssumption DEF TypeOK, StateId
<1>4. CASE CallLoop(r)
  <2>1. /\ run'[r].pc = "resolve" /\ run'[r].state = i0
        /\ run'[r].nxt = run[r].nxt /\ run'[r].err = run[r].err
        /\ OthersKeep(r)
    BY <1>2, <1>4 DEF CallLoop, RunRec
  <2>2. UNCHANGED <<st, nStates, qState, qErr, delayed, prompted, delayedNil>>
    BY <1>4 DEF CallLoop
  <2> QED
    BY <1>1, <2>1, <2>2 DEF Executes
<1>5. CASE CallPanics(r)
  <2>1. /\ run'[r].pc = "panic" /\ run'[r].state = i0
        /\ run'[r].nxt = run[r].nxt /\ run'[r].err = run[r].err
        /\ run'[r].resp = run[r].resp
        /\ OthersKeep(r)
    BY <1>2, <1>5 DEF CallPanics, RunRec
  <2>2. UNCHANGED <<st, nStates, qState, qErr, delayed, prompted, delayedNil>>
    BY <1>5 DEF CallPanics
  <2> QED
    BY <1>1, <2>1, <2>2 DEF Executes
<1>6. CASE \E a : CallStep(r, a)
  <2>1. PICK a : CallStep(r, a)
    BY <1>6
  <2>2. /\ run'[r].pc = "resolve" /\ run'[r].state = i0
        /\ run'[r].nxt = run[r].nxt /\ run'[r].err = run[r].err
        /\ OthersKeep(r)
    BY <1>2, <2>1 DEF CallStep, RunRec
  <2>3. UNCHANGED <<nStates, qState, qErr, delayed, prompted, delayedNil>>
    BY <2>1 DEF CallStep
  <2>4. PICK cur : /\ st' = [st EXCEPT ![i0] = cur]
                   /\ cur = NewLoop(st[i0]) \/ cur = [st[i0] EXCEPT !.err = FALSE]
    <3>1. CASE a.kind = "iterator"
      BY <2>1, <3>1 DEF CallStep
    <3>2. CASE a.kind # "iterator"
      BY <2>1, <3>2 DEF CallStep
    <3> QED
      BY <3>1, <3>2
  <2>5. /\ cur.step = st[i0].step /\ cur.parent = st[i0].parent
        /\ cur.errHandled = st[i0].errHandled /\ ~cur.err
    BY <1>2, <2>4 DEF NewLoop, StateRec
  <2>6. st'[i0] = cur /\ \A i \in StateId : i # i0 => st'[i] = st[i]
    BY <1>2, <2>4
  <2>7. \A i \in 1 .. nStates :
          /\ SamePlace(i) /\ st'[i].errHandled = st[i].errHandled
          /\ i # i0 => st'[i] = st[i]
          /\ st'[i].err => st[i].err
    BY <1>3, <2>5, <2>6
  <2> QED
    BY <1>1, <2>2, <2>3, <2>7 DEF Executes
<1> QED
  BY <1>4, <1>5, <1>6

\* An error of a step or of its Start ends the execution.
LEMMA CallErrorShape ==
  ASSUME Inv, Orderly, NEW r \in RunId, CallStartFails(r) \/ CallFails(r)
  PROVE  Departs(r)
<1> DEFINE i0 == run[r].state
<1>1. run[r].pc = "call" /\ run[r].resp = "none"
  BY DEF CallStartFails, CallFails, Orderly
<1>2. i0 \in StateId /\ st[i0] \in StateRec /\ i0 \in 1 .. nStates
  BY <1>1, RunState
<1>3. UNCHANGED <<qState, qErr, delayed, prompted, delayedNil>>
  BY DEF CallStartFails, CallFails, runKeeps, mapVars
<1>4. PICK cur \in StateRec, steps \in Seq(Step \cup {Final}), err \in BOOLEAN :
         /\ cur.step = st[i0].step /\ cur.parent = st[i0].parent
         /\ Leave(r, cur, steps, err)
  <2>1. <<>> \in Seq(Step \cup {Final}) /\ {TRUE, FALSE} \subseteq BOOLEAN
    OBVIOUS
  <2>2. CASE CallStartFails(r)
    <3>1. Leave(r, NewLoop(st[i0]), <<>>, TRUE) /\ st[i0].depth < LoopCap
      BY <2>2 DEF CallStartFails
    <3>2. NewLoop(st[i0]) \in StateRec
      BY <1>2, <3>1, NewLoopEffect
    <3>3. NewLoop(st[i0]).step = st[i0].step /\ NewLoop(st[i0]).parent = st[i0].parent
      BY <1>2 DEF NewLoop, StateRec
    <3> QED
      BY <2>1, <3>1, <3>2, <3>3
  <2>3. CASE CallFails(r) /\ st[i0].errHandler = None
    <3>1. PICK cur \in StateRec : cur = [st[i0] EXCEPT !.err = TRUE]
      BY <1>2 DEF StateRec
    <3>2. cur.step = st[i0].step /\ cur.parent = st[i0].parent
      BY <1>2, <3>1 DEF StateRec
    <3>3. Leave(r, cur, <<>>, TRUE)
      BY <2>3, <3>1 DEF CallFails
    <3> QED
      BY <2>1, <3>2, <3>3
  <2>4. CASE CallFails(r) /\ st[i0].errHandler # None
    <3>1. PICK cur \in StateRec :
              cur = [[st[i0] EXCEPT !.err = TRUE]
                        EXCEPT !.errHandler = None, !.errHandled = TRUE]
      BY <1>2 DEF StateRec
    <3>2. cur.step = st[i0].step /\ cur.parent = st[i0].parent
      BY <1>2, <3>1 DEF StateRec
    <3>3. <<st[i0].errHandler>> \in Seq(Step \cup {Final})
      BY <1>2, <2>4 DEF StateRec
    <3>4. Leave(r, cur, <<st[i0].errHandler>>, FALSE)
      BY <2>4, <3>1 DEF CallFails
    <3> QED
      BY <2>1, <3>2, <3>3, <3>4
  <2> QED
    BY <2>2, <2>3, <2>4
<1> QED
  BY <1>1, <1>3, <1>4, LeaveDeparts

\* A response that names the steps that follow, or none, ends the execution.
LEMMA ResolveShape ==
  ASSUME Inv, Orderly, NEW r \in RunId,
         ResolveVars(r) \/ ResolveSteps(r) \/ ResolvePartial(r)
         \/ ResolveErrHandler(r) \/ ResolveBreak(r) \/ ResolveContinue(r)
         \/ ResolveIterator(r)
  PROVE  Departs(r)
<1> DEFINE i0 == run[r].state
           cur0 == st[i0]
<1>1. run[r].pc = "resolve" /\ run[r].resp \notin {"delay", "prompt"}
  BY DEF ResolveVars, ResolveSteps, ResolvePartial, ResolveErrHandler,
     ResolveBreak, ResolveContinue, ResolveIterator, AtResolve
<1>2. /\ i0 \in StateId /\ st[i0] \in StateRec /\ st[i0].step \in Step
      /\ run \in [RunId -> RunRec] /\ TypeOK /\ NavigationSafe
  BY <1>1, RunState
<1>3. UNCHANGED <<qState, qErr, delayed, prompted, delayedNil>>
  BY DEF ResolveVars, ResolveSteps, ResolvePartial, ResolveErrHandler,
     ResolveBreak, ResolveContinue, ResolveIterator, runKeeps, mapVars
<1>4. /\ <<>> \in Seq(Step) /\ <<>> \in Seq(Step \cup {Final})
      /\ {TRUE, FALSE} \subseteq BOOLEAN
  OBVIOUS
<1>5. ASSUME NEW cur \in StateRec, cur.step = cur0.step, cur.parent = cur0.parent,
             NEW next \in Seq(Step), Follow(r, cur, next)
      PROVE  Departs(r)
  BY <1>1, <1>3, <1>5, FollowDeparts
<1>6. ASSUME NEW cur \in StateRec, cur.step = cur0.step, cur.parent = cur0.parent,
             NEW err \in BOOLEAN, Leave(r, cur, <<>>, err)
      PROVE  Departs(r)
  BY <1>1, <1>3, <1>4, <1>6, LeaveDeparts
<1>7. st[i0].depth > 0 =>
         /\ LoopEnd(cur0) \in StateRec /\ LoopEnd(cur0).step = cur0.step
         /\ LoopEnd(cur0).parent = cur0.parent
         /\ <<LoopExit(cur0)>> \in Seq(Step)
  <2> SUFFICES ASSUME st[i0].depth > 0
               PROVE  /\ LoopEnd(cur0) \in StateRec /\ LoopEnd(cur0).step = cur0.step
                      /\ LoopEnd(cur0).parent = cur0.parent
                      /\ <<LoopExit(cur0)>> \in Seq(Step)
    OBVIOUS
  <2>1. LoopExit(cur0) \in Step /\ LoopEnd(cur0) \in StateRec
        /\ LoopEnd(cur0).step = cur0.step
    BY <1>2, LoopSteps
  <2>2. LoopEnd(cur0).parent = cur0.parent
    BY <1>2 DEF LoopEnd, StateRec
  <2> QED
    BY <2>1, <2>2
<1>8. run[r].curr # 0 => st[run[r].curr].step \in Step /\ st[i0].depth > 0
  BY <1>1, <1>2 DEF NavigationSafe, IsIterator
<1>9. CASE ResolveVars(r)
  BY <1>2, <1>4, <1>5, <1>9 DEF ResolveVars
<1>10. CASE ResolveSteps(r)
  <2>1. run[r].to \in Seq(Step)
    BY <1>2 DEF RunRec
  <2> QED
    BY <1>2, <1>5, <1>10, <2>1 DEF ResolveSteps
<1>11. CASE ResolvePartial(r)
  BY <1>2, <1>4, <1>6, <1>11 DEF ResolvePartial
<1>12. CASE ResolveErrHandler(r)
  <2>1. PICK s \in Step : s = cur0.step
    BY <1>2
  <2>2. Children[s] \in Seq(Step)
    BY GraphAssumption
  <2>3. Handler(s) \in Step \cup {None}
    BY <2>2 DEF Handler
  <2>4. Armed(s) \in Seq(Step)
    <3>1. Children[s] # <<>> => <<Children[s][1]>> \in Seq(Step)
      BY <2>2
    <3> QED
      BY <3>1, <1>4 DEF Armed
  <2>5. PICK cur \in StateRec : cur = [cur0 EXCEPT !.errHandler = Handler(s)]
    BY <1>2, <2>3 DEF StateRec
  <2>6. cur.step = cur0.step /\ cur.parent = cur0.parent
    BY <1>2, <2>5 DEF StateRec
  <2>7. Follow(r, cur, Armed(s))
    BY <1>12, <2>1, <2>5 DEF ResolveErrHandler
  <2> QED
    BY <1>5, <2>4, <2>6, <2>7
<1>13. CASE ResolveBreak(r)
  BY <1>2, <1>4, <1>5, <1>6, <1>7, <1>8, <1>13 DEF ResolveBreak
<1>14. CASE ResolveContinue(r)
  <2>1. run[r].curr # 0 => <<st[run[r].curr].step>> \in Seq(Step)
    BY <1>8
  <2> QED
    BY <1>2, <1>4, <1>5, <1>6, <1>14, <2>1 DEF ResolveContinue
<1>15. CASE ResolveIterator(r)
  <2> DEFINE obj == IterObj(r)
  <2>1. IsIterator(i0) /\ st[i0].depth > 0
    BY <1>2, <1>15 DEF NavigationSafe, ResolveIterator
  <2>2. IsIterator(obj)
    BY <1>1, <1>2, <2>1 DEF NavigationSafe, IterObj
  <2>3. PICK s \in Step : s = st[obj].step /\ Kind[s] = "iterator"
    BY <2>2 DEF IsIterator
  <2>4. Children[s] \in Seq(Step) /\ Len(Children[s]) = 2
    BY <2>3, GraphAssumption
  <2>5. <<Children[st[obj].step][1]>> \in Seq(Step)
    BY <2>3, <2>4
  <2> HIDE DEF obj
  <2>6. \/ Follow(r, cur0, <<Children[st[obj].step][1]>>)
        \/ Follow(r, LoopEnd(cur0), <<LoopExit(cur0)>>)
        \/ Leave(r, [cur0 EXCEPT !.err = TRUE], <<>>, TRUE)
    BY <1>15 DEF ResolveIterator, obj
  <2>7. PICK cur \in StateRec : cur = [cur0 EXCEPT !.err = TRUE]
    BY <1>2 DEF StateRec
  <2>8. cur.step = cur0.step /\ cur.parent = cur0.parent
    BY <1>2, <2>7 DEF StateRec
  <2> QED
    BY <1>2, <1>4, <1>5, <1>6, <1>7, <2>1, <2>5, <2>6, <2>7, <2>8
<1> QED
  BY <1>9, <1>10, <1>11, <1>12, <1>13, <1>14, <1>15


\* A suspension or a termination ends the execution, unless the write into the
\* nil map panics.
LEMMA SuspendShape ==
  ASSUME Inv, Orderly, NEW r \in RunId,
         ResolveTermination(r) \/ ResolveDelay(r) \/ ResolvePrompt(r)
  PROVE  Departs(r) \/ Executes(r)
<1> DEFINE i0 == run[r].state
<1>1. run[r].pc = "resolve"
  BY DEF ResolveTermination, ResolveDelay, ResolvePrompt, AtResolve
<1>2. /\ i0 \in StateId /\ st[i0] \in StateRec
      /\ run \in [RunId -> RunRec] /\ TypeOK
  BY <1>1, RunState
<1>3. PICK cur \in StateRec : cur = st[i0]
  BY <1>2
<1>4. cur.step = st[i0].step /\ cur.parent = st[i0].parent
  BY <1>3
<1>5. /\ <<>> \in Seq(Step \cup {Final}) /\ <<Final>> \in Seq(Step \cup {Final})
      /\ {TRUE, FALSE} \subseteq BOOLEAN
  OBVIOUS
<1>6. CASE ResolveTermination(r)
  <2>1. Leave(r, cur, <<Final>>, FALSE)
    BY <1>3, <1>6 DEF ResolveTermination
  <2>2. run[r].resp \notin {"delay", "prompt"}
    BY <1>6 DEF ResolveTermination, AtResolve
  <2>3. /\ UNCHANGED <<qState, qErr, prompted>>
        /\ delayed' = {} /\ delayedNil'
    BY <1>6 DEF ResolveTermination, runKeeps
  <2> QED
    BY <1>1, <1>4, <1>5, <2>1, <2>2, <2>3, LeaveFacts DEF LeavesAs, Departs
<1>7. CASE ResolveDelay(r) /\ delayedNil
  <2>1. /\ run'[r].pc = "panic" /\ run'[r].state = i0
        /\ run'[r].nxt = run[r].nxt /\ run'[r].err = run[r].err
        /\ run'[r].resp = run[r].resp
        /\ OthersKeep(r)
    BY <1>2, <1>7 DEF ResolveDelay, RunRec, OthersKeep
  <2>2. UNCHANGED <<st, nStates, qState, qErr, delayed, prompted, delayedNil>>
    BY <1>7 DEF ResolveDelay, runKeeps, mapVars, stateVars
  <2> QED
    BY <1>1, <1>7, <2>1, <2>2 DEF Executes, SamePlace
<1>8. CASE ResolveDelay(r) /\ ~delayedNil
  <2>1. Leave(r, cur, <<>>, FALSE) /\ run[r].resp = "delay"
    BY <1>3, <1>8 DEF ResolveDelay, AtResolve
  <2>2. /\ UNCHANGED <<qState, qErr, prompted, delayedNil>>
        /\ delayed' = delayed \cup {i0}
    BY <1>8 DEF ResolveDelay, runKeeps
  <2>3. /\ run'[r].pc = "post" /\ OthersKeep(r)
        /\ run'[r].state = i0 /\ run'[r].resp = run[r].resp
        /\ ~run'[r].err
        /\ nStates <= nStates' /\ nStates' \in 0 .. MaxStates
        /\ nStates' = nStates
        /\ st'[i0] = st[i0]
        /\ \A i \in 1 .. nStates :
              SamePlace(i) /\ (i # i0 => st'[i] = st[i])
        /\ \A i \in nStates + 1 .. nStates' : Follows(r, i)
        /\ \A k \in DOMAIN run'[r].nxt : run'[r].nxt[k] \in nStates + 1 .. nStates'
    BY <1>1, <1>3, <1>4, <1>5, <2>1, LeaveFacts DEF LeavesAs
  <2> QED
    BY <1>1, <2>1, <2>2, <2>3 DEF Departs
<1>9. CASE ResolvePrompt(r) /\ PromptOwner[st[i0].step] = NoUser
  <2>1. Leave(r, cur, <<>>, TRUE)
    BY <1>3, <1>9 DEF ResolvePrompt
  <2>2. UNCHANGED <<qState, qErr, delayed, prompted, delayedNil>>
    BY <1>9 DEF ResolvePrompt, runKeeps
  <2> QED
    BY <1>1, <1>4, <1>5, <2>1, <2>2, LeaveDeparts
<1>10. CASE ResolvePrompt(r) /\ PromptOwner[st[i0].step] # NoUser
  <2>1. Leave(r, cur, <<>>, FALSE) /\ run[r].resp = "prompt"
    BY <1>3, <1>10 DEF ResolvePrompt, AtResolve
  <2>2. /\ UNCHANGED <<qState, qErr, delayed, delayedNil>>
        /\ prompted' = prompted \cup {i0}
    BY <1>10 DEF ResolvePrompt, runKeeps
  <2>3. /\ run'[r].pc = "post" /\ OthersKeep(r)
        /\ run'[r].state = i0 /\ run'[r].resp = run[r].resp
        /\ ~run'[r].err
        /\ nStates <= nStates' /\ nStates' \in 0 .. MaxStates
        /\ nStates' = nStates
        /\ st'[i0] = st[i0]
        /\ \A i \in 1 .. nStates :
              SamePlace(i) /\ (i # i0 => st'[i] = st[i])
        /\ \A i \in nStates + 1 .. nStates' : Follows(r, i)
        /\ \A k \in DOMAIN run'[r].nxt : run'[r].nxt[k] \in nStates + 1 .. nStates'
    BY <1>1, <1>3, <1>4, <1>5, <2>1, LeaveFacts DEF LeavesAs
  <2> QED
    BY <1>1, <2>1, <2>2, <2>3 DEF Departs
<1> QED
  BY <1>6, <1>7, <1>8, <1>9, <1>10

\* What a goroutine does after exec.
LEMMA SettleShape ==
  ASSUME Inv, NEW r \in RunId,
         Recover(r) \/ ReadStatus(r) \/ CheckError(r) \/ PushError(r) \/ Notify(r)
  PROVE  Settles(r)
<1> DEFINE i0 == run[r].state
<1>1. run[r].pc \in {"panic", "post", "check", "push", "notify"}
  BY DEF Recover, ReadStatus, CheckError, PushError, Notify
<1>2. /\ i0 \in StateId /\ st[i0] \in StateRec /\ st \in [StateId -> StateRec]
      /\ run \in [RunId -> RunRec] /\ TypeOK
  BY <1>1, RunState
<1>3. /\ run'[r].pc \in {"post", "check", "push", "notify", "enqueue", "done"}
      /\ run'[r].state = i0 /\ run'[r].nxt = run[r].nxt
      /\ run'[r].err = run[r].err /\ run'[r].resp = run[r].resp
      /\ OthersKeep(r)
  <2>1. CASE Recover(r)
    BY <1>2, <2>1 DEF Recover, RunRec, OthersKeep
  <2>2. CASE ReadStatus(r)
    BY <1>2, <2>2 DEF ReadStatus, RunRec, OthersKeep
  <2>3. CASE CheckError(r)
    BY <1>2, <2>3 DEF CheckError, RunRec, OthersKeep
  <2>4. CASE PushError(r)
    BY <1>2, <2>4 DEF PushError, RunRec, OthersKeep
  <2>5. CASE Notify(r)
    BY <1>2, <2>5 DEF Notify, RunRec, OthersKeep
  <2> QED
    BY <2>1, <2>2, <2>3, <2>4, <2>5
<1>4. UNCHANGED <<nStates, qState, delayed, prompted, delayedNil>>
  BY DEF Recover, ReadStatus, CheckError, PushError, Notify, runKeeps, mapVars,
         stateVars, chanVars
<1>5. \A i \in 1 .. nStates : i \in StateId
  BY <1>2, BoundAssumption DEF TypeOK, StateId
<1>6. \A i \in 1 .. nStates :
          /\ SamePlace(i) /\ st'[i].errHandled = st[i].errHandled
          /\ i # i0 \/ ~run[r].err => st'[i].err = st[i].err
          /\ st[i].err => st'[i].err
  <2>1. CASE ReadStatus(r)
    <3>1. st' = [st EXCEPT ![i0].err = @ \/ run[r].err]
      BY <2>1 DEF ReadStatus
    <3>2. \A i \in StateId : i # i0 => st'[i] = st[i]
      BY <1>2, <3>1
    <3>3. /\ st'[i0].step = st[i0].step /\ st'[i0].parent = st[i0].parent
          /\ st'[i0].errHandled = st[i0].errHandled
          /\ st'[i0].err = (st[i0].err \/ run[r].err)
      BY <1>2, <3>1 DEF StateRec
    <3>4. st[i0].err \in BOOLEAN /\ run[r].err \in BOOLEAN
      BY <1>2 DEF StateRec, RunRec
    <3>5. ASSUME NEW i \in 1 .. nStates
          PROVE  /\ SamePlace(i) /\ st'[i].errHandled = st[i].errHandled
                 /\ i # i0 \/ ~run[r].err => st'[i].err = st[i].err
                 /\ st[i].err => st'[i].err
      <4>1. CASE i = i0
        BY <3>3, <3>4, <4>1 DEF SamePlace
      <4>2. CASE i # i0
        BY <1>5, <3>2, <4>2 DEF SamePlace
      <4> QED
        BY <4>1, <4>2
    <3> QED
      BY <3>5
  <2>2. CASE ~ReadStatus(r)
    <3>1. st' = st
      BY <2>2 DEF Recover, CheckError, PushError, Notify, stateVars
    <3> QED
      BY <3>1 DEF SamePlace
  <2> QED
    BY <2>1, <2>2
<1>7. run'[r].pc = "push" => Fails(st[i0]) /\ st' = st
  <2>1. CASE CheckError(r)
    BY <1>2, <2>1 DEF CheckError, RunRec, stateVars
  <2>2. CASE Recover(r)
    BY <1>2, <2>2 DEF Recover, RunRec
  <2>3. CASE ReadStatus(r)
    BY <1>2, <2>3 DEF ReadStatus, RunRec
  <2>4. CASE PushError(r) \/ Notify(r)
    BY <1>2, <2>4 DEF PushError, Notify, RunRec
  <2> QED
    BY <2>1, <2>2, <2>3, <2>4
<1>8. \/ UNCHANGED qErr
      \/ run[r].pc = "panic" /\ qErr' = Append(qErr, PanicErr(i0))
      \/ run[r].pc = "push" /\ qErr' = Append(qErr, StepErr(i0))
  BY DEF Recover, ReadStatus, CheckError, PushError, Notify, chanVars
<1> QED
  BY <1>1, <1>3, <1>4, <1>6, <1>7, <1>8 DEF Settles

\* What a goroutine does at the end.
LEMMA EnqueueShape ==
  ASSUME Inv, NEW r \in RunId, Enqueue(r) \/ EnqueueAbandoned(r)
  PROVE  Queues(r) \/ Drops(r)
<1>1. run[r].pc = "enqueue" /\ run \in [RunId -> RunRec]
  BY DEF Enqueue, EnqueueAbandoned, Inv, TypeOK
<1>2. CASE Enqueue(r)
  <2>1. /\ run'[r].pc = (IF Len(run[r].nxt) = 1 THEN "done" ELSE "enqueue")
        /\ run'[r].state = run[r].state /\ run'[r].nxt = Tail(run[r].nxt)
        /\ run'[r].err = run[r].err /\ run'[r].resp = run[r].resp
        /\ OthersKeep(r)
    BY <1>1, <1>2 DEF Enqueue, RunRec, OthersKeep
  <2>2. /\ qState' = Append(qState, Head(run[r].nxt))
        /\ UNCHANGED <<st, nStates, qErr, delayed, prompted, delayedNil>>
    BY <1>2 DEF Enqueue, mapVars, stateVars
  <2> QED
    BY <1>1, <2>1, <2>2 DEF Queues
<1>3. CASE EnqueueAbandoned(r)
  <2>1. /\ run'[r].pc = "done"
        /\ run'[r].state = run[r].state /\ run'[r].nxt = <<>>
        /\ run'[r].err = run[r].err /\ run'[r].resp = run[r].resp
        /\ OthersKeep(r)
    BY <1>1, <1>3 DEF EnqueueAbandoned, RunRec, OthersKeep
  <2>2. /\ UNCHANGED <<st, nStates, qState, qErr, delayed, prompted, delayedNil>>
        /\ ctxDone
    BY <1>3 DEF EnqueueAbandoned, mapVars, stateVars, runKeeps
  <2> QED
    BY <1>1, <2>1, <2>2 DEF Drops
<1> QED
  BY <1>2, <1>3

\* Every step of a goroutine has one of the five shapes.
LEMMA RunShape ==
  ASSUME Inv, Orderly, NEW r \in RunId, Run(r)
  PROVE  Executes(r) \/ Departs(r) \/ Settles(r) \/ Queues(r) \/ Drops(r)
<1>1. CASE CallLoop(r) \/ (\E a \in Answers(run[r].state) : CallStep(r, a))
           \/ CallPanics(r)
  BY <1>1, CallShape
<1>2. CASE CallStartFails(r) \/ CallFails(r)
  BY <1>2, CallErrorShape
<1>3. CASE ResolveVars(r) \/ ResolveSteps(r) \/ ResolvePartial(r)
         \/ ResolveErrHandler(r) \/ ResolveBreak(r) \/ ResolveContinue(r)
         \/ ResolveIterator(r)
  BY <1>3, ResolveShape
<1>4. CASE ResolveTermination(r) \/ ResolveDelay(r) \/ ResolvePrompt(r)
  BY <1>4, SuspendShape
<1>5. CASE Recover(r) \/ ReadStatus(r) \/ CheckError(r) \/ PushError(r) \/ Notify(r)
  BY <1>5, SettleShape
<1>6. CASE Enqueue(r) \/ EnqueueAbandoned(r)
  BY <1>6, EnqueueShape
<1> QED
  BY <1>1, <1>2, <1>3, <1>4, <1>5, <1>6 DEF Run

-----------------------------------------------------------------------------
(* The steps of the callers and of the worker *)

Stays(i) ==
    /\ SamePlace(i)
    /\ st'[i].err = st[i].err /\ st'[i].errHandled = st[i].errHandled

\* the session is given its first state
Begins ==
    /\ nStates = 0 /\ nStates' = 1
    /\ st'[1].parent = None /\ ~st'[1].err
    /\ qState' = Append(qState, 1)

\* a goroutine is started for the state the worker holds
Launches ==
    /\ worker.pc = "acquire" /\ worker'.pc = "loop" /\ worker'.state = 0
    /\ \E n \in RunId :
          /\ run[n].pc = "none" /\ OthersKeep(n)
          /\ run'[n] = [Idle EXCEPT !.pc = "call", !.state = worker.state]

GoroutineSteps == \E r \in RunId : run[r].pc \notin {"none", "done"} /\ Run(r)

\* Nobody but a goroutine moves a state in the graph or touches its error, and
\* only Exec and the start of a goroutine make anything new.
LEMMA OtherStep ==
  ASSUME Inv, Aux, [Next]_vars, ~GoroutineSteps
  PROVE  /\ \A i \in 1 .. nStates : Stays(i)
         /\ nStates' = nStates \/ Begins
         /\ run' = run \/ (Launches /\ nStates' = nStates)
         /\ delayedNil' = delayedNil
<1> USE DEF engineVars, stateVars, chanVars, mapVars, endVars, runVars,
            stepVars, waitVars, resumeVars, callerVars, runKeeps, workerKeeps
<1>1. /\ st \in [StateId -> StateRec] /\ run \in [RunId -> RunRec]
      /\ worker \in WorkerRec /\ nRuns \in 0 .. MaxRuns
      /\ nStates \in 0 .. MaxStates /\ MaxStates \in Nat /\ MaxRuns \in Nat
  BY BoundAssumption DEF Inv, TypeOK
<1>2. 1 .. nStates \subseteq StateId
  BY <1>1 DEF StateId
<1>3. CASE \E s \in Starts : Exec(s)
  <2>1. nStates = 0 /\ run' = run /\ delayedNil' = delayedNil
    BY <1>3 DEF Exec, Aux
  <2>2. PICK s : Exec(s)
    BY <1>3
  <2>3. CASE Parents(s) # {}
    BY <2>1, <2>2, <2>3 DEF Exec
  <2>4. CASE Parents(s) = {}
    <3>1. /\ st' = [st EXCEPT ![1] = NewState(s, None, None, 0)]
          /\ nStates' = 1 /\ qState' = Append(qState, 1)
      BY <2>2, <2>4 DEF Exec
    <3>2. 1 \in StateId
      BY <1>1, BoundAssumption DEF StateId
    <3>3. st'[1] = NewState(s, None, None, 0)
      BY <1>1, <3>1, <3>2
    <3> QED
      BY <2>1, <3>1, <3>3 DEF Begins, NewState
  <2> QED
    BY <2>3, <2>4
<1>4. ASSUME NEW j, NEW b, st' = [st EXCEPT ![j].input = b]
      PROVE  \A i \in 1 .. nStates : Stays(i)
  <2>1. ASSUME NEW i \in StateId
        PROVE  Stays(i)
    <3>1. CASE i = j
      BY <1>1, <1>4, <3>1 DEF Stays, SamePlace, StateRec
    <3>2. CASE i # j
      BY <1>1, <1>4, <3>2 DEF Stays, SamePlace
    <3> QED
      BY <3>1, <3>2
  <2> QED
    BY <1>2, <2>1
<1>5. CASE \E u \in Users, i \in prompted, hasInput \in BOOLEAN :
               Resume(u, i, hasInput)
  <2>1. PICK u, i, hasInput : Resume(u, i, hasInput)
    BY <1>5
  <2>2. st' = [st EXCEPT ![i].input = hasInput]
    BY <2>1 DEF Resume
  <2>3. nStates' = nStates /\ run' = run /\ delayedNil' = delayedNil
    BY <2>1 DEF Resume
  <2> QED
    BY <1>4, <2>2, <2>3
<1>6. CASE \E i \in delayed : TickEnqueue(i)
  <2>1. PICK i : TickEnqueue(i)
    BY <1>6
  <2>2. st' = [st EXCEPT ![i].input = TRUE]
    BY <2>1 DEF TickEnqueue
  <2>3. nStates' = nStates /\ run' = run /\ delayedNil' = delayedNil
    BY <2>1 DEF TickEnqueue
  <2> QED
    BY <1>4, <2>2, <2>3
<1>7. CASE StartRun
  <2>1. nRuns + 1 \in RunId /\ nRuns + 1 > nRuns
    BY <1>1, <1>7 DEF StartRun, RunId
  <2>2. PICK n \in RunId : n = nRuns + 1 /\ n > nRuns
    BY <2>1
  <2>3. run[n].pc = "none"
    BY <2>2 DEF Aux
  <2>4. /\ run'[n] = [Idle EXCEPT !.pc = "call", !.state = worker.state]
        /\ OthersKeep(n)
    BY <1>1, <1>7, <2>2 DEF StartRun, OthersKeep
  <2>5. /\ worker.pc = "acquire" /\ worker'.pc = "loop" /\ worker'.state = 0
    BY <1>1, <1>7 DEF StartRun, WorkerRec
  <2>6. UNCHANGED <<st, nStates, delayedNil>>
    BY <1>7 DEF StartRun
  <2> QED
    BY <2>3, <2>4, <2>5, <2>6 DEF Launches, Stays, SamePlace
<1>8. CASE UNCHANGED <<st, nStates, run, delayedNil>>
  BY <1>8 DEF Stays, SamePlace
<1>9. CASE Worker /\ ~StartRun /\ ~(\E i \in delayed : TickEnqueue(i))
  BY <1>8, <1>9 DEF Worker, WorkerDone, TickBegin, TickLock, TickEnd, Dequeue, FinalCheck,
     SetResult, NotifyCompleted, TakeErr, SetErr, Stop
<1>10. CASE ResumeEnqueue \/ ResumeAbandoned
  BY <1>8, <1>10 DEF ResumeEnqueue, ResumeAbandoned
<1>11. CASE Wait \/ Waiter \/ CallerGone \/ Shutdown
           \/ (\E i \in delayed : BecomeDue(i))
           \/ (\E s \in Shared, p \in Step : ReachedElsewhere(s, p))
  BY <1>8, <1>11 DEF Wait, Waiter, WaitTick, WaitCheck, WaitTimeout, Cancel,
     CallerGone, Shutdown, BecomeDue, ReachedElsewhere
<1>12. CASE Rest \/ UNCHANGED vars
  BY <1>8, <1>12 DEF Rest, vars
<1> QED
  BY <1>3, <1>5, <1>6, <1>7, <1>9, <1>10, <1>11, <1>12 DEF Next, GoroutineSteps

\* What the worker holds after a step that is not a goroutine's.
LEMMA WorkerOrder ==
  ASSUME Inv, Orderly, [Next]_vars, ~GoroutineSteps
  PROVE  /\ worker'.state # 0 => worker'.pc \in {"final", "acquire"}
         /\ worker'.pc = "final" =>
              \/ worker' = worker
              \/ worker'.state \in 1 .. nStates /\ st[worker'.state].step = Final
<1> USE DEF engineVars, stateVars, chanVars, mapVars, endVars, runVars,
            stepVars, waitVars, resumeVars, callerVars, runKeeps, workerKeeps
<1>1. worker \in WorkerRec /\ qState \in Seq(StateId) /\ NavigationSafe
  BY DEF Inv, TypeOK
<1>2. worker.state # 0 => worker.pc \in {"final", "acquire"}
  BY DEF Orderly
<1>3. CASE worker' = worker
  BY <1>2, <1>3
<1>4. CASE Worker /\ ~(\E i \in delayed : TickEnqueue(i))
  <2>1. CASE Dequeue
    <3>1. /\ worker'.state = Head(qState)
          /\ worker'.pc = (IF st[Head(qState)].step = Final THEN "final" ELSE "acquire")
      BY <1>1, <2>1 DEF Dequeue, WorkerRec
    <3>2. Head(qState) \in 1 .. nStates
      <4>1. qState # <<>> /\ 1 \in DOMAIN qState /\ Head(qState) = qState[1]
            /\ qState[1] \in StateId
        BY <1>1, <2>1 DEF Dequeue
      <4>2. qState[1] <= nStates
        BY <1>1, <4>1 DEF NavigationSafe
      <4> QED
        BY <4>1, <4>2, BoundAssumption DEF StateId, Inv, TypeOK
    <3> QED
      BY <3>1, <3>2
  <2>2. CASE FinalCheck
    BY <1>1, <2>2 DEF FinalCheck, WorkerRec
  <2>3. CASE StartRun
    BY <1>1, <2>3 DEF StartRun, WorkerRec
  <2>4. CASE WorkerDone \/ TickBegin \/ TickLock \/ TickEnd \/ SetResult
             \/ NotifyCompleted \/ TakeErr \/ SetErr \/ Stop
    <3>1. worker'.state = worker.state /\ worker'.pc # "final"
          /\ worker.pc \notin {"final", "acquire"}
      BY <1>1, <2>4 DEF WorkerDone, TickBegin, TickLock, TickEnd, SetResult,
         NotifyCompleted, TakeErr, SetErr, Stop, WorkerRec
    <3> QED
      BY <1>2, <3>1
  <2> QED
    BY <1>4, <2>1, <2>2, <2>3, <2>4 DEF Worker
<1>5. CASE \E i \in delayed : TickEnqueue(i)
  BY <1>3, <1>5 DEF TickEnqueue
<1>6. CASE (\E s \in Starts : Exec(s))
           \/ (\E u \in Users, i \in prompted, hasInput \in BOOLEAN :
               Resume(u, i, hasInput)) \/ ResumeEnqueue \/ ResumeAbandoned
  BY <1>3, <1>6 DEF Exec, Resume, ResumeEnqueue, ResumeAbandoned
<1>7. CASE Wait \/ Waiter \/ CallerGone \/ Shutdown
           \/ (\E i \in delayed : BecomeDue(i))
           \/ (\E s \in Shared, p \in Step : ReachedElsewhere(s, p))
  BY <1>3, <1>7 DEF Wait, Waiter, WaitTick, WaitCheck, WaitTimeout, Cancel,
     CallerGone, Shutdown, BecomeDue, ReachedElsewhere
<1>8. CASE Rest \/ UNCHANGED vars
  BY <1>3, <1>8 DEF Rest, vars
<1> QED
  BY <1>4, <1>5, <1>6, <1>7, <1>8 DEF Next, GoroutineSteps

\* Every step keeps the worker and the goroutines in order.
LEMMA OrderlyStep ==
  ASSUME Inv, Aux, Orderly, [Next]_vars
  PROVE  Orderly'
<1>1. /\ run \in [RunId -> RunRec] /\ nStates \in 0 .. MaxStates
      /\ worker \in WorkerRec
  BY DEF Inv, TypeOK
<1>2. ASSUME NEW r \in RunId, run[r].pc \notin {"none", "done"}, Run(r)
      PROVE  Orderly'
  <2>1. worker' = worker
    BY <1>2, RunKeepsRest
  <2>2. Executes(r) \/ Departs(r) \/ Settles(r) \/ Queues(r) \/ Drops(r)
    BY <1>2, RunShape
  <2>3. OthersKeep(r) /\ \A i \in 1 .. nStates : SamePlace(i)
    BY <2>2 DEF Executes, Departs, Settles, Queues, Drops, SamePlace
  <2>4. nStates <= nStates' /\ nStates' \in Int
    BY <1>1, <2>2 DEF Executes, Departs, Settles, Queues, Drops
  <2>5. worker'.pc = "final" =>
            worker'.state \in 1 .. nStates' /\ st'[worker'.state].step = Final
    BY <1>1, <2>1, <2>3, <2>4 DEF Orderly, SamePlace
  <2>6. delayedNil => delayedNil'
    BY <2>2 DEF Executes, Departs, Settles, Queues, Drops
  <2>7. ASSUME NEW q \in RunId
        PROVE  /\ run'[q].pc = "none" => run'[q] = Idle
               /\ InExecBy(q)' => run'[q].nxt = <<>> /\ ~run'[q].err
               /\ run'[q].pc = "call" => run'[q].resp = "none"
               /\ run'[q].pc = "panic" => run'[q].resp = "none" \/ delayedNil'
    <3>1. CASE q # r
      <4>1. run'[q] = run[q]
        BY <2>3, <3>1 DEF OthersKeep
      <4> QED
        BY <2>6, <4>1 DEF Orderly, InExecBy
    <3>2. CASE q = r /\ Executes(r)
      <4>1. InExecBy(r)
        BY <3>2 DEF Executes, InExecBy
      <4>2. run[r].nxt = <<>> /\ ~run[r].err
        BY <4>1 DEF Orderly
      <4>3. run'[r].pc = "panic" => run'[r].resp = "none" \/ delayedNil'
        BY <3>2 DEF Executes, Orderly
      <4> QED
        BY <3>2, <4>2, <4>3 DEF Executes, InExecBy
    <3>3. CASE q = r /\ ~Executes(r)
      <4>1. run'[r].pc \in {"post", "check", "push", "notify", "enqueue", "done"}
        BY <2>2, <3>3 DEF Departs, Settles, Queues, Drops
      <4> QED
        BY <3>3, <4>1 DEF InExecBy
    <3> QED
      BY <3>1, <3>2, <3>3
  <2> QED
    BY <2>1, <2>5, <2>7 DEF Orderly
<1>3. CASE ~GoroutineSteps
  <2>1. /\ \A i \in 1 .. nStates : Stays(i)
        /\ nStates' = nStates \/ Begins
        /\ run' = run \/ Launches
        /\ delayedNil' = delayedNil
    BY <1>3, OtherStep
  <2>2. /\ worker'.state # 0 => worker'.pc \in {"final", "acquire"}
        /\ worker'.pc = "final" =>
              \/ worker' = worker
              \/ worker'.state \in 1 .. nStates /\ st[worker'.state].step = Final
    BY <1>3, WorkerOrder
  <2>3. 1 .. nStates \subseteq 1 .. nStates'
    BY <1>1, <2>1 DEF Begins
  <2>4. worker'.pc = "final" =>
            worker'.state \in 1 .. nStates' /\ st'[worker'.state].step = Final
    <3>1. worker'.pc = "final" =>
            worker'.state \in 1 .. nStates /\ st[worker'.state].step = Final
      BY <2>2 DEF Orderly
    <3> QED
      BY <2>1, <2>3, <3>1 DEF Stays, SamePlace
  <2>5. ASSUME NEW q \in RunId
        PROVE  /\ run'[q].pc = "none" => run'[q] = Idle
               /\ InExecBy(q)' => run'[q].nxt = <<>> /\ ~run'[q].err
               /\ run'[q].pc = "call" => run'[q].resp = "none"
               /\ run'[q].pc = "panic" => run'[q].resp = "none" \/ delayedNil'
    <3>1. CASE run'[q] = run[q]
      BY <2>1, <3>1 DEF Orderly, InExecBy
    <3>2. CASE run'[q] # run[q]
      <4>1. run'[q] = [Idle EXCEPT !.pc = "call", !.state = worker.state]
        BY <2>1, <3>2 DEF Launches, OthersKeep
      <4> QED
        BY <4>1 DEF Idle, InExecBy
    <3> QED
      BY <3>1, <3>2
  <2> QED
    BY <2>2, <2>4, <2>5 DEF Orderly
<1> QED
  BY <1>2, <1>3 DEF GoroutineSteps

-----------------------------------------------------------------------------
(* Where a state is *)

Queued(i)  == i \in Elems(qState)
Coming(i)  == \E r \in RunId : i \in Elems(run[r].nxt)
Running(i) == \E r \in RunId : InExecBy(r) /\ run[r].state = i

\* the state is on its way to be executed or is being executed
Somewhere(i) ==
    \/ Queued(i) \/ Coming(i) \/ Running(i)
    \/ worker.state = i \/ resumer = i
    \/ i \in delayed \/ i \in prompted

\* what a state may be lost to
Excused == delayedNil \/ ctxDone \/ st[1].step \in MayAbandon

\* What is in a queue after a send, and what was in it before a receive.
LEMMA Elements ==
  ASSUME NEW S, NEW q \in Seq(S)
  PROVE  /\ \A e \in S : Elems(Append(q, e)) = Elems(q) \cup {e}
         /\ q # <<>> => Elems(q) = {Head(q)} \cup Elems(Tail(q))
<1>1. ASSUME NEW e \in S
      PROVE  Elems(Append(q, e)) = Elems(q) \cup {e}
  <2>0. Append(q, e) \in Seq(S)
    OBVIOUS
  <2>1. PICK p \in Seq(S) : p = Append(q, e)
    BY <2>0, Zenon
  <2>2. /\ DOMAIN p = 1 .. Len(q) + 1 /\ DOMAIN q = 1 .. Len(q)
        /\ Len(q) \in Nat
        /\ \A k \in 1 .. Len(q) : p[k] = q[k]
        /\ p[Len(q) + 1] = e
    BY <2>1
  <2>3. Elems(p) \subseteq Elems(q) \cup {e}
    BY <2>2 DEF Elems
  <2>4. Elems(q) \subseteq Elems(p)
    BY <2>2 DEF Elems
  <2>5. e \in Elems(p)
    <3>1. Len(q) + 1 \in DOMAIN p
      BY <2>2
    <3> QED
      BY <2>2, <3>1 DEF Elems
  <2> QED
    BY <2>1, <2>3, <2>4, <2>5
<1>2. ASSUME q # <<>>
      PROVE  Elems(q) = {Head(q)} \cup Elems(Tail(q))
  <2>0. Tail(q) \in Seq(S)
    BY <1>2
  <2>1. PICK p \in Seq(S) : p = Tail(q)
    BY <2>0, Zenon
  <2>2. /\ DOMAIN q = 1 .. Len(q) /\ Len(q) \in Nat /\ Len(q) > 0
        /\ DOMAIN p = 1 .. Len(q) - 1 /\ Head(q) = q[1]
        /\ \A k \in 1 .. Len(q) - 1 : p[k] = q[k + 1]
    BY <1>2, <2>1
  <2>3. Elems(p) \subseteq Elems(q)
    <3>1. \A k \in DOMAIN p : k + 1 \in DOMAIN q /\ p[k] = q[k + 1]
      BY <2>2
    <3> QED
      BY <3>1 DEF Elems
  <2>4. Head(q) \in Elems(q)
    <3>1. 1 \in DOMAIN q
      BY <2>2
    <3> QED
      BY <2>2, <3>1 DEF Elems
  <2>5. ASSUME NEW k \in DOMAIN q, k # 1
        PROVE  q[k] \in Elems(p)
    <3>1. k - 1 \in DOMAIN p /\ p[k - 1] = q[(k - 1) + 1] /\ (k - 1) + 1 = k
      BY <2>2, <2>5
    <3> QED
      BY <3>1 DEF Elems
  <2> QED
    BY <2>1, <2>2, <2>3, <2>4, <2>5 DEF Elems
<1> QED
  BY <1>1, <1>2

\* A state that a goroutine executes is nowhere else.
LEMMA ExecutedThere ==
  ASSUME Inv, NEW r \in RunId, InExecBy(r)
  PROVE  LET i == run[r].state IN
         /\ ~Queued(i) /\ ~Coming(i) /\ worker.state # i /\ resumer # i
         /\ i \notin delayed /\ i \notin prompted
         /\ \A q \in RunId : InExecBy(q) /\ run[q].state = i => q = r
<1> DEFINE i == run[r].state
<1>1. PICK loc \in [StateId -> Place] : Places_ok(loc)
  BY DEF Inv, Located
<1>2. loc[i] = <<"exec", r>>
  BY <1>1 DEF Places_ok
<1>3. i \in 1 .. nStates
  BY RunState DEF InExecBy
<1>4. ~Queued(i)
  BY <1>1, <1>2 DEF Places_ok, Queued, Elems
<1>5. ~Coming(i)
  BY <1>1, <1>2 DEF Places_ok, Coming, Elems
<1>6. worker.state # i /\ resumer # i
  BY <1>1, <1>2, <1>3 DEF Places_ok
<1>7. i \notin delayed /\ i \notin prompted
  BY <1>1, <1>2 DEF Places_ok
<1>8. \A q \in RunId : InExecBy(q) /\ run[q].state = i => q = r
  BY <1>1, <1>2 DEF Places_ok
<1> QED
  BY <1>4, <1>5, <1>6, <1>7, <1>8

\* What was executed to its end stays so.
LEMMA FinishedStays ==
  ASSUME Inv, Aux, Orderly, [Next]_vars, NEW i \in 1 .. nStates, Finished(i)
  PROVE  Finished(i)'
<1>1. PICK q \in RunId :
        /\ run[q].state = i
        /\ run[q].pc \notin {"none", "call", "resolve", "panic"}
        /\ run[q].resp \notin {"delay", "prompt"} \/ run[q].err
  BY DEF Finished
<1>2. ASSUME NEW r \in RunId, Run(r)
      PROVE  Finished(i)'
  <2>1. Executes(r) \/ Departs(r) \/ Settles(r) \/ Queues(r) \/ Drops(r)
    BY <1>2, RunShape
  <2>2. CASE q # r
    <3>1. run'[q] = run[q]
      BY <2>1, <2>2 DEF OthersKeep, Executes, Departs, Settles, Queues, Drops
    <3> QED
      BY <1>1, <3>1 DEF Finished
  <2>3. CASE q = r
    <3>1. /\ run'[q].state = i /\ run'[q].resp = run[q].resp
          /\ run'[q].err = run[q].err
          /\ run'[q].pc \notin {"none", "call", "resolve", "panic"}
      BY <1>1, <2>1, <2>3 DEF Executes, Departs, Settles, Queues, Drops
    <3> QED
      BY <1>1, <3>1 DEF Finished
  <2> QED
    BY <2>2, <2>3
<1>3. CASE ~GoroutineSteps
  <2>1. run' = run \/ Launches
    BY <1>3, OtherStep
  <2>2. run'[q] = run[q]
    BY <1>1, <2>1 DEF Launches, OthersKeep
  <2> QED
    BY <1>1, <2>2 DEF Finished
<1> QED
  BY <1>2, <1>3 DEF GoroutineSteps

\* A goroutine's step takes a state from nowhere only when it makes it, and
\* leaves it nowhere only when its execution is over or the session is ending.
LEMMA GoroutineMoves ==
  ASSUME Inv, Aux, Orderly, NEW r \in RunId, Run(r), NEW i \in 1 .. nStates
  PROVE  /\ Somewhere(i)' => Somewhere(i)
         /\ Somewhere(i) => Somewhere(i)' \/ Finished(i)' \/ delayedNil' \/ ctxDone
         /\ InExecBy(r) /\ run[r].state = i /\ Somewhere(i)' =>
               \/ Executes(r)
               \/ /\ Departs(r) /\ ~run'[r].err /\ st'[i] = st[i]
                  /\ run[r].resp \in {"delay", "prompt"}
<1>1. /\ run \in [RunId -> RunRec] /\ qState \in Seq(StateId)
      /\ nStates \in 0 .. MaxStates /\ i \in StateId
  BY BoundAssumption DEF Inv, TypeOK, StateId
<1>2. worker' = worker /\ resumer' = resumer
  BY RunKeepsRest DEF callerVars, resumeVars
<1>3. CASE Executes(r)
  <2>1. /\ Queued(i)' = Queued(i) /\ delayed' = delayed /\ prompted' = prompted
    BY <1>3 DEF Executes, Queued
  <2>2. \A q \in RunId : run'[q].nxt = run[q].nxt /\ run'[q].state = run[q].state
                         /\ InExecBy(q)' = InExecBy(q)
    BY <1>3 DEF Executes, OthersKeep, InExecBy
  <2>3. Coming(i)' = Coming(i) /\ Running(i)' = Running(i)
    BY <2>2 DEF Coming, Running
  <2> QED
    BY <1>2, <1>3, <2>1, <2>3 DEF Somewhere
<1>4. CASE Departs(r)
  <2>1. /\ run[r].pc \in {"call", "resolve"} /\ InExecBy(r)
        /\ run[r].nxt = <<>>
    BY <1>4 DEF Departs, InExecBy, Orderly
  <2>2. Queued(i)' = Queued(i)
    BY <1>4 DEF Departs, Queued
  <2>3. Coming(i)' = Coming(i)
    <3>1. i \notin Elems(run'[r].nxt)
      BY <1>1, <1>4 DEF Departs, Elems
    <3>2. i \notin Elems(run[r].nxt)
      BY <2>1 DEF Elems
    <3>3. \A q \in RunId : q # r => run'[q].nxt = run[q].nxt
      BY <1>4 DEF Departs, OthersKeep
    <3> QED
      BY <3>1, <3>2, <3>3 DEF Coming
  <2>4. /\ run'[r].pc = "post" /\ run'[r].state = run[r].state
        /\ run'[r].resp = run[r].resp /\ ~InExecBy(r)'
    BY <1>4 DEF Departs, InExecBy
  <2>5. /\ Running(i)' => Running(i)
        /\ i # run[r].state => (Running(i)' <=> Running(i))
    BY <1>4, <2>4 DEF Departs, OthersKeep, Running, InExecBy
  <2>6. /\ delayed' \subseteq delayed \cup {run[r].state}
        /\ prompted' \subseteq prompted \cup {run[r].state}
        /\ delayed \subseteq delayed' \/ delayedNil'
        /\ prompted \subseteq prompted'
    BY <1>4 DEF Departs
  <2>7. Somewhere(i)' => Somewhere(i)
    BY <1>2, <2>1, <2>2, <2>3, <2>5, <2>6 DEF Somewhere, Running
  <2>8. CASE i # run[r].state
    BY <1>2, <2>2, <2>3, <2>5, <2>6, <2>7, <2>8 DEF Somewhere
  <2>9. CASE i = run[r].state
    <3>1. \/ run[r].resp \notin {"delay", "prompt"} \/ run'[r].err
          \/ i \in delayed' \/ i \in prompted'
      BY <1>4, <2>9 DEF Departs
    <3>2. Somewhere(i)' \/ Finished(i)'
      BY <2>4, <2>9, <3>1 DEF Somewhere, Finished
    <3>3. /\ ~Queued(i) /\ ~Coming(i) /\ worker.state # i /\ resumer # i
          /\ i \notin delayed /\ i \notin prompted
          /\ \A q \in RunId : InExecBy(q) /\ run[q].state = i => q = r
      BY <2>1, <2>9, ExecutedThere
    <3>4. ~Running(i)'
      BY <1>4, <2>4, <3>3 DEF Departs, OthersKeep, Running, InExecBy
    <3>5. Somewhere(i)' => i \in delayed' \/ i \in prompted'
      BY <1>2, <2>2, <2>3, <3>3, <3>4 DEF Somewhere
    <3>6. Somewhere(i)' => /\ ~run'[r].err /\ st'[i] = st[i]
                            /\ run[r].resp \in {"delay", "prompt"}
      BY <1>4, <2>9, <3>3, <3>5 DEF Departs
    <3> QED
      BY <1>4, <2>7, <3>2, <3>6
  <2> QED
    BY <2>8, <2>9
<1>5. CASE Settles(r)
  <2>1. /\ Queued(i)' = Queued(i) /\ delayed' = delayed /\ prompted' = prompted
        /\ delayedNil' = delayedNil
    BY <1>5 DEF Settles, Queued
  <2>2. \A q \in RunId : run'[q].nxt = run[q].nxt
    BY <1>5 DEF Settles, OthersKeep
  <2>3. Coming(i)' = Coming(i)
    BY <2>2 DEF Coming
  <2>4. ~InExecBy(r)' /\ run'[r].state = run[r].state
        /\ run'[r].pc \notin {"none", "call", "resolve", "panic"}
    BY <1>5 DEF Settles, InExecBy
  <2>5. \A q \in RunId : q # r => run'[q] = run[q] /\ InExecBy(q)' = InExecBy(q)
    BY <1>5 DEF Settles, OthersKeep, InExecBy
  <2>6. Running(i)' => Running(i)
    BY <2>4, <2>5 DEF Running
  <2>7. ~(InExecBy(r) /\ run[r].state = i) => (Running(i)' <=> Running(i))
    BY <2>4, <2>5 DEF Running
  <2>8. CASE ~(InExecBy(r) /\ run[r].state = i)
    BY <1>2, <2>1, <2>3, <2>7, <2>8 DEF Somewhere
  <2>9. CASE InExecBy(r) /\ run[r].state = i
    <3>1. run[r].pc = "panic"
      BY <1>5, <2>9 DEF Settles, InExecBy
    <3>2. run'[r].resp = "none" \/ delayedNil
      BY <1>5, <3>1 DEF Settles, Orderly
    <3>3. Finished(i)' \/ delayedNil'
      BY <2>1, <2>4, <2>9, <3>2 DEF Finished
    <3>4. /\ ~Queued(i) /\ ~Coming(i) /\ worker.state # i /\ resumer # i
          /\ i \notin delayed /\ i \notin prompted
          /\ \A q \in RunId : InExecBy(q) /\ run[q].state = i => q = r
      BY <2>9, ExecutedThere
    <3>5. ~Running(i)'
      BY <2>4, <2>5, <3>4 DEF Running, OthersKeep
    <3>6. ~Somewhere(i)'
      BY <1>2, <2>1, <2>3, <3>4, <3>5 DEF Somewhere
    <3> QED
      BY <3>3, <3>6
  <2> QED
    BY <2>8, <2>9
<1>6. ASSUME Queues(r) \/ Drops(r)
      PROVE  /\ delayed' = delayed /\ prompted' = prompted /\ Running(i)' = Running(i)
             /\ ~InExecBy(r)
  <2>1. ~InExecBy(r) /\ ~InExecBy(r)'
    BY <1>6 DEF Queues, Drops, InExecBy
  <2>2. \A q \in RunId : q # r => run'[q] = run[q] /\ InExecBy(q)' = InExecBy(q)
    BY <1>6 DEF Queues, Drops, OthersKeep, InExecBy
  <2>3. Running(i)' = Running(i)
    BY <2>1, <2>2 DEF Running
  <2> QED
    BY <1>6, <2>1, <2>3 DEF Queues, Drops
<1>7. CASE Queues(r)
  <2>1. run[r].nxt # <<>> /\ run[r].nxt \in Seq(StateId)
    BY <1>1, <1>7 DEF Queues, Aux, RunRec
  <2>2. Head(run[r].nxt) \in StateId
    BY <2>1
  <2>3. /\ Elems(qState') = Elems(qState) \cup {Head(run[r].nxt)}
        /\ Elems(run[r].nxt) = {Head(run[r].nxt)} \cup Elems(run'[r].nxt)
    BY <1>1, <1>7, <2>1, <2>2, Elements DEF Queues
  <2>4. \A q \in RunId : q # r => run'[q].nxt = run[q].nxt
    BY <1>7 DEF Queues, OthersKeep
  <2>5. (Queued(i)' \/ Coming(i)') <=> (Queued(i) \/ Coming(i))
    <3>1. Queued(i)' <=> Queued(i) \/ i = Head(run[r].nxt)
      BY <2>3 DEF Queued
    <3>2. Coming(i) <=> Coming(i)' \/ i = Head(run[r].nxt)
      BY <2>3, <2>4 DEF Coming
    <3> QED
      BY <3>1, <3>2
  <2> QED
    BY <1>2, <1>6, <1>7, <2>5 DEF Somewhere
<1>8. CASE Drops(r)
  <2>1. ctxDone /\ qState' = qState /\ run'[r].nxt = <<>>
        /\ \A q \in RunId : q # r => run'[q].nxt = run[q].nxt
    BY <1>8 DEF Drops, OthersKeep
  <2>2. Coming(i)' => Coming(i)
    BY <2>1 DEF Coming, Elems
  <2> QED
    BY <1>2, <1>6, <1>8, <2>1, <2>2 DEF Somewhere, Queued
<1> QED
  BY <1>3, <1>4, <1>5, <1>7, <1>8, RunShape

\* The callers and the worker hand a state on or keep it, and drop it only
\* when it is final or its caller has given up.
LEMMA OtherMoves ==
  ASSUME Inv, Aux, Orderly, [Next]_vars, ~GoroutineSteps, NEW i \in 1 .. nStates
  PROVE  /\ Somewhere(i)' => Somewhere(i)
         /\ Somewhere(i) =>
               Somewhere(i)' \/ st[i].step = Final \/ st[1].step \in MayAbandon
<1> USE DEF engineVars, stateVars, chanVars, mapVars, endVars, runVars,
            stepVars, waitVars, resumeVars, callerVars, runKeeps, workerKeeps
<1>1. /\ run \in [RunId -> RunRec] /\ qState \in Seq(StateId)
      /\ worker \in WorkerRec /\ resumer \in 0 .. MaxStates
      /\ delayed \subseteq StateId /\ prompted \subseteq StateId
      /\ nStates \in 0 .. MaxStates /\ i # 0 /\ i \in StateId
  BY BoundAssumption DEF Inv, TypeOK, StateId
<1>2. ASSUME run' = run
      PROVE  (Coming(i)' <=> Coming(i)) /\ (Running(i)' <=> Running(i))
  BY <1>2 DEF Coming, Running, InExecBy
<1>3. ASSUME qState' = qState
      PROVE  Queued(i)' <=> Queued(i)
  BY <1>3 DEF Queued
<1>4. CASE \E s \in Starts : Exec(s)
  <2>1. nStates = 0
    BY <1>4 DEF Exec, Aux
  <2> QED
    BY <2>1
<1>5. CASE \E u \in Users, j \in prompted, hasInput \in BOOLEAN :
               Resume(u, j, hasInput)
  <2>1. PICK j \in prompted : \E u, hasInput : Resume(u, j, hasInput)
    BY <1>5
  <2>2. /\ resumer = 0 /\ resumer' = j /\ prompted' = prompted \ {j}
        /\ UNCHANGED <<qState, run, worker, delayed>>
    BY <2>1 DEF Resume, Without
  <2> QED
    BY <1>1, <1>2, <1>3, <2>2 DEF Somewhere
<1>6. CASE ResumeEnqueue
  <2>1. /\ resumer # 0 /\ resumer' = 0 /\ qState' = Append(qState, resumer)
        /\ UNCHANGED <<run, worker, delayed, prompted>>
    BY <1>6 DEF ResumeEnqueue
  <2>2. resumer \in StateId
    BY <1>1, <2>1 DEF StateId
  <2>3. Elems(qState') = Elems(qState) \cup {resumer}
    BY <1>1, <2>1, <2>2, Elements
  <2> QED
    BY <1>1, <1>2, <2>1, <2>3 DEF Somewhere, Queued
<1>7. CASE ResumeAbandoned
  <2>1. /\ st[1].step \in MayAbandon /\ resumer' = 0
        /\ UNCHANGED <<qState, run, worker, delayed, prompted>>
    BY <1>7 DEF ResumeAbandoned
  <2> QED
    BY <1>1, <1>2, <1>3, <2>1 DEF Somewhere
<1>8. CASE \E j \in delayed : TickEnqueue(j)
  <2>1. PICK j \in delayed : TickEnqueue(j)
    BY <1>8
  <2>2. /\ delayed' = delayed \ {j} /\ qState' = Append(qState, j)
        /\ UNCHANGED <<run, worker, prompted, resumer>>
    BY <2>1 DEF TickEnqueue, Without
  <2>3. Elems(qState') = Elems(qState) \cup {j}
    BY <1>1, <2>2, Elements
  <2> QED
    BY <1>1, <1>2, <2>2, <2>3 DEF Somewhere, Queued
<1>9. CASE Dequeue
  <2>1. /\ qState # <<>> /\ qState' = Tail(qState) /\ worker'.state = Head(qState)
        /\ worker.pc = "loop"
        /\ UNCHANGED <<run, delayed, prompted, resumer>>
    BY <1>1, <1>9 DEF Dequeue, WorkerRec
  <2>2. worker.state = 0
    BY <2>1 DEF Orderly
  <2>3. Elems(qState) = {Head(qState)} \cup Elems(qState')
    BY <1>1, <2>1, Elements
  <2> QED
    BY <1>1, <1>2, <2>1, <2>2, <2>3 DEF Somewhere, Queued
<1>10. CASE FinalCheck
  <2>1. /\ worker.pc = "final" /\ worker'.state = 0
        /\ UNCHANGED <<qState, run, delayed, prompted, resumer>>
    BY <1>1, <1>10 DEF FinalCheck, WorkerRec
  <2>2. st[worker.state].step = Final
    BY <2>1 DEF Orderly
  <2> QED
    BY <1>1, <1>2, <1>3, <2>1, <2>2 DEF Somewhere
<1>11. CASE StartRun
  <2>1. UNCHANGED <<qState, delayed, prompted, resumer>>
    BY <1>11 DEF StartRun
  <2>2. run' = run \/ Launches
    BY OtherStep
  <2>3. CASE Launches
    <3>1. PICK n \in RunId : /\ run[n].pc = "none" /\ OthersKeep(n)
             /\ run'[n] = [Idle EXCEPT !.pc = "call", !.state = worker.state]
      BY <2>3 DEF Launches
    <3>2. /\ run[n] = Idle /\ run'[n].nxt = <<>> /\ run[n].nxt = <<>>
          /\ InExecBy(n)' /\ ~InExecBy(n) /\ run'[n].state = worker.state
      BY <3>1 DEF Orderly, Idle, InExecBy
    <3>3. \A q \in RunId : q # n => run'[q] = run[q] /\ InExecBy(q)' = InExecBy(q)
      BY <3>1 DEF OthersKeep, InExecBy
    <3>4. Coming(i)' <=> Coming(i)
      BY <3>2, <3>3 DEF Coming, Elems
    <3>5. Running(i)' <=> Running(i) \/ worker.state = i
      BY <3>2, <3>3 DEF Running
    <3>6. worker'.state = 0
      BY <2>3 DEF Launches
    <3> QED
      BY <1>1, <1>3, <2>1, <3>4, <3>5, <3>6 DEF Somewhere
  <2>4. CASE run' = run
    <3>1. PICK n : n = nRuns + 1 /\ n \in RunId /\ n > nRuns
      BY <1>1, <1>11, BoundAssumption DEF StartRun, RunId, Inv, TypeOK
    <3>2. run'[n].pc = "call"
      BY <1>1, <1>11, <3>1 DEF StartRun, Idle
    <3> QED
      BY <2>4, <3>1, <3>2 DEF Aux
  <2> QED
    BY <2>2, <2>3, <2>4
<1>12. CASE /\ UNCHANGED <<qState, run, delayed, prompted, resumer>>
            /\ worker'.state = worker.state
  BY <1>2, <1>3, <1>12 DEF Somewhere
<1>13. CASE WorkerDone \/ TickBegin \/ TickLock \/ TickEnd \/ SetResult
             \/ NotifyCompleted \/ TakeErr \/ SetErr \/ Stop
  <2>1. worker'.state = worker.state
    BY <1>1, <1>13 DEF WorkerDone, TickBegin, TickLock, TickEnd, SetResult,
       NotifyCompleted, TakeErr, SetErr, Stop, WorkerRec
  <2>2. UNCHANGED <<qState, run, delayed, prompted, resumer>>
    BY <1>13 DEF WorkerDone, TickBegin, TickLock, TickEnd, SetResult,
       NotifyCompleted, TakeErr, SetErr, Stop
  <2> QED
    BY <1>12, <2>1, <2>2
<1>14. CASE Wait \/ Waiter \/ CallerGone \/ Shutdown
           \/ (\E j \in delayed : BecomeDue(j))
           \/ (\E s \in Shared, p \in Step : ReachedElsewhere(s, p))
  BY <1>12, <1>14 DEF Wait, Waiter, WaitTick, WaitCheck, WaitTimeout, Cancel,
     CallerGone, Shutdown, BecomeDue, ReachedElsewhere
<1>15. CASE Rest \/ UNCHANGED vars
  BY <1>12, <1>15 DEF Rest, vars
<1> QED
  BY <1>4, <1>5, <1>6, <1>7, <1>8, <1>9, <1>10, <1>11, <1>13, <1>14, <1>15
  DEF Next, Worker, GoroutineSteps

\* A new state has no error, no goroutine has executed it, and it is in the
\* queue or with the goroutine that is to queue it.
LEMMA NewStates ==
  ASSUME Inv, Aux, Orderly, [Next]_vars,
         NEW i \in 1 .. nStates', i \notin 1 .. nStates
  PROVE  /\ Somewhere(i)' /\ ~st'[i].err
         /\ \A q \in RunId : run'[q].state # i
         /\ GoroutineSteps \/ Begins
<1>1. /\ nStates \in 0 .. MaxStates /\ nStates' \in 0 .. MaxStates
      /\ run \in [RunId -> RunRec] /\ qState \in Seq(StateId)
      /\ worker \in WorkerRec /\ i \in StateId /\ i > nStates
      /\ i \in 1 .. MaxStates
  <2>1. Inv'
    BY NextInv
  <2>2. /\ nStates \in 0 .. MaxStates /\ nStates' \in 0 .. MaxStates
        /\ run \in [RunId -> RunRec] /\ qState \in Seq(StateId)
        /\ worker \in WorkerRec
    BY <2>1 DEF Inv, TypeOK
  <2>3. i \in 1 .. MaxStates /\ i > nStates
    BY <2>2, BoundAssumption
  <2> QED
    BY <2>2, <2>3 DEF StateId
<1>2. i > nStates /\ i \in 1 .. MaxStates
  BY <1>1
<1>3. ASSUME NEW q \in RunId PROVE run[q].state # i
  <2>1. CASE run[q].pc = "none"
    BY <1>2, <2>1 DEF Orderly, Idle
  <2>2. CASE run[q].pc # "none"
    BY <1>1, <1>2, <2>2, RunState
  <2> QED
    BY <2>1, <2>2
<1>4. ASSUME NEW r \in RunId, run[r].pc \notin {"none", "done"}, Run(r)
      PROVE  Somewhere(i)' /\ ~st'[i].err /\ \A q \in RunId : run'[q].state # i
  <2>1. nStates' # nStates
    BY <1>1, <1>2
  <2>2. Departs(r)
    BY <1>4, <2>1, RunShape DEF Executes, Settles, Queues, Drops
  <2>3. Follows(r, i)
    BY <1>1, <1>2, <2>2 DEF Departs
  <2>4. \A q \in RunId : run'[q].state = run[q].state
    BY <2>2 DEF Departs, OthersKeep
  <2> QED
    BY <1>3, <2>3, <2>4 DEF Follows, Somewhere, Coming, Elems
<1>5. CASE ~GoroutineSteps
  <2>1. Begins
    BY <1>1, <1>2, <1>5, OtherStep
  <2>2. i = 1 /\ ~st'[i].err
    BY <1>2, <2>1 DEF Begins
  <2>3. Elems(qState') = Elems(qState) \cup {i}
    BY <1>1, <2>1, <2>2, Elements DEF Begins
  <2>4. run' = run
    BY <1>5, <2>1, OtherStep DEF Begins
  <2> QED
    BY <1>3, <2>1, <2>2, <2>3, <2>4 DEF Somewhere, Queued
<1> QED
  BY <1>4, <1>5 DEF GoroutineSteps

\* A state keeps its place in the graph.
LEMMA PlacesStay ==
  ASSUME Inv, Aux, Orderly, [Next]_vars
  PROVE  /\ \A i \in 1 .. nStates : SamePlace(i)
         /\ delayedNil => delayedNil'
         /\ ctxDone => ctxDone'
         /\ nStates <= nStates'
<1>1. CASE GoroutineSteps
  <2>1. PICK r \in RunId : Run(r)
    BY <1>1 DEF GoroutineSteps
  <2>2. Executes(r) \/ Departs(r) \/ Settles(r) \/ Queues(r) \/ Drops(r)
    BY <2>1, RunShape
  <2>3. UNCHANGED ctxDone
    BY <2>1, RunKeepsRest DEF callerVars
  <2>4. nStates \in Nat
    BY BoundAssumption DEF Inv, TypeOK
  <2> QED
    BY <2>2, <2>3, <2>4 DEF Executes, Departs, Settles, Queues, Drops, SamePlace
<1>2. CASE ~GoroutineSteps
  <2>1. /\ \A i \in 1 .. nStates : Stays(i)
        /\ nStates' = nStates \/ Begins
        /\ delayedNil' = delayedNil
    BY <1>2, OtherStep
  <2>2. nStates \in Nat
    BY BoundAssumption DEF Inv, TypeOK
  <2>3. ctxDone => ctxDone'
    BY <1>2 DEF Next, Exec, Resume, ResumeEnqueue, ResumeAbandoned,
       Wait, Waiter, WaitTick, WaitCheck, WaitTimeout, Cancel, CallerGone,
       Shutdown, BecomeDue, ReachedElsewhere, Worker, WorkerDone, TickBegin,
       TickLock, TickEnd, Dequeue, FinalCheck, SetResult, NotifyCompleted, StartRun,
       TakeErr, SetErr, Stop, TickEnqueue, Rest, vars, workerKeeps, runKeeps,
       callerVars, GoroutineSteps
  <2> QED
    BY <2>1, <2>2, <2>3 DEF Stays, Begins
<1> QED
  BY <1>1, <1>2

-----------------------------------------------------------------------------
(* No state is lost *)

Kept == \A i \in 1 .. nStates :
           st[i].step = Final \/ Somewhere(i) \/ Finished(i) \/ Excused

\* No step loses a state.
LEMMA KeptStep ==
  ASSUME Inv, Aux, Orderly, Kept, [Next]_vars
  PROVE  Kept'
<1>1. nStates \in Nat
  BY BoundAssumption DEF Inv, TypeOK
<1> SUFFICES ASSUME NEW i \in 1 .. nStates'
             PROVE  (st[i].step = Final \/ Somewhere(i) \/ Finished(i) \/ Excused)'
  BY DEF Kept
<1>2. CASE i \notin 1 .. nStates
  BY <1>2, NewStates
<1>3. CASE i \in 1 .. nStates
  <2>1. st'[i].step = st[i].step /\ st'[1].step = st[1].step
    BY <1>1, <1>3, PlacesStay DEF SamePlace
  <2>2. Excused => Excused'
    BY <2>1, PlacesStay DEF Excused
  <2>3. Finished(i) => Finished(i)'
    BY <1>3, FinishedStays
  <2>4. Somewhere(i) => (st[i].step = Final \/ Somewhere(i) \/ Finished(i) \/ Excused)'
    <3>1. CASE GoroutineSteps
      <4>1. PICK r \in RunId : Run(r)
        BY <3>1 DEF GoroutineSteps
      <4>2. Somewhere(i) => Somewhere(i)' \/ Finished(i)' \/ delayedNil' \/ ctxDone
        BY <1>3, <4>1, GoroutineMoves
      <4> QED
        BY <4>2, PlacesStay DEF Excused
    <3>2. CASE ~GoroutineSteps
      <4>1. Somewhere(i) =>
               Somewhere(i)' \/ st[i].step = Final \/ st[1].step \in MayAbandon
        BY <1>3, <3>2, OtherMoves
      <4> QED
        BY <2>1, <4>1 DEF Excused
    <3> QED
      BY <3>1, <3>2
  <2> QED
    BY <1>3, <2>1, <2>2, <2>3, <2>4 DEF Kept
<1> QED
  BY <1>2, <1>3

\* A non-empty set whose members are all equal counts for one.
LEMMA ExactlyOne ==
  ASSUME NEW S, S # {}, \A x, y \in S : x = y
  PROVE  Cardinality(S) = 1
<1>1. PICK x : S = {x}
  OBVIOUS
<1> QED
  BY <1>1, FS_Singleton

\* A state that is somewhere is in one place.
LEMMA SomewhereOnce ==
  ASSUME Inv, NEW i \in 1 .. nStates, Somewhere(i)
  PROVE  Places(i) = 1
<1>1. /\ Cardinality(InQueue(i)) \in {0, 1} /\ Cardinality(InNext(i)) \in {0, 1}
      /\ Cardinality(InExec(i)) \in {0, 1}
      /\ Queued(i) => Cardinality(InQueue(i)) = 1
      /\ Coming(i) => Cardinality(InNext(i)) = 1
      /\ Running(i) => Cardinality(InExec(i)) = 1
  <2>1. PICK loc \in [StateId -> Place] : Places_ok(loc)
    BY DEF Inv, Located
  <2>2. \A j, k \in InQueue(i) : j = k
    BY <2>1 DEF Places_ok, Distinct, InQueue
  <2>3. \A q, r \in InNext(i) : q = r
    <3>1. \A r \in InNext(i) : loc[i] = <<"next", r>>
      BY <2>1 DEF Places_ok, InNext, Elems
    <3> QED
      BY <3>1
  <2>4. \A q, r \in InExec(i) : q = r
    <3>1. \A r \in InExec(i) : loc[i] = <<"exec", r>>
      BY <2>1 DEF Places_ok, InExec, InExecBy
    <3> QED
      BY <3>1
  <2>5. Queued(i) => InQueue(i) # {}
    BY DEF Queued, InQueue, Elems
  <2>6. Coming(i) => InNext(i) # {}
    BY DEF Coming, InNext
  <2>7. Running(i) => InExec(i) # {}
    BY DEF Running, InExec, InExecBy
  <2> QED
    BY <2>2, <2>3, <2>4, <2>5, <2>6, <2>7, AtMostOne, ExactlyOne
<1>2. Places(i) <= 1
  BY LocatedOnce DEF OnePlace
<1> DEFINE c1 == Cardinality(InQueue(i))
           c2 == Cardinality(InNext(i))
           c3 == Cardinality(InExec(i))
           c4 == Count(worker.state = i)
           c5 == Count(i \in delayed)
           c6 == Count(i \in prompted)
           c7 == Count(resumer = i)
<1>3. /\ c4 \in {0, 1} /\ c5 \in {0, 1} /\ c6 \in {0, 1} /\ c7 \in {0, 1}
      /\ worker.state = i => c4 = 1
      /\ i \in delayed => c5 = 1
      /\ i \in prompted => c6 = 1
      /\ resumer = i => c7 = 1
  BY DEF Count
<1>4. Places(i) = c1 + c2 + c3 + c4 + c5 + c6 + c7
  BY DEF Places
<1>5. c1 = 1 \/ c2 = 1 \/ c3 = 1 \/ c4 = 1 \/ c5 = 1 \/ c6 = 1 \/ c7 = 1
  BY <1>1, <1>3 DEF Somewhere
<1> HIDE DEF c1, c2, c3, c4, c5, c6, c7
<1>6. c1 \in {0, 1} /\ c2 \in {0, 1} /\ c3 \in {0, 1}
  BY <1>1 DEF c1, c2, c3
<1> QED
  BY <1>2, <1>3, <1>4, <1>5, <1>6

\* The worker and the goroutines are in order, always.
LEMMA OrderAlways == Spec => [](Inv /\ Aux /\ Orderly)
<1>1. Init => Orderly
  <2> SUFFICES ASSUME Init PROVE Orderly
    OBVIOUS
  <2>1. /\ worker.pc = "loop" /\ worker.state = 0
        /\ \A r \in RunId : run[r] = Idle
    BY DEF Init
  <2> QED
    BY <2>1 DEF Orderly, Idle, InExecBy
<1>2. Inv /\ Aux /\ Orderly /\ [Next]_vars => Orderly'
  BY OrderlyStep
<1> QED
  BY <1>1, <1>2, Invariant, PTL DEF Spec

\* Every state that was created is executed to its end or is still on its way
\* to be executed, in exactly one place: no hand-over between a goroutine, the
\* queue, the maps, Resume and the worker drops it, however they interleave.
THEOREM NothingLost == Spec => []NoStateLost
<1>1. Init => Kept
  BY DEF Init, Kept
<1>2. Inv /\ Aux /\ Orderly /\ Kept /\ [Next]_vars => Kept'
  BY KeptStep
<1>3. Inv /\ Kept => NoStateLost
  BY SomewhereOnce DEF Kept, NoStateLost, Excused
<1> QED
  BY <1>1, <1>2, <1>3, OrderAlways, PTL DEF Spec

-----------------------------------------------------------------------------
(* Errors are genuine *)

\* no error of the state's own, and none on its way to it
Clean(i) == ~st[i].err /\ \A q \in RunId : run[q].state = i => ~run[q].err

\* executed, and for good
Gone(i) == ~Somewhere(i) /\ \E r \in RunId : run[r].state = i

\* the error of a step that ended in an unhandled one, or of one that panicked
Blames(e, i) ==
    /\ Gone(i)
    /\ \/ e = StepErr(i) /\ Fails(st[i])
       \/ e = PanicErr(i) /\ Clean(i)

Genuine(e) ==
    \/ e \in {NoErr, Stopping, Canceled, Refused}
    \/ \E i \in 1 .. nStates : Blames(e, i)

\* a goroutine that executed the state is about to send its error
Pushing(i) == \E r \in RunId : run[r].pc = "push" /\ run[r].state = i

\* A state that may still be executed has no error; every error on its way to
\* the session, or there, is genuine; and what the session keeps is an error.
Accounted ==
    /\ \A i \in 1 .. nStates : Somewhere(i) => Clean(i)
    /\ \A e \in Elems(qErr) \cup {worker.err, sesErr} : Genuine(e)
    /\ sesErr # Stopping
    /\ \A i \in 1 .. nStates : Pushing(i) => Blames(StepErr(i), i)

\* A clean state stays clean, unless an execution of it ends here.
LEMMA CleanStays ==
  ASSUME Inv, Aux, Orderly, [Next]_vars, NEW i \in 1 .. nStates, Clean(i),
         Somewhere(i)' \/ ~Running(i) \/ \E r \in RunId : Settles(r) /\ Run(r)
  PROVE  Clean(i)'
<1>1. ASSUME NEW r \in RunId, Run(r), Executes(r) \/ Queues(r) \/ Drops(r)
      PROVE  Clean(i)'
  <2>1. \A q \in RunId : run'[q].state = run[q].state /\ run'[q].err = run[q].err
    BY <1>1 DEF Executes, Queues, Drops, OthersKeep
  <2>2. st'[i].err => st[i].err
    BY <1>1 DEF Executes, Queues, Drops
  <2> QED
    BY <2>1, <2>2 DEF Clean
<1>2. ASSUME NEW r \in RunId, Settles(r)
      PROVE  Clean(i)'
  <2>1. \A q \in RunId : run'[q].state = run[q].state /\ run'[q].err = run[q].err
    BY <1>2 DEF Settles, OthersKeep
  <2>2. i # run[r].state \/ ~run[r].err
    BY DEF Clean
  <2>3. st'[i].err = st[i].err
    BY <1>2, <2>2 DEF Settles
  <2> QED
    BY <2>1, <2>3 DEF Clean
<1>3. ASSUME NEW r \in RunId, Run(r), Departs(r),
             ~\E q \in RunId : Settles(q) /\ Run(q)
      PROVE  Clean(i)'
  <2>1. /\ \A q \in RunId : run'[q].state = run[q].state
        /\ \A q \in RunId : q # r => run'[q].err = run[q].err
        /\ InExecBy(r) /\ run'[r].pc = "post"
    BY <1>3 DEF Departs, OthersKeep, InExecBy
  <2>2. CASE i # run[r].state
    <3>1. st'[i] = st[i]
      BY <1>3, <2>2 DEF Departs
    <3> QED
      BY <2>1, <2>2, <3>1 DEF Clean
  <2>3. CASE i = run[r].state
    <3>1. Somewhere(i)'
      BY <1>3, <2>1, <2>3 DEF Running
    <3>2. ~Executes(r)
      BY <2>1 DEF Executes
    <3>3. ~run'[r].err /\ st'[i] = st[i]
      BY <1>3, <2>1, <2>3, <3>1, <3>2, GoroutineMoves
    <3> QED
      BY <2>1, <3>3 DEF Clean
  <2> QED
    BY <2>2, <2>3
<1>4. CASE ~GoroutineSteps
  <2>1. /\ st'[i].err = st[i].err
        /\ run' = run \/ Launches
    BY <1>4, OtherStep DEF Stays
  <2>2. ASSUME NEW q \in RunId, run'[q].state = i
        PROVE  ~run'[q].err
    <3>1. CASE run'[q] = run[q]
      BY <2>2, <3>1 DEF Clean
    <3>2. CASE run'[q] # run[q]
      BY <2>1, <3>2 DEF Launches, OthersKeep, Idle
    <3> QED
      BY <3>1, <3>2
  <2> QED
    BY <2>1, <2>2 DEF Clean
<1> QED
  BY <1>1, <1>2, <1>3, <1>4, RunShape DEF GoroutineSteps

\* What is gone stays gone, and so does the blame for an error.
LEMMA BlameStays ==
  ASSUME Inv, Aux, Orderly, [Next]_vars, NEW i \in 1 .. nStates
  PROVE  /\ Gone(i) => Gone(i)'
         /\ Gone(i) /\ Fails(st[i]) => Fails(st[i])'
         /\ \A e : Blames(e, i) => Blames(e, i)'
<1>1. Gone(i) => Gone(i)' /\ (Fails(st[i]) => Fails(st[i])')
  <2> SUFFICES ASSUME Gone(i)
               PROVE  Gone(i)' /\ (Fails(st[i]) => Fails(st[i])')
    OBVIOUS
  <2>1. PICK q \in RunId : run[q].state = i
    BY DEF Gone
  <2>2. ~Running(i) /\ ~Somewhere(i)
    BY DEF Gone, Somewhere
  <2>3. CASE GoroutineSteps
    <3>1. PICK r \in RunId : Run(r)
      BY <2>3 DEF GoroutineSteps
    <3>2. Executes(r) \/ Departs(r) \/ Settles(r) \/ Queues(r) \/ Drops(r)
      BY <3>1, RunShape
    <3>3. run'[q].state = i
      BY <2>1, <3>2 DEF Executes, Departs, Settles, Queues, Drops, OthersKeep
    <3>4. ~Somewhere(i)'
      BY <2>2, <3>1, GoroutineMoves
    <3>5. Executes(r) \/ Departs(r) => i # run[r].state
      BY <2>2 DEF Executes, Departs, Running, InExecBy
    <3>6. Fails(st[i]) => Fails(st[i])'
      BY <3>2, <3>5 DEF Executes, Departs, Settles, Queues, Drops, Fails
    <3> QED
      BY <3>3, <3>4, <3>6 DEF Gone
  <2>4. CASE ~GoroutineSteps
    <3>1. /\ Stays(i) /\ (run' = run \/ Launches)
      BY <2>4, OtherStep
    <3>2. i # 0
      OBVIOUS
    <3>3. run[q].pc # "none"
      BY <2>1, <3>2 DEF Orderly, Idle
    <3>4. run'[q] = run[q]
      BY <3>1, <3>3 DEF Launches, OthersKeep
    <3>5. ~Somewhere(i)'
      BY <2>2, <2>4, OtherMoves
    <3> QED
      BY <2>1, <3>1, <3>4, <3>5 DEF Gone, Stays, Fails
  <2> QED
    BY <2>3, <2>4
<1>2. Gone(i) /\ Clean(i) => Clean(i)'
  BY CleanStays DEF Gone, Somewhere
<1> QED
  BY <1>1, <1>2 DEF Blames

LEMMA GenuineStays ==
  ASSUME Inv, Aux, Orderly, [Next]_vars, NEW e, Genuine(e)
  PROVE  Genuine(e)'
<1>1. CASE e \in {NoErr, Stopping, Canceled, Refused}
  BY <1>1 DEF Genuine, NoErr, Stopping, Canceled, Refused
<1>2. CASE \E i \in 1 .. nStates : Blames(e, i)
  <2>1. PICK i \in 1 .. nStates : Blames(e, i)
    BY <1>2
  <2>2. Blames(e, i)'
    BY <2>1, BlameStays
  <2>3. i \in 1 .. nStates'
    <3>1. nStates \in Nat /\ nStates' \in Nat
      BY NextInv, BoundAssumption DEF Inv, TypeOK
    <3> QED
      BY <3>1, PlacesStay
  <2> QED
    BY <2>2, <2>3 DEF Genuine
<1> QED
  BY <1>1, <1>2 DEF Genuine

\* Errors go from the channel to the worker and from there to the session;
\* what the callers and the worker add are a cancellation, a refusal, a stop.
LEMMA ErrorMoves ==
  ASSUME Inv, [Next]_vars, ~GoroutineSteps
  PROVE  /\ Elems(qErr') \subseteq Elems(qErr) \cup {Stopping, Canceled, Refused}
         /\ worker'.err \in {NoErr, worker.err} \cup Elems(qErr)
         /\ sesErr' = sesErr \/ (sesErr' = worker.err /\ worker.err # Stopping)
<1> USE DEF engineVars, stateVars, chanVars, mapVars, endVars, runVars,
            stepVars, waitVars, resumeVars, callerVars, runKeeps, workerKeeps
<1>1. /\ worker \in WorkerRec /\ qErr \in Seq(ErrVal)
      /\ {Stopping, Canceled, Refused} \subseteq ErrVal
  BY Values DEF Inv, TypeOK
<1>2. \A e \in {Stopping, Canceled, Refused} :
         Elems(Append(qErr, e)) = Elems(qErr) \cup {e}
  BY <1>1, Elements
<1>3. ASSUME qErr # <<>>
      PROVE  Elems(qErr) = {Head(qErr)} \cup Elems(Tail(qErr))
  BY <1>1, <1>3, Elements
<1>4. CASE \E s \in Starts : Exec(s)
  <2>1. (qErr' = qErr \/ qErr' = Append(qErr, Refused)) /\ UNCHANGED <<worker, sesErr>>
    BY <1>4 DEF Exec
  <2> QED
    BY <1>2, <2>1
<1>5. CASE Cancel
  <2>1. qErr' = Append(qErr, Canceled) /\ UNCHANGED <<worker, sesErr>>
    BY <1>5 DEF Cancel
  <2> QED
    BY <1>2, <2>1
<1>6. CASE Stop
  <2>1. qErr' = Append(qErr, Stopping) /\ worker'.err = worker.err
        /\ sesErr' = sesErr
    BY <1>1, <1>6 DEF Stop, WorkerRec
  <2> QED
    BY <1>2, <2>1
<1>7. CASE TakeErr
  <2>1. /\ qErr # <<>> /\ qErr' = Tail(qErr) /\ worker'.err = Head(qErr)
        /\ sesErr' = sesErr
    BY <1>1, <1>7 DEF TakeErr, WorkerRec
  <2> QED
    BY <1>3, <2>1
<1>8. CASE SetErr
  <2>1. /\ qErr' = qErr /\ worker'.err = NoErr
        /\ sesErr' = IF worker.err = Stopping THEN sesErr ELSE worker.err
    BY <1>1, <1>8 DEF SetErr, WorkerRec
  <2> QED
    BY <2>1
<1>9. CASE UNCHANGED <<qErr, sesErr>> /\ worker'.err = worker.err
  BY <1>9
<1>10. CASE WorkerDone \/ TickBegin \/ TickLock \/ TickEnd \/ Dequeue \/ FinalCheck
            \/ SetResult \/ NotifyCompleted \/ StartRun
            \/ \E i \in delayed : TickEnqueue(i)
  <2>1. worker'.err = worker.err
    BY <1>1, <1>10 DEF WorkerDone, TickBegin, TickLock, TickEnd, Dequeue, FinalCheck,
       SetResult, NotifyCompleted, StartRun, TickEnqueue, WorkerRec
  <2>2. UNCHANGED <<qErr, sesErr>>
    BY <1>10 DEF WorkerDone, TickBegin, TickLock, TickEnd, Dequeue, FinalCheck,
       SetResult, NotifyCompleted, StartRun, TickEnqueue
  <2> QED
    BY <1>9, <2>1, <2>2
<1>11. CASE (\E u \in Users, i \in prompted, hasInput \in BOOLEAN :
               Resume(u, i, hasInput)) \/ ResumeEnqueue \/ ResumeAbandoned
  BY <1>9, <1>11 DEF Resume, ResumeEnqueue, ResumeAbandoned
<1>12. CASE Wait \/ WaitTick \/ WaitCheck \/ WaitTimeout \/ CallerGone \/ Shutdown
           \/ (\E i \in delayed : BecomeDue(i))
           \/ (\E s \in Shared, p \in Step : ReachedElsewhere(s, p))
  BY <1>9, <1>12 DEF Wait, WaitTick, WaitCheck, WaitTimeout,
     CallerGone, Shutdown, BecomeDue, ReachedElsewhere
<1>13. CASE Rest \/ UNCHANGED vars
  BY <1>9, <1>13 DEF Rest, vars
<1> QED
  BY <1>4, <1>5, <1>6, <1>7, <1>8, <1>10, <1>11, <1>12, <1>13
  DEF Next, Worker, Waiter, GoroutineSteps

\* A goroutine that pushes, or has just recovered, has an error to blame.
LEMMA ErrorSource ==
  ASSUME Inv, Aux, Orderly, Accounted, [Next]_vars,
         NEW r \in RunId, Run(r), Settles(r),
         NEW i \in 1 .. nStates, run[r].state = i
  PROVE  /\ run[r].pc = "panic" => Blames(PanicErr(i), i)'
         /\ run'[r].pc = "push" => Blames(StepErr(i), i)'
<1>1. run'[r].state = i
  BY DEF Settles
<1>2. ASSUME run[r].pc = "panic"
      PROVE  Blames(PanicErr(i), i)'
  <2>1. InExecBy(r) /\ Running(i)
    BY <1>2 DEF InExecBy, Running
  <2>2. Clean(i)
    BY <2>1 DEF Accounted, Somewhere
  <2>3. Clean(i)'
    BY <2>2, CleanStays
  <2>4. ~Executes(r) /\ ~Departs(r)
    BY <1>2 DEF Executes, Departs
  <2>5. ~Somewhere(i)'
    BY <2>1, <2>4, GoroutineMoves
  <2> QED
    BY <1>1, <2>3, <2>5 DEF Blames, Gone
<1>3. ASSUME run'[r].pc = "push"
      PROVE  Blames(StepErr(i), i)'
  <2>1. Fails(st[i])
    BY <1>3 DEF Settles
  <2>2. ~Clean(i)
    BY <2>1 DEF Fails, Clean
  <2>3. Gone(i)
    BY <2>2 DEF Accounted, Gone
  <2>4. Gone(i)' /\ Fails(st[i])'
    BY <2>1, <2>3, BlameStays
  <2> QED
    BY <2>4 DEF Blames
<1> QED
  BY <1>2, <1>3

\* Every step keeps the account.
LEMMA AccountedStep ==
  ASSUME Inv, Aux, Orderly, Accounted, [Next]_vars
  PROVE  Accounted'
<1>1. \A e : Genuine(e) => Genuine(e)'
  BY GenuineStays
<1>2. \A i \in 1 .. nStates' : Somewhere(i)' => Clean(i)'
  <2> SUFFICES ASSUME NEW i \in 1 .. nStates', Somewhere(i)' PROVE Clean(i)'
    OBVIOUS
  <2>1. CASE i \in 1 .. nStates
    <3>1. Somewhere(i)
      BY <2>1, GoroutineMoves, OtherMoves DEF GoroutineSteps
    <3> QED
      BY <2>1, <3>1, CleanStays DEF Accounted
  <2>2. CASE i \notin 1 .. nStates
    <3>1. ~st'[i].err /\ \A q \in RunId : run'[q].state # i
      BY <2>2, NewStates, Zenon
    <3>2. \A q \in RunId : run'[q].state # i
      BY <3>1
    <3> QED
      BY <3>1, <3>2 DEF Clean
  <2> QED
    BY <2>1, <2>2
<1>3. \A e \in {NoErr, Stopping, Canceled, Refused} : Genuine(e)'
  BY DEF Genuine, NoErr, Stopping, Canceled, Refused
<1>4. \A e \in Elems(qErr) \cup {worker.err, sesErr} : Genuine(e)'
  BY <1>1 DEF Accounted
<1>5. \A i \in 1 .. nStates : Pushing(i) => Blames(StepErr(i), i)'
  BY BlameStays DEF Accounted
<1>6. ASSUME NEW r \in RunId, Run(r), GoroutineSteps
      PROVE  Accounted'
  <2>1. worker' = worker /\ sesErr' = sesErr
    BY <1>6, RunKeepsRest DEF endVars
  <2>2. Executes(r) \/ Departs(r) \/ Settles(r) \/ Queues(r) \/ Drops(r)
    BY <1>6, RunShape
  <2>3. OthersKeep(r)
    BY <2>2 DEF Executes, Departs, Settles, Queues, Drops
  <2>4. /\ run'[r].pc = "push" => Settles(r)
        /\ qErr' # qErr => Settles(r)
        /\ run'[r].state = run[r].state
    BY <2>2 DEF Executes, Departs, Settles, Queues, Drops
  <2>5. ASSUME NEW i \in 1 .. nStates', Pushing(i)'
        PROVE  Blames(StepErr(i), i)'
    <3>1. PICK q \in RunId : run'[q].pc = "push" /\ run'[q].state = i
      BY <2>5 DEF Pushing
    <3>2. CASE q = r
      <4>1. Settles(r) /\ run[r].state = i
        BY <2>4, <3>1, <3>2
      <4>2. i \in 1 .. nStates
        BY <4>1, RunState DEF Settles
      <4> QED
        BY <1>6, <3>1, <3>2, <4>1, <4>2, ErrorSource
    <3>3. CASE q # r
      <4>1. run[q].pc = "push" /\ run[q].state = i
        BY <2>3, <3>1, <3>3 DEF OthersKeep
      <4>2. i \in 1 .. nStates
        BY <4>1, RunState
      <4> QED
        BY <1>5, <4>1, <4>2 DEF Pushing
    <3> QED
      BY <3>2, <3>3
  <2>6. \A e \in Elems(qErr') : Genuine(e)'
    <3>1. CASE qErr' = qErr
      BY <1>4, <3>1
    <3>2. CASE Settles(r)
      <4>1. PICK i \in 1 .. nStates : i = run[r].state /\ i \in StateId
        BY <3>2, RunState DEF Settles
      <4>2. i \in 1 .. nStates'
        BY <3>2 DEF Settles
      <4>3. PanicErr(i) \in ErrVal /\ StepErr(i) \in ErrVal /\ qErr \in Seq(ErrVal)
        BY <4>1, Values DEF Inv, TypeOK
      <4>4. CASE run[r].pc = "panic" /\ qErr' = Append(qErr, PanicErr(i))
        <5>1. Blames(PanicErr(i), i)'
          BY <1>6, <3>2, <4>1, <4>4, ErrorSource
        <5>2. Genuine(PanicErr(i))'
          BY <4>2, <5>1 DEF Genuine
        <5>3. Elems(qErr') = Elems(qErr) \cup {PanicErr(i)}
          BY <4>3, <4>4, Elements
        <5> QED
          BY <1>4, <5>2, <5>3
      <4>5. CASE run[r].pc = "push" /\ qErr' = Append(qErr, StepErr(i))
        <5>1. Blames(StepErr(i), i)'
          BY <1>5, <4>1, <4>5 DEF Pushing
        <5>2. Genuine(StepErr(i))'
          BY <4>2, <5>1 DEF Genuine
        <5>3. Elems(qErr') = Elems(qErr) \cup {StepErr(i)}
          BY <4>3, <4>5, Elements
        <5> QED
          BY <1>4, <5>2, <5>3
      <4> QED
        BY <3>1, <3>2, <4>1, <4>4, <4>5 DEF Settles
    <3> QED
      BY <2>4, <3>1, <3>2
  <2>7. \A e \in Elems(qErr') \cup {worker'.err, sesErr'} : Genuine(e)'
    BY <1>4, <2>1, <2>6
  <2>8. sesErr' # Stopping
    BY <2>1 DEF Accounted
  <2> QED
    BY <1>2, <2>5, <2>7, <2>8 DEF Accounted
<1>7. CASE ~GoroutineSteps
  <2>1. /\ Elems(qErr') \subseteq Elems(qErr) \cup {Stopping, Canceled, Refused}
        /\ worker'.err \in {NoErr, worker.err} \cup Elems(qErr)
        /\ sesErr' = sesErr \/ (sesErr' = worker.err /\ worker.err # Stopping)
    BY <1>7, ErrorMoves
  <2>2. \A e \in Elems(qErr') \cup {worker'.err, sesErr'} : Genuine(e)'
    BY <1>3, <1>4, <2>1
  <2>3. sesErr' # Stopping
    BY <2>1 DEF Accounted
  <2>4. ASSUME NEW i \in 1 .. nStates', Pushing(i)'
        PROVE  Blames(StepErr(i), i)'
    <3>1. PICK q \in RunId : run'[q].pc = "push" /\ run'[q].state = i
      BY <2>4 DEF Pushing
    <3>2. run' = run \/ Launches
      BY <1>7, OtherStep
    <3>3. run'[q] = run[q]
      BY <3>1, <3>2 DEF Launches, OthersKeep, Idle
    <3>4. i \in 1 .. nStates
      BY <3>1, <3>3, RunState
    <3> QED
      BY <1>5, <3>1, <3>3, <3>4 DEF Pushing
  <2> QED
    BY <1>2, <2>2, <2>3, <2>4 DEF Accounted
<1> QED
  BY <1>6, <1>7 DEF GoroutineSteps

\* A session fails only for an unhandled error or a panic of a step that it
\* executed, for its caller's Cancel, or because Exec refused to start it.
THEOREM FailsForAReason == Spec => []FailureIsGenuine
<1>1. Init => Accounted
  <2> SUFFICES ASSUME Init PROVE Accounted
    OBVIOUS
  <2>1. Elems(qErr) = {} /\ worker.err = NoErr /\ sesErr = NoErr /\ nStates = 0
    BY DEF Init, Elems
  <2>2. Genuine(NoErr) /\ NoErr # Stopping
    BY DEF Genuine, NoErr, Stopping
  <2> QED
    BY <2>1, <2>2 DEF Accounted
<1>2. Inv /\ Aux /\ Orderly /\ Accounted /\ [Next]_vars => Accounted'
  BY AccountedStep
<1>3. Accounted => FailureIsGenuine
  BY DEF Accounted, Genuine, Blames, Gone, Clean, Fails, FailureIsGenuine
<1> QED
  BY <1>1, <1>2, <1>3, OrderAlways, PTL DEF Spec

-----------------------------------------------------------------------------
(* Join gateways *)

IsJoin(s) == s \in Step /\ Kind[s] = "join"

\* the goroutine executes a join gateway and leaves its path there
Collects(r) ==
    /\ run[r].pc = "call" /\ run'[r].state = run[r].state
    /\ OthersKeep(r)
    /\ \E j \in Step : \E p \in Parents(j) :
          /\ IsJoin(j)
          /\ st[run[r].state].step = j /\ st[run[r].state].parent = p
          /\ joined' = [joined EXCEPT ![j] = @ \cup {p}]
          /\ run'[r].resp \in {"vars", "partial"}
          /\ run'[r].resp = "vars" => joined[j] \cup {p} = Parents(j)

\* Only the execution of a gateway leaves anything there, and only then does
\* the goroutine get its response.
LEMMA Responds ==
  ASSUME Inv, Orderly, NEW r \in RunId, Run(r)
  PROVE  \/ Collects(r)
         \/ /\ joined' = joined
            /\ run'[r].resp = run[r].resp \/ ~IsJoin(st[run[r].state].step)
<1> DEFINE i == run[r].state
<1>0. run \in [RunId -> RunRec]
  BY DEF Inv, TypeOK
<1>1. CASE \E a \in Answers(i) : CallStep(r, a)
  <2>1. PICK a \in Answers(i) : CallStep(r, a)
    BY <1>1
  <2>2. /\ run[r].pc = "call" /\ i \in StateId /\ st[i].step \in Step
        /\ st[i] \in StateRec
    BY <2>1, RunState DEF CallStep
  <2>3. /\ run'[r].resp = a.kind /\ run'[r].state = i /\ OthersKeep(r)
    BY <1>0, <2>1 DEF CallStep, RunRec, OthersKeep
  <2>4. CASE ~IsJoin(st[i].step)
    BY <2>1, <2>2, <2>4 DEF CallStep, IsJoin
  <2>5. CASE IsJoin(st[i].step)
    <3>1. PICK j \in Step : j = st[i].step /\ Kind[j] = "join"
      BY <2>5 DEF IsJoin
    <3>2. /\ ~UnknownParent(i)
          /\ a = Resp(IF JoinReady(i) THEN "vars" ELSE "partial", <<>>)
      <4>1. Answers(i) = IF UnknownParent(i) THEN {} ELSE
              {Resp(IF JoinReady(i) THEN "vars" ELSE "partial", <<>>)}
        BY <3>1 DEF Answers
      <4> QED
        BY <4>1
    <3>3. PICK p \in Parents(j) : p = st[i].parent
      BY <3>1, <3>2 DEF UnknownParent
    <3>4. /\ a.kind \in {"vars", "partial"}
          /\ a.kind = "vars" => joined[j] \cup {p} = Parents(j)
      BY <3>1, <3>2, <3>3 DEF Resp, JoinReady
    <3>5. joined' = [joined EXCEPT ![j] = @ \cup {p}]
      BY <2>1, <3>1, <3>3 DEF CallStep
    <3> QED
      BY <2>2, <2>3, <3>1, <3>3, <3>4, <3>5 DEF Collects, IsJoin
  <2> QED
    BY <2>4, <2>5
<1>2. CASE CallLoop(r)
  <2>1. /\ run[r].pc = "call" /\ LoopCurr(st[i]) # 0
        /\ st[LoopCurr(st[i])].step = st[i].step /\ joined' = joined
    BY <1>2 DEF CallLoop, stepVars
  <2>2. i \in StateId
    BY <2>1, RunState
  <2>3. IsIterator(LoopCurr(st[i]))
    BY <2>1, <2>2, CurrIterator
  <2> QED
    BY <2>1, <2>3 DEF IsIterator, IsJoin
<1>3. CASE ~CallLoop(r) /\ ~\E a \in Answers(i) : CallStep(r, a)
  <2>1. joined' = joined
    BY <1>3 DEF Run, CallStartFails, CallFails, CallPanics,
       Recover, ResolveVars, ResolveSteps, ResolveIterator, ResolveErrHandler,
       ResolveBreak, ResolveContinue, ResolvePartial, ResolveTermination,
       ResolveDelay, ResolvePrompt, ReadStatus, CheckError, PushError, Notify,
       Enqueue, EnqueueAbandoned, stepVars
  <2>2. run'[r].resp = run[r].resp
    <3>1. CASE CallPanics(r)
      BY <1>0, <3>1 DEF CallPanics, RunRec
    <3>2. CASE CallStartFails(r) \/ CallFails(r)
      BY <3>2, CallErrorShape DEF Departs
    <3>3. CASE ResolveVars(r) \/ ResolveSteps(r) \/ ResolvePartial(r)
         \/ ResolveErrHandler(r) \/ ResolveBreak(r) \/ ResolveContinue(r)
         \/ ResolveIterator(r)
      BY <3>3, ResolveShape DEF Departs
    <3>4. CASE ResolveTermination(r) \/ ResolveDelay(r) \/ ResolvePrompt(r)
      <4>1. Departs(r) \/ Executes(r)
        BY <3>4, SuspendShape
      <4>2. run[r].pc = "resolve"
        BY <3>4 DEF ResolveTermination, ResolveDelay, ResolvePrompt, AtResolve
      <4>3. CASE Departs(r)
        BY <4>3 DEF Departs
      <4>4. CASE Executes(r)
        BY <4>2, <4>4 DEF Executes
      <4> QED
        BY <4>1, <4>3, <4>4
    <3>5. CASE Recover(r) \/ ReadStatus(r) \/ CheckError(r) \/ PushError(r) \/ Notify(r)
      BY <3>5, SettleShape DEF Settles
    <3>6. CASE Enqueue(r) \/ EnqueueAbandoned(r)
      BY <3>6, EnqueueShape DEF Queues, Drops
    <3> QED
      BY <1>3, <3>1, <3>2, <3>3, <3>4, <3>5, <3>6 DEF Run
  <2> QED
    BY <2>1, <2>2
<1> QED
  BY <1>1, <1>2, <1>3

\* A goroutine keeps its state, and the state its place in the graph.
LEMMA RunsStay ==
  ASSUME Inv, Aux, Orderly, [Next]_vars, NEW q \in RunId, run[q].pc # "none"
  PROVE  /\ run'[q].pc # "none" /\ run'[q].state = run[q].state
         /\ run[q].state \in 1 .. nStates
         /\ SamePlace(run[q].state)
         /\ run'[q].resp = run[q].resp \/ run[q].pc = "call"
<1>1. run[q].state \in 1 .. nStates
  BY RunState
<1>2. SamePlace(run[q].state)
  BY <1>1, PlacesStay
<1>3. CASE GoroutineSteps
  <2>1. PICK r \in RunId : Run(r)
    BY <1>3 DEF GoroutineSteps
  <2>2. Executes(r) \/ Departs(r) \/ Settles(r) \/ Queues(r) \/ Drops(r)
    BY <2>1, RunShape
  <2>3. CASE q # r
    BY <1>1, <1>2, <2>2, <2>3 DEF Executes, Departs, Settles, Queues, Drops,
       OthersKeep
  <2>4. CASE q = r
    BY <1>1, <1>2, <2>2, <2>4 DEF Executes, Departs, Settles, Queues, Drops
  <2> QED
    BY <1>1, <1>2, <2>3, <2>4
<1>4. CASE ~GoroutineSteps
  <2>1. run' = run \/ Launches
    BY <1>4, OtherStep
  <2>2. run'[q] = run[q]
    BY <2>1 DEF Launches, OthersKeep
  <2> QED
    BY <1>1, <1>2, <2>2
<1> QED
  BY <1>3, <1>4

\* a state at the step was executed to its end
Done(p) == \E k \in 1 .. nStates : st[k].step = p /\ Finished(k)

\* the goroutine executed gateway s for the path from p
Brought(r, s, p) ==
    /\ run[r].resp \in {"vars", "partial"}
    /\ st[run[r].state].step = s /\ st[run[r].state].parent = p

\* a path into a gateway is executed once, by one goroutine
Once(r, i) ==
    run[r].state = i /\ IsJoin(st[i].step) =>
        /\ run[r].resp \in {"none", "vars", "partial"}
        /\ Somewhere(i) => InExecBy(r)
        /\ \A q \in RunId : run[q].state = i => q = r

\* the goroutine found all paths at gateway j
Passes(r, j) ==
    run[r].resp = "vars" /\ IsJoin(j) /\ st[run[r].state].step = j

\* gateway j was reached twice from the same step
Twice(j) == \E p \in Parents(j) : \E i, k \in Reached(j, p) : i # k

\* What a gateway has collected was brought there by goroutines that executed
\* it, each for a path of its own, after the steps the paths come from.
Joining ==
    /\ \A r \in RunId, i \in 1 .. nStates : Once(r, i)
    /\ \A i \in 1 .. nStates, p \in Step : st[i].parent = p => Done(p)
    /\ \A s \in Step : joined[s] \subseteq Parents(s)
    /\ \A s \in Step \ Shared, p \in Step :
          p \in joined[s] => \E r \in RunId : Brought(r, s, p)
    /\ \A r \in RunId, j \in Step : Passes(r, j) => joined[j] = Parents(j)
    /\ \A q, r \in RunId, j \in Step \ Shared :
          Passes(q, j) /\ Passes(r, j) /\ q # r => Twice(j)

\* What has been reached, executed or brought stays so.
LEMMA JoinFactsStay ==
  ASSUME Inv, Aux, Orderly, [Next]_vars
  PROVE  /\ \A p : Done(p) => Done(p)'
         /\ \A r \in RunId : \A s, p : Brought(r, s, p) => Brought(r, s, p)'
         /\ \A j : Twice(j) => Twice(j)'
         /\ 1 .. nStates \subseteq 1 .. nStates'
<1>1. /\ \A i \in 1 .. nStates : SamePlace(i)
      /\ 1 .. nStates \subseteq 1 .. nStates'
  <2>1. Inv' /\ nStates <= nStates' /\ \A i \in 1 .. nStates : SamePlace(i)
    BY NextInv, PlacesStay
  <2>2. nStates \in Nat /\ nStates' \in Nat
    BY <2>1, BoundAssumption DEF Inv, TypeOK
  <2> QED
    BY <2>1, <2>2
<1>2. ASSUME NEW p, Done(p) PROVE Done(p)'
  <2>1. PICK k \in 1 .. nStates : st[k].step = p /\ Finished(k)
    BY <1>2 DEF Done
  <2>2. Finished(k)'
    BY <2>1, FinishedStays
  <2> QED
    BY <1>1, <2>1, <2>2 DEF Done, SamePlace
<1>3. ASSUME NEW r \in RunId, NEW s, NEW p, Brought(r, s, p)
      PROVE  Brought(r, s, p)'
  <2>1. run[r].pc \notin {"none", "call"}
    BY <1>3 DEF Brought, Orderly, Idle
  <2>2. /\ run'[r].state = run[r].state /\ SamePlace(run[r].state)
        /\ run'[r].resp = run[r].resp
    BY <2>1, RunsStay
  <2> QED
    BY <1>3, <2>2 DEF Brought, SamePlace
<1>4. ASSUME NEW j, Twice(j) PROVE Twice(j)'
  <2>1. PICK p \in Parents(j) : \E i, k \in Reached(j, p) : i # k
    BY <1>4 DEF Twice
  <2>2. Reached(j, p) \subseteq Reached(j, p)'
    BY <1>1 DEF Reached, SamePlace
  <2>3. Parents(j)' = Parents(j)
    BY DEF Parents
  <2> QED
    BY <2>1, <2>2 DEF Twice, Parents
<1> QED
  BY <1>1, <1>2, <1>3, <1>4

\* A goroutine that finds all paths has just executed the gateway.
LEMMA NewPass ==
  ASSUME Inv, Aux, Orderly, [Next]_vars, NEW r \in RunId, NEW j \in Step,
         Passes(r, j)'
  PROVE  /\ run[r].pc # "none"
         /\ Passes(r, j) \/ (Collects(r) /\ Run(r))
<1>1. run[r].pc # "none"
  <2> SUFFICES ASSUME run[r].pc = "none" PROVE FALSE
    OBVIOUS
  <2>1. run[r].resp = "none"
    BY DEF Orderly, Idle
  <2>2. run'[r].resp = "none"
    <3>1. CASE GoroutineSteps
      <4>1. PICK q \in RunId : run[q].pc \notin {"none", "done"} /\ Run(q)
        BY <3>1 DEF GoroutineSteps
      <4>2. run'[r] = run[r]
        BY <4>1, RunShape DEF Executes, Departs, Settles, Queues, Drops,
           OthersKeep
      <4> QED
        BY <2>1, <4>2
    <3>2. CASE ~GoroutineSteps
      <4>1. run' = run \/ Launches
        BY <3>2, OtherStep
      <4> QED
        BY <2>1, <4>1 DEF Launches, OthersKeep, Idle
    <3> QED
      BY <3>1, <3>2
  <2> QED
    BY <2>2 DEF Passes
<1>2. /\ run'[r].state = run[r].state /\ SamePlace(run[r].state)
  BY <1>1, RunsStay
<1>3. st[run[r].state].step = j /\ IsJoin(j) /\ run'[r].resp = "vars"
  BY <1>2 DEF Passes, SamePlace, IsJoin
<1>4. ASSUME run'[r].resp = run[r].resp
      PROVE  Passes(r, j)
  BY <1>3, <1>4 DEF Passes
<1>5. ASSUME run'[r].resp # run[r].resp
      PROVE  Collects(r) /\ Run(r)
  <2>1. run'[r] # run[r]
    BY <1>5
  <2>2. GoroutineSteps
    BY <1>1, <2>1, OtherStep DEF Launches, OthersKeep
  <2>3. PICK q \in RunId : Run(q)
    BY <2>2 DEF GoroutineSteps
  <2>4. q = r
    BY <2>1, <2>3, RunShape DEF Executes, Departs, Settles, Queues, Drops,
       OthersKeep
  <2>5. IsJoin(st[run[r].state].step)
    BY <1>3
  <2> QED
    BY <1>5, <2>3, <2>4, <2>5, Responds
<1> QED
  BY <1>1, <1>4, <1>5

\* A gateway forgets no path, and a path it has newly collected was brought by
\* a goroutine of this session, unless other sessions reach it.
LEMMA JoinedMoves ==
  ASSUME Inv, Aux, Orderly, [Next]_vars, NEW s \in Step
  PROVE  /\ joined[s] \subseteq joined'[s]
         /\ \A p \in joined'[s] \ joined[s] :
               /\ p \in Parents(s)
               /\ s \in Shared \/ \E r \in RunId : Brought(r, s, p)'
<1>1. joined \in [Step -> SUBSET (Step \cup {None, Final})]
  BY DEF Inv, TypeOK
<1>2. CASE joined' = joined
  BY <1>2
<1>3. ASSUME NEW r \in RunId, Run(r), Collects(r)
      PROVE  /\ joined[s] \subseteq joined'[s]
             /\ \A p \in joined'[s] \ joined[s] :
                   p \in Parents(s) /\ Brought(r, s, p)'
  <2>1. PICK j \in Step, p \in Step :
          /\ p \in Parents(j)
          /\ st[run[r].state].step = j /\ st[run[r].state].parent = p
          /\ joined' = [joined EXCEPT ![j] = @ \cup {p}]
          /\ run'[r].resp \in {"vars", "partial"}
    BY <1>3 DEF Collects, Parents
  <2>2. /\ run'[r].state = run[r].state /\ SamePlace(run[r].state)
    BY <1>3, RunsStay DEF Collects
  <2>3. Brought(r, j, p)'
    BY <2>1, <2>2 DEF Brought, SamePlace
  <2>4. CASE s = j
    BY <1>1, <2>1, <2>3, <2>4
  <2>5. CASE s # j
    BY <1>1, <2>1, <2>5
  <2> QED
    BY <2>4, <2>5
<1>4. CASE \E t \in Shared, p \in Step : ReachedElsewhere(t, p)
  <2>1. PICK t \in Shared, p \in Step : ReachedElsewhere(t, p)
    BY <1>4
  <2>2. /\ t \in Step /\ p \in Parents(t)
        /\ joined' = [joined EXCEPT ![t] = @ \cup {p}]
    BY <2>1, GraphAssumption DEF ReachedElsewhere
  <2> QED
    BY <1>1, <2>2
<1>5. CASE GoroutineSteps
  <2>1. PICK r \in RunId : Run(r)
    BY <1>5 DEF GoroutineSteps
  <2>2. Collects(r) \/ joined' = joined
    BY <2>1, Responds
  <2> QED
    BY <1>2, <1>3, <2>1, <2>2
<1>6. CASE ~GoroutineSteps /\ ~\E t \in Shared, p \in Step : ReachedElsewhere(t, p)
  <2>1. joined' = joined
    BY <1>6 DEF Next, Exec, Resume, ResumeEnqueue, ResumeAbandoned,
       Wait, Waiter, WaitTick, WaitCheck, WaitTimeout, Cancel, CallerGone,
       Shutdown, BecomeDue, Worker, WorkerDone, TickBegin,
       TickLock, TickEnd, Dequeue, FinalCheck, SetResult, NotifyCompleted, StartRun,
       TakeErr, SetErr, Stop, TickEnqueue, Rest, vars, workerKeeps, runKeeps,
       engineVars, stepVars, GoroutineSteps
  <2> QED
    BY <1>2, <2>1
<1> QED
  BY <1>4, <1>5, <1>6

\* A path into a gateway is not executed again.
LEMMA OnceStep ==
  ASSUME Inv, Aux, Orderly, Joining, [Next]_vars,
         NEW r \in RunId, NEW i \in 1 .. nStates',
         run'[r].state = i, IsJoin(st'[i].step)
  PROVE  /\ run'[r].resp \in {"none", "vars", "partial"}
         /\ Somewhere(i)' => InExecBy(r)'
         /\ \A q \in RunId : run'[q].state = i => q = r
<1>1. i \in 1 .. nStates
  BY NewStates
<1>2. IsJoin(st[i].step) /\ i # 0
  BY <1>1, PlacesStay DEF SamePlace, IsJoin
<1>3. \A q \in RunId : run[q].pc # "none" => run'[q].state = run[q].state
  BY RunsStay
<1>4. ASSUME NEW q \in RunId, run[q].pc = "none", run'[q].state = i
      PROVE  /\ Launches /\ OthersKeep(q) /\ worker.state = i
             /\ run'[q] = [Idle EXCEPT !.pc = "call", !.state = i]
  <2>1. run'[q] # run[q]
    BY <1>2, <1>4 DEF Orderly, Idle
  <2>2. ~GoroutineSteps
    BY <1>4, <2>1, RunShape DEF GoroutineSteps, Executes, Departs, Settles,
       Queues, Drops, OthersKeep
  <2>3. Launches
    BY <2>1, <2>2, OtherStep
  <2>4. /\ OthersKeep(q)
        /\ run'[q] = [Idle EXCEPT !.pc = "call", !.state = worker.state]
    BY <2>1, <2>3 DEF Launches, OthersKeep
  <2> QED
    BY <1>4, <2>3, <2>4 DEF Idle
<1>5. ASSUME NEW q \in RunId, run[q].pc # "none", run[q].state = i
      PROVE  worker.state # i
  <2>1. Somewhere(i) => InExecBy(q)
    BY <1>1, <1>2, <1>5 DEF Joining, Once
  <2> QED
    BY <1>5, <2>1, ExecutedThere DEF Somewhere
<1>6. CASE run[r].pc = "none"
  <2>1. /\ OthersKeep(r) /\ worker.state = i
        /\ run'[r] = [Idle EXCEPT !.pc = "call", !.state = i]
    BY <1>4, <1>6
  <2>2. run'[r].resp = "none" /\ InExecBy(r)'
    BY <2>1 DEF Idle, InExecBy
  <2>3. ASSUME NEW q \in RunId, run'[q].state = i, q # r
        PROVE  FALSE
    <3>1. run[q].state = i
      BY <2>1, <2>3 DEF OthersKeep
    <3>2. run[q].pc # "none"
      BY <1>2, <3>1 DEF Orderly, Idle
    <3> QED
      BY <1>5, <2>1, <3>1, <3>2
  <2> QED
    BY <2>2, <2>3
<1>7. CASE run[r].pc # "none"
  <2>1. run[r].state = i
    BY <1>3, <1>7
  <2>2. /\ run[r].resp \in {"none", "vars", "partial"}
        /\ Somewhere(i) => InExecBy(r)
        /\ \A q \in RunId : run[q].state = i => q = r
    BY <1>1, <1>2, <2>1 DEF Joining, Once
  <2>3. CASE GoroutineSteps /\ run'[r] # run[r]
    <3>1. PICK q \in RunId : Run(q)
      BY <2>3 DEF GoroutineSteps
    <3>2. q = r
      BY <2>3, <3>1, RunShape DEF Executes, Departs, Settles, Queues, Drops,
         OthersKeep
    <3>3. run'[r].resp \in {"none", "vars", "partial"}
      BY <1>2, <2>1, <2>2, <3>1, <3>2, Responds DEF Collects
    <3>4. Somewhere(i)' => InExecBy(r)'
      <4> SUFFICES ASSUME Somewhere(i)' PROVE InExecBy(r)'
        OBVIOUS
      <4>1. Somewhere(i)
        BY <1>1, <3>1, GoroutineMoves
      <4>2. Executes(r)
        BY <1>1, <2>1, <2>2, <3>1, <3>2, <4>1, GoroutineMoves
      <4> QED
        BY <4>2 DEF Executes, InExecBy
    <3> QED
      BY <1>3, <1>4, <1>5, <1>7, <2>1, <2>2, <3>3, <3>4
  <2>4. CASE run'[r] = run[r]
    <3>1. Somewhere(i)' => Somewhere(i)
      BY <1>1, GoroutineMoves, OtherMoves DEF GoroutineSteps
    <3> QED
      BY <1>3, <1>4, <1>5, <1>7, <2>1, <2>2, <2>4, <3>1 DEF InExecBy
  <2>5. CASE ~GoroutineSteps
    <3>1. run'[r] = run[r]
      BY <1>7, <2>5, OtherStep DEF Launches, OthersKeep
    <3> QED
      BY <2>4, <3>1
  <2> QED
    BY <2>3, <2>4, <2>5
<1> QED
  BY <1>6, <1>7

\* A state is made by a goroutine that has executed the step it comes from.
LEMMA ParentStep ==
  ASSUME Inv, Aux, Orderly, Joining, [Next]_vars,
         NEW i \in 1 .. nStates', NEW p \in Step, st'[i].parent = p
  PROVE  Done(p)'
<1>1. CASE i \in 1 .. nStates
  <2>1. st[i].parent = p
    BY <1>1, PlacesStay DEF SamePlace
  <2>2. Done(p)
    BY <1>1, <2>1 DEF Joining
  <2> QED
    BY <2>2, JoinFactsStay
<1>2. CASE i \notin 1 .. nStates
  <2>1. p # None
    BY GraphAssumption
  <2>2. CASE Begins /\ ~GoroutineSteps
    <3>1. i = 1
      BY <2>2 DEF Begins
    <3> QED
      BY <2>1, <2>2, <3>1 DEF Begins
  <2>3. CASE GoroutineSteps
    <3>1. PICK r \in RunId : Run(r)
      BY <2>3 DEF GoroutineSteps
    <3>2. nStates' # nStates /\ i \in nStates + 1 .. nStates'
      <4>1. nStates \in Nat /\ nStates' \in Nat
        BY NextInv, BoundAssumption DEF Inv, TypeOK
      <4> QED
        BY <1>2, <4>1
    <3>3. Departs(r)
      BY <3>1, <3>2, RunShape DEF Executes, Settles, Queues, Drops
    <3>4. PICK k : k = run[r].state /\ k \in 1 .. nStates
      BY <3>3, RunState DEF Departs
    <3>5. st'[k].step = p
      <4>1. st'[i].parent \in {None, st[k].step}
        BY <3>2, <3>3, <3>4 DEF Departs, Follows
      <4>2. SamePlace(k)
        BY <3>3, <3>4 DEF Departs
      <4> QED
        BY <2>1, <4>1, <4>2 DEF SamePlace
    <3>6. Finished(k)'
      BY <3>2, <3>3, <3>4 DEF Departs, Finished
    <3>7. k \in 1 .. nStates'
      BY <3>4, JoinFactsStay
    <3> QED
      BY <3>5, <3>6, <3>7 DEF Done
  <2> QED
    BY <1>2, <2>2, <2>3, NewStates
<1> QED
  BY <1>1, <1>2

\* Every step keeps the gateways' account of their paths.
LEMMA JoiningStep ==
  ASSUME Inv, Aux, Orderly, Joining, [Next]_vars
  PROVE  Joining'
<1>1. \A r \in RunId, i \in 1 .. nStates' : Once(r, i)'
  BY OnceStep DEF Once
<1>2. \A i \in 1 .. nStates', p \in Step : st'[i].parent = p => Done(p)'
  BY ParentStep
<1>3. \A s \in Step : joined'[s] \subseteq Parents(s)
  BY JoinedMoves DEF Joining
<1>4. ASSUME NEW s \in Step \ Shared, NEW p \in Step, p \in joined'[s]
      PROVE  \E r \in RunId : Brought(r, s, p)'
  <2>1. CASE p \in joined[s]
    <3>1. PICK r \in RunId : Brought(r, s, p)
      BY <2>1 DEF Joining
    <3> QED
      BY <3>1, JoinFactsStay
  <2>2. CASE p \notin joined[s]
    BY <1>4, <2>2, JoinedMoves
  <2> QED
    BY <2>1, <2>2
<1>5. ASSUME NEW r \in RunId, NEW j \in Step, Passes(r, j)'
      PROVE  joined'[j] = Parents(j)
  <2>1. joined[j] \subseteq joined'[j] /\ joined'[j] \subseteq Parents(j)
    BY <1>3, JoinedMoves
  <2>2. CASE Passes(r, j)
    BY <2>1, <2>2 DEF Joining
  <2>3. CASE Collects(r)
    <3>1. PICK k \in Step, p \in Step :
            /\ st[run[r].state].step = k
            /\ joined' = [joined EXCEPT ![k] = @ \cup {p}]
            /\ run'[r].resp = "vars" => joined[k] \cup {p} = Parents(k)
      BY <2>3 DEF Collects, Parents
    <3>2. k = j /\ run'[r].resp = "vars"
      <4>1. run'[r].state = run[r].state /\ SamePlace(run[r].state)
        BY <1>5, NewPass, RunsStay
      <4> QED
        BY <1>5, <3>1, <4>1 DEF Passes, SamePlace
    <3>3. joined'[j] = joined[j] \cup {p}
      BY <3>1, <3>2 DEF Inv, TypeOK
    <3> QED
      BY <3>1, <3>2, <3>3
  <2> QED
    BY <1>5, <2>2, <2>3, NewPass
<1>6. ASSUME NEW q \in RunId, NEW r \in RunId, NEW j \in Step \ Shared,
             Passes(q, j), ~Passes(r, j), Passes(r, j)', q # r
      PROVE  Twice(j)'
  <2>1. Collects(r) /\ Run(r)
    BY <1>6, NewPass
  <2>2. PICK p \in Parents(j) :
          st[run[r].state].step = j /\ st[run[r].state].parent = p
    <3>1. PICK m \in Step, p \in Step :
            /\ p \in Parents(m)
            /\ st[run[r].state].step = m /\ st[run[r].state].parent = p
      BY <2>1 DEF Collects, Parents
    <3>2. run'[r].state = run[r].state /\ SamePlace(run[r].state)
      BY <1>6, NewPass, RunsStay
    <3>3. m = j
      BY <1>6, <3>1, <3>2 DEF Passes, SamePlace
    <3> QED
      BY <3>1, <3>3
  <2>3. PICK k \in 1 .. nStates : k = run[r].state
    BY <2>1, RunState DEF Collects
  <2>4. p \in joined[j] /\ p \in Step
    BY <1>6, <2>2 DEF Joining, Parents
  <2>5. PICK m \in RunId : Brought(m, j, p)
    BY <2>4 DEF Joining
  <2>6. m # r /\ run[m].pc # "none"
    BY <2>1, <2>5 DEF Collects, Brought, Orderly, Idle
  <2>7. PICK i \in 1 .. nStates : i = run[m].state
    BY <2>6, RunState
  <2>8. i # k
    <3>1. IsJoin(st[i].step)
      BY <1>6, <2>5, <2>7 DEF Brought, Passes
    <3> QED
      BY <2>3, <2>6, <2>7, <3>1 DEF Joining, Once
  <2>9. i \in Reached(j, p) /\ k \in Reached(j, p)
    BY <2>2, <2>3, <2>5, <2>7 DEF Reached, Brought
  <2>10. Twice(j)
    BY <2>2, <2>8, <2>9 DEF Twice
  <2> QED
    BY <2>10, JoinFactsStay
<1>7. ASSUME NEW q \in RunId, NEW r \in RunId, NEW j \in Step \ Shared,
             Passes(q, j)', Passes(r, j)', q # r
      PROVE  Twice(j)'
  <2>1. CASE Passes(q, j) /\ Passes(r, j)
    <3>1. Twice(j)
      BY <1>7, <2>1 DEF Joining
    <3> QED
      BY <3>1, JoinFactsStay
  <2>2. CASE ~Passes(q, j) /\ ~Passes(r, j)
    <3>1. Collects(q) /\ Collects(r)
      BY <1>7, <2>2, NewPass
    <3>2. run'[r] = run[r]
      BY <1>7, <3>1 DEF Collects, OthersKeep
    <3> QED
      BY <3>1, <3>2 DEF Collects, Orderly
  <2> QED
    BY <1>6, <1>7, <2>1, <2>2
<1> QED
  BY <1>1, <1>2, <1>3, <1>4, <1>5, <1>7 DEF Joining, Parents

\* A gateway that only this session reaches goes on when every path into it
\* has been executed to its end, and a second time only if it was reached twice
\* from the same step: for every graph, and however the paths interleave.
THEOREM GatewaysJoin == Spec => []JoinSynchronises
<1>1. Init => Joining
  <2> SUFFICES ASSUME Init PROVE Joining
    OBVIOUS
  <2>1. /\ nStates = 0 /\ \A s \in Step : joined[s] = {}
        /\ \A r \in RunId : run[r].resp = "none"
    BY DEF Init, Idle
  <2> QED
    BY <2>1 DEF Joining, Passes
<1>2. Inv /\ Aux /\ Orderly /\ Joining /\ [Next]_vars => Joining'
  BY JoiningStep
<1>3. Inv /\ Orderly /\ Joining => JoinSynchronises
  <2> SUFFICES ASSUME Inv, Orderly, Joining, NEW r \in RunId, GoesOn(r),
                      st[run[r].state].step \notin Shared
               PROVE  LET j == st[run[r].state].step IN
                      /\ AllPathsCame(r)
                      /\ \/ \A q \in RunId :
                               GoesOn(q) /\ st[run[q].state].step = j => q = r
                         \/ \E p \in Parents(j) : \E i, k \in Reached(j, p) : i # k
    BY DEF JoinSynchronises
  <2>1. run[r].pc # "none"
    BY DEF GoesOn, Orderly, Idle
  <2>2. PICK j \in Step \ Shared : j = st[run[r].state].step
    BY <2>1, RunState
  <2>3. Passes(r, j)
    BY <2>2 DEF GoesOn, Passes, IsJoin
  <2>4. AllPathsCame(r)
    <3>1. ASSUME NEW p \in Parents(j)
          PROVE  Done(p)
      <4>1. p \in joined[j] /\ p \in Step
        BY <2>3 DEF Joining, Parents
      <4>2. PICK m \in RunId : Brought(m, j, p)
        BY <4>1 DEF Joining
      <4>3. run[m].pc # "none"
        BY <4>2 DEF Brought, Orderly, Idle
      <4>4. run[m].state \in 1 .. nStates
        BY <4>3, RunState
      <4> QED
        BY <4>1, <4>2, <4>4 DEF Joining, Brought
    <3> QED
      BY <2>2, <3>1 DEF AllPathsCame, Done
  <2>5. ASSUME NEW q \in RunId, GoesOn(q), st[run[q].state].step = j, q # r
        PROVE  Twice(j)
    <3>1. Passes(q, j)
      BY <2>2, <2>3, <2>5 DEF GoesOn, Passes
    <3> QED
      BY <2>3, <2>5, <3>1 DEF Joining
  <2> QED
    BY <2>2, <2>4, <2>5 DEF Twice
<1> QED
  BY <1>1, <1>2, <1>3, OrderAlways, PTL DEF Spec

-----------------------------------------------------------------------------
(* Loop stacks nest on one path *)

\* the step whose iterator is on top of a loop stack of length d
Top(d) == IF d = 0 THEN None ELSE st[backing[d]].step

\* each iterator on the stack is in the body of the one below it
Nested(path, d) ==
    \A k \in 1 .. d :
       LET t == st[backing[k]].step
       IN /\ backing[k] # 0 /\ t \in path /\ Kind[t] = "iterator"
          /\ Top(k - 1) = Enclosing[t]

\* the error handlers of the path
Arms(s) == Kind[s] = "errHandler" /\ Len(Children[s]) = 2
Handlers(path) == {Children[s][2] : s \in {t \in path : Arms(t)}}

\* a step where the stack of a state with that much on it fits
Fits(path, s, d) == s \in path /\ Nested(path, d) /\ Within(s, Top(d))

\* kinds of steps that go on to their children
Plain == {"function", "fork", "join", "delay", "prompt"}

\* what a goroutine knows when its step has answered
Aims(path, r) ==
    run[r].pc = "resolve" =>
       LET cur == st[run[r].state]
           s == cur.step
           resp == run[r].resp
           to == run[r].to IN
       /\ resp = "iterator" => Kind[s] = "iterator" /\ Top(cur.depth) = s
       /\ resp # "iterator" => run[r].curr = LoopCurr(cur)
       /\ resp = "vars" => Kind[s] \in Plain
       /\ resp = "errHandler" => Kind[s] = "errHandler"
       /\ resp = "steps" =>
             /\ Kind[s] \in {"fork", "excl", "incl"}
             /\ to = <<>> => Kind[s] = "fork"
             /\ Len(to) <= 1 /\ Elems(to) \subseteq Elems(Children[s])

\* One state is on its way at a time, its loop stack nests, and it is where
\* that stack fits.
Ruled(path) ==
    /\ \A i \in 1 .. nStates :
          /\ st[i].step \in path \cup {Final}
          /\ st[i].errHandler \in Handlers(path) \cup {None}
          /\ Somewhere(i) /\ st[i].step # Final =>
                Fits(path, st[i].step, st[i].depth)
    /\ \A i, k \in 1 .. nStates : Somewhere(i) /\ Somewhere(k) => i = k
    /\ \A r \in RunId : Aims(path, r)

\* What OnePath says of a step.
LEMMA PathFacts ==
  ASSUME NEW path \in SUBSET Step, OnePath(path), NEW s \in path
  PROVE  LET next == Children[s] IN
         /\ next \in Seq(Step) /\ Elems(next) \subseteq path
         /\ Parents(s) = {} => Enclosing[s] = None
         /\ Kind[s] = "iterator" =>
               /\ next[1] \in path /\ next[2] \in path
               /\ Within(next[1], s) /\ Within(next[2], Enclosing[s])
         /\ Kind[s] \notin {"iterator", "break", "continue"} =>
               \A c \in Elems(next) : Within(c, Enclosing[s])
         /\ Kind[s] \in Plain \cup {"incl"} => Len(next) <= 1
         /\ Arms(s) =>
               /\ next[1] # next[2] /\ next[2] \in path
               /\ \A t \in path : MayFail(t) => Within(next[2], Enclosing[t])
<1> DEFINE next == Children[s]
<1>1. next \in Seq(Step) /\ (Kind[s] = "iterator" => Len(next) = 2)
  BY GraphAssumption
<1>2. /\ Elems(next) \subseteq path
      /\ Parents(s) = {} => Enclosing[s] = None
  BY DEF OnePath
<1>3. (CASE Kind[s] = "iterator" ->
                 Within(next[1], s) /\ Within(next[2], Enclosing[s])
         [] Kind[s] \in {"break", "continue"} -> TRUE
         [] OTHER -> \A c \in Elems(next) : Within(c, Enclosing[s]))
  BY DEF OnePath
<1>4. (CASE Kind[s] \in {"iterator", "excl"} -> TRUE
        [] Kind[s] = "errHandler" ->
              Len(next) = 2 =>
                 /\ next[1] # next[2]
                 /\ \A t \in path : MayFail(t) => Within(next[2], Enclosing[t])
        [] OTHER -> Len(next) <= 1)
  BY DEF OnePath
<1>5. Len(next) = 2 => next[1] \in Elems(next) /\ next[2] \in Elems(next)
  BY <1>1 DEF Elems
<1>6. Kind[s] = "iterator" => Within(next[1], s) /\ Within(next[2], Enclosing[s])
  BY <1>3
<1>7. Kind[s] \notin {"iterator", "break", "continue"} =>
               \A c \in Elems(next) : Within(c, Enclosing[s])
  BY <1>3
<1>8. Kind[s] \in Plain \cup {"incl"} => Len(next) <= 1
  BY <1>4 DEF Plain
<1>9. Arms(s) =>
         /\ next[1] # next[2]
         /\ \A t \in path : MayFail(t) => Within(next[2], Enclosing[t])
  BY <1>4 DEF Arms
<1> QED
  BY <1>1, <1>2, <1>5, <1>6, <1>7, <1>8, <1>9 DEF Arms

\* A stack whose part of the array stays, stays as it is.
LEMMA StackStays ==
  ASSUME Inv, NEW path, NEW d \in 0 .. LoopCap,
         \A k \in 1 .. d : backing[k] # 0 /\ backing'[k] = backing[k],
         \A i \in 1 .. nStates : st'[i].step = st[i].step
  PROVE  Top(d)' = Top(d) /\ Nested(path, d)' = Nested(path, d)
<1>1. \A k \in 1 .. d : backing[k] \in 1 .. nStates
  BY BoundAssumption DEF Inv, NavigationSafe, IsIterator
<1>2. ASSUME NEW k \in 0 .. d
      PROVE  Top(k)' = Top(k)
  <2>1. k # 0 => k \in 1 .. d
    OBVIOUS
  <2> QED
    BY <1>1, <2>1 DEF Top
<1>3. \A k \in 1 .. d : k - 1 \in 0 .. d
  BY BoundAssumption
<1>4. ASSUME NEW k \in 1 .. d
      PROVE  /\ st'[backing'[k]].step = st[backing[k]].step
             /\ Top(k - 1)' = Top(k - 1)
  BY <1>1, <1>2, <1>3
<1>5. Nested(path, d)' = Nested(path, d)
  BY <1>4 DEF Nested
<1>6. d \in 0 .. d
  BY BoundAssumption
<1> QED
  BY <1>2, <1>5, <1>6

\* The iterator an executed state is in is the top of its stack.
LEMMA TopIsCurr ==
  ASSUME Inv, NEW i \in StateId
  PROVE  /\ (LoopCurr(st[i]) = 0) <=> (st[i].depth = 0)
         /\ Top(st[i].depth) =
               IF LoopCurr(st[i]) = 0 THEN None ELSE st[LoopCurr(st[i])].step
<1>1. st[i].depth \in 0 .. LoopCap /\ \A k \in 1 .. st[i].depth : backing[k] # 0
  BY StackFull
<1>2. st[i].depth > 0 => backing[st[i].depth] # 0
  BY <1>1, BoundAssumption
<1>3. (st[i].depth > 0) = (st[i].depth # 0)
  BY <1>1, BoundAssumption
<1> QED
  BY <1>1, <1>2, <1>3 DEF Top, LoopCurr

\* A sequence of one.
LEMMA OneOf ==
  ASSUME NEW S, NEW q \in Seq(S), Len(q) <= 1, q # <<>>
  PROVE  Len(q) = 1 /\ q[1] \in S /\ q = <<q[1]>> /\ Elems(q) = {q[1]}
<1>1. Len(q) \in Nat /\ DOMAIN q = 1 .. Len(q) /\ Len(q) # 0
  OBVIOUS
<1>2. Len(q) = 1
  BY <1>1
<1>3. q[1] \in S
  BY <1>2
<1>4. q = <<q[1]>>
  BY <1>2, <1>3
<1>5. Elems(q) = {q[1]}
  BY <1>1, <1>2 DEF Elems
<1> QED
  BY <1>2, <1>3, <1>4, <1>5

\* A selection from at most one path has at most one step.
LEMMA PicksOne ==
  ASSUME NEW cs \in Seq(Step), Len(cs) <= 1, NEW p \in Picks(cs)
  PROVE  Len(p) <= 1 /\ p # <<>> /\ Elems(p) \subseteq Elems(cs)
<1>1. PICK n \in DOMAIN cs :
         \E f \in [1 .. n -> DOMAIN cs] : p = [k \in DOMAIN f |-> cs[f[k]]]
  BY DEF Picks
<1>0. PICK f \in [1 .. n -> DOMAIN cs] : p = [k \in DOMAIN f |-> cs[f[k]]]
  BY <1>1
<1>2. DOMAIN cs = 1 .. Len(cs) /\ Len(cs) \in Nat
  OBVIOUS
<1>3. n = 1 /\ Len(cs) = 1
  BY <1>2
<1>4. p = [k \in 1 .. 1 |-> cs[f[k]]] /\ f[1] \in DOMAIN cs
  BY <1>0, <1>3
<1>5. cs[f[1]] \in Elems(cs) /\ DOMAIN p = 1 .. 1 /\ p[1] = cs[f[1]]
  BY <1>4 DEF Elems
<1>6. p = <<cs[f[1]]>>
  BY <1>4
<1>7. Len(<<cs[f[1]]>>) = 1 /\ <<cs[f[1]]>> # <<>>
  OBVIOUS
<1>8. Elems(p) = {cs[f[1]]}
  BY <1>5 DEF Elems
<1> QED
  BY <1>5, <1>6, <1>7, <1>8

\* What a step of the path answers.
LEMMA PathAnswers ==
  ASSUME NEW path \in SUBSET Step, OnePath(path), NEW i, st[i].step \in path,
         NEW a \in Answers(i)
  PROVE  LET s == st[i].step IN
         /\ a.kind = "iterator" => Kind[s] = "iterator"
         /\ a.kind = "vars" => Kind[s] \in Plain
         /\ a.kind = "errHandler" => Kind[s] = "errHandler"
         /\ a.kind = "steps" =>
             /\ Kind[s] \in {"fork", "excl", "incl"}
             /\ a.to = <<>> => Kind[s] = "fork"
             /\ Len(a.to) <= 1 /\ Elems(a.to) \subseteq Elems(Children[s])
<1>1. PICK s \in path : s = st[i].step
  OBVIOUS
<1>2. Children[s] \in Seq(Step) /\ Kind[s] \in StepKind
  BY GraphAssumption
<1>3. CASE Kind[s] = "excl"
  <2>1. PICK c \in Elems(Children[s]) : a = Resp("steps", <<c>>)
    BY <1>1, <1>3 DEF Answers
  <2>2. a.kind = "steps" /\ a.to = <<c>>
    BY <2>1 DEF Resp
  <2>3. a.to # <<>> /\ Len(a.to) = 1 /\ Elems(a.to) = {c}
    <3>1. <<c>> # <<>> /\ Len(<<c>>) = 1
      OBVIOUS
    <3>2. DOMAIN <<c>> = {1} /\ <<c>>[1] = c
      OBVIOUS
    <3>3. Elems(<<c>>) = {c}
      BY <3>2 DEF Elems
    <3> QED
      BY <2>2, <3>1, <3>3
  <2>4. Len(a.to) <= 1
    BY <2>3
  <2> QED
    BY <1>1, <1>3, <2>2, <2>3, <2>4
<1>4. CASE Kind[s] = "incl"
  <2>1. PICK q \in Picks(Children[s]) : a = Resp("steps", q)
    BY <1>1, <1>4 DEF Answers
  <2>2. a.kind = "steps" /\ a.to = q
    BY <2>1 DEF Resp
  <2>3. Len(Children[s]) <= 1
    BY <1>4, PathFacts
  <2>4. Len(q) <= 1 /\ q # <<>> /\ Elems(q) \subseteq Elems(Children[s])
    BY <1>2, <2>3, PicksOne
  <2> QED
    BY <1>1, <1>4, <2>2, <2>4
<1>5. CASE Kind[s] = "fork"
  <2>1. a.kind = "steps" /\ a.to = <<>>
    BY <1>1, <1>5 DEF Answers, Resp
  <2>2. Len(<<>>) = 0 /\ Elems(<<>>) = {}
    BY DEF Elems
  <2> QED
    BY <1>1, <1>5, <2>1, <2>2
<1>6. CASE Kind[s] \in {"function", "error"}
  <2>1. Kind[s] = "function" /\ a.kind = "vars"
    BY <1>1, <1>6 DEF Answers, Resp
  <2> QED
    BY <1>1, <2>1 DEF Plain
<1>7. CASE Kind[s] \in {"join", "delay", "prompt"}
  <2>1. a.kind \in {"vars", "partial", "delay", "prompt"}
    BY <1>1, <1>7 DEF Answers, Resp
  <2> QED
    BY <1>1, <1>7, <2>1 DEF Plain
<1>8. CASE Kind[s] \in {"iterator", "errHandler", "break", "continue",
                         "termination"}
  <2>1. a.kind = Kind[s]
    BY <1>1, <1>8 DEF Answers, Resp
  <2> QED
    BY <1>1, <1>8, <2>1
<1> QED
  BY <1>2, <1>3, <1>4, <1>5, <1>6, <1>7, <1>8 DEF StepKind

\* The goroutine leaves exec with at most one step to follow, one where the
\* stack it leaves with fits.
ToOne(path, r) ==
    \E cur \in StateRec, steps \in Seq(Step \cup {Final}), err \in BOOLEAN :
       /\ Leave(r, cur, steps, err)
       /\ cur.step = st[run[r].state].step
       /\ cur.parent = st[run[r].state].parent
       /\ cur.errHandler \in Handlers(path) \cup {None}
       /\ \/ steps = <<>>
          \/ \E s : /\ steps = <<s>> /\ UNCHANGED backing
                    /\ s = Final \/ Fits(path, s, cur.depth)

\* The common tail of exec leads to one step.
LEMMA FollowOne ==
  ASSUME Inv, NEW path \in SUBSET Step, OnePath(path),
         NEW r \in RunId, run[r].pc = "resolve",
         NEW cur \in StateRec, cur.step = st[run[r].state].step,
         cur.parent = st[run[r].state].parent, cur.step \in path,
         cur.errHandler \in Handlers(path) \cup {None},
         Nested(path, cur.depth), UNCHANGED backing,
         NEW next \in Seq(Step), Len(next) <= 1, Follow(r, cur, next),
         next # <<>> => next[1] \in path /\ Within(next[1], Top(cur.depth)),
         next = <<>> =>
            /\ cur = st[run[r].state] \/ cur.depth = st[run[r].state].depth
            /\ run[r].curr = LoopCurr(st[run[r].state])
            /\ Len(Children[cur.step]) <= 1
            /\ Kind[cur.step] \notin {"iterator", "break", "continue"}
            /\ Within(cur.step, Top(cur.depth))
  PROVE  ToOne(path, r)
<1> DEFINE i == run[r].state
           s == cur.step
           steps == Successors(s, next, run[r].curr)
<1>1. i \in StateId /\ i \in 1 .. nStates
  BY RunState
<1>2. CASE ~Consistent(s, next)
  <2>1. Leave(r, cur, <<>>, TRUE)
    BY <1>2 DEF Follow
  <2>2. <<>> \in Seq(Step \cup {Final}) /\ TRUE \in BOOLEAN
    OBVIOUS
  <2> QED
    BY <2>1, <2>2 DEF ToOne
<1>3. CASE Consistent(s, next)
  <2>1. Leave(r, cur, steps, FALSE)
    BY <1>3 DEF Follow
  <2>2. PICK c : /\ steps = <<c>> /\ c \in path \cup {Final}
                 /\ c = Final \/ Within(c, Top(cur.depth))
    <3>1. CASE next # <<>>
      <4>1. next = <<next[1]>>
        BY <3>1, OneOf
      <4> QED
        BY <3>1, <4>1 DEF Successors
    <3>2. CASE next = <<>> /\ Children[s] # <<>>
      <4>1. Children[s] \in Seq(Step) /\ Len(Children[s]) <= 1
        BY <3>2, GraphAssumption
      <4>2. Children[s] = <<Children[s][1]>>
        BY <3>2, <4>1, OneOf
      <4>3. Children[s][1] \in Elems(Children[s])
        BY <3>2, <4>1, OneOf
      <4>4. Within(Children[s][1], Enclosing[s]) /\ Children[s][1] \in path
        BY <3>2, <4>3, PathFacts
      <4>5. Top(cur.depth) = Enclosing[s]
        BY <3>2 DEF Within
      <4>6. steps = <<Children[s][1]>>
        BY <3>2, <4>2 DEF Successors
      <4> QED
        BY <4>4, <4>5, <4>6
    <3>3. CASE next = <<>> /\ Children[s] = <<>> /\ run[r].curr # 0
      <4>1. LoopCurr(st[i]) # 0 /\ LoopCurr(st[i]) = run[r].curr
        BY <3>3
      <4>2. st[i].depth \in 1 .. LoopCap /\ LoopCurr(st[i]) = backing[st[i].depth]
        BY <1>1, <4>1, CurrIterator
      <4>3. cur.depth = st[i].depth /\ cur.depth \in 1 .. cur.depth
        BY <3>3, <4>2, BoundAssumption
      <4> DEFINE t == st[backing[cur.depth]].step
      <4>4. t \in path /\ Kind[t] = "iterator"
        BY <4>3 DEF Nested
      <4>5. Top(cur.depth) = t
        BY <4>2, <4>3, BoundAssumption DEF Top
      <4>6. steps = <<t>>
        BY <3>3, <4>1, <4>2, <4>3 DEF Successors
      <4> QED
        BY <4>4, <4>5, <4>6 DEF Within
    <3>4. CASE next = <<>> /\ Children[s] = <<>> /\ run[r].curr = 0
      BY <3>4 DEF Successors
    <3> QED
      BY <3>1, <3>2, <3>3, <3>4
  <2>3. <<c>> \in Seq(Step \cup {Final})
    BY <2>2
  <2>4. c = Final \/ Fits(path, c, cur.depth)
    BY <2>2 DEF Fits
  <2> HIDE DEF steps
  <2>5. Leave(r, cur, <<c>>, FALSE)
    BY <2>1, <2>2
  <2> QED
    BY <2>3, <2>4, <2>5 DEF ToOne
<1> QED
  BY <1>2, <1>3

\* What is known of a state that is being executed on the path.
LEMMA ExecutedFits ==
  ASSUME Inv, NEW path \in SUBSET Step, Ruled(path), NEW r \in RunId, InExecBy(r)
  PROVE  LET i == run[r].state IN
         /\ i \in StateId /\ i \in 1 .. nStates /\ st[i] \in StateRec
         /\ Somewhere(i) /\ Fits(path, st[i].step, st[i].depth)
         /\ st[i].errHandler \in Handlers(path) \cup {None}
         /\ Aims(path, r)
         /\ \A k \in 1 .. nStates : Somewhere(k) => k = i
<1> DEFINE i == run[r].state
<1>1. i \in StateId /\ i \in 1 .. nStates /\ st[i] \in StateRec /\ st[i].step \in Step
  BY RunState DEF InExecBy
<1>2. Somewhere(i)
  BY DEF Somewhere, Running
<1>3. st[i].step # Final
  BY <1>1, GraphAssumption
<1> QED
  BY <1>1, <1>2, <1>3 DEF Ruled

\* Every response leads to at most one step, where the stack fits.
LEMMA ResolveOne ==
  ASSUME Inv, NEW path \in SUBSET Step, OnePath(path), Ruled(path),
         NEW r \in RunId,
         \/ ResolveVars(r) \/ ResolveSteps(r) \/ ResolveErrHandler(r)
         \/ ResolveContinue(r) \/ ResolvePartial(r) \/ ResolveTermination(r)
         \/ ResolvePrompt(r) \/ (ResolveDelay(r) /\ ~delayedNil)
  PROVE  ToOne(path, r)
<1> DEFINE i == run[r].state
           cur == st[i]
           s == cur.step
<1>1. run[r].pc = "resolve" /\ InExecBy(r) /\ UNCHANGED backing
  BY DEF ResolveVars, ResolveSteps, ResolveErrHandler, ResolveContinue,
     ResolvePartial, ResolveTermination, ResolvePrompt, ResolveDelay, AtResolve,
     InExecBy, stepVars
<1>2. /\ i \in StateId /\ i \in 1 .. nStates /\ cur \in StateRec
      /\ s \in path /\ Nested(path, cur.depth) /\ Within(s, Top(cur.depth))
      /\ cur.errHandler \in Handlers(path) \cup {None}
      /\ Aims(path, r) /\ run[r] \in RunRec
  BY <1>1, ExecutedFits, RunState DEF Fits
<1>3. <<>> \in Seq(Step) /\ <<>> \in Seq(Step \cup {Final}) /\ Len(<<>>) = 0
  OBVIOUS
<1>4. TRUE \in BOOLEAN /\ FALSE \in BOOLEAN
  OBVIOUS
<1>5. ASSUME NEW err \in BOOLEAN, Leave(r, cur, <<>>, err)
      PROVE  ToOne(path, r)
  BY <1>2, <1>3, <1>5 DEF ToOne
<1>6. CASE ResolvePartial(r) \/ ResolvePrompt(r) \/ (ResolveDelay(r) /\ ~delayedNil)
  <2>1. Leave(r, cur, <<>>, TRUE) \/ Leave(r, cur, <<>>, FALSE)
    BY <1>6 DEF ResolvePartial, ResolvePrompt, ResolveDelay
  <2> QED
    BY <1>4, <1>5, <2>1
<1>7. CASE ResolveTermination(r)
  <2>1. Leave(r, cur, <<Final>>, FALSE)
    BY <1>7 DEF ResolveTermination
  <2>2. <<Final>> \in Seq(Step \cup {Final})
    OBVIOUS
  <2> QED
    BY <1>1, <1>2, <1>4, <2>1, <2>2 DEF ToOne
<1>8. CASE ResolveVars(r)
  <2>1. Follow(r, cur, <<>>) /\ run[r].resp = "vars"
    BY <1>8 DEF ResolveVars, AtResolve
  <2>2. Kind[s] \in Plain /\ run[r].curr = LoopCurr(cur)
    BY <1>1, <1>2, <2>1 DEF Aims
  <2>3. Len(Children[s]) <= 1
    BY <1>2, <2>2, PathFacts
  <2>4. Kind[s] \notin {"iterator", "break", "continue"} /\ Len(<<>>) <= 1
    BY <1>3, <2>2 DEF Plain
  <2> QED
    BY <1>1, <1>2, <1>3, <2>1, <2>2, <2>3, <2>4, FollowOne
<1>9. CASE ResolveSteps(r)
  <2>1. Follow(r, cur, run[r].to) /\ run[r].resp = "steps" /\ run[r].to \in Seq(Step)
    BY <1>2, <1>9 DEF ResolveSteps, AtResolve, RunRec
  <2>2. /\ Kind[s] \in {"fork", "excl", "incl"}
        /\ run[r].to = <<>> => Kind[s] = "fork"
        /\ run[r].curr = LoopCurr(cur)
        /\ Len(run[r].to) <= 1 /\ Elems(run[r].to) \subseteq Elems(Children[s])
    BY <1>1, <1>2, <2>1 DEF Aims
  <2>3. run[r].to # <<>> =>
           run[r].to[1] \in path /\ Within(run[r].to[1], Top(cur.depth))
    <3>1. run[r].to # <<>> => run[r].to[1] \in Elems(Children[s])
      BY <2>1, <2>2, OneOf
    <3>2. Top(cur.depth) = Enclosing[s]
      BY <1>2, <2>2 DEF Within
    <3>3. Kind[s] \notin {"iterator", "break", "continue"}
      BY <2>2
    <3>4. \A c \in Elems(Children[s]) : c \in path /\ Within(c, Enclosing[s])
      BY <1>2, <3>3, PathFacts
    <3> QED
      BY <3>1, <3>2, <3>4
  <2>4. Kind[s] = "fork" => Len(Children[s]) <= 1
    BY <1>2, PathFacts DEF Plain
  <2> QED
    BY <1>1, <1>2, <2>1, <2>2, <2>3, <2>4, FollowOne
<1>10. CASE ResolveErrHandler(r)
  <2>1. /\ Follow(r, [cur EXCEPT !.errHandler = Handler(s)], Armed(s))
        /\ run[r].resp = "errHandler"
    BY <1>10 DEF ResolveErrHandler, AtResolve
  <2>2. Kind[s] = "errHandler" /\ run[r].curr = LoopCurr(cur)
    BY <1>1, <1>2, <2>1 DEF Aims
  <2>3. s \in Step /\ Children[s] \in Seq(Step)
    BY <1>2, GraphAssumption
  <2>4. Handler(s) \in Handlers(path) \cup {None} /\ Handler(s) \in Step \cup {None}
    <3>1. CASE Len(Children[s]) = 2
      <4>1. s \in {t \in path : Arms(t)}
        BY <1>2, <2>2, <3>1 DEF Arms
      <4> QED
        BY <2>3, <3>1, <4>1 DEF Handler, Handlers
    <3>2. CASE Len(Children[s]) # 2
      BY <3>2 DEF Handler
    <3> QED
      BY <3>1, <3>2
  <2>5. PICK c \in StateRec :
           /\ c = [cur EXCEPT !.errHandler = Handler(s)]
           /\ c.step = s /\ c.depth = cur.depth /\ c.parent = cur.parent
           /\ c.errHandler = Handler(s)
    <3>1. ASSUME NEW h \in Step \cup {None}
          PROVE  LET c == [cur EXCEPT !.errHandler = h] IN
                 /\ c \in StateRec
                 /\ c.step = s /\ c.depth = cur.depth /\ c.parent = cur.parent
                 /\ c.errHandler = h
      BY <1>2 DEF StateRec
    <3> QED
      BY <2>4, <3>1
  <2>6. Armed(s) \in Seq(Step) /\ Len(Armed(s)) <= 1
    <3>1. CASE Children[s] = <<>>
      BY <1>3, <3>1 DEF Armed
    <3>2. CASE Children[s] # <<>>
      BY <1>3, <2>3, <3>2 DEF Armed
    <3> QED
      BY <3>1, <3>2
  <2>7. Armed(s) # <<>> =>
           Armed(s)[1] \in path /\ Within(Armed(s)[1], Top(cur.depth))
    <3> SUFFICES ASSUME Armed(s) # <<>>
                 PROVE  Armed(s)[1] \in path /\ Within(Armed(s)[1], Top(cur.depth))
      OBVIOUS
    <3>1. Armed(s) = <<Children[s][1]>> /\ Children[s] # <<>>
      BY DEF Armed
    <3>2. Children[s][1] \in Elems(Children[s])
      BY <2>3, <3>1 DEF Elems
    <3>3. Top(cur.depth) = Enclosing[s]
      BY <1>2, <2>2 DEF Within
    <3>4. Children[s][1] \in path /\ Within(Children[s][1], Enclosing[s])
      BY <1>2, <2>2, <3>2, PathFacts
    <3> QED
      BY <3>1, <3>3, <3>4
  <2>8. Armed(s) = <<>> => Len(Children[s]) <= 1
    <3>1. CASE Children[s] = <<>>
      BY <1>3, <3>1
    <3>2. CASE Children[s] # <<>> /\ Children[s][1] # Handler(s)
      BY <3>2 DEF Armed
    <3>3. CASE Children[s] # <<>> /\ Children[s][1] = Handler(s)
      <4>1. Children[s][1] \in Step
        BY <2>3, <3>3
      <4>2. Len(Children[s]) = 2 /\ Children[s][1] = Children[s][2]
        BY <3>3, <4>1, GraphAssumption DEF Handler
      <4> QED
        BY <1>2, <2>2, <4>2, PathFacts DEF Arms
    <3> QED
      BY <3>1, <3>2, <3>3
  <2>9. Nested(path, c.depth) /\ Within(c.step, Top(c.depth))
    BY <1>2, <2>5
  <2>10. Follow(r, c, Armed(s))
    BY <2>1, <2>5
  <2> QED
    BY <1>1, <1>2, <2>2, <2>4, <2>5, <2>6, <2>7, <2>8, <2>9, <2>10, FollowOne
<1>11. CASE ResolveContinue(r)
  <2>1. CASE run[r].curr = 0
    BY <1>4, <1>5, <1>11, <2>1 DEF ResolveContinue
  <2>2. CASE run[r].curr # 0
    <3>1. Follow(r, cur, <<st[run[r].curr].step>>) /\ run[r].resp = "continue"
      BY <1>11, <2>2 DEF ResolveContinue, AtResolve
    <3>2. run[r].curr = LoopCurr(cur)
      BY <1>1, <1>2, <3>1 DEF Aims
    <3>3. cur.depth \in 1 .. LoopCap /\ run[r].curr = backing[cur.depth]
      BY <1>2, <2>2, <3>2, CurrIterator
    <3>4. cur.depth \in 1 .. cur.depth
      BY <3>3, BoundAssumption
    <3>5. PICK t \in path : t = st[run[r].curr].step /\ Kind[t] = "iterator"
      BY <1>2, <3>3, <3>4 DEF Nested
    <3>6. Top(cur.depth) = t
      BY <3>3, <3>5, BoundAssumption DEF Top
    <3>7. <<t>> \in Seq(Step) /\ Len(<<t>>) <= 1 /\ <<t>> # <<>> /\ <<t>>[1] = t
      BY <3>5
    <3>8. Within(t, Top(cur.depth)) /\ Follow(r, cur, <<t>>)
      BY <3>1, <3>5, <3>6 DEF Within
    <3> QED
      BY <1>1, <1>2, <3>5, <3>7, <3>8, FollowOne
  <2> QED
    BY <2>1, <2>2
<1> QED
  BY <1>6, <1>7, <1>8, <1>9, <1>10, <1>11

\* The way out of the loop on top of the stack leads to where the rest fits.
LEMMA LoopEndOne ==
  ASSUME Inv, NEW path \in SUBSET Step, OnePath(path), NEW i \in StateId,
         st[i].depth > 0, Nested(path, st[i].depth)
  PROVE  LET exit == LoopExit(st[i])
             rest == LoopEnd(st[i]) IN
         /\ exit \in path /\ Nested(path, rest.depth) /\ Within(exit, Top(rest.depth))
         /\ rest \in StateRec /\ rest.step = st[i].step /\ rest.parent = st[i].parent
         /\ rest.errHandler = st[i].errHandler
<1> DEFINE d == st[i].depth
           t == st[backing[d]].step
<1>1. d \in 1 .. d /\ d - 1 \in Nat /\ d \in Nat /\ st[i] \in StateRec
  BY StackFull, BoundAssumption DEF Inv, TypeOK, StateRec
<1>2. t \in path /\ Kind[t] = "iterator" /\ Top(d - 1) = Enclosing[t]
  BY <1>1 DEF Nested
<1>3. LoopEnd(st[i]) \in StateRec
  BY LoopSteps
<1>4. /\ LoopEnd(st[i]).depth = d - 1 /\ LoopEnd(st[i]).step = st[i].step
      /\ LoopEnd(st[i]).parent = st[i].parent
      /\ LoopEnd(st[i]).errHandler = st[i].errHandler
  BY <1>1 DEF LoopEnd, StateRec
<1>5. Children[t][2] \in path /\ Within(Children[t][2], Enclosing[t])
  BY <1>2, PathFacts
<1>6. LoopExit(st[i]) = Children[t][2]
  BY DEF LoopExit
<1>7. Nested(path, d - 1)
  BY <1>1 DEF Nested
<1> QED
  BY <1>2, <1>3, <1>4, <1>5, <1>6, <1>7

\* A state with its error noted.
LEMMA ErrorNoted ==
  ASSUME NEW c \in StateRec
  PROVE  LET failed == [c EXCEPT !.err = TRUE]
             taken == [failed EXCEPT !.errHandler = None, !.errHandled = TRUE] IN
         /\ failed \in StateRec /\ taken \in StateRec
         /\ failed.step = c.step /\ failed.parent = c.parent
         /\ failed.errHandler = c.errHandler
         /\ taken.step = c.step /\ taken.parent = c.parent
         /\ taken.depth = c.depth /\ taken.errHandler = None
  BY DEF StateRec

\* An iterator goes on to its body or leaves, and so does a break.
LEMMA LoopOne ==
  ASSUME Inv, NEW path \in SUBSET Step, OnePath(path), Ruled(path),
         NEW r \in RunId, ResolveIterator(r) \/ ResolveBreak(r)
  PROVE  ToOne(path, r)
<1> DEFINE i == run[r].state
           cur == st[i]
           s == cur.step
<1>1. run[r].pc = "resolve" /\ InExecBy(r) /\ UNCHANGED backing
  BY DEF ResolveIterator, ResolveBreak, AtResolve, InExecBy, stepVars
<1>2. /\ i \in StateId /\ i \in 1 .. nStates /\ cur \in StateRec
      /\ s \in path /\ Nested(path, cur.depth) /\ Within(s, Top(cur.depth))
      /\ cur.errHandler \in Handlers(path) \cup {None}
      /\ Aims(path, r)
  BY <1>1, ExecutedFits DEF Fits
<1>3. ASSUME NEW c \in StateRec, NEW t \in path, Follow(r, c, <<t>>),
             c.step = s, c.parent = cur.parent, c.errHandler = cur.errHandler,
             Nested(path, c.depth), Within(t, Top(c.depth))
      PROVE  ToOne(path, r)
  <2>1. <<t>> \in Seq(Step) /\ Len(<<t>>) <= 1 /\ <<t>> # <<>> /\ <<t>>[1] = t
    OBVIOUS
  <2> QED
    BY <1>1, <1>2, <1>3, <2>1, FollowOne
<1>4. ASSUME NEW c \in StateRec, Leave(r, c, <<>>, TRUE), c.step = s,
             c.parent = cur.parent, c.errHandler = cur.errHandler
      PROVE  ToOne(path, r)
  <2>1. <<>> \in Seq(Step \cup {Final}) /\ TRUE \in BOOLEAN
    OBVIOUS
  <2> QED
    BY <1>2, <1>4, <2>1 DEF ToOne
<1>5. ASSUME cur.depth > 0, Follow(r, LoopEnd(cur), <<LoopExit(cur)>>)
      PROVE  ToOne(path, r)
  BY <1>2, <1>3, <1>5, LoopEndOne
<1>6. CASE ResolveIterator(r)
  <2>1. run[r].resp = "iterator"
    BY <1>6 DEF ResolveIterator, AtResolve
  <2>2. Kind[s] = "iterator" /\ Top(cur.depth) = s
    BY <1>1, <1>2, <2>1 DEF Aims
  <2>3. st[IterObj(r)].step = s
    BY DEF IterObj
  <2>4. Children[s][1] \in path /\ Within(Children[s][1], s)
    BY <1>2, <2>2, PathFacts
  <2>5. CASE Follow(r, cur, <<Children[st[IterObj(r)].step][1]>>)
    BY <1>2, <1>3, <2>2, <2>3, <2>4, <2>5
  <2>6. CASE Follow(r, LoopEnd(cur), <<LoopExit(cur)>>)
    <3>1. cur.depth > 0
      BY <1>1, <2>1 DEF Inv, NavigationSafe, AtResolve
    <3> QED
      BY <1>5, <2>6, <3>1
  <2>7. CASE Leave(r, [cur EXCEPT !.err = TRUE], <<>>, TRUE)
    BY <1>2, <1>4, <2>7, ErrorNoted
  <2> QED
    BY <1>6, <2>5, <2>6, <2>7 DEF ResolveIterator
<1>7. CASE ResolveBreak(r)
  <2>1. run[r].resp = "break"
    BY <1>7 DEF ResolveBreak, AtResolve
  <2>2. CASE run[r].curr = 0
    BY <1>2, <1>4, <1>7, <2>2 DEF ResolveBreak
  <2>3. CASE run[r].curr # 0
    <3>1. LoopCurr(cur) # 0
      BY <1>1, <1>2, <2>1, <2>3 DEF Aims
    <3>2. cur.depth > 0
      BY <1>2, <3>1, CurrIterator, BoundAssumption
    <3> QED
      BY <1>5, <1>7, <2>3, <3>2 DEF ResolveBreak
  <2> QED
    BY <2>2, <2>3
<1> QED
  BY <1>6, <1>7

\* A step that is called is not the iterator on top of its stack.
LEMMA CalledFits ==
  ASSUME Inv, NEW path \in SUBSET Step, Ruled(path), NEW r \in RunId,
         run[r].pc = "call",
         LET curr == LoopCurr(st[run[r].state])
         IN ~(curr # 0 /\ st[curr].step = st[run[r].state].step)
  PROVE  Top(st[run[r].state].depth) = Enclosing[st[run[r].state].step]
<1> DEFINE i == run[r].state
<1>1. InExecBy(r)
  BY DEF InExecBy
<1>2. i \in StateId /\ st[i].step \in path /\ Within(st[i].step, Top(st[i].depth))
  BY <1>1, ExecutedFits DEF Fits
<1>3. Top(st[i].depth) # st[i].step
  BY <1>2, TopIsCurr, GraphAssumption
<1> QED
  BY <1>2, <1>3 DEF Within

\* An error leads to the handler, if there is one.
LEMMA FailsOne ==
  ASSUME Inv, NEW path \in SUBSET Step, OnePath(path), Ruled(path),
         NEW r \in RunId, CallStartFails(r) \/ CallFails(r)
  PROVE  ToOne(path, r)
<1> DEFINE i == run[r].state
           cur == st[i]
           s == cur.step
<1>1. run[r].pc = "call" /\ InExecBy(r)
  BY DEF CallStartFails, CallFails, InExecBy
<1>2. /\ i \in StateId /\ i \in 1 .. nStates /\ cur \in StateRec
      /\ s \in path /\ Nested(path, cur.depth)
      /\ cur.errHandler \in Handlers(path) \cup {None}
  BY <1>1, ExecutedFits DEF Fits
<1>3. /\ <<>> \in Seq(Step \cup {Final}) /\ TRUE \in BOOLEAN /\ FALSE \in BOOLEAN
  OBVIOUS
<1>4. CASE CallStartFails(r)
  <2>1. Leave(r, NewLoop(cur), <<>>, TRUE) /\ cur.depth < LoopCap
    BY <1>4 DEF CallStartFails
  <2>2. NewLoop(cur) \in StateRec
    BY <1>2, <2>1, NewLoopEffect
  <2>3. /\ NewLoop(cur).step = s /\ NewLoop(cur).parent = cur.parent
        /\ NewLoop(cur).errHandler = cur.errHandler
    BY <1>2 DEF NewLoop, StateRec
  <2> QED
    BY <1>2, <1>3, <2>1, <2>2, <2>3 DEF ToOne
<1>5. CASE CallFails(r) /\ cur.errHandler = None
  <2> DEFINE c == [cur EXCEPT !.err = TRUE]
  <2>1. /\ c \in StateRec /\ c.step = s
        /\ c.parent = cur.parent /\ c.errHandler = cur.errHandler
    BY <1>2, ErrorNoted
  <2>2. Leave(r, c, <<>>, TRUE)
    BY <1>5 DEF CallFails
  <2> HIDE DEF c
  <2> QED
    BY <1>2, <1>3, <2>1, <2>2 DEF ToOne
<1>6. CASE CallFails(r) /\ cur.errHandler # None
  <2> DEFINE h == cur.errHandler
  <2> DEFINE c == [[cur EXCEPT !.err = TRUE]
                     EXCEPT !.errHandler = None, !.errHandled = TRUE]
  <2>1. /\ c \in StateRec /\ c.step = s /\ c.depth = cur.depth
        /\ c.parent = cur.parent /\ c.errHandler = None
    BY <1>2, ErrorNoted
  <2>2. Leave(r, c, <<h>>, FALSE) /\ UNCHANGED backing
    BY <1>6 DEF CallFails, stepVars
  <2> HIDE DEF c
  <2>3. MayFail(s)
    BY <1>6 DEF CallFails, MayFail, UnknownParent
  <2>4. PICK t \in path : Arms(t) /\ h = Children[t][2]
    BY <1>2, <1>6 DEF Handlers
  <2>5. h \in path /\ Within(h, Enclosing[s])
    BY <1>2, <2>3, <2>4, PathFacts
  <2>6. Top(cur.depth) = Enclosing[s]
    BY <1>1, <1>6, CalledFits DEF CallFails
  <2>7. Fits(path, h, c.depth)
    BY <1>2, <2>1, <2>5, <2>6 DEF Fits
  <2>8. <<h>> \in Seq(Step \cup {Final})
    BY <2>5
  <2> HIDE DEF h
  <2> QED
    BY <1>2, <1>3, <2>1, <2>2, <2>7, <2>8 DEF ToOne
<1> QED
  BY <1>4, <1>5, <1>6

\* A step that answers keeps its stack, or puts itself on top of it.
LEMMA CallOne ==
  ASSUME Inv, NEW path \in SUBSET Step, OnePath(path), Ruled(path),
         NEW r \in RunId, NEW i, i = run[r].state,
         \/ CallLoop(r) \/ CallPanics(r)
         \/ \E a \in Answers(run[r].state) : CallStep(r, a)
  PROVE  /\ Fits(path, st[i].step, st[i].depth)'
         /\ st'[i].errHandler = st[i].errHandler
         /\ Aims(path, r)'
<1>1. run[r].pc = "call" /\ InExecBy(r)
  BY DEF CallLoop, CallPanics, CallStep, InExecBy
<1>2. /\ i \in StateId /\ i \in 1 .. nStates /\ st[i] \in StateRec
      /\ st[i].step \in path /\ Nested(path, st[i].depth)
      /\ Within(st[i].step, Top(st[i].depth))
      /\ run \in [RunId -> RunRec] /\ st \in [StateId -> StateRec]
  BY <1>1, ExecutedFits, RunState DEF Fits
<1>3. PICK s \in path, d \in 0 .. LoopCap : s = st[i].step /\ d = st[i].depth
  BY <1>2, StackFull
<1>4. \A k \in 1 .. d : backing[k] # 0
  BY <1>2, <1>3, StackFull
<1>5. ASSUME st'[i].depth = d, st'[i].errHandler = st[i].errHandler,
             \A k \in 1 .. nStates : st'[k].step = st[k].step,
             UNCHANGED backing
      PROVE  /\ Fits(path, st[i].step, st[i].depth)'
             /\ LoopCurr(st[i])' = LoopCurr(st[i])
             /\ Top(d)' = Top(d)
  <2>1. Top(d)' = Top(d) /\ Nested(path, d)' = Nested(path, d)
    BY <1>3, <1>4, <1>5, StackStays
  <2>2. st'[i].step = s /\ Within(s, Top(d)) /\ Nested(path, d)
    BY <1>2, <1>3, <1>5
  <2>3. Fits(path, s, d)'
    BY <2>1, <2>2 DEF Fits, Within
  <2>4. Fits(path, st[i].step, st[i].depth)'
    BY <1>5, <2>2, <2>3
  <2>5. LoopCurr(st[i])' = LoopCurr(st[i])
    BY <1>3, <1>5 DEF LoopCurr
  <2> QED
    BY <2>1, <2>4, <2>5
<1>6. CASE CallLoop(r)
  <2>1. /\ LoopCurr(st[i]) # 0 /\ st[LoopCurr(st[i])].step = s
        /\ run' = [run EXCEPT ![r].pc = "resolve", ![r].curr = LoopCurr(st[i]),
                     ![r].resp = "iterator"]
        /\ st' = st /\ backing' = backing
    BY <1>3, <1>6 DEF CallLoop, stateVars, stepVars
  <2>2. run'[r].resp = "iterator" /\ run'[r].state = i
    BY <1>2, <2>1 DEF RunRec
  <2>3. Top(d) = s
    BY <1>2, <1>3, <2>1, TopIsCurr
  <2>4. Kind[s] = "iterator"
    BY <1>2, <1>3, <2>1, CurrIterator DEF IsIterator
  <2>5. /\ Fits(path, st[i].step, st[i].depth)' /\ Top(d)' = Top(d)
    BY <1>3, <1>5, <2>1
  <2>6. Aims(path, r)'
    BY <1>3, <2>1, <2>2, <2>3, <2>4, <2>5 DEF Aims
  <2> QED
    BY <2>1, <2>5, <2>6
<1>7. CASE CallPanics(r)
  <2>1. run'[r].pc = "panic" /\ st' = st /\ backing' = backing
    BY <1>2, <1>7 DEF CallPanics, stateVars, stepVars
  <2>2. Aims(path, r)'
    BY <2>1 DEF Aims
  <2> QED
    BY <1>3, <1>5, <2>1, <2>2
<1>8. ASSUME NEW a \in Answers(run[r].state), CallStep(r, a)
      PROVE  /\ Fits(path, st[i].step, st[i].depth)'
             /\ st'[i].errHandler = st[i].errHandler
             /\ Aims(path, r)'
  <2>1. /\ run'[r].pc = "resolve" /\ run'[r].state = i /\ run'[r].resp = a.kind
        /\ run'[r].curr = LoopCurr(st[i]) /\ run'[r].to = a.to
    <3>1. run' = [run EXCEPT ![r].pc = "resolve", ![r].curr = LoopCurr(st[i]),
                     ![r].resp = a.kind, ![r].to = a.to]
      BY <1>8 DEF CallStep
    <3>2. run[r] \in RunRec
      BY <1>2
    <3> QED
      BY <1>2, <3>1, <3>2 DEF RunRec
  <2>2. /\ a.kind = "iterator" => Kind[s] = "iterator"
        /\ a.kind = "vars" => Kind[s] \in Plain
        /\ a.kind = "errHandler" => Kind[s] = "errHandler"
        /\ a.kind = "steps" =>
             /\ Kind[s] \in {"fork", "excl", "incl"}
             /\ a.to = <<>> => Kind[s] = "fork"
             /\ Len(a.to) <= 1 /\ Elems(a.to) \subseteq Elems(Children[s])
    BY <1>3, <1>8, PathAnswers
  <2>3. CASE a.kind # "iterator"
    <3>1. /\ st' = [st EXCEPT ![i] = [st[i] EXCEPT !.err = FALSE]]
          /\ backing' = backing
      BY <1>8, <2>3 DEF CallStep
    <3>2. st'[i] = [st[i] EXCEPT !.err = FALSE]
      BY <1>2, <3>1
    <3>3. /\ st'[i].step = s /\ st'[i].depth = d
          /\ st'[i].errHandler = st[i].errHandler
      BY <1>2, <1>3, <3>2 DEF StateRec
    <3>4. \A k \in 1 .. nStates : st'[k].step = st[k].step
      <4>1. \A k \in StateId : k # i => st'[k] = st[k]
        BY <1>2, <3>1
      <4>2. 1 .. nStates \subseteq StateId
        BY BoundAssumption DEF Inv, TypeOK, StateId
      <4> QED
        BY <1>3, <3>3, <4>1, <4>2
    <3>5. /\ Fits(path, st[i].step, st[i].depth)'
          /\ LoopCurr(st[i])' = LoopCurr(st[i])
      BY <1>5, <3>1, <3>3, <3>4
    <3>6. Aims(path, r)'
      BY <2>1, <2>2, <2>3, <3>3, <3>5 DEF Aims
    <3> QED
      BY <3>3, <3>5, <3>6
  <2>4. CASE a.kind = "iterator"
    <3>1. /\ st' = [st EXCEPT ![i] = NewLoop(st[i])]
          /\ backing' = [backing EXCEPT ![d + 1] = i]
          /\ d < LoopCap
      BY <1>3, <1>8, <2>4 DEF CallStep
    <3>2. st'[i] = NewLoop(st[i])
      BY <1>2, <3>1
    <3>3. /\ st'[i].step = s /\ st'[i].depth = d + 1
          /\ st'[i].errHandler = st[i].errHandler
      BY <1>2, <1>3, <3>2, BoundAssumption DEF NewLoop, StateRec
    <3>4. \A k \in 1 .. nStates : st'[k].step = st[k].step
      <4>1. \A k \in StateId : k # i => st'[k] = st[k]
        BY <1>2, <3>1
      <4>2. 1 .. nStates \subseteq StateId
        BY BoundAssumption DEF Inv, TypeOK, StateId
      <4> QED
        BY <1>3, <3>3, <4>1, <4>2
    <3>5. /\ backing'[d + 1] = i
          /\ \A k \in 1 .. d : backing'[k] = backing[k]
      <4>1. backing \in [1 .. LoopCap -> 0 .. MaxStates] /\ d + 1 \in 1 .. LoopCap
        BY <1>2, <3>1, StackFull, BoundAssumption
      <4> QED
        BY <3>1, <4>1, BoundAssumption
    <3>6. Top(d)' = Top(d) /\ Nested(path, d)' = Nested(path, d)
      BY <1>4, <3>4, <3>5, StackStays
    <3>7. Top(d) = Enclosing[s]
      BY <1>1, <1>3, <1>8, CalledFits DEF CallStep
    <3>8. Kind[s] = "iterator"
      BY <2>2, <2>4
    <3>9. Top(d + 1)' = s
      BY <3>3, <3>5, BoundAssumption DEF Top
    <3>10. Nested(path, d + 1)'
      <4> SUFFICES ASSUME NEW k \in 1 .. d + 1
                   PROVE  LET t == st'[backing'[k]].step
                          IN /\ backing'[k] # 0
                             /\ t \in path /\ Kind[t] = "iterator"
                             /\ Top(k - 1)' = Enclosing[t]
        BY DEF Nested
      <4>1. CASE k = d + 1
        <5>1. k - 1 = d /\ i # 0
          BY <1>2, <4>1, BoundAssumption
        <5> QED
          BY <3>3, <3>5, <3>6, <3>7, <3>8, <4>1, <5>1
      <4>2. CASE k # d + 1
        <5>1. k \in 1 .. d
          BY <4>2, BoundAssumption
        <5>2. Nested(path, d)'
          BY <1>2, <1>3, <3>6
        <5> QED
          BY <5>1, <5>2 DEF Nested
      <4> QED
        BY <4>1, <4>2
    <3>11. Fits(path, st[i].step, st[i].depth)'
      <4>1. Within(s, s)
        BY <3>8 DEF Within
      <4>2. Fits(path, s, d + 1)'
        BY <3>9, <3>10, <4>1 DEF Fits
      <4> QED
        BY <3>3, <4>2
    <3>12. Aims(path, r)'
      <4>1. Top(st[i].depth)' = s
        BY <3>3, <3>9
      <4> QED
        BY <2>1, <2>2, <2>4, <3>3, <4>1 DEF Aims
    <3> QED
      BY <3>3, <3>11, <3>12
  <2> QED
    BY <2>3, <2>4
<1> QED
  BY <1>6, <1>7, <1>8

\* What follows, if anything, fits.
LEMMA OneArrives ==
  ASSUME Inv, NEW path \in SUBSET Step, OnePath(path), Ruled(path),
         NEW r \in RunId, run[r].pc \in {"call", "resolve"}, ToOne(path, r)
  PROVE  /\ nStates' \in {nStates, nStates + 1}
         /\ run'[r].pc = "post" /\ OthersKeep(r)
         /\ \A k \in 1 .. nStates : st'[k].step = st[k].step
         /\ \A k \in 1 .. nStates : k # run[r].state => st'[k] = st[k]
         /\ st'[run[r].state].errHandler \in Handlers(path) \cup {None}
         /\ \A k \in 1 .. nStates' : k \notin 1 .. nStates =>
               /\ st'[k].step \in path \cup {Final}
               /\ st'[k].errHandler \in Handlers(path) \cup {None}
               /\ st'[k].step # Final => Fits(path, st[k].step, st[k].depth)'
<1> DEFINE i == run[r].state
<1>1. PICK cur \in StateRec, steps \in Seq(Step \cup {Final}), err \in BOOLEAN :
       /\ Leave(r, cur, steps, err)
       /\ cur.step = st[i].step /\ cur.parent = st[i].parent
       /\ cur.errHandler \in Handlers(path) \cup {None}
       /\ \/ steps = <<>>
          \/ \E s : /\ steps = <<s>> /\ UNCHANGED backing
                    /\ s = Final \/ Fits(path, s, cur.depth)
  BY DEF ToOne
<1>2. LeavesAs(r, cur, steps, err)
  BY <1>1, LeaveFacts
<1>3. /\ \A k \in 1 .. nStates : st'[k].step = st[k].step
      /\ \A k \in 1 .. nStates : k # i => st'[k] = st[k]
      /\ st'[i] = cur /\ run'[r].pc = "post" /\ OthersKeep(r)
  BY <1>2 DEF LeavesAs, SamePlace
<1>4. nStates \in Nat /\ nStates' \in 0 .. MaxStates /\ i \in 1 .. nStates
  BY <1>2, RunState, BoundAssumption DEF LeavesAs, TypeOK
<1>5. CASE steps = <<>>
  <2>1. nStates' = nStates
    BY <1>2, <1>5 DEF LeavesAs
  <2> QED
    BY <1>1, <1>3, <2>1
<1>6. CASE steps # <<>>
  <2>1. PICK s : /\ steps = <<s>> /\ UNCHANGED backing
                 /\ s = Final \/ Fits(path, s, cur.depth)
    BY <1>1, <1>6
  <2>2. Len(steps) = 1 /\ steps[1] = s /\ s \in Step \cup {Final}
    <3>1. Len(<<s>>) = 1 /\ <<s>>[1] = s
      OBVIOUS
    <3>2. Len(steps) = 1 /\ steps[1] = s
      BY <2>1, <3>1
    <3> QED
      BY <3>2
  <2>3. nStates' = nStates + 1
    BY <1>1, <2>2 DEF Leave
  <2>4. PICK n \in StateId : n = nStates + 1
    BY <1>4, <2>3, BoundAssumption DEF StateId
  <2>5. st'[n] = Next1(cur, s)
    <3>1. /\ n # i /\ n \in nStates + 1 .. nStates + Len(steps)
          /\ n - nStates = 1
      BY <1>4, <2>2, <2>4
    <3>2. st' = [k \in StateId |->
                   IF k = i THEN cur
                   ELSE IF k \in nStates + 1 .. nStates + Len(steps)
                        THEN Next1(cur, steps[k - nStates]) ELSE st[k]]
      BY <1>1 DEF Leave
    <3> QED
      BY <2>2, <3>1, <3>2
  <2>6. CASE s = Final
    <3>1. st'[n].step = Final /\ st'[n].errHandler = None
      BY <2>5, <2>6 DEF Next1, NewState
    <3> QED
      BY <1>1, <1>3, <1>4, <2>3, <2>4, <3>1
  <2>7. CASE s # Final
    <3>1. Fits(path, s, cur.depth)
      BY <2>1, <2>7
    <3>2. /\ st'[n].step = s /\ st'[n].errHandler = cur.errHandler
          /\ st'[n].depth = cur.depth
      BY <2>5, <2>7 DEF Next1, NewState
    <3>3. PICK d \in 0 .. LoopCap : d = cur.depth
      BY DEF StateRec
    <3>4. \A k \in 1 .. d : backing[k] # 0 /\ backing'[k] = backing[k]
      BY <2>1, <3>1, <3>3 DEF Fits, Nested
    <3>5. Top(d)' = Top(d) /\ Nested(path, d)' = Nested(path, d)
      BY <1>3, <3>4, StackStays
    <3>6. Fits(path, s, d)'
      BY <3>1, <3>3, <3>5 DEF Fits
    <3>7. Fits(path, st[n].step, st[n].depth)' /\ st'[n].step \in path
      BY <3>1, <3>2, <3>3, <3>6 DEF Fits
    <3> QED
      BY <1>1, <1>3, <1>4, <2>3, <2>4, <3>2, <3>7
  <2> QED
    BY <2>6, <2>7
<1> QED
  BY <1>5, <1>6

SameLevel(i) ==
    /\ st'[i].step = st[i].step /\ st'[i].depth = st[i].depth
    /\ st'[i].errHandler = st[i].errHandler

\* After exec a goroutine leaves the stacks alone.
LEMMA ReportsKeepStacks ==
  ASSUME Inv, NEW r \in RunId, Run(r), run[r].pc \notin {"call", "resolve"}
  PROVE  /\ UNCHANGED <<backing, nStates>>
         /\ \A i \in 1 .. nStates : SameLevel(i)
         /\ run'[r].pc # "resolve" /\ OthersKeep(r)
<1>1. /\ run \in [RunId -> RunRec] /\ st \in [StateId -> StateRec]
      /\ 1 .. nStates \subseteq StateId /\ run[r] \in RunRec
  BY BoundAssumption DEF Inv, TypeOK, StateId
<1>2. CASE Recover(r) \/ CheckError(r) \/ PushError(r) \/ EnqueueAbandoned(r)
  <2>1. UNCHANGED <<st, nStates, backing>>
    BY <1>2 DEF Recover, CheckError, PushError, EnqueueAbandoned, stateVars, stepVars
  <2>2. run'[r].pc # "resolve" /\ OthersKeep(r)
    BY <1>1, <1>2 DEF Recover, CheckError, PushError, EnqueueAbandoned, OthersKeep,
       RunRec
  <2> QED
    BY <2>1, <2>2 DEF SameLevel
<1>3. CASE Notify(r) \/ Enqueue(r)
  <2>1. UNCHANGED <<st, nStates, backing>>
    BY <1>3 DEF Notify, Enqueue, stateVars, stepVars
  <2>2. run'[r].pc # "resolve" /\ OthersKeep(r)
    BY <1>1, <1>3 DEF Notify, Enqueue, OthersKeep, RunRec
  <2> QED
    BY <2>1, <2>2 DEF SameLevel
<1>4. CASE ReadStatus(r)
  <2>1. UNCHANGED <<nStates, backing>>
    BY <1>4 DEF ReadStatus, stepVars
  <2>2. run'[r].pc # "resolve" /\ OthersKeep(r)
    BY <1>1, <1>4 DEF ReadStatus, OthersKeep, RunRec
  <2>3. PICK e : st' = [st EXCEPT ![run[r].state].err = e]
    BY <1>4 DEF ReadStatus
  <2>4. \A i \in StateId : SameLevel(i)
    <3> SUFFICES ASSUME NEW i \in StateId PROVE SameLevel(i)
      OBVIOUS
    <3>1. CASE i = run[r].state
      BY <1>1, <2>3, <3>1 DEF SameLevel, StateRec
    <3>2. CASE i # run[r].state
      BY <1>1, <2>3, <3>2 DEF SameLevel
    <3> QED
      BY <3>1, <3>2
  <2> QED
    BY <1>1, <2>1, <2>2, <2>4
<1>5. Recover(r) \/ ReadStatus(r) \/ CheckError(r) \/ PushError(r) \/ Notify(r)
      \/ Enqueue(r) \/ EnqueueAbandoned(r)
  BY DEF Run, CallLoop, CallStep, CallPanics, CallStartFails, CallFails,
     ResolveVars, ResolveSteps, ResolvePartial, ResolveErrHandler, ResolveBreak,
     ResolveContinue, ResolveIterator, ResolveTermination, ResolveDelay,
     ResolvePrompt, AtResolve
<1> QED
  BY <1>2, <1>3, <1>4, <1>5

\* Only goroutines push and pop; Exec starts with an empty stack.
LEMMA OthersKeepStacks ==
  ASSUME Inv, Aux, [Next]_vars, ~GoroutineSteps
  PROVE  /\ UNCHANGED backing
         /\ \A i \in 1 .. nStates : SameLevel(i)
         /\ \A q \in RunId : run'[q] = run[q] \/ run'[q].pc = "call"
         /\ \/ nStates' = nStates
            \/ /\ nStates = 0 /\ nStates' = 1
               /\ \E s \in Step : Parents(s) = {}
                                  /\ st'[1] = NewState(s, None, None, 0)
<1> USE DEF engineVars, stateVars, chanVars, mapVars, endVars, runVars,
            stepVars, waitVars, resumeVars, callerVars, runKeeps, workerKeeps
<1>1. st \in [StateId -> StateRec] /\ 1 .. nStates \subseteq StateId
  BY BoundAssumption DEF Inv, TypeOK, StateId
<1>2. \A q \in RunId : run'[q] = run[q] \/ run'[q].pc = "call"
  BY OtherStep DEF Launches, OthersKeep, Idle
<1>3. CASE \E s \in Starts : Exec(s)
  <2>1. PICK s \in Starts : Exec(s)
    BY <1>3
  <2>2. nStates = 0 /\ backing' = backing /\ s \in Step
    BY <2>1, GraphAssumption DEF Exec, Aux
  <2>3. CASE Parents(s) # {}
    BY <1>2, <2>1, <2>2, <2>3 DEF Exec, SameLevel
  <2>4. CASE Parents(s) = {}
    <3>1. /\ st' = [st EXCEPT ![1] = NewState(s, None, None, 0)]
          /\ nStates' = 1
      BY <2>1, <2>4 DEF Exec
    <3>2. 1 \in StateId
      BY BoundAssumption DEF StateId
    <3>3. st'[1] = NewState(s, None, None, 0)
      BY <1>1, <3>1, <3>2
    <3> QED
      BY <1>2, <2>2, <2>4, <3>1, <3>3
  <2> QED
    BY <2>3, <2>4
<1>4. ASSUME NEW j, NEW b, st' = [st EXCEPT ![j].input = b]
      PROVE  \A i \in 1 .. nStates : SameLevel(i)
  <2>1. ASSUME NEW i \in StateId
        PROVE  SameLevel(i)
    <3>1. CASE i = j
      BY <1>1, <1>4, <3>1 DEF SameLevel, StateRec
    <3>2. CASE i # j
      BY <1>1, <1>4, <3>2 DEF SameLevel
    <3> QED
      BY <3>1, <3>2
  <2> QED
    BY <1>1, <2>1
<1>5. CASE \E u \in Users, i \in prompted, hasInput \in BOOLEAN :
               Resume(u, i, hasInput)
  <2>1. PICK u, i, hasInput : Resume(u, i, hasInput)
    BY <1>5
  <2>2. st' = [st EXCEPT ![i].input = hasInput]
    BY <2>1 DEF Resume
  <2>3. nStates' = nStates /\ backing' = backing
    BY <2>1 DEF Resume
  <2> QED
    BY <1>2, <1>4, <2>2, <2>3
<1>6. CASE \E i \in delayed : TickEnqueue(i)
  <2>1. PICK i : TickEnqueue(i)
    BY <1>6
  <2>2. st' = [st EXCEPT ![i].input = TRUE]
    BY <2>1 DEF TickEnqueue
  <2>3. nStates' = nStates /\ backing' = backing
    BY <2>1 DEF TickEnqueue
  <2> QED
    BY <1>2, <1>4, <2>2, <2>3
<1>7. CASE UNCHANGED <<st, nStates, backing>>
  BY <1>2, <1>7 DEF SameLevel
<1>8. CASE Worker /\ ~(\E i \in delayed : TickEnqueue(i))
  BY <1>7, <1>8 DEF Worker, WorkerDone, TickBegin, TickLock, TickEnd, Dequeue, FinalCheck,
     SetResult, NotifyCompleted, StartRun, TakeErr, SetErr, Stop
<1>9. CASE ResumeEnqueue \/ ResumeAbandoned
  BY <1>7, <1>9 DEF ResumeEnqueue, ResumeAbandoned
<1>10. CASE Wait \/ Waiter \/ CallerGone \/ Shutdown
           \/ (\E i \in delayed : BecomeDue(i))
           \/ (\E s \in Shared, p \in Step : ReachedElsewhere(s, p))
  BY <1>7, <1>10 DEF Wait, Waiter, WaitTick, WaitCheck, WaitTimeout, Cancel,
     CallerGone, Shutdown, BecomeDue, ReachedElsewhere
<1>11. CASE Rest \/ UNCHANGED vars
  BY <1>7, <1>11 DEF Rest, vars
<1> QED
  BY <1>3, <1>5, <1>6, <1>8, <1>9, <1>10, <1>11 DEF Next, GoroutineSteps

\* The invariant outlives a step that leaves the stacks alone and makes nothing.
LEMMA RuledStays ==
  ASSUME Inv, NEW path \in SUBSET Step, Ruled(path),
         UNCHANGED <<backing, nStates>>,
         \A i \in 1 .. nStates : SameLevel(i) /\ (Somewhere(i)' => Somewhere(i)),
         \A q \in RunId : run'[q] = run[q] \/ run'[q].pc # "resolve"
  PROVE  Ruled(path)'
<1>1. \A i \in 1 .. nStates : st'[i].step = st[i].step
  BY DEF SameLevel
<1>2. 1 .. nStates \subseteq StateId
  BY BoundAssumption DEF Inv, TypeOK, StateId
<1>3. ASSUME NEW i \in 1 .. nStates
      PROVE  /\ Top(st[i].depth)' = Top(st[i].depth)
             /\ Fits(path, st[i].step, st[i].depth)' = Fits(path, st[i].step, st[i].depth)
             /\ LoopCurr(st[i])' = LoopCurr(st[i])
  <2>1. PICK d \in 0 .. LoopCap : d = st[i].depth /\ \A k \in 1 .. d : backing[k] # 0
    BY <1>2, StackFull
  <2>2. Top(d)' = Top(d) /\ Nested(path, d)' = Nested(path, d)
    BY <1>1, <2>1, StackStays
  <2>3. st'[i].depth = d /\ st'[i].step = st[i].step
    BY <2>1 DEF SameLevel
  <2>4. Fits(path, st[i].step, st[i].depth)' = Fits(path, st[i].step, st[i].depth)
    BY <2>1, <2>2, <2>3 DEF Fits, Within
  <2> QED
    BY <2>1, <2>2, <2>3, <2>4 DEF LoopCurr
<1>4. ASSUME NEW i \in 1 .. nStates
      PROVE  /\ st'[i].step \in path \cup {Final}
             /\ st'[i].errHandler \in Handlers(path) \cup {None}
             /\ Somewhere(i)' /\ st'[i].step # Final =>
                   Fits(path, st[i].step, st[i].depth)'
  BY <1>1, <1>3 DEF Ruled, SameLevel
<1>5. \A i, k \in 1 .. nStates : Somewhere(i)' /\ Somewhere(k)' => i = k
  BY DEF Ruled
<1>6. ASSUME NEW r \in RunId
      PROVE  Aims(path, r)'
  <2>1. CASE run'[r].pc # "resolve"
    BY <2>1 DEF Aims
  <2>2. CASE run'[r] = run[r] /\ run[r].pc = "resolve"
    <3>1. PICK i \in 1 .. nStates : i = run[r].state
      BY <2>2, RunState
    <3>2. /\ st'[i].step = st[i].step
          /\ Top(st[i].depth)' = Top(st[i].depth)
          /\ LoopCurr(st[i])' = LoopCurr(st[i])
      BY <1>1, <1>3
    <3>3. Aims(path, r)
      BY DEF Ruled
    <3> QED
      BY <2>2, <3>1, <3>2, <3>3 DEF Aims
  <2> QED
    BY <2>1, <2>2
<1> QED
  BY <1>4, <1>5, <1>6 DEF Ruled

\* The path, once begun, is followed one state at a time.
Nests(path) == st[1].step \in path => Ruled(path)

\* The only goroutine that executes something, and the only state.
LEMMA OneExecutes ==
  ASSUME Inv, NEW path \in SUBSET Step, Ruled(path), NEW r \in RunId, InExecBy(r),
         NEW q \in RunId, q # r
  PROVE  ~InExecBy(q)
<1> SUFFICES ASSUME InExecBy(q) PROVE FALSE
  OBVIOUS
<1>1. run[q].state \in 1 .. nStates /\ Somewhere(run[q].state)
  BY RunState DEF InExecBy, Somewhere, Running
<1>2. run[q].state = run[r].state
  BY <1>1, ExecutedFits
<1> QED
  BY <1>2, ExecutedThere

\* A goroutine that executes a step keeps to the path.
LEMMA ExecRuled ==
  ASSUME Inv, Aux, Orderly, NEW path \in SUBSET Step, OnePath(path), Ruled(path),
         NEW r \in RunId, Run(r), run[r].pc \in {"call", "resolve"}
  PROVE  Ruled(path)'
<1>1. InExecBy(r)
  BY DEF InExecBy
<1>2. PICK i \in StateId : /\ i = run[r].state /\ i \in 1 .. nStates
                           /\ \A k \in 1 .. nStates : Somewhere(k) => k = i
                           /\ Fits(path, st[i].step, st[i].depth)
                           /\ st[i].errHandler \in Handlers(path) \cup {None}
  BY <1>1, ExecutedFits
<1>3. \A k \in 1 .. nStates : Somewhere(k)' => Somewhere(k) /\ k = i
  BY <1>2, GoroutineMoves
<1>4. \A q \in RunId : q # r => run[q].pc # "resolve"
  BY <1>1, OneExecutes DEF InExecBy
<1>5. CASE \/ CallLoop(r) \/ CallPanics(r)
           \/ \E a \in Answers(run[r].state) : CallStep(r, a)
  <2>1. Executes(r)
    BY <1>5, CallShape
  <2>2. /\ nStates' = nStates /\ OthersKeep(r)
        /\ \A k \in 1 .. nStates : st'[k].step = st[k].step
                                   /\ (k # i => st'[k] = st[k])
    BY <1>2, <2>1 DEF Executes, SamePlace
  <2>3. /\ Fits(path, st[i].step, st[i].depth)'
        /\ st'[i].errHandler = st[i].errHandler
        /\ Aims(path, r)'
    BY <1>2, <1>5, CallOne
  <2>4. \A q \in RunId : Aims(path, q)'
    BY <1>4, <2>2, <2>3 DEF Aims, OthersKeep
  <2>5. \A k \in 1 .. nStates : st'[k].errHandler \in Handlers(path) \cup {None}
    BY <1>2, <2>2, <2>3 DEF Ruled
  <2>6. \A k \in 1 .. nStates : st'[k].step \in path \cup {Final}
    BY <2>2 DEF Ruled
  <2>7. \A k \in 1 .. nStates : Somewhere(k)' =>
           Fits(path, st[k].step, st[k].depth)'
    BY <1>3, <2>3
  <2>8. \A k, l \in 1 .. nStates : Somewhere(k)' /\ Somewhere(l)' => k = l
    BY <1>3
  <2> QED
    BY <2>2, <2>4, <2>5, <2>6, <2>7, <2>8 DEF Ruled
<1>6. CASE ResolveDelay(r) /\ delayedNil
  <2>1. UNCHANGED <<st, nStates, backing>> /\ run' = [run EXCEPT ![r].pc = "panic"]
    BY <1>6 DEF ResolveDelay, stateVars, stepVars
  <2>2. \A q \in RunId : run'[q] = run[q] \/ run'[q].pc # "resolve"
    BY <2>1 DEF Inv, TypeOK, RunRec
  <2> QED
    BY <1>3, <2>1, <2>2, RuledStays DEF SameLevel
<1>7. CASE ToOne(path, r)
  <2>1. /\ nStates' \in {nStates, nStates + 1}
        /\ run'[r].pc = "post" /\ OthersKeep(r)
        /\ \A k \in 1 .. nStates : st'[k].step = st[k].step
        /\ \A k \in 1 .. nStates : k # i => st'[k] = st[k]
        /\ st'[i].errHandler \in Handlers(path) \cup {None}
        /\ \A k \in 1 .. nStates' : k \notin 1 .. nStates =>
              /\ st'[k].step \in path \cup {Final}
              /\ st'[k].errHandler \in Handlers(path) \cup {None}
              /\ st'[k].step # Final => Fits(path, st[k].step, st[k].depth)'
    BY <1>2, <1>7, OneArrives
  <2>2. nStates \in Nat
    BY BoundAssumption DEF Inv, TypeOK
  <2>3. Somewhere(i)' =>
           /\ nStates' = nStates
           /\ st'[i] = st[i] /\ backing' = backing
    <3> SUFFICES ASSUME Somewhere(i)'
                 PROVE  nStates' = nStates /\ st'[i] = st[i] /\ backing' = backing
      OBVIOUS
    <3>1. ~Executes(r)
      BY <2>1 DEF Executes
    <3>2. /\ Departs(r) /\ ~run'[r].err /\ st'[i] = st[i]
          /\ run[r].resp \in {"delay", "prompt"}
      BY <1>1, <1>2, <3>1, GoroutineMoves
    <3>3. run[r].pc = "resolve"
      BY <3>2 DEF Orderly
    <3>4. backing' = backing
      BY <3>3 DEF Run, CallLoop, CallStep, CallPanics, CallStartFails, CallFails,
         ResolveVars, ResolveSteps, ResolvePartial, ResolveErrHandler,
         ResolveBreak, ResolveContinue, ResolveIterator, ResolveTermination,
         ResolveDelay, ResolvePrompt, Recover, ReadStatus, CheckError, PushError,
         Notify, Enqueue, EnqueueAbandoned, stepVars
    <3> QED
      BY <3>2, <3>4 DEF Departs
  <2>4. \A q \in RunId : Aims(path, q)'
    BY <1>4, <2>1 DEF Aims, OthersKeep
  <2>5. \A k \in 1 .. nStates' :
           /\ st'[k].step \in path \cup {Final}
           /\ st'[k].errHandler \in Handlers(path) \cup {None}
    BY <2>1 DEF Ruled
  <2>6. ASSUME NEW k \in 1 .. nStates', Somewhere(k)', st'[k].step # Final
        PROVE  Fits(path, st[k].step, st[k].depth)'
    <3>1. CASE k \notin 1 .. nStates
      BY <2>1, <2>6, <3>1
    <3>2. CASE k \in 1 .. nStates
      <4>1. k = i /\ backing' = backing /\ st'[i] = st[i]
        BY <1>3, <2>3, <2>6, <3>2
      <4>2. PICK d \in 0 .. LoopCap :
               d = st[i].depth /\ \A l \in 1 .. d : backing[l] # 0
        BY StackFull
      <4>3. Top(d)' = Top(d) /\ Nested(path, d)' = Nested(path, d)
        BY <2>1, <4>1, <4>2, StackStays
      <4> QED
        BY <1>2, <4>1, <4>2, <4>3 DEF Fits, Within
    <3> QED
      BY <3>1, <3>2
  <2>7. ASSUME NEW k \in 1 .. nStates', NEW l \in 1 .. nStates',
               Somewhere(k)', Somewhere(l)'
        PROVE  k = l
    <3>1. CASE Somewhere(i)'
      BY <1>3, <2>3, <2>7, <3>1
    <3>2. CASE ~Somewhere(i)'
      <4>1. k \notin 1 .. nStates /\ l \notin 1 .. nStates
        BY <1>3, <2>7, <3>2
      <4> QED
        BY <2>1, <2>2, <4>1
    <3> QED
      BY <3>1, <3>2
  <2> QED
    BY <2>4, <2>5, <2>6, <2>7 DEF Ruled
<1>8. CASE \/ CallStartFails(r) \/ CallFails(r)
           \/ ResolveIterator(r) \/ ResolveBreak(r)
  BY <1>7, <1>8, FailsOne, LoopOne
<1>9. CASE \/ ResolveVars(r) \/ ResolveSteps(r) \/ ResolveErrHandler(r)
           \/ ResolveContinue(r) \/ ResolvePartial(r) \/ ResolveTermination(r)
           \/ ResolvePrompt(r) \/ (ResolveDelay(r) /\ ~delayedNil)
  BY <1>7, <1>9, ResolveOne
<1>10. ~(Recover(r) \/ ReadStatus(r) \/ CheckError(r) \/ PushError(r) \/ Notify(r)
         \/ Enqueue(r) \/ EnqueueAbandoned(r))
  BY DEF Recover, ReadStatus, CheckError, PushError, Notify, Enqueue,
     EnqueueAbandoned
<1> QED
  BY <1>5, <1>6, <1>8, <1>9, <1>10 DEF Run

\* No step leads off the path.
LEMMA NestsStep ==
  ASSUME Inv, Aux, Orderly, NEW path \in SUBSET Step, OnePath(path), Nests(path),
         [Next]_vars
  PROVE  Nests(path)'
<1> SUFFICES ASSUME st'[1].step \in path PROVE Ruled(path)'
  BY DEF Nests
<1>1. nStates \in Nat
  BY BoundAssumption DEF Inv, TypeOK
<1>2. Ruled(path)
  <2>1. CASE nStates = 0
    <3>1. \A r \in RunId : run[r].pc # "resolve"
      BY <2>1, RunState
    <3> QED
      BY <2>1, <3>1 DEF Ruled, Aims
  <2>2. CASE nStates # 0
    <3>1. 1 \in 1 .. nStates
      BY <1>1, <2>2
    <3>2. st'[1].step = st[1].step
      BY <3>1, PlacesStay DEF SamePlace
    <3> QED
      BY <3>2 DEF Nests
  <2> QED
    BY <2>1, <2>2
<1>3. CASE ~GoroutineSteps
  <2>1. /\ UNCHANGED backing
        /\ \A i \in 1 .. nStates : SameLevel(i)
        /\ \A q \in RunId : run'[q] = run[q] \/ run'[q].pc = "call"
    BY <1>3, OthersKeepStacks
  <2>2. CASE nStates' = nStates
    <3>1. \A i \in 1 .. nStates : Somewhere(i)' => Somewhere(i)
      BY <1>3, OtherMoves
    <3>2. \A q \in RunId : run'[q] = run[q] \/ run'[q].pc # "resolve"
      BY <2>1
    <3> QED
      BY <1>2, <2>1, <2>2, <3>1, <3>2, RuledStays
  <2>3. CASE nStates' # nStates
    <3>1. PICK s \in Step : /\ nStates = 0 /\ nStates' = 1 /\ Parents(s) = {}
                            /\ st'[1] = NewState(s, None, None, 0)
      BY <1>3, <2>3, OthersKeepStacks
    <3>2. st'[1].step = s /\ st'[1].depth = 0 /\ st'[1].errHandler = None /\ s \in path
      BY <3>1 DEF NewState
    <3>3. Enclosing[s] = None
      BY <3>1, <3>2, PathFacts
    <3>4. Fits(path, s, 0)'
      BY <3>2, <3>3 DEF Fits, Within, Nested, Top
    <3>5. Fits(path, st[1].step, st[1].depth)'
      BY <3>2, <3>4
    <3>6. \A q \in RunId : run[q].pc # "resolve"
      BY <3>1, RunState
    <3>7. \A q \in RunId : Aims(path, q)'
      BY <2>1, <3>6 DEF Aims
    <3>8. 1 .. nStates' = {1}
      BY <3>1
    <3> QED
      BY <3>2, <3>5, <3>7, <3>8 DEF Ruled
  <2> QED
    BY <2>2, <2>3
<1>4. ASSUME NEW r \in RunId, Run(r)
      PROVE  Ruled(path)'
  <2>1. CASE run[r].pc \in {"call", "resolve"}
    BY <1>2, <1>4, <2>1, ExecRuled
  <2>2. CASE run[r].pc \notin {"call", "resolve"}
    <3>1. /\ UNCHANGED <<backing, nStates>>
          /\ \A i \in 1 .. nStates : SameLevel(i)
          /\ run'[r].pc # "resolve" /\ OthersKeep(r)
      BY <1>4, <2>2, ReportsKeepStacks
    <3>2. \A i \in 1 .. nStates : Somewhere(i)' => Somewhere(i)
      BY <1>4, GoroutineMoves
    <3>3. \A q \in RunId : run'[q] = run[q] \/ run'[q].pc # "resolve"
      BY <3>1 DEF OthersKeep
    <3> QED
      BY <1>2, <3>1, <3>2, <3>3, RuledStays
  <2> QED
    BY <2>1, <2>2
<1> QED
  BY <1>3, <1>4 DEF GoroutineSteps

\* In a session that follows one path, a goroutine about to execute a step has
\* on top of its loop stack the iterator whose body the step is in: pushes in
\* newLoop, pops in loopEnd, the ways back from the end of a body, from break
\* and from continue, errors taken over by a handler, and delays and prompts
\* resumed in the middle of a body keep it so (session.go 630-830, state.go
\* 84-129).
THEOREM LoopsNestOnOnePath ==
  ASSUME NEW path \in SUBSET Step, OnePath(path)
  PROVE  Spec => [](st[1].step \in path => LoopStackNests)
<1>1. Init => Nests(path)
  <2> SUFFICES ASSUME Init PROVE Nests(path)
    OBVIOUS
  <2>1. st[1].step = None
    <3>1. 1 \in StateId
      BY BoundAssumption DEF StateId
    <3> QED
      BY <3>1 DEF Init, Unused, NewState
  <2> QED
    BY <2>1, GraphAssumption DEF Nests
<1>2. Inv /\ Aux /\ Orderly /\ Nests(path) /\ [Next]_vars => Nests(path)'
  BY NestsStep
<1>3. Inv /\ Nests(path) => (st[1].step \in path => LoopStackNests)
  <2> SUFFICES ASSUME Inv, Ruled(path), NEW r \in RunId, run[r].pc = "call"
               PROVE  LET curr == LoopCurr(st[run[r].state])
                      IN Within(st[run[r].state].step,
                                IF curr = 0 THEN None ELSE st[curr].step)
    BY DEF Nests, LoopStackNests
  <2>1. InExecBy(r)
    BY DEF InExecBy
  <2>2. /\ run[r].state \in StateId
        /\ Fits(path, st[run[r].state].step, st[run[r].state].depth)
    BY <2>1, ExecutedFits
  <2> QED
    BY <2>2, TopIsCurr DEF Fits
<1> QED
  BY <1>1, <1>2, <1>3, OrderAlways, PTL DEF Spec

-----------------------------------------------------------------------------
(* The engine implements its life cycle *)

Reporters == RunId \cup {0}

\* the engine's part of the life cycle other than the reports
SameLock    == mux' = Free <=> mux = Free
SameMaps    == UNCHANGED <<prompted, delayed>>
SameReports == \A q \in Reporters : LifeReport(q)' = LifeReport(q)
OnlyReport(r, val) ==
    /\ LifeReport(r)' = val
    /\ \A q \in Reporters : q # r => LifeReport(q)' = LifeReport(q)

LEMMA WorkerIsNoRun == 0 \notin RunId
BY DEF RunId

\* A step that changes nothing the life cycle sees is a stutter.
LEMMA LifeStutter ==
  ASSUME LifeOutcome' = LifeOutcome, SameMaps, SameLock, SameReports
  PROVE  UNCHANGED Life!lifeVars
BY DEF SameMaps, SameLock, SameReports, Reporters, Life!lifeVars

\* A goroutine that has executed its step, suspended or not.
LEMMA LifeFinish ==
  ASSUME NEW r \in RunId, LifeReport(r) = "none", OnlyReport(r, "due"),
         LifeOutcome' = LifeOutcome, SameMaps, SameLock
  PROVE  Life!Finish(It, r)
BY DEF OnlyReport, SameMaps, SameLock, Reporters, Life!Finish, Life!Executed

\* A prompt is registered.
LEMMA LifePrompt ==
  ASSUME NEW r \in RunId, NEW t, LifeReport(r) = "none", OnlyReport(r, "due"),
         mux = Free, prompted' = prompted \cup {t}, delayed' = delayed,
         LifeOutcome' = LifeOutcome, SameLock
  PROVE  Life!Prompt(It, r, t)
BY DEF OnlyReport, SameLock, Reporters, Life!Prompt, Life!Executed

\* A state is delayed.
LEMMA LifeDelay ==
  ASSUME NEW r \in RunId, NEW t, LifeReport(r) = "none", OnlyReport(r, "due"),
         mux = Free, delayed' = delayed \cup {t}, prompted' = prompted,
         LifeOutcome' = LifeOutcome, SameLock
  PROVE  Life!Delay(It, r, t)
BY DEF OnlyReport, SameLock, Reporters, Life!Delay, Life!Executed

\* A termination drops the delayed states.
LEMMA LifeTerminate ==
  ASSUME NEW r \in RunId, LifeReport(r) = "none", OnlyReport(r, "due"),
         mux = Free, delayed' = {}, prompted' = prompted,
         LifeOutcome' = LifeOutcome, SameLock
  PROVE  Life!Terminate(It, r)
BY DEF OnlyReport, SameLock, Reporters, Life!Terminate, Life!Executed

\* A goroutine reads the status: the order of the cases of Status is the one
\* of the life cycle.
LEMMA LifeReads ==
  ASSUME NEW r \in RunId, LifeReport(r) = "due", OnlyReport(r, CurStatus),
         mux = Free, LifeOutcome' = LifeOutcome, SameMaps, SameLock
  PROVE  Life!ReadStatus(It, r)
<1>1. Life!StatusOf(It) = CurStatus
  BY DEF Life!StatusOf, LifeOutcome, CurStatus
<1> QED
  BY <1>1 DEF OnlyReport, SameMaps, SameLock, Reporters, Life!ReadStatus

\* A goroutine has an unhandled error.
LEMMA LifeRaise ==
  ASSUME NEW r \in RunId, LifeReport(r) \in Status, OnlyReport(r, "failed"),
         mux = Free, mux' # Free, LifeOutcome' = LifeOutcome, SameMaps
  PROVE  Life!Raise(It, r)
BY DEF OnlyReport, SameMaps, Reporters, Status, Life!Status, Life!Raise

\* A report reaches the event handler.
LEMMA LifeDeliver ==
  ASSUME NEW r \in Reporters, LifeReport(r) \in Status, OnlyReport(r, "none"),
         LifeOutcome' = LifeOutcome, SameMaps, SameLock
  PROVE  Life!Deliver(It, r)
BY DEF OnlyReport, SameMaps, SameLock, Reporters, Status, Life!Status, Life!Deliver

\* A prompt is answered, a delay is over.
LEMMA LifeAnswer ==
  ASSUME NEW t \in prompted, mux = Free, mux' # Free, prompted' = prompted \ {t},
         delayed' = delayed, LifeOutcome' = LifeOutcome, SameReports
  PROVE  Life!Answer(It, t)
BY DEF SameReports, Reporters, Life!Answer

LEMMA LifeRequeue ==
  ASSUME NEW t \in delayed, mux # Free, SameLock, delayed' = delayed \ {t},
         prompted' = prompted, LifeOutcome' = LifeOutcome, SameReports
  PROVE  Life!Requeue(It, t)
BY DEF SameLock, SameReports, Reporters, Life!Requeue

\* Somebody takes the lock into, or leaves, a critical section that can block.
LEMMA LifeLock ==
  ASSUME mux = Free, mux' # Free, LifeOutcome' = LifeOutcome, SameMaps, SameReports
  PROVE  Life!Lock(It)
BY DEF SameMaps, SameReports, Reporters, Life!Lock

LEMMA LifeUnlock ==
  ASSUME mux # Free, mux' = Free, LifeOutcome' = LifeOutcome, SameMaps, SameReports
  PROVE  Life!Unlock(It)
BY DEF SameMaps, SameReports, Reporters, Life!Unlock

\* The session ends.
LEMMA LifeComplete ==
  ASSUME mux = Free, SameLock, LifeOutcome = "running", LifeOutcome' = "completed",
         SameMaps, OnlyReport(0, "completed")
  PROVE  Life!Complete(It)
BY DEF SameMaps, SameLock, OnlyReport, Reporters, Life!Complete

LEMMA LifeFail ==
  ASSUME mux = Free, SameLock, LifeOutcome = "running", LifeOutcome' = "failed",
         SameMaps, SameReports
  PROVE  Life!Fail(It)
BY DEF SameMaps, SameLock, SameReports, Reporters, Life!Fail

\* Each of these is a step of the life cycle.
LEMMA LifeSteps ==
    /\ \A r \in RunId :
          /\ Life!Finish(It, r) \/ Life!Terminate(It, r) \/ Life!ReadStatus(It, r)
                \/ Life!Raise(It, r) => Life!LifeNext
          /\ \A t \in StateId : Life!Prompt(It, r, t) \/ Life!Delay(It, r, t) => Life!LifeNext
    /\ \A r \in Reporters : Life!Deliver(It, r) => Life!LifeNext
    /\ \A t \in StateId : Life!Answer(It, t) \/ Life!Requeue(It, t) => Life!LifeNext
    /\ Life!Lock(It) \/ Life!Unlock(It) \/ Life!Complete(It) \/ Life!Fail(It) => Life!LifeNext
BY DEF Reporters, Life!Reporter, Life!LifeNext, Life!Progress

-----------------------------------------------------------------------------
(* Step goroutines *)

\* A step goroutine changes its own report only, and no outcome.
LEMMA RunReports ==
  ASSUME TypeOK, NEW r \in RunId, Run(r)
  PROVE  /\ LifeOutcome' = LifeOutcome
         /\ \A q \in Reporters : q # r => LifeReport(q)' = LifeReport(q)
<1>1. UNCHANGED <<result, sesErr, worker>>
  BY RunKeepsRest DEF endVars
<1>2. \A q \in RunId : q # r => run'[q] = run[q]
  BY RunPcs
<1> QED
  BY <1>1, <1>2 DEF LifeOutcome, LifeReport, Reporters

\* Before it has executed its step a goroutine has nothing to report, and the
\* moment it has it owes a report.
LEMMA RunLeft ==
  ASSUME run \in [RunId -> RunRec], NEW r \in RunId,
         NEW cur, NEW steps, NEW err, Leave(r, cur, steps, err)
  PROVE  LifeReport(r)' = "due"
<1>1. run'[r].pc = "post"
  BY LeavePost
<1>2. r # 0
  BY WorkerIsNoRun
<1> QED
  BY <1>1, <1>2 DEF LifeReport

\* Steps before the response is resolved, after the report was made, and the
\* check of an error that needs no push: the life cycle sees nothing.
LEMMA RunQuiet ==
  ASSUME TypeOK, NEW r \in RunId,
         \/ CallLoop(r) \/ (\E a \in Answers(run[r].state) : CallStep(r, a))
         \/ CallPanics(r) \/ Enqueue(r) \/ EnqueueAbandoned(r)
         \/ CheckError(r) /\ ~Fails(st[run[r].state])
  PROVE  UNCHANGED Life!lifeVars
<1>1. run \in [RunId -> RunRec] /\ r # 0
  BY WorkerIsNoRun DEF TypeOK
<1>2. Run(r)
  BY DEF Run
<1>3. SameMaps /\ SameLock
  BY DEF CallLoop, CallStep, CallPanics, Enqueue, EnqueueAbandoned, CheckError,
     mapVars, SameMaps, SameLock
<1>4. LifeReport(r)' = LifeReport(r)
  <2>1. CASE CallLoop(r)
    BY <1>1, <2>1 DEF CallLoop, RunRec, LifeReport
  <2>2. CASE \E a \in Answers(run[r].state) : CallStep(r, a)
    <3>1. PICK a \in Answers(run[r].state) : CallStep(r, a)
      BY <2>2
    <3>2. run[r].pc = "call"
          /\ run' = [run EXCEPT ![r].pc = "resolve", ![r].curr = LoopCurr(st[run[r].state]),
                                ![r].resp = a.kind, ![r].to = a.to]
      BY <3>1 DEF CallStep
    <3>3. run'[r].pc = "resolve"
      BY <1>1, <3>2 DEF RunRec
    <3> QED
      BY <1>1, <3>2, <3>3 DEF LifeReport
  <2>3. CASE CallPanics(r)
    BY <1>1, <2>3 DEF CallPanics, RunRec, LifeReport
  <2>4. CASE Enqueue(r)
    <3>1. run[r].pc = "enqueue" /\ run'[r].pc \in {"done", "enqueue"}
      BY <1>1, <2>4, ZenonT(60) DEF Enqueue, RunRec
    <3> QED
      BY <1>1, <3>1 DEF LifeReport
  <2>5. CASE EnqueueAbandoned(r)
    BY <1>1, <2>5 DEF EnqueueAbandoned, RunRec, LifeReport
  <2>6. CASE CheckError(r) /\ ~Fails(st[run[r].state])
    BY <1>1, <2>6 DEF CheckError, RunRec, LifeReport
  <2> QED
    BY <2>1, <2>2, <2>3, <2>4, <2>5, <2>6
<1>5. SameReports
  BY <1>2, <1>4, RunReports DEF SameReports
<1> QED
  BY <1>2, <1>3, <1>5, RunReports, LifeStutter

\* Steps that leave exec without touching the maps or the lock.
LEMMA RunFinishes ==
  ASSUME TypeOK, NEW r \in RunId,
         \/ CallStartFails(r) \/ CallFails(r) \/ Recover(r)
         \/ ResolveVars(r) \/ ResolveSteps(r) \/ ResolveIterator(r)
         \/ ResolveErrHandler(r) \/ ResolveBreak(r) \/ ResolveContinue(r)
         \/ ResolvePartial(r)
         \/ ResolvePrompt(r) /\ PromptOwner[st[run[r].state].step] = NoUser
  PROVE  Life!Finish(It, r)
<1>1. run \in [RunId -> RunRec] /\ r # 0
  BY WorkerIsNoRun DEF TypeOK
<1>2. Run(r)
  BY DEF Run
<1>3. SameMaps /\ SameLock
  BY DEF CallStartFails, CallFails, Recover, ResolveVars, ResolveSteps,
     ResolveIterator, ResolveErrHandler, ResolveBreak, ResolveContinue,
     ResolvePartial, ResolvePrompt, mapVars, SameMaps, SameLock
<1>4. LifeReport(r) = "none"
  BY <1>1 DEF CallStartFails, CallFails, Recover, ResolveVars, ResolveSteps,
     ResolveIterator, ResolveErrHandler, ResolveBreak, ResolveContinue,
     ResolvePartial, ResolvePrompt, AtResolve, LifeReport
<1>5. LifeReport(r)' = "due"
  <2>1. CASE Recover(r)
    BY <1>1, <2>1 DEF Recover, RunRec, LifeReport
  <2>2. CASE CallStartFails(r) \/ CallFails(r) \/ ResolvePartial(r)
    BY <1>1, <2>2, RunLeft DEF CallStartFails, CallFails, ResolvePartial
  <2>3. CASE ResolveVars(r) \/ ResolveSteps(r) \/ ResolveErrHandler(r)
             \/ ResolveBreak(r) \/ ResolveContinue(r)
    BY <1>1, <2>3, RunLeft DEF ResolveVars, ResolveSteps, ResolveErrHandler,
       ResolveBreak, ResolveContinue, Follow
  <2>4. CASE ResolveIterator(r)
    BY <1>1, <2>4, RunLeft DEF ResolveIterator, Follow
  <2>5. CASE ResolvePrompt(r) /\ PromptOwner[st[run[r].state].step] = NoUser
    BY <1>1, <2>5, RunLeft DEF ResolvePrompt
  <2> QED
    BY <2>1, <2>2, <2>3, <2>4, <2>5
<1>6. OnlyReport(r, "due")
  BY <1>2, <1>5, RunReports DEF OnlyReport
<1> QED
  BY <1>2, <1>3, <1>4, <1>6, RunReports, LifeFinish

\* A goroutine that was started executes a state that exists.
LEMMA SuspendedIsState ==
  ASSUME TypeOK, NavigationSafe, NEW r \in RunId, run[r].pc = "resolve"
  PROVE  run[r].state \in StateId
BY BoundAssumption DEF TypeOK, NavigationSafe, IsOrdinary, StateId

\* Steps that suspend the state, end the session's delays, or lose the lock.
LEMMA RunSuspends ==
  ASSUME TypeOK, NavigationSafe, NEW r \in RunId,
         \/ ResolveTermination(r) \/ ResolveDelay(r)
         \/ ResolvePrompt(r) /\ PromptOwner[st[run[r].state].step] # NoUser
  PROVE  Life!LifeNext
<1>1. run \in [RunId -> RunRec] /\ r # 0 /\ r \in Reporters
  BY WorkerIsNoRun DEF TypeOK, Reporters
<1>2. Run(r) /\ mux = Free
  BY DEF Run, ResolveTermination, ResolveDelay, ResolvePrompt
<1>3. LifeReport(r) = "none" /\ run[r].pc = "resolve"
  BY <1>1 DEF ResolveTermination, ResolveDelay, ResolvePrompt, AtResolve, LifeReport
<1>4. CASE ResolveDelay(r) /\ delayedNil
  <2>1. mux' # Free /\ SameMaps
    BY <1>4 DEF ResolveDelay, mapVars, SameMaps, Free
  <2>2. LifeReport(r)' = "none"
    BY <1>1, <1>4 DEF ResolveDelay, RunRec, LifeReport
  <2>3. SameReports
    BY <1>2, <1>3, <2>2, RunReports DEF SameReports
  <2> QED
    BY <1>2, <2>1, <2>3, RunReports, LifeLock, LifeSteps
<1>5. CASE ~(ResolveDelay(r) /\ delayedNil)
  <2>1. LifeReport(r)' = "due" /\ mux' = mux
    BY <1>1, <1>5, RunLeft DEF ResolveTermination, ResolveDelay, ResolvePrompt
  <2>2. OnlyReport(r, "due") /\ SameLock
    BY <1>2, <2>1, RunReports DEF OnlyReport, SameLock
  <2>3. CASE ResolveTermination(r)
    <3>1. delayed' = {} /\ prompted' = prompted
      BY <2>3 DEF ResolveTermination
    <3> QED
      BY <1>2, <1>3, <2>2, <3>1, RunReports, LifeTerminate, LifeSteps
  <2>4. CASE ResolveDelay(r)
    <3>1. run[r].state \in StateId
      BY <1>2, <1>3, <2>4, SuspendedIsState
    <3>2. delayed' = delayed \cup {run[r].state} /\ prompted' = prompted
      BY <1>5, <2>4 DEF ResolveDelay
    <3> QED
      BY <1>2, <1>3, <2>2, <3>1, <3>2, RunReports, LifeDelay, LifeSteps
  <2>5. CASE ResolvePrompt(r) /\ PromptOwner[st[run[r].state].step] # NoUser
    <3>1. run[r].state \in StateId
      BY <1>2, <1>3, <2>5, SuspendedIsState
    <3>2. prompted' = prompted \cup {run[r].state} /\ delayed' = delayed
      BY <2>5 DEF ResolvePrompt
    <3> QED
      BY <1>2, <1>3, <2>2, <3>1, <3>2, RunReports, LifePrompt, LifeSteps
  <2> QED
    BY <2>3, <2>4, <2>5
<1> QED
  BY <1>4, <1>5

\* The report of an executed step: the status is read, an unhandled error
\* overrides it and is pushed under the lock, and the event handler is called.
LEMMA RunReportsStatus ==
  ASSUME TypeOK, LockDiscipline, NEW r \in RunId,
         \/ ReadStatus(r) \/ PushError(r) \/ Notify(r)
         \/ CheckError(r) /\ Fails(st[run[r].state])
  PROVE  Life!LifeNext
<1>1. run \in [RunId -> RunRec] /\ r # 0 /\ r \in Reporters /\ run[r].status \in Status
  BY WorkerIsNoRun DEF TypeOK, Reporters, RunRec
<1>2. Run(r)
  BY DEF Run
<1>3. CASE ReadStatus(r)
  <2>1. run[r].pc = "post" /\ run'[r].pc = "check" /\ run'[r].status = CurStatus
    BY <1>1, <1>3 DEF ReadStatus, RunRec
  <2>2. SameMaps /\ SameLock /\ mux = Free
    BY <1>3 DEF ReadStatus, mapVars, SameMaps, SameLock
  <2>3. LifeReport(r) = "due" /\ LifeReport(r)' = CurStatus
    BY <1>1, <2>1 DEF LifeReport
  <2>4. OnlyReport(r, CurStatus)
    BY <1>2, <2>3, RunReports DEF OnlyReport
  <2> QED
    BY <1>2, <2>2, <2>3, <2>4, RunReports, LifeReads, LifeSteps
<1>4. CASE CheckError(r) /\ Fails(st[run[r].state])
  <2>1. run[r].pc = "check" /\ run'[r].pc = "push" /\ run'[r].status = "failed"
    BY <1>1, <1>4 DEF CheckError, Forced, RunRec
  <2>2. SameMaps /\ mux = Free /\ mux' # Free
    BY <1>4 DEF CheckError, Fails, Free, mapVars, SameMaps
  <2>3. LifeReport(r) \in Status /\ LifeReport(r)' = "failed"
    BY <1>1, <2>1 DEF LifeReport
  <2>4. OnlyReport(r, "failed")
    BY <1>2, <2>3, RunReports DEF OnlyReport
  <2> QED
    BY <1>2, <2>2, <2>3, <2>4, RunReports, LifeRaise, LifeSteps
<1>5. CASE PushError(r)
  <2>1. run[r].pc = "push" /\ run'[r].pc = "notify" /\ run'[r].status = run[r].status
    BY <1>1, <1>5 DEF PushError, RunRec
  <2>2. SameMaps /\ mux # Free /\ mux' = Free
    BY <1>5, <2>1 DEF PushError, LockDiscipline, Free, mapVars, SameMaps
  <2>3. LifeReport(r)' = LifeReport(r)
    BY <1>1, <2>1 DEF LifeReport
  <2>4. SameReports
    BY <1>2, <2>3, RunReports DEF SameReports
  <2> QED
    BY <1>2, <2>2, <2>4, RunReports, LifeUnlock, LifeSteps
<1>6. CASE Notify(r)
  <2>1. run[r].pc = "notify" /\ run'[r].pc \in {"done", "enqueue"}
    BY <1>1, <1>6 DEF Notify, RunRec
  <2>2. SameMaps /\ SameLock
    BY <1>6 DEF Notify, mapVars, SameMaps, SameLock
  <2>3. LifeReport(r) \in Status /\ LifeReport(r)' = "none"
    BY <1>1, <2>1 DEF LifeReport
  <2>4. OnlyReport(r, "none")
    BY <1>2, <2>3, RunReports DEF OnlyReport
  <2> QED
    BY <1>1, <1>2, <2>2, <2>3, <2>4, RunReports, LifeDeliver, LifeSteps
<1> QED
  BY <1>3, <1>4, <1>5, <1>6

\* Every step of a goroutine is accounted for.
LEMMA RunLife ==
  ASSUME TypeOK, NavigationSafe, LockDiscipline, NEW r \in RunId, Run(r)
  PROVE  [Life!LifeNext]_(Life!lifeVars)
<1>1. Life!Finish(It, r) => Life!LifeNext
  BY LifeSteps
<1>2. CASE \/ CallLoop(r) \/ (\E a \in Answers(run[r].state) : CallStep(r, a))
           \/ CallPanics(r) \/ Enqueue(r) \/ EnqueueAbandoned(r)
           \/ CheckError(r) /\ ~Fails(st[run[r].state])
  BY <1>2, RunQuiet
<1>3. CASE \/ CallStartFails(r) \/ CallFails(r) \/ Recover(r)
           \/ ResolveVars(r) \/ ResolveSteps(r) \/ ResolveIterator(r)
           \/ ResolveErrHandler(r) \/ ResolveBreak(r) \/ ResolveContinue(r)
           \/ ResolvePartial(r)
           \/ ResolvePrompt(r) /\ PromptOwner[st[run[r].state].step] = NoUser
  BY <1>1, <1>3, RunFinishes
<1>4. CASE \/ ResolveTermination(r) \/ ResolveDelay(r)
           \/ ResolvePrompt(r) /\ PromptOwner[st[run[r].state].step] # NoUser
  BY <1>4, RunSuspends
<1>5. CASE \/ ReadStatus(r) \/ PushError(r) \/ Notify(r)
           \/ CheckError(r) /\ Fails(st[run[r].state])
  BY <1>5, RunReportsStatus
<1> QED
  BY <1>2, <1>3, <1>4, <1>5 DEF Run

-----------------------------------------------------------------------------
(* The worker *)

\* When the goroutines stay where they are, only the worker's report can change.
LEMMA WorkerReport ==
  ASSUME UNCHANGED run,
         worker'.pc = "completed" <=> worker.pc = "completed"
  PROVE  SameReports
BY DEF SameReports, LifeReport, Reporters

\* The steps of the worker that the life cycle does not see.
LEMMA WorkerQuiet ==
  ASSUME TypeOK, Aux,
         WorkerDone \/ TickBegin \/ Dequeue \/ FinalCheck \/ TakeErr \/ Stop \/ StartRun
  PROVE  UNCHANGED Life!lifeVars
<1> USE DEF engineVars, stateVars, chanVars, mapVars, endVars, runVars,
            stepVars, waitVars, resumeVars, callerVars, runKeeps, workerKeeps
<1>1. worker \in WorkerRec /\ run \in [RunId -> RunRec] /\ nRuns \in 0 .. MaxRuns
  BY DEF TypeOK
<1>2. UNCHANGED <<mux, delayed, prompted, result, sesErr>>
  BY DEF WorkerDone, TickBegin, Dequeue, FinalCheck, TakeErr, Stop, StartRun
<1>3. worker.pc # "completed" /\ worker'.pc # "completed"
  BY <1>1 DEF WorkerDone, TickBegin, Dequeue, FinalCheck, TakeErr, Stop,
     StartRun, WorkerRec
<1>4. ASSUME StartRun PROVE SameReports
  <2>1. PICK n \in RunId : n = nRuns + 1
    BY <1>1, <1>4, BoundAssumption DEF StartRun, RunId
  <2>2. run[n].pc = "none"
    BY <1>1, <2>1, BoundAssumption DEF Aux
  <2>3. /\ \A q \in RunId : q # n => run'[q] = run[q]
        /\ run'[n].pc = "call"
    BY <1>1, <1>4, <2>1 DEF StartRun, Idle
  <2> QED
    BY <1>3, <2>2, <2>3 DEF SameReports, LifeReport, Reporters
<1>5. ASSUME ~StartRun PROVE SameReports
  <2>1. UNCHANGED run
    BY <1>5 DEF WorkerDone, TickBegin, Dequeue, FinalCheck, TakeErr, Stop
  <2> QED
    BY <1>3, <2>1, WorkerReport
<1>6. SameReports
  BY <1>4, <1>5
<1> QED
  BY <1>2, <1>6, LifeStutter DEF LifeOutcome, SameMaps, SameLock

\* The tick holds the lock from its first to its last overdue state.
LEMMA TickLife ==
  ASSUME TypeOK, LockDiscipline,
         TickLock \/ TickEnd \/ (\E i \in delayed : TickEnqueue(i))
  PROVE  Life!LifeNext
<1> USE DEF engineVars, stateVars, chanVars, mapVars, endVars, runVars,
            stepVars, waitVars, resumeVars, callerVars, runKeeps, workerKeeps
<1>1. worker \in WorkerRec
  BY DEF TypeOK
<1>2. UNCHANGED <<run, result, sesErr>>
  BY DEF TickLock, TickEnd, TickEnqueue
<1>3. worker.pc # "completed" /\ worker'.pc # "completed"
  BY <1>1 DEF TickLock, TickEnd, TickEnqueue, WorkerRec
<1>4. SameReports /\ LifeOutcome' = LifeOutcome
  BY <1>2, <1>3, WorkerReport DEF LifeOutcome
<1>5. CASE TickLock
  <2>1. mux = Free /\ mux' # Free /\ SameMaps
    BY <1>5 DEF TickLock, Free, SameMaps
  <2> QED
    BY <1>4, <2>1, LifeLock, LifeSteps
<1>6. CASE TickEnd
  <2>1. mux # Free /\ mux' = Free /\ SameMaps
    BY <1>6 DEF TickEnd, LockDiscipline, Free, SameMaps
  <2> QED
    BY <1>4, <2>1, LifeUnlock, LifeSteps
<1>7. CASE \E i \in delayed : TickEnqueue(i)
  <2>1. PICK i \in delayed : TickEnqueue(i)
    BY <1>7
  <2>2. /\ mux # Free /\ SameLock /\ prompted' = prompted
        /\ delayed' = delayed \ {i}
    BY <2>1 DEF TickEnqueue, Without, LockDiscipline, Free, SameLock
  <2>3. i \in StateId
    BY DEF TypeOK
  <2> QED
    BY <1>4, <2>2, <2>3, LifeRequeue, LifeSteps
<1> QED
  BY <1>5, <1>6, <1>7

\* The worker sets the outcome, once, and reports completion.
LEMMA OutcomeLife ==
  ASSUME TypeOK, OutcomeInv, SetResult \/ NotifyCompleted \/ SetErr
  PROVE  [Life!LifeNext]_(Life!lifeVars)
<1> USE DEF engineVars, stateVars, chanVars, mapVars, endVars, runVars,
            stepVars, waitVars, resumeVars, callerVars, runKeeps, workerKeeps
<1>1. worker \in WorkerRec /\ result \in BOOLEAN /\ 0 \in Reporters
  BY DEF TypeOK, Reporters
<1>2. UNCHANGED run /\ SameMaps /\ SameLock
  BY DEF SetResult, NotifyCompleted, SetErr, SameMaps, SameLock
<1>3. \A q \in Reporters : q # 0 => LifeReport(q)' = LifeReport(q)
  BY <1>2 DEF LifeReport, Reporters
<1>4. CASE SetResult
  <2>1. worker.pc = "setResult" /\ worker'.pc = "completed" /\ mux = Free
        /\ result' /\ sesErr' = sesErr
    BY <1>1, <1>4 DEF SetResult, WorkerRec
  <2>2. ~result /\ sesErr = NoErr
    BY <2>1 DEF OutcomeInv
  <2>3. LifeOutcome = "running" /\ LifeOutcome' = "completed"
    BY <2>1, <2>2 DEF LifeOutcome
  <2>4. OnlyReport(0, "completed")
    BY <1>3, <2>1 DEF OnlyReport, LifeReport
  <2> QED
    BY <1>2, <2>1, <2>3, <2>4, LifeComplete, LifeSteps
<1>5. CASE NotifyCompleted
  <2>1. worker.pc = "completed" /\ worker'.pc = "stopping"
        /\ UNCHANGED <<result, sesErr>>
    BY <1>1, <1>5 DEF NotifyCompleted, WorkerRec
  <2>2. LifeReport(0) \in Status /\ OnlyReport(0, "none")
    BY <1>3, <2>1 DEF OnlyReport, LifeReport, Status
  <2>3. LifeOutcome' = LifeOutcome
    BY <2>1 DEF LifeOutcome
  <2> QED
    BY <1>1, <1>2, <2>2, <2>3, LifeDeliver, LifeSteps
<1>6. CASE SetErr
  <2>1. /\ worker.pc = "setErr" /\ worker'.pc = "stopping" /\ mux = Free
        /\ result' = result
        /\ sesErr' = IF worker.err = Stopping THEN sesErr ELSE worker.err
    BY <1>1, <1>6 DEF SetErr, WorkerRec
  <2>2. ~result /\ sesErr = NoErr
    BY <2>1 DEF OutcomeInv
  <2>3. SameReports
    BY <1>2, <2>1, WorkerReport
  <2>4. CASE sesErr' = NoErr
    <3>1. LifeOutcome' = LifeOutcome
      BY <2>1, <2>2, <2>4 DEF LifeOutcome
    <3> QED
      BY <1>2, <2>3, <3>1, LifeStutter
  <2>5. CASE sesErr' # NoErr
    <3>1. LifeOutcome = "running" /\ LifeOutcome' = "failed"
      BY <2>2, <2>5 DEF LifeOutcome
    <3> QED
      BY <1>2, <2>1, <2>3, <3>1, LifeFail, LifeSteps
  <2> QED
    BY <2>4, <2>5
<1> QED
  BY <1>4, <1>5, <1>6

-----------------------------------------------------------------------------
(* Callers *)

\* A caller of Resume answers the prompt and holds the lock until the state is
\* queued, or until it gives up.
LEMMA ResumeLife ==
  ASSUME TypeOK, LockDiscipline,
         \/ ResumeEnqueue \/ ResumeAbandoned
         \/ \E u \in Users, i \in prompted, hasInput \in BOOLEAN : Resume(u, i, hasInput)
  PROVE  Life!LifeNext
<1> USE DEF engineVars, stateVars, chanVars, mapVars, endVars, runVars,
            stepVars, waitVars, resumeVars, callerVars
<1>1. UNCHANGED <<run, worker, result, sesErr>>
  BY DEF ResumeEnqueue, ResumeAbandoned, Resume
<1>2. SameReports /\ LifeOutcome' = LifeOutcome
  BY <1>1, WorkerReport DEF LifeOutcome
<1>3. CASE ResumeEnqueue \/ ResumeAbandoned
  <2>1. mux # Free /\ mux' = Free /\ SameMaps
    BY <1>3 DEF ResumeEnqueue, ResumeAbandoned, LockDiscipline, Free, SameMaps
  <2> QED
    BY <1>2, <2>1, LifeUnlock, LifeSteps
<1>4. CASE \E u \in Users, i \in prompted, hasInput \in BOOLEAN : Resume(u, i, hasInput)
  <2>1. PICK i \in prompted : \E u \in Users, hasInput \in BOOLEAN : Resume(u, i, hasInput)
    BY <1>4
  <2>2. /\ mux = Free /\ mux' # Free
        /\ prompted' = prompted \ {i} /\ delayed' = delayed
    BY <2>1 DEF Resume, Without, Free
  <2>3. i \in StateId
    BY DEF TypeOK
  <2> QED
    BY <1>2, <2>2, <2>3, LifeAnswer, LifeSteps
<1> QED
  BY <1>3, <1>4

\* What the other callers, the clock and the server do is not part of it.
LEMMA CallersQuiet ==
  ASSUME \/ \E s \in Starts : Exec(s)
         \/ Wait \/ Waiter \/ CallerGone \/ Shutdown
         \/ \E i \in delayed : BecomeDue(i)
         \/ \E s \in Shared, p \in Step : ReachedElsewhere(s, p)
         \/ Rest \/ UNCHANGED vars
  PROVE  UNCHANGED Life!lifeVars
<1> USE DEF engineVars, stateVars, chanVars, mapVars, endVars, runVars,
            stepVars, waitVars, resumeVars, callerVars, runKeeps
<1>1. UNCHANGED <<run, worker, result, sesErr, delayed, prompted, mux>>
  <2>1. CASE \E s \in Starts : Exec(s)
    BY <2>1 DEF Exec
  <2>2. CASE Wait \/ Waiter \/ CallerGone \/ Shutdown
    BY <2>2 DEF Wait, Waiter, WaitTick, WaitCheck, WaitTimeout, Cancel,
       CallerGone, Shutdown
  <2>3. CASE \E i \in delayed : BecomeDue(i)
    BY <2>3 DEF BecomeDue
  <2>4. CASE Rest \/ UNCHANGED vars
    BY <2>4 DEF Rest, vars
  <2>5. CASE \E s \in Shared, p \in Step : ReachedElsewhere(s, p)
    BY <2>5 DEF ReachedElsewhere
  <2> QED
    BY <2>1, <2>2, <2>3, <2>4, <2>5
<1>2. SameReports
  BY <1>1, WorkerReport
<1> QED
  BY <1>1, <1>2, LifeStutter DEF LifeOutcome, SameMaps, SameLock

-----------------------------------------------------------------------------
(* The theorem *)

LEMMA InitLife == Init => Life!LifeInit
<1> SUFFICES ASSUME Init PROVE Life!LifeInit
  OBVIOUS
<1>1. LifeOutcome = "running" /\ prompted = {} /\ delayed = {} /\ mux = Free
  BY DEF Init, LifeOutcome
<1>2. ASSUME NEW r \in Reporters PROVE LifeReport(r) = "none"
  BY DEF Init, LifeReport, Idle, Reporters
<1>3. [r \in RunId \cup {0} |-> LifeReport(r)] = [r \in Life!Reporter |-> "none"]
  BY <1>2 DEF Reporters, Life!Reporter
<1> QED
  BY <1>1, <1>3, Zenon DEF Life!LifeInit

LEMMA NextLife ==
  ASSUME TypeOK, NavigationSafe, Aux, OutcomeInv, LockDiscipline, [Next]_vars
  PROVE  [Life!LifeNext]_(Life!lifeVars)
<1>1. CASE \E r \in RunId : run[r].pc \notin {"none", "done"} /\ Run(r)
  BY <1>1, RunLife
<1>2. CASE Worker
  BY <1>2, WorkerQuiet, TickLife, OutcomeLife DEF Worker
<1>3. CASE \/ ResumeEnqueue \/ ResumeAbandoned
           \/ \E u \in Users, i \in prompted, hasInput \in BOOLEAN : Resume(u, i, hasInput)
  BY <1>3, ResumeLife
<1>4. CASE \/ \E s \in Starts : Exec(s)
           \/ Wait \/ Waiter \/ CallerGone \/ Shutdown
           \/ \E i \in delayed : BecomeDue(i)
           \/ \E s \in Shared, p \in Step : ReachedElsewhere(s, p)
           \/ Rest \/ UNCHANGED vars
  BY <1>4, CallersQuiet
<1> QED
  BY <1>1, <1>2, <1>3, <1>4 DEF Next

\* The engine implements the life cycle, whatever the graph, the bounds and
\* the interleaving of its goroutines: the outcome is set once, by the worker
\* under the lock, and every report carries a status that the session had when
\* it was read, or the reporting step's own failure.
THEOREM EngineImplementsLife == Spec => ImplementsLife
<1>1. Init => OutcomeInv
  BY DEF Init, OutcomeInv
<1>2. TypeOK /\ OutcomeInv /\ [Next]_vars => OutcomeInv'
  BY OutcomeStep
<1>3. Spec => []OutcomeInv
  BY <1>1, <1>2, TypeCorrect, PTL DEF Spec
<1>4. Inv /\ Aux /\ OutcomeInv /\ LockDiscipline /\ [Next]_vars
        => [Life!LifeNext]_(Life!lifeVars)
  BY NextLife DEF Inv
<1> QED
  BY <1>3, <1>4, InitLife, Invariant, LockHeldByItsOwner, PTL
  DEF Spec, ImplementsLife, Life!LifeSpec

=============================================================================
