----------------------- MODULE WorkflowSession_proofs -----------------------
(***************************************************************************)
(* Proofs about WorkflowSession.  The inductive invariant has three parts: *)
(* TypeOK, NavigationSafe, and Located, which gives every state one place  *)
(* at a time.  The last is what makes the others inductive: a goroutine    *)
(* that pops the loop stack of a state relies on no other goroutine        *)
(* executing that state.                                                   *)
(***************************************************************************)
EXTENDS WorkflowSession, FiniteSetTheorems, TLAPS

\* where a state can be: nowhere (not yet created, or executed), in the queue,
\* held by the worker, delayed, prompted, held by Resume, about to be queued
\* by goroutine r, or executed by it
Place == {"none", "queue", "worker", "delayed", "prompted", "resumer",
          "next", "exec"} \X (0 .. MaxRuns)
Nowhere == <<"none", 0>>
InExecBy(r) == run[r].pc \in {"call", "resolve", "panic"}

Distinct(q) == \A j, k \in DOMAIN q : q[j] = q[k] => j = k

Places_ok(loc) ==
    /\ \A i \in StateId : i > nStates => loc[i] = Nowhere
    /\ \A k \in DOMAIN qState : loc[qState[k]] = <<"queue", 0>>
    /\ worker.state # 0 => loc[worker.state] = <<"worker", 0>>
    /\ \A i \in delayed : loc[i] = <<"delayed", 0>>
    /\ \A i \in prompted : loc[i] = <<"prompted", 0>>
    /\ resumer # 0 => loc[resumer] = <<"resumer", 0>>
    /\ \A r \in RunId :
          /\ \A k \in DOMAIN run[r].nxt : loc[run[r].nxt[k]] = <<"next", r>>
          /\ InExecBy(r) => loc[run[r].state] = <<"exec", r>>
          /\ Distinct(run[r].nxt)
    /\ Distinct(qState)

Located == \E loc \in [StateId -> Place] : Places_ok(loc)

Inv == TypeOK /\ NavigationSafe /\ Located

-----------------------------------------------------------------------------
(* The operators the actions are built from *)

\* The error values and the lock holders of one kind are distinct from the
\* others: what the actions write is in the declared sets.
LEMMA Values ==
    /\ {NoErr, Stopping, Canceled, Refused} \subseteq ErrVal
    /\ \A i \in StateId : StepErr(i) \in ErrVal /\ PanicErr(i) \in ErrVal
    /\ {Free, <<"worker", 0>>, <<"resumer", 0>>} \subseteq Holder
    /\ \A r \in RunId : <<"run", r>> \in Holder
    /\ Unused \in StateRec
    /\ Idle \in RunRec
<1>1. {NoErr, Stopping, Canceled, Refused} \subseteq ErrVal
  BY DEF ErrVal
<1>2. \A i \in StateId : StepErr(i) \in ErrVal /\ PanicErr(i) \in ErrVal
  BY DEF ErrVal, StepErr, PanicErr
<1>3. {Free, <<"worker", 0>>, <<"resumer", 0>>} \subseteq Holder
  BY DEF Holder
<1>4. \A r \in RunId : <<"run", r>> \in Holder
  BY DEF Holder
<1>5. Unused \in StateRec
  BY BoundAssumption DEF Unused, NewState, StateRec
<1>6. Idle \in RunRec
  BY BoundAssumption DEF Idle, RunRec, RunPc, RespKind, Status
<1> QED
  BY <1>1, <1>2, <1>3, <1>4, <1>5, <1>6

\* A state made by Next is well formed, and its loop stack is no longer than
\* that of the state it follows.
LEMMA Next1Type ==
  ASSUME NEW cur \in StateRec, NEW s \in Step \cup {Final}, cur.step \in Step
  PROVE  /\ Next1(cur, s) \in StateRec
         /\ Next1(cur, s).step = s
         /\ Next1(cur, s).depth <= cur.depth
<1>1. CASE s = Final
  BY <1>1, BoundAssumption, GraphAssumption DEF Next1, NewState, StateRec
<1>2. CASE s # Final
  BY <1>2, BoundAssumption, GraphAssumption DEF Next1, NewState, StateRec
<1> QED
  BY <1>1, <1>2

\* A goroutine's record keeps its type when exec is left.
LEMMA RunLeaves ==
  ASSUME run \in [RunId -> RunRec], NEW r \in RunId,
         NEW err \in BOOLEAN, NEW nx \in Seq(StateId)
  PROVE  [run EXCEPT ![r].pc = "post", ![r].err = err, ![r].nxt = nx]
            \in [RunId -> RunRec]
<1>1. "post" \in RunPc
  BY DEF RunPc
<1> QED
  BY <1>1, ZenonT(60) DEF RunRec

\* what a goroutine that leaves exec does to the states and to itself
LeftExec(r, cur) ==
    /\ st' \in [StateId -> StateRec]
    /\ nStates' \in 0 .. MaxStates /\ nStates' >= nStates
    /\ run' \in [RunId -> RunRec]
    /\ st'[run[r].state] = cur
    /\ \A i \in 1 .. nStates : st'[i].step = st[i].step
    /\ \A i \in StateId : i # run[r].state /\ i <= nStates => st'[i] = st[i]
    /\ \A i \in StateId : i > nStates' => st'[i] = st[i]
    /\ \A i \in nStates + 1 .. nStates' :
          st'[i].step \in Step \cup {Final} /\ st'[i].depth <= cur.depth
    /\ \A q \in RunId : q # r => run'[q] = run[q]
    /\ run'[r].pc = "post" /\ run'[r].state = run[r].state
    /\ \A k \in DOMAIN run'[r].nxt :
          /\ k \in Nat /\ run'[r].nxt[k] = nStates + k
          /\ nStates + k \in nStates + 1 .. nStates'

\* Leaving exec makes well-formed states and disturbs no other.
LEMMA LeaveEffect ==
  ASSUME TypeOK, NavigationSafe, NEW r \in RunId, run[r].pc # "none",
         NEW cur \in StateRec, cur.step = st[run[r].state].step,
         NEW steps \in Seq(Step \cup {Final}), NEW err \in BOOLEAN,
         Leave(r, cur, steps, err)
  PROVE  LeftExec(r, cur)
<1> DEFINE i0 == run[r].state
           n == Len(steps)
<1>1. /\ i0 \in 1 .. nStates /\ i0 \in StateId /\ st[i0].step \in Step
      /\ nStates \in 0 .. MaxStates
      /\ st \in [StateId -> StateRec] /\ run \in [RunId -> RunRec]
  BY BoundAssumption, SMTT(30) DEF TypeOK, NavigationSafe, IsOrdinary, StateId
<1>2. n \in Nat /\ \A k \in 1 .. n : steps[k] \in Step \cup {Final}
  OBVIOUS
<1>3. /\ nStates + n <= MaxStates
      /\ nStates' = nStates + n
      /\ st' = [i \in StateId |->
                  IF i = i0 THEN cur
                  ELSE IF i \in nStates + 1 .. nStates + n
                       THEN Next1(cur, steps[i - nStates]) ELSE st[i]]
      /\ run' = [run EXCEPT ![r].pc = "post", ![r].err = err,
                    ![r].nxt = [k \in 1 .. n |-> nStates + k]]
  BY DEF Leave
<1>4. nStates' \in 0 .. MaxStates /\ nStates' >= nStates
  BY <1>1, <1>2, <1>3, BoundAssumption
<1>5. \A i \in nStates + 1 .. nStates + n :
         /\ i \in StateId /\ i # i0
         /\ steps[i - nStates] \in Step \cup {Final}
  BY <1>1, <1>2, <1>3, BoundAssumption, SMTT(30) DEF StateId
<1>6. \A i \in nStates + 1 .. nStates + n :
         LET x == Next1(cur, steps[i - nStates]) IN
         x \in StateRec /\ x.step \in Step \cup {Final} /\ x.depth <= cur.depth
  BY <1>1, <1>5, Next1Type
<1>7. st' \in [StateId -> StateRec]
  BY <1>1, <1>3, <1>6
<1>8. /\ st'[i0] = cur
      /\ \A i \in StateId : i # i0 /\ i <= nStates => st'[i] = st[i]
      /\ \A i \in StateId : i > nStates' => st'[i] = st[i]
  BY <1>1, <1>2, <1>3
<1>9. \A i \in 1 .. nStates : st'[i].step = st[i].step
  BY <1>1, <1>8, BoundAssumption DEF StateId
<1>10. \A i \in nStates + 1 .. nStates' :
          st'[i].step \in Step \cup {Final} /\ st'[i].depth <= cur.depth
  BY <1>3, <1>5, <1>6
<1>11. [k \in 1 .. n |-> nStates + k] \in Seq(StateId)
  BY <1>1, <1>2, <1>3, BoundAssumption DEF StateId
<1>12. run' \in [RunId -> RunRec]
  BY <1>1, <1>3, <1>11, RunLeaves
<1>13. /\ \A q \in RunId : q # r => run'[q] = run[q]
       /\ run'[r].pc = "post" /\ run'[r].state = run[r].state
       /\ run'[r].nxt = [k \in 1 .. n |-> nStates + k]
  BY <1>1, <1>3 DEF RunRec
<1>14. \A k \in DOMAIN run'[r].nxt :
          /\ k \in Nat /\ run'[r].nxt[k] = nStates + k
          /\ nStates + k \in nStates + 1 .. nStates'
  BY <1>1, <1>2, <1>3, <1>13
<1> QED
  BY <1>4, <1>7, <1>8, <1>9, <1>10, <1>12, <1>13, <1>14 DEF LeftExec

\* Leaving exec preserves the invariant, whatever the response: the states it
\* makes are fresh, and the state it leaves is nowhere or in one of the maps.
LEMMA LeaveInv ==
  ASSUME Inv, NEW r \in RunId, InExecBy(r),
         NEW cur \in StateRec, cur.step = st[run[r].state].step,
         NEW steps \in Seq(Step \cup {Final}), NEW err \in BOOLEAN,
         Leave(r, cur, steps, err),
         UNCHANGED <<qState, worker, resumer>>,
         backing' \in [1 .. LoopCap -> 0 .. MaxStates],
         \A k \in 1 .. LoopCap : backing'[k] # backing[k] =>
             backing'[k] = run[r].state /\ Kind[cur.step] = "iterator",
         \A k \in 1 .. cur.depth : backing'[k] # 0,
         delayed' \subseteq delayed \cup {run[r].state},
         prompted' \subseteq prompted \cup {run[r].state},
         run[r].state \notin delayed' \cap prompted'
  PROVE  NavigationSafe' /\ Located'
<1> DEFINE i0 == run[r].state
<1>1. /\ TypeOK /\ NavigationSafe /\ run[r].pc # "none"
      /\ i0 \in 1 .. nStates /\ i0 \in StateId /\ st[i0].step \in Step
      /\ nStates \in 0 .. MaxStates /\ MaxStates \in Nat
  <2>1. TypeOK /\ NavigationSafe /\ run[r].pc # "none"
    BY DEF Inv, InExecBy
  <2>2. nStates \in 0 .. MaxStates /\ MaxStates \in Nat
    BY <2>1, BoundAssumption DEF TypeOK
  <2>3. IsOrdinary(i0)
    BY <2>1 DEF NavigationSafe
  <2> QED
    BY <2>1, <2>2, <2>3 DEF IsOrdinary, StateId
<1>2. LeftExec(r, cur)
  BY <1>1, LeaveEffect
<1>3. \A i : IsOrdinary(i) => IsOrdinary(i)'
  BY <1>1, <1>2 DEF LeftExec, IsOrdinary
<1>4. \A i : IsIterator(i) => IsIterator(i)'
  BY <1>1, <1>2 DEF LeftExec, IsIterator
<1>5. NavigationSafe'
  <2>1. \A i \in 1 .. nStates' : st'[i].step # None
    <3> SUFFICES ASSUME NEW i \in 1 .. nStates' PROVE st'[i].step # None
      OBVIOUS
    <3>1. CASE i \in 1 .. nStates
      <4>1. st[i].step # None
        BY <3>1, <1>1 DEF NavigationSafe
      <4> QED
        BY <4>1, <3>1, <1>2 DEF LeftExec
    <3>2. CASE i \in nStates + 1 .. nStates'
      <4>1. st'[i].step \in Step \cup {Final}
        BY <3>2, <1>2 DEF LeftExec
      <4> QED
        BY <4>1, GraphAssumption
    <3> QED
      BY <3>1, <3>2, <1>1, <1>2 DEF LeftExec
  <2>2. \A i \in StateId : \A k \in 1 .. st'[i].depth : backing'[k] # 0
    <3> SUFFICES ASSUME NEW i \in StateId, NEW k \in 1 .. st'[i].depth
                 PROVE  backing'[k] # 0
      OBVIOUS
    <3>1. /\ cur.depth \in 0 .. LoopCap /\ st'[i].depth \in 0 .. LoopCap
          /\ st[i].depth \in 0 .. LoopCap /\ LoopCap \in Nat
      BY <1>1, <1>2, BoundAssumption DEF LeftExec, TypeOK, StateRec
    <3>2. CASE st'[i] = st[i] /\ i # i0
      <4>1. k \in 1 .. LoopCap /\ backing[k] # 0
        BY <1>1, <3>1, <3>2 DEF NavigationSafe
      <4> QED
        BY <4>1, <1>1
    <3>3. CASE i = i0
      BY <3>3, <1>2 DEF LeftExec
    <3>4. CASE i \in nStates + 1 .. nStates'
      BY <3>4, <3>1, <1>2 DEF LeftExec
    <3> QED
      BY <3>2, <3>3, <3>4, <1>1, <1>2 DEF LeftExec, StateId
  <2>3. \A k \in 1 .. LoopCap : backing'[k] # 0 => IsIterator(backing[k])'
    <3> SUFFICES ASSUME NEW k \in 1 .. LoopCap, backing'[k] # 0
                 PROVE  IsIterator(backing[k])'
      OBVIOUS
    <3>1. CASE backing'[k] = backing[k]
      BY <3>1, <1>1, <1>4 DEF NavigationSafe
    <3>2. CASE backing'[k] # backing[k]
      BY <3>2, <1>1, <1>2 DEF LeftExec, IsIterator
    <3> QED
      BY <3>1, <3>2
  <2>4. \A k \in DOMAIN qState' : qState'[k] <= nStates'
    <3>1. \A k \in DOMAIN qState : qState[k] <= nStates /\ qState[k] \in Nat
      BY <1>1, SMTT(30) DEF NavigationSafe, TypeOK, StateId
    <3> QED
      BY <3>1, <1>1, <1>2 DEF LeftExec
  <2>5. worker'.pc = "acquire" => IsOrdinary(worker.state)'
    BY <1>1, <1>3 DEF NavigationSafe
  <2>6. \A i \in delayed' \cup prompted' : IsOrdinary(i)'
    <3>1. IsOrdinary(i0) /\ \A i \in delayed \cup prompted : IsOrdinary(i)
      BY <1>1 DEF NavigationSafe, IsOrdinary
    <3> QED
      BY <3>1, <1>3
  <2>7. resumer' # 0 => IsOrdinary(resumer)'
    BY <1>1, <1>3 DEF NavigationSafe
  <2>8. ASSUME NEW q \in RunId
        PROVE  /\ run'[q].pc # "none" => IsOrdinary(run[q].state)'
               /\ \A k \in DOMAIN run'[q].nxt : run'[q].nxt[k] <= nStates'
               /\ run'[q].pc = "resolve" /\ run'[q].curr # 0 =>
                     IsIterator(run[q].curr)' /\ st'[run'[q].state].depth > 0
               /\ AtResolve(q, "iterator")' =>
                     IsIterator(run[q].state)' /\ st'[run'[q].state].depth > 0
    <3>1. CASE q = r
      <4>1. IsOrdinary(i0)
        BY <1>1 DEF NavigationSafe
      <4>2. run'[q].pc = "post" /\ run'[q].state = i0
        BY <3>1, <1>2 DEF LeftExec
      <4>3. \A k \in DOMAIN run'[q].nxt : run'[q].nxt[k] <= nStates'
        BY <3>1, <1>1, <1>2 DEF LeftExec
      <4>4. IsOrdinary(run[q].state)'
        BY <4>1, <4>2, <1>3
      <4> QED
        BY <4>2, <4>3, <4>4 DEF AtResolve
    <3>2. CASE q # r
      <4>1. run'[q] = run[q]
        BY <3>2, <1>2 DEF LeftExec
      <4>2. /\ run[q].pc # "none" => IsOrdinary(run[q].state)
            /\ \A k \in DOMAIN run[q].nxt : run[q].nxt[k] <= nStates
            /\ run[q].pc = "resolve" /\ run[q].curr # 0 =>
                  IsIterator(run[q].curr) /\ st[run[q].state].depth > 0
            /\ AtResolve(q, "iterator") =>
                  IsIterator(run[q].state) /\ st[run[q].state].depth > 0
        BY <1>1 DEF NavigationSafe
      <4>3. run[q].pc # "none" => IsOrdinary(run[q].state)'
        BY <4>1, <4>2, <1>3
      <4>4. \A k \in DOMAIN run'[q].nxt : run'[q].nxt[k] <= nStates'
        <5>1. run[q].nxt \in Seq(StateId)
          BY <1>1 DEF TypeOK, RunRec
        <5> QED
          BY <5>1, <4>1, <4>2, <1>1, <1>2 DEF LeftExec, StateId
      <4>5. run[q].pc = "resolve" =>
               run[q].state # i0 /\ run[q].state \in 1 .. nStates
        <5>1. PICK loc \in [StateId -> Place] : Places_ok(loc)
          BY DEF Inv, Located
        <5>2. run[q].pc = "resolve" => loc[run[q].state] = <<"exec", q>>
          BY <5>1 DEF Places_ok, InExecBy
        <5>3. loc[i0] = <<"exec", r>>
          BY <5>1 DEF Places_ok
        <5> QED
          BY <5>2, <5>3, <4>2, <3>2 DEF IsOrdinary
      <4>6. run[q].pc = "resolve" => st'[run[q].state] = st[run[q].state]
        BY <4>5, <1>1, <1>2 DEF LeftExec, StateId
      <4> QED
        BY <4>1, <4>2, <4>3, <4>4, <4>6, <1>4 DEF AtResolve
    <3> QED
      BY <3>1, <3>2
  <2> QED
    BY <2>1, <2>2, <2>3, <2>4, <2>5, <2>6, <2>7, <2>8 DEF NavigationSafe
<1>6. Located'
  <2>1. PICK loc \in [StateId -> Place] : Places_ok(loc)
    BY DEF Inv, Located
  <2> DEFINE home == IF i0 \in delayed' THEN <<"delayed", 0>>
                     ELSE IF i0 \in prompted' THEN <<"prompted", 0>>
                     ELSE Nowhere
             moved == [i \in StateId |->
                        IF i = i0 THEN home
                        ELSE IF i \in nStates + 1 .. nStates'
                             THEN <<"next", r>> ELSE loc[i]]
  <2>2. moved \in [StateId -> Place]
    <3>1. r \in 0 .. MaxRuns
      BY BoundAssumption DEF RunId
    <3>2. home \in Place /\ <<"next", r>> \in Place
      BY <3>1, BoundAssumption DEF Place, Nowhere
    <3> QED
      BY <3>2
  <2>3. PICK new \in [StateId -> Place] : new = moved
    BY <2>2
  <2> HIDE DEF moved
  <2>4. /\ loc[i0] = <<"exec", r>>
        /\ \A i \in StateId : i > nStates => loc[i] = Nowhere
    BY <2>1 DEF Places_ok
  <2>5. /\ new[i0] = home
        /\ \A i \in StateId : i # i0 /\ loc[i] # Nowhere => new[i] = loc[i]
        /\ \A i \in nStates + 1 .. nStates' : new[i] = <<"next", r>>
        /\ \A i \in StateId : i > nStates' => new[i] = Nowhere
    <3> HIDE DEF home
    <3>1. nStates' \in 0 .. MaxStates /\ nStates' >= nStates
      BY <1>2 DEF LeftExec
    <3>2. \A i \in StateId : new[i] = IF i = i0 THEN home
                        ELSE IF i \in nStates + 1 .. nStates'
                             THEN <<"next", r>> ELSE loc[i]
      BY <2>3 DEF moved
    <3>3. \A i \in nStates + 1 .. nStates' : i \in StateId /\ i # i0
      BY <3>1, <1>1 DEF StateId
    <3>4. \A i \in StateId : i > nStates' =>
             i # i0 /\ i > nStates /\ i \notin nStates + 1 .. nStates'
      BY <3>1, <1>1 DEF StateId
    <3>5. \A i \in StateId : loc[i] # Nowhere => i \notin nStates + 1 .. nStates'
      BY <3>1, <1>1, <2>4 DEF StateId
    <3> QED
      BY <3>2, <3>3, <3>4, <3>5, <2>4, <1>1
  <2> HIDE DEF home
  <2>6. \A k \in DOMAIN qState' : new[qState'[k]] = <<"queue", 0>>
    <3>1. \A k \in DOMAIN qState :
             qState[k] \in StateId /\ loc[qState[k]] = <<"queue", 0>>
      BY <1>1, <2>1 DEF TypeOK, Places_ok
    <3> QED
      BY <3>1, <2>4, <2>5 DEF Nowhere
  <2>7. worker'.state # 0 => new[worker'.state] = <<"worker", 0>>
    <3>1. worker.state # 0 =>
             worker.state \in StateId /\ loc[worker.state] = <<"worker", 0>>
      BY <1>1, <2>1 DEF TypeOK, Places_ok, WorkerRec, StateId
    <3> QED
      BY <3>1, <2>4, <2>5 DEF Nowhere
  <2>8. \A i \in delayed' : new[i] = <<"delayed", 0>>
    <3>1. \A i \in delayed : i \in StateId /\ loc[i] = <<"delayed", 0>>
      BY <1>1, <2>1 DEF TypeOK, Places_ok
    <3> QED
      BY <3>1, <2>4, <2>5 DEF Nowhere, home
  <2>9. \A i \in prompted' : new[i] = <<"prompted", 0>>
    <3>1. \A i \in prompted : i \in StateId /\ loc[i] = <<"prompted", 0>>
      BY <1>1, <2>1 DEF TypeOK, Places_ok
    <3> QED
      BY <3>1, <2>4, <2>5 DEF Nowhere, home
  <2>10. resumer' # 0 => new[resumer'] = <<"resumer", 0>>
    <3>1. resumer # 0 => resumer \in StateId /\ loc[resumer] = <<"resumer", 0>>
      BY <1>1, <2>1 DEF TypeOK, Places_ok, StateId
    <3> QED
      BY <3>1, <2>4, <2>5 DEF Nowhere
  <2>11. ASSUME NEW q \in RunId
         PROVE  /\ \A k \in DOMAIN run'[q].nxt : new[run'[q].nxt[k]] = <<"next", q>>
                /\ InExecBy(q)' => new[run'[q].state] = <<"exec", q>>
                /\ Distinct(run[q].nxt)'
    <3>1. CASE q = r
      <4>1. /\ \A k \in DOMAIN run'[q].nxt :
                  /\ k \in Nat /\ run'[q].nxt[k] = nStates + k
                  /\ nStates + k \in nStates + 1 .. nStates'
            /\ run'[q].pc = "post" /\ nStates \in Nat
        BY <3>1, <1>1, <1>2 DEF LeftExec
      <4>2. \A k \in DOMAIN run'[q].nxt : new[run'[q].nxt[k]] = <<"next", q>>
        BY <4>1, <3>1, <2>5
      <4>3. Distinct(run[q].nxt)'
        BY <4>1 DEF Distinct
      <4>4. ~InExecBy(q)'
        BY <4>1 DEF InExecBy
      <4> QED
        BY <4>2, <4>3, <4>4
    <3>2. CASE q # r
      <4>1. run'[q] = run[q]
        BY <3>2, <1>2 DEF LeftExec
      <4>2. /\ \A k \in DOMAIN run[q].nxt : loc[run[q].nxt[k]] = <<"next", q>>
            /\ InExecBy(q) => loc[run[q].state] = <<"exec", q>>
            /\ Distinct(run[q].nxt)
        BY <2>1 DEF Places_ok
      <4>3. /\ run[q].nxt \in Seq(StateId)
            /\ InExecBy(q) => run[q].state \in StateId
        <5>1. InExecBy(q) => IsOrdinary(run[q].state)
          BY <1>1 DEF InExecBy, NavigationSafe
        <5>2. run[q].nxt \in Seq(StateId)
          BY <1>1 DEF TypeOK, RunRec
        <5> QED
          BY <5>1, <5>2, <1>1 DEF IsOrdinary, StateId
      <4>4. \A k \in DOMAIN run[q].nxt : new[run[q].nxt[k]] = <<"next", q>>
        <5> SUFFICES ASSUME NEW k \in DOMAIN run[q].nxt
                     PROVE  new[run[q].nxt[k]] = <<"next", q>>
          OBVIOUS
        <5>1. PICK i \in StateId : i = run[q].nxt[k]
          BY <4>3
        <5>2. loc[i] = <<"next", q>>
          BY <4>2, <5>1
        <5> QED
          BY <5>1, <5>2, <2>4, <2>5 DEF Nowhere
      <4>5. InExecBy(q) => new[run[q].state] = <<"exec", q>>
        BY <4>2, <4>3, <3>2, <2>4, <2>5 DEF Nowhere
      <4> QED
        BY <4>1, <4>2, <4>4, <4>5 DEF InExecBy, Distinct
    <3> QED
      BY <3>1, <3>2
  <2>12. Distinct(qState)'
    BY <2>1 DEF Places_ok, Distinct
  <2>13. Places_ok(new)'
    BY <2>5, <2>6, <2>7, <2>8, <2>9, <2>10, <2>11, <2>12 DEF Places_ok
  <2> QED
    BY <2>3, <2>13 DEF Located
<1> QED
  BY <1>5, <1>6

-----------------------------------------------------------------------------
(* Steps that move no state *)

\* the variables NavigationSafe and Located are about
coreVars == <<st, nStates, qState, worker, delayed, prompted, resumer, run,
              backing>>

\* The invariant does not depend on the other variables.
LEMMA CoreFrame ==
  ASSUME NavigationSafe, Located, UNCHANGED coreVars
  PROVE  NavigationSafe' /\ Located'
<1>1. NavigationSafe'
  BY DEF coreVars, NavigationSafe, IsIterator, IsOrdinary, AtResolve
<1>2. Located'
  BY ZenonT(60) DEF coreVars, Located, Places_ok, InExecBy, Distinct
<1> QED
  BY <1>1, <1>2

\* A caller that waits, gives up or cancels, a clock that goes on and a context
\* that ends move no state.
LEMMA CallerInv ==
  ASSUME Inv, Wait \/ Waiter \/ CallerGone \/ Shutdown
              \/ (\E i \in delayed : BecomeDue(i))
              \/ (\E s \in Shared, p \in Step : ReachedElsewhere(s, p)) \/ UNCHANGED vars
  PROVE  Inv'
<1> USE DEF engineVars, stateVars, chanVars, mapVars, endVars, runVars,
            stepVars, waitVars, resumeVars, callerVars, runKeeps
<1>1. CASE Wait
  BY <1>1, CoreFrame DEF Inv, Wait, coreVars, TypeOK
<1>2. CASE WaitTick
  BY <1>2, CoreFrame DEF Inv, WaitTick, coreVars, TypeOK
<1>3. CASE WaitCheck
  BY <1>3, CoreFrame DEF Inv, WaitCheck, coreVars, TypeOK
<1>4. CASE WaitTimeout
  BY <1>4, CoreFrame DEF Inv, WaitTimeout, coreVars, TypeOK
<1>5. CASE Cancel
  <2>1. UNCHANGED coreVars
    BY <1>5 DEF Cancel, coreVars
  <2>2. qErr' \in Seq(ErrVal) /\ Len(qErr') <= 1
    BY <1>5, Values DEF Inv, TypeOK, Cancel, RoomInErr
  <2>3. TypeOK'
    BY <1>5, <2>2 DEF Inv, Cancel, TypeOK
  <2> QED
    BY <2>1, <2>3, CoreFrame DEF Inv
<1>6. CASE CallerGone
  BY <1>6, CoreFrame DEF Inv, CallerGone, coreVars, TypeOK
<1>7. CASE Shutdown
  BY <1>7, CoreFrame DEF Inv, Shutdown, coreVars, TypeOK
<1>8. CASE \E i \in delayed : BecomeDue(i)
  BY <1>8, CoreFrame DEF Inv, BecomeDue, coreVars, TypeOK
<1>9. CASE UNCHANGED vars
  BY <1>9, CoreFrame DEF Inv, vars, coreVars, TypeOK
<1>10. CASE \E s \in Shared, p \in Step : ReachedElsewhere(s, p)
  <2>1. PICK s \in Shared, p \in Step : ReachedElsewhere(s, p)
    BY <1>10
  <2>2. joined' \in [Step -> SUBSET (Step \cup {None, Final})]
    BY <2>1 DEF Inv, TypeOK, ReachedElsewhere
  <2> QED
    BY <2>1, <2>2, CoreFrame DEF Inv, ReachedElsewhere, coreVars, TypeOK
<1> QED
  BY <1>1, <1>2, <1>3, <1>4, <1>5, <1>6, <1>7, <1>8, <1>9, <1>10 DEF Waiter

\* A worker that changes its mind but not the state it holds moves no state.
LEMMA WorkerFrame ==
  ASSUME NavigationSafe, Located,
         UNCHANGED <<st, nStates, qState, delayed, prompted, resumer, run,
                     backing>>,
         worker'.state = worker.state, worker'.pc # "acquire"
  PROVE  NavigationSafe' /\ Located'
<1>1. NavigationSafe'
  BY DEF NavigationSafe, IsIterator, IsOrdinary, AtResolve
<1>2. Located'
  BY SMTT(30) DEF Located, Places_ok, InExecBy, Distinct
<1> QED
  BY <1>1, <1>2

\* The worker's own steps: the ends of its loop, the result, the error, and
\* both ends of a tick.
LEMMA WorkerInv ==
  ASSUME Inv, WorkerDone \/ TickBegin \/ TickLock \/ TickEnd \/ SetResult
              \/ NotifyCompleted \/ TakeErr \/ SetErr \/ Stop
  PROVE  Inv'
<1> USE DEF stateVars, chanVars, mapVars, endVars, runVars,
            stepVars, waitVars, resumeVars, callerVars, workerKeeps
<1>1. worker \in WorkerRec /\ TypeOK /\ NavigationSafe /\ Located
  BY DEF Inv, TypeOK
<1>2. CASE WorkerDone
  <2>1. worker' \in WorkerRec /\ worker'.state = worker.state
        /\ worker'.pc # "acquire"
    BY <1>1, <1>2 DEF WorkerDone, WorkerRec, WorkerPc
  <2>2. TypeOK'
    BY <1>1, <1>2, <2>1 DEF WorkerDone, TypeOK
  <2> QED
    BY <1>1, <1>2, <2>1, <2>2, WorkerFrame DEF WorkerDone, Inv
<1>3. CASE TickBegin
  <2>1. worker' \in WorkerRec /\ worker'.state = worker.state
        /\ worker'.pc # "acquire"
    BY <1>1, <1>3 DEF TickBegin, WorkerRec, WorkerPc
  <2>2. TypeOK'
    BY <1>1, <1>3, <2>1 DEF TickBegin, TypeOK
  <2> QED
    BY <1>1, <1>3, <2>1, <2>2, WorkerFrame DEF TickBegin, Inv
<1>4. CASE TickEnd
  <2>1. worker' \in WorkerRec /\ worker'.state = worker.state
        /\ worker'.pc # "acquire"
    BY <1>1, <1>4 DEF TickEnd, WorkerRec, WorkerPc
  <2>2. TypeOK'
    BY <1>1, <1>4, <2>1, Values DEF TickEnd, TypeOK
  <2> QED
    BY <1>1, <1>4, <2>1, <2>2, WorkerFrame DEF TickEnd, Inv
<1>5. CASE SetResult
  <2>1. worker' \in WorkerRec /\ worker'.state = worker.state
        /\ worker'.pc # "acquire"
    BY <1>1, <1>5 DEF SetResult, WorkerRec, WorkerPc
  <2>2. TypeOK'
    BY <1>1, <1>5, <2>1 DEF SetResult, TypeOK
  <2> QED
    BY <1>1, <1>5, <2>1, <2>2, WorkerFrame DEF SetResult, Inv
<1>6. CASE NotifyCompleted
  <2>1. worker' \in WorkerRec /\ worker'.state = worker.state
        /\ worker'.pc # "acquire"
    BY <1>1, <1>6 DEF NotifyCompleted, WorkerRec, WorkerPc
  <2>2. TypeOK'
    BY <1>1, <1>6, <2>1 DEF NotifyCompleted, TypeOK, Status
  <2> QED
    BY <1>1, <1>6, <2>1, <2>2, WorkerFrame DEF NotifyCompleted, Inv
<1>7. CASE TakeErr
  <2>1. Head(qErr) \in ErrVal /\ qErr' \in Seq(ErrVal) /\ Len(qErr') <= 1
    BY <1>1, <1>7 DEF TakeErr, TypeOK
  <2>2. worker' \in WorkerRec /\ worker'.state = worker.state
        /\ worker'.pc # "acquire"
    BY <1>1, <1>7, <2>1 DEF TakeErr, WorkerRec, WorkerPc
  <2>3. TypeOK'
    BY <1>1, <1>7, <2>1, <2>2 DEF TakeErr, TypeOK
  <2> QED
    BY <1>1, <1>7, <2>2, <2>3, WorkerFrame DEF TakeErr, Inv
<1>8. CASE SetErr
  <2>1. worker' \in WorkerRec /\ worker'.state = worker.state
        /\ worker'.pc # "acquire"
    BY <1>1, <1>8, Values DEF SetErr, WorkerRec, WorkerPc
  <2>2. sesErr' \in ErrVal
    BY <1>1, <1>8 DEF SetErr, WorkerRec, TypeOK
  <2>3. TypeOK'
    BY <1>1, <1>8, <2>1, <2>2 DEF SetErr, TypeOK
  <2> QED
    BY <1>1, <1>8, <2>1, <2>3, WorkerFrame DEF SetErr, Inv
<1>9. CASE Stop
  <2>1. worker' \in WorkerRec /\ worker'.state = worker.state
        /\ worker'.pc # "acquire"
    BY <1>1, <1>9 DEF Stop, WorkerRec, WorkerPc
  <2>2. qErr' \in Seq(ErrVal) /\ Len(qErr') <= 1
    BY <1>1, <1>9, Values DEF TypeOK, Stop, RoomInErr
  <2>3. TypeOK'
    BY <1>1, <1>9, <2>1, <2>2 DEF Stop, TypeOK
  <2> QED
    BY <1>1, <1>9, <2>1, <2>3, WorkerFrame DEF Stop, Inv
<1>10. CASE TickLock
  <2>1. worker' \in WorkerRec /\ worker'.state = worker.state
        /\ worker'.pc # "acquire"
    BY <1>1, <1>10 DEF TickLock, WorkerRec, WorkerPc, Overdue, TypeOK
  <2>2. TypeOK'
    BY <1>1, <1>10, <2>1, Values DEF TickLock, TypeOK
  <2> QED
    BY <1>1, <1>10, <2>1, <2>2, WorkerFrame DEF TickLock, Inv
<1> QED
  BY <1>2, <1>3, <1>4, <1>5, <1>6, <1>7, <1>8, <1>9, <1>10

-----------------------------------------------------------------------------
(* Steps of a goroutine that neither make nor move a state *)

\* A goroutine that goes on with the same state, and drops or keeps the states
\* it is to queue, preserves the invariant if the iterator it takes up is one.
LEMMA RunFrame ==
  ASSUME TypeOK, NavigationSafe, Located, NEW r \in RunId, run[r].pc # "none",
         UNCHANGED <<nStates, qState, worker, delayed, prompted, resumer,
                     backing>>,
         st' \in [StateId -> StateRec],
         \A i \in StateId : st'[i].step = st[i].step
                            /\ st'[i].depth = st[i].depth,
         \A q \in RunId : q # r => run'[q] = run[q],
         run'[r].state = run[r].state,
         run'[r].nxt = run[r].nxt \/ run'[r].nxt = <<>>,
         InExecBy(r)' => InExecBy(r),
         run'[r].pc = "resolve" /\ run'[r].curr # 0 =>
            IsIterator(run'[r].curr) /\ st[run[r].state].depth > 0,
         AtResolve(r, "iterator")' =>
            IsIterator(run[r].state) /\ st[run[r].state].depth > 0
  PROVE  NavigationSafe' /\ Located'
<1>1. nStates \in 0 .. MaxStates /\ MaxStates \in Nat
      /\ \A i \in 1 .. nStates : i \in StateId
  BY BoundAssumption DEF TypeOK, StateId
<1>2. \A i : IsOrdinary(i) => IsOrdinary(i)'
  BY <1>1 DEF IsOrdinary
<1>3. \A i : IsIterator(i) => IsIterator(i)'
  BY <1>1 DEF IsIterator
<1>4. ASSUME NEW q \in RunId
      PROVE  /\ run'[q].pc # "none" => IsOrdinary(run[q].state)'
             /\ \A k \in DOMAIN run'[q].nxt : run'[q].nxt[k] <= nStates'
             /\ run'[q].pc = "resolve" /\ run'[q].curr # 0 =>
                   IsIterator(run[q].curr)' /\ st'[run'[q].state].depth > 0
             /\ AtResolve(q, "iterator")' =>
                   IsIterator(run[q].state)' /\ st'[run'[q].state].depth > 0
  <2>1. /\ run[q].pc # "none" => IsOrdinary(run[q].state)
        /\ \A k \in DOMAIN run[q].nxt : run[q].nxt[k] <= nStates
        /\ run[q].pc = "resolve" /\ run[q].curr # 0 =>
              IsIterator(run[q].curr) /\ st[run[q].state].depth > 0
        /\ AtResolve(q, "iterator") =>
              IsIterator(run[q].state) /\ st[run[q].state].depth > 0
    BY DEF NavigationSafe
  <2>2. run[q].pc # "none" => st'[run[q].state].depth = st[run[q].state].depth
    BY <2>1, <1>1 DEF IsOrdinary
  <2>3. CASE q # r
    BY <2>1, <2>2, <2>3, <1>2, <1>3 DEF AtResolve
  <2>4. CASE q = r
    <3>1. IsOrdinary(run[r].state)'
      BY <2>1, <2>4, <1>2
    <3>2. \A k \in DOMAIN run'[r].nxt : run'[r].nxt[k] <= nStates'
      BY <2>1, <2>4
    <3>3. run'[r].pc = "resolve" /\ run'[r].curr # 0 =>
             IsIterator(run[r].curr)' /\ st'[run'[r].state].depth > 0
      BY <2>2, <2>4, <1>3
    <3>4. AtResolve(r, "iterator")' =>
             IsIterator(run[r].state)' /\ st'[run'[r].state].depth > 0
      BY <2>2, <2>4, <1>3
    <3> QED
      BY <3>1, <3>2, <3>3, <3>4, <2>4
  <2> QED
    BY <2>3, <2>4
<1>5. NavigationSafe'
  <2>1. \A i \in 1 .. nStates' : st'[i].step # None
    BY <1>1 DEF NavigationSafe
  <2>2. \A i \in StateId : \A k \in 1 .. st'[i].depth : backing'[k] # 0
    BY DEF NavigationSafe
  <2>3. \A k \in 1 .. LoopCap : backing'[k] # 0 => IsIterator(backing[k])'
    BY <1>3 DEF NavigationSafe
  <2>4. \A k \in DOMAIN qState' : qState'[k] <= nStates'
    BY DEF NavigationSafe
  <2>5. worker'.pc = "acquire" => IsOrdinary(worker.state)'
    BY <1>2 DEF NavigationSafe
  <2>6. \A i \in delayed' \cup prompted' : IsOrdinary(i)'
    BY <1>2 DEF NavigationSafe
  <2>7. resumer' # 0 => IsOrdinary(resumer)'
    BY <1>2 DEF NavigationSafe
  <2> QED
    BY <2>1, <2>2, <2>3, <2>4, <2>5, <2>6, <2>7, <1>4 DEF NavigationSafe
<1>6. Located'
  <2>1. PICK loc \in [StateId -> Place] : Places_ok(loc)
    BY DEF Located
  <2>2. ASSUME NEW q \in RunId
        PROVE  /\ \A k \in DOMAIN run'[q].nxt : loc[run'[q].nxt[k]] = <<"next", q>>
               /\ InExecBy(q)' => loc[run'[q].state] = <<"exec", q>>
               /\ Distinct(run[q].nxt)'
    <3>1. /\ \A k \in DOMAIN run[q].nxt : loc[run[q].nxt[k]] = <<"next", q>>
          /\ InExecBy(q) => loc[run[q].state] = <<"exec", q>>
          /\ Distinct(run[q].nxt)
      BY <2>1 DEF Places_ok
    <3>2. run'[q].nxt = run[q].nxt \/ run'[q].nxt = <<>>
      OBVIOUS
    <3>3. Distinct(run[q].nxt)'
      <4>1. CASE run'[q].nxt = run[q].nxt
        BY <3>1, <4>1 DEF Distinct
      <4>2. CASE run'[q].nxt = <<>>
        BY <4>2 DEF Distinct
      <4> QED
        BY <3>2, <4>1, <4>2
    <3>4. InExecBy(q)' => InExecBy(q) /\ run'[q].state = run[q].state
      BY DEF InExecBy
    <3>5. \A k \in DOMAIN run'[q].nxt : loc[run'[q].nxt[k]] = <<"next", q>>
      <4>1. CASE run'[q].nxt = run[q].nxt
        BY <3>1, <4>1
      <4>2. CASE run'[q].nxt = <<>>
        BY <4>2
      <4> QED
        BY <3>2, <4>1, <4>2
    <3>6. InExecBy(q)' => loc[run'[q].state] = <<"exec", q>>
      BY <3>1, <3>4
    <3> QED
      BY <3>3, <3>5, <3>6
  <2>3. Places_ok(loc)'
    BY <2>1, <2>2 DEF Places_ok, Distinct
  <2> QED
    BY <2>3 DEF Located
<1> QED
  BY <1>5, <1>6

\* What the invariant says of the state a goroutine executes.
LEMMA RunState ==
  ASSUME Inv, NEW r \in RunId, run[r].pc # "none"
  PROVE  /\ run[r].state \in StateId /\ run[r].state \in 1 .. nStates
         /\ st[run[r].state] \in StateRec /\ st[run[r].state].step \in Step
         /\ run \in [RunId -> RunRec] /\ st \in [StateId -> StateRec]
         /\ TypeOK /\ NavigationSafe /\ Located
<1>1. TypeOK /\ NavigationSafe /\ Located
  BY DEF Inv
<1>2. IsOrdinary(run[r].state)
  BY <1>1 DEF NavigationSafe
<1>3. nStates \in 0 .. MaxStates /\ MaxStates \in Nat
  BY <1>1, BoundAssumption DEF TypeOK
<1>4. run \in [RunId -> RunRec] /\ st \in [StateId -> StateRec]
  BY <1>1 DEF TypeOK
<1> QED
  BY <1>1, <1>2, <1>3, <1>4 DEF IsOrdinary, StateId

\* The iterator on top of a loop stack exists and is an iterator.
LEMMA CurrIterator ==
  ASSUME Inv, NEW i \in StateId, LoopCurr(st[i]) # 0
  PROVE  /\ st[i].depth \in 1 .. LoopCap
         /\ LoopCurr(st[i]) = backing[st[i].depth]
         /\ LoopCurr(st[i]) \in StateId
         /\ IsIterator(LoopCurr(st[i]))
<1>1. st[i].depth \in 0 .. LoopCap /\ LoopCap \in Nat
  BY BoundAssumption DEF Inv, TypeOK, StateRec
<1>2. st[i].depth \in 1 .. LoopCap /\ LoopCurr(st[i]) = backing[st[i].depth]
  BY <1>1 DEF LoopCurr
<1>3. IsIterator(LoopCurr(st[i]))
  BY <1>2 DEF Inv, NavigationSafe
<1>4. nStates \in 0 .. MaxStates /\ MaxStates \in Nat
  BY BoundAssumption DEF Inv, TypeOK
<1> QED
  BY <1>2, <1>3, <1>4 DEF IsIterator, StateId

\* The steps of a goroutine that change only its own record, the channel of
\* errors, the lock, and the err flag of its state.
LEMMA QuietInv ==
  ASSUME Inv, NEW r \in RunId, run[r].pc # "none",
         CallLoop(r) \/ CallPanics(r) \/ Recover(r) \/ ReadStatus(r)
         \/ CheckError(r) \/ PushError(r) \/ Notify(r) \/ EnqueueAbandoned(r)
  PROVE  Inv'
<1> USE DEF stateVars, chanVars, mapVars, endVars, runVars,
            stepVars, waitVars, resumeVars, callerVars, runKeeps
<1> DEFINE i0 == run[r].state
<1>1. /\ i0 \in StateId /\ i0 \in 1 .. nStates
      /\ st[i0] \in StateRec /\ st[i0].step \in Step
      /\ run \in [RunId -> RunRec] /\ st \in [StateId -> StateRec]
      /\ TypeOK /\ NavigationSafe /\ Located
  BY RunState
<1>2. {"resolve", "panic", "post", "check", "push", "notify", "enqueue", "done"}
         \subseteq RunPc
  BY DEF RunPc
<1>3. {"iterator"} \subseteq RespKind /\ {"failed", "active"} \subseteq Status
      /\ CurStatus \in Status
  BY DEF RespKind, Status, CurStatus
<1>4. CASE CallLoop(r)
  <2>1. PICK c \in StateId : c = LoopCurr(st[i0])
    BY <1>1, <1>4, CurrIterator DEF CallLoop
  <2>2. /\ c # 0 /\ st[c].step = st[i0].step
        /\ run' = [run EXCEPT ![r].pc = "resolve", ![r].curr = c,
                      ![r].resp = "iterator"]
        /\ UNCHANGED <<runKeeps, mapVars, stepVars, stateVars, qErr, mux>>
        /\ run[r].pc = "call"
    BY <1>4, <2>1 DEF CallLoop
  <2>3. IsIterator(c) /\ st[i0].depth \in 1 .. LoopCap
    BY <1>1, <2>1, <2>2, CurrIterator
  <2>4. c \in 0 .. MaxStates
    BY BoundAssumption DEF StateId
  <2>5. run' \in [RunId -> RunRec]
    BY <1>1, <1>2, <1>3, <2>2, <2>4, ZenonT(60) DEF RunRec
  <2>6. TypeOK'
    BY <1>1, <2>2, <2>5 DEF TypeOK
  <2>7. IsIterator(i0) /\ st[i0].depth > 0
    BY <1>1, <2>2, <2>3, BoundAssumption DEF IsIterator
  <2>8. /\ run'[r].state = run[r].state /\ run'[r].nxt = run[r].nxt
        /\ run'[r].curr = c
        /\ \A q \in RunId : q # r => run'[q] = run[q]
    BY <1>1, <2>2 DEF RunRec
  <2>9. InExecBy(r)
    BY <2>2 DEF InExecBy
  <2> QED
    BY <1>1, <2>2, <2>3, <2>6, <2>7, <2>8, <2>9, RunFrame DEF Inv
<1>5. ASSUME run' \in [RunId -> RunRec], st' \in [StateId -> StateRec],
             \A i \in StateId : st'[i].step = st[i].step
                                /\ st'[i].depth = st[i].depth,
             run'[r].state = run[r].state,
             run'[r].nxt = run[r].nxt \/ run'[r].nxt = <<>>,
             run'[r].pc \notin {"call", "resolve"},
             run'[r].pc = "panic" => InExecBy(r),
             \A q \in RunId : q # r => run'[q] = run[q],
             qErr' \in Seq(ErrVal) /\ Len(qErr') <= 1,
             mux' \in Holder, handled' \subseteq Status,
             UNCHANGED <<nStates, qState, worker, delayed, delayedNil, due,
                         prompted, endVars, nRuns, stepVars, callerVars>>
      PROVE  Inv'
  <2>1. TypeOK'
    BY <1>1, <1>5 DEF TypeOK
  <2>2. InExecBy(r)' => InExecBy(r)
    BY <1>5 DEF InExecBy
  <2>3. NavigationSafe' /\ Located'
    BY <1>1, <1>5, <2>2, RunFrame DEF AtResolve
  <2> QED
    BY <2>1, <2>3 DEF Inv
<1>6. ASSUME NEW pc \in RunPc, run' = [run EXCEPT ![r].pc = pc]
      PROVE  /\ run' \in [RunId -> RunRec]
             /\ run'[r].state = run[r].state /\ run'[r].nxt = run[r].nxt
             /\ run'[r].pc = pc
             /\ \A q \in RunId : q # r => run'[q] = run[q]
  BY <1>1, <1>6 DEF RunRec
<1>7. /\ qErr \in Seq(ErrVal) /\ Len(qErr) <= 1 /\ mux \in Holder
      /\ handled \subseteq Status
  BY <1>1 DEF TypeOK
<1>8. CASE CallPanics(r)
  <2>1. InExecBy(r)
    BY <1>8 DEF CallPanics, InExecBy
  <2>2. /\ run' \in [RunId -> RunRec]
        /\ run'[r].state = run[r].state /\ run'[r].nxt = run[r].nxt
        /\ run'[r].pc = "panic"
        /\ \A q \in RunId : q # r => run'[q] = run[q]
    <3>1. run' = [run EXCEPT ![r].pc = "panic"]
      BY <1>8 DEF CallPanics
    <3>2. "panic" \in RunPc
      BY <1>2
    <3> QED
      BY <1>6, <3>1, <3>2
  <2>3. UNCHANGED <<st, qErr, mux, handled>>
    BY <1>8 DEF CallPanics
  <2> QED
    BY <1>1, <1>5, <1>7, <1>8, <2>1, <2>2, <2>3 DEF CallPanics
<1>9. CASE Recover(r)
  <2>1. qErr' \in Seq(ErrVal) /\ Len(qErr') <= 1
    BY <1>1, <1>7, <1>9, Values DEF Recover, RoomInErr
  <2>2. /\ run' \in [RunId -> RunRec]
        /\ run'[r].state = run[r].state /\ run'[r].nxt = run[r].nxt
        /\ run'[r].pc = "post"
        /\ \A q \in RunId : q # r => run'[q] = run[q]
    <3>1. run' = [run EXCEPT ![r].pc = "post"]
      BY <1>9 DEF Recover
    <3>2. "post" \in RunPc
      BY <1>2
    <3> QED
      BY <1>6, <3>1, <3>2
  <2>3. UNCHANGED <<st, mux, handled>>
    BY <1>9 DEF Recover
  <2> QED
    BY <1>1, <1>5, <1>7, <1>9, <2>1, <2>2, <2>3 DEF Recover
<1>10. CASE ReadStatus(r)
  <2>1. run[r].err \in BOOLEAN /\ st[i0].err \in BOOLEAN
    BY <1>1 DEF RunRec, StateRec
  <2>2. st' \in [StateId -> StateRec]
    BY <1>1, <1>10, <2>1 DEF ReadStatus, StateRec
  <2>3. \A i \in StateId : st'[i].step = st[i].step /\ st'[i].depth = st[i].depth
    BY <1>1, <1>10 DEF ReadStatus, StateRec
  <2>4. run' = [run EXCEPT ![r].pc = "check", ![r].status = CurStatus]
    BY <1>10 DEF ReadStatus
  <2>5. /\ run' \in [RunId -> RunRec]
        /\ run'[r].state = run[r].state /\ run'[r].nxt = run[r].nxt
        /\ run'[r].pc = "check"
        /\ \A q \in RunId : q # r => run'[q] = run[q]
    BY <1>1, <1>2, <1>3, <2>4 DEF RunRec
  <2> QED
    BY <1>5, <1>7, <1>10, <2>2, <2>3, <2>5 DEF ReadStatus
<1>11. CASE CheckError(r)
  <2>1. CASE Fails(st[i0])
    <3>1. run' = [run EXCEPT ![r].pc = "push", ![r].status = "failed"]
          /\ mux' = <<"run", r>>
      BY <1>11, <2>1 DEF CheckError, Forced
    <3>2. /\ run' \in [RunId -> RunRec]
          /\ run'[r].state = run[r].state /\ run'[r].nxt = run[r].nxt
          /\ run'[r].pc = "push"
          /\ \A q \in RunId : q # r => run'[q] = run[q]
      BY <1>1, <1>2, <1>3, <3>1 DEF RunRec
    <3>3. mux' \in Holder
      BY <3>1, Values
    <3> QED
      BY <1>1, <1>5, <1>7, <1>11, <3>2, <3>3 DEF CheckError
  <2>2. CASE ~Fails(st[i0])
    BY <1>1, <1>2, <1>5, <1>6, <1>7, <1>11, <2>2 DEF CheckError
  <2> QED
    BY <2>1, <2>2
<1>12. CASE PushError(r)
  <2>1. qErr' \in Seq(ErrVal) /\ Len(qErr') <= 1 /\ mux' \in Holder
    BY <1>1, <1>7, <1>12, Values DEF PushError, RoomInErr
  <2>2. /\ run' \in [RunId -> RunRec]
        /\ run'[r].state = run[r].state /\ run'[r].nxt = run[r].nxt
        /\ run'[r].pc = "notify"
        /\ \A q \in RunId : q # r => run'[q] = run[q]
    <3>1. run' = [run EXCEPT ![r].pc = "notify"]
      BY <1>12 DEF PushError
    <3>2. "notify" \in RunPc
      BY <1>2
    <3> QED
      BY <1>6, <3>1, <3>2
  <2>3. UNCHANGED <<st, handled>>
    BY <1>12 DEF PushError
  <2> QED
    BY <1>1, <1>5, <1>7, <1>12, <2>1, <2>2, <2>3 DEF PushError
<1>13. CASE Notify(r)
  <2>1. handled' \subseteq Status
    BY <1>1, <1>7, <1>13 DEF Notify, RunRec
  <2>2. PICK pc \in {"done", "enqueue"} : run' = [run EXCEPT ![r].pc = pc]
    BY <1>13 DEF Notify
  <2>3. pc \in RunPc
    BY <1>2
  <2>4. /\ run' \in [RunId -> RunRec]
        /\ run'[r].state = run[r].state /\ run'[r].nxt = run[r].nxt
        /\ run'[r].pc = pc
        /\ \A q \in RunId : q # r => run'[q] = run[q]
    BY <1>6, <2>2, <2>3
  <2>5. UNCHANGED <<st, qErr, mux>>
    BY <1>13 DEF Notify
  <2> QED
    BY <1>1, <1>5, <1>7, <1>13, <2>1, <2>4, <2>5 DEF Notify
<1>14. CASE EnqueueAbandoned(r)
  <2>1. run' = [run EXCEPT ![r].nxt = <<>>, ![r].pc = "done"]
    BY <1>14 DEF EnqueueAbandoned
  <2>2. /\ run'[r].state = run[r].state /\ run'[r].nxt = <<>>
        /\ run'[r].pc = "done"
        /\ \A q \in RunId : q # r => run'[q] = run[q]
    BY <1>1, <2>1 DEF RunRec
  <2>3. run' \in [RunId -> RunRec]
    <3>1. <<>> \in Seq(StateId) /\ "done" \in RunPc
      BY <1>2
    <3> QED
      BY <1>1, <2>1, <3>1, ZenonT(60) DEF RunRec
  <2> QED
    BY <1>1, <1>5, <1>7, <1>14, <2>2, <2>3 DEF EnqueueAbandoned
<1> QED
  BY <1>4, <1>8, <1>9, <1>10, <1>11, <1>12, <1>13, <1>14

-----------------------------------------------------------------------------
(* Steps of a goroutine that leave exec *)

\* A state that is executed is not suspended.
LEMMA ExecNotSuspended ==
  ASSUME Inv, NEW r \in RunId, InExecBy(r)
  PROVE  run[r].pc # "none" /\ run[r].state \notin delayed
         /\ run[r].state \notin prompted
<1>1. PICK loc \in [StateId -> Place] : Places_ok(loc)
  BY DEF Inv, Located
<1>2. loc[run[r].state] = <<"exec", r>>
  BY <1>1 DEF Places_ok
<1>3. /\ run[r].state \in delayed => loc[run[r].state] = <<"delayed", 0>>
      /\ run[r].state \in prompted => loc[run[r].state] = <<"prompted", 0>>
  BY <1>1 DEF Places_ok
<1>4. run[r].pc # "none"
  BY DEF InExecBy
<1> QED
  BY <1>2, <1>3, <1>4

\* Leaving exec preserves the whole invariant.
LEMMA LeaveKeeps ==
  ASSUME Inv, NEW r \in RunId, InExecBy(r),
         NEW cur \in StateRec, cur.step = st[run[r].state].step,
         NEW steps \in Seq(Step \cup {Final}), NEW err \in BOOLEAN,
         Leave(r, cur, steps, err),
         UNCHANGED <<runKeeps, qErr, mux, joined>>,
         left' \in [StateId -> Nat],
         backing' \in [1 .. LoopCap -> 0 .. MaxStates],
         \A k \in 1 .. LoopCap : backing'[k] # backing[k] =>
             backing'[k] = run[r].state /\ Kind[cur.step] = "iterator",
         \A k \in 1 .. cur.depth : backing'[k] # 0,
         delayed' \subseteq delayed \cup {run[r].state}, due' \subseteq delayed',
         delayedNil' \in BOOLEAN,
         prompted' \subseteq prompted \cup {run[r].state},
         run[r].state \notin delayed' \cap prompted'
  PROVE  Inv'
<1> USE DEF endVars, callerVars, waitVars, resumeVars, runKeeps
<1>1. run[r].pc # "none"
  BY DEF InExecBy
<1>2. TypeOK /\ NavigationSafe /\ run[r].state \in StateId
  BY <1>1, RunState
<1>3. LeftExec(r, cur)
  BY <1>1, <1>2, LeaveEffect
<1>4. st' \in [StateId -> StateRec] /\ nStates' \in 0 .. MaxStates
      /\ run' \in [RunId -> RunRec]
  BY <1>3 DEF LeftExec
<1>5. delayed' \subseteq StateId /\ prompted' \subseteq StateId
  BY <1>2 DEF TypeOK
<1>6. TypeOK'
  BY <1>2, <1>4, <1>5 DEF TypeOK
<1>7. NavigationSafe' /\ Located'
  BY LeaveInv
<1> QED
  BY <1>6, <1>7 DEF Inv

\* The loop stack of a state that is executed is full of iterators.
LEMMA StackFull ==
  ASSUME Inv, NEW i \in StateId
  PROVE  /\ st[i].depth \in 0 .. LoopCap /\ LoopCap \in Nat
         /\ \A k \in 1 .. st[i].depth : backing[k] # 0
         /\ backing \in [1 .. LoopCap -> 0 .. MaxStates]
         /\ left \in [StateId -> Nat]
<1>1. TypeOK /\ NavigationSafe
  BY DEF Inv
<1>2. st[i].depth \in 0 .. LoopCap
  BY <1>1 DEF TypeOK, StateRec
<1> QED
  BY <1>1, <1>2, BoundAssumption DEF TypeOK, NavigationSafe

\* Leaving exec with the maps and the loop array as they are.
LEMMA LeavePlain ==
  ASSUME Inv, NEW r \in RunId, InExecBy(r),
         NEW cur \in StateRec, cur.step = st[run[r].state].step,
         cur.depth <= st[run[r].state].depth,
         NEW steps \in Seq(Step \cup {Final}), NEW err \in BOOLEAN,
         Leave(r, cur, steps, err),
         UNCHANGED <<runKeeps, qErr, mux, joined, mapVars, backing>>,
         left' \in [StateId -> Nat]
  PROVE  Inv'
<1>1. /\ run[r].pc # "none" /\ run[r].state \notin delayed
      /\ run[r].state \notin prompted
  BY ExecNotSuspended
<1>2. run[r].state \in StateId
  BY <1>1, RunState
<1>3. /\ st[run[r].state].depth \in 0 .. LoopCap /\ LoopCap \in Nat
      /\ \A k \in 1 .. st[run[r].state].depth : backing[k] # 0
      /\ backing \in [1 .. LoopCap -> 0 .. MaxStates]
  BY <1>2, StackFull
<1>4. cur.depth \in 0 .. LoopCap
  BY DEF StateRec
<1>5. \A k \in 1 .. cur.depth : backing'[k] # 0
  BY <1>3, <1>4
<1>6. UNCHANGED <<delayed, due, delayedNil, prompted>>
  BY DEF mapVars
<1>7. due \subseteq delayed /\ delayedNil \in BOOLEAN
  BY DEF Inv, TypeOK
<1> QED
  BY <1>1, <1>3, <1>5, <1>6, <1>7, LeaveKeeps, ZenonT(60)

\* Leaving exec with everything else as it is, the state included.
LEMMA LeaveSame ==
  ASSUME Inv, NEW r \in RunId, InExecBy(r),
         NEW steps \in Seq(Step \cup {Final}), NEW err \in BOOLEAN,
         Leave(r, st[run[r].state], steps, err),
         UNCHANGED <<runKeeps, mapVars, stepVars, qErr, mux>>
  PROVE  Inv'
<1>1. run[r].state \in StateId /\ st[run[r].state] \in StateRec
  BY RunState DEF InExecBy
<1>2. PICK cur \in StateRec : cur = st[run[r].state]
  BY <1>1
<1>3. left \in [StateId -> Nat] /\ cur.depth \in Nat
  BY <1>1, <1>2, StackFull
<1>4. UNCHANGED <<runKeeps, qErr, mux, joined, mapVars, backing>>
      /\ left' \in [StateId -> Nat]
  BY <1>3 DEF stepVars
<1>5. cur.step = st[run[r].state].step /\ cur.depth <= st[run[r].state].depth
  BY <1>2, <1>3
<1>6. Leave(r, cur, steps, err)
  BY <1>2
<1> QED
  BY <1>4, <1>5, <1>6, LeavePlain

\* Whatever the tail of exec decides, it leaves exec with steps of the graph
\* or the final one.
LEMMA FollowLeaves ==
  ASSUME Inv, NEW r \in RunId, run[r].pc = "resolve",
         NEW cur \in StateRec, cur.step = st[run[r].state].step,
         NEW next \in Seq(Step), Follow(r, cur, next)
  PROVE  \E steps \in Seq(Step \cup {Final}), err \in BOOLEAN :
             Leave(r, cur, steps, err)
<1>1. cur.step \in Step /\ NavigationSafe
  BY RunState
<1>2. run[r].curr # 0 => st[run[r].curr].step \in Step
  BY <1>1 DEF NavigationSafe, IsIterator
<1>3. \A q \in Seq(Step) : q \in Seq(Step \cup {Final})
  OBVIOUS
<1>4. Children[cur.step] \in Seq(Step)
  BY <1>1, GraphAssumption
<1>5. Successors(cur.step, next, run[r].curr) \in Seq(Step \cup {Final})
  <2>1. <<Final>> \in Seq(Step \cup {Final})
    OBVIOUS
  <2>2. run[r].curr # 0 => <<st[run[r].curr].step>> \in Seq(Step \cup {Final})
    BY <1>2
  <2> QED
    BY <1>3, <1>4, <2>1, <2>2 DEF Successors
<1>6. <<>> \in Seq(Step \cup {Final})
  OBVIOUS
<1> QED
  BY <1>5, <1>6 DEF Follow

\* The responses that end in the common tail or leave exec at once.
LEMMA FollowInv ==
  ASSUME Inv, NEW r \in RunId, run[r].pc = "resolve",
         NEW cur \in StateRec, cur.step = st[run[r].state].step,
         cur.depth <= st[run[r].state].depth,
         NEW next \in Seq(Step), Follow(r, cur, next),
         UNCHANGED <<runKeeps, qErr, mux, joined, mapVars, backing>>,
         left' \in [StateId -> Nat]
  PROVE  Inv'
<1>1. PICK steps \in Seq(Step \cup {Final}), err \in BOOLEAN :
          Leave(r, cur, steps, err)
  BY FollowLeaves
<1>2. InExecBy(r)
  BY DEF InExecBy
<1> QED
  BY <1>1, <1>2, LeavePlain

\* A response with variables or steps, a partial join, and an armed handler.
LEMMA ResolvePlainInv ==
  ASSUME Inv, NEW r \in RunId,
         ResolveVars(r) \/ ResolveSteps(r) \/ ResolvePartial(r)
         \/ ResolveErrHandler(r)
  PROVE  Inv'
<1> DEFINE i0 == run[r].state
<1>1. run[r].pc = "resolve"
  BY DEF ResolveVars, ResolveSteps, ResolvePartial, ResolveErrHandler, AtResolve
<1>2. /\ i0 \in StateId /\ st[i0] \in StateRec /\ st[i0].step \in Step
      /\ run \in [RunId -> RunRec] /\ TypeOK
  BY <1>1, RunState
<1>3. left \in [StateId -> Nat] /\ InExecBy(r) /\ st[i0].depth \in Nat
  BY <1>1, <1>2, StackFull DEF InExecBy
<1>4. <<>> \in Seq(Step) /\ <<>> \in Seq(Step \cup {Final})
  OBVIOUS
<1>5. CASE ResolveVars(r)
  <2>1. PICK next \in Seq(Step) : Follow(r, st[i0], next)
    BY <1>4, <1>5 DEF ResolveVars
  <2>2. UNCHANGED <<runKeeps, mapVars, stepVars, qErr, mux>>
    BY <1>5 DEF ResolveVars
  <2> QED
    BY <1>1, <1>2, <1>3, <2>1, <2>2, FollowInv DEF stepVars
<1>6. CASE ResolveSteps(r)
  <2>1. Follow(r, st[i0], run[r].to) /\ run[r].to \in Seq(Step)
    BY <1>2, <1>6 DEF ResolveSteps, RunRec
  <2>2. UNCHANGED <<runKeeps, mapVars, stepVars, qErr, mux>>
    BY <1>6 DEF ResolveSteps
  <2> QED
    BY <1>1, <1>2, <1>3, <2>1, <2>2, FollowInv DEF stepVars
<1>7. CASE ResolvePartial(r)
  <2>1. PICK steps \in Seq(Step \cup {Final}), err \in BOOLEAN :
            Leave(r, st[i0], steps, err)
    BY <1>4, <1>7 DEF ResolvePartial
  <2>2. UNCHANGED <<runKeeps, mapVars, stepVars, qErr, mux>>
    BY <1>7 DEF ResolvePartial
  <2> QED
    BY <1>3, <2>1, <2>2, LeaveSame
<1>8. CASE ResolveErrHandler(r)
  <2>1. PICK s \in Step : s = st[i0].step
    BY <1>2
  <2>2. Children[s] \in Seq(Step)
    BY GraphAssumption
  <2>3. Handler(s) \in Step \cup {None}
    BY <2>2 DEF Handler
  <2>4. Armed(s) \in Seq(Step)
    <3>1. Children[s] # <<>> => <<Children[s][1]>> \in Seq(Step)
      BY <2>2
    <3> QED
      BY <3>1, <1>4 DEF Armed
  <2>5. PICK cur \in StateRec : cur = [st[i0] EXCEPT !.errHandler = Handler(s)]
    BY <1>2, <2>3 DEF StateRec
  <2>6. cur.step = st[i0].step /\ cur.depth = st[i0].depth
    BY <1>2, <2>5 DEF StateRec
  <2>7. Follow(r, cur, Armed(s))
    BY <1>8, <2>1, <2>5 DEF ResolveErrHandler
  <2>8. UNCHANGED <<runKeeps, mapVars, stepVars, qErr, mux>>
    BY <1>8 DEF ResolveErrHandler
  <2> QED
    BY <1>1, <1>2, <1>3, <2>4, <2>6, <2>7, <2>8, FollowInv DEF stepVars
<1> QED
  BY <1>5, <1>6, <1>7, <1>8

\* The exit of the loop on top of the stack is a step, and so is the body.
LEMMA LoopSteps ==
  ASSUME Inv, NEW i \in StateId, st[i].depth > 0
  PROVE  /\ LoopExit(st[i]) \in Step
         /\ LoopEnd(st[i]) \in StateRec
         /\ LoopEnd(st[i]).step = st[i].step
         /\ LoopEnd(st[i]).depth <= st[i].depth
<1>1. /\ st[i].depth \in 0 .. LoopCap /\ LoopCap \in Nat
      /\ \A k \in 1 .. st[i].depth : backing[k] # 0
  BY StackFull
<1>2. st[i].depth \in 1 .. LoopCap /\ backing[st[i].depth] # 0
  BY <1>1
<1>3. IsIterator(backing[st[i].depth])
  BY <1>2 DEF Inv, NavigationSafe
<1>4. PICK s \in Step : s = st[backing[st[i].depth]].step /\ Kind[s] = "iterator"
  BY <1>3 DEF IsIterator
<1>5. Children[s] \in Seq(Step) /\ Len(Children[s]) = 2
  BY <1>4, GraphAssumption
<1>6. LoopExit(st[i]) \in Step
  BY <1>4, <1>5 DEF LoopExit
<1>7. st[i] \in StateRec
  BY DEF Inv, TypeOK
<1>8. st[i].depth - 1 \in 0 .. LoopCap /\ st[i].depth - 1 <= st[i].depth
  BY <1>1, <1>2
<1>9. LoopEnd(st[i]) = [st[i] EXCEPT !.depth = st[i].depth - 1]
  BY DEF LoopEnd
<1>10. LoopEnd(st[i]) \in StateRec
  BY <1>7, <1>8, <1>9 DEF StateRec
<1>11. LoopEnd(st[i]).step = st[i].step /\ LoopEnd(st[i]).depth = st[i].depth - 1
  BY <1>7, <1>9 DEF StateRec
<1> QED
  BY <1>6, <1>8, <1>10, <1>11

\* break and continue, in a loop and outside of one.
LEMMA ResolveJumpInv ==
  ASSUME Inv, NEW r \in RunId, ResolveBreak(r) \/ ResolveContinue(r)
  PROVE  Inv'
<1> DEFINE i0 == run[r].state
<1>1. run[r].pc = "resolve"
  BY DEF ResolveBreak, ResolveContinue, AtResolve
<1>2. /\ i0 \in StateId /\ st[i0] \in StateRec /\ st[i0].step \in Step
      /\ NavigationSafe
  BY <1>1, RunState
<1>3. left \in [StateId -> Nat] /\ InExecBy(r) /\ st[i0].depth \in Nat
  BY <1>1, <1>2, StackFull DEF InExecBy
<1>4. <<>> \in Seq(Step \cup {Final})
  OBVIOUS
<1>5. run[r].curr # 0 => st[run[r].curr].step \in Step /\ st[i0].depth > 0
  BY <1>1, <1>2 DEF NavigationSafe, IsIterator
<1>6. UNCHANGED <<runKeeps, mapVars, stepVars, qErr, mux>>
  BY DEF ResolveBreak, ResolveContinue
<1>7. CASE run[r].curr = 0
  <2>1. PICK steps \in Seq(Step \cup {Final}), err \in BOOLEAN :
            Leave(r, st[i0], steps, err)
    BY <1>4, <1>7 DEF ResolveBreak, ResolveContinue
  <2> QED
    BY <1>3, <1>6, <2>1, LeaveSame
<1>8. CASE run[r].curr # 0 /\ ResolveBreak(r)
  <2>1. Follow(r, LoopEnd(st[i0]), <<LoopExit(st[i0])>>)
    BY <1>8 DEF ResolveBreak
  <2>2. /\ <<LoopExit(st[i0])>> \in Seq(Step)
        /\ LoopEnd(st[i0]) \in StateRec
        /\ LoopEnd(st[i0]).step = st[i0].step
        /\ LoopEnd(st[i0]).depth <= st[i0].depth
    BY <1>2, <1>5, <1>8, LoopSteps
  <2> QED
    BY <1>1, <1>3, <1>6, <2>1, <2>2, FollowInv DEF stepVars
<1>9. CASE run[r].curr # 0 /\ ResolveContinue(r)
  <2>1. <<st[run[r].curr].step>> \in Seq(Step)
    BY <1>5, <1>9
  <2>2. PICK next \in Seq(Step) : Follow(r, st[i0], next)
    BY <1>9, <2>1 DEF ResolveContinue
  <2> QED
    BY <1>1, <1>2, <1>3, <1>6, <2>2, FollowInv DEF stepVars
<1> QED
  BY <1>7, <1>8, <1>9

\* The iterator: another round, the way out, and an error of Next.
LEMMA ResolveIteratorInv ==
  ASSUME Inv, NEW r \in RunId, ResolveIterator(r)
  PROVE  Inv'
<1> DEFINE i0 == run[r].state
           obj == IterObj(r)
<1>1. AtResolve(r, "iterator") /\ run[r].pc = "resolve"
      /\ UNCHANGED <<runKeeps, mapVars, qErr, mux, joined, backing>>
  BY DEF ResolveIterator, AtResolve
<1>2. /\ i0 \in StateId /\ st[i0] \in StateRec /\ st[i0].step \in Step
      /\ NavigationSafe /\ TypeOK
  BY <1>1, RunState
<1>3. left \in [StateId -> Nat] /\ InExecBy(r) /\ st[i0].depth \in Nat
  BY <1>1, <1>2, StackFull DEF InExecBy
<1>4. IsIterator(i0) /\ st[i0].depth > 0
  BY <1>1, <1>2 DEF NavigationSafe
<1>5. IsIterator(obj)
  <2>1. run[r].curr # 0 => IsIterator(run[r].curr)
    BY <1>1, <1>2 DEF NavigationSafe
  <2> QED
    BY <1>4, <2>1 DEF IterObj
<1>6. obj \in StateId
  <2>1. nStates \in 0 .. MaxStates /\ MaxStates \in Nat
    BY <1>2, BoundAssumption DEF TypeOK
  <2> QED
    BY <1>5, <2>1 DEF IsIterator, StateId
<1>7. PICK s \in Step : s = st[obj].step /\ Kind[s] = "iterator"
  BY <1>5 DEF IsIterator
<1>8. Children[s] \in Seq(Step) /\ Len(Children[s]) = 2
  BY <1>7, GraphAssumption
<1>9. <<Children[s][1]>> \in Seq(Step)
  BY <1>8
<1> HIDE DEF obj
<1>10. CASE left[obj] > 0 /\ left' = [left EXCEPT ![obj] = @ - 1]
            /\ Follow(r, st[i0], <<Children[st[obj].step][1]>>)
  <2>1. left' \in [StateId -> Nat]
    BY <1>3, <1>6, <1>10
  <2>2. PICK next \in Seq(Step) : Follow(r, st[i0], next)
    BY <1>7, <1>9, <1>10
  <2> QED
    BY <1>1, <1>2, <1>3, <2>1, <2>2, FollowInv
<1>11. CASE Follow(r, LoopEnd(st[i0]), <<LoopExit(st[i0])>>) /\ UNCHANGED left
  <2>1. /\ <<LoopExit(st[i0])>> \in Seq(Step)
        /\ LoopEnd(st[i0]) \in StateRec
        /\ LoopEnd(st[i0]).step = st[i0].step
        /\ LoopEnd(st[i0]).depth <= st[i0].depth
    BY <1>2, <1>4, LoopSteps
  <2>2. left' \in [StateId -> Nat]
    BY <1>3, <1>11
  <2> QED
    BY <1>1, <1>11, <2>1, <2>2, FollowInv
<1>12. CASE Leave(r, [st[i0] EXCEPT !.err = TRUE], <<>>, TRUE) /\ UNCHANGED left
  <2>1. <<>> \in Seq(Step \cup {Final}) /\ TRUE \in BOOLEAN
    OBVIOUS
  <2>2. PICK cur \in StateRec : cur = [st[i0] EXCEPT !.err = TRUE]
    BY <1>2 DEF StateRec
  <2>3. cur.step = st[i0].step /\ cur.depth = st[i0].depth
    BY <1>2, <2>2 DEF StateRec
  <2>4. PICK steps \in Seq(Step \cup {Final}), err \in BOOLEAN :
            Leave(r, cur, steps, err)
    BY <1>12, <2>1, <2>2
  <2>5. cur.step = st[run[r].state].step /\ cur.depth <= st[run[r].state].depth
        /\ left' \in [StateId -> Nat]
    BY <1>3, <1>12, <2>3
  <2> QED
    BY <1>1, <1>3, <2>4, <2>5, LeavePlain
<1> QED
  BY <1>10, <1>11, <1>12 DEF ResolveIterator, obj

\* Termination drops the delayed states, a delay or a prompt suspends the
\* state; the lock may be lost to a panic.
LEMMA ResolveSuspendInv ==
  ASSUME Inv, NEW r \in RunId,
         ResolveTermination(r) \/ ResolveDelay(r) \/ ResolvePrompt(r)
  PROVE  Inv'
<1> DEFINE i0 == run[r].state
<1>1. run[r].pc = "resolve" /\ InExecBy(r)
  BY DEF ResolveTermination, ResolveDelay, ResolvePrompt, AtResolve, InExecBy
<1>2. /\ i0 \in StateId /\ st[i0] \in StateRec /\ st[i0].step \in Step
      /\ TypeOK /\ NavigationSafe /\ Located /\ run \in [RunId -> RunRec]
      /\ st \in [StateId -> StateRec]
  BY <1>1, RunState
<1>3. /\ \A k \in 1 .. st[i0].depth : backing[k] # 0
      /\ backing \in [1 .. LoopCap -> 0 .. MaxStates]
      /\ left \in [StateId -> Nat]
  BY <1>2, StackFull
<1>4. i0 \notin delayed /\ i0 \notin prompted
  BY <1>1, ExecNotSuspended
<1>5. <<>> \in Seq(Step \cup {Final}) /\ <<Final>> \in Seq(Step \cup {Final})
  OBVIOUS
<1>6. due \subseteq delayed /\ delayedNil \in BOOLEAN
  BY <1>2 DEF TypeOK
<1>7. ASSUME NEW steps \in Seq(Step \cup {Final}), NEW err \in BOOLEAN,
             Leave(r, st[i0], steps, err),
             UNCHANGED <<runKeeps, stepVars, qErr, mux>>,
             delayed' \subseteq delayed \cup {i0}, due' \subseteq delayed',
             delayedNil' \in BOOLEAN, prompted' \subseteq prompted \cup {i0},
             i0 \notin delayed' \cap prompted'
      PROVE  Inv'
  <2>1. PICK cur \in StateRec : cur = st[i0]
    BY <1>2
  <2>2. cur.step = st[run[r].state].step /\ Leave(r, cur, steps, err)
    BY <1>7, <2>1
  <2>3. UNCHANGED <<runKeeps, qErr, mux, joined>> /\ UNCHANGED <<backing, left>>
    BY <1>7 DEF stepVars
  <2>4. /\ \A k \in 1 .. cur.depth : backing'[k] # 0
        /\ backing' \in [1 .. LoopCap -> 0 .. MaxStates]
        /\ left' \in [StateId -> Nat]
    BY <1>3, <2>1, <2>3
  <2> QED
    BY <1>1, <1>7, <2>2, <2>3, <2>4, LeaveKeeps
<1>8. CASE ResolveTermination(r)
  <2>1. PICK steps \in Seq(Step \cup {Final}), err \in BOOLEAN :
            Leave(r, st[i0], steps, err)
    BY <1>5, <1>8 DEF ResolveTermination
  <2>2. /\ UNCHANGED <<runKeeps, stepVars, qErr, mux>>
        /\ delayed' = {} /\ due' = {} /\ delayedNil' = TRUE
        /\ prompted' = prompted
    BY <1>8 DEF ResolveTermination
  <2> QED
    BY <1>7, <2>1, <2>2
<1>9. CASE ResolveDelay(r) /\ ~delayedNil
  <2>1. PICK steps \in Seq(Step \cup {Final}), err \in BOOLEAN :
            Leave(r, st[i0], steps, err)
    BY <1>5, <1>9 DEF ResolveDelay
  <2>2. /\ UNCHANGED <<runKeeps, stepVars, qErr, mux>>
        /\ delayed' = delayed \cup {i0} /\ due' = due /\ delayedNil' = delayedNil
        /\ prompted' = prompted
    BY <1>9 DEF ResolveDelay
  <2> QED
    BY <1>4, <1>6, <1>7, <2>1, <2>2
<1>10. CASE ResolveDelay(r) /\ delayedNil
  <2>1. /\ run' = [run EXCEPT ![r].pc = "panic"] /\ mux' = <<"run", r>>
        /\ UNCHANGED <<runKeeps, stepVars, stateVars, mapVars, qErr>>
    BY <1>10 DEF ResolveDelay
  <2>2. "panic" \in RunPc /\ mux' \in Holder
    BY <2>1, Values DEF RunPc
  <2>3. run' \in [RunId -> RunRec]
    BY <1>2, <2>1, <2>2 DEF RunRec
  <2>4. /\ run'[r].state = run[r].state /\ run'[r].nxt = run[r].nxt
        /\ run'[r].pc = "panic"
        /\ \A q \in RunId : q # r => run'[q] = run[q]
    BY <1>2, <2>1 DEF RunRec
  <2>5. TypeOK'
    BY <1>2, <2>1, <2>2, <2>3 DEF TypeOK, runKeeps, stepVars, stateVars,
       mapVars, endVars, callerVars, waitVars, resumeVars
  <2>6. UNCHANGED <<st, nStates, qState, worker, delayed, prompted, resumer,
                    backing>>
    BY <2>1 DEF runKeeps, stepVars, stateVars, mapVars, callerVars, resumeVars
  <2>7. NavigationSafe' /\ Located'
    BY <1>1, <1>2, <2>4, <2>6, RunFrame DEF AtResolve
  <2> QED
    BY <2>5, <2>7 DEF Inv
<1>11. CASE ResolvePrompt(r) /\ PromptOwner[st[i0].step] = NoUser
  <2>1. PICK steps \in Seq(Step \cup {Final}), err \in BOOLEAN :
            Leave(r, st[i0], steps, err)
    BY <1>5, <1>11 DEF ResolvePrompt
  <2>2. /\ UNCHANGED <<runKeeps, stepVars, qErr, mux>>
        /\ UNCHANGED <<delayed, due, delayedNil, prompted>>
    BY <1>11 DEF ResolvePrompt
  <2> QED
    BY <1>4, <1>6, <1>7, <2>1, <2>2
<1>12. CASE ResolvePrompt(r) /\ PromptOwner[st[i0].step] # NoUser
  <2>1. PICK steps \in Seq(Step \cup {Final}), err \in BOOLEAN :
            Leave(r, st[i0], steps, err)
    BY <1>5, <1>12 DEF ResolvePrompt
  <2>2. /\ UNCHANGED <<runKeeps, stepVars, qErr, mux>>
        /\ UNCHANGED <<delayed, due, delayedNil>>
        /\ prompted' = prompted \cup {i0}
    BY <1>12 DEF ResolvePrompt
  <2> QED
    BY <1>4, <1>6, <1>7, <2>1, <2>2
<1> QED
  BY <1>8, <1>9, <1>10, <1>11, <1>12

-----------------------------------------------------------------------------
(* Steps of a goroutine that call the step *)

\* What newLoop does to a state and to the array under the loop stacks.
LEMMA NewLoopEffect ==
  ASSUME Inv, NEW i \in StateId, st[i].depth < LoopCap, i \in 1 .. nStates
  PROVE  LET b == [backing EXCEPT ![st[i].depth + 1] = i] IN
         /\ NewLoop(st[i]) \in StateRec
         /\ NewLoop(st[i]).step = st[i].step
         /\ NewLoop(st[i]).depth = st[i].depth + 1
         /\ b \in [1 .. LoopCap -> 0 .. MaxStates]
         /\ \A k \in 1 .. LoopCap : b[k] # backing[k] => b[k] = i
         /\ \A k \in 1 .. LoopCap : backing[k] # 0 => b[k] # 0
         /\ \A k \in 1 .. st[i].depth + 1 : b[k] # 0
<1>1. /\ st[i].depth \in 0 .. LoopCap /\ LoopCap \in Nat
      /\ \A k \in 1 .. st[i].depth : backing[k] # 0
      /\ backing \in [1 .. LoopCap -> 0 .. MaxStates]
  BY StackFull
<1>2. st[i].depth + 1 \in 1 .. LoopCap /\ i \in 0 .. MaxStates /\ i # 0
  BY <1>1, BoundAssumption DEF StateId
<1>3. st[i] \in StateRec
  BY DEF Inv, TypeOK
<1>4. PICK n \in 0 .. LoopCap : n = st[i].depth + 1
  BY <1>1, <1>2
<1>5. /\ NewLoop(st[i]) \in StateRec
      /\ NewLoop(st[i]).step = st[i].step
      /\ NewLoop(st[i]).depth = st[i].depth + 1
  <2>1. NewLoop(st[i]) = [st[i] EXCEPT !.err = FALSE, !.depth = n]
    BY <1>4 DEF NewLoop
  <2>2. NewLoop(st[i]) \in StateRec
    BY <1>3, <2>1 DEF StateRec
  <2>3. NewLoop(st[i]).step = st[i].step /\ NewLoop(st[i]).depth = n
    BY <1>3, <2>1 DEF StateRec
  <2> QED
    BY <1>4, <2>2, <2>3
<1>6. \A k \in 1 .. st[i].depth + 1 : k \in 1 .. st[i].depth \/ k = st[i].depth + 1
  BY <1>1
<1>7. \A k \in 1 .. st[i].depth : k \in 1 .. LoopCap
  BY <1>1
<1> DEFINE d == st[i].depth + 1
           b == [backing EXCEPT ![d] = i]
<1>8. b \in [1 .. LoopCap -> 0 .. MaxStates] /\ d \in 1 .. LoopCap
  BY <1>1, <1>2
<1>9. \A k \in 1 .. LoopCap : b[k] = IF k = d THEN i ELSE backing[k]
  BY <1>1, <1>2
<1>10. \A k \in 1 .. d : b[k] # 0
  <2> HIDE DEF b
  <2> QED
    BY <1>1, <1>2, <1>6, <1>7, <1>8, <1>9
<1> QED
  <2>1. \A k \in 1 .. LoopCap : b[k] # backing[k] => b[k] = i
    BY <1>9
  <2>2. \A k \in 1 .. LoopCap : backing[k] # 0 => b[k] # 0
    BY <1>2, <1>9
  <2> QED
    BY <1>5, <1>8, <1>10, <2>1, <2>2

\* An error of the step, of its Start, and the handler it goes on with.
LEMMA CallErrorInv ==
  ASSUME Inv, NEW r \in RunId, CallStartFails(r) \/ CallFails(r)
  PROVE  Inv'
<1> DEFINE i0 == run[r].state
<1>1. run[r].pc = "call" /\ InExecBy(r)
  BY DEF CallStartFails, CallFails, InExecBy
<1>2. /\ i0 \in StateId /\ st[i0] \in StateRec /\ st[i0].step \in Step
      /\ i0 \in 1 .. nStates /\ TypeOK
  BY <1>1, RunState
<1>3. i0 \notin delayed /\ i0 \notin prompted
  BY <1>1, ExecNotSuspended
<1>4. <<>> \in Seq(Step \cup {Final}) /\ TRUE \in BOOLEAN
  OBVIOUS
<1>5. left \in [StateId -> Nat] /\ st[i0].depth \in Nat
  BY <1>2, StackFull
<1>6. CASE CallStartFails(r)
  <2>1. /\ st[i0].depth < LoopCap /\ Kind[st[i0].step] = "iterator"
        /\ backing' = [backing EXCEPT ![st[i0].depth + 1] = i0]
        /\ Leave(r, NewLoop(st[i0]), <<>>, TRUE)
        /\ UNCHANGED <<runKeeps, mapVars, qErr, mux, joined, left>>
    BY <1>6 DEF CallStartFails
  <2>2. PICK cur \in StateRec : cur = NewLoop(st[i0])
    BY <1>2, <2>1, NewLoopEffect
  <2>3. /\ cur.step = st[i0].step /\ cur.depth = st[i0].depth + 1
        /\ backing' \in [1 .. LoopCap -> 0 .. MaxStates]
        /\ \A k \in 1 .. LoopCap : backing'[k] # backing[k] => backing'[k] = i0
        /\ \A k \in 1 .. st[i0].depth + 1 : backing'[k] # 0
    BY <1>2, <2>1, <2>2, NewLoopEffect
  <2>4. PICK steps \in Seq(Step \cup {Final}), err \in BOOLEAN :
            Leave(r, cur, steps, err)
    BY <1>4, <2>1, <2>2
  <2>5. /\ UNCHANGED <<runKeeps, qErr, mux, joined>>
        /\ UNCHANGED <<delayed, due, delayedNil, prompted, left>>
    BY <2>1 DEF mapVars
  <2>6. due \subseteq delayed /\ delayedNil \in BOOLEAN
    BY <1>2 DEF TypeOK
  <2>7. /\ \A k \in 1 .. cur.depth : backing'[k] # 0
        /\ Kind[cur.step] = "iterator" /\ left' \in [StateId -> Nat]
    BY <1>5, <2>1, <2>3, <2>5
  <2> QED
    BY <1>1, <1>3, <2>3, <2>4, <2>5, <2>6, <2>7, LeaveKeeps, ZenonT(60)
<1>7. CASE CallFails(r)
  <2>1. UNCHANGED <<runKeeps, qErr, mux, joined, mapVars, backing>>
        /\ left' \in [StateId -> Nat]
    BY <1>5, <1>7 DEF CallFails, stepVars
  <2>2. CASE st[i0].errHandler = None
    <3>1. Leave(r, [st[i0] EXCEPT !.err = TRUE], <<>>, TRUE)
      BY <1>7, <2>2 DEF CallFails
    <3>2. PICK cur \in StateRec : cur = [st[i0] EXCEPT !.err = TRUE]
      BY <1>2 DEF StateRec
    <3>3. cur.step = st[i0].step /\ cur.depth <= st[i0].depth
      BY <1>2, <1>5, <3>2 DEF StateRec
    <3>4. PICK steps \in Seq(Step \cup {Final}), err \in BOOLEAN :
              Leave(r, cur, steps, err)
      BY <1>4, <3>1, <3>2
    <3> QED
      BY <1>1, <2>1, <3>3, <3>4, LeavePlain
  <2>3. CASE st[i0].errHandler # None
    <3>1. st[i0].errHandler \in Step
      BY <1>2, <2>3 DEF StateRec
    <3>2. <<st[i0].errHandler>> \in Seq(Step \cup {Final}) /\ FALSE \in BOOLEAN
      BY <3>1
    <3>3. PICK cur \in StateRec :
              cur = [[st[i0] EXCEPT !.err = TRUE]
                        EXCEPT !.errHandler = None, !.errHandled = TRUE]
      BY <1>2 DEF StateRec
    <3>4. cur.step = st[i0].step /\ cur.depth <= st[i0].depth
      BY <1>2, <1>5, <3>3 DEF StateRec
    <3>5. PICK steps \in Seq(Step \cup {Final}), err \in BOOLEAN :
              Leave(r, cur, steps, err)
      BY <1>7, <2>3, <3>2, <3>3 DEF CallFails
    <3> QED
      BY <1>1, <2>1, <3>4, <3>5, LeavePlain
  <2> QED
    BY <2>2, <2>3
<1> QED
  BY <1>6, <1>7

\* A step's answer names steps of the graph, and only an iterator iterates.
LEMMA AnswersType ==
  ASSUME NEW i, st[i].step \in Step, NEW a \in Answers(i)
  PROVE  /\ a.kind \in RespKind /\ a.to \in Seq(Step)
         /\ a.kind = "iterator" => Kind[st[i].step] = "iterator"
<1>1. PICK s \in Step : s = st[i].step
  OBVIOUS
<1>2. Children[s] \in Seq(Step) /\ Kind[s] \in StepKind
  BY GraphAssumption
<1>3. <<>> \in Seq(Step)
  OBVIOUS
<1>4. {"vars", "steps", "partial", "delay", "prompt", "iterator", "errHandler",
       "break", "continue", "termination"} \subseteq RespKind
  BY DEF RespKind
<1>5. \A c \in Elems(Children[s]) : <<c>> \in Seq(Step)
  BY <1>2 DEF Elems
<1>6. \A q \in Picks(Children[s]) : q \in Seq(Step)
  BY <1>2 DEF Picks
<1>7. CASE Kind[s] = "excl"
  <2>1. \E c \in Elems(Children[s]) : a = Resp("steps", <<c>>)
    BY <1>1, <1>7 DEF Answers
  <2> QED
    BY <1>5, <1>3, <1>4, <2>1 DEF Resp
<1>8. CASE Kind[s] = "incl"
  <2>1. \E q \in Picks(Children[s]) : a = Resp("steps", q)
    BY <1>1, <1>8 DEF Answers
  <2> QED
    BY <1>6, <1>3, <1>4, <2>1 DEF Resp
<1>9. CASE Kind[s] \in {"function", "error", "fork"}
  <2>1. \E q \in Seq(Step) : a = Resp("vars", q) \/ a = Resp("steps", q)
    BY <1>1, <1>3, <1>9 DEF Answers
  <2> QED
    BY <1>4, <2>1 DEF Resp
<1>10. CASE Kind[s] = "join"
  <2>1. \E q \in Seq(Step) : a = Resp("vars", q) \/ a = Resp("partial", q)
    BY <1>1, <1>3, <1>10 DEF Answers
  <2> QED
    BY <1>4, <2>1 DEF Resp
<1>11. CASE Kind[s] = "delay"
  <2>1. \E q \in Seq(Step) : a = Resp("vars", q) \/ a = Resp("delay", q)
    BY <1>1, <1>3, <1>11 DEF Answers
  <2> QED
    BY <1>4, <2>1 DEF Resp
<1>12. CASE Kind[s] = "prompt"
  <2>1. \E q \in Seq(Step) : a = Resp("vars", q) \/ a = Resp("prompt", q)
    BY <1>1, <1>3, <1>12 DEF Answers
  <2> QED
    BY <1>4, <2>1 DEF Resp
<1>13. CASE Kind[s] \in {"iterator", "errHandler", "break", "continue",
                         "termination"}
  <2>1. a = Resp(Kind[s], <<>>)
    BY <1>1, <1>13 DEF Answers
  <2> QED
    BY <1>1, <1>3, <1>4, <1>13, <2>1 DEF Resp
<1> QED
  BY <1>2, <1>7, <1>8, <1>9, <1>10, <1>11, <1>12, <1>13 DEF StepKind

\* A step that answers: an iterator puts itself on the loop stack.
LEMMA CallStepInv ==
  ASSUME Inv, NEW r \in RunId, NEW a, CallStep(r, a)
  PROVE  Inv'
<1> DEFINE i0 == run[r].state
<1>1. run[r].pc = "call" /\ InExecBy(r)
  BY DEF CallStep, InExecBy
<1>2. /\ i0 \in StateId /\ i0 \in 1 .. nStates
      /\ st[i0] \in StateRec /\ st[i0].step \in Step
      /\ run \in [RunId -> RunRec] /\ st \in [StateId -> StateRec]
      /\ TypeOK /\ NavigationSafe /\ Located
  BY <1>1, RunState
<1>3. /\ st[i0].depth \in 0 .. LoopCap /\ LoopCap \in Nat
      /\ \A k \in 1 .. st[i0].depth : backing[k] # 0
      /\ backing \in [1 .. LoopCap -> 0 .. MaxStates]
      /\ left \in [StateId -> Nat]
  BY <1>2, StackFull
<1>4. /\ a.kind \in RespKind /\ a.to \in Seq(Step)
      /\ a.kind = "iterator" => Kind[st[i0].step] = "iterator"
  BY <1>2, AnswersType DEF CallStep
<1>5. PICK c \in 0 .. MaxStates :
          /\ c = LoopCurr(st[i0])
          /\ c # 0 => IsIterator(c) /\ st[i0].depth > 0
  <2>1. LoopCurr(st[i0]) # 0 =>
           /\ LoopCurr(st[i0]) \in StateId
           /\ IsIterator(LoopCurr(st[i0])) /\ st[i0].depth \in 1 .. LoopCap
    BY <1>2, CurrIterator
  <2> QED
    BY <1>3, <2>1, BoundAssumption DEF StateId
<1>6. /\ run' = [run EXCEPT ![r].pc = "resolve", ![r].curr = c,
                    ![r].resp = a.kind, ![r].to = a.to]
      /\ UNCHANGED <<runKeeps, mapVars, nStates, qErr, mux>>
  BY <1>5 DEF CallStep
<1>7. UNCHANGED <<nStates, qState, worker, delayed, prompted, resumer>>
  BY <1>6 DEF runKeeps, mapVars, callerVars, resumeVars
<1>8. run' \in [RunId -> RunRec]
  <2>1. "resolve" \in RunPc
    BY DEF RunPc
  <2>2. PICK kind \in RespKind, to \in Seq(Step) : kind = a.kind /\ to = a.to
    BY <1>4
  <2>3. run' = [run EXCEPT ![r].pc = "resolve", ![r].curr = c,
                   ![r].resp = kind, ![r].to = to]
    BY <1>6, <2>2
  <2>4. run[r] \in RunRec
    BY <1>2
  <2>5. PICK x \in RunRec : x = [run[r] EXCEPT !.pc = "resolve", !.curr = c,
                                    !.resp = kind, !.to = to]
    BY <2>1, <2>4 DEF RunRec
  <2>6. run' = [run EXCEPT ![r] = x]
    BY <1>2, <2>3, <2>5
  <2> QED
    BY <1>2, <2>6
<1>9. /\ run'[r].state = run[r].state /\ run'[r].nxt = run[r].nxt
      /\ run'[r].pc = "resolve" /\ run'[r].curr = c /\ run'[r].resp = a.kind
      /\ \A q \in RunId : q # r => run'[q] = run[q]
  BY <1>2, <1>6 DEF RunRec
<1>10. joined' \in [Step -> SUBSET (Step \cup {None, Final})]
  <2>1. st[i0].parent \in Step \cup {None, Final}
    BY <1>2 DEF StateRec
  <2>2. joined \in [Step -> SUBSET (Step \cup {None, Final})]
    BY <1>2 DEF TypeOK
  <2>3. joined' = IF Kind[st[i0].step] = "join"
                  THEN [joined EXCEPT ![st[i0].step] = @ \cup {st[i0].parent}]
                  ELSE joined
    BY DEF CallStep
  <2> QED
    BY <1>2, <2>1, <2>2, <2>3
<1>11. left' \in [StateId -> Nat]
  <2>1. left' = left \/ left' = [left EXCEPT ![i0] = Rounds]
    BY DEF CallStep
  <2> QED
    BY <1>2, <1>3, <2>1, BoundAssumption
<1>12. /\ st' \in [StateId -> StateRec]
       /\ \A i \in StateId : i # i0 => st'[i] = st[i]
       /\ st'[i0].step = st[i0].step
       /\ st'[i0].depth \in 0 .. LoopCap /\ st'[i0].depth >= st[i0].depth
       /\ a.kind = "iterator" => st'[i0].depth > 0
       /\ backing' \in [1 .. LoopCap -> 0 .. MaxStates]
       /\ \A k \in 1 .. LoopCap : backing'[k] # backing[k] =>
             backing'[k] = i0 /\ Kind[st[i0].step] = "iterator"
       /\ \A k \in 1 .. LoopCap : backing[k] # 0 => backing'[k] # 0
       /\ \A k \in 1 .. st'[i0].depth : backing'[k] # 0
  <2>1. CASE a.kind = "iterator"
    <3>1. /\ st' = [st EXCEPT ![i0] = NewLoop(st[i0])]
          /\ backing' = [backing EXCEPT ![st[i0].depth + 1] = i0]
          /\ st[i0].depth < LoopCap
      BY <2>1 DEF CallStep
    <3>2. /\ NewLoop(st[i0]) \in StateRec
          /\ NewLoop(st[i0]).step = st[i0].step
          /\ NewLoop(st[i0]).depth = st[i0].depth + 1
          /\ backing' \in [1 .. LoopCap -> 0 .. MaxStates]
          /\ \A k \in 1 .. LoopCap : backing'[k] # backing[k] => backing'[k] = i0
          /\ \A k \in 1 .. LoopCap : backing[k] # 0 => backing'[k] # 0
          /\ \A k \in 1 .. st[i0].depth + 1 : backing'[k] # 0
      BY <1>2, <3>1, NewLoopEffect
    <3>3. st' \in [StateId -> StateRec] /\ st'[i0] = NewLoop(st[i0])
          /\ \A i \in StateId : i # i0 => st'[i] = st[i]
      BY <1>2, <3>1, <3>2
    <3>4. st[i0].depth + 1 \in 0 .. LoopCap /\ st[i0].depth + 1 > 0
          /\ st[i0].depth + 1 >= st[i0].depth
      BY <1>3, <3>1, SMTT(30)
    <3> QED
      BY <1>4, <2>1, <3>2, <3>3, <3>4
  <2>2. CASE a.kind # "iterator"
    <3>1. /\ st' = [st EXCEPT ![i0] = [st[i0] EXCEPT !.err = FALSE]]
          /\ backing' = backing
      BY <2>2 DEF CallStep
    <3>2. PICK x \in StateRec : x = [st[i0] EXCEPT !.err = FALSE]
      BY <1>2 DEF StateRec
    <3>3. x.step = st[i0].step /\ x.depth = st[i0].depth
      BY <1>2, <3>2 DEF StateRec
    <3>4. st' \in [StateId -> StateRec] /\ st'[i0] = x
          /\ \A i \in StateId : i # i0 => st'[i] = st[i]
      BY <1>2, <3>1, <3>2
    <3> QED
      BY <1>3, <2>2, <3>1, <3>3, <3>4
  <2> QED
    BY <2>1, <2>2
<1>13. TypeOK'
  <2>1. UNCHANGED <<nStates, qState, qErr, mux, mapVars, endVars, worker, nRuns,
                    handled, callerVars>>
    BY <1>6 DEF runKeeps
  <2> QED
    BY <1>2, <1>8, <1>10, <1>11, <1>12, <2>1 DEF TypeOK, mapVars, endVars,
       callerVars, waitVars, resumeVars
<1>14. /\ nStates \in 0 .. MaxStates /\ MaxStates \in Nat
       /\ \A i \in 1 .. nStates : i \in StateId
       /\ \A i \in StateId : st'[i].step = st[i].step
       /\ \A i \in StateId : st[i].depth > 0 => st'[i].depth > 0
  <2>1. \A i \in StateId : st[i].depth \in Nat /\ st'[i].depth \in Nat
    BY <1>2, <1>12, BoundAssumption DEF StateRec
  <2>2. nStates \in 0 .. MaxStates /\ MaxStates \in Nat
    BY <1>2, BoundAssumption DEF TypeOK
  <2>3. \A i \in 1 .. nStates : i \in StateId
    BY <2>2 DEF StateId
  <2>4. \A i \in StateId : st'[i].step = st[i].step
    BY <1>2, <1>12
  <2>5. \A i \in StateId : st[i].depth > 0 => st'[i].depth > 0
    BY <1>2, <1>12, <2>1
  <2> QED
    BY <2>2, <2>3, <2>4, <2>5
<1>15. \A i : IsOrdinary(i) => IsOrdinary(i)'
  BY <1>7, <1>14 DEF IsOrdinary
<1>16. \A i : IsIterator(i) => IsIterator(i)'
  BY <1>7, <1>14 DEF IsIterator
<1>17. NavigationSafe'
  <2>1. \A i \in 1 .. nStates' : st'[i].step # None
    BY <1>2, <1>7, <1>14 DEF NavigationSafe
  <2>2. \A i \in StateId : \A k \in 1 .. st'[i].depth : backing'[k] # 0
    <3> SUFFICES ASSUME NEW i \in StateId, i # i0, NEW k \in 1 .. st'[i].depth
                 PROVE  backing'[k] # 0
      BY <1>12
    <3>1. k \in 1 .. st[i].depth /\ st[i].depth \in 0 .. LoopCap
      BY <1>2, <1>12 DEF StateRec
    <3>2. backing[k] # 0 /\ k \in 1 .. LoopCap
      BY <1>2, <1>3, <3>1 DEF NavigationSafe
    <3> QED
      BY <1>12, <3>2
  <2>3. \A k \in 1 .. LoopCap : backing'[k] # 0 => IsIterator(backing[k])'
    <3> SUFFICES ASSUME NEW k \in 1 .. LoopCap, backing'[k] # 0
                 PROVE  IsIterator(backing[k])'
      OBVIOUS
    <3>1. CASE backing'[k] = backing[k]
      BY <3>1, <1>2, <1>16 DEF NavigationSafe
    <3>2. CASE backing'[k] # backing[k]
      <4>1. IsIterator(i0)
        BY <3>2, <1>2, <1>12 DEF IsIterator
      <4> QED
        BY <3>2, <4>1, <1>12, <1>16
    <3> QED
      BY <3>1, <3>2
  <2>4. \A k \in DOMAIN qState' : qState'[k] <= nStates'
    BY <1>2, <1>7 DEF NavigationSafe
  <2>5. worker'.pc = "acquire" => IsOrdinary(worker.state)'
    BY <1>2, <1>7, <1>15 DEF NavigationSafe
  <2>6. \A i \in delayed' \cup prompted' : IsOrdinary(i)'
    BY <1>2, <1>7, <1>15 DEF NavigationSafe
  <2>7. resumer' # 0 => IsOrdinary(resumer)'
    BY <1>2, <1>7, <1>15 DEF NavigationSafe
  <2>8. ASSUME NEW q \in RunId
        PROVE  /\ run'[q].pc # "none" => IsOrdinary(run[q].state)'
               /\ \A k \in DOMAIN run'[q].nxt : run'[q].nxt[k] <= nStates'
               /\ run'[q].pc = "resolve" /\ run'[q].curr # 0 =>
                     IsIterator(run[q].curr)' /\ st'[run'[q].state].depth > 0
               /\ AtResolve(q, "iterator")' =>
                     IsIterator(run[q].state)' /\ st'[run'[q].state].depth > 0
    <3>1. /\ run[q].pc # "none" => IsOrdinary(run[q].state)
          /\ \A k \in DOMAIN run[q].nxt : run[q].nxt[k] <= nStates
          /\ run[q].pc = "resolve" /\ run[q].curr # 0 =>
                IsIterator(run[q].curr) /\ st[run[q].state].depth > 0
          /\ AtResolve(q, "iterator") =>
                IsIterator(run[q].state) /\ st[run[q].state].depth > 0
      BY <1>2 DEF NavigationSafe
    <3>2. CASE q # r
      <4>1. run'[q] = run[q]
        BY <1>9, <3>2
      <4>2. run[q].pc # "none" => run[q].state \in StateId
        BY <3>1, <1>14 DEF IsOrdinary
      <4> QED
        BY <1>7, <1>14, <1>15, <1>16, <3>1, <4>1, <4>2 DEF AtResolve
    <3>3. CASE q = r
      <4>1. IsOrdinary(run[r].state)'
        BY <1>1, <1>9, <1>15, <3>1, <3>3
      <4>2. \A k \in DOMAIN run'[r].nxt : run'[r].nxt[k] <= nStates'
        BY <1>7, <1>9, <3>1, <3>3
      <4>3. run'[r].curr # 0 =>
               IsIterator(run[r].curr)' /\ st'[run'[r].state].depth > 0
        BY <1>2, <1>5, <1>9, <1>14, <1>16
      <4>4. AtResolve(r, "iterator")' =>
               IsIterator(run[r].state)' /\ st'[run'[r].state].depth > 0
        <5>1. Kind[st[i0].step] = "iterator" => IsIterator(i0)
          BY <1>2 DEF IsIterator
        <5> QED
          BY <1>4, <1>9, <1>12, <1>16, <5>1 DEF AtResolve
      <4> QED
        BY <3>3, <4>1, <4>2, <4>3, <4>4
    <3> QED
      BY <3>2, <3>3
  <2> QED
    BY <2>1, <2>2, <2>3, <2>4, <2>5, <2>6, <2>7, <2>8 DEF NavigationSafe
<1>18. Located'
  <2>1. PICK loc \in [StateId -> Place] : Places_ok(loc)
    BY <1>2 DEF Located
  <2>2. ASSUME NEW q \in RunId
        PROVE  /\ run'[q].nxt = run[q].nxt /\ run'[q].state = run[q].state
               /\ InExecBy(q)' => InExecBy(q)
    <3>1. CASE q = r
      BY <1>1, <1>9, <3>1
    <3>2. CASE q # r
      BY <1>9, <3>2 DEF InExecBy
    <3> QED
      BY <3>1, <3>2
  <2>3. Places_ok(loc)'
    <3>1. ASSUME NEW q \in RunId
          PROVE  /\ \A k \in DOMAIN run'[q].nxt :
                        loc[run'[q].nxt[k]] = <<"next", q>>
                 /\ InExecBy(q)' => loc[run'[q].state] = <<"exec", q>>
                 /\ Distinct(run[q].nxt)'
      <4>1. /\ \A k \in DOMAIN run[q].nxt : loc[run[q].nxt[k]] = <<"next", q>>
            /\ InExecBy(q) => loc[run[q].state] = <<"exec", q>>
            /\ Distinct(run[q].nxt)
        BY <2>1 DEF Places_ok
      <4> QED
        BY <4>1, <2>2 DEF Distinct
    <3> QED
      BY <1>7, <2>1, <3>1 DEF Places_ok, Distinct
  <2> QED
    BY <2>3 DEF Located
<1> QED
  BY <1>13, <1>17, <1>18 DEF Inv

-----------------------------------------------------------------------------
(* Steps that hand a state over *)

\* A hand-over touches neither a step nor a loop stack, so navigation stays
\* safe if what is handed over is.
LEMMA MoveNav ==
  ASSUME TypeOK, NavigationSafe, UNCHANGED <<nStates, backing>>,
         st' \in [StateId -> StateRec],
         \A i \in StateId : st'[i].step = st[i].step
                            /\ st'[i].depth = st[i].depth,
         \A k \in DOMAIN qState' : qState'[k] <= nStates,
         worker'.pc = "acquire" => IsOrdinary(worker'.state),
         \A i \in delayed' \cup prompted' : IsOrdinary(i),
         resumer' # 0 => IsOrdinary(resumer'),
         \A q \in RunId :
            \/ run'[q] = run[q]
            \/ /\ run'[q].pc # "resolve"
               /\ IsOrdinary(run'[q].state)
               /\ \A k \in DOMAIN run'[q].nxt : run'[q].nxt[k] <= nStates
  PROVE  NavigationSafe'
<1>1. nStates \in 0 .. MaxStates /\ MaxStates \in Nat
      /\ \A i \in 1 .. nStates : i \in StateId
  BY BoundAssumption DEF TypeOK, StateId
<1>2. \A i : IsOrdinary(i) => IsOrdinary(i)'
  BY <1>1 DEF IsOrdinary
<1>3. \A i : IsIterator(i) => IsIterator(i)'
  BY <1>1 DEF IsIterator
<1>4. ASSUME NEW q \in RunId
      PROVE  /\ run'[q].pc # "none" => IsOrdinary(run[q].state)'
             /\ \A k \in DOMAIN run'[q].nxt : run'[q].nxt[k] <= nStates'
             /\ run'[q].pc = "resolve" /\ run'[q].curr # 0 =>
                   IsIterator(run[q].curr)' /\ st'[run'[q].state].depth > 0
             /\ AtResolve(q, "iterator")' =>
                   IsIterator(run[q].state)' /\ st'[run'[q].state].depth > 0
  <2>1. /\ run[q].pc # "none" => IsOrdinary(run[q].state)
        /\ \A k \in DOMAIN run[q].nxt : run[q].nxt[k] <= nStates
        /\ run[q].pc = "resolve" /\ run[q].curr # 0 =>
              IsIterator(run[q].curr) /\ st[run[q].state].depth > 0
        /\ AtResolve(q, "iterator") =>
              IsIterator(run[q].state) /\ st[run[q].state].depth > 0
    BY DEF NavigationSafe
  <2>2. CASE run'[q] = run[q]
    <3>1. run[q].pc # "none" => st'[run[q].state].depth = st[run[q].state].depth
      BY <2>1, <1>1 DEF IsOrdinary
    <3> QED
      BY <2>1, <2>2, <3>1, <1>2, <1>3 DEF AtResolve
  <2>3. CASE run'[q] # run[q]
    BY <2>3, <1>2 DEF AtResolve
  <2> QED
    BY <2>2, <2>3
<1>5. \A i \in 1 .. nStates' : st'[i].step # None
  BY <1>1 DEF NavigationSafe
<1>6. \A i \in StateId : \A k \in 1 .. st'[i].depth : backing'[k] # 0
  BY DEF NavigationSafe
<1>7. \A k \in 1 .. LoopCap : backing'[k] # 0 => IsIterator(backing[k])'
  BY <1>3 DEF NavigationSafe
<1>8. \A k \in DOMAIN qState' : qState'[k] <= nStates'
  OBVIOUS
<1>9. worker'.pc = "acquire" => IsOrdinary(worker.state)'
  BY <1>2
<1>10. \A i \in delayed' \cup prompted' : IsOrdinary(i)'
  BY <1>2
<1>11. resumer' # 0 => IsOrdinary(resumer)'
  BY <1>2
<1> QED
  BY <1>4, <1>5, <1>6, <1>7, <1>8, <1>9, <1>10, <1>11 DEF NavigationSafe

\* new is loc with state i moved to a place: what that keeps of Places_ok
Moved(new, loc, i, place) ==
    /\ new \in [StateId -> Place] /\ new[i] = place
    /\ \A j \in StateId : j > nStates => new[j] = Nowhere
    /\ loc[i] # <<"queue", 0>> =>
          \A k \in DOMAIN qState :
              qState[k] # i /\ new[qState[k]] = <<"queue", 0>>
    /\ loc[i] # <<"worker", 0>> /\ worker.state # 0 =>
          new[worker.state] = <<"worker", 0>>
    /\ \A j \in delayed \ {i} : new[j] = <<"delayed", 0>>
    /\ \A j \in prompted \ {i} : new[j] = <<"prompted", 0>>
    /\ loc[i] # <<"resumer", 0>> /\ resumer # 0 =>
          new[resumer] = <<"resumer", 0>>
    /\ \A q \in RunId :
          /\ loc[i] # <<"next", q>> =>
                \A k \in DOMAIN run[q].nxt :
                    new[run[q].nxt[k]] = <<"next", q>>
          /\ loc[i] # <<"exec", q>> /\ InExecBy(q) =>
                new[run[q].state] = <<"exec", q>>

\* A state that changes its place leaves every state elsewhere where it is.
LEMMA Move ==
  ASSUME TypeOK, NavigationSafe, NEW loc \in [StateId -> Place],
         Places_ok(loc), NEW i \in StateId, i <= nStates, NEW place \in Place,
         NEW new, new = [loc EXCEPT ![i] = place]
  PROVE  Moved(new, loc, i, place)
<1>1. /\ new \in [StateId -> Place] /\ new[i] = place
      /\ \A j \in StateId : j # i => new[j] = loc[j]
      /\ \A j \in StateId : loc[j] # loc[i] => new[j] = loc[j]
  OBVIOUS
<1>2. \A j \in StateId : j > nStates => new[j] = Nowhere
  <2>1. \A j \in StateId : j > nStates => loc[j] = Nowhere
    BY DEF Places_ok
  <2>2. \A j \in StateId : j > nStates => j # i
    BY DEF TypeOK, StateId
  <2> QED
    BY <1>1, <2>1, <2>2
<1>3. \A k \in DOMAIN qState :
         qState[k] \in StateId /\ loc[qState[k]] = <<"queue", 0>>
  BY DEF Places_ok, TypeOK
<1>4. worker.state # 0 =>
         worker.state \in StateId /\ loc[worker.state] = <<"worker", 0>>
  BY DEF Places_ok, TypeOK, WorkerRec, StateId
<1>5. /\ \A j \in delayed : j \in StateId /\ loc[j] = <<"delayed", 0>>
      /\ \A j \in prompted : j \in StateId /\ loc[j] = <<"prompted", 0>>
  BY DEF Places_ok, TypeOK
<1>6. resumer # 0 => resumer \in StateId /\ loc[resumer] = <<"resumer", 0>>
  BY DEF Places_ok, TypeOK, StateId
<1>7. ASSUME NEW q \in RunId
      PROVE  /\ \A k \in DOMAIN run[q].nxt :
                   run[q].nxt[k] \in StateId /\ loc[run[q].nxt[k]] = <<"next", q>>
             /\ InExecBy(q) => run[q].state \in StateId
                               /\ loc[run[q].state] = <<"exec", q>>
  <2>1. run[q].nxt \in Seq(StateId) /\ nStates \in 0 .. MaxStates
    BY DEF TypeOK, RunRec
  <2>2. /\ \A k \in DOMAIN run[q].nxt : loc[run[q].nxt[k]] = <<"next", q>>
        /\ InExecBy(q) => loc[run[q].state] = <<"exec", q>>
    BY DEF Places_ok
  <2>3. InExecBy(q) => IsOrdinary(run[q].state)
    BY DEF InExecBy, NavigationSafe
  <2> QED
    BY <2>1, <2>2, <2>3, BoundAssumption DEF IsOrdinary, StateId
<1>8. ASSUME NEW q \in RunId
      PROVE  /\ loc[i] # <<"next", q>> =>
                   \A k \in DOMAIN run[q].nxt : new[run[q].nxt[k]] = <<"next", q>>
             /\ loc[i] # <<"exec", q>> /\ InExecBy(q) =>
                   new[run[q].state] = <<"exec", q>>
  BY <1>1, <1>7
<1>9. loc[i] # <<"queue", 0>> =>
         \A k \in DOMAIN qState : qState[k] # i /\ new[qState[k]] = <<"queue", 0>>
  BY <1>1, <1>3
<1>10. loc[i] # <<"worker", 0>> /\ worker.state # 0 =>
          new[worker.state] = <<"worker", 0>>
  BY <1>1, <1>4
<1>11. /\ \A j \in delayed \ {i} : new[j] = <<"delayed", 0>>
       /\ \A j \in prompted \ {i} : new[j] = <<"prompted", 0>>
  BY <1>1, <1>5
<1>12. loc[i] # <<"resumer", 0>> /\ resumer # 0 =>
          new[resumer] = <<"resumer", 0>>
  BY <1>1, <1>6
<1> QED
  BY <1>1, <1>2, <1>8, <1>9, <1>10, <1>11, <1>12 DEF Moved

\* What a send to the work queue does to it.
LEMMA QueueAppend ==
  ASSUME TypeOK, RoomInState, NEW i \in StateId, qState' = Append(qState, i)
  PROVE  /\ qState' \in Seq(StateId) /\ Len(qState') <= QStateCap
         /\ \A k \in DOMAIN qState' :
               (k \in DOMAIN qState /\ qState'[k] = qState[k]) \/ qState'[k] = i
         /\ Distinct(qState) /\ (\A k \in DOMAIN qState : qState[k] # i) =>
               Distinct(qState)'
<1>1. PICK q \in Seq(StateId) : q = qState
  BY DEF TypeOK
<1>2. PICK p \in Seq(StateId) : p = Append(q, i) /\ p = qState'
  BY <1>1
<1>3. /\ Len(p) = Len(q) + 1 /\ Len(q) \in Nat
      /\ \A k \in 1 .. Len(q) : p[k] = q[k]
      /\ p[Len(q) + 1] = i
      /\ DOMAIN p = 1 .. Len(q) + 1 /\ DOMAIN q = 1 .. Len(q)
  <2>1. p = Append(q, i)
    BY <1>2
  <2>2. Len(p) = Len(q) + 1 /\ Len(q) \in Nat
    BY <2>1
  <2>3. DOMAIN p = 1 .. Len(q) + 1 /\ DOMAIN q = 1 .. Len(q)
    BY <2>2
  <2> QED
    BY <2>1, <2>2, <2>3
<1>4. Len(p) <= QStateCap
  BY <1>1, <1>3, BoundAssumption DEF RoomInState
<1>5. \A k \in DOMAIN p : (k \in DOMAIN q /\ p[k] = q[k]) \/ (k = Len(q) + 1 /\ p[k] = i)
  BY <1>3
<1>6. Distinct(q) /\ (\A k \in DOMAIN q : q[k] # i) => Distinct(p)
  BY <1>5 DEF Distinct
<1>7. Distinct(qState) = Distinct(q) /\ Distinct(qState)' = Distinct(p)
  BY <1>1, <1>2 DEF Distinct
<1> QED
  BY <1>1, <1>2, <1>4, <1>5, <1>6, <1>7

\* The place a state is taken from and the places in the lemmas are places.
LEMMA PlaceValues ==
  /\ {Nowhere, <<"queue", 0>>, <<"worker", 0>>, <<"resumer", 0>>} \subseteq Place
  /\ \A r \in RunId : <<"exec", r>> \in Place
<1>1. \A r \in RunId : r \in 0 .. MaxRuns
  BY BoundAssumption DEF RunId
<1>2. 0 \in 0 .. MaxRuns
  BY BoundAssumption
<1> QED
  BY <1>1, <1>2 DEF Place, Nowhere

\* A prompt that is answered goes from the map to its caller, from there to the
\* queue, or nowhere when the caller gives up.
LEMMA ResumeInv ==
  ASSUME Inv
  PROVE  /\ \A u, i, hasInput : hasInput \in BOOLEAN /\ Resume(u, i, hasInput)
                                   => Inv'
         /\ ResumeEnqueue => Inv'
         /\ ResumeAbandoned => Inv'
<1> USE DEF stateVars, chanVars, mapVars, endVars, runVars,
            stepVars, waitVars, resumeVars, callerVars
<1>1. TypeOK /\ NavigationSafe /\ Located
      /\ nStates \in 0 .. MaxStates /\ MaxStates \in Nat
      /\ st \in [StateId -> StateRec]
  BY BoundAssumption DEF Inv, TypeOK
<1>2. PICK loc \in [StateId -> Place] : Places_ok(loc)
  BY <1>1 DEF Located
<1>3. ASSUME NEW u, NEW i, NEW hasInput \in BOOLEAN, Resume(u, i, hasInput)
      PROVE  Inv'
  <2>1. /\ i \in prompted /\ i \in StateId /\ i <= nStates /\ i \in 0 .. MaxStates
        /\ IsOrdinary(i) /\ i # 0
    <3>1. i \in prompted /\ i \in StateId
      BY <1>1, <1>3 DEF Resume, TypeOK
    <3>2. IsOrdinary(i)
      BY <1>1, <3>1 DEF NavigationSafe
    <3> QED
      BY <3>1, <3>2, <1>1 DEF IsOrdinary, StateId
  <2>2. /\ resumer = 0 /\ prompted' = prompted \ {i} /\ resumer' = i
        /\ st' = [st EXCEPT ![i].input = hasInput] /\ mux' = <<"resumer", 0>>
        /\ nResumes' = nResumes + 1
    BY <1>3 DEF Resume, Without
  <2>3. st' \in [StateId -> StateRec]
        /\ \A j \in StateId : st'[j].step = st[j].step /\ st'[j].depth = st[j].depth
    BY <1>1, <2>1, <2>2 DEF StateRec
  <2>4. TypeOK'
    BY <1>1, <1>3, <2>1, <2>2, <2>3, Values DEF Resume, TypeOK
  <2>5. NavigationSafe'
    <3>1. UNCHANGED <<nStates, backing, qState, worker, delayed, run>>
      BY <1>3 DEF Resume
    <3>2. /\ \A k \in DOMAIN qState' : qState'[k] <= nStates
          /\ worker'.pc = "acquire" => IsOrdinary(worker'.state)
          /\ \A j \in delayed' \cup prompted' : IsOrdinary(j)
      BY <1>1, <2>2, <3>1 DEF NavigationSafe
    <3> QED
      BY <1>1, <2>1, <2>2, <2>3, <3>1, <3>2, MoveNav
  <2>6. Located'
    <3>1. PICK new : new = [loc EXCEPT ![i] = <<"resumer", 0>>]
      OBVIOUS
    <3>2. loc[i] = <<"prompted", 0>> /\ i \notin delayed
      BY <1>2, <2>1 DEF Places_ok
    <3>3. <<"resumer", 0>> \in Place
      BY PlaceValues
    <3>4. /\ new \in [StateId -> Place] /\ new[i] = <<"resumer", 0>>
          /\ \A j \in StateId : j > nStates => new[j] = Nowhere
          /\ \A k \in DOMAIN qState : new[qState[k]] = <<"queue", 0>>
          /\ worker.state # 0 => new[worker.state] = <<"worker", 0>>
          /\ \A j \in delayed \ {i} : new[j] = <<"delayed", 0>>
          /\ \A j \in prompted \ {i} : new[j] = <<"prompted", 0>>
          /\ \A q \in RunId :
                /\ \A k \in DOMAIN run[q].nxt : new[run[q].nxt[k]] = <<"next", q>>
                /\ InExecBy(q) => new[run[q].state] = <<"exec", q>>
      <4>1. Moved(new, loc, i, <<"resumer", 0>>)
        BY <1>1, <1>2, <2>1, <3>1, <3>3, Move
      <4>2. /\ loc[i] # <<"queue", 0>> /\ loc[i] # <<"worker", 0>>
            /\ \A q \in RunId : loc[i] # <<"next", q>> /\ loc[i] # <<"exec", q>>
        BY <3>2
      <4> QED
        BY <4>1, <4>2 DEF Moved
    <3>5. UNCHANGED <<nStates, qState, worker, delayed, run>>
      BY <1>3 DEF Resume
    <3>6. Distinct(qState) /\ \A q \in RunId : Distinct(run[q].nxt)
      BY <1>2 DEF Places_ok
    <3>7. Places_ok(new)'
      BY <2>2, <3>2, <3>4, <3>5, <3>6 DEF Places_ok, InExecBy, Distinct
    <3> QED
      BY <3>4, <3>7 DEF Located
  <2> QED
    BY <2>4, <2>5, <2>6 DEF Inv
<1>4. ASSUME ResumeEnqueue \/ ResumeAbandoned
      PROVE  Inv'
  <2>1. /\ resumer # 0 /\ resumer \in StateId /\ resumer <= nStates
    <3>1. resumer # 0 /\ resumer \in StateId
      BY <1>1, <1>4 DEF ResumeEnqueue, ResumeAbandoned, TypeOK, StateId
    <3>2. IsOrdinary(resumer)
      BY <1>1, <3>1 DEF NavigationSafe
    <3> QED
      BY <3>1, <3>2, <1>1 DEF IsOrdinary
  <2>2. PICK i \in StateId : i = resumer
    BY <2>1
  <2>3. /\ resumer' = 0 /\ mux' = Free /\ 0 \in 0 .. MaxStates
        /\ UNCHANGED <<st, nStates, backing, worker, delayed, delayedNil, due,
                       prompted, run, nRuns, qErr, endVars, joined, left,
                       handled, started, waitVars, ctxDone, nResumes>>
    BY <1>1, <1>4 DEF ResumeEnqueue, ResumeAbandoned
  <2>4. loc[i] = <<"resumer", 0>> /\ i \notin delayed /\ i \notin prompted
    BY <1>2, <2>1, <2>2 DEF Places_ok
  <2>5. ASSUME NEW place \in {Nowhere, <<"queue", 0>>}
        PROVE  \E new \in [StateId -> Place] :
          /\ new[i] = place
          /\ \A j \in StateId : j > nStates => new[j] = Nowhere
          /\ \A k \in DOMAIN qState :
                qState[k] # i /\ new[qState[k]] = <<"queue", 0>>
          /\ worker.state # 0 => new[worker.state] = <<"worker", 0>>
          /\ \A j \in delayed : new[j] = <<"delayed", 0>>
          /\ \A j \in prompted : new[j] = <<"prompted", 0>>
          /\ \A q \in RunId :
                /\ \A k \in DOMAIN run[q].nxt : new[run[q].nxt[k]] = <<"next", q>>
                /\ InExecBy(q) => new[run[q].state] = <<"exec", q>>
    <3>1. place \in Place
      BY PlaceValues
    <3>2. PICK new : new = [loc EXCEPT ![i] = place]
      OBVIOUS
    <3> QED
      <4>1. Moved(new, loc, i, place)
        BY <1>1, <1>2, <2>1, <2>2, <3>1, <3>2, Move
      <4>2. new \in [StateId -> Place]
        BY <4>1 DEF Moved
      <4>3. delayed \ {i} = delayed /\ prompted \ {i} = prompted
        BY <2>4
      <4>4. /\ loc[i] # <<"queue", 0>> /\ loc[i] # <<"worker", 0>>
            /\ \A q \in RunId : loc[i] # <<"next", q>> /\ loc[i] # <<"exec", q>>
        BY <2>4
      <4> QED
        BY <4>1, <4>2, <4>3, <4>4 DEF Moved
  <2>6. Distinct(qState) /\ \A q \in RunId : Distinct(run[q].nxt)
    BY <1>2 DEF Places_ok
  <2>7. /\ \A k \in DOMAIN qState : qState[k] <= nStates
        /\ worker'.pc = "acquire" => IsOrdinary(worker'.state)
        /\ \A j \in delayed' \cup prompted' : IsOrdinary(j)
    BY <1>1, <2>3 DEF NavigationSafe
  <2>8. CASE ResumeAbandoned
    <3>1. qState' = qState
      BY <2>8 DEF ResumeAbandoned
    <3>2. TypeOK'
      BY <1>1, <2>3, <3>1, Values DEF TypeOK
    <3>3. NavigationSafe'
      BY <1>1, <2>3, <2>7, <3>1, MoveNav
    <3>4. PICK new \in [StateId -> Place] :
          /\ \A j \in StateId : j > nStates => new[j] = Nowhere
          /\ \A k \in DOMAIN qState : new[qState[k]] = <<"queue", 0>>
          /\ worker.state # 0 => new[worker.state] = <<"worker", 0>>
          /\ \A j \in delayed : new[j] = <<"delayed", 0>>
          /\ \A j \in prompted : new[j] = <<"prompted", 0>>
          /\ \A q \in RunId :
                /\ \A k \in DOMAIN run[q].nxt : new[run[q].nxt[k]] = <<"next", q>>
                /\ InExecBy(q) => new[run[q].state] = <<"exec", q>>
      BY <2>5
    <3>5. Places_ok(new)'
      BY <2>3, <2>6, <3>1, <3>4 DEF Places_ok, InExecBy, Distinct
    <3> QED
      BY <3>2, <3>3, <3>5 DEF Inv, Located
  <2>9. CASE ResumeEnqueue
    <3>1. qState' = Append(qState, i) /\ RoomInState
      BY <2>2, <2>9 DEF ResumeEnqueue
    <3>2. /\ qState' \in Seq(StateId) /\ Len(qState') <= QStateCap
          /\ \A k \in DOMAIN qState' :
               (k \in DOMAIN qState /\ qState'[k] = qState[k]) \/ qState'[k] = i
          /\ (\A k \in DOMAIN qState : qState[k] # i) => Distinct(qState)'
      BY <1>1, <2>6, <3>1, QueueAppend
    <3>3. TypeOK'
      BY <1>1, <2>3, <3>2, Values DEF TypeOK
    <3>4. \A k \in DOMAIN qState' : qState'[k] <= nStates
      BY <2>1, <2>2, <2>7, <3>2
    <3>5. NavigationSafe'
      BY <1>1, <2>3, <2>7, <3>4, MoveNav
    <3>6. PICK new \in [StateId -> Place] :
          /\ new[i] = <<"queue", 0>>
          /\ \A j \in StateId : j > nStates => new[j] = Nowhere
          /\ \A k \in DOMAIN qState :
                qState[k] # i /\ new[qState[k]] = <<"queue", 0>>
          /\ worker.state # 0 => new[worker.state] = <<"worker", 0>>
          /\ \A j \in delayed : new[j] = <<"delayed", 0>>
          /\ \A j \in prompted : new[j] = <<"prompted", 0>>
          /\ \A q \in RunId :
                /\ \A k \in DOMAIN run[q].nxt : new[run[q].nxt[k]] = <<"next", q>>
                /\ InExecBy(q) => new[run[q].state] = <<"exec", q>>
      BY <2>5
    <3>7. Distinct(qState)' /\ \A k \in DOMAIN qState' : new[qState'[k]] = <<"queue", 0>>
      BY <3>2, <3>6
    <3>8. Places_ok(new)'
      BY <2>3, <2>6, <3>6, <3>7 DEF Places_ok, InExecBy, Distinct
    <3> QED
      BY <3>3, <3>5, <3>8 DEF Inv, Located
  <2> QED
    BY <1>4, <2>8, <2>9
<1> QED
  BY <1>3, <1>4

\* The tick takes a delayed state from the map to the queue.
LEMMA TickEnqueueInv ==
  ASSUME Inv, NEW i, TickEnqueue(i)
  PROVE  Inv'
<1> USE DEF stateVars, chanVars, mapVars, endVars, runVars,
            stepVars, waitVars, resumeVars, callerVars
<1>1. TypeOK /\ NavigationSafe /\ Located
      /\ nStates \in 0 .. MaxStates /\ MaxStates \in Nat
      /\ st \in [StateId -> StateRec]
  BY BoundAssumption DEF Inv, TypeOK
<1>2. i \in delayed /\ i \in StateId /\ i <= nStates
  <2>1. i \in delayed /\ i \in StateId
    BY <1>1 DEF TickEnqueue, Overdue, TypeOK
  <2>2. IsOrdinary(i)
    BY <1>1, <2>1 DEF NavigationSafe
  <2> QED
    BY <1>1, <2>1, <2>2 DEF IsOrdinary
<1>3. /\ delayed' = delayed \ {i} /\ due' = due \ {i}
      /\ st' = [st EXCEPT ![i].input = TRUE]
      /\ qState' = Append(qState, i) /\ RoomInState
      /\ UNCHANGED <<nStates, backing, worker, prompted, resumer, run>>
  BY DEF TickEnqueue, Without
<1>4. /\ qState' \in Seq(StateId) /\ Len(qState') <= QStateCap
      /\ \A k \in DOMAIN qState' :
           (k \in DOMAIN qState /\ qState'[k] = qState[k]) \/ qState'[k] = i
      /\ Distinct(qState) /\ (\A k \in DOMAIN qState : qState[k] # i) =>
           Distinct(qState)'
  BY <1>1, <1>2, <1>3, QueueAppend
<1>5. st' \in [StateId -> StateRec]
      /\ \A j \in StateId : st'[j].step = st[j].step /\ st'[j].depth = st[j].depth
  BY <1>1, <1>2, <1>3 DEF StateRec
<1>6. TypeOK'
  BY <1>1, <1>3, <1>4, <1>5 DEF TickEnqueue, TypeOK
<1>7. NavigationSafe'
  <2>1. /\ \A k \in DOMAIN qState : qState[k] <= nStates
        /\ worker'.pc = "acquire" => IsOrdinary(worker'.state)
        /\ \A j \in delayed' \cup prompted' : IsOrdinary(j)
        /\ resumer' # 0 => IsOrdinary(resumer')
    BY <1>1, <1>3 DEF NavigationSafe
  <2>2. \A k \in DOMAIN qState' : qState'[k] <= nStates
    BY <1>2, <1>4, <2>1
  <2> QED
    BY <1>1, <1>3, <1>5, <2>1, <2>2, MoveNav
<1>8. Located'
  <2>1. PICK loc \in [StateId -> Place] : Places_ok(loc)
    BY <1>1 DEF Located
  <2>2. PICK new : new = [loc EXCEPT ![i] = <<"queue", 0>>]
    OBVIOUS
  <2>3. Moved(new, loc, i, <<"queue", 0>>)
    BY <1>1, <1>2, <2>1, <2>2, PlaceValues, Move
  <2>4. loc[i] = <<"delayed", 0>> /\ i \notin prompted
    BY <1>2, <2>1 DEF Places_ok
  <2>5. /\ loc[i] # <<"queue", 0>> /\ loc[i] # <<"worker", 0>>
        /\ loc[i] # <<"resumer", 0>> /\ prompted \ {i} = prompted
        /\ \A q \in RunId : loc[i] # <<"next", q>> /\ loc[i] # <<"exec", q>>
    BY <2>4
  <2>6. /\ new \in [StateId -> Place] /\ new[i] = <<"queue", 0>>
        /\ \A j \in StateId : j > nStates => new[j] = Nowhere
        /\ \A k \in DOMAIN qState :
              qState[k] # i /\ new[qState[k]] = <<"queue", 0>>
        /\ worker.state # 0 => new[worker.state] = <<"worker", 0>>
        /\ resumer # 0 => new[resumer] = <<"resumer", 0>>
        /\ \A j \in delayed \ {i} : new[j] = <<"delayed", 0>>
        /\ \A j \in prompted : new[j] = <<"prompted", 0>>
        /\ \A q \in RunId :
              /\ \A k \in DOMAIN run[q].nxt : new[run[q].nxt[k]] = <<"next", q>>
              /\ InExecBy(q) => new[run[q].state] = <<"exec", q>>
    BY <2>3, <2>5 DEF Moved
  <2>7. Distinct(qState) /\ \A q \in RunId : Distinct(run[q].nxt)
    BY <2>1 DEF Places_ok
  <2>8. Distinct(qState)' /\ \A k \in DOMAIN qState' : new[qState'[k]] = <<"queue", 0>>
    BY <1>4, <2>6, <2>7
  <2>9. Places_ok(new)'
    BY <1>3, <2>6, <2>7, <2>8 DEF Places_ok, InExecBy, Distinct
  <2> QED
    BY <2>6, <2>9 DEF Located
<1> QED
  BY <1>6, <1>7, <1>8 DEF Inv

\* The worker takes a state from the head of the queue.
LEMMA DequeueInv ==
  ASSUME Inv, Dequeue
  PROVE  Inv'
<1> USE DEF stateVars, chanVars, mapVars, endVars, runVars,
            stepVars, waitVars, resumeVars, callerVars, workerKeeps
<1>1. TypeOK /\ NavigationSafe /\ Located
      /\ nStates \in 0 .. MaxStates /\ MaxStates \in Nat
      /\ st \in [StateId -> StateRec] /\ worker \in WorkerRec
  BY BoundAssumption DEF Inv, TypeOK
<1>2. PICK q \in Seq(StateId) : q = qState /\ q # <<>>
  BY <1>1 DEF TypeOK, Dequeue
<1>3. PICK i \in StateId : i = Head(q) /\ i = q[1]
  BY <1>2
<1>4. /\ Tail(q) \in Seq(StateId) /\ Len(Tail(q)) <= Len(q)
      /\ 1 \in DOMAIN q
      /\ \A k \in DOMAIN Tail(q) :
            k + 1 \in DOMAIN q /\ k + 1 # 1 /\ Tail(q)[k] = q[k + 1]
      /\ \A j, k \in DOMAIN Tail(q) : j + 1 = k + 1 => j = k
  <2>1. Len(q) \in Nat /\ Len(q) > 0 /\ Len(Tail(q)) = Len(q) - 1
        /\ DOMAIN q = 1 .. Len(q)
    BY <1>2
  <2>2. Tail(q) \in Seq(StateId) /\ DOMAIN Tail(q) = 1 .. Len(q) - 1
    BY <1>2, <2>1
  <2>3. \A k \in 1 .. Len(q) - 1 : Tail(q)[k] = q[k + 1]
    BY <1>2, <2>1
  <2> QED
    BY <2>1, <2>2, <2>3
<1>5. /\ qState' = Tail(q)
      /\ worker' = [worker EXCEPT
            !.pc = IF st[i].step = Final THEN "final" ELSE "acquire", !.state = i]
      /\ UNCHANGED <<st, nStates, backing, delayed, prompted, resumer, run>>
  BY <1>2, <1>3 DEF Dequeue
<1>6. worker' \in WorkerRec /\ worker'.state = i
      /\ (worker'.pc = "acquire" => st[i].step # Final)
  <2>1. "final" \in WorkerPc /\ "acquire" \in WorkerPc /\ i \in 0 .. MaxStates
    BY BoundAssumption DEF WorkerPc, StateId
  <2> QED
    BY <1>1, <1>5, <2>1 DEF WorkerRec
<1>7. TypeOK'
  <2>1. qState' \in Seq(StateId) /\ Len(qState') <= QStateCap
    <3>1. Len(Tail(q)) \in Nat /\ Len(q) \in Nat /\ Len(q) <= QStateCap
      BY <1>1, <1>2, <1>4 DEF TypeOK
    <3> QED
      BY <1>4, <1>5, <3>1, BoundAssumption
  <2> QED
    BY <1>1, <1>6, <2>1 DEF Dequeue, TypeOK
<1>8. \A k \in DOMAIN q : q[k] <= nStates
  BY <1>1, <1>2 DEF NavigationSafe
<1>9. i <= nStates
  BY <1>3, <1>4, <1>8
<1>10. NavigationSafe'
  <2>1. /\ \A j \in delayed' \cup prompted' : IsOrdinary(j)
        /\ resumer' # 0 => IsOrdinary(resumer')
    BY <1>1, <1>5 DEF NavigationSafe
  <2>2. \A k \in DOMAIN qState' : qState'[k] <= nStates
    BY <1>4, <1>5, <1>8
  <2>3. worker'.pc = "acquire" => IsOrdinary(worker'.state)
    <3>1. i \in 1 .. nStates
      BY <1>1, <1>9 DEF StateId
    <3>2. st[i].step # None /\ st[i].step \in Step \cup {None, Final}
      BY <1>1, <3>1 DEF NavigationSafe, StateRec
    <3> QED
      BY <1>6, <3>1, <3>2 DEF IsOrdinary
  <2> QED
    BY <1>1, <1>5, <2>1, <2>2, <2>3, MoveNav
<1>11. Located'
  <2>1. PICK loc \in [StateId -> Place] : Places_ok(loc)
    BY <1>1 DEF Located
  <2>2. PICK new : new = [loc EXCEPT ![i] = <<"worker", 0>>]
    OBVIOUS
  <2>3. Moved(new, loc, i, <<"worker", 0>>)
    BY <1>1, <1>9, <2>1, <2>2, PlaceValues, Move
  <2>4. loc[i] = <<"queue", 0>> /\ (\A k \in DOMAIN q : loc[q[k]] = <<"queue", 0>>)
        /\ Distinct(q)
    BY <1>2, <1>3, <1>4, <2>1 DEF Places_ok
  <2>5. i \notin prompted /\ i \notin delayed
    BY <2>1, <2>4 DEF Places_ok
  <2>6. /\ loc[i] # <<"resumer", 0>> /\ prompted \ {i} = prompted
        /\ delayed \ {i} = delayed
        /\ \A r \in RunId : loc[i] # <<"next", r>> /\ loc[i] # <<"exec", r>>
    BY <2>4, <2>5
  <2>7. /\ new \in [StateId -> Place] /\ new[i] = <<"worker", 0>>
        /\ \A j \in StateId : j > nStates => new[j] = Nowhere
        /\ resumer # 0 => new[resumer] = <<"resumer", 0>>
        /\ \A j \in delayed : new[j] = <<"delayed", 0>>
        /\ \A j \in prompted : new[j] = <<"prompted", 0>>
        /\ \A r \in RunId :
              /\ \A k \in DOMAIN run[r].nxt : new[run[r].nxt[k]] = <<"next", r>>
              /\ InExecBy(r) => new[run[r].state] = <<"exec", r>>
    BY <2>3, <2>6 DEF Moved
  <2>8. \A r \in RunId : Distinct(run[r].nxt)
    BY <2>1 DEF Places_ok
  <2>9. \A k \in DOMAIN Tail(q) : new[Tail(q)[k]] = <<"queue", 0>>
    <3> SUFFICES ASSUME NEW k \in DOMAIN Tail(q)
                 PROVE  new[Tail(q)[k]] = <<"queue", 0>>
      OBVIOUS
    <3>1. PICK m \in DOMAIN q : m = k + 1 /\ m # 1 /\ Tail(q)[k] = q[m]
      BY <1>4
    <3>2. q[m] # i /\ q[m] \in StateId
      BY <1>3, <1>4, <2>4, <3>1 DEF Distinct
    <3> QED
      BY <2>2, <2>4, <3>1, <3>2
  <2>10. Distinct(Tail(q))
    <3> SUFFICES ASSUME NEW j \in DOMAIN Tail(q), NEW k \in DOMAIN Tail(q),
                        Tail(q)[j] = Tail(q)[k]
                 PROVE  j = k
      BY DEF Distinct
    <3>1. PICK a \in DOMAIN q, b \in DOMAIN q :
              a = j + 1 /\ b = k + 1 /\ q[a] = q[b]
      BY <1>4
    <3> QED
      BY <1>4, <2>4, <3>1 DEF Distinct
  <2>11. Distinct(qState)' /\ \A k \in DOMAIN qState' : new[qState'[k]] = <<"queue", 0>>
    BY <1>5, <2>9, <2>10 DEF Distinct
  <2>12. Places_ok(new)'
    BY <1>5, <1>6, <2>7, <2>8, <2>11 DEF Places_ok, InExecBy, Distinct
  <2> QED
    BY <2>7, <2>12 DEF Located
<1> QED
  BY <1>7, <1>10, <1>11 DEF Inv

\* A final state that is looked at is held by nobody afterwards.
LEMMA FinalCheckInv ==
  ASSUME Inv, FinalCheck
  PROVE  Inv'
<1> USE DEF stateVars, chanVars, mapVars, endVars, runVars,
            stepVars, waitVars, resumeVars, callerVars, workerKeeps
<1>1. TypeOK /\ NavigationSafe /\ Located /\ worker \in WorkerRec
  BY DEF Inv, TypeOK
<1>2. UNCHANGED <<st, nStates, qState, delayed, prompted, resumer, run, backing>>
  BY DEF FinalCheck
<1>3. PICK pc \in {"loop", "setResult"} :
          worker' = [worker EXCEPT !.pc = pc, !.state = 0]
  BY DEF FinalCheck
<1>4. worker' \in WorkerRec /\ worker'.state = 0 /\ worker'.pc # "acquire"
  <2>1. "loop" \in WorkerPc /\ "setResult" \in WorkerPc /\ 0 \in 0 .. MaxStates
    BY BoundAssumption DEF WorkerPc
  <2> QED
    BY <1>1, <1>3, <2>1 DEF WorkerRec
<1>5. TypeOK'
  BY <1>1, <1>4 DEF FinalCheck, TypeOK
<1>6. NavigationSafe'
  BY <1>1, <1>2, <1>4 DEF NavigationSafe, IsIterator, IsOrdinary, AtResolve
<1>7. Located'
  BY <1>1, <1>2, <1>4, ZenonT(60) DEF Located, Places_ok, InExecBy, Distinct
<1> QED
  BY <1>5, <1>6, <1>7 DEF Inv

\* The worker hands a state to a new goroutine.
LEMMA StartRunInv ==
  ASSUME Inv, StartRun
  PROVE  Inv'
<1> USE DEF stateVars, chanVars, mapVars, endVars, runVars,
            stepVars, waitVars, resumeVars, callerVars
<1>1. TypeOK /\ NavigationSafe /\ Located
      /\ nStates \in 0 .. MaxStates /\ MaxStates \in Nat
      /\ st \in [StateId -> StateRec] /\ worker \in WorkerRec
      /\ run \in [RunId -> RunRec] /\ nRuns \in 0 .. MaxRuns
  BY BoundAssumption DEF Inv, TypeOK
<1>2. IsOrdinary(worker.state)
  BY <1>1 DEF StartRun, NavigationSafe
<1>3. PICK i \in StateId : i = worker.state /\ i <= nStates /\ IsOrdinary(i) /\ i # 0
  BY <1>1, <1>2 DEF IsOrdinary, StateId
<1>4. PICK n \in RunId : n = nRuns + 1 /\ n \in 0 .. MaxRuns
  BY <1>1, BoundAssumption DEF StartRun, RunId
<1>5. PICK x : x = [Idle EXCEPT !.pc = "call", !.state = i]
  OBVIOUS
<1>6. /\ run' = [run EXCEPT ![n] = x] /\ nRuns' = n
      /\ worker' = [worker EXCEPT !.pc = "loop", !.state = 0]
      /\ UNCHANGED <<st, nStates, qState, backing, delayed, prompted, resumer>>
  BY <1>3, <1>4, <1>5 DEF StartRun
<1>7. x \in RunRec /\ x.pc = "call" /\ x.state = i /\ x.nxt = <<>>
  <2>1. "call" \in RunPc /\ i \in 0 .. MaxStates
    BY <1>1 DEF RunPc, StateId
  <2>2. Idle \in RunRec
    BY Values
  <2>3. x \in RunRec
    BY <1>5, <2>1, <2>2 DEF RunRec
  <2>4. x.pc = "call" /\ x.state = i /\ x.nxt = Idle.nxt
    BY <1>5, <2>2 DEF RunRec
  <2>5. Idle.nxt = <<>>
    BY DEF Idle
  <2> QED
    BY <2>3, <2>4, <2>5
<1>8. worker' \in WorkerRec /\ worker'.state = 0 /\ worker'.pc = "loop"
  <2>1. "loop" \in WorkerPc /\ 0 \in 0 .. MaxStates
    BY BoundAssumption DEF WorkerPc
  <2> QED
    BY <1>1, <1>6, <2>1 DEF WorkerRec
<1>9. run' \in [RunId -> RunRec] /\ run'[n] = x
      /\ \A q \in RunId : q # n => run'[q] = run[q]
  BY <1>1, <1>6, <1>7
<1>10. TypeOK'
  BY <1>1, <1>4, <1>6, <1>8, <1>9 DEF StartRun, TypeOK
<1>11. DOMAIN x.nxt = {}
  BY <1>7
<1>12. NavigationSafe'
  <2>1. /\ \A k \in DOMAIN qState' : qState'[k] <= nStates
        /\ \A j \in delayed' \cup prompted' : IsOrdinary(j)
        /\ resumer' # 0 => IsOrdinary(resumer')
    BY <1>1, <1>6 DEF NavigationSafe
  <2>2. \A q \in RunId :
            \/ run'[q] = run[q]
            \/ /\ run'[q].pc # "resolve"
               /\ IsOrdinary(run'[q].state)
               /\ \A k \in DOMAIN run'[q].nxt : run'[q].nxt[k] <= nStates
    BY <1>3, <1>7, <1>9, <1>11
  <2>3. /\ st' \in [StateId -> StateRec]
        /\ \A j \in StateId : st'[j].step = st[j].step /\ st'[j].depth = st[j].depth
        /\ worker'.pc # "acquire" /\ UNCHANGED <<nStates, backing>>
    BY <1>1, <1>6, <1>8
  <2> QED
    BY <1>1, <2>1, <2>2, <2>3, MoveNav
<1>13. Located'
  <2>1. PICK loc \in [StateId -> Place] : Places_ok(loc)
    BY <1>1 DEF Located
  <2>2. PICK new : new = [loc EXCEPT ![i] = <<"exec", n>>]
    OBVIOUS
  <2>3. Moved(new, loc, i, <<"exec", n>>)
    BY <1>1, <1>3, <2>1, <2>2, PlaceValues, Move
  <2>4. loc[i] = <<"worker", 0>>
    BY <1>3, <2>1 DEF Places_ok
  <2>5. i \notin prompted /\ i \notin delayed
    BY <2>1, <2>4 DEF Places_ok
  <2>6. /\ loc[i] # <<"resumer", 0>> /\ loc[i] # <<"queue", 0>>
        /\ prompted \ {i} = prompted /\ delayed \ {i} = delayed
        /\ \A r \in RunId : loc[i] # <<"next", r>> /\ loc[i] # <<"exec", r>>
    BY <2>4, <2>5
  <2>7. /\ new \in [StateId -> Place] /\ new[i] = <<"exec", n>>
        /\ \A j \in StateId : j > nStates => new[j] = Nowhere
        /\ \A k \in DOMAIN qState : new[qState[k]] = <<"queue", 0>>
        /\ resumer # 0 => new[resumer] = <<"resumer", 0>>
        /\ \A j \in delayed : new[j] = <<"delayed", 0>>
        /\ \A j \in prompted : new[j] = <<"prompted", 0>>
        /\ \A r \in RunId :
              /\ \A k \in DOMAIN run[r].nxt : new[run[r].nxt[k]] = <<"next", r>>
              /\ InExecBy(r) => new[run[r].state] = <<"exec", r>>
    BY <2>3, <2>6 DEF Moved
  <2>8. Distinct(qState) /\ \A r \in RunId : Distinct(run[r].nxt)
    BY <2>1 DEF Places_ok
  <2>9. ASSUME NEW q \in RunId
        PROVE  /\ \A k \in DOMAIN run'[q].nxt : new[run'[q].nxt[k]] = <<"next", q>>
               /\ InExecBy(q)' => new[run'[q].state] = <<"exec", q>>
               /\ Distinct(run[q].nxt)'
    <3>1. CASE q = n
      BY <1>7, <1>9, <1>11, <2>7, <3>1 DEF Distinct
    <3>2. CASE q # n
      <4>1. run'[q] = run[q]
        BY <1>9, <3>2
      <4>2. \A k \in DOMAIN run'[q].nxt : new[run'[q].nxt[k]] = <<"next", q>>
        BY <2>7, <4>1
      <4>3. InExecBy(q)' => new[run'[q].state] = <<"exec", q>>
        BY <2>7, <4>1 DEF InExecBy
      <4>4. Distinct(run[q].nxt)'
        BY <2>8, <4>1 DEF Distinct
      <4> QED
        BY <4>2, <4>3, <4>4
    <3> QED
      BY <3>1, <3>2
  <2>10. Places_ok(new)'
    BY <1>6, <1>8, <2>7, <2>8, <2>9 DEF Places_ok, Distinct
  <2> QED
    BY <2>7, <2>10 DEF Located
<1> QED
  BY <1>10, <1>12, <1>13 DEF Inv

\* What is left of a sequence of distinct states without its first.
LEMMA TailFacts ==
  ASSUME NEW q \in Seq(StateId), q # <<>>, Distinct(q)
  PROVE  /\ Head(q) \in StateId /\ Tail(q) \in Seq(StateId) /\ 1 \in DOMAIN q
         /\ Head(q) = q[1] /\ Distinct(Tail(q))
         /\ \A k \in DOMAIN Tail(q) : \E m \in DOMAIN q :
               Tail(q)[k] = q[m] /\ q[m] # q[1]
         /\ Len(q) # 1 => Tail(q) # <<>>
<1>1. Len(q) \in Nat /\ Len(q) > 0 /\ Len(Tail(q)) = Len(q) - 1
      /\ DOMAIN q = 1 .. Len(q)
  OBVIOUS
<1>2. Tail(q) \in Seq(StateId) /\ DOMAIN Tail(q) = 1 .. Len(q) - 1
  BY <1>1
<1>3. \A k \in 1 .. Len(q) - 1 : Tail(q)[k] = q[k + 1]
  BY <1>1
<1>4. \A k \in DOMAIN Tail(q) :
         k + 1 \in DOMAIN q /\ k + 1 # 1 /\ Tail(q)[k] = q[k + 1] /\ k \in Nat
  BY <1>1, <1>2, <1>3
<1>5. 1 \in DOMAIN q /\ Head(q) = q[1] /\ Head(q) \in StateId
  BY <1>1
<1>6. Distinct(Tail(q))
  <2> SUFFICES ASSUME NEW j \in DOMAIN Tail(q), NEW k \in DOMAIN Tail(q),
                      Tail(q)[j] = Tail(q)[k]
               PROVE  j = k
    BY DEF Distinct
  <2>1. PICK a \in DOMAIN q, b \in DOMAIN q :
            a = j + 1 /\ b = k + 1 /\ q[a] = q[b]
    BY <1>4
  <2>2. a = b
    BY <2>1 DEF Distinct
  <2> QED
    BY <1>4, <2>1, <2>2
<1>7. \A k \in DOMAIN Tail(q) : \E m \in DOMAIN q :
          Tail(q)[k] = q[m] /\ q[m] # q[1]
  BY <1>4, <1>5 DEF Distinct
<1>8. Len(q) # 1 => Tail(q) # <<>>
  <2>1. Len(q) # 1 => Len(Tail(q)) # 0
    BY <1>1
  <2> QED
    BY <2>1
<1> QED
  BY <1>2, <1>5, <1>6, <1>7, <1>8

\* A goroutine queues the next of its states.
LEMMA EnqueueInv ==
  ASSUME Inv, NEW r \in RunId, Enqueue(r), run[r].nxt # <<>>
  PROVE  Inv'
<1> USE DEF stateVars, chanVars, mapVars, endVars, runVars,
            stepVars, waitVars, resumeVars, callerVars
<1>1. TypeOK /\ NavigationSafe /\ Located
      /\ nStates \in 0 .. MaxStates /\ MaxStates \in Nat
      /\ st \in [StateId -> StateRec] /\ run \in [RunId -> RunRec]
  BY BoundAssumption DEF Inv, TypeOK
<1>2. PICK loc \in [StateId -> Place] : Places_ok(loc)
  BY <1>1 DEF Located
<1>3. PICK q \in Seq(StateId) : q = run[r].nxt /\ q # <<>> /\ Distinct(q)
  BY <1>1, <1>2 DEF RunRec, Places_ok
<1>4. PICK i \in StateId, t \in Seq(StateId) : i = Head(q) /\ t = Tail(q)
  BY <1>3, TailFacts
<1>5. /\ i = q[1] /\ 1 \in DOMAIN q /\ Distinct(t)
      /\ \A k \in DOMAIN t : \E m \in DOMAIN q : t[k] = q[m] /\ q[m] # i
  BY <1>3, <1>4, TailFacts
<1>6. \A k \in DOMAIN q : q[k] <= nStates /\ loc[q[k]] = <<"next", r>>
  BY <1>1, <1>2, <1>3 DEF NavigationSafe, Places_ok
<1>7. i <= nStates /\ loc[i] = <<"next", r>> /\ run[r].pc = "enqueue"
  BY <1>5, <1>6 DEF Enqueue
<1>8. PICK pc \in {"done", "enqueue"} :
         run' = [run EXCEPT ![r].nxt = t, ![r].pc = pc]
  <2>1. run' = [run EXCEPT ![r].nxt = Tail(@),
                  ![r].pc = IF Len(run[r].nxt) = 1 THEN "done" ELSE "enqueue"]
    BY DEF Enqueue
  <2>2. Tail(run[r].nxt) = t
    BY <1>3, <1>4
  <2> QED
    BY <2>1, <2>2
<1>9. /\ qState' = Append(qState, i) /\ RoomInState
      /\ UNCHANGED <<st, nStates, backing, worker, delayed, prompted, resumer>>
  BY <1>3, <1>4 DEF Enqueue
<1>10. /\ run' \in [RunId -> RunRec] /\ run'[r].nxt = t /\ run'[r].pc = pc
       /\ run'[r].state = run[r].state
       /\ \A p \in RunId : p # r => run'[p] = run[p]
  <2>1. pc \in RunPc
    BY DEF RunPc
  <2> QED
    BY <1>1, <1>8, <2>1 DEF RunRec
<1>11. /\ qState' \in Seq(StateId) /\ Len(qState') <= QStateCap
       /\ \A k \in DOMAIN qState' :
           (k \in DOMAIN qState /\ qState'[k] = qState[k]) \/ qState'[k] = i
       /\ Distinct(qState) /\ (\A k \in DOMAIN qState : qState[k] # i) =>
           Distinct(qState)'
  BY <1>1, <1>9, QueueAppend
<1>12. TypeOK'
  BY <1>1, <1>10, <1>11 DEF Enqueue, TypeOK
<1>13. NavigationSafe'
  <2>1. /\ \A k \in DOMAIN qState : qState[k] <= nStates
        /\ worker'.pc = "acquire" => IsOrdinary(worker'.state)
        /\ \A j \in delayed' \cup prompted' : IsOrdinary(j)
        /\ resumer' # 0 => IsOrdinary(resumer')
        /\ IsOrdinary(run[r].state)
    BY <1>1, <1>7, <1>9 DEF NavigationSafe
  <2>2. \A k \in DOMAIN qState' : qState'[k] <= nStates
    BY <1>7, <1>11, <2>1
  <2>3. \A k \in DOMAIN t : t[k] <= nStates
    BY <1>5, <1>6
  <2>4. \A p \in RunId :
            \/ run'[p] = run[p]
            \/ /\ run'[p].pc # "resolve"
               /\ IsOrdinary(run'[p].state)
               /\ \A k \in DOMAIN run'[p].nxt : run'[p].nxt[k] <= nStates
    BY <1>10, <2>1, <2>3
  <2>5. /\ st' \in [StateId -> StateRec] /\ UNCHANGED <<nStates, backing>>
        /\ \A j \in StateId : st'[j].step = st[j].step /\ st'[j].depth = st[j].depth
    BY <1>1, <1>9
  <2> QED
    BY <1>1, <2>1, <2>2, <2>4, <2>5, MoveNav
<1>14. Located'
  <2>1. PICK new : new = [loc EXCEPT ![i] = <<"queue", 0>>]
    OBVIOUS
  <2>2. Moved(new, loc, i, <<"queue", 0>>)
    BY <1>1, <1>2, <1>7, <2>1, PlaceValues, Move
  <2>3. i \notin prompted /\ i \notin delayed
    BY <1>2, <1>7 DEF Places_ok
  <2>4. /\ loc[i] # <<"queue", 0>> /\ loc[i] # <<"worker", 0>>
        /\ loc[i] # <<"resumer", 0>>
        /\ prompted \ {i} = prompted /\ delayed \ {i} = delayed
        /\ \A p \in RunId : loc[i] # <<"exec", p>>
        /\ \A p \in RunId : p # r => loc[i] # <<"next", p>>
    BY <1>7, <2>3
  <2>5. /\ new \in [StateId -> Place] /\ new[i] = <<"queue", 0>>
        /\ \A j \in StateId : j > nStates => new[j] = Nowhere
        /\ \A k \in DOMAIN qState :
              qState[k] # i /\ new[qState[k]] = <<"queue", 0>>
        /\ worker.state # 0 => new[worker.state] = <<"worker", 0>>
        /\ resumer # 0 => new[resumer] = <<"resumer", 0>>
        /\ \A j \in delayed : new[j] = <<"delayed", 0>>
        /\ \A j \in prompted : new[j] = <<"prompted", 0>>
        /\ \A p \in RunId :
              /\ p # r => \A k \in DOMAIN run[p].nxt :
                             new[run[p].nxt[k]] = <<"next", p>>
              /\ InExecBy(p) => new[run[p].state] = <<"exec", p>>
    BY <2>2, <2>4 DEF Moved
  <2>6. Distinct(qState) /\ \A p \in RunId : Distinct(run[p].nxt)
    BY <1>2 DEF Places_ok
  <2>7. \A k \in DOMAIN t : new[t[k]] = <<"next", r>>
    <3> SUFFICES ASSUME NEW k \in DOMAIN t PROVE new[t[k]] = <<"next", r>>
      OBVIOUS
    <3>1. PICK m \in DOMAIN q : t[k] = q[m] /\ q[m] # i
      BY <1>5
    <3>2. q[m] \in StateId /\ loc[q[m]] = <<"next", r>>
      BY <1>6
    <3> QED
      BY <2>1, <3>1, <3>2
  <2>8. Distinct(qState)' /\ \A k \in DOMAIN qState' : new[qState'[k]] = <<"queue", 0>>
    BY <1>11, <2>5, <2>6
  <2>9. ASSUME NEW p \in RunId
        PROVE  /\ \A k \in DOMAIN run'[p].nxt : new[run'[p].nxt[k]] = <<"next", p>>
               /\ InExecBy(p)' => new[run'[p].state] = <<"exec", p>>
               /\ Distinct(run[p].nxt)'
    <3>1. CASE p = r
      <4>1. ~InExecBy(p)'
        BY <1>10, <3>1 DEF InExecBy
      <4> QED
        BY <1>5, <1>10, <2>7, <3>1, <4>1 DEF Distinct
    <3>2. CASE p # r
      <4>1. run'[p] = run[p]
        BY <1>10, <3>2
      <4>2. Distinct(run[p].nxt)'
        BY <2>6, <4>1 DEF Distinct
      <4>3. InExecBy(p)' => new[run'[p].state] = <<"exec", p>>
        BY <2>5, <4>1 DEF InExecBy
      <4>4. \A k \in DOMAIN run[p].nxt : new[run[p].nxt[k]] = <<"next", p>>
        BY <2>5, <3>2
      <4> QED
        BY <4>1, <4>2, <4>3, <4>4
    <3> QED
      BY <3>1, <3>2
  <2>10. Places_ok(new)'
    BY <1>9, <2>5, <2>8, <2>9 DEF Places_ok, Distinct
  <2> QED
    BY <2>5, <2>10 DEF Located
<1> QED
  BY <1>12, <1>13, <1>14 DEF Inv

-----------------------------------------------------------------------------
(* The session's first state, and the invariant as a whole *)

\* nothing exists before Exec, a goroutine that queues has what to queue, and
\* goroutines are numbered in the order they were started
Aux ==
    /\ ~started => nStates = 0
    /\ \A r \in RunId : run[r].pc = "enqueue" => run[r].nxt # <<>>
    /\ \A r \in RunId : r > nRuns => run[r].pc = "none"

\* Exec makes the first state and queues it, or is refused.
LEMMA ExecInv ==
  ASSUME Inv, Aux, NEW s \in Starts, Exec(s)
  PROVE  Inv'
<1> USE DEF stateVars, chanVars, mapVars, endVars, runVars,
            stepVars, waitVars, resumeVars
<1>1. TypeOK /\ NavigationSafe /\ Located
      /\ nStates = 0 /\ MaxStates \in Nat /\ MaxStates >= 1
      /\ st \in [StateId -> StateRec] /\ s \in Step /\ 1 \in StateId
  <2>1. TypeOK /\ NavigationSafe /\ Located
    BY DEF Inv
  <2>2. ~started
    BY DEF Exec
  <2>3. nStates = 0
    BY <2>2 DEF Aux
  <2>4. MaxStates \in Nat /\ MaxStates >= 1 /\ 1 \in StateId
    BY BoundAssumption DEF StateId
  <2>5. st \in [StateId -> StateRec] /\ s \in Step
    BY <2>1, GraphAssumption DEF TypeOK
  <2> QED
    BY <2>1, <2>3, <2>4, <2>5
<1>2. CASE Parents(s) # {}
  <2>1. qErr' = Append(qErr, Refused) /\ RoomInErr
        /\ UNCHANGED <<stateVars, qState>>
    BY <1>2 DEF Exec
  <2>2. UNCHANGED coreVars
    BY <2>1 DEF Exec, coreVars
  <2>3. qErr' \in Seq(ErrVal) /\ Len(qErr') <= 1
    BY <1>1, <2>1, Values DEF TypeOK, RoomInErr
  <2>4. TypeOK'
    BY <1>1, <2>1, <2>3 DEF Exec, TypeOK
  <2> QED
    BY <1>1, <2>2, <2>4, CoreFrame DEF Inv
<1>3. CASE Parents(s) = {}
  <2>1. /\ RoomInState /\ nStates' = 1 /\ qState' = Append(qState, 1)
        /\ st' = [st EXCEPT ![1] = NewState(s, None, None, 0)]
        /\ UNCHANGED qErr
        /\ UNCHANGED <<worker, delayed, prompted, resumer, run, backing>>
    BY <1>3 DEF Exec
  <2>2. PICK x \in StateRec : /\ x = NewState(s, None, None, 0)
                              /\ x.step = s /\ x.depth = 0
    <3>1. 0 \in 0 .. LoopCap
      BY BoundAssumption
    <3>2. NewState(s, None, None, 0) \in StateRec
      BY <1>1, <3>1 DEF NewState, StateRec
    <3>3. /\ NewState(s, None, None, 0).step = s
          /\ NewState(s, None, None, 0).depth = 0
      BY DEF NewState
    <3> QED
      BY <3>2, <3>3
  <2>3. /\ st' \in [StateId -> StateRec] /\ st'[1] = x
        /\ \A i \in StateId : i # 1 => st'[i] = st[i]
    BY <1>1, <2>1, <2>2
  <2>4. /\ qState' \in Seq(StateId) /\ Len(qState') <= QStateCap
        /\ \A k \in DOMAIN qState' :
             (k \in DOMAIN qState /\ qState'[k] = qState[k]) \/ qState'[k] = 1
        /\ Distinct(qState) /\ (\A k \in DOMAIN qState : qState[k] # 1) =>
             Distinct(qState)'
    BY <1>1, <2>1, QueueAppend
  <2>5. TypeOK'
    BY <1>1, <2>1, <2>3, <2>4 DEF Exec, TypeOK
  <2>6. \A i : ~IsOrdinary(i) /\ ~IsIterator(i)
    BY <1>1 DEF IsOrdinary, IsIterator
  <2>7. \A k \in DOMAIN qState : FALSE
    <3>1. \A k \in DOMAIN qState : qState[k] <= 0 /\ qState[k] \in StateId
      BY <1>1 DEF NavigationSafe, TypeOK
    <3> QED
      BY <3>1 DEF StateId
  <2>8. /\ \A k \in 1 .. LoopCap : backing[k] = 0
        /\ \A i \in delayed \cup prompted : FALSE
        /\ worker.pc # "acquire" /\ resumer = 0
        /\ \A r \in RunId : run[r].pc = "none"
    BY <1>1, <2>6 DEF NavigationSafe
  <2>9. \A r \in RunId : \A k \in DOMAIN run[r].nxt : FALSE
    <3> SUFFICES ASSUME NEW r \in RunId, NEW k \in DOMAIN run[r].nxt
                 PROVE  FALSE
      OBVIOUS
    <3>1. run[r].nxt \in Seq(StateId) /\ run[r].nxt[k] <= 0
      BY <1>1 DEF NavigationSafe, TypeOK, RunRec
    <3>2. run[r].nxt[k] \in StateId
      BY <3>1
    <3> QED
      BY <3>1, <3>2 DEF StateId
  <2>10. NavigationSafe'
    <3>1. \A i \in 1 .. nStates' : st'[i].step # None
      BY <1>1, <2>1, <2>2, <2>3, GraphAssumption
    <3>2. \A i \in StateId : \A k \in 1 .. st'[i].depth : backing'[k] # 0
      BY <1>1, <2>1, <2>2, <2>3 DEF NavigationSafe
    <3>3. \A k \in DOMAIN qState' : qState'[k] <= nStates'
      BY <2>1, <2>4, <2>7
    <3> QED
      BY <2>1, <2>8, <2>9, <3>1, <3>2, <3>3 DEF NavigationSafe, AtResolve
  <2>11. Located'
    <3>1. PICK loc \in [StateId -> Place] : Places_ok(loc)
      BY <1>1 DEF Located
    <3>2. PICK new : new = [loc EXCEPT ![1] = <<"queue", 0>>]
      OBVIOUS
    <3>3. new \in [StateId -> Place] /\ new[1] = <<"queue", 0>>
          /\ \A j \in StateId : j # 1 => new[j] = loc[j]
      BY <1>1, <3>1, <3>2, PlaceValues
    <3>4. \A j \in StateId : j > 1 => new[j] = Nowhere
      <4>1. \A j \in StateId : j > 1 => j # 1 /\ j > nStates
        BY <1>1 DEF StateId
      <4> QED
        BY <3>1, <3>3, <4>1 DEF Places_ok
    <3>5. worker.state = 0 \/ worker.state \in StateId
      BY <1>1 DEF TypeOK, WorkerRec, StateId
    <3>6. worker.state = 0
      <4>1. worker.state # 0 => loc[worker.state] = <<"worker", 0>>
        BY <3>1 DEF Places_ok
      <4>2. \A j \in StateId : loc[j] = Nowhere
        BY <1>1, <3>1 DEF Places_ok, StateId
      <4> QED
        BY <3>5, <4>1, <4>2 DEF Nowhere
    <3>7. /\ \A k \in DOMAIN qState' : new[qState'[k]] = <<"queue", 0>>
          /\ Distinct(qState)'
      BY <2>4, <2>7, <3>1, <3>3 DEF Places_ok
    <3>8. \A r \in RunId : ~InExecBy(r)' /\ Distinct(run[r].nxt)'
      BY <2>1, <2>8, <2>9 DEF InExecBy, Distinct
    <3>9. Places_ok(new)'
      BY <2>1, <2>8, <2>9, <3>4, <3>6, <3>7, <3>8 DEF Places_ok
    <3> QED
      BY <3>3, <3>9 DEF Located
  <2> QED
    BY <2>5, <2>10, <2>11 DEF Inv
<1> QED
  BY <1>2, <1>3

\* Every step of the session preserves the invariant.
LEMMA NextInv ==
  ASSUME Inv, Aux, [Next]_vars
  PROVE  Inv'
<1>1. ASSUME NEW r \in RunId, run[r].pc \notin {"none", "done"}, Run(r)
      PROVE  Inv'
  <2>1. run[r].pc # "none"
    BY <1>1
  <2>2. CASE CallLoop(r) \/ CallPanics(r) \/ Recover(r) \/ ReadStatus(r)
             \/ CheckError(r) \/ PushError(r) \/ Notify(r) \/ EnqueueAbandoned(r)
    BY <2>1, <2>2, QuietInv
  <2>3. CASE \E a \in Answers(run[r].state) : CallStep(r, a)
    BY <2>3, CallStepInv
  <2>4. CASE CallStartFails(r) \/ CallFails(r)
    BY <2>4, CallErrorInv
  <2>5. CASE ResolveVars(r) \/ ResolveSteps(r) \/ ResolvePartial(r)
             \/ ResolveErrHandler(r)
    BY <2>5, ResolvePlainInv
  <2>6. CASE ResolveIterator(r)
    BY <2>6, ResolveIteratorInv
  <2>7. CASE ResolveBreak(r) \/ ResolveContinue(r)
    BY <2>7, ResolveJumpInv
  <2>8. CASE ResolveTermination(r) \/ ResolveDelay(r) \/ ResolvePrompt(r)
    BY <2>8, ResolveSuspendInv
  <2>9. CASE Enqueue(r)
    <3>1. run[r].nxt # <<>>
      BY <2>9 DEF Aux, Enqueue
    <3> QED
      BY <2>9, <3>1, EnqueueInv
  <2> QED
    BY <1>1, <2>2, <2>3, <2>4, <2>5, <2>6, <2>7, <2>8, <2>9 DEF Run
<1>2. ASSUME Worker PROVE Inv'
  <2>1. CASE WorkerDone \/ TickBegin \/ TickLock \/ TickEnd \/ SetResult
             \/ NotifyCompleted \/ TakeErr \/ SetErr \/ Stop
    BY <2>1, WorkerInv
  <2>2. CASE \E i \in delayed : TickEnqueue(i)
    BY <2>2, TickEnqueueInv
  <2>3. CASE Dequeue \/ FinalCheck \/ StartRun
    BY <2>3, DequeueInv, FinalCheckInv, StartRunInv
  <2> QED
    BY <1>2, <2>1, <2>2, <2>3 DEF Worker
<1>3. CASE \E s \in Starts : Exec(s)
  BY <1>3, ExecInv
<1>4. CASE (\E u \in Users, i \in prompted, hasInput \in BOOLEAN :
               Resume(u, i, hasInput)) \/ ResumeEnqueue \/ ResumeAbandoned
  BY <1>4, ResumeInv
<1>5. CASE Wait \/ Waiter \/ CallerGone \/ Shutdown
           \/ (\E i \in delayed : BecomeDue(i))
           \/ (\E s \in Shared, p \in Step : ReachedElsewhere(s, p)) \/ UNCHANGED vars
  BY <1>5, CallerInv
<1>6. CASE Rest
  BY <1>6, CallerInv DEF Rest
<1> QED
  BY <1>1, <1>2, <1>3, <1>4, <1>5, <1>6 DEF Next

\* A step goroutine touches neither the session's outcome nor the worker nor a
\* caller.
LEMMA RunKeepsRest ==
  ASSUME NEW r \in RunId, Run(r)
  PROVE  UNCHANGED <<endVars, worker, nRuns, callerVars>>
<1>1. CASE Notify(r) \/ Enqueue(r)
  BY <1>1 DEF Notify, Enqueue
<1>2. CASE ~(Notify(r) \/ Enqueue(r))
  <2>1. UNCHANGED runKeeps
    BY <1>2 DEF Run, CallLoop, CallStep, CallStartFails, CallFails, CallPanics,
       Recover, ResolveVars, ResolveSteps, ResolveIterator, ResolveErrHandler,
       ResolveBreak, ResolveContinue, ResolvePartial, ResolveTermination,
       ResolveDelay, ResolvePrompt, ReadStatus, CheckError, PushError,
       EnqueueAbandoned
  <2> QED
    BY <2>1 DEF runKeeps
<1> QED
  BY <1>1, <1>2

\* A goroutine that leaves exec reports next, and changes no other.
LEMMA LeavePost ==
  ASSUME run \in [RunId -> RunRec], NEW r \in RunId,
         NEW cur, NEW steps, NEW err, Leave(r, cur, steps, err)
  PROVE  /\ run'[r].pc = "post"
         /\ \A q \in RunId : q # r => run'[q] = run[q]
<1>1. run' = [run EXCEPT ![r].pc = "post", ![r].err = err,
                 ![r].nxt = [k \in 1 .. Len(steps) |-> nStates + k]]
  BY DEF Leave
<1> QED
  BY <1>1 DEF RunRec

\* Where a step of a goroutine leads it.
LEMMA RunPcs ==
  ASSUME TypeOK, NEW r \in RunId, Run(r)
  PROVE  /\ \A q \in RunId : q # r => run'[q] = run[q]
         /\ run'[r].pc # "enqueue" \/ Notify(r) \/ Enqueue(r)
         /\ run'[r].pc = "push" => CheckError(r)
<1>1. run \in [RunId -> RunRec]
  BY DEF TypeOK
<1>2. CASE CallLoop(r) \/ (\E a \in Answers(run[r].state) : CallStep(r, a))
           \/ CallPanics(r) \/ Recover(r) \/ ReadStatus(r) \/ EnqueueAbandoned(r)
  <2>1. CASE CallLoop(r)
    BY <1>1, <2>1 DEF CallLoop, RunRec
  <2>2. CASE \E a \in Answers(run[r].state) : CallStep(r, a)
    BY <1>1, <2>2 DEF CallStep, RunRec
  <2>3. CASE CallPanics(r) \/ Recover(r)
    BY <1>1, <2>3 DEF CallPanics, Recover, RunRec
  <2>4. CASE ReadStatus(r)
    BY <1>1, <2>4 DEF ReadStatus, RunRec
  <2>5. CASE EnqueueAbandoned(r)
    BY <1>1, <2>5 DEF EnqueueAbandoned, RunRec
  <2> QED
    BY <1>2, <2>1, <2>2, <2>3, <2>4, <2>5
<1>3. CASE CheckError(r) \/ PushError(r)
  BY <1>1, <1>3 DEF CheckError, PushError, RunRec
<1>4. CASE Notify(r) \/ Enqueue(r)
  BY <1>1, <1>4, ZenonT(60) DEF Notify, Enqueue, RunRec
<1>5. CASE \E cur, steps, err : Leave(r, cur, steps, err)
  BY <1>1, <1>5, LeavePost
<1>6. CASE ResolveDelay(r) /\ delayedNil
  BY <1>1, <1>6 DEF ResolveDelay, RunRec
<1>7. CASE CallStartFails(r) \/ CallFails(r)
  BY <1>5, <1>7 DEF CallStartFails, CallFails
<1>8. CASE ResolveVars(r) \/ ResolveSteps(r) \/ ResolveErrHandler(r)
           \/ ResolveBreak(r) \/ ResolveContinue(r)
  BY <1>5, <1>8 DEF ResolveVars, ResolveSteps, ResolveErrHandler,
     ResolveBreak, ResolveContinue, Follow
<1>9. CASE ResolvePartial(r) \/ ResolveTermination(r) \/ ResolvePrompt(r)
           \/ (ResolveDelay(r) /\ ~delayedNil)
  BY <1>5, <1>9 DEF ResolvePartial, ResolveTermination, ResolvePrompt,
     ResolveDelay
<1>10. CASE ResolveIterator(r)
  BY <1>5, <1>10 DEF ResolveIterator, Follow
<1> QED
  BY <1>2, <1>3, <1>4, <1>6, <1>7, <1>8, <1>9, <1>10 DEF Run

\* Every step preserves the auxiliary facts.
LEMMA NextAux ==
  ASSUME Inv, Aux, [Next]_vars
  PROVE  Aux'
<1> USE DEF engineVars, stateVars, chanVars, mapVars, endVars, runVars,
            stepVars, waitVars, resumeVars, callerVars, runKeeps, workerKeeps
<1>1. TypeOK /\ run \in [RunId -> RunRec]
  BY DEF Inv, TypeOK
<1>2. ASSUME NEW r \in RunId, run[r].pc \notin {"none", "done"}, Run(r)
      PROVE  Aux'
  <2>1. started' = started
    BY <1>2, RunKeepsRest
  <2>2. IsOrdinary(run[r].state)
    BY <1>2 DEF Inv, NavigationSafe
  <2>3. nStates # 0
    BY <2>2 DEF IsOrdinary
  <2>4. started'
    BY <2>1, <2>3 DEF Aux
  <2>5. run'[r].pc = "enqueue" => run'[r].nxt # <<>>
    <3>1. CASE Notify(r)
      BY <1>1, <3>1 DEF Notify, RunRec
    <3>2. CASE Enqueue(r)
      <4>1. run[r].nxt # <<>>
        BY <3>2 DEF Enqueue, Aux
      <4>2. PICK loc \in [StateId -> Place] : Places_ok(loc)
        BY DEF Inv, Located
      <4>3. Distinct(run[r].nxt) /\ run[r].nxt \in Seq(StateId)
        BY <1>1, <4>2 DEF Places_ok, RunRec
      <4>4. Len(run[r].nxt) # 1 => Tail(run[r].nxt) # <<>>
        BY <4>1, <4>3, TailFacts
      <4>5. run'[r].pc = (IF Len(run[r].nxt) = 1 THEN "done" ELSE "enqueue")
            /\ run'[r].nxt = Tail(run[r].nxt)
        BY <1>1, <3>2 DEF Enqueue, RunRec
      <4> QED
        BY <4>4, <4>5
    <3> QED
      BY <1>1, <1>2, <3>1, <3>2, RunPcs
  <2>6. /\ nRuns' = nRuns /\ ~(r > nRuns)
        /\ \A q \in RunId : q # r => run'[q] = run[q]
    BY <1>1, <1>2, RunKeepsRest, RunPcs DEF Aux
  <2> QED
    BY <2>4, <2>5, <2>6 DEF Aux
<1>3. CASE StartRun
  <2>1. UNCHANGED <<started, nStates>>
    BY <1>3 DEF StartRun
  <2>2. ASSUME NEW q \in RunId
        PROVE  run'[q].pc = "enqueue" => run'[q].nxt # <<>>
    BY <1>1, <1>3 DEF StartRun, Aux, Idle
  <2>3. nRuns \in 0 .. MaxRuns
    BY <1>1 DEF TypeOK
  <2>4. PICK n \in Nat : n = nRuns + 1
    BY <2>3, BoundAssumption
  <2>5. nRuns' = n /\ \A q \in RunId : q # n => run'[q] = run[q]
    BY <1>1, <1>3, <2>4 DEF StartRun
  <2>6. ASSUME NEW q \in RunId, q > n
        PROVE  run'[q].pc = "none"
    <3>1. q \in Nat /\ q # n /\ q > nRuns
      BY <2>3, <2>4, <2>6, BoundAssumption DEF RunId
    <3> QED
      BY <2>5, <3>1 DEF Aux
  <2> QED
    BY <2>1, <2>2, <2>5, <2>6 DEF Aux
<1>4. CASE \E s \in Starts : Exec(s)
  BY <1>4 DEF Exec, Aux
<1>5. CASE UNCHANGED <<started, nStates, run, nRuns>>
  BY <1>5 DEF Aux
<1>6. CASE Worker /\ ~StartRun
  BY <1>5, <1>6 DEF Worker, WorkerDone, TickBegin, TickLock, TickEnd, Dequeue, FinalCheck,
     SetResult, NotifyCompleted, TakeErr, SetErr, Stop, TickEnqueue
<1>7. CASE (\E u \in Users, i \in prompted, hasInput \in BOOLEAN :
               Resume(u, i, hasInput)) \/ ResumeEnqueue \/ ResumeAbandoned
  BY <1>5, <1>7 DEF Resume, ResumeEnqueue, ResumeAbandoned
<1>8. CASE Wait \/ Waiter \/ CallerGone \/ Shutdown
           \/ (\E i \in delayed : BecomeDue(i))
           \/ (\E s \in Shared, p \in Step : ReachedElsewhere(s, p))
  BY <1>5, <1>8 DEF Wait, Waiter, WaitTick, WaitCheck, WaitTimeout, Cancel,
     CallerGone, Shutdown, BecomeDue, ReachedElsewhere
<1>9. CASE Rest \/ UNCHANGED vars
  BY <1>5, <1>9 DEF Rest, vars
<1> QED
  BY <1>2, <1>3, <1>4, <1>6, <1>7, <1>8, <1>9 DEF Next

\* The invariant holds of a session that has just been created.
LEMMA InitInv == Init => Inv /\ Aux
<1> SUFFICES ASSUME Init PROVE Inv /\ Aux
  OBVIOUS
<1>1. TypeOK
  <2>1. /\ st \in [StateId -> StateRec] /\ run \in [RunId -> RunRec]
        /\ mux \in Holder /\ sesErr \in ErrVal
    BY Values DEF Init
  <2>2. worker \in WorkerRec
    BY Values, BoundAssumption DEF Init, WorkerRec, WorkerPc
  <2>3. /\ qState \in Seq(StateId) /\ Len(qState) <= QStateCap
        /\ qErr \in Seq(ErrVal) /\ Len(qErr) <= 1
    BY BoundAssumption DEF Init
  <2>4. /\ nStates \in 0 .. MaxStates /\ nRuns \in 0 .. MaxRuns
        /\ resumer \in 0 .. MaxStates /\ nResumes \in Nat
        /\ backing \in [1 .. LoopCap -> 0 .. MaxStates]
        /\ left \in [StateId -> Nat]
    BY BoundAssumption DEF Init
  <2>5. joined \in [Step -> SUBSET (Step \cup {None, Final})]
    BY DEF Init
  <2> QED
    BY <2>1, <2>2, <2>3, <2>4, <2>5 DEF Init, TypeOK
<1>2. /\ \A i \in StateId : st[i].depth = 0
      /\ \A r \in RunId : run[r].pc = "none" /\ run[r].nxt = <<>>
  BY DEF Init, Unused, NewState, Idle
<1>3. NavigationSafe
  BY <1>2 DEF Init, NavigationSafe, AtResolve
<1>4. Located
  <2>1. PICK loc \in [StateId -> Place] : \A i \in StateId : loc[i] = Nowhere
    <3>1. [i \in StateId |-> Nowhere] \in [StateId -> Place]
      BY PlaceValues
    <3> QED
      BY <3>1
  <2>2. Places_ok(loc)
    BY <1>2, <2>1 DEF Init, Places_ok, InExecBy, Distinct
  <2> QED
    BY <2>2 DEF Located
<1>5. Aux
  BY <1>2 DEF Init, Aux
<1> QED
  BY <1>1, <1>3, <1>4, <1>5 DEF Inv

\* The inductive invariant holds in every reachable state, for every graph and
\* every number of states, goroutines and queue slots.
THEOREM Invariant == Spec => [](Inv /\ Aux)
<1>1. Inv /\ Aux /\ [Next]_vars => (Inv /\ Aux)'
  BY NextInv, NextAux
<1> QED
  BY <1>1, InitInv, PTL DEF Spec

\* Every variable keeps its type; in particular neither channel ever holds more
\* than it was made for.
THEOREM TypeCorrect == Spec => []TypeOK
<1>1. Inv /\ Aux => TypeOK
  BY DEF Inv
<1> QED
  BY <1>1, Invariant, PTL

\* No goroutine ever follows a nil step or takes a loop from an empty stack.
THEOREM Navigation == Spec => []NavigationSafe
<1>1. Inv /\ Aux => NavigationSafe
  BY DEF Inv
<1> QED
  BY <1>1, Invariant, PTL

\* A set whose members are all equal counts for at most one.
LEMMA AtMostOne ==
  ASSUME NEW S, \A x, y \in S : x = y
  PROVE  Cardinality(S) \in {0, 1} /\ (Cardinality(S) = 1 => S # {})
<1>1. CASE S = {}
  BY <1>1, FS_EmptySet
<1>2. CASE S # {}
  <2>1. PICK x : S = {x}
    BY <1>2
  <2> QED
    BY <2>1, FS_Singleton
<1> QED
  BY <1>1, <1>2

\* A state that is located is in one place.
LEMMA LocatedOnce == ASSUME Inv PROVE OnePlace
<1> SUFFICES ASSUME NEW i \in 1 .. nStates PROVE Places(i) <= 1
  BY DEF OnePlace
<1>1. TypeOK /\ i \in StateId /\ i # 0
  BY BoundAssumption, SMTT(30) DEF Inv, TypeOK, StateId
<1>2. PICK loc \in [StateId -> Place] : Places_ok(loc)
  BY DEF Inv, Located
<1> DEFINE tag == loc[i][1]
           c1 == Cardinality(InQueue(i))
           c2 == Cardinality(InNext(i))
           c3 == Cardinality(InExec(i))
           c4 == Count(worker.state = i)
           c5 == Count(i \in delayed)
           c6 == Count(i \in prompted)
           c7 == Count(resumer = i)
<1>3. c1 \in {0, 1} /\ (c1 = 1 => tag = "queue")
  <2>1. \A k \in DOMAIN qState : loc[qState[k]] = <<"queue", 0>>
    BY <1>2 DEF Places_ok
  <2>2. \A j, k \in InQueue(i) : j = k
    BY <1>2 DEF Places_ok, Distinct, InQueue
  <2>3. InQueue(i) # {} => tag = "queue"
    BY <2>1 DEF InQueue
  <2> QED
    BY <2>2, <2>3, AtMostOne
<1>4. c2 \in {0, 1} /\ (c2 = 1 => tag = "next")
  <2>1. \A r \in InNext(i) : loc[i] = <<"next", r>>
    BY <1>2 DEF Places_ok, InNext, Elems
  <2>2. \A q, r \in InNext(i) : q = r
    BY <2>1
  <2>3. InNext(i) # {} => tag = "next"
    BY <2>1
  <2> QED
    BY <2>2, <2>3, AtMostOne
<1>5. c3 \in {0, 1} /\ (c3 = 1 => tag = "exec")
  <2>1. \A r \in InExec(i) : loc[i] = <<"exec", r>>
    BY <1>2 DEF Places_ok, InExec, InExecBy
  <2>2. \A q, r \in InExec(i) : q = r
    BY <2>1
  <2>3. InExec(i) # {} => tag = "exec"
    BY <2>1
  <2> QED
    BY <2>2, <2>3, AtMostOne
<1>6. c4 \in {0, 1} /\ (c4 = 1 => tag = "worker")
  BY <1>1, <1>2 DEF Count, Places_ok
<1>7. c5 \in {0, 1} /\ (c5 = 1 => tag = "delayed")
  BY <1>2 DEF Count, Places_ok
<1>8. c6 \in {0, 1} /\ (c6 = 1 => tag = "prompted")
  BY <1>2 DEF Count, Places_ok
<1>9. c7 \in {0, 1} /\ (c7 = 1 => tag = "resumer")
  BY <1>1, <1>2 DEF Count, Places_ok
<1>10. Places(i) = c1 + c2 + c3 + c4 + c5 + c6 + c7
  BY DEF Places
<1> HIDE DEF tag, c1, c2, c3, c4, c5, c6, c7
<1> QED
  BY <1>3, <1>4, <1>5, <1>6, <1>7, <1>8, <1>9, <1>10

\* No state is queued twice, executed twice at a time, or queued while it is
\* suspended, however the goroutines, the tick, Resume and the worker
\* interleave and whatever the graph.
THEOREM OnePlaceAlways == Spec => []OnePlace
<1>1. Inv /\ Aux => OnePlace
  BY LocatedOnce
<1> QED
  BY <1>1, Invariant, PTL

-----------------------------------------------------------------------------
(* One outcome *)

\* Once there is an outcome the worker is past the point where it could start
\* a step or set another.
OutcomeInv ==
    result \/ sesErr # NoErr => worker.pc \in {"completed", "stopping", "done"}

\* A step neither moves the worker back nor replaces an outcome.
LEMMA OutcomeStep ==
  ASSUME TypeOK, OutcomeInv, [Next]_vars
  PROVE  /\ OutcomeInv'
         /\ result \/ sesErr # NoErr => UNCHANGED endVars /\ nRuns' = nRuns
<1> USE DEF engineVars, stateVars, chanVars, mapVars, endVars, runVars,
            stepVars, waitVars, resumeVars, callerVars, runKeeps, workerKeeps
<1>1. worker \in WorkerRec
  BY DEF TypeOK
<1>2. CASE UNCHANGED <<result, sesErr, worker, nRuns>>
  BY <1>2 DEF OutcomeInv
<1>3. ASSUME NEW r \in RunId, Run(r) PROVE UNCHANGED <<result, sesErr, worker, nRuns>>
  BY <1>3, RunKeepsRest
<1>4. CASE WorkerDone \/ TickBegin \/ TickLock \/ TickEnd \/ Dequeue \/ FinalCheck \/ TakeErr
           \/ StartRun
  <2>1. worker.pc \in {"loop", "ticking", "tick", "final", "acquire"}
    BY <1>4 DEF WorkerDone, TickBegin, TickLock, TickEnd, Dequeue, FinalCheck, TakeErr,
       StartRun
  <2>2. ~(result \/ sesErr # NoErr)
    BY <2>1 DEF OutcomeInv
  <2>3. UNCHANGED endVars
    BY <1>4 DEF WorkerDone, TickBegin, TickLock, TickEnd, Dequeue, FinalCheck, TakeErr,
       StartRun
  <2> QED
    BY <2>2, <2>3 DEF OutcomeInv
<1>5. CASE SetResult
  <2>1. worker.pc = "setResult" /\ worker'.pc = "completed"
    BY <1>1, <1>5 DEF SetResult, WorkerRec
  <2> QED
    BY <2>1 DEF OutcomeInv
<1>6. CASE SetErr
  <2>1. worker.pc = "setErr" /\ worker'.pc = "stopping"
    BY <1>1, <1>6 DEF SetErr, WorkerRec
  <2> QED
    BY <2>1 DEF OutcomeInv
<1>7. CASE NotifyCompleted \/ Stop
  <2>1. worker'.pc \in {"stopping", "done"} /\ UNCHANGED <<endVars, nRuns>>
    BY <1>1, <1>7 DEF NotifyCompleted, Stop, WorkerRec
  <2> QED
    BY <2>1 DEF OutcomeInv
<1>8. CASE \E i \in delayed : TickEnqueue(i)
  BY <1>2, <1>8 DEF TickEnqueue
<1>9. CASE Worker
  BY <1>4, <1>5, <1>6, <1>7, <1>8, <1>9 DEF Worker
<1>10. CASE (\E s \in Starts : Exec(s)) \/ ResumeEnqueue \/ ResumeAbandoned
            \/ (\E u \in Users, i \in prompted, hasInput \in BOOLEAN :
                   Resume(u, i, hasInput))
  BY <1>2, <1>10 DEF Exec, Resume, ResumeEnqueue, ResumeAbandoned
<1>11. CASE Wait \/ Waiter \/ CallerGone \/ Shutdown
            \/ (\E i \in delayed : BecomeDue(i))
            \/ (\E s \in Shared, p \in Step : ReachedElsewhere(s, p))
  BY <1>2, <1>11 DEF Wait, Waiter, WaitTick, WaitCheck, WaitTimeout, Cancel,
     CallerGone, Shutdown, BecomeDue, ReachedElsewhere
<1>12. CASE Rest \/ UNCHANGED vars
  BY <1>2, <1>12 DEF Rest, vars
<1> QED
  BY <1>2, <1>3, <1>9, <1>10, <1>11, <1>12 DEF Next

\* A session has one outcome: after a result or an error is set neither
\* changes and no further step is started.
THEOREM OneOutcome == Spec => OutcomeFinal
<1>1. Init => OutcomeInv
  BY DEF Init, OutcomeInv
<1>2. TypeOK /\ OutcomeInv /\ [Next]_vars => OutcomeInv'
  BY OutcomeStep
<1>3. TypeOK /\ OutcomeInv /\ [Next]_vars =>
        [result \/ sesErr # NoErr => UNCHANGED endVars /\ nRuns' = nRuns]_vars
  BY OutcomeStep
<1>4. Spec => []OutcomeInv
  BY <1>1, <1>2, TypeCorrect, PTL DEF Spec
<1> QED
  BY <1>3, <1>4, TypeCorrect, PTL DEF Spec, OutcomeFinal

-----------------------------------------------------------------------------
(* The lock *)

\* what LockDiscipline says of one goroutine
RunLock(r) ==
    /\ run[r].pc = "push" => mux = <<"run", r>>
    /\ mux = <<"run", r>> =>
          run[r].pc = "push" \/ (delayedNil /\ run[r].pc \in {"panic", "post"})

\* A goroutine that does not touch the lock, and is not in its own critical
\* section before or after, leaves the discipline intact.
LEMMA RunLockStep ==
  ASSUME TypeOK, LockDiscipline, NEW r \in RunId,
         run[r].pc \notin {"none", "done"}, Run(r)
  PROVE  LockDiscipline'
<1>1. run \in [RunId -> RunRec] /\ mux \in Holder
  BY DEF TypeOK
<1>2. UNCHANGED <<worker, resumer>>
  BY RunKeepsRest DEF callerVars, resumeVars
<1>3. \A q \in RunId : RunLock(q)
  BY DEF LockDiscipline, RunLock
<1>4. \A q \in RunId : q # r => run'[q] = run[q]
  BY RunPcs
<1>5. delayedNil => delayedNil'
  BY DEF Run, CallLoop, CallStep, CallStartFails, CallFails, CallPanics,
     Recover, ResolveVars, ResolveSteps, ResolveIterator, ResolveErrHandler,
     ResolveBreak, ResolveContinue, ResolvePartial, ResolveTermination,
     ResolveDelay, ResolvePrompt, ReadStatus, CheckError, PushError,
     EnqueueAbandoned, Notify, Enqueue, mapVars
<1>6. ASSUME mux' = mux, run'[r].pc = "push" => mux = <<"run", r>>,
             mux = <<"run", r>> => run'[r].pc = "push"
                                   \/ (delayedNil /\ run'[r].pc \in {"panic", "post"})
      PROVE  LockDiscipline'
  <2>1. ASSUME NEW q \in RunId PROVE RunLock(q)'
    <3>1. CASE q = r
      BY <1>5, <1>6, <3>1 DEF RunLock
    <3>2. CASE q # r
      BY <1>3, <1>4, <1>5, <1>6, <3>2 DEF RunLock
    <3> QED
      BY <3>1, <3>2
  <2> QED
    BY <1>2, <1>6, <2>1 DEF LockDiscipline, RunLock
<1>7. CASE CheckError(r)
  <2>1. CASE Fails(st[run[r].state])
    <3>1. mux = Free /\ mux' = <<"run", r>> /\ run'[r].pc = "push"
      BY <1>1, <1>7, <2>1 DEF CheckError, Fails, RunRec
    <3>2. ASSUME NEW q \in RunId PROVE RunLock(q)'
      <4>1. CASE q = r
        BY <3>1, <4>1 DEF RunLock
      <4>2. CASE q # r
        <5>1. run[q].pc # "push"
          BY <1>3, <3>1 DEF RunLock, Free
        <5> QED
          BY <1>4, <3>1, <4>2, <5>1 DEF RunLock
      <4> QED
        BY <4>1, <4>2
    <3>3. worker.pc # "tick" /\ resumer = 0
      BY <3>1 DEF LockDiscipline, Free
    <3> QED
      BY <1>2, <3>1, <3>2, <3>3 DEF LockDiscipline, RunLock
  <2>2. CASE ~Fails(st[run[r].state])
    <3>1. mux' = mux /\ run'[r].pc = "notify" /\ run[r].pc = "check"
      BY <1>1, <1>7, <2>2 DEF CheckError, RunRec
    <3>2. mux # <<"run", r>>
      BY <1>3, <3>1 DEF RunLock
    <3> QED
      BY <1>6, <3>1, <3>2
  <2> QED
    BY <2>1, <2>2
<1>8. CASE PushError(r)
  <2>1. mux' = Free /\ run[r].pc = "push" /\ run'[r].pc = "notify"
    BY <1>1, <1>8 DEF PushError, RunRec
  <2>2. mux = <<"run", r>>
    BY <1>3, <2>1 DEF RunLock
  <2>3. worker.pc # "tick" /\ resumer = 0
    BY <2>2 DEF LockDiscipline
  <2>4. ASSUME NEW q \in RunId PROVE RunLock(q)'
    <3>1. CASE q = r
      BY <2>1, <3>1 DEF RunLock, Free
    <3>2. CASE q # r
      <4>1. run[q].pc # "push"
        BY <1>3, <2>2, <3>2 DEF RunLock
      <4> QED
        BY <1>4, <2>1, <3>2, <4>1 DEF RunLock, Free
    <3> QED
      BY <3>1, <3>2
  <2> QED
    BY <1>2, <2>1, <2>3, <2>4 DEF LockDiscipline, RunLock, Free
<1>9. CASE ResolveDelay(r) /\ delayedNil
  <2>1. mux = Free /\ mux' = <<"run", r>> /\ run'[r].pc = "panic"
    BY <1>1, <1>9 DEF ResolveDelay, RunRec
  <2>2. ASSUME NEW q \in RunId PROVE RunLock(q)'
    <3>1. CASE q = r
      BY <1>5, <1>9, <2>1, <3>1 DEF RunLock
    <3>2. CASE q # r
      <4>1. run[q].pc # "push"
        BY <1>3, <2>1 DEF RunLock, Free
      <4> QED
        BY <1>4, <2>1, <3>2, <4>1 DEF RunLock
    <3> QED
      BY <3>1, <3>2
  <2>3. worker.pc # "tick" /\ resumer = 0
    BY <2>1 DEF LockDiscipline, Free
  <2> QED
    BY <1>2, <2>1, <2>2, <2>3 DEF LockDiscipline, RunLock
<1>10. CASE Recover(r)
  <2>1. mux' = mux /\ run[r].pc = "panic" /\ run'[r].pc = "post"
    BY <1>1, <1>10 DEF Recover, RunRec
  <2>2. mux = <<"run", r>> => delayedNil
    BY <1>3, <2>1 DEF RunLock
  <2> QED
    BY <1>6, <2>1, <2>2
<1>11. CASE ~CheckError(r) /\ ~PushError(r) /\ ~(ResolveDelay(r) /\ delayedNil)
            /\ ~Recover(r)
  <2>1. mux' = mux
    BY <1>11 DEF Run, CallLoop, CallStep, CallStartFails, CallFails, CallPanics,
       ResolveVars, ResolveSteps, ResolveIterator, ResolveErrHandler,
       ResolveBreak, ResolveContinue, ResolvePartial, ResolveTermination,
       ResolveDelay, ResolvePrompt, ReadStatus, EnqueueAbandoned, Notify, Enqueue
  <2>2. run'[r].pc # "push"
    BY <1>11, RunPcs
  <2>3. run[r].pc \notin {"push", "panic"} /\ (run[r].pc = "post" => mux = Free)
    BY <1>11 DEF Run, CallLoop, CallStep, CallStartFails, CallFails, CallPanics,
       ResolveVars, ResolveSteps, ResolveIterator, ResolveErrHandler,
       ResolveBreak, ResolveContinue, ResolvePartial, ResolveTermination,
       ResolveDelay, ResolvePrompt, ReadStatus, EnqueueAbandoned, Notify,
       Enqueue, AtResolve
  <2>4. mux # <<"run", r>>
    BY <1>3, <2>3 DEF RunLock, Free
  <2> QED
    BY <1>6, <2>1, <2>2, <2>4
<1> QED
  BY <1>7, <1>8, <1>9, <1>10, <1>11

\* Whoever else takes or releases the lock does so in its own name.
LEMMA LockStep ==
  ASSUME TypeOK, Aux, LockDiscipline, [Next]_vars
  PROVE  LockDiscipline'
<1> USE DEF engineVars, stateVars, chanVars, mapVars, endVars, runVars,
            stepVars, waitVars, resumeVars, callerVars, runKeeps, workerKeeps
<1>1. worker \in WorkerRec /\ run \in [RunId -> RunRec] /\ nRuns \in 0 .. MaxRuns
  BY DEF TypeOK
<1>2. CASE UNCHANGED <<mux, resumer, run, delayedNil>>
           /\ (worker'.pc = "tick" <=> worker.pc = "tick")
  BY <1>2 DEF LockDiscipline
<1>3. CASE TickLock
  <2>1. /\ mux = Free /\ mux' = <<"worker", 0>> /\ worker'.pc = "tick"
        /\ UNCHANGED <<resumer, run, delayedNil>>
    BY <1>1, <1>3 DEF TickLock, WorkerRec
  <2> QED
    BY <2>1 DEF LockDiscipline, Free
<1>4. CASE TickEnd
  <2>1. /\ worker.pc = "tick" /\ mux' = Free /\ worker'.pc = "loop"
        /\ UNCHANGED <<resumer, run, delayedNil>>
    BY <1>1, <1>4 DEF TickEnd, WorkerRec
  <2> QED
    BY <2>1 DEF LockDiscipline, Free
<1>5. CASE \E i \in delayed : TickEnqueue(i)
  BY <1>2, <1>5 DEF TickEnqueue
<1>6. CASE StartRun
  <2>1. PICK n \in RunId : n = nRuns + 1
    BY <1>1, <1>6, BoundAssumption DEF StartRun, RunId
  <2>2. /\ UNCHANGED <<mux, resumer, delayedNil>>
        /\ worker.pc = "acquire" /\ worker'.pc = "loop"
        /\ \A q \in RunId : q # n => run'[q] = run[q]
        /\ run'[n].pc = "call"
    BY <1>1, <1>6, <2>1 DEF StartRun, WorkerRec, Idle
  <2>3. mux # <<"run", n>>
    <3>1. run[n].pc = "none"
      BY <1>1, <2>1, BoundAssumption DEF Aux
    <3> QED
      BY <3>1 DEF LockDiscipline
  <2> QED
    BY <2>2, <2>3 DEF LockDiscipline
<1>7. CASE WorkerDone \/ TickBegin \/ Dequeue \/ FinalCheck \/ SetResult \/ NotifyCompleted
           \/ TakeErr \/ SetErr \/ Stop
  <2>1. worker'.pc # "tick" /\ worker.pc # "tick"
    BY <1>1, <1>7 DEF WorkerDone, TickBegin, Dequeue, FinalCheck, SetResult,
       NotifyCompleted, TakeErr, SetErr, Stop, WorkerRec
  <2>2. UNCHANGED <<mux, resumer, run, delayedNil>>
    BY <1>7 DEF WorkerDone, TickBegin, Dequeue, FinalCheck, SetResult,
       NotifyCompleted, TakeErr, SetErr, Stop
  <2> QED
    BY <1>2, <2>1, <2>2
<1>8. CASE ResumeEnqueue \/ ResumeAbandoned
  <2>1. /\ resumer # 0 /\ mux' = Free /\ resumer' = 0
        /\ UNCHANGED <<worker, run, delayedNil>>
    BY <1>8 DEF ResumeEnqueue, ResumeAbandoned
  <2> QED
    BY <2>1 DEF LockDiscipline, Free
<1>9. CASE \E u \in Users, i \in prompted, hasInput \in BOOLEAN :
               Resume(u, i, hasInput)
  <2>1. PICK i \in prompted : /\ mux = Free /\ mux' = <<"resumer", 0>>
                              /\ resumer' = i
                              /\ UNCHANGED <<worker, run, delayedNil>>
    BY <1>9 DEF Resume
  <2>2. i # 0
    BY DEF TypeOK, StateId
  <2> QED
    BY <2>1, <2>2 DEF LockDiscipline, Free
<1>10. CASE \E s \in Starts : Exec(s)
  BY <1>2, <1>10 DEF Exec
<1>11. CASE Wait \/ Waiter \/ CallerGone \/ Shutdown
            \/ (\E i \in delayed : BecomeDue(i))
            \/ (\E s \in Shared, p \in Step : ReachedElsewhere(s, p))
  BY <1>2, <1>11 DEF Wait, Waiter, WaitTick, WaitCheck, WaitTimeout, Cancel,
     CallerGone, Shutdown, BecomeDue, ReachedElsewhere
<1>12. CASE Rest \/ UNCHANGED vars
  BY <1>2, <1>12 DEF Rest, vars
<1> QED
  BY <1>3, <1>4, <1>5, <1>6, <1>7, <1>8, <1>9, <1>10, <1>11, <1>12, RunLockStep
  DEF Next, Worker

\* The lock is held by whoever is in a critical section that can block, by
\* nobody else, and is lost only to a panic after a termination.
THEOREM LockHeldByItsOwner == Spec => []LockDiscipline
<1>1. Init => LockDiscipline
  BY DEF Init, LockDiscipline, Free, Idle
<1>2. Inv /\ Aux /\ LockDiscipline /\ [Next]_vars => LockDiscipline'
  BY LockStep DEF Inv
<1> QED
  BY <1>1, <1>2, Invariant, PTL DEF Spec

=============================================================================
