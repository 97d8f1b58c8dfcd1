-------------------------- MODULE Triggers_proofs --------------------------
(***************************************************************************)
(* The trigger service knows every handler on the event bus, and what      *)
(* events do is what the store says after a call that was alone and        *)
(* succeeded, for any number of triggers, versions and calls at once.      *)
(***************************************************************************)
EXTENDS Triggers, FiniteSetTheorems, FunctionTheorems, TLAPS

Table == [Trigger -> Record \cup {Absent}]
Op    == {"save", "create", "load", "boot", "add", "edit"}
Place == {"read", "validate", "cache", "search", "unregister", "register", "write"}

Handled == [ptr : Handler, t : Trigger, version : Version, graph : Version]

Job == [at : Place, op : Op, t : Trigger, e : Edits, alone : BOOLEAN,
        w : Workflow \cup {Absent}, tt : Table, changed : BOOLEAN]

\* a workflow without issues converts
Converts(w) == w \in Workflow /\ (~w.issues => w.version \notin Broken)

StoreOK ==
    /\ triggers \in Table
    /\ wf = Absent \/ Converts(wf)

\* what the call of c has in hand, by how far it is
CallOK(c) ==
    LET j == job[c]
    IN  /\ j \in Job
        /\ j.op \in {"create", "add"} => j.e.what = "update"
        /\ j.op \in {"save", "add"} => wf # Absent
        /\ j.op = "edit" => j.at \in {"read", "write"} /\ triggers[j.t] # Absent
        /\ j.op = "add" => j.at \in {"read", "register", "write"}
        /\ j.op \in {"add", "edit"} /\ j.at # "read" => j.tt[j.t] \in Record
        /\ j.at = "validate" => j.w \in Workflow
        /\ j.op # "edit" /\ j.at \notin {"read", "validate"} => Converts(j.w)

JobsOK ==
    /\ job \in [Client -> Job \cup {Idle}]
    /\ \A c \in Client : job[c] # Idle => CallOK(c)

TrackedBy(R, B) ==
    /\ R \in [Trigger -> Handler \cup {Absent}] /\ B \subseteq Handled
    /\ \A h \in B : /\ R[h.t] = h.ptr /\ h.graph \notin Broken
                    /\ \A g \in B : g.t = h.t => g = h

Tracked == TrackedBy(reg, bus)

Inv == StoreOK /\ JobsOK /\ Tracked

-----------------------------------------------------------------------------
(* The operators *)

LEMMA IssuesType == \A v, S : Issues(v, S) \in BOOLEAN /\ (~Issues(v, S) => v \notin Broken)
BY DEF Issues

\* An edit of a workflow leaves a workflow, one of a trigger a trigger.
LEMMA EditedWorkflow ==
    ASSUME NEW w \in Workflow, NEW e \in Edits
    PROVE  Edited(w, e) \in Workflow
<1>1. CASE e.what = "update"
  <2>1. e.enabled \in BOOLEAN /\ e.version \in Version
    BY <1>1, EditsAssumption DEF Edit
  <2>2. QED
    BY <1>1, <2>1 DEF Edited, Workflow
<1>2. CASE e.what # "update"
  BY <1>2 DEF Edited, Workflow
<1>3. QED
  BY <1>1, <1>2

LEMMA EditedTrigger ==
    ASSUME NEW r \in Record, NEW e \in Edits
    PROVE  Edited(r, e) \in Record
<1>1. CASE e.what = "update"
  <2>1. e.enabled \in BOOLEAN /\ e.version \in Version
    BY <1>1, EditsAssumption DEF Edit
  <2>2. QED
    BY <1>1, <2>1 DEF Edited, Record
<1>2. CASE e.what # "update"
  BY <1>2 DEF Edited, Record
<1>3. QED
  BY <1>1, <1>2

LEMMA NewRecord ==
    ASSUME NEW e \in Edits, e.what = "update"
    PROVE  /\ New(e) \in Record
           /\ [enabled |-> e.enabled, deleted |-> FALSE, version |-> e.version, issues |-> FALSE] \in Workflow
<1>1. e.enabled \in BOOLEAN /\ e.version \in Version
  BY EditsAssumption DEF Edit
<1>2. QED
  BY <1>1 DEF New, Record, Workflow

\* There are addresses enough for the handlers that are registered.
LEMMA Addresses ==
    ASSUME NEW S \in SUBSET Trigger, NEW T \in SUBSET Handler, Cardinality(S) <= Cardinality(T)
    PROVE  \E f \in [S -> T] : \A t, u \in S : f[t] = f[u] => t = u
<1>1. IsFiniteSet(S) /\ IsFiniteSet(T)
  BY HandlerAssumption, FS_Subset
<1> DEFINE n == Cardinality(S)
           m == Cardinality(T)
<1>2. /\ n \in Nat /\ m \in Nat
      /\ ExistsBijection(1..n, S) /\ ExistsBijection(1..m, T)
  BY <1>1, FS_CardinalityType
<1>3. ExistsInjection(1..n, 1..m)
  BY <1>2, Fun_NatInjLeq
<1>4. ExistsInjection(S, 1..n)
  BY <1>2, Fun_ExistsBijSymmetric DEF ExistsBijection, ExistsInjection, Bijection
<1>5. ExistsInjection(1..m, T)
  BY <1>2 DEF ExistsBijection, ExistsInjection, Bijection
<1>6. ExistsInjection(S, T)
  BY <1>3, <1>4, <1>5, Fun_ExistsInjTransitive
<1>7. QED
  BY <1>6 DEF ExistsInjection, Injection, IsInjective

LEMMA PtrsGiven ==
    ASSUME NEW S \in SUBSET Trigger, Cardinality(S) <= Cardinality(unused)
    PROVE  Ptrs(S) \in [S -> Handler]
<1>1. unused \in SUBSET Handler
  BY DEF unused
<1>2. \E f \in [S -> unused] : \A t, u \in S : f[t] = f[u] => t = u
  BY <1>1, Addresses
<1>3. Ptrs(S) \in [S -> unused]
  BY <1>2 DEF Ptrs
<1>4. QED
  BY <1>1, <1>3

\* What is wanted of a workflow's triggers: one handler each, of a graph there is.
LEMMA HandlersType ==
    ASSUME NEW w \in Workflow, Converts(w), NEW tt \in Table
    PROVE  /\ Handlers(w, tt) \subseteq [t : Trigger, version : Version, graph : Version \ Broken]
           /\ \A g, h \in Handlers(w, tt) : g.t = h.t => g = h
<1>1. \A t \in Usable(tt) : t \in Trigger /\ tt[t].version \in Version
  BY DEF Usable, Enabled, Table, Record
<1>2. w.version \in Version /\ (~w.issues => w.version \notin Broken)
  BY DEF Workflow, Converts
<1>3. QED
  BY <1>1, <1>2 DEF Handlers

\* The workflow that the store asks for has the issues it has now.
LEMMA StoredType ==
    ASSUME wf = Absent \/ wf \in Workflow
    PROVE  /\ wf = Absent => Stored = Absent
           /\ wf # Absent => /\ Stored \in Workflow /\ Converts(Stored)
                              /\ Stored.enabled = wf.enabled /\ Stored.deleted = wf.deleted
                              /\ Stored.version = wf.version
                              /\ Stored.issues = Issues(wf.version, Usable(triggers))
<1>1. CASE wf = Absent
  BY <1>1 DEF Stored
<1>2. CASE wf # Absent
  <2> DEFINE i == Issues(wf.version, Usable(triggers))
  <2>1. i \in BOOLEAN /\ (~i => wf.version \notin Broken)
    BY IssuesType
  <2>2. Stored = [wf EXCEPT !.issues = i]
    BY <1>2 DEF Stored
  <2> HIDE DEF i
  <2>3. Stored \in Workflow /\ Converts(Stored) /\ Stored.enabled = wf.enabled
        /\ Stored.deleted = wf.deleted /\ Stored.version = wf.version /\ Stored.issues = i
    BY <1>2, <2>1, <2>2 DEF Workflow, Converts
  <2>4. QED
    BY <1>2, <2>3 DEF i
<1>3. QED
  BY <1>1, <1>2

\* A registration replaces handlers by handlers of the same triggers.
LEMMA RegisterTracked ==
    ASSUME Tracked, NEW w, NEW tt \in Table, NEW S \in SUBSET Trigger,
           Converts(w), registerWorkflow(w, tt, S)
    PROVE  Tracked'
<1>1. CASE UNCHANGED <<bus, reg>>
  BY <1>1 DEF Tracked
<1>2. CASE ~w.issues /\ registerTriggers(w, tt, S)
  <2> DEFINE new == {t \in S \cap Usable(tt) : Executable(w)}
             ptr == Ptrs(new)
             add == {[ptr |-> ptr[t], t |-> t, version |-> tt[t].version, graph |-> w.version] : t \in new}
             old == {h \in bus : h.ptr \notin {reg[t] : t \in S}}
  <2>1. /\ bus' = old \cup add
        /\ reg' = [t \in Trigger |-> IF t \in new THEN ptr[t] ELSE reg[t]]
        /\ Cardinality(new) <= Cardinality(unused)
    BY <1>2 DEF registerTriggers
  <2>2. new \subseteq S /\ new \in SUBSET Trigger /\ \A t \in new : tt[t].version \in Version
    BY DEF Usable, Enabled, Table, Record
  <2>3. ptr \in [new -> Handler]
    BY <2>1, <2>2, PtrsGiven
  <2>4. w.version \in Version \ Broken
    BY <1>2 DEF Converts, Workflow
  <2>5. \A h \in old : h \in bus /\ h.t \in Trigger \ S
    BY DEF Tracked, TrackedBy, Handled
  <2> HIDE DEF new, ptr, old
  <2>6. add \subseteq Handled
    BY <2>2, <2>3, <2>4 DEF Handled
  <2>7. \A h \in add : h.t \in new /\ h.ptr = ptr[h.t] /\ h.graph = w.version
                       /\ \A g \in add : g.t = h.t => g = h
    OBVIOUS
  <2> HIDE DEF add
  <2>8. reg' \in [Trigger -> Handler \cup {Absent}]
    BY <2>1, <2>3 DEF Tracked, TrackedBy
  <2>9. bus' \subseteq Handled
    BY <2>1, <2>5, <2>6 DEF Tracked, TrackedBy
  <2>10. ASSUME NEW h \in bus'
         PROVE  /\ reg'[h.t] = h.ptr /\ h.graph \notin Broken
                /\ \A g \in bus' : g.t = h.t => g = h
    <3>1. CASE h \in add
      BY <2>1, <2>2, <2>4, <2>5, <2>7, <3>1
    <3>2. CASE h \in old
      BY <2>1, <2>2, <2>5, <2>7, <3>2 DEF Tracked, TrackedBy
    <3>3. QED
      BY <2>1, <3>1, <3>2
  <2>11. QED
    BY <2>8, <2>9, <2>10 DEF Tracked, TrackedBy
<1>3. QED
  BY <1>1, <1>2 DEF registerWorkflow

LEMMA UnregisterTracked ==
    ASSUME Tracked, unregisterWorkflows
    PROVE  Tracked' /\ bus' = {}
<1>1. bus' = {}
  BY DEF unregisterWorkflows, Tracked, TrackedBy, Handled
<1>2. reg' \in [Trigger -> Handler \cup {Absent}]
  BY DEF unregisterWorkflows
<1>3. QED
  BY <1>1, <1>2 DEF Tracked, TrackedBy

-----------------------------------------------------------------------------
(* The steps *)

\* The call that a server starts with.
LEMMA BootJob ==
    ASSUME StoreOK
    PROVE  Boot \in Job /\ Boot.op = "boot" /\ Boot.at = "read"
<1>1. AnyOf \in Trigger /\ AnyEdit \in Edits
  BY CallsAssumption DEF AnyOf, AnyEdit
<1>2. QED
  BY <1>1 DEF Boot, Job, Op, Place, StoreOK, Converts

LEMMA InitInv == Init => Inv
<1> SUFFICES ASSUME Init PROVE Inv
  OBVIOUS
<1>1. PICK s \in Stores :
          /\ triggers = s.triggers
          /\ wf = IF s.wf = Absent THEN Absent
                  ELSE [enabled |-> s.wf.enabled, deleted |-> s.wf.deleted, version |-> s.wf.version,
                        issues |-> Issues(s.wf.version, Usable(s.triggers))]
  BY DEF Init
<1>2. StoreOK
  <2>1. triggers \in Table
    BY <1>1, StoresAssumption DEF Table
  <2>2. CASE s.wf = Absent
    BY <1>1, <2>1, <2>2 DEF StoreOK
  <2>3. CASE s.wf # Absent
    <3>1. s.wf \in Record
      BY <2>3, StoresAssumption
    <3>2. Converts(wf)
      BY <1>1, <2>3, <3>1, IssuesType DEF Record, Workflow, Converts
    <3>3. QED
      BY <2>1, <3>2 DEF StoreOK
  <2>4. QED
    BY <2>2, <2>3
<1>3. JobsOK
  <2>1. PICK c \in Client : job = [d \in Client |-> IF d = c THEN Boot ELSE Idle]
    BY DEF Init
  <2>2. QED
    BY <1>2, <2>1, BootJob DEF JobsOK, CallOK
<1>4. Tracked
  BY DEF Init, Tracked, TrackedBy
<1>5. QED
  BY <1>2, <1>3, <1>4 DEF Inv

LEMMA RestartInv ==
    ASSUME Inv, Restart
    PROVE  Inv'
<1>1. StoreOK'
  BY DEF Inv, StoreOK, Restart, Converts
<1>2. JobsOK'
  <2>1. PICK c \in Client : job' = [d \in Client |-> IF d = c THEN Boot ELSE Idle]
    BY DEF Restart
  <2>2. QED
    BY <2>1, BootJob DEF Inv, JobsOK, CallOK
<1>3. Tracked'
  BY DEF Restart, Tracked, TrackedBy
<1>4. QED
  BY <1>1, <1>2, <1>3 DEF Inv

LEMMA IdleIsNoJob == Idle \notin Job
BY DEF Idle, Job

\* A call that starts has nothing in hand yet; the others go on with what they have.
LEMMA CallInv ==
    ASSUME Inv, NEW c \in Client, NEW op \in Op, NEW t \in Trigger, NEW e \in Edits,
           op \in {"create", "add"} => e.what = "update",
           op \in {"save", "add"} => wf # Absent,
           op = "edit" => triggers[t] # Absent,
           Call(c, op, t, e)
    PROVE  Inv'
<1> DEFINE others == {d \in Client : job[d] # Idle}
           new    == [at |-> "read", op |-> op, t |-> t, e |-> e, alone |-> others = {},
                      w |-> wf, tt |-> triggers, changed |-> FALSE]
<1>1. UNCHANGED <<wf, triggers, cache, reg, bus>>
  BY DEF Call
<1>2. StoreOK' /\ Tracked'
  BY <1>1 DEF Inv, StoreOK, Tracked, Converts
<1>3. new \in Job
  BY DEF Job, Op, Place, Inv, StoreOK, Converts
<1>4. job' = [d \in Client |-> IF d = c THEN new
                               ELSE IF d \in others THEN [job[d] EXCEPT !.alone = FALSE] ELSE Idle]
  BY DEF Call
<1> HIDE DEF new
<1>5. ASSUME NEW d \in Client, d # c, d \in others
      PROVE  job'[d] \in Job /\ CallOK(d)'
  <2>1. CallOK(d)
    BY <1>5 DEF Inv, JobsOK
  <2>2. job'[d] = [job[d] EXCEPT !.alone = FALSE]
    BY <1>4, <1>5
  <2>3. QED
    BY <1>1, <2>1, <2>2 DEF CallOK, Job, Converts
<1>6. job'[c] \in Job /\ CallOK(c)'
  <2>1. job'[c] = new
    BY <1>4
  <2>2. QED
    BY <1>1, <1>3, <2>1 DEF CallOK, new
<1>7. ASSUME NEW d \in Client
      PROVE  job'[d] \in Job \cup {Idle} /\ (job'[d] # Idle => CallOK(d)')
  <2>1. CASE d = c
    BY <1>6, <2>1
  <2>2. CASE d # c /\ d \in others
    BY <1>5, <2>2
  <2>3. CASE d # c /\ d \notin others
    BY <1>4, <2>3
  <2>4. QED
    BY <2>1, <2>2, <2>3
<1>8. JobsOK'
  BY <1>4, <1>7 DEF JobsOK
<1>9. QED
  BY <1>2, <1>8 DEF Inv

LEMMA BeginInv ==
    ASSUME Inv, NEW c \in Client, Begin(c)
    PROVE  Inv'
<1>1. AnyOf \in Trigger /\ AnyEdit \in Edits
  BY CallsAssumption DEF AnyOf, AnyEdit
<1>2. CASE \E e \in Edits : wf # Absent /\ Call(c, "save", AnyOf, e)
  BY <1>1, <1>2, CallInv DEF Op
<1>3. CASE Call(c, "load", AnyOf, AnyEdit)
  BY <1>1, <1>3, CallInv DEF Op
<1>4. CASE \E t \in Trigger, e \in Edits : triggers[t] # Absent /\ Call(c, "edit", t, e)
  BY <1>4, CallInv DEF Op
<1>5. CASE \E e \in Creates : wf = Absent /\ Call(c, "create", AnyOf, e)
  BY <1>1, <1>5, CallInv DEF Op, Creates
<1>6. CASE \E t \in Trigger, e \in Creates : wf # Absent /\ Call(c, "add", t, e)
  BY <1>6, CallInv DEF Op, Creates
<1>7. QED
  BY <1>2, <1>3, <1>4, <1>5, <1>6 DEF Begin

\* What a step of c alone changes is in its own hands.
LEMMA OwnStep ==
    ASSUME Inv, NEW c \in Client, NEW j, job' = [job EXCEPT ![c] = j],
           UNCHANGED triggers, UNCHANGED wf, UNCHANGED <<bus, reg>> \/ Tracked',
           j = Idle \/ (job'[c] \in Job /\ CallOK(c)')
    PROVE  Inv'
<1>1. StoreOK' /\ Tracked'
  BY DEF Inv, StoreOK, Tracked, Converts
<1>2. \A d \in Client : job'[d] = IF d = c THEN j ELSE job[d]
  BY DEF Inv, JobsOK
<1>3. ASSUME NEW d \in Client, d # c, job'[d] # Idle PROVE CallOK(d)'
  BY <1>2, <1>3 DEF Inv, JobsOK, CallOK, Converts
<1>4. JobsOK'
  BY <1>2, <1>3 DEF Inv, JobsOK
<1>5. QED
  BY <1>1, <1>4 DEF Inv

LEMMA ReadInv ==
    ASSUME Inv, NEW c \in Client, Read(c)
    PROVE  Inv'
<1> DEFINE j == job[c]
           w == CASE j.op = "save"   -> Edited(wf, j.e)
                  [] j.op = "create" -> [enabled |-> j.e.enabled, deleted |-> FALSE,
                                         version |-> j.e.version, issues |-> FALSE]
                  [] OTHER -> wf
           tt == CASE j.op = "edit" -> [triggers EXCEPT ![j.t] = Edited(@, j.e)]
                   [] j.op = "add"  -> [triggers EXCEPT ![j.t] = New(j.e)]
                   [] OTHER -> triggers
           to == CASE j.op = "add" -> "register" [] j.op = "edit" -> "write" [] OTHER -> "validate"
           k  == [j EXCEPT !.at = to, !.w = w, !.tt = tt, !.changed = (w # wf \/ tt # triggers)]
<1>1. j # Idle /\ j.at = "read" /\ CallOK(c) /\ j \in Job
  BY DEF Read, At, Inv, JobsOK, CallOK
<1>2. UNCHANGED <<wf, triggers, bus, reg>>
  BY DEF Read
<1>3. CASE Done(c)
  BY <1>2, <1>3, OwnStep DEF Done
<1>4. CASE job' = [job EXCEPT ![c] = k] /\ (j.op \in {"load", "boot"} => wf # Absent)
  <2>1. triggers \in Table /\ (wf = Absent \/ Converts(wf))
    BY DEF Inv, StoreOK
  <2>2. j.op \in Op /\ j.e \in Edits /\ j.t \in Trigger
    BY <1>1 DEF Job
  <2>3. /\ j.op = "save" => w \in Workflow
        /\ j.op = "create" => w \in Workflow
        /\ j.op \in {"load", "boot"} => w \in Workflow
        /\ j.op = "add" => Converts(w)
        /\ w \in Workflow \cup {Absent}
    <3>1. CASE j.op = "save"
      BY <1>1, <2>1, <2>2, <3>1, EditedWorkflow DEF CallOK, Converts
    <3>2. CASE j.op = "create"
      BY <1>1, <2>2, <3>2, NewRecord DEF CallOK
    <3>3. CASE j.op \notin {"save", "create"}
      BY <1>1, <1>4, <2>1, <3>3 DEF CallOK, Converts
    <3>4. QED
      BY <3>1, <3>2, <3>3
  <2>4. tt \in Table /\ (j.op \in {"add", "edit"} => tt[j.t] \in Record)
    <3>1. CASE j.op = "edit"
      <4>1. triggers[j.t] \in Record
        BY <1>1, <2>1, <2>2, <3>1 DEF CallOK, Table
      <4>2. QED
        BY <2>1, <2>2, <3>1, <4>1, EditedTrigger DEF Table
    <3>2. CASE j.op = "add"
      BY <1>1, <2>1, <2>2, <3>2, NewRecord DEF CallOK, Table
    <3>3. CASE j.op \notin {"edit", "add"}
      BY <2>1, <3>3
    <3>4. QED
      BY <3>1, <3>2, <3>3
  <2>5. to = IF j.op = "add" THEN "register" ELSE IF j.op = "edit" THEN "write" ELSE "validate"
    OBVIOUS
  <2>6. (w # wf \/ tt # triggers) \in BOOLEAN
    OBVIOUS
  <2> HIDE DEF w, tt, to
  <2>7. /\ k \in Job /\ k.op = j.op /\ k.e = j.e /\ k.t = j.t /\ k.at = to /\ k.w = w /\ k.tt = tt
    BY <1>1, <2>3, <2>4, <2>5, <2>6 DEF Job, Place
  <2>8. job'[c] = k
    BY <1>4 DEF Inv, JobsOK
  <2> HIDE DEF k
  <2>9. CallOK(c)'
    BY <1>1, <1>2, <2>2, <2>3, <2>4, <2>5, <2>7, <2>8 DEF CallOK, Op, Converts
  <2>10. QED
    BY <1>2, <1>4, <2>7, <2>8, <2>9, OwnStep
<1>5. QED
  BY <1>3, <1>4 DEF Read, Loads

\* Past its validation a call has a workflow that converts or has issues.
LEMMA ValidateInv ==
    ASSUME Inv, NEW c \in Client, Validate(c) \/ ValidateFails(c)
    PROVE  Inv'
<1> DEFINE j == job[c]
           good == [j EXCEPT !.at = "cache", !.w.issues = Issues(j.w.version, Usable(triggers))]
           bad  == j.w.version \in Broken
           gone == [j EXCEPT !.at = "search", !.alone = FALSE, !.w.issues = bad]
<1>1. j # Idle /\ j.at = "validate" /\ CallOK(c) /\ j \in Job /\ j.w \in Workflow
  BY DEF Validate, ValidateFails, At, Inv, JobsOK, CallOK
<1>2. UNCHANGED <<wf, triggers, bus, reg>>
  BY DEF Validate, ValidateFails
<1>3. /\ good \in Job /\ good.op = j.op /\ good.e = j.e /\ good.t = j.t /\ good.at = "cache"
      /\ Converts(good.w)
  BY <1>1, IssuesType DEF Job, Place, Workflow, Converts
<1>4. /\ gone \in Job /\ gone.op = j.op /\ gone.e = j.e /\ gone.t = j.t /\ gone.at = "search"
      /\ Converts(gone.w)
  <2>1. bad \in BOOLEAN /\ (~bad => j.w.version \notin Broken)
    OBVIOUS
  <2> HIDE DEF bad
  <2>2. QED
    BY <1>1, <2>1 DEF Job, Place, Workflow, Converts
<1>5. ASSUME NEW k, k \in {good, gone}, job' = [job EXCEPT ![c] = k]
      PROVE  Inv'
  <2>1. job'[c] = k
    BY <1>5 DEF Inv, JobsOK
  <2>2. /\ k \in Job /\ k.op = j.op /\ k.e = j.e /\ k.t = j.t /\ k.at \in {"cache", "search"}
        /\ Converts(k.w)
    BY <1>3, <1>4, <1>5
  <2> HIDE DEF good, gone
  <2>3. CallOK(c)'
    BY <1>1, <1>2, <2>1, <2>2 DEF CallOK, Converts
  <2>4. QED
    BY <1>2, <1>5, <2>1, <2>2, <2>3, OwnStep
<1>6. CASE Done(c)
  BY <1>2, <1>6, OwnStep DEF Done
<1>7. CASE job' = [job EXCEPT ![c] = good]
  BY <1>5, <1>7
<1>8. CASE job' = [job EXCEPT ![c] = gone]
  BY <1>5, <1>8
<1>9. QED
  BY <1>6, <1>7, <1>8 DEF Validate, ValidateFails

\* A call that goes on from here has the same in hand.
LEMMA GoesInv ==
    ASSUME Inv, NEW c \in Client, NEW to \in Place, At(c, job[c].at), Goes(c, to),
           job[c].op # "edit", job[c].op = "add" => to = "write", job[c].at \notin {"read", "validate"}, to \notin {"read", "validate"},
           UNCHANGED triggers, UNCHANGED wf, UNCHANGED <<bus, reg>> \/ Tracked'
    PROVE  Inv'
<1> DEFINE j == job[c]
           k == [j EXCEPT !.at = to]
<1>1. CallOK(c) /\ j \in Job
  BY DEF At, Inv, JobsOK, CallOK
<1>2. k \in Job /\ k.op = j.op /\ k.e = j.e /\ k.t = j.t /\ k.at = to /\ k.w = j.w /\ k.tt = j.tt
  BY <1>1 DEF Job
<1>3. job' = [job EXCEPT ![c] = k]
  BY DEF Goes
<1>4. job'[c] = k
  BY <1>3 DEF Inv, JobsOK
<1> HIDE DEF k
<1>5. CallOK(c)'
  BY <1>1, <1>2, <1>4 DEF CallOK, Converts
<1>6. QED
  BY <1>2, <1>3, <1>4, <1>5, OwnStep

LEMMA CacheInv ==
    ASSUME Inv, NEW c \in Client, updateCache(c)
    PROVE  Inv'
<1>1. job[c].at = "cache" /\ job[c].op \notin {"add", "edit"}
  BY DEF updateCache, At, Inv, JobsOK, CallOK
<1>2. PICK to \in {"search", "write"} : Goes(c, to)
  BY DEF updateCache
<1>3. QED
  BY <1>1, <1>2, GoesInv DEF updateCache, At, Place

LEMMA SearchInv ==
    ASSUME Inv, NEW c \in Client, Search(c)
    PROVE  Inv'
<1> DEFINE j == job[c]
           k == [j EXCEPT !.at = "unregister", !.tt = triggers]
<1>1. CallOK(c) /\ j \in Job /\ j.at = "search" /\ j.op # "edit"
  BY DEF Search, At, Inv, JobsOK, CallOK
<1>2. k \in Job /\ k.op = j.op /\ k.e = j.e /\ k.t = j.t /\ k.at = "unregister" /\ k.w = j.w
      /\ j.op # "add"
  BY <1>1 DEF Job, Place, CallOK, Inv, StoreOK
<1>3. job' = [job EXCEPT ![c] = k] /\ UNCHANGED <<wf, triggers, bus, reg>>
  BY DEF Search
<1>4. job'[c] = k
  BY <1>3 DEF Inv, JobsOK
<1> HIDE DEF k
<1>5. CallOK(c)'
  BY <1>1, <1>2, <1>3, <1>4 DEF CallOK, Converts
<1>6. QED
  BY <1>2, <1>3, <1>4, <1>5, OwnStep

LEMMA UnregisterInv ==
    ASSUME Inv, NEW c \in Client, Unregister(c)
    PROVE  Inv'
<1>1. job[c].at = "unregister" /\ job[c].op \notin {"add", "edit"}
  BY DEF Unregister, At, Inv, JobsOK, CallOK
<1>2. Tracked'
  BY UnregisterTracked DEF Unregister, Inv
<1>3. PICK to \in {"register", "write"} : Goes(c, to)
  BY DEF Unregister
<1>4. QED
  BY <1>1, <1>2, <1>3, GoesInv DEF Unregister, At, Place

LEMMA RegisterInv ==
    ASSUME Inv, NEW c \in Client, Register(c)
    PROVE  Inv'
<1> DEFINE j == job[c]
           S == IF j.op = "add" THEN {j.t} ELSE Enabled(j.tt)
<1>1. CallOK(c) /\ j \in Job /\ j.at = "register" /\ j.op # "edit" /\ Converts(j.w)
  BY DEF Register, At, Inv, JobsOK, CallOK
<1>2. S \in SUBSET Trigger
  BY <1>1 DEF Job, Enabled
<1>3. registerWorkflow(j.w, j.tt, S)
  BY DEF Register
<1>4. Tracked'
  BY <1>1, <1>2, <1>3, RegisterTracked DEF Inv, Job
<1>5. QED
  BY <1>1, <1>4, GoesInv DEF Register, At, Place

LEMMA FailsInv ==
    ASSUME Inv, NEW c \in Client, Fails(c)
    PROVE  Inv'
BY OwnStep DEF Fails, Done

\* What is written converts or has issues; no workflow or trigger vanishes.
LEMMA WriteInv ==
    ASSUME Inv, NEW c \in Client, Write(c)
    PROVE  Inv'
<1> DEFINE j == job[c]
<1>1. CallOK(c) /\ j \in Job /\ j.at = "write"
  BY DEF Write, At, Inv, JobsOK, CallOK
<1>2. /\ wf' = IF j.op = "create" \/ (j.op = "save" /\ (j.changed \/ j.w.issues)) THEN j.w ELSE wf
      /\ triggers' = IF j.op = "add" \/ (j.op = "edit" /\ j.changed)
                     THEN [triggers EXCEPT ![j.t] = j.tt[j.t]] ELSE triggers
      /\ UNCHANGED <<bus, reg>>
      /\ job' = [job EXCEPT ![c] = Idle]
  BY DEF Write, Written, Done
<1>3. wf' = wf \/ Converts(wf')
  BY <1>1, <1>2 DEF CallOK, Converts
<1>4. wf' = Absent \/ Converts(wf')
  BY <1>3 DEF Inv, StoreOK, Converts
<1>5. triggers' \in Table
  BY <1>1, <1>2 DEF Inv, StoreOK, Job, Table
<1>6. StoreOK' /\ Tracked'
  BY <1>2, <1>4, <1>5 DEF Inv, StoreOK, Tracked
<1>7. /\ wf # Absent => wf' # Absent
      /\ \A t \in Trigger : triggers[t] # Absent => triggers'[t] # Absent
  <2>1. wf # Absent => wf' # Absent
    BY <1>3, AbsentAssumption DEF Converts
  <2>2. CASE j.op \in {"add", "edit"}
    <3>1. j.tt[j.t] # Absent
      BY <1>1, <2>2, AbsentAssumption DEF CallOK
    <3>2. QED
      BY <1>1, <1>2, <2>1, <3>1 DEF Inv, StoreOK, Table, Job
  <2>3. CASE j.op \notin {"add", "edit"}
    BY <1>2, <2>1, <2>3
  <2>4. QED
    BY <2>2, <2>3
<1>8. ASSUME NEW d \in Client, job'[d] # Idle
      PROVE  CallOK(d)'
  <2>1. d # c /\ job'[d] = job[d] /\ CallOK(d)
    BY <1>2, <1>8 DEF Inv, JobsOK
  <2>2. job[d].t \in Trigger
    BY <2>1 DEF CallOK, Job
  <2>3. QED
    BY <1>7, <2>1, <2>2 DEF CallOK, Converts
<1>9. JobsOK'
  BY <1>2, <1>8 DEF Inv, JobsOK
<1>10. QED
  BY <1>6, <1>9 DEF Inv

LEMMA NextInv == Inv /\ [Next]_vars => Inv'
<1> SUFFICES ASSUME Inv, [Next]_vars PROVE Inv'
  OBVIOUS
<1>1. CASE UNCHANGED vars
  <2>1. StoreOK' /\ Tracked'
    BY <1>1 DEF vars, Inv, StoreOK, Tracked, Converts
  <2>2. JobsOK'
    BY <1>1 DEF vars, Inv, JobsOK, CallOK, Converts
  <2>3. QED
    BY <2>1, <2>2 DEF Inv
<1>2. CASE Restart
  BY <1>2, RestartInv
<1>3. ASSUME NEW c \in Client, Begin(c) PROVE Inv'
  BY <1>3, BeginInv
<1>4. ASSUME NEW c \in Client, Step(c) PROVE Inv'
  BY <1>4, ReadInv, ValidateInv, CacheInv, SearchInv, UnregisterInv, RegisterInv, WriteInv, FailsInv DEF Step
<1>5. QED
  BY <1>1, <1>2, <1>3, <1>4 DEF Next

\* Calls that overlap, fail or are cut off by a restart keep the invariant.
THEOREM Invariance == Spec => []Inv
BY InitInv, NextInv, PTL DEF Spec

\* No handler is on the event bus that the trigger service has lost, or that
\* would run a workflow that does not convert (trigger.go:408-466).
THEOREM RegistrationsTracked == Spec => []RegTracksBus
<1>1. Inv => RegTracksBus
  BY DEF Inv, Tracked, TrackedBy, RegTracksBus
<1>2. QED
  BY <1>1, Invariance, PTL

-----------------------------------------------------------------------------
(* Types *)

MemoryOK ==
    /\ cache \in [version : Version, graph : BOOLEAN] \cup {Absent}
    /\ calls \in 0..MaxCalls /\ synced \in BOOLEAN

LEMMA ItemType ==
    ASSUME NEW w \in Workflow
    PROVE  Item(w) \in [version : Version, graph : BOOLEAN] \cup {Absent}
<1> DEFINE g == w.version \notin Broken
<1>1. g \in BOOLEAN /\ w.version \in Version
  BY DEF Workflow
<1>2. Item(w) = IF Executable(w) THEN [version |-> w.version, graph |-> g] ELSE Absent
  BY DEF Item
<1> HIDE DEF g
<1>3. QED
  BY <1>1, <1>2

LEMMA MemoryNext == Inv /\ MemoryOK /\ [Next]_vars => MemoryOK'
<1> SUFFICES ASSUME Inv, MemoryOK, [Next]_vars PROVE MemoryOK'
  OBVIOUS
<1>1. CASE UNCHANGED vars
  BY <1>1 DEF vars, MemoryOK
<1>2. CASE Restart
  BY <1>2 DEF Restart, MemoryOK
<1>3. ASSUME NEW c \in Client, Begin(c) PROVE MemoryOK'
  <2>1. /\ calls < MaxCalls /\ calls' = calls + 1 /\ cache' = cache
        /\ synced' = (synced /\ {d \in Client : job[d] # Idle} = {})
    BY <1>3 DEF Begin, Call
  <2>2. synced' \in BOOLEAN
    BY <2>1 DEF MemoryOK
  <2>3. QED
    BY <2>1, <2>2, CallsAssumption DEF MemoryOK
<1>4. ASSUME NEW c \in Client, updateCache(c) PROVE MemoryOK'
  <2>1. job[c].w \in Workflow
    BY <1>4 DEF updateCache, At, Inv, JobsOK, CallOK, Converts
  <2>2. QED
    BY <1>4, <2>1, ItemType DEF updateCache, MemoryOK
<1>5. ASSUME NEW c \in Client, Fails(c) PROVE MemoryOK'
  <2>1. synced' \in BOOLEAN
    BY <1>5 DEF Fails
  <2>2. QED
    BY <1>5, <2>1 DEF Fails, MemoryOK
<1>6. ASSUME NEW c \in Client, Write(c) PROVE MemoryOK'
  <2>1. job[c].alone \in BOOLEAN
    BY <1>6 DEF Write, At, Inv, JobsOK, Job
  <2>2. synced' \in BOOLEAN
    BY <1>6, <2>1 DEF Write
  <2>3. QED
    BY <1>6, <2>2 DEF Write, MemoryOK
<1>7. ASSUME NEW c \in Client, Read(c) PROVE MemoryOK'
  <2>1. job[c].alone \in BOOLEAN
    BY <1>7 DEF Read, At, Inv, JobsOK, Job
  <2>2. synced' \in BOOLEAN
    BY <1>7, <2>1 DEF Read, MemoryOK
  <2>3. QED
    BY <1>7, <2>2 DEF Read, MemoryOK
<1>8. ASSUME NEW c \in Client,
             Validate(c) \/ ValidateFails(c) \/ Search(c) \/ Unregister(c) \/ Register(c)
      PROVE  MemoryOK'
  BY <1>8 DEF Validate, ValidateFails, Search, Unregister, Register, MemoryOK
<1>9. QED
  BY <1>1, <1>2, <1>3, <1>4, <1>5, <1>6, <1>7, <1>8 DEF Next, Step

\* What the store, the cache, the registrations and the calls hold
\* (workflow.go:516-530, trigger.go:518-610).
THEOREM TypeCorrect == Spec => []TypeOK
<1>1. Init => MemoryOK
  <2>1. ASSUME Init PROVE MemoryOK
    <3>1. cache = Absent
      BY <2>1 DEF Init
    <3>2. calls \in 0..MaxCalls
      <4>1. calls = 0
        BY <2>1 DEF Init
      <4>2. QED
        BY <4>1, CallsAssumption
    <3>3. synced \in BOOLEAN
      BY <2>1 DEF Init
    <3>4. QED
      BY <3>1, <3>2, <3>3 DEF MemoryOK
  <2>2. QED
    BY <2>1
<1>2. Inv /\ MemoryOK => TypeOK
  <2>1. ASSUME Inv, MemoryOK PROVE TypeOK
    <3>1. wf \in Workflow \cup {Absent} /\ triggers \in [Trigger -> Record \cup {Absent}]
      BY <2>1 DEF Inv, StoreOK, Converts, Table
    <3>2. /\ reg \in [Trigger -> Handler \cup {Absent}]
          /\ bus \subseteq [ptr : Handler, t : Trigger, version : Version, graph : Version]
      BY <2>1 DEF Inv, Tracked, TrackedBy, Handled
    <3>3. ASSUME NEW c \in Client, job[c] # Idle
          PROVE  /\ job[c].op \in {"save", "create", "load", "boot", "add", "edit"} /\ job[c].t \in Trigger
                 /\ job[c].at \in {"read", "validate", "cache", "search", "unregister", "register", "write"}
      BY <2>1, <3>3 DEF Inv, JobsOK, Job, Op, Place
    <3>4. QED
      BY <2>1, <3>1, <3>2, <3>3 DEF MemoryOK, TypeOK
  <2>2. QED
    BY <2>1
<1>3. QED
  BY <1>1, <1>2, MemoryNext, Invariance, InitInv, NextInv, PTL DEF Spec

-----------------------------------------------------------------------------
(* The mirror of the store *)

Active(c) == job[c] # Idle
Only(c)   == \A d \in Client : Active(d) => d = c

Served(w, tt) == {Wanted(h) : h \in bus} = Handlers(w, tt)
Mirror        == cache = StoredItem /\ {Wanted(h) : h \in bus} = StoredHandlers

\* the workflows are the same but for the issues found
Like(w, v) == w.enabled = v.enabled /\ w.deleted = v.deleted /\ w.version = v.version

\* what a call that has been alone so far knows of the store, and has done
AloneOK(c) ==
    LET j == job[c]
    IN  j.alone =>
          /\ Only(c)
          /\ j.op = "boot" /\ j.at = "read" => cache = Absent /\ bus = {}
          /\ (j.op \in {"load", "boot"} \/ (j.op = "save" /\ ~j.changed)) /\ j.at # "read" => wf # Absent /\ Like(j.w, wf)
          /\ j.op \in {"save", "create", "load", "boot"} /\ j.at \notin {"read", "validate"} =>
                /\ j.w.issues = Issues(j.w.version, Usable(triggers))
                /\ j.at # "cache" /\ (j.op \in {"load", "boot"} \/ ~j.w.issues) => cache = Item(j.w)
                /\ j.at \in {"unregister", "register"} => j.tt = triggers
                /\ j.at = "register" => bus = {} /\ Executable(j.w) /\ ~j.w.issues
                /\ j.at = "write" /\ (j.op \in {"load", "boot"} \/ ~j.w.issues) => Served(j.w, triggers)

\* what holds of the only call while the mirror was true before it
SyncOK(c) ==
    LET j == job[c]
    IN  synced =>
          /\ Only(c)
          /\ \/ j.at \in {"read", "validate", "cache"} \/ j.op = "edit"
             \/ j.op = "add" /\ j.at = "register"
             => Mirror
          /\ j.op = "add" => triggers[j.t] = Absent
          /\ j.op = "add" /\ j.at \in {"read", "register"} => reg[j.t] = Absent
          /\ j.op = "add" /\ j.at # "read" => j.w = wf /\ j.tt = [triggers EXCEPT ![j.t] = j.tt[j.t]]
          /\ j.op = "add" /\ j.at = "write" /\ ~j.w.issues /\ ~Issues(j.w.version, Usable(j.tt)) =>
                cache = Item(j.w) /\ Served(j.w, j.tt)

MirrorInv ==
    /\ \A c \in Client : Active(c) => AloneOK(c) /\ SyncOK(c)
    /\ Quiet /\ synced => Mirror

-----------------------------------------------------------------------------
(* The operators *)

\* A workflow that is like the stored one, with the issues that it has now,
\* has the handlers the store asks for.
LEMMA LikeStored ==
    ASSUME wf \in Workflow, NEW w \in Workflow, Like(w, wf),
           w.issues = Issues(w.version, Usable(triggers)),
           cache = Item(w), Served(w, triggers)
    PROVE  Mirror
<1>1. wf # Absent
  BY AbsentAssumption
<1>2. Stored.enabled = w.enabled /\ Stored.deleted = w.deleted /\ Stored.version = w.version
      /\ Stored.issues = w.issues
  BY <1>1, StoredType DEF Like
<1>3. Handlers(Stored, triggers) = Handlers(w, triggers)
  BY <1>2 DEF Handlers, Executable
<1>4. StoredItem = Item(w)
  BY <1>1 DEF StoredItem, Item, Executable, Like
<1>5. QED
  BY <1>1, <1>3, <1>4 DEF Mirror, Served, StoredHandlers

\* The same after a step.
LEMMA LikeStoredNext ==
    ASSUME wf' \in Workflow, NEW w \in Workflow, Like(w, wf'),
           w.issues = Issues(w.version, Usable(triggers')),
           cache' = Item(w), {Wanted(h) : h \in bus'} = Handlers(w, triggers')
    PROVE  Mirror'
<1>1. wf' # Absent
  BY AbsentAssumption
<1>2. /\ Stored' = [wf' EXCEPT !.issues = w.issues]
      /\ w.issues \in BOOLEAN
  BY <1>1 DEF Stored, Like, Workflow
<1>3. Stored'.enabled = w.enabled /\ Stored'.deleted = w.deleted /\ Stored'.version = w.version
      /\ Stored'.issues = w.issues
  BY <1>2 DEF Workflow, Like
<1>4. Handlers(Stored', triggers') = Handlers(w, triggers')
  BY <1>3 DEF Handlers, Executable
<1>5. StoredItem' = Item(w)
  BY <1>1 DEF StoredItem, Item, Executable, Like
<1>6. QED
  BY <1>1, <1>4, <1>5 DEF Mirror, StoredHandlers

\* Conversely, what the store asks for is what such a workflow has.
LEMMA StoredLike ==
    ASSUME wf \in Workflow, Mirror, ~wf.issues, ~Issues(wf.version, Usable(triggers))
    PROVE  cache = Item(wf) /\ Served(wf, triggers)
<1>1. wf # Absent
  BY AbsentAssumption
<1>2. Stored.enabled = wf.enabled /\ Stored.deleted = wf.deleted /\ Stored.version = wf.version
      /\ ~Stored.issues
  BY <1>1, StoredType
<1>3. Handlers(Stored, triggers) = Handlers(wf, triggers)
  BY <1>2 DEF Handlers, Executable
<1>4. QED
  BY <1>1, <1>3 DEF Mirror, StoredItem, StoredHandlers, Served

\* Registered with nothing on the bus, every usable trigger gets its handler.
LEMMA RegisterServes ==
    ASSUME bus = {}, NEW w, NEW tt \in Table, ~w.issues, Executable(w),
           registerTriggers(w, tt, Enabled(tt))
    PROVE  {Wanted(h) : h \in bus'} = Handlers(w, tt)
<1> DEFINE F(t) == [ptr |-> Ptrs(Usable(tt))[t], t |-> t, version |-> tt[t].version, graph |-> w.version]
<1>1. {t \in Enabled(tt) \cap Usable(tt) : Executable(w)} = Usable(tt)
  BY DEF Usable
<1>2. bus' = {F(t) : t \in Usable(tt)}
  BY <1>1 DEF registerTriggers
<1>3. \A t \in Usable(tt) : Wanted(F(t)) = [t |-> t, version |-> tt[t].version, graph |-> w.version]
  BY DEF Wanted
<1> HIDE DEF F
<1>4. QED
  BY <1>2, <1>3 DEF Handlers

\* A trigger that is new to the bus is registered beside the others.
LEMMA AddServes ==
    ASSUME Tracked, NEW w, NEW t \in Trigger, NEW r \in Record, triggers \in Table,
           ~w.issues, Served(w, triggers), triggers[t] = Absent, reg[t] = Absent,
           registerTriggers(w, [triggers EXCEPT ![t] = r], {t})
    PROVE  {Wanted(h) : h \in bus'} = Handlers(w, [triggers EXCEPT ![t] = r])
<1> DEFINE tt  == [triggers EXCEPT ![t] = r]
           new == {u \in {t} \cap Usable(tt) : Executable(w)}
           F(u) == [ptr |-> Ptrs(new)[u], t |-> u, version |-> tt[u].version, graph |-> w.version]
           G(u) == [t |-> u, version |-> tt[u].version, graph |-> w.version]
<1>1. bus' = {h \in bus : h.ptr \notin {reg[u] : u \in {t}}} \cup {F(u) : u \in new}
  BY DEF registerTriggers
<1>2. {h \in bus : h.ptr \notin {reg[u] : u \in {t}}} = bus
  BY HandlerAssumption DEF Tracked, TrackedBy, Handled
<1>3. \A u \in new : Wanted(F(u)) = G(u)
  BY DEF Wanted
<1>4. Usable(tt) = Usable(triggers) \cup ({t} \cap Usable(tt))
  BY DEF Usable, Enabled, Table
<1>5. \A u \in Usable(triggers) : tt[u] = triggers[u]
  BY DEF Usable, Enabled, Table
<1>6. Handlers(w, triggers) = IF Executable(w) THEN {G(u) : u \in Usable(triggers)} ELSE {}
  BY <1>5 DEF Handlers
<1>7. Handlers(w, tt) = IF Executable(w) THEN {G(u) : u \in Usable(tt)} ELSE {}
  BY DEF Handlers
<1>8. new = IF Executable(w) THEN {t} \cap Usable(tt) ELSE {}
  OBVIOUS
<1> HIDE DEF tt, new, F, G
<1>9. {Wanted(h) : h \in bus'} = {Wanted(h) : h \in bus} \cup {G(u) : u \in new}
  BY <1>1, <1>2, <1>3
<1>10. {Wanted(h) : h \in bus} = Handlers(w, triggers)
  BY DEF Served
<1>11. {Wanted(h) : h \in bus'} = Handlers(w, tt)
  BY <1>4, <1>6, <1>7, <1>8, <1>9, <1>10
<1>12. QED
  BY <1>11 DEF tt

-----------------------------------------------------------------------------
(* The steps *)

\* A server that starts has nothing in memory and one call, which knows nothing yet.
LEMMA MirrorInit == Init => MirrorInv
<1> SUFFICES ASSUME Init PROVE MirrorInv
  OBVIOUS
<1>1. PICK c \in Client : job = [d \in Client |-> IF d = c THEN Boot ELSE Idle]
  BY DEF Init
<1>2. Boot.at = "read" /\ Boot.op = "boot"
  BY DEF Boot
<1>3. \A d \in Client : Active(d) => d = c /\ job[d] = Boot
  BY <1>1 DEF Active
<1>4. cache = Absent /\ bus = {} /\ ~synced
  BY DEF Init
<1>5. QED
  BY <1>2, <1>3, <1>4 DEF MirrorInv, AloneOK, SyncOK, Only

LEMMA MirrorRestart ==
    ASSUME Restart
    PROVE  MirrorInv'
<1>1. PICK c \in Client : job' = [d \in Client |-> IF d = c THEN Boot ELSE Idle]
  BY DEF Restart
<1>2. Boot.at = "read" /\ Boot.op = "boot"
  BY DEF Boot
<1>3. \A d \in Client : Active(d)' => d = c /\ job'[d] = Boot
  BY <1>1 DEF Active
<1>4. cache' = Absent /\ bus' = {} /\ ~synced'
  BY DEF Restart
<1>5. QED
  BY <1>2, <1>3, <1>4 DEF MirrorInv, AloneOK, SyncOK, Only

\* What a step of c leaves true of the others: there are none when it counts.
LEMMA MirrorOwn ==
    ASSUME Inv, MirrorInv, NEW c \in Client, Active(c), NEW k, job' = [job EXCEPT ![c] = k],
           synced' => synced \/ job[c].alone,
           k = Idle => (synced' => Mirror'),
           k # Idle => AloneOK(c)' /\ SyncOK(c)'
    PROVE  MirrorInv'
<1>1. \A d \in Client : job'[d] = IF d = c THEN k ELSE job[d]
  BY DEF Inv, JobsOK
<1>2. synced' => Only(c)
  BY DEF MirrorInv, AloneOK, SyncOK
<1>3. ASSUME NEW d \in Client, d # c, Active(d)'
      PROVE  AloneOK(d)' /\ SyncOK(d)'
  <2>1. Active(d) /\ job'[d] = job[d]
    BY <1>1, <1>3 DEF Active
  <2>2. ~job[d].alone
    BY <1>3, <2>1 DEF MirrorInv, AloneOK, Only
  <2>3. ~synced'
    BY <1>2, <1>3, <2>1 DEF Only
  <2>4. QED
    BY <2>1, <2>2, <2>3 DEF AloneOK, SyncOK
<1>4. Quiet' /\ synced' => Mirror'
  BY <1>1 DEF Quiet
<1>5. QED
  BY <1>1, <1>3, <1>4 DEF MirrorInv, Active

\* One who is the only one stays so.
LEMMA OnlyKept ==
    ASSUME Inv, NEW c \in Client, Only(c), NEW k, job' = [job EXCEPT ![c] = k]
    PROVE  Only(c)'
<1>1. \A d \in Client : job'[d] = IF d = c THEN k ELSE job[d]
  BY DEF Inv, JobsOK
<1>2. QED
  BY <1>1 DEF Only, Active

LEMMA MirrorKept ==
    ASSUME UNCHANGED <<wf, triggers, cache, bus>>
    PROVE  Mirror' = Mirror
BY DEF Mirror, StoredItem, StoredHandlers, Stored

\* A workflow that is not there or disabled has nothing in memory.
LEMMA NothingOn ==
    ASSUME StoreOK, wf = Absent \/ ~wf.enabled, cache = Absent, bus = {}
    PROVE  Mirror
<1>1. StoredItem = Absent
  BY DEF StoredItem, Item, Executable
<1>2. wf # Absent => Stored.enabled = wf.enabled
  BY StoredType DEF StoreOK, Converts
<1>3. StoredHandlers = {}
  BY <1>2 DEF StoredHandlers, Handlers, Executable
<1>4. QED
  BY <1>1, <1>3 DEF Mirror

LEMMA MirrorCall ==
    ASSUME Inv, MirrorInv, NEW c \in Client, NEW op \in Op, NEW t \in Trigger, NEW e \in Edits,
           op = "add" => triggers[t] = Absent /\ reg[t] = Absent, op # "boot",
           Call(c, op, t, e)
    PROVE  MirrorInv'
<1> DEFINE others == {d \in Client : job[d] # Idle}
           new    == [at |-> "read", op |-> op, t |-> t, e |-> e, alone |-> others = {},
                      w |-> wf, tt |-> triggers, changed |-> FALSE]
<1>1. UNCHANGED <<wf, triggers, cache, reg, bus>> /\ synced' = (synced /\ others = {}) /\ job[c] = Idle
  BY DEF Call
<1>2. job' = [d \in Client |-> IF d = c THEN new
                               ELSE IF d \in others THEN [job[d] EXCEPT !.alone = FALSE] ELSE Idle]
  BY DEF Call
<1>3. /\ new.at = "read" /\ new.op = op /\ new.t = t /\ (new.alone <=> others = {}) /\ new # Idle
  BY DEF Idle
<1> HIDE DEF new
<1>4. others = {} => Only(c)' /\ Quiet
  BY <1>2 DEF Only, Active, Quiet
<1>5. job'[c] = new
  BY <1>2
<1>6. AloneOK(c)'
  BY <1>3, <1>4, <1>5 DEF AloneOK
<1>7. synced' => Mirror'
  BY <1>1, <1>4, MirrorKept DEF MirrorInv
<1>8. SyncOK(c)'
  BY <1>1, <1>3, <1>4, <1>5, <1>7 DEF SyncOK
<1>9. ASSUME NEW d \in Client, d # c, Active(d)'
      PROVE  AloneOK(d)' /\ SyncOK(d)'
  <2>1. d \in others
    BY <1>2, <1>9 DEF Active
  <2>2. job[d] \in Job
    BY <2>1 DEF Inv, JobsOK
  <2>3. job'[d] = [job[d] EXCEPT !.alone = FALSE]
    BY <1>2, <1>9, <2>1
  <2>4. ~job'[d].alone
    BY <2>2, <2>3 DEF Job
  <2>5. ~synced'
    BY <1>1, <2>1
  <2>6. QED
    BY <2>4, <2>5 DEF AloneOK, SyncOK
<1>10. ~Quiet'
  BY <1>3, <1>5 DEF Quiet
<1>11. QED
  BY <1>6, <1>8, <1>9, <1>10 DEF MirrorInv

LEMMA MirrorBegin ==
    ASSUME Inv, MirrorInv, NEW c \in Client, Begin(c)
    PROVE  MirrorInv'
<1>1. AnyOf \in Trigger /\ AnyEdit \in Edits
  BY CallsAssumption DEF AnyOf, AnyEdit
<1>2. CASE \E e \in Edits : Call(c, "save", AnyOf, e)
  BY <1>1, <1>2, MirrorCall DEF Op
<1>3. CASE Call(c, "load", AnyOf, AnyEdit)
  BY <1>1, <1>3, MirrorCall DEF Op
<1>4. CASE \E t \in Trigger, e \in Edits : Call(c, "edit", t, e)
  BY <1>4, MirrorCall DEF Op
<1>5. CASE \E e \in Creates : Call(c, "create", AnyOf, e)
  BY <1>1, <1>5, MirrorCall DEF Op, Creates
<1>6. CASE \E t \in Trigger, e \in Creates : triggers[t] = Absent /\ reg[t] = Absent /\ Call(c, "add", t, e)
  BY <1>6, MirrorCall DEF Op, Creates
<1>7. QED
  BY <1>2, <1>3, <1>4, <1>5, <1>6 DEF Begin

LEMMA MirrorRead ==
    ASSUME Inv, MirrorInv, NEW c \in Client, Read(c)
    PROVE  MirrorInv'
<1> DEFINE j == job[c]
           w == CASE j.op = "save"   -> Edited(wf, j.e)
                  [] j.op = "create" -> [enabled |-> j.e.enabled, deleted |-> FALSE,
                                         version |-> j.e.version, issues |-> FALSE]
                  [] OTHER -> wf
           tt == CASE j.op = "edit" -> [triggers EXCEPT ![j.t] = Edited(@, j.e)]
                   [] j.op = "add"  -> [triggers EXCEPT ![j.t] = New(j.e)]
                   [] OTHER -> triggers
           to == CASE j.op = "add" -> "register" [] j.op = "edit" -> "write" [] OTHER -> "validate"
           ch == w # wf \/ tt # triggers
           k  == [j EXCEPT !.at = to, !.w = w, !.tt = tt, !.changed = ch]
<1>1. Active(c) /\ j.at = "read" /\ CallOK(c) /\ j \in Job /\ AloneOK(c) /\ SyncOK(c)
  BY DEF Read, At, Active, Inv, JobsOK, CallOK, MirrorInv
<1>2. UNCHANGED <<wf, triggers, cache, reg, bus>>
  BY DEF Read
<1>3. synced => Mirror /\ Mirror'
  BY <1>1, <1>2, MirrorKept DEF SyncOK
<1>4. CASE /\ Done(c) /\ (wf = Absent \/ ~wf.enabled)
           /\ synced' = (synced \/ (j.op = "boot" /\ j.alone))
  <2>1. j.op = "boot" /\ j.alone => Mirror
    BY <1>1, <1>4, NothingOn DEF AloneOK, Inv
  <2>2. synced' => Mirror'
    BY <1>2, <1>3, <1>4, <2>1, MirrorKept
  <2>3. QED
    BY <1>1, <1>4, <2>2, MirrorOwn DEF Done
<1>5. CASE /\ UNCHANGED synced
           /\ job' = [job EXCEPT ![c] = k] /\ (j.op \in {"load", "boot"} => wf # Absent)
  <2>1. /\ j.op \in {"load", "boot"} => w = wf
        /\ j.op = "add" => w = wf /\ tt = [triggers EXCEPT ![j.t] = New(j.e)]
        /\ j.op = "save" /\ ~ch => w = wf
    OBVIOUS
  <2>2. to = IF j.op = "add" THEN "register" ELSE IF j.op = "edit" THEN "write" ELSE "validate"
    OBVIOUS
  <2>3. ch \in BOOLEAN
    OBVIOUS
  <2> HIDE DEF w, tt, to, ch
  <2>4. /\ k.op = j.op /\ k.t = j.t /\ k.at = to /\ k.w = w /\ k.tt = tt /\ k.alone = j.alone
        /\ k.changed = ch
    BY <1>1 DEF Job
  <2> HIDE DEF k
  <2>5. job'[c] = k
    BY <1>5 DEF Inv, JobsOK
  <2>6. Only(c) => Only(c)'
    BY <1>5, OnlyKept
  <2>7. AloneOK(c)'
    BY <1>1, <1>2, <1>5, <2>1, <2>2, <2>4, <2>5, <2>6 DEF AloneOK, Like, CallOK
  <2>8. j.op = "add" => tt = [triggers EXCEPT ![j.t] = tt[j.t]]
    BY <1>1, <2>1 DEF Inv, StoreOK, Table, Job
  <2>9. SyncOK(c)'
    BY <1>1, <1>2, <1>3, <1>5, <2>1, <2>2, <2>4, <2>5, <2>6, <2>8 DEF SyncOK
  <2>10. QED
    BY <1>1, <1>2, <1>3, <1>5, <2>7, <2>9, MirrorOwn
<1>6. QED
  BY <1>4, <1>5 DEF Read, Loads

LEMMA MirrorValidate ==
    ASSUME Inv, MirrorInv, NEW c \in Client, Validate(c) \/ ValidateFails(c)
    PROVE  MirrorInv'
<1> DEFINE j == job[c]
           i    == Issues(j.w.version, Usable(triggers))
           good == [j EXCEPT !.at = "cache", !.w.issues = i]
           bad  == j.w.version \in Broken
           gone == [j EXCEPT !.at = "search", !.alone = FALSE, !.w.issues = bad]
<1>1. Active(c) /\ j.at = "validate" /\ CallOK(c) /\ j \in Job /\ j.w \in Workflow /\ AloneOK(c) /\ SyncOK(c)
      /\ j.op \notin {"add", "edit"}
  BY DEF Validate, ValidateFails, At, Active, Inv, JobsOK, CallOK, MirrorInv
<1>2. UNCHANGED <<wf, triggers, cache, reg, bus, synced>>
  BY DEF Validate, ValidateFails
<1>3. synced => Mirror /\ Mirror'
  BY <1>1, <1>2, MirrorKept DEF SyncOK
<1>4. CASE Done(c)
  BY <1>1, <1>2, <1>3, <1>4, MirrorOwn DEF Done
<1>5. CASE job' = [job EXCEPT ![c] = good]
  <2> HIDE DEF i
  <2>1. /\ good.op = j.op /\ good.t = j.t /\ good.at = "cache" /\ good.alone = j.alone /\ good.changed = j.changed
        /\ Like(good.w, j.w) /\ good.w.version = j.w.version /\ good.w.issues = i
    BY <1>1 DEF Job, Workflow, Like
  <2> HIDE DEF good
  <2>2. job'[c] = good
    BY <1>5 DEF Inv, JobsOK
  <2>3. Only(c) => Only(c)'
    BY <1>5, OnlyKept
  <2>4. good.w.issues = Issues(good.w.version, Usable(triggers'))
    BY <1>2, <2>1 DEF i
  <2>5. AloneOK(c)'
    BY <1>1, <1>2, <2>1, <2>2, <2>3, <2>4 DEF AloneOK, Like
  <2>6. SyncOK(c)'
    BY <1>1, <1>2, <1>3, <2>1, <2>2, <2>3 DEF SyncOK
  <2>7. QED
    BY <1>1, <1>2, <1>3, <1>5, <2>5, <2>6, MirrorOwn
<1>6. CASE job' = [job EXCEPT ![c] = gone]
  <2> HIDE DEF bad
  <2>1. gone.op = j.op /\ gone.at = "search" /\ ~gone.alone
    BY <1>1 DEF Job
  <2> HIDE DEF gone
  <2>2. job'[c] = gone
    BY <1>6 DEF Inv, JobsOK
  <2>3. Only(c) => Only(c)'
    BY <1>6, OnlyKept
  <2>4. AloneOK(c)' /\ SyncOK(c)'
    BY <1>1, <1>2, <2>1, <2>2, <2>3 DEF AloneOK, SyncOK
  <2>5. QED
    BY <1>1, <1>2, <1>3, <1>6, <2>4, MirrorOwn
<1>7. QED
  BY <1>4, <1>5, <1>6 DEF Validate, ValidateFails

\* A call on its way through the cache and the bus, in the steps of registerWorkflows.
LEMMA MirrorGoes ==
    ASSUME Inv, MirrorInv, NEW c \in Client, Active(c), NEW to \in Place, Goes(c, to),
           job[c].at \notin {"read", "validate"}, to \notin {"read", "validate", "cache"},
           job[c].op \notin {"add", "edit"}, UNCHANGED <<wf, triggers, synced>>,
           LET j == job[c]
           IN  j.alone /\ AloneOK(c) =>
                   /\ j.op \in {"load", "boot"} \/ ~j.w.issues => cache' = Item(j.w)
                   /\ to \in {"unregister", "register"} => j.tt = triggers
                   /\ to = "register" => bus' = {} /\ Executable(j.w) /\ ~j.w.issues
                   /\ to = "write" /\ (j.op \in {"load", "boot"} \/ ~j.w.issues) =>
                          {Wanted(h) : h \in bus'} = Handlers(j.w, triggers)
    PROVE  MirrorInv'
<1> DEFINE j == job[c]
           k == [j EXCEPT !.at = to]
<1>1. j \in Job /\ AloneOK(c) /\ SyncOK(c) /\ CallOK(c)
  BY DEF Active, Inv, JobsOK, CallOK, MirrorInv
<1>2. k.op = j.op /\ k.t = j.t /\ k.at = to /\ k.w = j.w /\ k.tt = j.tt /\ k.alone = j.alone /\ k.changed = j.changed
  BY <1>1 DEF Job
<1>3. job' = [job EXCEPT ![c] = k]
  BY DEF Goes
<1>4. job'[c] = k
  BY <1>3 DEF Inv, JobsOK
<1> HIDE DEF k
<1>5. Only(c) => Only(c)'
  BY <1>3, OnlyKept
<1>6. AloneOK(c)'
  BY <1>1, <1>2, <1>4, <1>5 DEF AloneOK, Served, Like
<1>7. SyncOK(c)'
  BY <1>1, <1>2, <1>4, <1>5 DEF SyncOK
<1>8. k # Idle
  BY <1>2 DEF Idle, Place
<1>9. QED
  BY <1>3, <1>6, <1>7, <1>8, MirrorOwn

\* What is known of a call at one of the steps of registerWorkflows.
LEMMA AtStep ==
    ASSUME Inv, MirrorInv, NEW c \in Client, NEW at \in Place, At(c, at)
    PROVE  /\ Active(c) /\ job[c].at = at /\ job[c] \in Job /\ CallOK(c) /\ AloneOK(c) /\ SyncOK(c)
           /\ at \in {"cache", "search", "unregister"} => job[c].op \notin {"add", "edit"}
           /\ at = "register" => job[c].op # "edit"
BY DEF At, Active, Inv, JobsOK, CallOK, MirrorInv

LEMMA MirrorCache ==
    ASSUME Inv, MirrorInv, NEW c \in Client, updateCache(c)
    PROVE  MirrorInv'
<1>1. At(c, "cache") /\ cache' = Item(job[c].w) /\ UNCHANGED <<wf, triggers, synced>>
  BY DEF updateCache
<1>2. PICK to \in {"search", "write"} :
          Goes(c, to) /\ (to = "write" => ~Loads(c) /\ job[c].w.issues)
  BY DEF updateCache
<1>3. QED
  BY <1>1, <1>2, AtStep, MirrorGoes DEF Place, Loads

LEMMA MirrorSearch ==
    ASSUME Inv, MirrorInv, NEW c \in Client, Search(c)
    PROVE  MirrorInv'
<1> DEFINE j == job[c]
           k == [j EXCEPT !.at = "unregister", !.tt = triggers]
<1>1. Active(c) /\ j.at = "search" /\ j \in Job /\ CallOK(c) /\ AloneOK(c) /\ SyncOK(c) /\ j.op \notin {"add", "edit"}
  BY AtStep DEF Search, Place
<1>2. UNCHANGED <<wf, triggers, cache, reg, bus, synced>> /\ job' = [job EXCEPT ![c] = k]
  BY DEF Search
<1>3. k.op = j.op /\ k.at = "unregister" /\ k.w = j.w /\ k.tt = triggers /\ k.alone = j.alone /\ k.changed = j.changed
  BY <1>1 DEF Job
<1>4. job'[c] = k
  BY <1>2 DEF Inv, JobsOK
<1> HIDE DEF k
<1>5. Only(c) => Only(c)'
  BY <1>2, OnlyKept
<1>6. AloneOK(c)' /\ SyncOK(c)'
  BY <1>1, <1>2, <1>3, <1>4, <1>5 DEF AloneOK, SyncOK, Like
<1>7. k # Idle
  BY <1>3 DEF Idle
<1>8. QED
  BY <1>1, <1>2, <1>6, <1>7, MirrorOwn

LEMMA MirrorUnregister ==
    ASSUME Inv, MirrorInv, NEW c \in Client, Unregister(c)
    PROVE  MirrorInv'
<1> DEFINE j == job[c]
<1>1. At(c, "unregister") /\ UNCHANGED <<wf, triggers, cache, synced>>
  BY DEF Unregister
<1>2. bus' = {}
  BY UnregisterTracked DEF Unregister, Inv
<1>3. PICK to \in {"register", "write"} :
          Goes(c, to) /\ (to = "register" <=> Executable(j.w) /\ ~j.w.issues)
  BY DEF Unregister
<1>4. to = "write" => {Wanted(h) : h \in bus'} = Handlers(j.w, triggers)
  BY <1>2, <1>3 DEF Handlers
<1>5. Active(c) /\ j.at = "unregister" /\ j.op \notin {"add", "edit"} /\ j.op \in Op
  BY <1>1, AtStep DEF Place, Job
<1>6. j.alone /\ AloneOK(c) =>
          /\ j.op \in {"load", "boot"} \/ ~j.w.issues => cache' = Item(j.w)
          /\ j.tt = triggers
  BY <1>1, <1>5 DEF AloneOK, Op
<1>7. QED
  BY <1>1, <1>2, <1>3, <1>4, <1>5, <1>6, MirrorGoes DEF Place

LEMMA MirrorRegister ==
    ASSUME Inv, MirrorInv, NEW c \in Client, Register(c), job[c].op # "add"
    PROVE  MirrorInv'
<1> DEFINE j == job[c]
<1>1. At(c, "register") /\ UNCHANGED <<wf, triggers, cache, synced>> /\ Goes(c, "write")
      /\ registerWorkflow(j.w, j.tt, Enabled(j.tt))
  BY DEF Register
<1>2. Active(c) /\ j.at = "register" /\ j.op \notin {"add", "edit"} /\ j \in Job /\ j.op \in Op
  BY <1>1, AtStep DEF Place, Job
<1>3. ASSUME j.alone, AloneOK(c)
      PROVE  /\ j.op \in {"load", "boot"} \/ ~j.w.issues => cache' = Item(j.w)
             /\ {Wanted(h) : h \in bus'} = Handlers(j.w, triggers)
  <2>1. /\ bus = {} /\ Executable(j.w) /\ ~j.w.issues /\ j.tt = triggers /\ cache = Item(j.w)
        /\ j.w.issues = Issues(j.w.version, Usable(triggers))
    BY <1>2, <1>3 DEF AloneOK, Op
  <2>2. Enabled(j.tt) \cap Usable(j.tt) = Usable(j.tt)
    BY DEF Usable
  <2>3. ~validateWorkflowTriggers(j.w.version, Enabled(j.tt) \cap Usable(j.tt))
    BY <2>1, <2>2 DEF Issues
  <2>4. registerTriggers(j.w, j.tt, Enabled(j.tt))
    BY <1>1, <2>1, <2>3 DEF registerWorkflow, Executable
  <2>5. j.tt \in Table
    BY <1>2 DEF Job
  <2>6. {Wanted(h) : h \in bus'} = Handlers(j.w, j.tt)
    BY <2>1, <2>4, <2>5, RegisterServes
  <2>7. QED
    BY <1>1, <2>1, <2>6
<1>4. QED
  BY <1>1, <1>2, <1>3, MirrorGoes DEF Place

\* Create registers its trigger beside those that are there.
LEMMA MirrorAdd ==
    ASSUME Inv, MirrorInv, NEW c \in Client, Register(c), job[c].op = "add"
    PROVE  MirrorInv'
<1> DEFINE j == job[c]
           k == [j EXCEPT !.at = "write"]
<1>1. At(c, "register") /\ UNCHANGED <<wf, triggers, cache, synced>> /\ Goes(c, "write")
      /\ registerWorkflow(j.w, j.tt, {j.t})
  BY DEF Register
<1>2. Active(c) /\ j.at = "register" /\ j \in Job /\ CallOK(c) /\ AloneOK(c) /\ SyncOK(c)
  BY <1>1, AtStep DEF Place
<1>3. k.op = j.op /\ k.t = j.t /\ k.at = "write" /\ k.w = j.w /\ k.tt = j.tt /\ k.alone = j.alone
  BY <1>2 DEF Job
<1>4. job' = [job EXCEPT ![c] = k]
  BY <1>1 DEF Goes
<1>5. job'[c] = k
  BY <1>4 DEF Inv, JobsOK
<1> HIDE DEF k
<1>6. Only(c) => Only(c)'
  BY <1>4, OnlyKept
<1>7. AloneOK(c)'
  BY <1>2, <1>3, <1>5, <1>6 DEF AloneOK
<1>8. ASSUME synced, ~j.w.issues, ~Issues(j.w.version, Usable(j.tt))
      PROVE  cache' = Item(j.w) /\ {Wanted(h) : h \in bus'} = Handlers(j.w, j.tt)
  <2>1. /\ Mirror /\ j.w = wf /\ j.tt = [triggers EXCEPT ![j.t] = j.tt[j.t]]
        /\ triggers[j.t] = Absent /\ reg[j.t] = Absent
    BY <1>2, <1>8 DEF SyncOK
  <2>2. wf \in Workflow /\ j.t \in Trigger /\ j.tt[j.t] \in Record /\ triggers \in Table
    BY <1>2, <2>1 DEF CallOK, Inv, StoreOK, Converts, Job
  <2>3. Usable(triggers) \subseteq Usable(j.tt)
    BY <2>1, <2>2 DEF Usable, Enabled, Table
  <2>4. ~Issues(wf.version, Usable(triggers))
    BY <1>8, <2>1, <2>3 DEF Issues, validateWorkflowTriggers
  <2>5. cache = Item(wf) /\ Served(wf, triggers)
    BY <1>8, <2>1, <2>2, <2>4, StoredLike
  <2>6. CASE ~wf.enabled
    <3>1. bus' = bus
      BY <1>1, <2>1, <2>6 DEF registerWorkflow
    <3>2. Handlers(wf, triggers) = {} /\ Handlers(wf, j.tt) = {}
      BY <2>6 DEF Handlers, Executable
    <3>3. QED
      BY <1>1, <2>1, <2>5, <3>1, <3>2 DEF Served
  <2>7. CASE wf.enabled
    <3>1. {j.t} \cap Usable(j.tt) \subseteq Usable(j.tt)
      OBVIOUS
    <3>2. ~validateWorkflowTriggers(j.w.version, {j.t} \cap Usable(j.tt))
      BY <1>8, <3>1 DEF Issues, validateWorkflowTriggers
    <3>3. registerTriggers(wf, j.tt, {j.t})
      BY <1>1, <1>8, <2>1, <2>7, <3>2 DEF registerWorkflow
    <3>4. registerTriggers(wf, [triggers EXCEPT ![j.t] = j.tt[j.t]], {j.t})
      BY <2>1, <3>3
    <3>5. Tracked /\ ~wf.issues
      BY <1>8, <2>1 DEF Inv
    <3>6. {Wanted(h) : h \in bus'} = Handlers(wf, [triggers EXCEPT ![j.t] = j.tt[j.t]])
      <4> DEFINE t == j.t
                 r == j.tt[j.t]
      <4>1. /\ t \in Trigger /\ r \in Record /\ triggers[t] = Absent /\ reg[t] = Absent
            /\ registerTriggers(wf, [triggers EXCEPT ![t] = r], {t})
        BY <2>1, <2>2, <3>4
      <4> HIDE DEF t, r
      <4>2. {Wanted(h) : h \in bus'} = Handlers(wf, [triggers EXCEPT ![t] = r])
        BY <2>2, <2>5, <3>5, <4>1, AddServes
      <4>3. QED
        BY <4>2 DEF t, r
    <3>7. QED
      BY <1>1, <2>1, <2>5, <3>6
  <2>8. QED
    BY <2>6, <2>7
<1>9. SyncOK(c)'
  BY <1>1, <1>2, <1>3, <1>5, <1>6, <1>8 DEF SyncOK, Served
<1>10. k # Idle
  BY <1>3 DEF Idle
<1>11. QED
  BY <1>1, <1>2, <1>4, <1>7, <1>9, <1>10, MirrorOwn

LEMMA MirrorFails ==
    ASSUME Inv, MirrorInv, NEW c \in Client, Fails(c)
    PROVE  MirrorInv'
<1>1. Active(c) /\ SyncOK(c)
  BY DEF Fails, At, Active, MirrorInv
<1>2. job' = [job EXCEPT ![c] = Idle] /\ synced' = (synced /\ job[c].op = "edit")
  BY DEF Fails, Done
<1>3. synced' => Mirror'
  BY <1>1, <1>2, MirrorKept DEF Fails, SyncOK
<1>4. QED
  BY <1>1, <1>2, <1>3, MirrorOwn

LEMMA MirrorWrite ==
    ASSUME Inv, MirrorInv, NEW c \in Client, Write(c)
    PROVE  MirrorInv'
<1> DEFINE j == job[c]
<1>1. Active(c) /\ j.at = "write" /\ j \in Job /\ CallOK(c) /\ AloneOK(c) /\ SyncOK(c) /\ j.op \in Op
  BY AtStep DEF Write, Place, Job
<1>2. /\ wf' = IF j.op = "create" \/ (j.op = "save" /\ (j.changed \/ j.w.issues)) THEN j.w ELSE wf
      /\ triggers' = IF j.op = "add" \/ (j.op = "edit" /\ j.changed)
                     THEN [triggers EXCEPT ![j.t] = j.tt[j.t]] ELSE triggers
      /\ UNCHANGED <<cache, reg, bus>>
      /\ job' = [job EXCEPT ![c] = Idle]
  BY DEF Write, Written, Done
<1>3. StoreOK'
  BY WriteInv DEF Inv
<1>4. CASE j.op = "add"
  <2>1. synced' => synced /\ ~j.w.issues /\ ~Issues(j.w.version, Usable(triggers'))
    BY <1>4 DEF Write, Loads
  <2>2. ASSUME synced' PROVE Mirror'
    <3>1. j.w = wf /\ j.tt = [triggers EXCEPT ![j.t] = j.tt[j.t]]
      BY <1>1, <1>4, <2>1, <2>2 DEF SyncOK
    <3>2. triggers' = j.tt /\ wf' = wf /\ wf \in Workflow
      BY <1>1, <1>2, <1>4, <3>1 DEF CallOK, Inv, StoreOK, Converts
    <3>3. cache = Item(wf) /\ Served(wf, triggers') /\ ~wf.issues /\ ~Issues(wf.version, Usable(triggers'))
      BY <1>1, <1>4, <2>1, <2>2, <3>1, <3>2 DEF SyncOK
    <3>4. wf.issues = Issues(wf.version, Usable(triggers'))
      BY <3>2, <3>3, IssuesType DEF Workflow
    <3>5. QED
      BY <1>2, <3>2, <3>3, <3>4, LikeStoredNext DEF Like, Served
  <2>3. QED
    BY <1>1, <1>2, <2>1, <2>2, MirrorOwn
<1>5. CASE j.op = "edit"
  <2>1. synced' = (synced /\ triggers' = triggers)
    BY <1>5 DEF Write, Loads
  <2>2. ASSUME synced' PROVE Mirror'
    BY <1>1, <1>2, <1>5, <2>1, <2>2, MirrorKept DEF SyncOK
  <2>3. QED
    BY <1>1, <1>2, <2>1, <2>2, MirrorOwn
<1>6. CASE j.op \in {"save", "create", "load", "boot"}
  <2>1. synced' => j.alone /\ (j.op \in {"load", "boot"} \/ ~j.w.issues)
    BY <1>6 DEF Write, Loads
  <2>2. ASSUME synced' PROVE Mirror'
    <3>1. /\ j.w.issues = Issues(j.w.version, Usable(triggers)) /\ cache = Item(j.w) /\ Served(j.w, triggers)
          /\ (j.op \in {"load", "boot"} \/ (j.op = "save" /\ ~j.changed)) => wf # Absent /\ Like(j.w, wf)
      BY <1>1, <1>6, <2>1, <2>2 DEF AloneOK
    <3>2. triggers' = triggers
      BY <1>2, <1>6
    <3>3. j.w \in Workflow
      BY <1>1, <1>6 DEF CallOK, Converts
    <3>4. wf' \in Workflow /\ Like(j.w, wf')
      BY <1>2, <1>6, <2>1, <2>2, <3>1, <3>3 DEF Like, Inv, StoreOK, Converts
    <3>5. QED
      BY <1>2, <3>1, <3>2, <3>3, <3>4, LikeStoredNext DEF Served
  <2>3. QED
    BY <1>1, <1>2, <2>1, <2>2, MirrorOwn
<1>7. QED
  BY <1>1, <1>4, <1>5, <1>6 DEF Op

LEMMA MirrorNext == Inv /\ MirrorInv /\ [Next]_vars => MirrorInv'
<1> SUFFICES ASSUME Inv, MirrorInv, [Next]_vars PROVE MirrorInv'
  OBVIOUS
<1>1. CASE UNCHANGED vars
  BY <1>1, MirrorKept DEF vars, MirrorInv, AloneOK, SyncOK, Only, Active, Served, Like, Quiet
<1>2. CASE Restart
  BY <1>2, MirrorRestart
<1>3. ASSUME NEW c \in Client, Begin(c) PROVE MirrorInv'
  BY <1>3, MirrorBegin
<1>4. ASSUME NEW c \in Client, Step(c) PROVE MirrorInv'
  BY <1>4, MirrorRead, MirrorValidate, MirrorCache, MirrorSearch, MirrorUnregister, MirrorRegister, MirrorAdd,
     MirrorFails, MirrorWrite DEF Step
<1>5. QED
  BY <1>1, <1>2, <1>3, <1>4 DEF Next

\* After a call that neither failed nor overlapped with another, the bus and
\* the cache are what the store asks for (workflow.go:309-364, 491-516,
\* trigger.go:188-243).
THEOREM StoreMirrored == Spec => []BusMirrorsStore
<1>1. Init => Inv /\ MirrorInv
  BY InitInv, MirrorInit
<1>2. Inv /\ MirrorInv /\ [Next]_vars => Inv' /\ MirrorInv'
  BY NextInv, MirrorNext
<1>3. MirrorInv => BusMirrorsStore
  BY DEF MirrorInv, Mirror, BusMirrorsStore
<1>4. QED
  BY <1>1, <1>2, <1>3, PTL DEF Spec
=============================================================================
