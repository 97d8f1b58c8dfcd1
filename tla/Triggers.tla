------------------------------ MODULE Triggers ------------------------------
(***************************************************************************)
(* A workflow, its triggers and the handlers they have on the event bus    *)
(* (automation/service/workflow.go and trigger.go): the store, the cache   *)
(* of converted workflows, and the registrations, kept in step by calls    *)
(* that touch them one after the other, with no lock over all of them and  *)
(* only partly inside the store's transaction.                             *)
(*                                                                         *)
(* All of this is kept per workflow, so the module has one.  A transaction *)
(* that fails is over: the retry of the store is another call.             *)
(***************************************************************************)
EXTENDS Naturals, FiniteSets, TLC

CONSTANTS
    Absent,     \* no workflow, no trigger, no handler
    Client,     \* goroutines that call the services
    Trigger,
    Version,    \* of the steps and paths of a workflow, of the event and step of a trigger
    Broken,     \* versions of the workflow that do not convert to a graph
    NoRunAs,    \* pairs of a workflow's version and a trigger that needs a run-as user it lacks
    Edits,      \* changes that calls make to a workflow or a trigger
    Stores,     \* states of the store when the server starts
    Handler,    \* addresses of handlers
    MaxCalls    \* bound on the calls

Record   == [enabled : BOOLEAN, deleted : BOOLEAN, version : Version]
Workflow == [enabled : BOOLEAN, deleted : BOOLEAN, version : Version, issues : BOOLEAN]
Edit     == [what : {"delete", "undelete"}] \cup [what : {"update"}, enabled : BOOLEAN, version : Version]

ASSUME StoresAssumption ==
    \A s \in Stores : s.wf \in Record \cup {Absent} /\ s.triggers \in [Trigger -> Record \cup {Absent}]
ASSUME AbsentAssumption == Absent \notin Record /\ Absent \notin Workflow
ASSUME EditsAssumption == Edits \subseteq Edit /\ Broken \subseteq Version
ASSUME HandlerAssumption ==
    /\ IsFiniteSet(Trigger) /\ IsFiniteSet(Handler) /\ Absent \notin Handler
    /\ Cardinality(Trigger) <= Cardinality(Handler)
ASSUME CallsAssumption == MaxCalls \in Nat /\ Trigger # {} /\ \E e \in Edits : e.what = "update"

VARIABLES
    wf,        \* the workflow in the store, with the issues found when it was saved
    triggers,  \* the triggers in the store
    cache,     \* svc.cache of the workflow service: a version with or without a graph
    reg,       \* svc.reg of the trigger service: the handler of a trigger, or Absent
    bus,       \* the handlers on the event bus
    job,       \* [Client -> the call it is in]
    calls,     \* number of calls so far
    synced     \* ghost: the last calls leave the bus and the cache as the store is

vars == <<wf, triggers, cache, reg, bus, job, calls, synced>>

Idle == [at |-> "idle"]

-----------------------------------------------------------------------------
(* A workflow or a trigger after an update, a delete or an undelete.       *)
Edited(r, e) ==
    IF e.what = "update" THEN [r EXCEPT !.enabled = e.enabled, !.version = e.version]
                         ELSE [r EXCEPT !.deleted = e.what = "delete"]

(* The triggers that the services search for. *)
Enabled(tt) == {t \in Trigger : tt[t] # Absent /\ tt[t].enabled}
Usable(tt)  == {t \in Enabled(tt) : ~tt[t].deleted}

validateWorkflowTriggers(v, S) == \E t \in S : <<v, t>> \in NoRunAs
Issues(v, S) == v \in Broken \/ validateWorkflowTriggers(v, S)

(* What the cache and the bus hold for a workflow and its triggers. *)
Executable(w) == w.enabled /\ ~w.deleted
\* mutant: the workflow is cached without its graph
ItemDef(w) == IF Executable(w) THEN w ELSE Absent

Item(w) == IF Executable(w) THEN [version |-> w.version, graph |-> w.version \notin Broken] ELSE Absent

Handlers(w, tt) ==
    IF Executable(w) /\ ~w.issues
    THEN {[t |-> t, version |-> tt[t].version, graph |-> w.version] : t \in Usable(tt)}
    ELSE {}

Wanted(h) == [t |-> h.t, version |-> h.version, graph |-> h.graph]

(* What the store asks for. *)
Stored == IF wf = Absent THEN Absent ELSE [wf EXCEPT !.issues = Issues(wf.version, Usable(triggers))]
StoredItem     == IF wf = Absent THEN Absent ELSE Item(wf)
StoredHandlers == IF wf = Absent THEN {} ELSE Handlers(Stored, triggers)

-----------------------------------------------------------------------------
(* registerTriggers: the handler a trigger had is taken off the bus; the   *)
(* enabled and undeleted triggers of an executable workflow get a new one. *)
unused == Handler \ ({h.ptr : h \in bus} \cup {reg[t] : t \in Trigger})
Ptrs(S) == CHOOSE f \in [S -> unused] : \A t, u \in S : f[t] = f[u] => t = u

\* mutant: the handler a trigger had is left on the bus
registerOver(w, tt, S) ==
    LET new == {t \in S \cap Usable(tt) : Executable(w)}
        ptr == Ptrs(new)
    IN  /\ Cardinality(new) <= Cardinality(unused)
        /\ bus' = bus \cup {[ptr |-> ptr[t], t |-> t, version |-> tt[t].version, graph |-> w.version] : t \in new}
        /\ reg' = [t \in Trigger |-> IF t \in new THEN ptr[t] ELSE reg[t]]

registerTriggers(w, tt, S) ==
    LET new == {t \in S \cap Usable(tt) : Executable(w)}
        ptr == Ptrs(new)
    IN  /\ Cardinality(new) <= Cardinality(unused)
        /\ bus' = {h \in bus : h.ptr \notin {reg[t] : t \in S}}
                    \cup {[ptr |-> ptr[t], t |-> t, version |-> tt[t].version, graph |-> w.version] : t \in new}
        /\ reg' = [t \in Trigger |-> IF t \in new THEN ptr[t] ELSE reg[t]]

(* registerWorkflow: nothing for a disabled workflow or one with issues,   *)
(* nor when a trigger has one.  A run-as user that cannot be loaded fails  *)
(* it.                                                                     *)
registerWorkflow(w, tt, S) ==
    IF ~w.enabled \/ w.issues \/ validateWorkflowTriggers(w.version, S \cap Usable(tt))
    THEN UNCHANGED <<bus, reg>>
    ELSE registerTriggers(w, tt, S)

unregisterWorkflows ==
    /\ bus' = {h \in bus : h.ptr \notin {reg[t] : t \in Trigger}}
    /\ reg' = [t \in Trigger |-> Absent]

(* A server that starts has nothing in memory, and its first call is the   *)
(* Load of what the store has.  The others come when that is done, and a   *)
(* server whose Load fails does not start (service/service.go:135).        *)
AnyEdit == CHOOSE e \in Edits : TRUE
AnyOf   == CHOOSE t \in Trigger : TRUE

Boot == [at |-> "read", op |-> "boot", t |-> AnyOf, e |-> AnyEdit, alone |-> TRUE,
         w |-> wf, tt |-> triggers, changed |-> FALSE]
Booting == \E c \in Client : job[c] # Idle /\ job[c].op = "boot"

Init ==
    /\ \E s \in Stores :
          /\ triggers = s.triggers
          /\ wf = IF s.wf = Absent THEN Absent
                  ELSE [enabled |-> s.wf.enabled, deleted |-> s.wf.deleted, version |-> s.wf.version,
                        issues |-> Issues(s.wf.version, Usable(s.triggers))]
    /\ cache = Absent
    /\ bus = {}
    /\ reg = [t \in Trigger |-> Absent]
    /\ \E c \in Client : job = [d \in Client |-> IF d = c THEN Boot ELSE Idle]
    /\ calls = 0
    /\ synced = FALSE

(* The server stops, with what its calls have not committed, and starts.   *)
Restart ==
    /\ cache' = Absent
    /\ bus' = {}
    /\ reg' = [t \in Trigger |-> Absent]
    /\ \E c \in Client : job' = [d \in Client |-> IF d = c THEN Boot ELSE Idle]
    /\ synced' = FALSE
    /\ UNCHANGED <<wf, triggers, calls>>

-----------------------------------------------------------------------------
(* A call starts.  One that overlaps with another voids both: "alone".     *)
(* op is save (Update, DeleteByID, UndeleteByID) or create of the          *)
(* workflow, Load, or add (Create) or edit of the trigger t.               *)
Call(c, op, t, e) ==
    LET others == {d \in Client : job[d] # Idle}
    IN  /\ job[c] = Idle /\ ~Booting
        /\ calls < MaxCalls
        /\ calls' = calls + 1
        /\ synced' = (synced /\ others = {})
        /\ job' = [d \in Client |->
              IF d = c THEN [at |-> "read", op |-> op, t |-> t, e |-> e, alone |-> others = {},
                             w |-> wf, tt |-> triggers, changed |-> FALSE]
              ELSE IF d \in others THEN [job[d] EXCEPT !.alone = FALSE] ELSE Idle]
        /\ UNCHANGED <<wf, triggers, cache, reg, bus>>

Creates == {e \in Edits : e.what = "update"}
Others(op, t) == \E c \in Client : job[c] # Idle /\ job[c].op = op /\ job[c].t = t

Begin(c) ==
    \/ \E e \in Edits : wf # Absent /\ Call(c, "save", AnyOf, e)
    \/ Call(c, "load", AnyOf, AnyEdit)
    \/ \E t \in Trigger, e \in Edits : triggers[t] # Absent /\ Call(c, "edit", t, e)
    \* an identifier is used once
    \/ \E e \in Creates : wf = Absent /\ cache = Absent /\ ~Others("create", AnyOf) /\ Call(c, "create", AnyOf, e)
    \/ \E t \in Trigger, e \in Creates :
          wf # Absent /\ triggers[t] = Absent /\ reg[t] = Absent /\ ~Others("add", t) /\ Call(c, "add", t, e)

Loads(c)    == job[c].op \in {"load", "boot"}
At(c, at)   == job[c] # Idle /\ job[c].at = at
Goes(c, at) == job' = [job EXCEPT ![c].at = at]
Done(c)     == job' = [job EXCEPT ![c] = Idle]
New(e)      == [enabled |-> e.enabled, deleted |-> FALSE, version |-> e.version]

(* The workflow or the trigger is loaded and changed. *)
Read(c) ==
    LET j == job[c]
        w == CASE j.op = "save"   -> Edited(wf, j.e)
               [] j.op = "create" -> [enabled |-> j.e.enabled, deleted |-> FALSE,
                                      version |-> j.e.version, issues |-> FALSE]
               [] OTHER -> wf
        tt == CASE j.op = "edit" -> [triggers EXCEPT ![j.t] = Edited(@, j.e)]
                [] j.op = "add"  -> [triggers EXCEPT ![j.t] = New(j.e)]
                [] OTHER -> triggers
        to == CASE j.op = "add" -> "register" [] j.op = "edit" -> "write" [] OTHER -> "validate"
    IN  /\ At(c, "read")
        /\ IF Loads(c) /\ (wf = Absent \/ ~wf.enabled)
           THEN Done(c) /\ synced' = (synced \/ (j.op = "boot" /\ j.alone))
           ELSE /\ job' = [job EXCEPT ![c] = [j EXCEPT !.at = to, !.w = w, !.tt = tt,
                                                       !.changed = (w # wf \/ tt # triggers)]]
                /\ UNCHANGED synced
        /\ UNCHANGED <<wf, triggers, cache, reg, bus, calls>>

(* validateWorkflow *)
Validate(c) ==
    /\ At(c, "validate")
    /\ job' = [job EXCEPT ![c].at = "cache", ![c].w.issues = Issues(job[c].w.version, Usable(triggers))]
    /\ UNCHANGED <<wf, triggers, cache, reg, bus, calls, synced>>

(* It fails: Load goes on without the cache, the others give up. *)
ValidateFails(c) ==
    /\ At(c, "validate")
    /\ IF Loads(c)
       THEN job' = [job EXCEPT ![c].at = "search", ![c].alone = FALSE, ![c].w.issues = job[c].w.version \in Broken]
       ELSE Done(c)
    /\ UNCHANGED <<wf, triggers, cache, reg, bus, calls, synced>>

updateCache(c) ==
    /\ At(c, "cache")
    /\ cache' = Item(job[c].w)
    /\ Goes(c, IF Loads(c) \/ ~job[c].w.issues THEN "search" ELSE "write")
    /\ UNCHANGED <<wf, triggers, reg, bus, calls, synced>>

(* registerWorkflows: the triggers are searched for, the handlers of the   *)
(* workflow unregistered, and new ones registered.                         *)
Search(c) ==
    /\ At(c, "search")
    /\ job' = [job EXCEPT ![c].at = "unregister", ![c].tt = triggers]
    /\ UNCHANGED <<wf, triggers, cache, reg, bus, calls, synced>>

\* mutant: a workflow that is off keeps its handlers
UnregisterOn(c) ==
    LET on == Executable(job[c].w) /\ ~job[c].w.issues
    IN  /\ At(c, "unregister")
        /\ IF on THEN unregisterWorkflows ELSE UNCHANGED <<bus, reg>>
        /\ Goes(c, IF on THEN "register" ELSE "write")
        /\ UNCHANGED <<wf, triggers, cache, calls, synced>>

Unregister(c) ==
    /\ At(c, "unregister")
    /\ unregisterWorkflows
    /\ Goes(c, IF Executable(job[c].w) /\ ~job[c].w.issues THEN "register" ELSE "write")
    /\ UNCHANGED <<wf, triggers, cache, calls, synced>>

(* The last step of registerWorkflows, and the registration of a trigger   *)
(* that Create has not committed yet.                                      *)
Register(c) ==
    LET j == job[c]
    IN  /\ At(c, "register")
        /\ registerWorkflow(j.w, j.tt, IF j.op = "add" THEN {j.t} ELSE Enabled(j.tt))
        /\ Goes(c, "write")
        /\ UNCHANGED <<wf, triggers, cache, calls, synced>>

(* A search fails, a run-as user cannot be loaded, or the store does not   *)
(* take the write or the commit: the call ends, and what it did in memory  *)
(* remains.                                                                *)
Fails(c) ==
    /\ job[c] # Idle /\ job[c].op # "boot"
    /\ \/ At(c, "search") \/ At(c, "write")
       \/ At(c, "register") /\ job[c].w.enabled /\ ~job[c].w.issues
    /\ Done(c)
    /\ synced' = (synced /\ job[c].op = "edit")
    /\ UNCHANGED <<wf, triggers, cache, reg, bus, calls>>

(* The workflow is written, past the transaction; a commit that fails      *)
(* afterwards changes nothing.  A workflow or a trigger that is created is *)
(* written in the transaction.                                             *)
Written(c) ==
    LET j == job[c]
    IN  /\ wf' = IF j.op = "create" \/ (j.op = "save" /\ (j.changed \/ j.w.issues)) THEN j.w ELSE wf
        /\ triggers' = IF j.op = "add" \/ (j.op = "edit" /\ j.changed) THEN [triggers EXCEPT ![j.t] = j.tt[j.t]] ELSE triggers

Write(c) ==
    LET j == job[c]
    IN  /\ At(c, "write")
        /\ Written(c)
        /\ synced' = CASE j.op = "add"  -> synced /\ j.alone /\ ~j.w.issues /\ ~Issues(j.w.version, Usable(triggers'))
                       [] j.op = "edit" -> synced /\ triggers' = triggers
                       [] Loads(c) -> j.alone
                       [] OTHER -> j.alone /\ ~j.w.issues
        /\ Done(c)
        /\ UNCHANGED <<cache, reg, bus, calls>>

Step(c) ==
    \/ Read(c) \/ Validate(c) \/ ValidateFails(c) \/ updateCache(c) \/ Search(c)
    \/ Unregister(c) \/ Register(c) \/ Write(c) \/ Fails(c)

Next == Restart \/ \E c \in Client : Begin(c) \/ Step(c)

Spec == Init /\ [][Next]_vars

-----------------------------------------------------------------------------
TypeOK ==
    /\ wf \in Workflow \cup {Absent}
    /\ triggers \in [Trigger -> Record \cup {Absent}]
    /\ cache = Absent \/ cache \in [version : Version, graph : BOOLEAN]
    /\ reg \in [Trigger -> Handler \cup {Absent}]
    /\ bus \subseteq [ptr : Handler, t : Trigger, version : Version, graph : Version]
    /\ \A c \in Client : job[c] = Idle \/
          /\ job[c].op \in {"save", "create", "load", "boot", "add", "edit"} /\ job[c].t \in Trigger
          /\ job[c].at \in {"read", "validate", "cache", "search", "unregister", "register", "write"}
    /\ calls \in 0..MaxCalls /\ synced \in BOOLEAN

(* No handler is on the bus that the trigger service has lost, and no      *)
(* trigger has two: whichever calls overlap or fail, the next registration *)
(* of the workflow finds and removes every handler of it (trigger.go:415). *)
RegTracksBus ==
    \A h \in bus :
        /\ reg[h.t] = h.ptr /\ h.graph \notin Broken
        /\ \A g \in bus : g.t = h.t => g = h

Quiet == \A c \in Client : job[c] = Idle

(* After a workflow was saved without issues or loaded, at boot or later,  *)
(* by a call that neither failed nor overlapped with another, and until a  *)
(* trigger is changed or such a call comes along, what events do is what the store    *)
(* says: there is a handler for each enabled and undeleted trigger of an   *)
(* executable workflow without issues and no other, made from the trigger  *)
(* and the workflow as stored, and the cache has that version's graph.     *)
BusMirrorsStore ==
    Quiet /\ synced =>
        /\ cache = StoredItem
        /\ {Wanted(h) : h \in bus} = StoredHandlers

(* trigger.go:36 says of the registrations that they "help us do a cleanup *)
(* on trigger update", trigger.go:558 "do not register disabled or deleted *)
(* triggers".  No trigger that is deleted has a handler.                   *)
DeletedTriggersSilent ==
    Quiet => \A h \in bus : triggers[h.t] # Absent => ~triggers[h.t].deleted
=============================================================================
