-------------------------------- MODULE Rbac --------------------------------
(***************************************************************************)
(* The access control service (pkg/rbac/service.go, ruleset_utils.go): the *)
(* rules in memory, the index that checks read, and the store behind them. *)
(*                                                                         *)
(* Rules are Go pointers, and who shares them matters: indexRules keeps    *)
(* the pointers of the rules it indexes, flush replaces the rules by       *)
(* copies of them, and CloneRulesByRoleID writes through pointers without  *)
(* the lock.  A generation is the set of rule objects made together: the   *)
(* rules are all the objects of one generation, and so are the indexed     *)
(* ones, of the same generation or of an older one.                        *)
(***************************************************************************)
EXTENDS RbacRules, SequencesExt

CONSTANTS
    Client,      \* goroutines that call the service
    Generation,  \* names of generations, enough for all that are in use at once
    NoClient,
    Grants,      \* arguments of Grant: sequences of rules
    Clones,      \* arguments of CloneRulesByRoleID: [from, to]
    Setups,      \* arguments of UpdateRoles: functions from roles to kinds
    Imports,     \* rules other code writes to the store: [key, access]
    MaxCalls     \* bound on the calls of a behaviour

Grantable  == [key : Key, access : Access]
Unset      == "none"

ASSUME ClientAssumption == NoClient \notin Client
ASSUME GrantsAssumption == Grants \subseteq Seq(Grantable)
(* The targets of one clone are different roles, as a caller that names each role once has it. *)
ASSUME ClonesAssumption ==
    \A a \in Clones : /\ a.from \in Role /\ a.to \in Seq(Role)
                      /\ \A m, n \in DOMAIN a.to : a.to[m] = a.to[n] => m = n
ASSUME SetupsAssumption == \A s \in Setups : DOMAIN s \subseteq Role /\ \A r \in DOMAIN s : s[r] \in RoleKind
ASSUME ImportsAssumption == Imports \subseteq [key : Key, access : {"Allow", "Deny"}]
ASSUME MaxCallsAssumption == MaxCalls \in Nat
ASSUME GenerationAssumption == Generation # {}
ASSUME KeyAssumption == IsFiniteSet(Key)

VARIABLES
    heap,       \* [Generation -> Seq(Rule)]: the rule objects in use
    rulesAt,    \* svc.rules: the generation of the rules
    indexedAt,  \* svc.indexed: the generation the index points into
    roles,      \* svc.roles
    store,      \* [Key -> Access or Unset]: the table of rules
    lock,       \* who holds svc.l for writing, or NoClient
    job,        \* [Client -> the call it is in]
    calls,      \* number of calls so far
    \* what callers were told, and what the service does not know; no code reads these
    promised,   \* [Key -> Access or Unset]: what the last grant that returned no error made of
                \* a key, if nobody changed the key during that grant or later
    untracked,  \* keys the service lost track of: a pending change marked as flushed, two rules
    foreign     \* keys written behind the service since the last reload

cacheVars == <<heap, rulesAt, indexedAt>>
ghostVars == <<promised, untracked, foreign>>
vars == <<heap, rulesAt, indexedAt, roles, store, lock, job, calls, promised, untracked, foreign>>

NoJob == [pc |-> "idle", news |-> <<>>, from |-> <<>>, to |-> <<>>, existing |-> <<>>,
          deletable |-> <<>>, updatable |-> <<>>, final |-> <<>>, clone |-> FALSE, touched |-> {}]

(* A rule in the hands of a caller: an object of the heap, or one's own.   *)
Own(rule)   == [at |-> <<>>, rule |-> rule]
Shared(g, i) == [at |-> <<g, i>>, rule |-> <<>>]
Deref(h, e) == IF e.at = <<>> THEN e.rule ELSE h[e.at[1]][e.at[2]]

rules   == heap[rulesAt]
indexed == heap[indexedAt]
KeysOf(rs) == {rs[i].key : i \in 1..Len(rs)}
(* Keys with more than one rule: a clone that finds its target changed can *)
(* append a rule that removes and one that grants, and fail before the     *)
(* first of them is dropped.                                               *)
Doubled(rs) == {rs[i].key : i \in {j \in 1..Len(rs) : \E o \in 1..Len(rs) : o # j /\ rs[o].key = rs[j].key}}

PointersOf(j) ==
    {e.at[1] : e \in {x \in ToSet(j.news) \cup ToSet(j.from) \cup ToSet(j.existing) : x.at # <<>>}}
InUse == {rulesAt, indexedAt} \cup UNION {PointersOf(job[c]) : c \in Client}
Fresh == CHOOSE g \in Generation \ InUse : TRUE
\* a bound: a step that makes rules needs a name for their generation
HasFresh == Generation \ InUse # {}

(* The heap after a step: generations nobody points to are collected. *)
Collected(h) == [g \in Generation |-> IF g \in InUse' THEN h[g] ELSE <<>>]

TypeOK ==
    /\ heap \in [Generation -> Seq(Rule)]
    /\ {rulesAt, indexedAt} \subseteq Generation
    /\ roles \in Setups
    /\ store \in [Key -> Access \cup {Unset}]
    /\ lock \in Client \cup {NoClient}
    /\ \A c \in Client : /\ job[c].pc \in {"idle", "find", "write", "flush", "delete", "upsert"}
                         /\ job[c].touched \subseteq Key
    /\ calls \in 0..MaxCalls
    /\ promised \in [Key -> Access \cup {Unset}]
    /\ untracked \subseteq Key /\ foreign \subseteq Key

Init ==
    /\ heap = [g \in Generation |-> <<>>]
    /\ rulesAt = (CHOOSE g \in Generation : TRUE) /\ indexedAt = rulesAt
    /\ roles \in Setups
    /\ store = [k \in Key |-> Unset]
    /\ lock = NoClient
    /\ job = [c \in Client |-> NoJob]
    /\ calls = 0
    /\ promised = [k \in Key |-> Unset]
    /\ untracked = {} /\ foreign = {}

-----------------------------------------------------------------------------
(* merge and flushable (ruleset_utils.go)                                  *)

(* The members of s at the indices in I, in their order. *)
Picked(s, I) ==
    [n \in 1..Cardinality(I) |-> s[CHOOSE i \in I : Cardinality({j \in I : j <= i}) = n]]

(* The rule of the base after all new ones with its key were applied: its  *)
(* flag only remembers whether the last one of them changed it.            *)
Overwritten(rule, hits) ==
    IF hits = <<>> THEN rule
    ELSE LET before == IF Len(hits) = 1 THEN rule.access ELSE hits[Len(hits) - 1].access
         IN  [rule EXCEPT !.access = Last(hits).access,
                          !.dirty  = before # Last(hits).access]

\* mutant: the comparison of two rules forgets the role
mergeForgetsRole(base, new) ==
    [i \in 1..Len(base) |->
        Overwritten(base[i], Picked(new, {n \in 1..Len(new) : new[n].key.res = base[i].key.res}))]
        \o Picked([n \in 1..Len(new) |-> [new[n] EXCEPT !.dirty = TRUE]],
                  {n \in 1..Len(new) : \A i \in 1..Len(base) : base[i].key.res # new[n].key.res})
(* Every new rule overwrites the first rule of the base with its key; one  *)
(* that the base does not have is appended.                                *)
merge(base, new) ==
    LET first(i) == \A j \in 1..(i - 1) : base[j].key # base[i].key
    IN  [i \in 1..Len(base) |->
            IF first(i) THEN Overwritten(base[i], Picked(new, {n \in 1..Len(new) : new[n].key = base[i].key}))
            ELSE base[i]]
        \o Picked([n \in 1..Len(new) |-> [new[n] EXCEPT !.dirty = TRUE]],
                  {n \in 1..Len(new) : new[n].key \notin KeysOf(base)})

\* mutant: only rules that were granted anew are deleted
deletableDirty(set) == Picked(set, {i \in 1..Len(set) : set[i].access = "Inherit" /\ set[i].dirty})
deletable(set) == Picked(set, {i \in 1..Len(set) : set[i].access = "Inherit"})
updatable(set) == Picked(set, {i \in 1..Len(set) : set[i].access # "Inherit" /\ set[i].dirty})
final(set) ==
    LET kept == Picked(set, {i \in 1..Len(set) : set[i].access # "Inherit"})
    IN  [i \in 1..Len(kept) |-> [kept[i] EXCEPT !.dirty = FALSE]]

(* The table after the statements for the first n rules. *)
Deleted(st, rs, n) == [k \in Key |-> IF \E i \in 1..n : rs[i].key = k THEN Unset ELSE st[k]]
Upserted(st, rs, n) ==
    [k \in Key |-> LET hits == {i \in 1..n : rs[i].key = k}
                   IN  IF hits = {} THEN st[k]
                       ELSE rs[CHOOSE i \in hits : \A j \in hits : j <= i].access]

-----------------------------------------------------------------------------
(* Everybody else who is in the middle of a call learns what it did not    *)
(* see coming (bookkeeping only).                                          *)
Touch(c, ks) ==
    [x \in Client |-> IF x = c \/ job[x].pc = "idle" THEN job[x]
                      ELSE [job[x] EXCEPT !.touched = @ \cup ks]]

(* Keys whose unflushed change the merge takes for flushed. *)
UntrackedBy(base, merged) ==
    {base[i].key : i \in {j \in 1..Len(base) :
        /\ merged[j].access # "Inherit" /\ ~merged[j].dirty
        /\ base[j].dirty \/ base[j].access # merged[j].access}}

(* grant, under the lock: merge, and index the merged rules.  heap has the *)
(* rules of the caller; merging writes to the objects of the base.  The    *)
(* new rules are read before the base is written, which is what the code   *)
(* sees too: a new rule that is an object of the base comes from a clone,  *)
(* before any copy with its key, and with different targets it comes once. *)
(* Into an empty base the code puts the objects of the caller themselves;  *)
(* here they are made anew, and what another clone still writes through    *)
(* its pointers to them (to rules of its target, which it changes anyhow)  *)
(* does not reach the new ones.                                            *)
Merge(c, news, was) ==
    LET new    == [n \in 1..Len(news) |-> Deref(heap, news[n])]
        merged == merge(rules, new)
        ks     == KeysOf(new)
    IN  /\ lock = NoClient
        /\ lock' = c
        /\ indexedAt' = rulesAt
        /\ job' = [Touch(c, ks) EXCEPT ![c] =
                      [was EXCEPT !.pc = "flush", !.from = <<>>,
                                  !.news = [n \in 1..Len(new) |-> Own(new[n])]]]
        /\ promised' = [k \in Key |-> IF k \in ks THEN Unset ELSE promised[k]]
        /\ untracked' = (untracked \cup UntrackedBy(rules, merged))
                       \ ({merged[i].key : i \in {j \in 1..Len(merged) :
                              merged[j].dirty \/ merged[j].access = "Inherit"}} \ Doubled(rules))
        /\ UNCHANGED <<rulesAt, roles, store, foreign>>
        /\ heap' = Collected([heap EXCEPT ![rulesAt] = merged])

(* Grant: a caller hands over its own rules. *)
Grant(c) ==
    /\ job[c].pc = "idle" /\ calls < MaxCalls
    /\ \E rr \in Grants :
          Merge(c, [n \in 1..Len(rr) |->
                       Own([key |-> rr[n].key, access |-> rr[n].access, dirty |-> FALSE])], NoJob)
    /\ calls' = calls + 1

(* flush: the copies that are to be deleted, to be written and to be kept. *)
Flush(c) ==
    /\ job[c].pc = "flush"
    /\ job' = [job EXCEPT ![c].pc = "delete", ![c].deletable = deletable(rules),
                          ![c].updatable = updatable(rules), ![c].final = final(rules)]
    /\ UNCHANGED <<heap, rulesAt, indexedAt, roles, store, lock, calls, promised, untracked, foreign>>

DeleteRules(c) ==
    /\ job[c].pc = "delete"
    /\ store' = Deleted(store, job[c].deletable, Len(job[c].deletable))
    /\ job' = [job EXCEPT ![c].pc = "upsert"]
    /\ UNCHANGED <<heap, rulesAt, indexedAt, roles, lock, calls, promised, untracked, foreign>>

\* mutant: the copies take the place of the rules before the error is looked at
AbortFlushed(c) ==
    /\ lock' = NoClient
    /\ job' = [job EXCEPT ![c] = NoJob]
    /\ rulesAt' = Fresh
    /\ untracked' = untracked \cup Doubled(rules)
    /\ UNCHANGED <<indexedAt, roles, calls, promised, foreign>>
    /\ heap' = Collected([heap EXCEPT ![Fresh] = job[c].final])
(* The call fails: the lock is released and the rules stay as they are. *)
Abort(c) ==
    /\ lock' = NoClient
    /\ job' = [job EXCEPT ![c] = NoJob]
    /\ untracked' = untracked \cup Doubled(rules)
    /\ UNCHANGED <<heap, rulesAt, indexedAt, roles, calls, promised, foreign>>

DeleteFails(c) ==
    /\ job[c].pc = "delete"
    /\ \E n \in 0..(Len(job[c].deletable) - 1) : store' = Deleted(store, job[c].deletable, n)
    /\ Abort(c)

UpsertFails(c) ==
    /\ job[c].pc = "upsert"
    /\ \E n \in 0..(Len(job[c].updatable) - 1) : store' = Upserted(store, job[c].updatable, n)
    /\ Abort(c)

(* The last statement, and the copies take the place of the rules; the     *)
(* index goes on pointing to the objects it was built from.                *)
UpsertRules(c) ==
    LET lost == untracked \cup Doubled(job[c].final)
        kept == {e.rule.key : e \in ToSet(job[c].news)} \ job[c].touched
    IN  /\ job[c].pc = "upsert" /\ HasFresh
        /\ store' = Upserted(store, job[c].updatable, Len(job[c].updatable))
        /\ rulesAt' = Fresh
        /\ lock' = NoClient
        /\ job' = [job EXCEPT ![c] = NoJob]
        /\ promised' = [k \in Key |->
              IF k \notin kept THEN promised[k]
              ELSE IF k \in KeysOf(job[c].final)
                   THEN job[c].final[CHOOSE i \in 1..Len(job[c].final) : job[c].final[i].key = k].access
                   ELSE "Inherit"]
        /\ untracked' = lost
        /\ UNCHANGED <<indexedAt, roles, calls, foreign>>
        /\ heap' = Collected([heap EXCEPT ![Fresh] = job[c].final])

-----------------------------------------------------------------------------
(* CloneRulesByRoleID                                                      *)

(* ruleByRole: pointers to the rules of the role. *)
ruleByRole(r) ==
    Picked([i \in 1..Len(rules) |-> Shared(rulesAt, i)], {i \in 1..Len(rules) : rules[i].key.role = r})

(* FindRulesByRoleID of the source, under the read lock. *)
Clone(c) ==
    /\ job[c].pc = "idle" /\ calls < MaxCalls
    /\ lock = NoClient
    /\ \E a \in Clones :
          job' = [job EXCEPT ![c] = [NoJob EXCEPT !.pc = "find", !.from = ruleByRole(a.from),
                                                  !.to = a.to, !.clone = TRUE]]
    /\ calls' = calls + 1
    /\ UNCHANGED <<heap, rulesAt, indexedAt, roles, store, lock, promised, untracked, foreign>>

(* FindRulesByRoleID of the next target, under the read lock. *)
CloneFind(c) ==
    /\ job[c].pc = "find" /\ job[c].to # <<>>
    /\ lock = NoClient
    /\ job' = [job EXCEPT ![c].pc = "write", ![c].existing = ruleByRole(Head(job[c].to))]
    /\ UNCHANGED <<heap, rulesAt, indexedAt, roles, store, lock, calls, promised, untracked, foreign>>

(* Without a lock: the rules of the target are set to Inherit through the  *)
(* pointers, and the rules of the source are copied for the target.  The   *)
(* code writes and copies one rule after the other; here it is one step,   *)
(* as what is said of the rules is said key by key.                        *)
CloneWrite(c) ==
    LET ex   == job[c].existing
        t    == Head(job[c].to)
        h    == [g \in Generation |-> [i \in 1..Len(heap[g]) |->
                    IF \E n \in 1..Len(ex) : ex[n].at = <<g, i>>
                    THEN [heap[g][i] EXCEPT !.access = "Inherit"] ELSE heap[g][i]]]
        copy == [n \in 1..Len(job[c].from) |->
                    LET r == Deref(h, job[c].from[n]) IN Own([r EXCEPT !.key.role = t])]
        ks   == {k \in Key : k.role = t}
    IN  /\ job[c].pc = "write"
        /\ heap' = h
        /\ job' = [Touch(c, ks) EXCEPT ![c].pc = "find", ![c].to = Tail(@),
                                       ![c].existing = <<>>, ![c].news = @ \o ex \o copy]
        /\ promised' = [k \in Key |-> IF k \in ks THEN Unset ELSE promised[k]]
        /\ UNCHANGED <<rulesAt, indexedAt, roles, store, lock, calls, untracked, foreign>>

(* Grant of all that was collected. *)
CloneGrant(c) ==
    /\ job[c].pc = "find" /\ job[c].to = <<>>
    /\ Merge(c, job[c].news, job[c])
    /\ UNCHANGED calls

-----------------------------------------------------------------------------
(* Reload, by the watcher every hour, on request, and after an import.  It *)
(* is where what was granted and never written disappears: the service     *)
(* keeps track of all keys again, and those it had lost, or found written  *)
(* behind it, are promised no more.                                        *)
\* mutant: rows that are gone are loaded too
StoredAll(st) ==
    LET ks == SetToSeq(Key)
    IN  [i \in 1..Len(ks) |-> [key |-> ks[i], access |-> st[ks[i]], dirty |-> FALSE]]
Stored(st) ==
    LET ks == SetToSeq({k \in Key : st[k] # Unset})
    IN  [i \in 1..Len(ks) |-> [key |-> ks[i], access |-> st[ks[i]], dirty |-> FALSE]]

Reload ==
    /\ lock = NoClient /\ HasFresh
    /\ rulesAt' = Fresh /\ indexedAt' = Fresh
    /\ untracked' = {} /\ foreign' = {}
    /\ promised' = [k \in Key |-> IF k \in untracked \cup foreign THEN Unset ELSE promised[k]]
    /\ job' = Touch(NoClient, foreign)
    /\ UNCHANGED <<roles, store, lock, calls>>
    /\ heap' = Collected([heap EXCEPT ![Fresh] = Stored(store)])

UpdateRoles ==
    /\ lock = NoClient
    /\ roles' \in Setups \ {roles}
    /\ UNCHANGED <<heap, rulesAt, indexedAt, store, lock, job, calls, promised, untracked, foreign>>

(* An import writes rules to the store behind the service. *)
Import ==
    /\ calls < MaxCalls
    /\ \E i \in Imports :
          /\ store[i.key] # i.access
          /\ store' = [store EXCEPT ![i.key] = i.access]
          /\ foreign' = foreign \cup {i.key}
          /\ promised' = [promised EXCEPT ![i.key] = Unset]
          /\ job' = Touch(NoClient, {i.key})
    /\ calls' = calls + 1
    /\ UNCHANGED <<heap, rulesAt, indexedAt, roles, lock, untracked>>

ClientStep(c) ==
    \/ Flush(c) \/ DeleteRules(c) \/ DeleteFails(c) \/ UpsertFails(c) \/ UpsertRules(c)
    \/ CloneFind(c) \/ CloneWrite(c) \/ CloneGrant(c)

Next ==
    \/ \E c \in Client : Grant(c) \/ Clone(c) \/ ClientStep(c)
    \/ Reload \/ UpdateRoles \/ Import

Spec == Init /\ [][Next]_vars

-----------------------------------------------------------------------------
(* Properties                                                              *)

(* What the rules say of a key: a rule that inherits says nothing. *)
Said(rs, k) == {rs[i].access : i \in {j \in 1..Len(rs) : rs[j].key = k}} \ {"Inherit"}
StoredAccess(st, k) == IF st[k] = Unset THEN "Inherit" ELSE st[k]

(* The table is what the service believes it to be (service.go:284): a     *)
(* rule that is neither waiting to be written nor to be deleted is in the  *)
(* store as it is in memory, and the store has no rule the service does    *)
(* not know.  Not so for what was written behind the service, and for a    *)
(* change whose flush failed and that was granted again.                   *)
CacheMirrorsStore ==
    lock = NoClient =>
        \A k \in Key \ (untracked \cup foreign) :
            IF k \in KeysOf(rules)
            THEN \E i \in 1..Len(rules) :
                    rules[i].key = k /\ (rules[i].dirty \/ rules[i].access \in {"Inherit", store[k]})
            ELSE store[k] = Unset

(* What a caller was told is granted is so, in the store and for every     *)
(* check, across failures of other calls, clones for other roles, and      *)
(* reloads, until somebody changes that rule.  Not so, until the next      *)
(* reload undoes the grant, for keys the service lost track of (the flush  *)
(* of a change fails, and whoever grants it again is told that it is done  *)
(* while nothing is written, ruleset_utils.go:28) and for keys written     *)
(* behind the service.                                                     *)
GrantDurable ==
    lock = NoClient =>
        \A k \in Key \ (untracked \cup foreign) :
            promised[k] # Unset => /\ Said(indexed, k) = {promised[k]} \ {"Inherit"}
                                   /\ StoredAccess(store, k) = promised[k]

(* A clone that succeeds leaves the target with the rules of the source    *)
(* as they were copied, and with no other, except where somebody else      *)
(* changed the target meanwhile; reloads do not matter.  Of a key that the *)
(* clone brings twice, because the source has two rules of it (Doubled),   *)
(* nothing is said: the merge compares the copies with each other, and two *)
(* that agree are never written.                                           *)
CloneExact ==
    [][\A c \in Client :
          (job[c].clone /\ UpsertRules(c)) =>
              \A k \in Key \ (job[c].touched \cup foreign) :
                  LET news == [n \in 1..Len(job[c].news) |-> job[c].news[n].rule]
                      hits == Picked(news, {n \in 1..Len(news) : news[n].key = k})
                  IN  /\ \E n \in 1..Len(news) : news[n].key.role = k.role
                      /\ \A n \in 1..(Len(hits) - 1) : hits[n].access = "Inherit"
                      => StoredAccess(store', k) = (IF hits = <<>> THEN "Inherit" ELSE Last(hits).access)]_vars

(* The order of rules as their authors mean it: the more specific pattern  *)
(* wins, the last reference counting most.                                 *)
MoreSpecific(a, b) ==
    \E i \in 1..Len(a) :
        /\ a[i] # Wildcard /\ b[i] = Wildcard
        /\ \A j \in (i + 1)..Len(a) : a[j] = Wildcard <=> b[j] = Wildcard

Means(byKind, op, r) ==
    LET hit(kind) == {k \in Key : /\ store[k] # Unset /\ k.op = op /\ k.role \in byKind[kind]
                                  /\ Len(k.res) = Len(r)
                                  /\ \A i \in 1..Len(r) : k.res[i] \in {Wildcard, r[i]}}
        best(kind) == {store[k] : k \in {x \in hit(kind) : \A y \in hit(kind) : ~MoreSpecific(y.res, x.res)}}
    IN  IF byKind["anonymous"] # {} THEN {"Deny"}
        ELSE IF byKind["bypass"] # {} THEN {"Allow"}
        ELSE IF hit("context") # {} THEN best("context")
        ELSE IF hit("common") # {} THEN best("common")
        ELSE IF hit("authenticated") # {} THEN best("authenticated")
        ELSE {"Inherit"}

(* When nothing is pending, a check answers what the rules in the store    *)
(* say: the most specific rule of the most specific kind of role.          *)
CheckMeansStore ==
    (/\ lock = NoClient /\ untracked = {} /\ foreign = {}
     /\ \A c \in Client : job[c].pc = "idle"
     /\ \A i \in 1..Len(rules) : ~rules[i].dirty /\ rules[i].access # "Inherit") =>
        \A member \in SUBSET Role, op \in Operation, r \in {x \in Resource : ~hasWildcards(x)} :
            LET byKind == getContextRoles(member, r, roles)
            IN  evaluate(ToSet(indexed), byKind, op, r) = Means(byKind, op, r)
=============================================================================
