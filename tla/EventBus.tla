------------------------------ MODULE EventBus ------------------------------
(***************************************************************************)
(* The event bus (pkg/eventbus) with the scheduler that fires events on it *)
(* (pkg/scheduler).  Goroutines fire events, synchronously or not, and     *)
(* register and unregister handlers; a handler may fire events in turn.    *)
(*                                                                         *)
(* A goroutine is a stack of calls.  The bus's lock is a Go RWMutex: a     *)
(* writer that waits for the readers stops new readers, a goroutine that   *)
(* reads already included.                                                 *)
(***************************************************************************)
EXTENDS Naturals, Sequences, FiniteSets, SequencesExt

CONSTANTS
    Caller,      \* goroutines of the server
    Worker,      \* goroutines started by Dispatch and by the scheduler
    NoProc,
    Handler,
    Event,
    Matching,    \* pairs of a handler and an event it is registered for
    Weight,      \* [Handler -> Nat]
    Body,        \* [Handler -> what the handler does]
    Boot,        \* handlers registered at boot
    Fired,       \* calls of WaitFor and Dispatch that callers make
    Changes,     \* calls of Register, Unregister and UnregisterByResource
    Scheduled,   \* events of a tick
    MaxCalls,    \* bound on the calls from outside
    MaxTicks     \* bound on the ticks

Proc   == Caller \cup Worker
Call   == [does : {"WaitFor", "Dispatch"}, ev : Event]
Plain  == [does : {"succeed", "fail"}]
Change == [does : {"Register", "Unregister"}, hs : SUBSET Handler]

ASSUME ProcAssumption == Caller \cap Worker = {} /\ NoProc \notin Proc /\ IsFiniteSet(Worker)
ASSUME HandlerAssumption ==
    /\ IsFiniteSet(Handler)
    /\ Matching \subseteq Handler \X Event /\ Boot \subseteq Handler
    /\ Weight \in [Handler -> Nat] /\ Body \in [Handler -> Call \cup Plain]
    /\ Fired \subseteq Call /\ Changes \subseteq Change
    /\ Scheduled \subseteq Event /\ IsFiniteSet(Scheduled)

VARIABLES
    handlers,  \* b.handlers
    writer,    \* who holds b.l for writing or waits for its readers, or NoProc
    stack,     \* [Proc -> Seq(Frame)]: the calls a goroutine is in, innermost last
    ret,       \* [Proc -> what the call that ended last in it returned]
    calls,     \* number of calls from outside so far
    ticks      \* number of ticks so far

vars == <<handlers, writer, stack, ret, calls, ticks>>

(* A call of WaitFor or Dispatch that wants the lock, a WaitFor that holds *)
(* it and runs its handlers, a handler, and a change of the registrations. *)
Wants(call)          == [at |-> "rlock", call |-> call]
Waits(ev, todo, ran) == [at |-> "wait", ev |-> ev, todo |-> todo, ran |-> ran]
Runs(h, fired)       == [at |-> "body", h |-> h, fired |-> fired]
Changing(change)     == [at |-> "lock", change |-> change]

Init ==
    /\ handlers = Boot
    /\ writer = NoProc
    /\ stack = [p \in Proc |-> <<>>]
    /\ ret = [p \in Proc |-> "none"]
    /\ calls = 0 /\ ticks = 0

-----------------------------------------------------------------------------
Idle(p)   == stack[p] = <<>>
Top(p)    == Last(stack[p])
In(p, at) == ~Idle(p) /\ Top(p).at = at

\* the goroutine's innermost call becomes the calls fs
Becomes(p, fs) == stack' = [stack EXCEPT ![p] = Front(@) \o fs]

\* it returns r to the call that made it, if there is one
Ends(p, r) ==
    /\ Becomes(p, <<>>)
    /\ ret' = [ret EXCEPT ![p] = IF Len(stack[p]) = 1 THEN "none" ELSE r]

\* goroutines, all alike, for the members of a set
Go(S) ==
    LET idle == {w \in Worker : Idle(w)}
    IN  CHOOSE team \in [S -> idle] : \A x, y \in S : team[x] = team[y] => x = y
CanGo(S) == Cardinality(S) <= Cardinality({w \in Worker : Idle(w)})

\* each has the first call of its member of S
Started(first) ==
    LET team == Go(DOMAIN first)
    IN  [p \in Proc |-> IF \E x \in DOMAIN first : team[x] = p
                        THEN <<first[CHOOSE x \in DOMAIN first : team[x] = p]>>
                        ELSE stack[p]]

Readers == {p \in Proc : \E i \in 1..Len(stack[p]) : stack[p][i].at = "wait"}

(* find: the handlers that match, sorted by weight with a sort that is not *)
(* stable, from a Go map.                                                  *)
Found(ev) == {h \in handlers : <<h, ev>> \in Matching}
find(ev) ==
    {s \in SetToSeqs(Found(ev)) : \A i, j \in DOMAIN s : i < j => Weight[s[i]] <= Weight[s[j]]}

(* A goroutine starts a call. *)
Begin(c) ==
    /\ Idle(c)
    /\ calls < MaxCalls
    /\ calls' = calls + 1
    /\ \/ \E call \in Fired : stack' = [stack EXCEPT ![c] = <<Wants(call)>>]
       \/ \E change \in Changes : stack' = [stack EXCEPT ![c] = <<Changing(change)>>]
    /\ UNCHANGED <<handlers, writer, ret, ticks>>

(* RLock, which a writer that waits holds up. *)
CanRead == writer = NoProc

WaitFor(p) ==
    /\ In(p, "rlock") /\ Top(p).call.does = "WaitFor"
    /\ CanRead
    /\ \E s \in find(Top(p).call.ev) : Becomes(p, <<Waits(Top(p).call.ev, s, <<>>)>>)
    /\ ret' = [ret EXCEPT ![p] = "nil"]
    /\ UNCHANGED <<handlers, writer, calls, ticks>>

(* The handlers run in goroutines of their own, without the lock; what     *)
(* they return is dropped.                                                 *)
Dispatch(p) ==
    /\ In(p, "rlock") /\ Top(p).call.does = "Dispatch"
    /\ CanRead
    /\ LET set == Found(Top(p).call.ev)
       IN  /\ CanGo(set)
           /\ stack' = [Started([h \in set |-> Runs(h, FALSE)]) EXCEPT ![p] = Front(@)]
    /\ ret' = [ret EXCEPT ![p] = IF Len(stack[p]) = 1 THEN "none" ELSE "nil"]
    /\ UNCHANGED <<handlers, writer, calls, ticks>>

\* mutant: WaitFor goes on after an error
HandleRest(p) ==
    LET f == Top(p)
    IN  /\ In(p, "wait") /\ f.todo # <<>>
        /\ Becomes(p, <<Waits(f.ev, Tail(f.todo), Append(f.ran, Head(f.todo))), Runs(Head(f.todo), FALSE)>>)
        /\ UNCHANGED <<handlers, writer, ret, calls, ticks>>

(* The next handler of a WaitFor, unless the one before returned an error. *)
Handle(p) ==
    LET f == Top(p)
    IN  /\ In(p, "wait") /\ f.todo # <<>> /\ ret[p] # "error"
        /\ Becomes(p, <<Waits(f.ev, Tail(f.todo), Append(f.ran, Head(f.todo))), Runs(Head(f.todo), FALSE)>>)
        /\ UNCHANGED <<handlers, writer, ret, calls, ticks>>

(* WaitFor returns, with the error if there is one, and unlocks. *)
WaitForReturns(p) ==
    /\ In(p, "wait")
    /\ Top(p).todo = <<>> \/ ret[p] = "error"
    /\ Ends(p, ret[p])
    /\ UNCHANGED <<handlers, writer, calls, ticks>>

(* A handler fires an event of its own. *)
Fire(p) ==
    /\ In(p, "body") /\ ~Top(p).fired
    /\ Body[Top(p).h] \in Call
    /\ Becomes(p, <<Runs(Top(p).h, TRUE), Wants(Body[Top(p).h])>>)
    /\ UNCHANGED <<handlers, writer, ret, calls, ticks>>

(* A handler returns; one that fired an event returns what that gave.  A   *)
(* panic is recovered and returns nil.                                     *)
Return(p) ==
    LET b == Body[Top(p).h]
    IN  /\ In(p, "body")
        /\ b \in Call => Top(p).fired
        /\ Ends(p, CASE b.does = "succeed" -> "nil" [] b.does = "fail" -> "error" [] OTHER -> ret[p])
        /\ UNCHANGED <<handlers, writer, calls, ticks>>

(* Lock announces the writer; it has the lock when the readers are gone.   *)
Announce(p) ==
    /\ In(p, "lock")
    /\ writer = NoProc
    /\ writer' = p
    /\ UNCHANGED <<handlers, stack, ret, calls, ticks>>

Applied(change) ==
    IF change.does = "Register" THEN handlers \cup change.hs ELSE handlers \ change.hs

\* mutant: the writer does not wait for the readers
ApplyAtOnce(p) ==
    /\ In(p, "lock") /\ writer = p
    /\ handlers' = Applied(Top(p).change)
    /\ writer' = NoProc
    /\ Ends(p, "nil")
    /\ UNCHANGED <<calls, ticks>>

\* mutant: the lock is not released
ApplyLocked(p) ==
    /\ In(p, "lock") /\ writer = p
    /\ Readers = {}
    /\ handlers' = Applied(Top(p).change)
    /\ Ends(p, "nil")
    /\ UNCHANGED <<writer, calls, ticks>>

(* Register, Unregister and UnregisterByResource. *)
Apply(p) ==
    /\ In(p, "lock") /\ writer = p
    /\ Readers = {}
    /\ handlers' = Applied(Top(p).change)
    /\ writer' = NoProc
    /\ Ends(p, "nil")
    /\ UNCHANGED <<calls, ticks>>

-----------------------------------------------------------------------------
(* The scheduler: after a delay it fires the events of a tick, and again   *)
(* at every interval, each in a goroutine of its own and whether or not    *)
(* the previous ones are over.  The loop goes on when its context is done. *)
Tick ==
    /\ ticks < MaxTicks
    /\ ticks' = ticks + 1
    /\ CanGo(Scheduled)
    /\ stack' = Started([ev \in Scheduled |-> Wants([does |-> "WaitFor", ev |-> ev])])
    /\ UNCHANGED <<handlers, writer, ret, calls>>

Step(p) ==
    \/ WaitFor(p) \/ Dispatch(p) \/ Handle(p) \/ WaitForReturns(p)
    \/ Fire(p) \/ Return(p) \/ Announce(p) \/ Apply(p)

Next ==
    \/ \E p \in Proc : Step(p)
    \/ \E c \in Caller : Begin(c)
    \/ Tick

(* Some goroutine that can run does.  This is less than Go gives (each     *)
(* goroutine runs, its mutex starves nobody) and enough while MaxCalls     *)
(* bounds the calls.                                                       *)
Fairness == WF_vars(\E p \in Proc : Step(p))

Spec == Init /\ [][Next]_vars /\ Fairness

-----------------------------------------------------------------------------
(* While a WaitFor is under way every handler that it found, the ones that *)
(* ran included, stays registered, no handler joins those, and each has    *)
(* its turn once: a handler that a WaitFor runs never belongs to a trigger *)
(* that was removed before it (eventbus.go:27, "prevent event handling     *)
(* during handler (un)registration").                                      *)
WaitForSeesOneRegistry ==
    \A p \in Proc : \A i \in 1..Len(stack[p]) :
        LET f == stack[p][i]
        IN  f.at = "wait" => /\ ToSet(f.ran \o f.todo) = Found(f.ev)
                             /\ IsInjective(f.ran \o f.todo)

(* A WaitFor that returns nil ran every handler that matches and none of   *)
(* them failed; one that returns an error ran none of a greater weight     *)
(* than the one that failed, which was the last (eventbus.go:62, "waits    *)
(* for each handler and fails on first error").                            *)
FailsOnFirstError ==
    [][\A p \in Proc :
          (In(p, "wait") /\ Len(stack'[p]) < Len(stack[p])) =>
             LET ran == Top(p).ran
                 mayFail(h) == Body[h].does # "succeed" /\ Body[h].does # "Dispatch"
             IN  /\ \A i \in 1..(Len(ran) - 1) : Body[ran[i]].does # "fail"
                 /\ \A h \in ToSet(ran), o \in Found(Top(p).ev) \ ToSet(ran) : Weight[h] <= Weight[o]
                 /\ IF ret[p] = "error" THEN mayFail(Last(ran))
                    ELSE ToSet(ran) = Found(Top(p).ev) /\ \A h \in ToSet(ran) : Body[h].does # "fail"]_vars

(* Every call on the bus ends, and so does every handler and every tick's  *)
(* WaitFor, as long as no handler that a WaitFor runs uses the bus itself  *)
(* (Fired, Scheduled and Body of the instance).                            *)
CallsEnd == (\E p \in Proc : ~Idle(p)) ~> (\A p \in Proc : Idle(p))

=============================================================================
