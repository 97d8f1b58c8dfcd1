------------------------- MODULE MessageBus_proofs -------------------------
(***************************************************************************)
(* The message bus has one listener, and no message to a queue the store   *)
(* knows gets lost, for any number of queues, pushers and reloads.         *)
(***************************************************************************)
EXTENDS MessageBus, TLAPS

Pending == {r \in Reloader : reloader[r] \in {"quit", "reload"}}

\* The bus has the queues that the last successful search found, except while it
\* takes them over, and these are the store's when nobody has a change to report
\* and no search has failed since.
Mirror ==
    /\ watcher \notin {"empty", "fill"} => queues = Usable(searched)
    /\ Pending = {} /\ watcher # "search" /\ ~stale => searched = store

Inv == TypeOK /\ OneListener /\ Mirror

-----------------------------------------------------------------------------
\* initQueues registers nothing but implemented consumers.
LEMMA UsableType ==
    ASSUME NEW s, s \in [Queue -> Consumer \cup {Deleted}]
    PROVE  Usable(s) \in [Queue -> Implemented \cup {Deleted}]
BY DEF Usable

LEMMA EmptyType == Empty \in [Queue -> Implemented \cup {Deleted}]
                   /\ Empty \in [Queue -> Consumer \cup {Deleted}]
BY DEF Empty

LEMMA InitInv == Init => Inv
<1> SUFFICES ASSUME Init PROVE Inv
  OBVIOUS
<1>1. TypeOK
  <2>1. store \in [Queue -> Consumer \cup {Deleted}]
    BY QueueAssumption DEF Init
  <2>2. queues \in [Queue -> Implemented \cup {Deleted}] /\ searched \in [Queue -> Consumer \cup {Deleted}]
    <3>1. searched \in [Queue -> Consumer \cup {Deleted}] /\ queues = Usable(searched)
      BY <2>1, EmptyType DEF Init
    <3>2. QED
      BY <3>1, UsableType
  <2>3. listener \in [Listener -> {"off", "select"} \cup Pusher]
    <3>1. PICK l \in Listener : listener = [m \in Listener |-> IF m = l THEN "select" ELSE "off"]
      BY DEF Init
    <3>2. QED
      BY <3>1
  <2>4. /\ reloader \in [Reloader -> {"idle", "quit", "reload", "ended"}]
        /\ pusher \in [Pusher -> {"idle", "sending", "sent", "written", "unknown", "failed"}]
        /\ watcher \in {"select", "search", "empty", "fill", "listen", "off"}
        /\ done \in BOOLEAN /\ stale \in BOOLEAN
    BY DEF Init
  <2>5. failures \in 0..MaxFailures
    BY QueueAssumption DEF Init
  <2>6. QED
    BY <2>1, <2>2, <2>3, <2>4, <2>5 DEF TypeOK
<1>2. OneListener
  BY DEF Init, OneListener, Live, HandingOver, Reloading
<1>3. Mirror
  BY DEF Init, Mirror
<1>4. QED
  BY <1>1, <1>2, <1>3 DEF Inv

-----------------------------------------------------------------------------
(* What the steps of the reloaders, the watcher and the listener keep *)

LEMMA ChangeInv ==
    ASSUME Inv, NEW r \in Reloader, Change(r)
    PROVE  Inv'
<1>1. TypeOK'
  BY DEF Inv, TypeOK, Change
<1>2. OneListener'
  <2>1. Live' = Live /\ HandingOver' = HandingOver /\ Reloading' = Reloading
    BY DEF Inv, TypeOK, Change, Live, HandingOver, Reloading
  <2>2. QED
    BY <2>1 DEF Inv, Change, OneListener
<1>3. r \in Pending'
  BY DEF Inv, TypeOK, Change, Pending
<1>4. QED
  BY <1>1, <1>2, <1>3 DEF Inv, Mirror, Change, Usable

LEMMA QuitInv ==
    ASSUME Inv, NEW r \in Reloader, NEW l \in Listener, Quit(r, l)
    PROVE  Inv'
<1>1. TypeOK'
  BY DEF Inv, TypeOK, Quit
<1>2. OneListener'
  <2>1. Live = {l} /\ HandingOver = {} /\ ~Reloading
    BY DEF Inv, OneListener, Quit, Live
  <2>2. Live' = {}
    BY <2>1 DEF Inv, TypeOK, Quit, Live
  <2>3. HandingOver' = {r}
    BY <2>1 DEF Inv, TypeOK, Quit, HandingOver
  <2>4. ~Reloading'
    BY <2>1 DEF Quit, Reloading
  <2>5. QED
    BY <2>2, <2>3, <2>4 DEF OneListener
<1>3. r \in Pending'
  BY DEF Inv, TypeOK, Quit, Pending
<1>4. QED
  BY <1>1, <1>2, <1>3 DEF Inv, Mirror, Quit, Usable

LEMMA ReloadInv ==
    ASSUME Inv, NEW r \in Reloader, Reload(r)
    PROVE  Inv'
<1>1. TypeOK'
  BY DEF Inv, TypeOK, Reload
<1>2. OneListener'
  <2>1. HandingOver = {r} /\ Live = {}
    BY DEF Inv, OneListener, Reload, HandingOver
  <2>2. HandingOver' = {}
    BY <2>1 DEF Inv, TypeOK, Reload, HandingOver
  <2>3. Live' = {}
    BY <2>1 DEF Reload, Live
  <2>4. Reloading'
    BY DEF Reload, Reloading
  <2>5. QED
    BY <2>2, <2>3, <2>4 DEF OneListener
<1>3. Mirror'
  BY DEF Reload, Inv, Mirror, Usable
<1>4. QED
  BY <1>1, <1>2, <1>3 DEF Inv

LEMMA WatchesInv ==
    ASSUME Inv, Watches
    PROVE  Inv'
<1> USE DEF Inv
<1>1. Pending' = Pending /\ HandingOver' = HandingOver
  BY DEF Watches, Search, SearchFails, EmptyQueues, FillQueues, Listen, Pending, HandingOver
<1>2. Reloading
  BY DEF Watches, Search, SearchFails, EmptyQueues, FillQueues, Listen, Reloading
<1>3. Live = {} /\ HandingOver = {}
  BY <1>2 DEF OneListener
<1>4. CASE Search
  <2>1. TypeOK'
    BY <1>4 DEF TypeOK, Search
  <2>2. OneListener'
    BY <1>1, <1>3, <1>4 DEF OneListener, Search, Live, Reloading
  <2>3. Mirror'
    BY <1>4 DEF Mirror, Search
  <2>4. QED
    BY <2>1, <2>2, <2>3
<1>5. CASE SearchFails
  <2>1. TypeOK'
    BY <1>5, QueueAssumption DEF TypeOK, SearchFails
  <2>2. OneListener'
    BY <1>1, <1>3, <1>5 DEF OneListener, SearchFails, Live, Reloading
  <2>3. Mirror'
    BY <1>5 DEF Mirror, SearchFails
  <2>4. QED
    BY <2>1, <2>2, <2>3
<1>6. CASE EmptyQueues
  <2>1. TypeOK'
    BY <1>6, EmptyType DEF TypeOK, EmptyQueues
  <2>2. OneListener'
    BY <1>1, <1>3, <1>6 DEF OneListener, EmptyQueues, Live, Reloading
  <2>3. Mirror'
    BY <1>1, <1>6 DEF Mirror, EmptyQueues
  <2>4. QED
    BY <2>1, <2>2, <2>3
<1>7. CASE FillQueues
  <2>1. TypeOK'
    BY <1>7, UsableType, EmptyType DEF TypeOK, FillQueues
  <2>2. OneListener'
    BY <1>1, <1>3, <1>7 DEF OneListener, FillQueues, Live, Reloading
  <2>3. Mirror'
    BY <1>1, <1>7 DEF Mirror, FillQueues
  <2>4. QED
    BY <2>1, <2>2, <2>3
<1>8. CASE Listen
  <2>1. PICK l \in Listener : listener' = [listener EXCEPT ![l] = "select"]
    BY <1>8 DEF Listen
  <2>2. TypeOK'
    BY <1>8, <2>1 DEF TypeOK, Listen
  <2>3. Live' = {l}
    BY <1>3, <2>1 DEF Live, TypeOK
  <2>4. HandingOver' = {} /\ ~Reloading'
    BY <1>1, <1>3, <1>8 DEF Listen, Reloading
  <2>5. OneListener'
    BY <2>3, <2>4 DEF OneListener
  <2>6. Mirror'
    BY <1>1, <1>8 DEF Mirror, Listen
  <2>7. QED
    BY <2>2, <2>5, <2>6
<1>9. QED
  BY <1>4, <1>5, <1>6, <1>7, <1>8 DEF Watches

\* A message, and what becomes of it, leaves the listener where it was.
LEMMA MessageInv ==
    ASSUME Inv,
           \/ \E p \in Pusher : Push(p) \/ \E l \in Listener : Take(l, p)
           \/ \E l \in Listener : Consume(l) \/ ConsumerFails(l)
    PROVE  Inv'
<1> USE DEF Inv
<1>1. TypeOK' /\ Live' = Live
  <2>1. ASSUME NEW p \in Pusher, Push(p) PROVE TypeOK' /\ Live' = Live
    BY <2>1 DEF TypeOK, Push, Live
  <2>2. ASSUME NEW p \in Pusher, NEW l \in Listener, Take(l, p) PROVE TypeOK' /\ Live' = Live
    BY <2>2, QueueAssumption DEF TypeOK, Take, Live
  <2>3. ASSUME NEW l \in Listener, Consume(l) PROVE TypeOK' /\ Live' = Live
    BY <2>3, QueueAssumption DEF TypeOK, Consume, Live
  <2>4. ASSUME NEW l \in Listener, ConsumerFails(l) PROVE TypeOK' /\ Live' = Live
    BY <2>4, QueueAssumption DEF TypeOK, ConsumerFails, Live
  <2>5. QED
    BY <2>1, <2>2, <2>3, <2>4
<1>2. UNCHANGED <<store, queues, watcher, searched, reloader, done, stale>>
  BY DEF Push, Take, Consume, ConsumerFails
<1>3. HandingOver' = HandingOver /\ Reloading' = Reloading /\ Pending' = Pending
  BY <1>2 DEF HandingOver, Reloading, Pending
<1>4. OneListener'
  BY <1>1, <1>2, <1>3 DEF OneListener
<1>5. Mirror'
  BY <1>2, <1>3 DEF Mirror, Usable
<1>6. QED
  BY <1>1, <1>4, <1>5

LEMMA EndsInv ==
    ASSUME Inv, CtxDone \/ WatcherLeaves \/ \E l \in Listener : ListenerLeaves(l)
    PROVE  Inv'
<1> USE DEF Inv
<1>1. CASE CtxDone
  <2>1. Live' = Live /\ HandingOver' = HandingOver /\ Reloading' = Reloading
    BY <1>1 DEF CtxDone, Live, HandingOver, Reloading
  <2>2. TypeOK' /\ OneListener'
    BY <1>1, <2>1 DEF CtxDone, TypeOK, OneListener
  <2>3. Mirror'
    BY <1>1 DEF CtxDone, Mirror, Pending, Usable
  <2>4. QED
    BY <2>2, <2>3
<1>2. CASE WatcherLeaves
  <2>1. Live' = Live /\ HandingOver' = HandingOver /\ ~Reloading'
    BY <1>2 DEF WatcherLeaves, Live, HandingOver, Reloading
  <2>2. TypeOK' /\ OneListener'
    BY <1>2, <2>1 DEF WatcherLeaves, TypeOK, OneListener
  <2>3. Mirror'
    BY <1>2 DEF WatcherLeaves, Mirror, Pending, Usable
  <2>4. QED
    BY <2>2, <2>3
<1>3. ASSUME NEW l \in Listener, ListenerLeaves(l) PROVE Inv'
  <2>1. Live' \subseteq Live /\ HandingOver' = HandingOver /\ Reloading' = Reloading
    BY <1>3 DEF ListenerLeaves, Live, HandingOver, Reloading, TypeOK
  <2>2. TypeOK' /\ OneListener'
    BY <1>3, <2>1 DEF ListenerLeaves, TypeOK, OneListener
  <2>3. Mirror'
    BY <1>3 DEF ListenerLeaves, Mirror, Pending, Usable
  <2>4. QED
    BY <2>2, <2>3
<1>4. QED
  BY <1>1, <1>2, <1>3

LEMMA NextInv == Inv /\ [Next]_vars => Inv'
<1> SUFFICES ASSUME Inv, [Next]_vars PROVE Inv'
  OBVIOUS
<1>1. CASE UNCHANGED vars
  BY <1>1 DEF vars, Inv, TypeOK, OneListener, Mirror, Live, HandingOver, Reloading, Pending, Usable
<1>2. CASE Next
  BY <1>2, ChangeInv, QuitInv, ReloadInv, WatchesInv, MessageInv, EndsInv DEF Next, Reloads, Listens
<1>3. QED
  BY <1>1, <1>2

\* The bus keeps its invariant.
THEOREM Invariance == Spec => []Inv
BY InitInv, NextInv, PTL DEF Spec

-----------------------------------------------------------------------------
\* What the bus's variables hold (service.go:30): no consumer that is not implemented is ever registered.
THEOREM TypeCorrect == Spec => []TypeOK
<1>1. Inv => TypeOK
  BY DEF Inv
<1>2. QED
  BY <1>1, Invariance, PTL

\* However many reloads there are, and whatever they overlap with, one
\* listener runs or is on its way (service.go:118-145).
THEOREM OneListenerAlways == Spec => []OneListener
<1>1. Inv => OneListener
  BY DEF Inv
<1>2. QED
  BY <1>1, Invariance, PTL

ServedStep ==
    \A p \in Pusher : pusher'[p] = "unknown" /\ pusher[p] # "unknown" =>
        /\ ~Reloading
        /\ searched[To[p]] \notin Implemented
        /\ store[To[p]] \in Implemented =>
              stale \/ \E r \in Reloader : reloader[r] \in {"quit", "reload"}

\* Only Consume finds a queue unknown, with a listener at work.
LEMMA ServedStepOfNext == Inv /\ [Next]_vars => [ServedStep]_vars
<1> SUFFICES ASSUME Inv, Next, NEW p \in Pusher, pusher'[p] = "unknown", pusher[p] # "unknown"
             PROVE  /\ ~Reloading
                    /\ searched[To[p]] \notin Implemented
                    /\ store[To[p]] \in Implemented => stale \/ Pending # {}
  BY DEF ServedStep, Pending
<1>1. PICK l \in Listener : Consume(l)
  BY DEF Next, Reloads, Watches, Listens, Change, Quit, Reload, Search, SearchFails, EmptyQueues,
         FillQueues, Listen, Push, Take, ConsumerFails, CtxDone, ListenerLeaves, WatcherLeaves, Inv, TypeOK
<1>2. listener[l] = p /\ queues[To[p]] = Deleted
  BY <1>1, QueueAssumption DEF Consume, Inv, TypeOK
<1>3. l \in Live
  BY <1>2, QueueAssumption DEF Live
<1>4. ~Reloading
  BY <1>3 DEF Inv, OneListener
<1>5. searched[To[p]] \notin Implemented
  <2>1. queues = Usable(searched)
    BY <1>4 DEF Inv, Mirror, Reloading
  <2>2. To[p] \in Queue /\ Deleted \notin Implemented
    BY QueueAssumption
  <2>3. QED
    BY <1>2, <2>1, <2>2 DEF Usable
<1>6. ASSUME store[To[p]] \in Implemented, ~stale, Pending = {} PROVE FALSE
  <2>1. searched = store
    BY <1>4, <1>6 DEF Inv, Mirror, Reloading
  <2>2. QED
    BY <1>5, <1>6, <2>1
<1>7. QED
  BY <1>4, <1>5, <1>6

\* A message is dropped as unknown only if the last successful search did not
\* find its queue with an implemented consumer (service.go:84-94), whatever
\* reloads and failed searches there are; one that the store has by then waits
\* for a reload, or for a search that does not fail.
THEOREM KnownServed == Spec => KnownQueuesServed
<1>1. Spec => [][ServedStep]_vars
  BY Invariance, ServedStepOfNext, PTL DEF Spec
<1>2. QED
  BY <1>1, PTL DEF KnownQueuesServed, ServedStep
=============================================================================
