---------------------------- MODULE MessageBus ----------------------------
(***************************************************************************)
(* The message bus (pkg/messagebus) and the queue service that reloads it  *)
(* (system/service/queue.go).  One listener takes messages from pushers    *)
(* and gives them to the consumer of their queue.  A change of the queues  *)
(* in the store starts a goroutine that makes the listener quit and then   *)
(* makes the watcher search the queues and start a listener again.  The    *)
(* three channels are unbuffered: a send is one step with its receive.     *)
(***************************************************************************)
EXTENDS Naturals

CONSTANTS
    Queue,
    Consumer,     \* consumers a queue may have: the ones initConsumer implements ...
    Implemented,  \* ... among those the queue service accepts
    Boots,        \* the queues in the store when the server starts
    Deleted,      \* in place of a consumer: no such queue, or a deleted one
    Pusher,       \* goroutines that push a message
    To,           \* [Pusher -> the queue it pushes to]
    Reloader,     \* goroutines that ReloadQueues starts, one for a change
    Listener,     \* goroutines that Listen starts
    MaxFailures   \* bound on the searches that fail

ASSUME QueueAssumption ==
    /\ Implemented \subseteq Consumer /\ Deleted \notin Consumer
    /\ Pusher \cap {"off", "select"} = {}
    /\ MaxFailures \in Nat
    /\ To \in [Pusher -> Queue] /\ Boots \subseteq [Queue -> Consumer \cup {Deleted}]

VARIABLES
    store,    \* [Queue -> its consumer in the store]
    queues,   \* mb.queues
    listener, \* [Listener -> what it does]
    watcher,  \* what the watcher does
    searched, \* what the last search of the queues that succeeded found
    reloader, \* [Reloader -> what it does]
    pusher,   \* [Pusher -> what it does, or what became of its message]
    done,     \* the context is done
    failures, \* number of searches that failed
    stale     \* ghost: the last search failed

vars == <<store, queues, listener, watcher, searched, reloader, pusher, done, failures, stale>>

\* what initQueues registers: the queues whose consumer is implemented
Usable(s) == [q \in Queue |-> IF s[q] \in Implemented THEN s[q] ELSE Deleted]
Empty     == [q \in Queue |-> Deleted]

(* Booted, with Init, Listen and Watch called in this order; a search that *)
(* fails here is no more reported than a later one.                        *)
Init ==
    /\ store \in Boots
    /\ \/ searched = store /\ failures = 0 /\ stale = FALSE
       \/ searched = Empty /\ failures = 1 /\ failures <= MaxFailures /\ stale = TRUE
    /\ queues = Usable(searched)
    /\ \E l \in Listener : listener = [m \in Listener |-> IF m = l THEN "select" ELSE "off"]
    /\ watcher = "select"
    /\ reloader = [r \in Reloader |-> "idle"]
    /\ pusher = [p \in Pusher |-> "idle"]
    /\ done = FALSE

-----------------------------------------------------------------------------
(* The queue service changes the store: it creates, updates, deletes or    *)
(* undeletes a queue, and calls ReloadQueues.                              *)

\* mutant: the watcher is signalled first
ChangeReloads(r) ==
    /\ reloader[r] = "idle"
    /\ \E q \in Queue, c \in Consumer \cup {Deleted} :
          c # store[q] /\ store' = [store EXCEPT ![q] = c]
    /\ reloader' = [reloader EXCEPT ![r] = "reload"]
    /\ UNCHANGED <<queues, listener, watcher, searched, pusher, done, failures, stale>>

Change(r) ==
    /\ reloader[r] = "idle"
    /\ \E q \in Queue, c \in Consumer \cup {Deleted} :
          c # store[q] /\ store' = [store EXCEPT ![q] = c]
    /\ reloader' = [reloader EXCEPT ![r] = "quit"]
    /\ UNCHANGED <<queues, listener, watcher, searched, pusher, done, failures, stale>>

\* mutant: the reload is given up when the listener is busy
QuitOrSkip(r, l) ==
    /\ reloader[r] = "quit"
    /\ listener' = [listener EXCEPT ![l] = IF @ = "select" THEN "off" ELSE @]
    /\ reloader' = [reloader EXCEPT ![r] = IF listener[l] = "select" THEN "reload" ELSE "ended"]
    /\ UNCHANGED <<store, queues, watcher, searched, pusher, done, failures, stale>>

(* mb.quit *)
Quit(r, l) ==
    /\ reloader[r] = "quit"
    /\ listener[l] = "select"
    /\ listener' = [listener EXCEPT ![l] = "off"]
    /\ reloader' = [reloader EXCEPT ![r] = "reload"]
    /\ UNCHANGED <<store, queues, watcher, searched, pusher, done, failures, stale>>

(* mb.reload *)
Reload(r) ==
    /\ reloader[r] = "reload"
    /\ watcher = "select"
    /\ watcher' = "search"
    /\ reloader' = [reloader EXCEPT ![r] = "ended"]
    /\ UNCHANGED <<store, queues, listener, searched, pusher, done, failures, stale>>

-----------------------------------------------------------------------------
(* The watcher: Init and initQueues, which drops what a failed search      *)
(* reports, and Listen.                                                    *)
Search ==
    /\ watcher = "search"
    /\ searched' = store
    /\ watcher' = "empty"
    /\ stale' = FALSE
    /\ UNCHANGED <<store, queues, listener, reloader, pusher, done, failures>>

\* mutant: the queues are emptied before the search
SearchFailsEmptied ==
    /\ watcher = "search"
    /\ failures < MaxFailures
    /\ failures' = failures + 1
    /\ queues' = Empty
    /\ watcher' = "listen"
    /\ stale' = TRUE
    /\ UNCHANGED <<store, listener, searched, reloader, pusher, done>>

\* mutant: a failed search is the end of the reload
SearchFailsForGood ==
    /\ watcher = "search"
    /\ failures < MaxFailures
    /\ failures' = failures + 1
    /\ watcher' = "select"
    /\ stale' = TRUE
    /\ UNCHANGED <<store, queues, listener, searched, reloader, pusher, done>>

SearchFails ==
    /\ watcher = "search"
    /\ failures < MaxFailures
    /\ failures' = failures + 1
    /\ watcher' = "listen"
    /\ stale' = TRUE
    /\ UNCHANGED <<store, queues, listener, searched, reloader, pusher, done>>

EmptyQueues ==
    /\ watcher = "empty"
    /\ queues' = Empty
    /\ watcher' = "fill"
    /\ UNCHANGED <<store, listener, searched, reloader, pusher, done, failures, stale>>

\* mutant: consumers that are not implemented are registered
FillAll ==
    /\ watcher = "fill"
    /\ queues' = searched
    /\ watcher' = "listen"
    /\ UNCHANGED <<store, searched, listener, reloader, pusher, done, failures, stale>>

FillQueues ==
    /\ watcher = "fill"
    /\ queues' = Usable(searched)
    /\ watcher' = "listen"
    /\ UNCHANGED <<store, searched, listener, reloader, pusher, done, failures, stale>>

Listen ==
    /\ watcher = "listen"
    /\ \E l \in Listener :
          /\ listener[l] = "off"
          /\ listener' = [listener EXCEPT ![l] = "select"]
    /\ watcher' = "select"
    /\ UNCHANGED <<store, queues, searched, reloader, pusher, done, failures, stale>>

-----------------------------------------------------------------------------
(* A goroutine pushes a message (queue_handler.go gives each its own). *)
Push(p) ==
    /\ pusher[p] = "idle"
    /\ pusher' = [pusher EXCEPT ![p] = "sending"]
    /\ UNCHANGED <<store, queues, listener, watcher, searched, reloader, done, failures, stale>>

(* mb.in *)
Take(l, p) ==
    /\ listener[l] = "select" /\ pusher[p] = "sending"
    /\ listener' = [listener EXCEPT ![l] = p]
    /\ pusher' = [pusher EXCEPT ![p] = "sent"]
    /\ UNCHANGED <<store, queues, watcher, searched, reloader, done, failures, stale>>

(* The listener gives the message to the consumer of its queue, if there   *)
(* is one; a consumer that stores it may fail.                             *)
Consume(l) ==
    \E p \in Pusher :
        /\ listener[l] = p
        /\ listener' = [listener EXCEPT ![l] = "select"]
        /\ pusher' = [pusher EXCEPT ![p] = IF queues[To[p]] = Deleted THEN "unknown" ELSE "written"]
        /\ UNCHANGED <<store, queues, watcher, searched, reloader, done, failures, stale>>

ConsumerFails(l) ==
    \E p \in Pusher :
        /\ listener[l] = p /\ queues[To[p]] = "store"
        /\ listener' = [listener EXCEPT ![l] = "select"]
        /\ pusher' = [pusher EXCEPT ![p] = "failed"]
        /\ UNCHANGED <<store, queues, watcher, searched, reloader, done, failures, stale>>

(* The context is done: the listener and the watcher leave when they are   *)
(* waiting, unless they are given something else to do first.              *)
CtxDone ==
    /\ ~done
    /\ done' = TRUE
    /\ UNCHANGED <<store, queues, listener, watcher, searched, reloader, pusher, failures, stale>>

ListenerLeaves(l) ==
    /\ done /\ listener[l] = "select"
    /\ listener' = [listener EXCEPT ![l] = "off"]
    /\ UNCHANGED <<store, queues, watcher, searched, reloader, pusher, done, failures, stale>>

WatcherLeaves ==
    /\ done /\ watcher = "select"
    /\ watcher' = "off"
    /\ UNCHANGED <<store, queues, listener, searched, reloader, pusher, done, failures, stale>>

-----------------------------------------------------------------------------
Reloads == \E r \in Reloader : Reload(r) \/ \E l \in Listener : Quit(r, l)
Watches == Search \/ SearchFails \/ EmptyQueues \/ FillQueues \/ Listen
Listens == \E l \in Listener : Consume(l) \/ ConsumerFails(l)

Next ==
    \/ Reloads \/ Watches \/ Listens
    \/ \E r \in Reloader : Change(r)
    \/ \E p \in Pusher : Push(p) \/ \E l \in Listener : Take(l, p)
    \/ CtxDone \/ WatcherLeaves \/ \E l \in Listener : ListenerLeaves(l)

(* The goroutines run, and a select that may take a message or quit does   *)
(* not take the same branch for ever.                                      *)
Fairness ==
    /\ WF_vars(Watches) /\ WF_vars(Listens)
    /\ \A r \in Reloader : SF_vars(Reload(r)) /\ SF_vars(\E l \in Listener : Quit(r, l))
    /\ \A p \in Pusher : SF_vars(\E l \in Listener : Take(l, p))

Spec == Init /\ [][Next]_vars /\ Fairness

-----------------------------------------------------------------------------
TypeOK ==
    /\ store \in [Queue -> Consumer \cup {Deleted}]
    /\ queues \in [Queue -> Implemented \cup {Deleted}]
    /\ searched \in [Queue -> Consumer \cup {Deleted}]
    /\ listener \in [Listener -> {"off", "select"} \cup Pusher]
    /\ watcher \in {"select", "search", "empty", "fill", "listen", "off"}
    /\ reloader \in [Reloader -> {"idle", "quit", "reload", "ended"}]
    /\ pusher \in [Pusher -> {"idle", "sending", "sent", "written", "unknown", "failed"}]
    /\ done \in BOOLEAN /\ failures \in 0..MaxFailures /\ stale \in BOOLEAN

Live         == {l \in Listener : listener[l] # "off"}
HandingOver  == {r \in Reloader : reloader[r] = "reload"}
Reloading    == watcher \in {"search", "empty", "fill", "listen"}

(* However many reloads overlap, there is one listener or one of them has  *)
(* it on its way, never both and never two: no message is taken while the  *)
(* queues, which have no lock that the listener takes, are rewritten       *)
(* (service.go:84, 181), and none waits for a listener that nobody starts. *)
OneListener ==
    /\ \A l, m \in Live : l = m
    /\ \A r, o \in HandingOver : r = o
    /\ Live = {} \/ HandingOver = {}
    /\ Reloading => Live = {} /\ HandingOver = {}
    /\ done \/ Live # {} \/ HandingOver # {} \/ Reloading

(* A message is dropped as unknown only if the last search that succeeded, *)
(* if one did, did not find its queue with an implemented consumer:        *)
(* neither reloads nor searches that fail make the bus forget a queue.  If *)
(* the store has the queue all the same, it was created or given that      *)
(* consumer since, and the reload that will tell the bus is still to come, *)
(* or a search has failed since.                                           *)
KnownQueuesServed ==
    [][\A p \in Pusher : pusher'[p] = "unknown" /\ pusher[p] # "unknown" =>
          /\ ~Reloading
          /\ searched[To[p]] \notin Implemented
          /\ store[To[p]] \in Implemented =>
                stale \/ \E r \in Reloader : reloader[r] \in {"quit", "reload"}]_vars

(* A change of the queues reaches the bus, unless the search fails or the  *)
(* server stops.                                                           *)
QueuesFollowStore == (queues # Usable(store)) ~> (queues = Usable(store) \/ stale \/ done)

(* Every push ends, a failed search or a store that fails notwithstanding. *)
PushesEnd == \A p \in Pusher : pusher[p] = "sending" ~> (pusher[p] # "sending" \/ done)
=============================================================================
