----------------------------- MODULE Websocket -----------------------------
(***************************************************************************)
(* The websocket server (pkg/websocket): the sessions of users, to which   *)
(* Send delivers.  A session has three goroutines: one reads, one writes,  *)
(* and one closes the connection when nobody has identified himself in     *)
(* time.  Each of them may close the session, once.                        *)
(*                                                                         *)
(* Both locks are Go RWMutexes: a goroutine that wants to write keeps new  *)
(* readers out.  Reading a message holds the session's lock for reading    *)
(* until there is one or the connection's deadline passes.                 *)
(***************************************************************************)
EXTENDS Naturals, FiniteSets

CONSTANTS
    Session,
    Sender,   \* whoever calls Send
    Nobody

ASSUME NameAssumption == {Sender, Nobody} \cap Session = {} /\ Sender # Nobody

Goroutine == {"reader", "writer", "timer"}

VARIABLES
    conn,     \* [Session -> "open" or "broken": the connection, as its ends see it]
    closed,   \* [Session -> times disconnect closed the connection and the channels]
    identity, \* [Session -> is the user known?]
    once,     \* [Session -> the sync.Once of Close]
    at,       \* [Session -> [Goroutine -> where it is]]
    readers,  \* [Session -> goroutines that hold s.l for reading]
    writer,   \* [Session -> who holds s.l for writing, or waits for its readers]
    stored,   \* sessions in the server's map
    l,        \* whose goroutine holds ws.l: a session's, the sender, or Nobody
    sender,   \* is a Send idle, waiting or under way?
    late      \* ghost: sessions closed while their credentials were processed

vars == <<conn, closed, identity, once, at, readers, writer, stored, l, sender, late>>

Init ==
    /\ conn = [s \in Session |-> "open"]
    /\ closed = [s \in Session |-> 0]
    /\ identity = [s \in Session |-> FALSE]
    /\ once = [s \in Session |-> "new"]
    /\ at = [s \in Session |-> [reader |-> "loop", writer |-> "select", timer |-> "sleep"]]
    /\ readers = [s \in Session |-> {}]
    /\ writer = [s \in Session |-> Nobody]
    /\ stored = {}
    /\ l = Nobody
    /\ sender = "idle"
    /\ late = {}

-----------------------------------------------------------------------------
Gone(s) == closed[s] > 0

Goes(s, g, to) == at' = [at EXCEPT ![s][g] = to]

(* s.l *)
RLock(s, g)   == writer[s] = Nobody /\ readers' = [readers EXCEPT ![s] = @ \cup {g}]
RUnlock(s, g) == readers' = [readers EXCEPT ![s] = @ \ {g}]
Announce(s, g) == writer[s] = Nobody /\ writer' = [writer EXCEPT ![s] = g]
CanWrite(s, g) == writer[s] = g /\ readers[s] = {}
Unlock(s)      == writer' = [writer EXCEPT ![s] = Nobody]

locks == <<readers, writer, l>>
facts == <<conn, closed, identity, once, stored, sender, late>>

(* The peer, or the network, is gone. *)
Break(s) ==
    /\ conn[s] = "open" /\ ~Gone(s)
    /\ conn' = [conn EXCEPT ![s] = "broken"]
    /\ UNCHANGED <<closed, identity, once, at, readers, writer, stored, l, sender, late>>

-----------------------------------------------------------------------------
(* The reader: read takes the lock, and gives it back with what it got. *)
Read(s) ==
    /\ at[s]["reader"] = "loop"
    /\ RLock(s, "reader")
    /\ Goes(s, "reader", "reading")
    /\ UNCHANGED <<facts, writer, l>>

(* A message: credentials that are good, or anything else. *)
Message(s) ==
    /\ at[s]["reader"] = "reading" /\ conn[s] = "open" /\ ~Gone(s)
    /\ RUnlock(s, "reader")
    /\ \E to \in {"auth", "close"} : Goes(s, "reader", to)
    /\ UNCHANGED <<facts, writer, l>>

(* Without one read ends with an error, after the deadline at the latest:  *)
(* the peer is gone, or it gets no pings while somebody waits for the      *)
(* lock.  A panic (a session without connection; the read that gorilla     *)
(* refuses after many reads of a connection that was closed normally, which *)
(* errHandler reports as none) ends the reader without closing.            *)
ReadEnds(s) ==
    /\ at[s]["reader"] = "reading"
    /\ conn[s] = "broken" \/ Gone(s) \/ writer[s] # Nobody
    /\ RUnlock(s, "reader")
    /\ IF Gone(s) THEN Goes(s, "reader", "ended")
       ELSE \E to \in {"close", "ended"} :
               /\ to = "ended" => conn[s] = "broken"
               /\ Goes(s, "reader", to)
    /\ UNCHANGED <<facts, writer, l>>

(* authenticate, with its call of Write under the lock, and StoreSession. *)
AuthLock(s) ==
    /\ at[s]["reader"] = "auth"
    /\ Announce(s, "reader")
    /\ UNCHANGED <<facts, at, readers, l>>

Authenticate(s) ==
    /\ at[s]["reader"] = "auth" /\ CanWrite(s, "reader")
    /\ Unlock(s)
    /\ identity' = [identity EXCEPT ![s] = TRUE]
    /\ Goes(s, "reader", "store")
    /\ UNCHANGED <<conn, closed, once, stored, sender, late, readers, l>>

StoreLock(s) ==
    /\ at[s]["reader"] = "store"
    /\ l = Nobody
    /\ l' = s
    /\ Goes(s, "reader", "storing")
    /\ UNCHANGED <<facts, readers, writer>>

StoreSession(s) ==
    /\ at[s]["reader"] = "storing"
    /\ writer[s] = Nobody
    /\ stored' = IF identity[s] THEN stored \cup {s} ELSE stored
    /\ l' = Nobody
    /\ Goes(s, "reader", "loop")
    /\ UNCHANGED <<conn, closed, identity, once, sender, late, readers, writer>>

-----------------------------------------------------------------------------
(* The writer: a message or a ping, or the closed channels. *)
Select(s) ==
    /\ at[s]["writer"] = "select"
    /\ \E to \in {"ping", "close"} :
          /\ to = "close" => Gone(s)
          /\ Goes(s, "writer", to)
    /\ UNCHANGED <<facts, locks>>

WriteLock(s) ==
    /\ at[s]["writer"] = "ping"
    /\ RLock(s, "writer")
    /\ Goes(s, "writer", "writing")
    /\ UNCHANGED <<facts, writer, l>>

\* mutant: writeLoop does not close the session
WroteOnly(s) ==
    /\ at[s]["writer"] = "writing"
    /\ RUnlock(s, "writer")
    /\ Goes(s, "writer", IF conn[s] = "open" /\ ~Gone(s) THEN "select" ELSE "ended")
    /\ UNCHANGED <<facts, writer, l>>

(* A write to a connection that is gone fails, or panics and is recovered: *)
(* writeLoop returns and closes.                                           *)
Wrote(s) ==
    /\ at[s]["writer"] = "writing"
    /\ RUnlock(s, "writer")
    /\ Goes(s, "writer", IF conn[s] = "open" /\ ~Gone(s) THEN "select" ELSE "close")
    /\ UNCHANGED <<facts, writer, l>>

(* The timer: five seconds after Handle. *)
Timer(s) ==
    /\ at[s]["timer"] = "sleep"
    /\ writer[s] = Nobody
    /\ Goes(s, "timer", IF identity[s] THEN "ended" ELSE "close")
    /\ UNCHANGED <<facts, locks>>

-----------------------------------------------------------------------------
\* mutant: every goroutine disconnects, without sync.Once
CloseEach(s, g) ==
    /\ at[s][g] = "close"
    /\ Goes(s, g, "disconnect")
    /\ UNCHANGED <<facts, locks>>

(* Close: the first closes, the others wait for it. *)
Close(s, g) ==
    /\ at[s][g] = "close"
    /\ once[s] # "running"
    /\ once' = [once EXCEPT ![s] = IF @ = "new" THEN "running" ELSE @]
    /\ Goes(s, g, IF once[s] = "new" THEN "disconnect" ELSE "ended")
    /\ UNCHANGED <<conn, closed, identity, stored, sender, late, locks>>

DisconnectLock(s, g) ==
    /\ at[s][g] = "disconnect"
    /\ Announce(s, g)
    /\ UNCHANGED <<facts, at, readers, l>>

disconnect(s, g) ==
    /\ at[s][g] = "disconnect" /\ CanWrite(s, g)
    /\ Unlock(s)
    /\ closed' = [closed EXCEPT ![s] = @ + 1]
    /\ late' = IF at[s]["reader"] \in {"auth", "store"} THEN late \cup {s} ELSE late
    /\ Goes(s, g, "remove")
    /\ UNCHANGED <<conn, identity, once, stored, sender, readers, l>>

RemoveLock(s, g) ==
    /\ at[s][g] = "remove"
    /\ l = Nobody
    /\ l' = s
    /\ Goes(s, g, "removing")
    /\ UNCHANGED <<facts, readers, writer>>

\* mutant: the server's lock is not given back
RemoveLocked(s, g) ==
    /\ at[s][g] = "removing"
    /\ writer[s] = Nobody
    /\ stored' = stored \ {s}
    /\ once' = [once EXCEPT ![s] = "done"]
    /\ Goes(s, g, "ended")
    /\ UNCHANGED <<conn, closed, identity, sender, late, locks>>

\* mutant: only sessions that still have a connection are removed
RemoveOpen(s, g) ==
    /\ at[s][g] = "removing"
    /\ writer[s] = Nobody
    /\ stored' = IF Gone(s) THEN stored ELSE stored \ {s}
    /\ l' = Nobody
    /\ once' = [once EXCEPT ![s] = "done"]
    /\ Goes(s, g, "ended")
    /\ UNCHANGED <<conn, closed, identity, sender, late, readers, writer>>

RemoveSession(s, g) ==
    /\ at[s][g] = "removing"
    /\ writer[s] = Nobody
    /\ stored' = IF identity[s] THEN stored \ {s} ELSE stored
    /\ l' = Nobody
    /\ once' = [once EXCEPT ![s] = "done"]
    /\ Goes(s, g, "ended")
    /\ UNCHANGED <<conn, closed, identity, sender, late, readers, writer>>

-----------------------------------------------------------------------------
(* Send: under the server's lock every session of the map is given the     *)
(* message; one whose queue is full is given up after two milliseconds,    *)
(* and the panic of one that is closed is recovered.                       *)
Call ==
    /\ sender = "idle"
    /\ sender' = "waiting"
    /\ UNCHANGED <<conn, closed, identity, once, at, readers, writer, stored, l, late>>

Send ==
    /\ \/ sender = "waiting" /\ l = Nobody /\ sender' = "sending" /\ l' = Sender
       \/ sender = "sending" /\ sender' = "idle" /\ l' = Nobody
    /\ UNCHANGED <<conn, closed, identity, once, at, readers, writer, stored, late>>

ReaderStep(s) == Read(s) \/ ReadEnds(s) \/ AuthLock(s) \/ Authenticate(s) \/ StoreLock(s) \/ StoreSession(s)
WriterStep(s) == Select(s) \/ WriteLock(s) \/ Wrote(s)
CloseStep(s, g) ==
    \/ Close(s, g) \/ DisconnectLock(s, g) \/ disconnect(s, g) \/ RemoveLock(s, g) \/ RemoveSession(s, g)

Next ==
    \/ Call \/ Send
    \/ \E s \in Session :
          \/ Break(s) \/ Message(s) \/ ReaderStep(s) \/ WriterStep(s) \/ Timer(s)
          \/ \E g \in Goroutine : CloseStep(s, g)

(* The goroutines run, and a Go mutex starves nobody who waits for it.     *)
(* Peers need not send anything, nor need anybody call Send.               *)
Fairness ==
    /\ SF_vars(Send)
    /\ \A s \in Session :
          /\ SF_vars(ReaderStep(s)) /\ SF_vars(WriterStep(s)) /\ SF_vars(Timer(s))
          /\ \A g \in Goroutine : SF_vars(CloseStep(s, g))

Spec == Init /\ [][Next]_vars /\ Fairness

-----------------------------------------------------------------------------
Places == {"loop", "reading", "auth", "store", "storing", "select", "ping", "writing", "sleep",
           "close", "disconnect", "remove", "removing", "ended"}

TypeOK ==
    /\ conn \in [Session -> {"open", "broken"}] /\ closed \in [Session -> 0..1]
    /\ identity \in [Session -> BOOLEAN] /\ once \in [Session -> {"new", "running", "done"}]
    /\ at \in [Session -> [Goroutine -> Places]]
    /\ readers \in [Session -> SUBSET Goroutine] /\ writer \in [Session -> Goroutine \cup {Nobody}]
    /\ stored \subseteq Session /\ late \subseteq Session
    /\ l \in Session \cup {Sender, Nobody}
    /\ sender \in {"idle", "waiting", "sending"}

(* A session that has been closed is not in the server's map, whichever of *)
(* its goroutines closed it, unless its credentials were being processed:  *)
(* then the reader puts it there after Close removed it (session.go:222).  *)
ClosedAreRemoved == \A s \in Session : once[s] = "done" /\ s \in stored => s \in late

(* A session whose connection is gone is closed, though the reader may     *)
(* have left without closing it, and holds the lock that closing needs     *)
(* until its deadline; and so is one that nobody identifies himself for,   *)
(* unless somebody does at the last moment.                                *)
BrokenAreClosed ==
    \A s \in Session :
        /\ conn[s] = "broken" ~> once[s] = "done"
        /\ <>(once[s] = "done" \/ identity[s])

(* Send gets through: the server's lock, which is held while a session's   *)
(* own is waited for, comes free.                                          *)
SendEnds == sender = "waiting" ~> sender = "idle"
=============================================================================
