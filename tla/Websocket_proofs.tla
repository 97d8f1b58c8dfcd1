-------------------------- MODULE Websocket_proofs --------------------------
(***************************************************************************)
(* A closed session is not delivered to, for any number of sessions.       *)
(***************************************************************************)
EXTENDS Websocket, TLAPS

Closing == {"disconnect", "remove", "removing"}
Storing == {"storing", "removing"}

\* one goroutine closes a session, and disconnects it once
OnceOK(s) ==
    /\ once[s] # "running" => \A g \in Goroutine : at[s][g] \notin Closing
    /\ \A g, h \in Goroutine : at[s][g] \in Closing /\ at[s][h] \in Closing => g = h
    /\ closed[s] = IF once[s] = "new" \/ \E g \in Goroutine : at[s][g] = "disconnect" THEN 0 ELSE 1

\* whoever changes the server's map of sessions has its lock alone
LockOK(s) ==
    /\ \A g \in Goroutine : at[s][g] \in Storing => l = s
    /\ \A g, h \in Goroutine : at[s][g] \in Storing /\ at[s][h] \in Storing => g = h

\* a reader that may still store the session has been noted
LateOK(s) ==
    /\ closed[s] = 1 /\ at[s]["reader"] \in {"auth", "store"} => s \in late
    /\ once[s] = "done" /\ at[s]["reader"] = "storing" => s \in late
    /\ once[s] = "done" /\ s \in stored => s \in late
    /\ s \in stored => identity[s]

SenderOK == sender = "sending" => l = Sender

Inv == TypeOK /\ SenderOK /\ \A s \in Session : OnceOK(s) /\ LockOK(s) /\ LateOK(s)

-----------------------------------------------------------------------------
LEMMA InitInv == Init => Inv
<1> SUFFICES ASSUME Init PROVE Inv
  OBVIOUS
<1>1. TypeOK
  BY DEF Init, TypeOK, Goroutine, Places
<1>2. \A s \in Session, g \in Goroutine : at[s][g] \in {"loop", "select", "sleep"}
  BY DEF Init, Goroutine
<1>3. ASSUME NEW s \in Session PROVE OnceOK(s) /\ LockOK(s) /\ LateOK(s)
  BY <1>2, <1>3 DEF Init, OnceOK, LockOK, LateOK, Closing, Storing, Goroutine
<1>4. QED
  BY <1>1, <1>3 DEF Inv, SenderOK, Init

\* Where the goroutines are after one has moved.
LEMMA Moved ==
    ASSUME TypeOK, NEW s \in Session, NEW g \in Goroutine, NEW to \in Places, Goes(s, g, to)
    PROVE  /\ at' \in [Session -> [Goroutine -> Places]]
           /\ \A x \in Session, h \in Goroutine :
                  at'[x][h] = IF x = s /\ h = g THEN to ELSE at[x][h]
BY DEF TypeOK, Goes

SafeNext == \A x \in Session : OnceOK(x)' /\ LockOK(x)' /\ LateOK(x)'

\* A step that closes and stores nothing.
LEMMA Harmless ==
    ASSUME Inv, NEW s \in Session, NEW g \in Goroutine, NEW to \in Places, Goes(s, g, to),
           at[s][g] \notin Closing \cup Storing, to \notin Closing \cup Storing,
           to \in {"auth", "store"} => closed[s] = 0 \/ at[s]["reader"] \in {"auth", "store"},
           to \in {"auth", "store"} => g = "reader",
           UNCHANGED <<closed, once, stored, late, l>>,
           \A x \in Session : identity[x] => identity'[x]
    PROVE  SafeNext
<1> SUFFICES ASSUME NEW x \in Session PROVE OnceOK(x)' /\ LockOK(x)' /\ LateOK(x)'
  BY DEF SafeNext
<1>1. TypeOK /\ OnceOK(x) /\ LockOK(x) /\ LateOK(x)
  BY DEF Inv
<1>2. \A h \in Goroutine : at'[x][h] = IF x = s /\ h = g THEN to ELSE at[x][h]
  BY <1>1, Moved
<1>3. OnceOK(x)'
  BY <1>1, <1>2 DEF OnceOK, Closing
<1>4. LockOK(x)'
  BY <1>1, <1>2 DEF LockOK, Storing
<1>5. LateOK(x)'
  BY <1>1, <1>2 DEF LateOK, Storing, Closing, Goroutine
<1>6. QED
  BY <1>3, <1>4, <1>5

-----------------------------------------------------------------------------
(* Types *)

LEMMA TypeNext == TypeOK /\ (\A s \in Session : OnceOK(s)) /\ [Next]_vars => TypeOK'
<1> SUFFICES ASSUME TypeOK, \A s \in Session : OnceOK(s), [Next]_vars PROVE TypeOK'
  OBVIOUS
<1> USE DEF TypeOK, Goes, Places, Goroutine
<1>1. CASE UNCHANGED vars
  BY <1>1 DEF vars
<1>2. CASE Call \/ Send
  BY <1>2 DEF Call, Send
<1>3. ASSUME NEW s \in Session, Break(s) PROVE TypeOK'
  BY <1>3 DEF Break
<1>4. ASSUME NEW s \in Session, Message(s) PROVE TypeOK'
  BY <1>4 DEF Message, RUnlock, facts
<1>5. ASSUME NEW s \in Session, Read(s) PROVE TypeOK'
  BY <1>5 DEF Read, RLock, facts
<1>6. ASSUME NEW s \in Session, ReadEnds(s) PROVE TypeOK'
  BY <1>6 DEF ReadEnds, RUnlock, facts
<1>7. ASSUME NEW s \in Session, AuthLock(s) PROVE TypeOK'
  BY <1>7 DEF AuthLock, Announce, facts
<1>8. ASSUME NEW s \in Session, Authenticate(s) PROVE TypeOK'
  BY <1>8 DEF Authenticate, Unlock
<1>9. ASSUME NEW s \in Session, StoreLock(s) PROVE TypeOK'
  BY <1>9 DEF StoreLock, facts
<1>10. ASSUME NEW s \in Session, StoreSession(s) PROVE TypeOK'
  BY <1>10 DEF StoreSession
<1>11. ASSUME NEW s \in Session, Select(s) PROVE TypeOK'
  BY <1>11 DEF Select, facts, locks
<1>12. ASSUME NEW s \in Session, WriteLock(s) PROVE TypeOK'
  BY <1>12 DEF WriteLock, RLock, facts
<1>13. ASSUME NEW s \in Session, Wrote(s) PROVE TypeOK'
  BY <1>13 DEF Wrote, RUnlock, facts
<1>14. ASSUME NEW s \in Session, Timer(s) PROVE TypeOK'
  BY <1>14 DEF Timer, facts, locks
<1>15. ASSUME NEW s \in Session, NEW g \in Goroutine, Close(s, g) PROVE TypeOK'
  BY <1>15 DEF Close, locks
<1>16. ASSUME NEW s \in Session, NEW g \in Goroutine, DisconnectLock(s, g) PROVE TypeOK'
  BY <1>16 DEF DisconnectLock, Announce, facts
<1>17. ASSUME NEW s \in Session, NEW g \in Goroutine, disconnect(s, g) PROVE TypeOK'
  <2>1. closed[s] = 0
    BY <1>17 DEF disconnect, OnceOK
  <2>2. closed' \in [Session -> 0..1]
    BY <1>17, <2>1 DEF disconnect
  <2>3. QED
    BY <1>17, <2>2 DEF disconnect, Unlock
<1>18. ASSUME NEW s \in Session, NEW g \in Goroutine, RemoveLock(s, g) PROVE TypeOK'
  BY <1>18 DEF RemoveLock, facts
<1>19. ASSUME NEW s \in Session, NEW g \in Goroutine, RemoveSession(s, g) PROVE TypeOK'
  BY <1>19 DEF RemoveSession
<1>20. QED
  BY <1>1, <1>2, <1>3, <1>4, <1>5, <1>6, <1>7, <1>8, <1>9, <1>10, <1>11, <1>12, <1>13, <1>14, <1>15, <1>16,
     <1>17, <1>18, <1>19 DEF Next, ReaderStep, WriterStep, CloseStep

-----------------------------------------------------------------------------
(* The steps that close or store *)

\* Nothing the invariant is about changes.
LEMMA Still ==
    ASSUME Inv, UNCHANGED <<at, once, closed, stored, late, identity>>,
           l' = l \/ (l \notin Session)
    PROVE  SafeNext
<1> SUFFICES ASSUME NEW x \in Session PROVE OnceOK(x)' /\ LockOK(x)' /\ LateOK(x)'
  BY DEF SafeNext
<1>1. OnceOK(x) /\ LockOK(x) /\ LateOK(x)
  BY DEF Inv
<1>2. OnceOK(x)' /\ LateOK(x)'
  BY <1>1 DEF OnceOK, LateOK
<1>3. LockOK(x)'
  BY <1>1 DEF LockOK
<1>4. QED
  BY <1>2, <1>3

LEMMA SendSafe ==
    ASSUME Inv, Call \/ Send
    PROVE  SafeNext
<1>1. UNCHANGED <<at, once, closed, stored, late, identity>>
  BY DEF Call, Send
<1>2. l' = l \/ l \notin Session
  <2>1. CASE sender = "sending"
    BY <2>1, NameAssumption DEF Inv, SenderOK, Send, Call
  <2>2. QED
    BY <2>1, NameAssumption DEF Call, Send
<1>3. QED
  BY <1>1, <1>2, Still

LEMMA BreakSafe ==
    ASSUME Inv, NEW s \in Session, Break(s)
    PROVE  SafeNext
BY Still DEF Break

LEMMA AnnounceSafe ==
    ASSUME Inv, NEW s \in Session,
           AuthLock(s) \/ \E g \in Goroutine : DisconnectLock(s, g)
    PROVE  SafeNext
BY Still DEF AuthLock, DisconnectLock, facts

LEMMA ReaderSafe ==
    ASSUME Inv, NEW s \in Session, Message(s) \/ Read(s) \/ ReadEnds(s)
    PROVE  SafeNext
<1>1. "reader" \in Goroutine /\ at[s]["reader"] \in {"loop", "reading"}
  BY DEF Goroutine, Message, Read, ReadEnds
<1>2. closed[s] \in 0..1
  BY DEF Inv, TypeOK
<1>3. PICK to \in {"reading", "auth", "close", "ended"} :
          Goes(s, "reader", to) /\ (to = "auth" => closed[s] = 0)
  BY <1>2 DEF Message, Read, ReadEnds, Gone
<1>4. UNCHANGED <<closed, once, stored, late, l, identity>>
  BY DEF Message, Read, ReadEnds, facts, locks
<1>5. at[s]["reader"] \notin Closing \cup Storing /\ to \notin Closing \cup Storing /\ to \in Places /\ to # "store"
  BY <1>1, <1>3 DEF Closing, Storing, Places
<1>6. QED
  BY <1>1, <1>3, <1>4, <1>5, Harmless

LEMMA AuthenticateSafe ==
    ASSUME Inv, NEW s \in Session, Authenticate(s)
    PROVE  SafeNext
<1>1. \A x \in Session : identity[x] => identity'[x]
  BY DEF Authenticate, Inv, TypeOK
<1>2. QED
  BY <1>1, Harmless DEF Authenticate, Goroutine, Closing, Storing, Places

LEMMA WriterSafe ==
    ASSUME Inv, NEW s \in Session, Select(s) \/ WriteLock(s) \/ Wrote(s)
    PROVE  SafeNext
<1>1. "writer" \in Goroutine /\ at[s]["writer"] \in {"select", "ping", "writing"}
  BY DEF Goroutine, Select, WriteLock, Wrote
<1>2. PICK to \in {"select", "ping", "writing", "close"} : Goes(s, "writer", to)
  BY DEF Select, WriteLock, Wrote
<1>3. UNCHANGED <<closed, once, stored, late, l, identity>>
  BY DEF Select, WriteLock, Wrote, facts, locks
<1>4. at[s]["writer"] \notin Closing \cup Storing /\ to \notin Closing \cup Storing /\ to \in Places
      /\ to \notin {"auth", "store"}
  BY <1>1, <1>2 DEF Closing, Storing, Places
<1>5. QED
  BY <1>1, <1>2, <1>3, <1>4, Harmless

LEMMA TimerSafe ==
    ASSUME Inv, NEW s \in Session, Timer(s)
    PROVE  SafeNext
<1>1. PICK to \in {"ended", "close"} : Goes(s, "timer", to)
  BY DEF Timer
<1>2. QED
  BY <1>1, Harmless DEF Timer, facts, locks, Goroutine, Closing, Storing, Places

\* Storing takes and keeps the server's lock.
LEMMA StoreLockSafe ==
    ASSUME Inv, NEW s \in Session, StoreLock(s)
    PROVE  SafeNext
<1> SUFFICES ASSUME NEW x \in Session PROVE OnceOK(x)' /\ LockOK(x)' /\ LateOK(x)'
  BY DEF SafeNext
<1>1. TypeOK /\ OnceOK(x) /\ LockOK(x) /\ LateOK(x) /\ OnceOK(s)
  BY DEF Inv
<1>2. /\ at[s]["reader"] = "store" /\ l = Nobody /\ l' = s
      /\ UNCHANGED <<closed, once, stored, late, identity>> /\ Goes(s, "reader", "storing")
  BY DEF StoreLock, facts
<1>3. \A h \in Goroutine : at'[x][h] = IF x = s /\ h = "reader" THEN "storing" ELSE at[x][h]
  BY <1>1, <1>2, Moved DEF Goroutine, Places
<1>4. OnceOK(x)'
  BY <1>1, <1>2, <1>3 DEF OnceOK, Closing
<1>5. \A h \in Goroutine : at[x][h] \notin Storing
  BY <1>1, <1>2, NameAssumption DEF LockOK
<1>6. LockOK(x)'
  BY <1>2, <1>3, <1>5 DEF LockOK, Storing
<1>7. once[x] = "done" => closed[x] = 1
  BY <1>1 DEF OnceOK, Closing
<1>8. LateOK(x)'
  BY <1>1, <1>2, <1>3, <1>7 DEF LateOK, Goroutine
<1>9. QED
  BY <1>4, <1>6, <1>8

LEMMA StoreSafe ==
    ASSUME Inv, NEW s \in Session, StoreSession(s)
    PROVE  SafeNext
<1> SUFFICES ASSUME NEW x \in Session PROVE OnceOK(x)' /\ LockOK(x)' /\ LateOK(x)'
  BY DEF SafeNext
<1>1. TypeOK /\ OnceOK(x) /\ LockOK(x) /\ LateOK(x) /\ LockOK(s)
  BY DEF Inv
<1>2. /\ at[s]["reader"] = "storing" /\ l' = Nobody /\ stored' = IF identity[s] THEN stored \cup {s} ELSE stored
      /\ UNCHANGED <<closed, once, late, identity>> /\ Goes(s, "reader", "loop")
  BY DEF StoreSession
<1>3. \A h \in Goroutine : at'[x][h] = IF x = s /\ h = "reader" THEN "loop" ELSE at[x][h]
  BY <1>1, <1>2, Moved DEF Goroutine, Places
<1>4. OnceOK(x)'
  BY <1>1, <1>2, <1>3 DEF OnceOK, Closing
<1>5. l = s
  BY <1>1, <1>2 DEF LockOK, Goroutine, Storing
<1>6. \A h \in Goroutine : at'[x][h] \notin Storing
  BY <1>1, <1>2, <1>3, <1>5 DEF LockOK, Storing, Goroutine
<1>7. LockOK(x)'
  BY <1>6 DEF LockOK
<1>8. LateOK(x)'
  BY <1>1, <1>2, <1>3 DEF LateOK, Goroutine
<1>9. QED
  BY <1>4, <1>7, <1>8

\* The first to close disconnects; for the others there is nothing left to do.
LEMMA CloseSafe ==
    ASSUME Inv, NEW s \in Session, NEW g \in Goroutine, Close(s, g)
    PROVE  SafeNext
<1> SUFFICES ASSUME NEW x \in Session PROVE OnceOK(x)' /\ LockOK(x)' /\ LateOK(x)'
  BY DEF SafeNext
<1> DEFINE to == IF once[s] = "new" THEN "disconnect" ELSE "ended"
<1>1. TypeOK /\ OnceOK(x) /\ LockOK(x) /\ LateOK(x) /\ OnceOK(s)
  BY DEF Inv
<1>2. /\ at[s][g] = "close" /\ once[s] # "running" /\ Goes(s, g, to)
      /\ once' = [once EXCEPT ![s] = IF @ = "new" THEN "running" ELSE @]
      /\ UNCHANGED <<closed, identity, stored, late, l>>
  BY DEF Close, locks
<1>3. \A h \in Goroutine : at'[x][h] = IF x = s /\ h = g THEN to ELSE at[x][h]
  BY <1>1, <1>2, Moved DEF Places
<1>4. once'[x] = IF x = s /\ once[s] = "new" THEN "running" ELSE once[x]
  BY <1>1, <1>2 DEF TypeOK
<1>5. OnceOK(x)'
  BY <1>1, <1>2, <1>3, <1>4 DEF OnceOK, Closing
<1>6. LockOK(x)'
  BY <1>1, <1>2, <1>3 DEF LockOK, Storing
<1>7. LateOK(x)'
  BY <1>1, <1>2, <1>3, <1>4 DEF LateOK, Goroutine
<1>8. QED
  BY <1>5, <1>6, <1>7

LEMMA DisconnectSafe ==
    ASSUME Inv, NEW s \in Session, NEW g \in Goroutine, disconnect(s, g)
    PROVE  SafeNext
<1> SUFFICES ASSUME NEW x \in Session PROVE OnceOK(x)' /\ LockOK(x)' /\ LateOK(x)'
  BY DEF SafeNext
<1>1. TypeOK /\ OnceOK(x) /\ LockOK(x) /\ LateOK(x) /\ OnceOK(s)
  BY DEF Inv
<1>2. /\ at[s][g] = "disconnect" /\ Goes(s, g, "remove")
      /\ closed' = [closed EXCEPT ![s] = @ + 1]
      /\ late' = IF at[s]["reader"] \in {"auth", "store"} THEN late \cup {s} ELSE late
      /\ UNCHANGED <<identity, once, stored, l>>
  BY DEF disconnect
<1>3. \A h \in Goroutine : at'[x][h] = IF x = s /\ h = g THEN "remove" ELSE at[x][h]
  BY <1>1, <1>2, Moved DEF Places
<1>4. closed[s] = 0 /\ once[s] = "running"
  BY <1>1, <1>2 DEF OnceOK, Closing, TypeOK
<1>5. closed'[x] = IF x = s THEN 1 ELSE closed[x]
  BY <1>1, <1>2, <1>4 DEF TypeOK
<1>6. OnceOK(x)'
  BY <1>1, <1>2, <1>3, <1>4, <1>5 DEF OnceOK, Closing
<1>7. LockOK(x)'
  BY <1>1, <1>2, <1>3 DEF LockOK, Storing
<1>8. LateOK(x)'
  BY <1>1, <1>2, <1>3, <1>4, <1>5 DEF LateOK, Goroutine
<1>9. QED
  BY <1>6, <1>7, <1>8

LEMMA RemoveLockSafe ==
    ASSUME Inv, NEW s \in Session, NEW g \in Goroutine, RemoveLock(s, g)
    PROVE  SafeNext
<1> SUFFICES ASSUME NEW x \in Session PROVE OnceOK(x)' /\ LockOK(x)' /\ LateOK(x)'
  BY DEF SafeNext
<1>1. TypeOK /\ OnceOK(x) /\ LockOK(x) /\ LateOK(x) /\ OnceOK(s)
  BY DEF Inv
<1>2. /\ at[s][g] = "remove" /\ l = Nobody /\ l' = s /\ Goes(s, g, "removing")
      /\ UNCHANGED <<closed, identity, once, stored, late>>
  BY DEF RemoveLock, facts
<1>3. \A h \in Goroutine : at'[x][h] = IF x = s /\ h = g THEN "removing" ELSE at[x][h]
  BY <1>1, <1>2, Moved DEF Places
<1>4. OnceOK(x)'
  BY <1>1, <1>2, <1>3 DEF OnceOK, Closing
<1>5. \A h \in Goroutine : at[x][h] \notin Storing
  BY <1>1, <1>2, NameAssumption DEF LockOK
<1>6. LockOK(x)'
  BY <1>2, <1>3, <1>5 DEF LockOK, Storing
<1>7. LateOK(x)'
  BY <1>1, <1>2, <1>3 DEF LateOK, Goroutine
<1>8. QED
  BY <1>4, <1>6, <1>7

\* The closer has the server's lock, so the reader is not storing just now.
LEMMA RemoveSafe ==
    ASSUME Inv, NEW s \in Session, NEW g \in Goroutine, RemoveSession(s, g)
    PROVE  SafeNext
<1> SUFFICES ASSUME NEW x \in Session PROVE OnceOK(x)' /\ LockOK(x)' /\ LateOK(x)'
  BY DEF SafeNext
<1>1. TypeOK /\ OnceOK(x) /\ LockOK(x) /\ LateOK(x) /\ OnceOK(s) /\ LockOK(s) /\ LateOK(s)
  BY DEF Inv
<1>2. /\ at[s][g] = "removing" /\ l' = Nobody /\ Goes(s, g, "ended")
      /\ stored' = IF identity[s] THEN stored \ {s} ELSE stored
      /\ once' = [once EXCEPT ![s] = "done"]
      /\ UNCHANGED <<closed, identity, late>>
  BY DEF RemoveSession
<1>3. \A h \in Goroutine : at'[x][h] = IF x = s /\ h = g THEN "ended" ELSE at[x][h]
  BY <1>1, <1>2, Moved DEF Places
<1>4. once'[x] = IF x = s THEN "done" ELSE once[x]
  BY <1>1, <1>2 DEF TypeOK
<1>5. l = s
  BY <1>1, <1>2 DEF LockOK, Storing
<1>6. OnceOK(x)'
  BY <1>1, <1>2, <1>3, <1>4 DEF OnceOK, Closing
<1>7. \A h \in Goroutine : at'[x][h] \notin Storing
  BY <1>1, <1>2, <1>3, <1>5 DEF LockOK, Storing
<1>8. LockOK(x)'
  BY <1>7 DEF LockOK
<1>9. s \notin stored'
  BY <1>1, <1>2 DEF LateOK
<1>10. LateOK(x)'
  BY <1>1, <1>2, <1>3, <1>4, <1>7, <1>9 DEF LateOK, Goroutine, Storing
<1>11. QED
  BY <1>6, <1>8, <1>10

LEMMA NextInv == Inv /\ [Next]_vars => Inv'
<1> SUFFICES ASSUME Inv, [Next]_vars PROVE Inv'
  OBVIOUS
<1>1. TypeOK'
  BY TypeNext DEF Inv
<1>2. SenderOK'
  <2>1. CASE UNCHANGED <<sender, l>>
    BY <2>1 DEF Inv, SenderOK
  <2>2. CASE Call \/ Send
    BY <2>2 DEF Call, Send, Inv, SenderOK
  <2>3. ASSUME NEW s \in Session, StoreLock(s) \/ StoreSession(s) \/ \E g \in Goroutine : RemoveLock(s, g) \/ RemoveSession(s, g)
        PROVE  SenderOK'
    <3>1. sender' = sender /\ (l = Nobody \/ l = s)
      BY <2>3 DEF StoreLock, StoreSession, RemoveLock, RemoveSession, facts, Inv, LockOK, Storing, Goroutine
    <3>2. QED
      BY <3>1, NameAssumption DEF Inv, SenderOK
  <2>4. QED
    BY <2>1, <2>2, <2>3 DEF Next, vars, Break, Message, ReaderStep, Read, ReadEnds, AuthLock, Authenticate, WriterStep,
       Select, WriteLock, Wrote, Timer, CloseStep, Close, DisconnectLock, disconnect, facts, locks
<1>3. SafeNext
  <2>1. CASE UNCHANGED vars
    BY <2>1, Still DEF vars
  <2>2. QED
    BY <2>1, SendSafe, BreakSafe, AnnounceSafe, ReaderSafe, AuthenticateSafe, WriterSafe, TimerSafe, StoreLockSafe,
       StoreSafe, CloseSafe, DisconnectSafe, RemoveLockSafe, RemoveSafe DEF Next, ReaderStep, WriterStep, CloseStep
<1>4. QED
  BY <1>1, <1>2, <1>3 DEF Inv, SafeNext

THEOREM Invariance == Spec => []Inv
BY InitInv, NextInv, PTL DEF Spec

\* What the sessions and the server hold; a session is disconnected at most
\* once, whichever of its goroutines come to close it (session.go:90-105,
\* 144-149).
THEOREM TypeCorrect == Spec => []TypeOK
<1>1. Inv => TypeOK
  BY DEF Inv
<1>2. QED
  BY <1>1, Invariance, PTL

\* The server keeps no closed session, but one whose credentials were being
\* processed when it was closed (server.go:109-137, session.go:222).
THEOREM ClosedRemoved == Spec => []ClosedAreRemoved
<1>1. Inv => ClosedAreRemoved
  BY DEF Inv, LateOK, ClosedAreRemoved
<1>2. QED
  BY <1>1, Invariance, PTL
=============================================================================
