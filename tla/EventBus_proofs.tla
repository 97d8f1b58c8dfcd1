--------------------------- MODULE EventBus_proofs ---------------------------
(***************************************************************************)
(* A WaitFor sees one state of the registrations and stops at the first    *)
(* handler that fails, for any goroutines, handlers and events, and        *)
(* however deep handlers fire events in turn.                              *)
(***************************************************************************)
EXTENDS EventBus, FiniteSetTheorems, SequenceTheorems, TLAPS

Frame ==
    [at : {"rlock"}, call : Call]
      \cup [at : {"wait"}, ev : Event, todo : Seq(Handler), ran : Seq(Handler)]
      \cup [at : {"body"}, h : Handler, fired : BOOLEAN]
      \cup [at : {"lock"}, change : Change]

Typed ==
    /\ handlers \subseteq Handler
    /\ stack \in [Proc -> Seq(Frame)]

\* a WaitFor that goes by the registrations as they are
Current(f) ==
    f.at = "wait" => ToSet(f.ran \o f.todo) = Found(f.ev) /\ IsInjective(f.ran \o f.todo)

Inv == Typed /\ \A p \in Proc : \A i \in 1..Len(stack[p]) : Current(stack[p][i])

-----------------------------------------------------------------------------
(* Frames *)

LEMMA FrameShapes ==
    /\ \A call \in Call : Wants(call) \in Frame /\ Wants(call).at = "rlock"
    /\ \A ev \in Event, todo, ran \in Seq(Handler) :
          Waits(ev, todo, ran) \in Frame /\ Waits(ev, todo, ran).at = "wait"
    /\ \A h \in Handler, b \in BOOLEAN : Runs(h, b) \in Frame /\ Runs(h, b).at = "body"
    /\ \A change \in Change : Changing(change) \in Frame /\ Changing(change).at = "lock"
BY DEF Frame, Wants, Waits, Runs, Changing

\* What the fields of a frame are, by the place it is at.
LEMMA FrameFields ==
  ASSUME NEW f \in Frame
  PROVE  /\ f.at = "rlock" => f.call \in Call
         /\ f.at = "wait" => f.ev \in Event /\ f.todo \in Seq(Handler) /\ f.ran \in Seq(Handler)
         /\ f.at = "body" => f.h \in Handler
         /\ f.at = "lock" => f.change \in Change
BY DEF Frame

LEMMA TopFrame ==
  ASSUME Typed, NEW p \in Proc, NEW at, In(p, at)
  PROVE  /\ stack[p] \in Seq(Frame) /\ Len(stack[p]) \in Nat \ {0}
         /\ Top(p) \in Frame /\ Top(p).at = at
         /\ Top(p) = stack[p][Len(stack[p])]
<1>1. stack[p] \in Seq(Frame) /\ stack[p] # <<>>
  BY DEF Typed, In, Idle
<1>2. Len(stack[p]) \in Nat \ {0}
  BY <1>1
<1> QED
  BY <1>1, <1>2 DEF In, Top, Last

\* What a proper prefix of a sequence is.
LEMMA Prefix ==
  ASSUME NEW F, NEW s \in Seq(F), NEW n \in Nat, n < Len(s)
  PROVE  /\ SubSeq(s, 1, n) \in Seq(F) /\ Len(SubSeq(s, 1, n)) = n
         /\ \A i \in 1..n : SubSeq(s, 1, n)[i] = s[i]
<1>1. SubSeq(s, 1, n) \in Seq(F)
  OBVIOUS
<1>2. Len(SubSeq(s, 1, n)) = n
  OBVIOUS
<1>3. \A i \in 1..n : SubSeq(s, 1, n)[i] = s[i]
  OBVIOUS
<1> QED
  BY <1>1, <1>2, <1>3

LEMMA Fronts ==
  ASSUME NEW s \in Seq(Frame), s # <<>>
  PROVE  /\ Front(s) \in Seq(Frame) /\ Len(Front(s)) = Len(s) - 1
         /\ \A i \in 1..(Len(s) - 1) : Front(s)[i] = s[i]
<1>1. Len(s) - 1 \in Nat /\ Len(s) - 1 < Len(s)
  OBVIOUS
<1> QED
  BY <1>1, Prefix DEF Front

\* The frames of a goroutine whose innermost call becomes fs are the ones it
\* had and those.
LEMMA Replaced ==
  ASSUME NEW s \in Seq(Frame), s # <<>>, NEW fs \in Seq(Frame)
  PROVE  /\ Front(s) \o fs \in Seq(Frame)
         /\ \A i \in 1..Len(Front(s) \o fs) :
               \/ \E j \in 1..Len(s) : (Front(s) \o fs)[i] = s[j]
               \/ \E k \in 1..Len(fs) : (Front(s) \o fs)[i] = fs[k]
<1>1. Len(s) \in Nat \ {0}
  OBVIOUS
<1>2. /\ Front(s) \in Seq(Frame) /\ Len(Front(s)) = Len(s) - 1
      /\ \A i \in 1..(Len(s) - 1) : Front(s)[i] = s[i]
  BY Fronts
<1>3. /\ Front(s) \o fs \in Seq(Frame)
      /\ Len(Front(s) \o fs) = Len(s) - 1 + Len(fs)
      /\ \A i \in 1..(Len(s) - 1 + Len(fs)) :
            (Front(s) \o fs)[i] = IF i <= Len(s) - 1 THEN Front(s)[i] ELSE fs[i - (Len(s) - 1)]
  <2> DEFINE fr == Front(s)
  <2> HIDE DEF fr
  <2>1. /\ fr \o fs \in Seq(Frame) /\ Len(fr \o fs) = Len(fr) + Len(fs)
        /\ \A i \in 1..(Len(fr) + Len(fs)) :
              (fr \o fs)[i] = IF i <= Len(fr) THEN fr[i] ELSE fs[i - Len(fr)]
    BY <1>2, ConcatProperties DEF fr
  <2>2. Len(fr) = Len(s) - 1
    BY <1>2 DEF fr
  <2> QED
    BY <2>1, <2>2 DEF fr
<1>4. ASSUME NEW i \in 1..(Len(s) - 1 + Len(fs))
      PROVE  \/ \E j \in 1..Len(s) : (Front(s) \o fs)[i] = s[j]
             \/ \E k \in 1..Len(fs) : (Front(s) \o fs)[i] = fs[k]
  <2>1. CASE i <= Len(s) - 1
    BY <1>1, <1>2, <1>3, <2>1
  <2>2. CASE ~(i <= Len(s) - 1)
    <3>1. i - (Len(s) - 1) \in 1..Len(fs)
      BY <1>1, <2>2
    <3> QED
      BY <1>3, <2>2, <3>1
  <2> QED
    BY <2>1, <2>2
<1> QED
  BY <1>3, <1>4

-----------------------------------------------------------------------------
(* Stacks *)

\* A step that leaves the registrations alone and brings no frame but old ones
\* and good ones keeps the invariant.
LEMMA Keeps ==
  ASSUME Inv, UNCHANGED handlers, stack' \in [Proc -> Seq(Frame)],
         \A p \in Proc : \A i \in 1..Len(stack'[p]) :
            \/ \E j \in 1..Len(stack[p]) : stack'[p][i] = stack[p][j]
            \/ Current(stack'[p][i])
  PROVE  Inv'
<1>1. \A f : Current(f)' <=> Current(f)
  BY DEF Current, Found
<1>2. ASSUME NEW p \in Proc, NEW i \in 1..Len(stack'[p]) PROVE Current(stack'[p][i])
  BY DEF Inv
<1> QED
  BY <1>1, <1>2 DEF Inv, Typed

LEMMA BecomesKeeps ==
  ASSUME Inv, UNCHANGED handlers, NEW p \in Proc, ~Idle(p), NEW fs \in Seq(Frame),
         \A k \in 1..Len(fs) : Current(fs[k]), Becomes(p, fs)
  PROVE  Inv'
<1>1. stack \in [Proc -> Seq(Frame)] /\ stack[p] \in Seq(Frame) /\ stack[p] # <<>>
  BY DEF Inv, Typed, Idle
<1>2. stack' = [stack EXCEPT ![p] = Front(stack[p]) \o fs]
  BY DEF Becomes
<1>3. stack' \in [Proc -> Seq(Frame)]
  BY <1>1, <1>2, Replaced
<1>4. ASSUME NEW q \in Proc, NEW i \in 1..Len(stack'[q])
      PROVE  (\E j \in 1..Len(stack[q]) : stack'[q][i] = stack[q][j]) \/ Current(stack'[q][i])
  <2>1. CASE q = p
    <3>1. stack'[q] = Front(stack[p]) \o fs
      BY <1>1, <1>2, <2>1
    <3>2. \/ \E j \in 1..Len(stack[p]) : stack'[q][i] = stack[p][j]
          \/ \E k \in 1..Len(fs) : stack'[q][i] = fs[k]
      BY <1>1, <3>1, Replaced
    <3> QED
      BY <2>1, <3>2
  <2>2. CASE q # p
    BY <1>1, <1>2, <2>2
  <2> QED
    BY <2>1, <2>2
<1> QED
  BY <1>3, <1>4, Keeps

\* A goroutine that was idle and is in a first call.
LEMMA StartedKeeps ==
  ASSUME NEW first, Typed, \A x \in DOMAIN first : first[x] \in Frame /\ first[x].at # "wait"
  PROVE  /\ Started(first) \in [Proc -> Seq(Frame)]
         /\ \A p \in Proc : \/ Started(first)[p] = stack[p]
                            \/ \E x \in DOMAIN first : Started(first)[p] = <<first[x]>>
<1> DEFINE team == Go(DOMAIN first)
           pick(p) == CHOOSE x \in DOMAIN first : team[x] = p
<1>1. Started(first) = [p \in Proc |-> IF \E x \in DOMAIN first : team[x] = p
                                       THEN <<first[pick(p)]>> ELSE stack[p]]
  BY DEF Started
<1>2. ASSUME NEW p \in Proc, \E x \in DOMAIN first : team[x] = p
      PROVE  pick(p) \in DOMAIN first
  BY <1>2
<1>3. \A p \in Proc : stack[p] \in Seq(Frame)
  BY DEF Typed
<1> HIDE DEF team, pick
<1>4. ASSUME NEW p \in Proc
      PROVE  /\ Started(first)[p] \in Seq(Frame)
             /\ \/ Started(first)[p] = stack[p]
                \/ \E x \in DOMAIN first : Started(first)[p] = <<first[x]>>
  <2>1. CASE \E x \in DOMAIN first : team[x] = p
    <3>1. Started(first)[p] = <<first[pick(p)]>> /\ pick(p) \in DOMAIN first
      BY <1>1, <1>2, <2>1
    <3> QED
      BY <3>1
  <2>2. CASE ~\E x \in DOMAIN first : team[x] = p
    BY <1>1, <1>3, <2>2
  <2> QED
    BY <2>1, <2>2
<1> QED
  BY <1>1, <1>4

-----------------------------------------------------------------------------
(* Sequences of handlers *)

\* What find returns is every handler that matches, once.
LEMMA FindLists ==
  ASSUME handlers \subseteq Handler, NEW ev, NEW s \in find(ev)
  PROVE  s \in Seq(Handler) /\ ToSet(s) = Found(ev) /\ IsInjective(s)
<1> DEFINE S == Found(ev)
           n == Cardinality(S)
<1>1. S \subseteq Handler /\ IsFiniteSet(S) /\ n \in Nat
  BY HandlerAssumption, FS_Subset, FS_CardinalityType DEF Found
<1>2. s \in [1..n -> S] /\ \A i, j \in 1..n : i # j => s[i] # s[j]
  BY DEF find, SetToSeqs
<1>3. IsFiniteSet(1..n) /\ Cardinality(1..n) = n
  BY <1>1, FS_Interval
<1> HIDE DEF S, n
<1>4. s \in Injection(1..n, S)
  BY <1>2 DEF Injection, IsInjective
<1>5. s \in Surjection(1..n, S)
  BY <1>1, <1>3, <1>4, FS_Injection DEF n
<1>6. ToSet(s) = S
  BY <1>2, <1>5 DEF ToSet, Surjection
<1>7. s \in Seq(Handler)
  BY <1>1, <1>2
<1>8. IsInjective(s)
  BY <1>2 DEF IsInjective
<1> QED
  BY <1>6, <1>7, <1>8 DEF S

\* The handler whose turn it is passes from one list to the other.
LEMMA Passes ==
  ASSUME NEW ran \in Seq(Handler), NEW todo \in Seq(Handler), todo # <<>>
  PROVE  /\ Head(todo) \in Handler /\ Tail(todo) \in Seq(Handler)
         /\ Append(ran, Head(todo)) \in Seq(Handler)
         /\ Append(ran, Head(todo)) \o Tail(todo) = ran \o todo
<1>1. Head(todo) \in Handler /\ Tail(todo) \in Seq(Handler)
      /\ Append(ran, Head(todo)) \in Seq(Handler)
  BY HeadTailProperties
<1>2. Append(ran, Head(todo)) \o Tail(todo) = ran \o todo
  <2> DEFINE a == Append(ran, Head(todo)) \o Tail(todo)
             b == ran \o todo
  <2>1. a \in Seq(Handler) /\ b \in Seq(Handler) /\ Len(a) = Len(b)
    BY <1>1, ConcatProperties, HeadTailProperties, AppendProperties
  <2>2. \A i \in 1..Len(a) : a[i] = b[i]
    BY <1>1
  <2> HIDE DEF a, b
  <2>3. a = b
    BY <2>1, <2>2
  <2> QED
    BY <2>3 DEF a, b
<1> QED
  BY <1>1, <1>2

-----------------------------------------------------------------------------
(* Steps *)

LEMMA InitInv == Init => Inv
<1> SUFFICES ASSUME Init PROVE Inv
  OBVIOUS
<1>1. handlers \subseteq Handler
  BY HandlerAssumption DEF Init
<1>2. stack \in [Proc -> Seq(Frame)] /\ \A p \in Proc : stack[p] = <<>>
  BY DEF Init
<1> QED
  BY <1>1, <1>2 DEF Inv, Typed

\* The handlers a WaitFor finds are those that are registered.
LEMMA WaitForInv ==
  ASSUME Inv, NEW p \in Proc, WaitFor(p)
  PROVE  Inv'
<1>1. Typed /\ In(p, "rlock") /\ ~Idle(p)
  BY DEF WaitFor, In, Inv
<1>2. Top(p).call \in Call /\ Top(p).call.ev \in Event
  BY <1>1, TopFrame, FrameFields DEF Call
<1>3. PICK s \in find(Top(p).call.ev) : Becomes(p, <<Waits(Top(p).call.ev, s, <<>>)>>)
  BY DEF WaitFor
<1>4. s \in Seq(Handler) /\ ToSet(s) = Found(Top(p).call.ev) /\ IsInjective(s)
  BY <1>1, <1>3, FindLists DEF Typed
<1> DEFINE f == Waits(Top(p).call.ev, s, <<>>)
<1>5. f \in Frame
  <2>1. <<>> \in Seq(Handler)
    OBVIOUS
  <2> QED
    BY <1>2, <1>4, <2>1, FrameShapes
<1>6. Current(f)
  <2>1. <<>> \o s = s
    BY <1>4
  <2> QED
    BY <1>4, <2>1 DEF Current, Waits
<1> HIDE DEF f
<1>7. <<f>> \in Seq(Frame) /\ \A k \in 1..Len(<<f>>) : Current(<<f>>[k])
  BY <1>5, <1>6
<1>8. UNCHANGED handlers
  BY DEF WaitFor
<1> QED
  BY <1>1, <1>3, <1>7, <1>8, BecomesKeeps DEF f

\* The next handler of a WaitFor runs.
LEMMA HandleInv ==
  ASSUME Inv, NEW p \in Proc, Handle(p)
  PROVE  Inv'
<1>1. Typed /\ In(p, "wait") /\ ~Idle(p)
  BY DEF Handle, In, Inv
<1> DEFINE f == Top(p)
<1>2. f \in Frame /\ f.at = "wait" /\ f = stack[p][Len(stack[p])]
      /\ Len(stack[p]) \in 1..Len(stack[p])
  BY <1>1, TopFrame
<1>3. Current(f)
  BY <1>2 DEF Inv
<1>4. f.ev \in Event /\ f.todo \in Seq(Handler) /\ f.ran \in Seq(Handler) /\ f.todo # <<>>
  BY <1>2, FrameFields DEF Handle
<1> DEFINE w == Waits(f.ev, Tail(f.todo), Append(f.ran, Head(f.todo)))
           b == Runs(Head(f.todo), FALSE)
<1>5. Becomes(p, <<w, b>>) /\ UNCHANGED handlers
  BY DEF Handle
<1>6. w \in Frame /\ b \in Frame /\ b.at = "body"
  BY <1>4, Passes, FrameShapes
<1>7. Current(w) /\ Current(b)
  <2>1. w.at = "wait" /\ w.ev = f.ev /\ w.ran \o w.todo = f.ran \o f.todo
    BY <1>4, Passes DEF Waits
  <2> QED
    BY <1>2, <1>3, <1>6, <2>1 DEF Current
<1> HIDE DEF f, w, b
<1>8. <<w, b>> \in Seq(Frame) /\ \A k \in 1..Len(<<w, b>>) : Current(<<w, b>>[k])
  BY <1>6, <1>7
<1> QED
  BY <1>1, <1>5, <1>8, BecomesKeeps

\* A call returns.
LEMMA EndsInv ==
  ASSUME Inv, NEW p \in Proc, WaitForReturns(p) \/ Return(p)
  PROVE  Inv'
<1>1. ~Idle(p) /\ Becomes(p, <<>>) /\ UNCHANGED handlers
  BY DEF WaitForReturns, Return, In, Ends
<1>2. <<>> \in Seq(Frame) /\ \A k \in 1..Len(<<>>) : Current(<<>>[k])
  OBVIOUS
<1> QED
  BY <1>1, <1>2, BecomesKeeps

\* A handler fires an event of its own.
LEMMA FireInv ==
  ASSUME Inv, NEW p \in Proc, Fire(p)
  PROVE  Inv'
<1>1. Typed /\ In(p, "body") /\ ~Idle(p)
  BY DEF Fire, In, Inv
<1>2. Top(p).h \in Handler /\ Body[Top(p).h] \in Call
  BY <1>1, TopFrame, FrameFields DEF Fire
<1> DEFINE b == Runs(Top(p).h, TRUE)
           w == Wants(Body[Top(p).h])
<1>3. Becomes(p, <<b, w>>) /\ UNCHANGED handlers
  BY DEF Fire
<1>4. b \in Frame /\ w \in Frame /\ b.at = "body" /\ w.at = "rlock"
  BY <1>2, FrameShapes
<1> HIDE DEF b, w
<1>5. <<b, w>> \in Seq(Frame) /\ \A k \in 1..Len(<<b, w>>) : Current(<<b, w>>[k])
  BY <1>4 DEF Current
<1> QED
  BY <1>1, <1>3, <1>5, BecomesKeeps

\* A goroutine starts a call.
LEMMA BeginInv ==
  ASSUME Inv, NEW c \in Caller, Begin(c)
  PROVE  Inv'
<1>1. stack \in [Proc -> Seq(Frame)] /\ c \in Proc
  BY DEF Inv, Typed, Proc
<1>2. PICK f \in Frame : f.at # "wait" /\ stack' = [stack EXCEPT ![c] = <<f>>]
  <2>1. CASE \E call \in Fired : stack' = [stack EXCEPT ![c] = <<Wants(call)>>]
    BY <2>1, HandlerAssumption, FrameShapes
  <2>2. CASE \E change \in Changes : stack' = [stack EXCEPT ![c] = <<Changing(change)>>]
    BY <2>2, HandlerAssumption, FrameShapes
  <2> QED
    BY <2>1, <2>2 DEF Begin
<1>3. stack' \in [Proc -> Seq(Frame)]
  BY <1>1, <1>2
<1>4. ASSUME NEW q \in Proc, NEW i \in 1..Len(stack'[q])
      PROVE  (\E j \in 1..Len(stack[q]) : stack'[q][i] = stack[q][j]) \/ Current(stack'[q][i])
  <2>1. CASE q = c
    <3>1. stack'[q] = <<f>>
      BY <1>1, <1>2, <2>1
    <3>2. i = 1
      BY <3>1
    <3> QED
      BY <1>2, <3>1, <3>2 DEF Current
  <2>2. CASE q # c
    BY <1>1, <1>2, <2>2
  <2> QED
    BY <2>1, <2>2
<1>5. UNCHANGED handlers
  BY DEF Begin
<1> QED
  BY <1>3, <1>4, <1>5, Keeps

\* Goroutines are started, for the handlers of a Dispatch or the events of a tick.
LEMMA NewInv ==
  ASSUME Inv, NEW first, UNCHANGED handlers,
         \A x \in DOMAIN first : first[x] \in Frame /\ first[x].at # "wait",
         \/ stack' = Started(first)
         \/ \E p \in Proc : Len(stack[p]) # 0 /\ stack' = [Started(first) EXCEPT ![p] = Front(@)]
  PROVE  Inv'
<1>1. Typed
  BY DEF Inv
<1>2. Started(first) \in [Proc -> Seq(Frame)]
  BY <1>1, StartedKeeps
<1>3. ASSUME NEW q \in Proc, NEW i \in 1..Len(Started(first)[q])
      PROVE  (\E j \in 1..Len(stack[q]) : Started(first)[q][i] = stack[q][j])
             \/ Current(Started(first)[q][i])
  <2>1. CASE Started(first)[q] = stack[q]
    BY <2>1
  <2>2. CASE \E x \in DOMAIN first : Started(first)[q] = <<first[x]>>
    <3>1. PICK x \in DOMAIN first : Started(first)[q] = <<first[x]>>
      BY <2>2
    <3>2. Started(first)[q][i] = first[x]
      BY <3>1
    <3> QED
      BY <3>2 DEF Current
  <2> QED
    BY <1>1, <2>1, <2>2, StartedKeeps
<1>4. ASSUME NEW p \in Proc, Len(stack[p]) # 0,
             stack' = [Started(first) EXCEPT ![p] = Front(Started(first)[p])]
      PROVE  Inv'
  <2> DEFINE s == Started(first)[p]
  <2>1. s \in Seq(Frame) /\ s # <<>>
    <3>1. stack[p] # <<>>
      BY <1>4
    <3> QED
      <4>1. CASE s = stack[p]
        BY <1>2, <3>1, <4>1
      <4>2. CASE \E x \in DOMAIN first : s = <<first[x]>>
        BY <1>2, <4>2
      <4> QED
        BY <1>1, <4>1, <4>2, StartedKeeps
  <2>2. Len(s) \in Nat \ {0}
    BY <2>1
  <2>3. /\ Front(s) \in Seq(Frame) /\ Len(Front(s)) = Len(s) - 1
        /\ \A i \in 1..(Len(s) - 1) : Front(s)[i] = s[i]
    BY <2>1, Fronts
  <2>4. stack' \in [Proc -> Seq(Frame)]
    BY <1>2, <1>4, <2>3
  <2>5. ASSUME NEW q \in Proc, NEW i \in 1..Len(stack'[q])
        PROVE  (\E j \in 1..Len(stack[q]) : stack'[q][i] = stack[q][j]) \/ Current(stack'[q][i])
    <3>1. CASE q = p
      <4>1. stack'[q] = Front(s)
        BY <1>2, <1>4, <3>1
      <4>2. i \in 1..Len(s) /\ stack'[q][i] = s[i]
        BY <2>2, <2>3, <4>1
      <4> QED
        BY <1>3, <3>1, <4>2
    <3>2. CASE q # p
      <4>1. stack'[q] = Started(first)[q]
        BY <1>2, <1>4, <3>2
      <4> QED
        BY <1>3, <4>1
    <3> QED
      BY <3>1, <3>2
  <2> QED
    BY <2>4, <2>5, Keeps
<1>5. CASE stack' = Started(first)
  BY <1>2, <1>3, <1>5, Keeps
<1> QED
  BY <1>4, <1>5

LEMMA DispatchInv ==
  ASSUME Inv, NEW p \in Proc, Dispatch(p)
  PROVE  Inv'
<1> DEFINE first == [h \in Found(Top(p).call.ev) |-> Runs(h, FALSE)]
<1>1. \A h \in DOMAIN first : first[h] \in Frame /\ first[h].at # "wait"
  BY FrameShapes DEF Inv, Typed, Found
<1>2. stack' = [Started(first) EXCEPT ![p] = Front(@)] /\ UNCHANGED handlers
  BY DEF Dispatch
<1>3. Len(stack[p]) # 0
  BY TopFrame DEF Dispatch, Inv
<1> HIDE DEF first
<1> QED
  BY <1>1, <1>2, <1>3, NewInv

LEMMA TickInv ==
  ASSUME Inv, Tick
  PROVE  Inv'
<1> DEFINE first == [ev \in Scheduled |-> Wants([does |-> "WaitFor", ev |-> ev])]
<1>1. \A ev \in DOMAIN first : first[ev] \in Frame /\ first[ev].at # "wait"
  <2>1. \A ev \in Scheduled : [does |-> "WaitFor", ev |-> ev] \in Call
    BY HandlerAssumption DEF Call
  <2> QED
    BY <2>1, FrameShapes
<1>2. stack' = Started(first) /\ UNCHANGED handlers
  BY DEF Tick
<1> HIDE DEF first
<1> QED
  BY <1>1, <1>2, NewInv

\* A change of the registrations has the lock, so nobody is in a WaitFor.
LEMMA ApplyInv ==
  ASSUME Inv, NEW p \in Proc, Apply(p)
  PROVE  Inv'
<1>1. Typed /\ In(p, "lock") /\ stack[p] \in Seq(Frame) /\ stack[p] # <<>>
  BY DEF Apply, In, Idle, Inv, Typed
<1>2. stack' = [stack EXCEPT ![p] = Front(stack[p]) \o <<>>]
  BY DEF Apply, Ends, Becomes
<1>3. \A q \in Proc : \A i \in 1..Len(stack[q]) : stack[q][i].at # "wait"
  BY DEF Apply, Readers
<1>4. stack' \in [Proc -> Seq(Frame)]
  BY <1>1, <1>2, Replaced DEF Typed
<1>5. handlers' \subseteq Handler
  <2>1. Top(p).change.hs \subseteq Handler
    BY <1>1, TopFrame, FrameFields DEF Change
  <2> QED
    BY <1>1, <2>1 DEF Apply, Applied, Typed
<1>6. ASSUME NEW q \in Proc, NEW i \in 1..Len(stack'[q]) PROVE stack'[q][i].at # "wait"
  <2>1. CASE q = p
    <3>1. stack'[q] = Front(stack[p]) \o <<>>
      BY <1>1, <1>2, <2>1 DEF Typed
    <3>2. \E j \in 1..Len(stack[p]) : stack'[q][i] = stack[p][j]
      BY <1>1, <3>1, Replaced
    <3> QED
      BY <1>3, <3>2
  <2>2. CASE q # p
    BY <1>1, <1>2, <1>3, <2>2 DEF Typed
  <2> QED
    BY <2>1, <2>2
<1> QED
  BY <1>4, <1>5, <1>6 DEF Inv, Typed, Current

LEMMA NextInv ==
  ASSUME Inv, [Next]_vars
  PROVE  Inv'
<1>1. ASSUME NEW p \in Proc, Announce(p) PROVE Inv'
  <2>1. UNCHANGED <<handlers, stack>>
    BY <1>1 DEF Announce
  <2> QED
    BY <2>1 DEF Inv, Typed, Current, Found
<1>2. ASSUME UNCHANGED vars PROVE Inv'
  BY <1>2 DEF vars, Inv, Typed, Current, Found
<1>3. ASSUME NEW p \in Proc, Step(p) PROVE Inv'
  BY <1>1, <1>3, WaitForInv, DispatchInv, HandleInv, EndsInv, FireInv, ApplyInv DEF Step
<1> QED
  BY <1>2, <1>3, BeginInv, TickInv DEF Next

-----------------------------------------------------------------------------
\* The inductive invariant.
THEOREM Invariance == Spec => []Inv
<1>1. Inv /\ [Next]_vars => Inv'
  BY NextInv
<1> QED
  BY <1>1, InitInv, PTL DEF Spec

\* A WaitFor goes from its first handler to its last by one state of the
\* registrations, whatever its handlers do and whoever registers and
\* unregisters meanwhile.
THEOREM OneRegistry == Spec => []WaitForSeesOneRegistry
<1>1. Inv => WaitForSeesOneRegistry
  BY DEF Inv, Current, WaitForSeesOneRegistry
<1> QED
  BY <1>1, Invariance, PTL

-----------------------------------------------------------------------------
(* Errors *)

MayFail(h) == Body[h].does # "succeed" /\ Body[h].does # "Dispatch"

\* the handlers of a WaitFor are in the order of their weights, and the one
\* that ran last is the first that can have failed
Sorted(s) == \A i, j \in 1..Len(s) : i < j => Weight[s[i]] <= Weight[s[j]]
Orderly(f) ==
    /\ f.at = "wait" => /\ Sorted(f.ran \o f.todo)
                        /\ \A i \in 1..(Len(f.ran) - 1) : Body[f.ran[i]].does # "fail"
    /\ f.at = "body" /\ f.fired => Body[f.h] \in Call

\* the call g was made by the call f
Made(f, g) ==
    \/ f.at = "wait" /\ f.ran # <<>> /\ g.at = "body" /\ g.h = Last(f.ran)
    \/ /\ f.at = "body" /\ f.fired /\ Body[f.h] \in Call
       /\ \/ g.at = "rlock" /\ g.call = Body[f.h]
          \/ g.at = "wait" /\ Body[f.h].does = "WaitFor"

\* what the innermost call f knows of what the one that it made has returned
Knows(f, r) ==
    /\ f.at = "wait" /\ r = "error" => f.ran # <<>> /\ MayFail(Last(f.ran))
    /\ f.at = "wait" /\ r # "error" /\ f.ran # <<>> => Body[Last(f.ran)].does # "fail"
    /\ f.at = "body" /\ f.fired /\ r = "error" => Body[f.h].does = "WaitFor"

\* the calls s of a goroutine whose last one returned r
Honest(s, r) ==
    /\ \A i \in 1..Len(s) : Orderly(s[i])
    /\ \A i \in 1..(Len(s) - 1) : Made(s[i], s[i + 1])
    /\ Len(s) # 0 => Knows(s[Len(s)], r)

Errors ==
    /\ Inv
    /\ ret \in [Proc -> {"none", "nil", "error"}]
    /\ \A p \in Proc : Honest(stack[p], ret[p])

\* There are goroutines to start, and they are idle.
LEMMA Chosen ==
  ASSUME NEW S, IsFiniteSet(S), CanGo(S)
  PROVE  Go(S) \in [S -> {w \in Worker : Idle(w)}]
<1> DEFINE idle == {w \in Worker : Idle(w)}
           m == Cardinality(S)
           n == Cardinality(idle)
<1>1. IsFiniteSet(idle)
  BY ProcAssumption, FS_Subset
<1>2. m \in Nat /\ n \in Nat /\ m <= n
  BY <1>1, FS_CardinalityType DEF CanGo
<1>3. PICK b \in Bijection(1..n, idle) : TRUE
  BY <1>1, FS_CardinalityType DEF ExistsBijection
<1>4. PICK a \in Bijection(1..m, S) : TRUE
  BY FS_CardinalityType DEF ExistsBijection
<1> HIDE DEF idle, m, n
<1>5. /\ a \in [1..m -> S] /\ \A x \in S : \E i \in 1..m : a[i] = x
      /\ \A i, j \in 1..m : a[i] = a[j] => i = j
  BY <1>4 DEF Bijection, Injection, Surjection, IsInjective
<1>6. b \in [1..n -> idle] /\ \A i, j \in 1..n : b[i] = b[j] => i = j
  BY <1>3 DEF Bijection, Injection, IsInjective
<1> DEFINE num(x) == CHOOSE i \in 1..m : a[i] = x
           t == [x \in S |-> b[num(x)]]
<1>7. \A x \in S : num(x) \in 1..m /\ a[num(x)] = x
  BY <1>5
<1>8. \A x \in S : num(x) \in 1..n
  BY <1>2, <1>7
<1> HIDE DEF num
<1>9. t \in [S -> idle]
  BY <1>6, <1>8
<1>10. \A x, y \in S : t[x] = t[y] => x = y
  <2> SUFFICES ASSUME NEW x \in S, NEW y \in S, t[x] = t[y] PROVE x = y
    OBVIOUS
  <2>1. b[num(x)] = b[num(y)]
    OBVIOUS
  <2>2. num(x) = num(y)
    BY <1>6, <1>8, <2>1
  <2> QED
    BY <1>7, <2>2
<1> HIDE DEF t
<1>11. \E team \in [S -> idle] : \A x, y \in S : team[x] = team[y] => x = y
  BY <1>9, <1>10
<1> QED
  BY <1>11 DEF Go, idle

\* What goroutines that are started change.
LEMMA Grown ==
  ASSUME Typed, NEW first, IsFiniteSet(DOMAIN first), CanGo(DOMAIN first), NEW p \in Proc
  PROVE  \/ Started(first)[p] = stack[p]
         \/ Idle(p) /\ \E x \in DOMAIN first : Started(first)[p] = <<first[x]>>
<1> DEFINE team == Go(DOMAIN first)
           pick == CHOOSE x \in DOMAIN first : team[x] = p
<1>1. Started(first)[p] = IF \E x \in DOMAIN first : team[x] = p
                          THEN <<first[pick]>> ELSE stack[p]
  BY DEF Started
<1>2. team \in [DOMAIN first -> {w \in Worker : Idle(w)}]
  BY Chosen
<1> HIDE DEF team
<1>3. CASE \E x \in DOMAIN first : team[x] = p
  <2>1. pick \in DOMAIN first /\ team[pick] = p
    BY <1>3
  <2> QED
    BY <1>1, <1>2, <1>3, <2>1
<1> QED
  BY <1>1, <1>3

-----------------------------------------------------------------------------
(* Calls and what made them *)

\* The calls of a goroutine whose innermost one becomes fs.
LEMMA Becoming ==
  ASSUME NEW s \in Seq(Frame), s # <<>>, NEW fs \in Seq(Frame)
  PROVE  /\ Front(s) \o fs \in Seq(Frame)
         /\ Len(s) \in Nat \ {0} /\ Len(Front(s) \o fs) = Len(s) - 1 + Len(fs)
         /\ \A i \in 1..(Len(s) - 1) : (Front(s) \o fs)[i] = s[i]
         /\ \A k \in 1..Len(fs) : (Front(s) \o fs)[Len(s) - 1 + k] = fs[k]
<1>1. Len(s) \in Nat \ {0} /\ Len(fs) \in Nat
  OBVIOUS
<1> DEFINE fr == Front(s)
<1>2. /\ fr \in Seq(Frame) /\ Len(fr) = Len(s) - 1
      /\ \A i \in 1..(Len(s) - 1) : fr[i] = s[i]
  BY Fronts
<1> HIDE DEF fr
<1>3. /\ fr \o fs \in Seq(Frame) /\ Len(fr \o fs) = Len(fr) + Len(fs)
      /\ \A i \in 1..(Len(fr) + Len(fs)) :
            (fr \o fs)[i] = IF i <= Len(fr) THEN fr[i] ELSE fs[i - Len(fr)]
  BY <1>2, ConcatProperties
<1>4. ASSUME NEW i \in 1..(Len(s) - 1) PROVE (fr \o fs)[i] = s[i]
  BY <1>1, <1>2, <1>3
<1>5. ASSUME NEW k \in 1..Len(fs) PROVE (fr \o fs)[Len(s) - 1 + k] = fs[k]
  <2> DEFINE j == Len(s) - 1 + k
  <2>1. j \in 1..(Len(fr) + Len(fs)) /\ ~(j <= Len(fr)) /\ j - Len(fr) = k
    BY <1>1, <1>2
  <2> HIDE DEF j
  <2>2. (fr \o fs)[j] = fs[k]
    BY <1>3, <2>1
  <2> QED
    BY <2>2 DEF j
<1> QED
  BY <1>1, <1>2, <1>3, <1>4, <1>5 DEF fr

\* A call is replaced by calls that the same one could have made.
LEMMA HonestGrows ==
  ASSUME NEW s \in Seq(Frame), s # <<>>, NEW r, Honest(s, r),
         NEW fs \in Seq(Frame), fs # <<>>, NEW q, Honest(fs, q),
         \A f \in Frame : Made(f, Last(s)) => Made(f, fs[1])
  PROVE  Honest(Front(s) \o fs, q)
<1> DEFINE t == Front(s) \o fs
           n == Len(s)
           m == Len(fs)
<1>1. /\ n \in Nat \ {0} /\ m \in Nat \ {0} /\ Len(t) = n - 1 + m
      /\ \A i \in 1..(n - 1) : t[i] = s[i]
      /\ \A k \in 1..m : t[n - 1 + k] = fs[k]
  BY Becoming
<1> HIDE DEF t
<1>2. \A i \in 1..Len(t) : i \in 1..(n - 1) \/ (i - (n - 1) \in 1..m /\ i = n - 1 + (i - (n - 1)))
  BY <1>1
<1>3. ASSUME NEW i \in 1..Len(t) PROVE Orderly(t[i])
  <2>1. CASE i \in 1..(n - 1)
    <3>1. i \in 1..Len(s)
      BY <1>1, <2>1
    <3> QED
      BY <1>1, <2>1, <3>1 DEF Honest
  <2>2. CASE i - (n - 1) \in 1..m /\ i = n - 1 + (i - (n - 1))
    <3>1. t[i] = fs[i - (n - 1)]
      BY <1>1, <2>2
    <3> QED
      BY <2>2, <3>1 DEF Honest
  <2> QED
    BY <1>2, <2>1, <2>2
<1>4. ASSUME NEW i \in 1..(Len(t) - 1) PROVE Made(t[i], t[i + 1])
  <2>1. CASE i < n - 1
    <3>1. i \in 1..(Len(s) - 1) /\ i \in 1..(n - 1) /\ i + 1 \in 1..(n - 1)
      BY <1>1, <2>1
    <3>2. t[i] = s[i] /\ t[i + 1] = s[i + 1]
      BY <1>1, <3>1
    <3> QED
      BY <3>1, <3>2 DEF Honest
  <2>2. CASE i = n - 1
    <3>1. i \in 1..(Len(s) - 1) /\ i \in 1..(n - 1) /\ 1 \in 1..m /\ i + 1 = n - 1 + 1 /\ i + 1 = n /\ i \in 1..Len(s)
      BY <1>1, <2>2
    <3>2. t[i] = s[i] /\ t[i + 1] = fs[1]
      BY <1>1, <3>1
    <3>3. Made(s[i], s[n])
      BY <3>1 DEF Honest
    <3>4. s[n] = Last(s) /\ s[i] \in Frame
      BY <3>1 DEF Last
    <3> QED
      BY <3>2, <3>3, <3>4
  <2>3. CASE i > n - 1
    <3> DEFINE k == i - (n - 1)
    <3>1. k \in 1..(m - 1) /\ k \in 1..m /\ k + 1 \in 1..m /\ i = n - 1 + k /\ i + 1 = n - 1 + (k + 1)
      BY <1>1, <2>3
    <3> HIDE DEF k
    <3>2. t[i] = fs[k] /\ t[i + 1] = fs[k + 1]
      BY <1>1, <3>1
    <3> QED
      BY <3>1, <3>2 DEF Honest
  <2> QED
    BY <1>1, <2>1, <2>2, <2>3
<1>5. Knows(t[Len(t)], q)
  <2>1. m \in 1..m
    BY <1>1
  <2>2. t[Len(t)] = fs[m]
    BY <1>1, <2>1
  <2> QED
    BY <1>1, <2>2 DEF Honest
<1>6. Honest(t, q)
  BY <1>3, <1>4, <1>5 DEF Honest
<1> QED
  BY <1>6 DEF t

\* A call returns to the one that made it.
LEMMA HonestEnds ==
  ASSUME NEW s \in Seq(Frame), s # <<>>, NEW r, Honest(s, r), NEW q,
         \A f \in Frame : Orderly(f) /\ Made(f, Last(s)) => Knows(f, q)
  PROVE  Honest(Front(s), q)
<1> DEFINE t == Front(s)
           n == Len(s)
<1>1. n \in Nat \ {0} /\ Len(t) = n - 1 /\ \A i \in 1..(n - 1) : t[i] = s[i]
  BY Fronts
<1> HIDE DEF t
<1>2. \A i \in 1..Len(t) : Orderly(t[i])
  BY <1>1 DEF Honest
<1>3. ASSUME NEW i \in 1..(Len(t) - 1) PROVE Made(t[i], t[i + 1])
  <2>1. i \in 1..(Len(s) - 1) /\ i \in 1..(n - 1) /\ i + 1 \in 1..(n - 1)
    BY <1>1
  <2> QED
    BY <1>1, <2>1 DEF Honest
<1>4. ASSUME Len(t) # 0 PROVE Knows(t[Len(t)], q)
  <2>1. n - 1 \in 1..(Len(s) - 1) /\ n - 1 \in 1..(n - 1) /\ n - 1 + 1 = n /\ n - 1 \in 1..Len(s)
    BY <1>1, <1>4
  <2>2. t[Len(t)] = s[n - 1] /\ s[n] = Last(s) /\ s[n - 1] \in Frame
    BY <1>1, <2>1 DEF Last
  <2>3. Made(s[n - 1], s[n]) /\ Orderly(s[n - 1])
    BY <2>1 DEF Honest
  <2> QED
    BY <2>2, <2>3
<1>5. Honest(t, q)
  BY <1>2, <1>3, <1>4 DEF Honest
<1> QED
  BY <1>5 DEF t

\* A goroutine's first call is one nothing is known of.
LEMMA HonestFirst ==
  ASSUME NEW f \in Frame, f.at # "wait", f.at = "body" => ~f.fired, NEW r
  PROVE  Honest(<<f>>, r)
<1>1. Len(<<f>>) = 1 /\ <<f>>[1] = f
  OBVIOUS
<1>2. Orderly(f) /\ Knows(f, r)
  BY DEF Orderly, Knows
<1> QED
  BY <1>1, <1>2 DEF Honest

-----------------------------------------------------------------------------
(* Steps *)

Said == ret \in [Proc -> {"none", "nil", "error"}] /\ \A p \in Proc : Honest(stack[p], ret[p])

LEMMA OneChanges ==
  ASSUME Errors, NEW p \in Proc, NEW t, NEW r \in {"none", "nil", "error"},
         stack' = [stack EXCEPT ![p] = t], ret' = [ret EXCEPT ![p] = r], Honest(t, r)
  PROVE  Said'
<1>1. \A q \in Proc : /\ stack'[q] = IF q = p THEN t ELSE stack[q]
                      /\ ret'[q] = IF q = p THEN r ELSE ret[q]
  BY DEF Errors, Inv, Typed
<1>2. ret' \in [Proc -> {"none", "nil", "error"}]
  BY DEF Errors
<1>3. ASSUME NEW q \in Proc PROVE Honest(stack'[q], ret'[q])
  BY <1>1 DEF Errors
<1>4. (\A q \in Proc : Honest(stack[q], ret[q]))' <=> \A q \in Proc : Honest(stack'[q], ret'[q])
  BY DEF Honest, Orderly, Made, Knows, Sorted, MayFail
<1> QED
  BY <1>2, <1>3, <1>4 DEF Said

LEMMA EndsHonest ==
  ASSUME Errors, NEW p \in Proc, ~Idle(p), NEW q \in {"none", "nil", "error"},
         stack' = [stack EXCEPT ![p] = Front(stack[p])],
         ret' = [ret EXCEPT ![p] = IF Len(stack[p]) = 1 THEN "none" ELSE q],
         Len(stack[p]) # 1 => \A f \in Frame : Orderly(f) /\ Made(f, Top(p)) => Knows(f, q)
  PROVE  Said'
<1>1. stack[p] \in Seq(Frame) /\ stack[p] # <<>> /\ Honest(stack[p], ret[p])
  BY DEF Errors, Inv, Typed, Idle
<1>2. CASE Len(stack[p]) = 1
  <2>1. Front(stack[p]) \in Seq(Frame) /\ Len(Front(stack[p])) = 0
    BY <1>1, <1>2, Fronts
  <2>2. Honest(Front(stack[p]), "none")
    BY <2>1 DEF Honest
  <2> QED
    BY <1>2, <2>2, OneChanges
<1>3. CASE Len(stack[p]) # 1
  <2>1. Honest(Front(stack[p]), q)
    BY <1>1, <1>3, HonestEnds DEF Top
  <2> QED
    BY <1>3, <2>1, OneChanges
<1> QED
  BY <1>2, <1>3

LEMMA NothingAfter ==
  ASSUME Errors, NEW p \in Proc, ~Idle(p)
  PROVE  Front(stack[p]) \o <<>> = Front(stack[p])
<1>1. Front(stack[p]) \in Seq(Frame)
  BY Fronts DEF Errors, Inv, Typed, Idle
<1> QED
  BY <1>1

\* The handlers that ran and those that are left.
LEMMA Parts ==
  ASSUME NEW a \in Seq(Handler), NEW b \in Seq(Handler)
  PROVE  /\ Len(a) \in Nat /\ Len(b) \in Nat /\ DOMAIN a = 1..Len(a)
         /\ Len(a \o b) = Len(a) + Len(b) /\ DOMAIN (a \o b) = 1..Len(a \o b)
         /\ \A i \in 1..Len(a) : (a \o b)[i] = a[i]
         /\ a = <<>> => a \o b = b
         /\ b = <<>> => a \o b = a
<1>1. a \o b \in Seq(Handler) /\ Len(a \o b) = Len(a) + Len(b)
      /\ \A i \in 1..(Len(a) + Len(b)) : (a \o b)[i] = IF i <= Len(a) THEN a[i] ELSE b[i - Len(a)]
  BY ConcatProperties
<1>2. \A i \in 1..Len(a) : (a \o b)[i] = a[i]
  BY <1>1
<1>3. (a = <<>> => a \o b = b) /\ (b = <<>> => a \o b = a)
  OBVIOUS
<1> QED
  BY <1>1, <1>2, <1>3

\* The handlers found are in the order of their weights.
LEMMA FindSorts ==
  ASSUME handlers \subseteq Handler, NEW ev, NEW s \in find(ev)
  PROVE  Sorted(s)
<1>1. s \in Seq(Handler)
  BY FindLists
<1>2. DOMAIN s = 1..Len(s)
  BY <1>1
<1> QED
  BY <1>2 DEF find, Sorted

LEMMA WaitForSaid ==
  ASSUME Errors, NEW p \in Proc, WaitFor(p)
  PROVE  Said'
<1>1. Typed /\ In(p, "rlock") /\ ~Idle(p) /\ Honest(stack[p], ret[p])
  BY DEF WaitFor, In, Inv, Errors
<1> DEFINE call == Top(p).call
<1>2. stack[p] \in Seq(Frame) /\ stack[p] # <<>> /\ Top(p).at = "rlock" /\ call \in Call
      /\ call.ev \in Event /\ call.does = "WaitFor"
  BY <1>1, TopFrame, FrameFields DEF Call, Idle, WaitFor
<1>3. PICK s \in find(call.ev) : Becomes(p, <<Waits(call.ev, s, <<>>)>>)
  BY DEF WaitFor
<1> DEFINE w == Waits(call.ev, s, <<>>)
<1>4. s \in Seq(Handler) /\ Sorted(s)
  BY <1>1, FindLists, FindSorts DEF Typed
<1>5. w \in Frame /\ w.at = "wait" /\ w.ran = <<>> /\ w.todo = s
  <2>1. <<>> \in Seq(Handler)
    OBVIOUS
  <2> QED
    BY <1>2, <1>4, <2>1, FrameShapes DEF Waits
<1>6. Orderly(w)
  <2>1. w.ran \o w.todo = s /\ Len(w.ran) = 0
    <3>1. <<>> \o s = s
      BY <1>4
    <3> QED
      BY <1>5, <3>1
  <2>2. 1..(0 - 1) = {}
    OBVIOUS
  <2> HIDE DEF w
  <2> QED
    BY <1>4, <1>5, <2>1, <2>2 DEF Orderly
<1>7. \A f \in Frame : Made(f, Last(stack[p])) => Made(f, w)
  BY <1>2, <1>5 DEF Made, Top
<1> HIDE DEF w
<1>8. <<w>> \in Seq(Frame) /\ Honest(<<w>>, "nil") /\ <<w>> # <<>> /\ <<w>>[1] = w
  BY <1>5, <1>6 DEF Honest, Knows
<1>9. Honest(Front(stack[p]) \o <<w>>, "nil")
  BY <1>1, <1>2, <1>7, <1>8, HonestGrows
<1>10. stack' = [stack EXCEPT ![p] = Front(stack[p]) \o <<w>>] /\ ret' = [ret EXCEPT ![p] = "nil"]
  BY <1>3 DEF Becomes, WaitFor, w
<1> QED
  BY <1>9, <1>10, OneChanges

LEMMA HandleSaid ==
  ASSUME Errors, NEW p \in Proc, Handle(p)
  PROVE  Said'
<1>1. Typed /\ In(p, "wait") /\ ~Idle(p) /\ Honest(stack[p], ret[p])
  BY DEF Handle, In, Inv, Errors
<1> DEFINE f == Top(p)
           h == Head(f.todo)
           w == Waits(f.ev, Tail(f.todo), Append(f.ran, h))
           b == Runs(h, FALSE)
<1>2. /\ stack[p] \in Seq(Frame) /\ stack[p] # <<>> /\ f \in Frame /\ f.at = "wait"
      /\ f = stack[p][Len(stack[p])] /\ Len(stack[p]) \in 1..Len(stack[p]) /\ Len(stack[p]) # 0
  BY <1>1, TopFrame DEF Idle
<1>3. f.ev \in Event /\ f.todo \in Seq(Handler) /\ f.ran \in Seq(Handler) /\ f.todo # <<>>
      /\ ret[p] # "error"
  BY <1>2, FrameFields DEF Handle
<1>4. Orderly(f) /\ Knows(f, ret[p])
  BY <1>1, <1>2 DEF Honest
<1>5. Becomes(p, <<w, b>>) /\ UNCHANGED ret
  BY DEF Handle
<1>6. /\ h \in Handler /\ Tail(f.todo) \in Seq(Handler) /\ Append(f.ran, h) \in Seq(Handler)
      /\ Append(f.ran, h) \o Tail(f.todo) = f.ran \o f.todo
  BY <1>3, Passes
<1>7. /\ w \in Frame /\ w.at = "wait" /\ w.ran = Append(f.ran, h) /\ w.todo = Tail(f.todo)
      /\ b \in Frame /\ b.at = "body" /\ b.h = h /\ b.fired = FALSE
  BY <1>3, <1>6, FrameShapes DEF Waits, Runs
<1>8. \A g \in Frame : Made(g, Last(stack[p])) => Made(g, w)
  BY <1>2, <1>7 DEF Made, Top
<1> HIDE DEF w, b, h, f
<1>9. /\ Len(w.ran) = Len(f.ran) + 1 /\ Len(f.ran) \in Nat /\ w.ran # <<>> /\ Last(w.ran) = h
      /\ \A i \in 1..Len(f.ran) : w.ran[i] = f.ran[i]
  BY <1>3, <1>6, <1>7 DEF Last
<1>10. \A i \in 1..(Len(w.ran) - 1) : Body[w.ran[i]].does # "fail"
  <2> SUFFICES ASSUME NEW i \in 1..(Len(w.ran) - 1) PROVE Body[f.ran[i]].does # "fail"
    BY <1>9
  <2>1. CASE i = Len(f.ran)
    <3>1. f.ran # <<>> /\ f.ran[i] = Last(f.ran)
      BY <1>3, <1>9, <2>1 DEF Last
    <3> QED
      BY <1>2, <1>3, <1>4, <3>1 DEF Knows
  <2>2. CASE i # Len(f.ran)
    <3>1. i \in 1..(Len(f.ran) - 1)
      BY <1>9, <2>2
    <3> QED
      BY <1>2, <1>4, <3>1 DEF Orderly
  <2> QED
    BY <2>1, <2>2
<1>11. Orderly(w) /\ Orderly(b) /\ Made(w, b) /\ Knows(b, ret[p])
  <2>1. Sorted(w.ran \o w.todo)
    BY <1>2, <1>4, <1>6, <1>7 DEF Orderly
  <2> QED
    BY <1>7, <1>9, <1>10, <2>1 DEF Orderly, Made, Knows
<1>12. <<w, b>> \in Seq(Frame) /\ Honest(<<w, b>>, ret[p]) /\ <<w, b>> # <<>> /\ <<w, b>>[1] = w
  <2>1. Len(<<w, b>>) = 2 /\ <<w, b>>[1] = w /\ <<w, b>>[2] = b
    OBVIOUS
  <2>2. \A i \in 1..2 : i = 1 \/ i = 2
    OBVIOUS
  <2>3. \A i \in 1..(2 - 1) : i = 1
    OBVIOUS
  <2>4. Honest(<<w, b>>, ret[p])
    BY <1>11, <2>1, <2>2, <2>3 DEF Honest
  <2> QED
    BY <1>7, <2>4
<1>13. Honest(Front(stack[p]) \o <<w, b>>, ret[p])
  BY <1>1, <1>2, <1>8, <1>12, HonestGrows
<1>14. stack' = [stack EXCEPT ![p] = Front(stack[p]) \o <<w, b>>] /\ ret' = [ret EXCEPT ![p] = ret[p]]
  BY <1>5 DEF Becomes, Errors
<1>15. ret[p] \in {"none", "nil", "error"}
  BY DEF Errors
<1> QED
  BY <1>13, <1>14, <1>15, OneChanges

LEMMA FireSaid ==
  ASSUME Errors, NEW p \in Proc, Fire(p)
  PROVE  Said'
<1>1. Typed /\ In(p, "body") /\ ~Idle(p) /\ Honest(stack[p], ret[p])
  BY DEF Fire, In, Inv, Errors
<1> DEFINE h == Top(p).h
           b == Runs(h, TRUE)
           w == Wants(Body[h])
<1>2. /\ stack[p] \in Seq(Frame) /\ stack[p] # <<>> /\ Top(p).at = "body"
      /\ h \in Handler /\ Body[h] \in Call
  BY <1>1, TopFrame, FrameFields DEF Fire, Idle
<1>3. /\ b \in Frame /\ b.at = "body" /\ b.h = h /\ b.fired = TRUE
      /\ w \in Frame /\ w.at = "rlock" /\ w.call = Body[h]
  BY <1>2, FrameShapes DEF Wants, Runs
<1>4. \A g \in Frame : Made(g, Last(stack[p])) => Made(g, b)
  BY <1>2, <1>3 DEF Made, Top
<1>5. Becomes(p, <<b, w>>) /\ UNCHANGED ret
  BY DEF Fire
<1> HIDE DEF b, w, h
<1>6. Orderly(b) /\ Orderly(w) /\ Made(b, w) /\ Knows(w, ret[p])
  BY <1>2, <1>3 DEF Orderly, Made, Knows
<1>7. <<b, w>> \in Seq(Frame) /\ Honest(<<b, w>>, ret[p]) /\ <<b, w>> # <<>> /\ <<b, w>>[1] = b
  <2>1. Len(<<b, w>>) = 2 /\ <<b, w>>[1] = b /\ <<b, w>>[2] = w
    OBVIOUS
  <2>2. \A i \in 1..2 : i = 1 \/ i = 2
    OBVIOUS
  <2>3. \A i \in 1..(2 - 1) : i = 1
    OBVIOUS
  <2>4. Honest(<<b, w>>, ret[p])
    BY <1>6, <2>1, <2>2, <2>3 DEF Honest
  <2> QED
    BY <1>3, <2>4
<1>8. Honest(Front(stack[p]) \o <<b, w>>, ret[p])
  BY <1>1, <1>2, <1>4, <1>7, HonestGrows
<1>9. stack' = [stack EXCEPT ![p] = Front(stack[p]) \o <<b, w>>] /\ ret' = [ret EXCEPT ![p] = ret[p]]
  BY <1>5 DEF Becomes, Errors
<1>10. ret[p] \in {"none", "nil", "error"}
  BY DEF Errors
<1> QED
  BY <1>8, <1>9, <1>10, OneChanges

\* A handler that fails, or whose WaitFor failed, returns the error.
LEMMA ReturnSaid ==
  ASSUME Errors, NEW p \in Proc, Return(p)
  PROVE  Said'
<1>1. Typed /\ In(p, "body") /\ ~Idle(p) /\ Honest(stack[p], ret[p])
  BY DEF Return, In, Inv, Errors
<1> DEFINE f == Top(p)
           b == Body[f.h]
           q == CASE b.does = "succeed" -> "nil" [] b.does = "fail" -> "error" [] OTHER -> ret[p]
<1>2. /\ stack[p] \in Seq(Frame) /\ stack[p] # <<>> /\ f \in Frame /\ f.at = "body" /\ f.h \in Handler
      /\ f = stack[p][Len(stack[p])] /\ Len(stack[p]) # 0
  BY <1>1, TopFrame, FrameFields DEF Idle
<1>3. Knows(f, ret[p]) /\ (b \in Call => f.fired)
  BY <1>1, <1>2 DEF Honest, Return
<1>4. \/ b \in Call /\ b.does \in {"WaitFor", "Dispatch"}
      \/ b.does \in {"succeed", "fail"}
  BY <1>2, HandlerAssumption DEF Call, Plain
<1>5. Ends(p, q)
  BY DEF Return
<1> HIDE DEF f
<1>6. /\ b.does = "succeed" => q = "nil"
      /\ b.does = "fail" => q = "error"
      /\ b.does # "succeed" /\ b.does # "fail" => q = ret[p]
  OBVIOUS
<1> HIDE DEF q
<1>7. q \in {"none", "nil", "error"}
  BY <1>4, <1>6 DEF Errors
<1>8. /\ q = "error" => MayFail(f.h)
      /\ q # "error" => b.does # "fail"
  <2>1. CASE b.does = "succeed"
    BY <1>6, <2>1
  <2>2. CASE b.does = "fail"
    BY <1>6, <2>2 DEF MayFail
  <2>3. CASE b \in Call /\ b.does \in {"WaitFor", "Dispatch"}
    <3>1. q = ret[p] /\ f.fired
      BY <1>3, <1>6, <2>3
    <3> QED
      BY <1>2, <1>3, <2>3, <3>1 DEF Knows, MayFail
  <2> QED
    BY <1>4, <2>1, <2>2, <2>3
<1>9. \A g \in Frame : Orderly(g) /\ Made(g, Top(p)) => Knows(g, q)
  BY <1>2, <1>8 DEF Made, Knows, f
<1>10. /\ stack' = [stack EXCEPT ![p] = Front(stack[p])]
       /\ ret' = [ret EXCEPT ![p] = IF Len(stack[p]) = 1 THEN "none" ELSE q]
  BY <1>1, <1>5, NothingAfter DEF Ends, Becomes
<1> QED
  BY <1>1, <1>7, <1>9, <1>10, EndsHonest

LEMMA WaitForReturnsSaid ==
  ASSUME Errors, NEW p \in Proc, WaitForReturns(p)
  PROVE  Said'
<1>1. Typed /\ In(p, "wait") /\ ~Idle(p) /\ Ends(p, ret[p])
  BY DEF WaitForReturns, In, Inv, Errors
<1>2. Top(p).at = "wait" /\ ret[p] \in {"none", "nil", "error"}
  BY <1>1, TopFrame DEF Errors
<1>3. \A g \in Frame : Orderly(g) /\ Made(g, Top(p)) => Knows(g, ret[p])
  BY <1>2 DEF Made, Knows
<1>4. /\ stack' = [stack EXCEPT ![p] = Front(stack[p])]
      /\ ret' = [ret EXCEPT ![p] = IF Len(stack[p]) = 1 THEN "none" ELSE ret[p]]
  BY <1>1, NothingAfter DEF Ends, Becomes
<1> QED
  BY <1>1, <1>2, <1>3, <1>4, EndsHonest

LEMMA ApplySaid ==
  ASSUME Errors, NEW p \in Proc, Apply(p)
  PROVE  Said'
<1>1. Typed /\ In(p, "lock") /\ ~Idle(p) /\ Ends(p, "nil")
  BY DEF Apply, In, Inv, Errors
<1>2. Top(p).at = "lock"
  BY <1>1, TopFrame
<1>3. \A g \in Frame : Orderly(g) /\ Made(g, Top(p)) => Knows(g, "nil")
  BY <1>2 DEF Made
<1>4. /\ stack' = [stack EXCEPT ![p] = Front(stack[p])]
      /\ ret' = [ret EXCEPT ![p] = IF Len(stack[p]) = 1 THEN "none" ELSE "nil"]
  BY <1>1, NothingAfter DEF Ends, Becomes
<1> QED
  BY <1>1, <1>3, <1>4, EndsHonest

LEMMA BeginSaid ==
  ASSUME Errors, NEW c \in Caller, Begin(c)
  PROVE  Said'
<1>1. c \in Proc /\ ret[c] \in {"none", "nil", "error"}
  BY DEF Errors, Proc
<1>2. PICK f \in Frame : /\ f.at # "wait" /\ f.at # "body"
                         /\ stack' = [stack EXCEPT ![c] = <<f>>]
  <2>1. CASE \E call \in Fired : stack' = [stack EXCEPT ![c] = <<Wants(call)>>]
    BY <2>1, HandlerAssumption, FrameShapes
  <2>2. CASE \E change \in Changes : stack' = [stack EXCEPT ![c] = <<Changing(change)>>]
    BY <2>2, HandlerAssumption, FrameShapes
  <2> QED
    BY <2>1, <2>2 DEF Begin
<1>3. ret' = [ret EXCEPT ![c] = ret[c]]
  BY DEF Begin, Errors
<1>4. Honest(<<f>>, ret[c])
  BY <1>2, HonestFirst
<1> QED
  BY <1>1, <1>2, <1>3, <1>4, OneChanges

\* Goroutines that are started know nothing yet.
LEMMA GrownHonest ==
  ASSUME Errors, NEW first, IsFiniteSet(DOMAIN first), CanGo(DOMAIN first),
         \A x \in DOMAIN first : /\ first[x] \in Frame /\ first[x].at # "wait"
                                 /\ first[x].at = "body" => ~first[x].fired,
         NEW p \in Proc
  PROVE  Honest(Started(first)[p], ret[p])
<1>1. CASE Started(first)[p] = stack[p]
  BY <1>1 DEF Errors
<1>2. CASE \E x \in DOMAIN first : Started(first)[p] = <<first[x]>>
  <2>1. PICK x \in DOMAIN first : Started(first)[p] = <<first[x]>>
    BY <1>2
  <2>2. Honest(<<first[x]>>, ret[p])
    BY HonestFirst
  <2> QED
    BY <2>1, <2>2
<1> QED
  BY <1>1, <1>2, Grown DEF Errors, Inv

LEMMA DispatchSaid ==
  ASSUME Errors, NEW p \in Proc, Dispatch(p)
  PROVE  Said'
<1> DEFINE set == Found(Top(p).call.ev)
           first == [h \in set |-> Runs(h, FALSE)]
           r == IF Len(stack[p]) = 1 THEN "none" ELSE "nil"
<1>1. /\ Typed /\ In(p, "rlock") /\ ~Idle(p) /\ Honest(stack[p], ret[p])
      /\ stack[p] \in Seq(Frame) /\ stack[p] # <<>>
  BY DEF Dispatch, In, Inv, Errors, Typed, Idle
<1>2. Top(p).at = "rlock" /\ Top(p).call.does = "Dispatch"
  BY <1>1, TopFrame DEF Dispatch
<1>3. IsFiniteSet(set) /\ set \subseteq Handler
  BY <1>1, HandlerAssumption, FS_Subset DEF Found, Typed
<1>4. \A x \in DOMAIN first : /\ first[x] \in Frame /\ first[x].at # "wait"
                              /\ first[x].at = "body" => ~first[x].fired
  BY <1>3, FrameShapes DEF Runs
<1>5. /\ CanGo(set) /\ stack' = [Started(first) EXCEPT ![p] = Front(@)]
      /\ ret' = [ret EXCEPT ![p] = r]
  BY DEF Dispatch
<1>6. DOMAIN first = set
  OBVIOUS
<1> HIDE DEF first, set
<1>7. Started(first)[p] = stack[p]
  BY <1>1, <1>3, <1>5, <1>6, Grown
<1>8. Started(first) \in [Proc -> Seq(Frame)]
  BY <1>1, <1>4, StartedKeeps
<1>9. Honest(Front(stack[p]), r)
  <2>1. \A g \in Frame : Orderly(g) /\ Made(g, Last(stack[p])) => Knows(g, r)
    BY <1>2 DEF Made, Knows, Top
  <2> QED
    BY <1>1, <2>1, HonestEnds
<1>10. ASSUME NEW q \in Proc PROVE Honest(stack'[q], ret'[q])
  <2>1. CASE q = p
    <3>1. stack'[q] = Front(stack[p]) /\ ret'[q] = r
      BY <1>5, <1>7, <1>8, <2>1 DEF Errors
    <3> QED
      BY <1>9, <3>1
  <2>2. CASE q # p
    <3>1. stack'[q] = Started(first)[q] /\ ret'[q] = ret[q]
      BY <1>5, <1>8, <2>2 DEF Errors
    <3> QED
      BY <1>3, <1>4, <1>5, <1>6, <3>1, GrownHonest
  <2> QED
    BY <2>1, <2>2
<1>11. ret' \in [Proc -> {"none", "nil", "error"}]
  BY <1>5 DEF Errors
<1>12. (\A q \in Proc : Honest(stack[q], ret[q]))' <=> \A q \in Proc : Honest(stack'[q], ret'[q])
  BY DEF Honest, Orderly, Made, Knows, Sorted, MayFail
<1> QED
  BY <1>10, <1>11, <1>12 DEF Said

LEMMA TickSaid ==
  ASSUME Errors, Tick
  PROVE  Said'
<1> DEFINE first == [ev \in Scheduled |-> Wants([does |-> "WaitFor", ev |-> ev])]
<1>1. \A ev \in DOMAIN first : /\ first[ev] \in Frame /\ first[ev].at # "wait"
                               /\ first[ev].at = "body" => ~first[ev].fired
  <2>1. \A ev \in Scheduled : [does |-> "WaitFor", ev |-> ev] \in Call
    BY HandlerAssumption DEF Call
  <2> QED
    BY <2>1, FrameShapes
<1>2. stack' = Started(first) /\ CanGo(Scheduled) /\ UNCHANGED ret
  BY DEF Tick
<1>3. DOMAIN first = Scheduled /\ IsFiniteSet(Scheduled)
  BY HandlerAssumption
<1> HIDE DEF first
<1>4. \A q \in Proc : Honest(stack'[q], ret'[q])
  BY <1>1, <1>2, <1>3, GrownHonest
<1>5. (\A q \in Proc : Honest(stack[q], ret[q]))' <=> \A q \in Proc : Honest(stack'[q], ret'[q])
  BY DEF Honest, Orderly, Made, Knows, Sorted, MayFail
<1> QED
  BY <1>2, <1>4, <1>5 DEF Said, Errors

LEMMA NextErrors ==
  ASSUME Errors, [Next]_vars
  PROVE  Errors'
<1>1. Inv'
  BY NextInv DEF Errors
<1>2. ASSUME UNCHANGED <<stack, ret>> PROVE Said'
  <2>1. (\A q \in Proc : Honest(stack[q], ret[q]))' <=> \A q \in Proc : Honest(stack'[q], ret'[q])
    BY DEF Honest, Orderly, Made, Knows, Sorted, MayFail
  <2> QED
    BY <1>2, <2>1 DEF Said, Errors
<1>3. ASSUME NEW p \in Proc, Announce(p) PROVE Said'
  BY <1>2, <1>3 DEF Announce
<1>4. ASSUME UNCHANGED vars PROVE Said'
  BY <1>2, <1>4 DEF vars
<1>5. ASSUME NEW p \in Proc, Step(p) PROVE Said'
  BY <1>3, <1>5, WaitForSaid, DispatchSaid, HandleSaid, WaitForReturnsSaid, FireSaid,
     ReturnSaid, ApplySaid DEF Step
<1>6. Said'
  BY <1>4, <1>5, BeginSaid, TickSaid DEF Next
<1> QED
  BY <1>1, <1>6 DEF Errors, Said

LEMMA InitErrors == Init => Errors
<1> SUFFICES ASSUME Init PROVE Errors
  OBVIOUS
<1>1. ret \in [Proc -> {"none", "nil", "error"}]
  BY DEF Init
<1>2. ASSUME NEW p \in Proc PROVE Honest(stack[p], ret[p])
  <2>1. stack[p] = <<>>
    BY DEF Init
  <2> QED
    BY <2>1 DEF Honest
<1> QED
  BY <1>1, <1>2, InitInv DEF Errors

\* A goroutine that is in a call takes its own steps only.
LEMMA Others ==
  ASSUME Errors, NEW p \in Proc, ~Idle(p), [Next]_vars, ~Step(p)
  PROVE  stack'[p] = stack[p]
<1>1. Typed
  BY DEF Errors, Inv
<1>2. ASSUME NEW q \in Proc, Step(q) PROVE stack'[p] = stack[p]
  <2>1. q # p
    BY <1>2
  <2>2. CASE Dispatch(q)
    <3> DEFINE set == Found(Top(q).call.ev)
               first == [h \in set |-> Runs(h, FALSE)]
    <3>1. IsFiniteSet(set)
      BY <1>1, HandlerAssumption, FS_Subset DEF Found, Typed
    <3>2. \A x \in DOMAIN first : first[x] \in Frame /\ first[x].at # "wait"
      BY <1>1, FrameShapes DEF Found, Typed
    <3>3. CanGo(set) /\ stack' = [Started(first) EXCEPT ![q] = Front(@)] /\ DOMAIN first = set
      BY <2>2 DEF Dispatch
    <3> HIDE DEF first, set
    <3>4. Started(first)[p] = stack[p]
      BY <1>1, <3>1, <3>3, Grown
    <3>5. Started(first) \in [Proc -> Seq(Frame)]
      BY <1>1, <3>2, StartedKeeps
    <3> QED
      BY <2>1, <3>3, <3>4, <3>5
  <2>3. CASE ~Dispatch(q)
    <3>1. UNCHANGED stack \/ \E t : stack' = [stack EXCEPT ![q] = t]
      BY <1>2, <2>3 DEF Step, WaitFor, Handle, WaitForReturns, Fire, Return, Announce, Apply, Ends, Becomes
    <3> QED
      BY <1>1, <2>1, <3>1 DEF Typed
  <2> QED
    BY <2>2, <2>3
<1>3. ASSUME NEW c \in Caller, Begin(c) PROVE stack'[p] = stack[p]
  <2>1. c # p
    BY <1>3 DEF Begin
  <2>2. \E t : stack' = [stack EXCEPT ![c] = t]
    BY <1>3 DEF Begin
  <2> QED
    BY <1>1, <2>1, <2>2 DEF Typed
<1>4. ASSUME Tick PROVE stack'[p] = stack[p]
  <2> DEFINE first == [ev \in Scheduled |-> Wants([does |-> "WaitFor", ev |-> ev])]
  <2>1. stack' = Started(first) /\ CanGo(Scheduled)
    BY <1>4 DEF Tick
  <2>2. DOMAIN first = Scheduled /\ IsFiniteSet(Scheduled)
    BY HandlerAssumption
  <2> HIDE DEF first
  <2> QED
    BY <1>1, <2>1, <2>2, Grown
<1>5. ASSUME UNCHANGED vars PROVE stack'[p] = stack[p]
  BY <1>5 DEF vars
<1> QED
  BY <1>2, <1>3, <1>4, <1>5 DEF Next

\* The only call that ends while a WaitFor is innermost is that WaitFor.
LEMMA OnlyReturns ==
  ASSUME Errors, NEW p \in Proc, In(p, "wait"), [Next]_vars, Len(stack'[p]) < Len(stack[p])
  PROVE  WaitForReturns(p)
<1>1. /\ Typed /\ Top(p).at = "wait" /\ ~Idle(p)
      /\ stack[p] \in Seq(Frame) /\ stack[p] # <<>> /\ Len(stack[p]) \in Nat \ {0}
  BY TopFrame DEF Errors, Inv, In, Idle
<1>2. Step(p)
  <2>1. stack'[p] # stack[p]
    BY <1>1
  <2> QED
    BY <1>1, <2>1, Others
<1>3. ~WaitFor(p) /\ ~Dispatch(p) /\ ~Fire(p) /\ ~Return(p) /\ ~Announce(p) /\ ~Apply(p)
  BY <1>1 DEF WaitFor, Dispatch, Fire, Return, Announce, Apply, In
<1>4. ~Handle(p)
  <2> SUFFICES ASSUME Handle(p) PROVE FALSE
    OBVIOUS
  <2> DEFINE f == Top(p)
             w == Waits(f.ev, Tail(f.todo), Append(f.ran, Head(f.todo)))
             b == Runs(Head(f.todo), FALSE)
  <2>1. f \in Frame /\ f.ev \in Event /\ f.todo \in Seq(Handler) /\ f.ran \in Seq(Handler) /\ f.todo # <<>>
    BY <1>1, TopFrame, FrameFields DEF Handle
  <2>2. w \in Frame /\ b \in Frame
    BY <2>1, Passes, FrameShapes
  <2>3. Becomes(p, <<w, b>>)
    BY DEF Handle
  <2> HIDE DEF w, b
  <2>4. <<w, b>> \in Seq(Frame) /\ Len(<<w, b>>) = 2
    BY <2>2
  <2>5. stack'[p] = Front(stack[p]) \o <<w, b>>
    BY <1>1, <2>3 DEF Becomes, Typed
  <2>6. Len(stack'[p]) = Len(stack[p]) - 1 + 2
    BY <1>1, <2>4, <2>5, Becoming
  <2> QED
    BY <1>1, <2>6
<1> QED
  BY <1>2, <1>3, <1>4 DEF Step

\* What a WaitFor that returns has done.
LEMMA ReturnsHonest ==
  ASSUME Errors, NEW p \in Proc, WaitForReturns(p)
  PROVE  LET ran == Top(p).ran
         IN  /\ \A i \in 1..(Len(ran) - 1) : Body[ran[i]].does # "fail"
             /\ \A h \in ToSet(ran), o \in Found(Top(p).ev) \ ToSet(ran) : Weight[h] <= Weight[o]
             /\ IF ret[p] = "error" THEN MayFail(Last(ran))
                ELSE ToSet(ran) = Found(Top(p).ev) /\ \A h \in ToSet(ran) : Body[h].does # "fail"
<1> DEFINE f == Top(p)
           ran == f.ran
           todo == f.todo
           all == ran \o todo
<1>1. /\ Typed /\ In(p, "wait") /\ Honest(stack[p], ret[p])
      /\ todo = <<>> \/ ret[p] = "error"
  BY DEF WaitForReturns, Errors, Inv
<1>2. /\ f \in Frame /\ f.at = "wait"
      /\ f = stack[p][Len(stack[p])] /\ Len(stack[p]) \in 1..Len(stack[p]) /\ Len(stack[p]) # 0
  BY <1>1, TopFrame
<1>3. f.ev \in Event /\ todo \in Seq(Handler) /\ ran \in Seq(Handler)
  BY <1>2, FrameFields
<1>4. Current(f) /\ Orderly(f) /\ Knows(f, ret[p])
  BY <1>1, <1>2 DEF Honest, Errors, Inv
<1> HIDE DEF f
<1>5. ToSet(all) = Found(f.ev) /\ Sorted(all)
  BY <1>2, <1>4 DEF Current, Orderly
<1>6. /\ Len(ran) \in Nat /\ Len(todo) \in Nat /\ DOMAIN ran = 1..Len(ran)
      /\ Len(all) = Len(ran) + Len(todo) /\ DOMAIN all = 1..Len(all)
      /\ \A i \in 1..Len(ran) : all[i] = ran[i]
      /\ todo = <<>> => all = ran
  BY <1>3, Parts
<1>7. \A i \in 1..(Len(ran) - 1) : Body[ran[i]].does # "fail"
  BY <1>2, <1>4 DEF Orderly
<1>8. ASSUME NEW h \in ToSet(ran), NEW o \in Found(f.ev) \ ToSet(ran) PROVE Weight[h] <= Weight[o]
  <2>1. PICK i \in 1..Len(ran) : ran[i] = h
    BY <1>6 DEF ToSet
  <2>2. PICK j \in 1..Len(all) : all[j] = o
    BY <1>5, <1>6 DEF ToSet
  <2>3. ~(j <= Len(ran))
    <3> SUFFICES ASSUME j <= Len(ran) PROVE FALSE
      OBVIOUS
    <3>1. j \in 1..Len(ran)
      BY <1>6
    <3>2. o = ran[j]
      BY <1>6, <2>2, <3>1
    <3> QED
      BY <1>6, <3>1, <3>2 DEF ToSet
  <2>4. i \in 1..Len(all) /\ i < j /\ all[i] = h
    <3> HIDE DEF all, ran, todo
    <3> QED
      BY <1>6, <2>1, <2>3
  <2> QED
    BY <1>5, <2>2, <2>4 DEF Sorted
<1>9. CASE ret[p] = "error"
  BY <1>2, <1>4, <1>7, <1>8, <1>9 DEF Knows, f
<1>10. CASE ret[p] # "error"
  <2>1. all = ran
    BY <1>1, <1>6, <1>10 DEF f
  <2>2. ASSUME NEW h \in ToSet(ran) PROVE Body[h].does # "fail"
    <3>1. PICK i \in 1..Len(ran) : ran[i] = h
      BY <1>6 DEF ToSet
    <3>2. CASE i = Len(ran)
      <4>1. ran # <<>> /\ Last(ran) = h
        BY <1>3, <1>6, <3>1, <3>2 DEF Last
      <4> QED
        BY <1>2, <1>4, <1>10, <4>1 DEF Knows
    <3>3. CASE i # Len(ran)
      <4>1. i \in 1..(Len(ran) - 1)
        BY <1>6, <3>3
      <4> QED
        BY <1>7, <3>1, <4>1
    <3> QED
      BY <3>2, <3>3
  <2> QED
    BY <1>5, <1>7, <1>8, <1>10, <2>1, <2>2 DEF f
<1> QED
  BY <1>9, <1>10

-----------------------------------------------------------------------------
\* What every goroutine knows of the errors of its calls.
THEOREM ErrorsKnown == Spec => []Errors
<1>1. Errors /\ [Next]_vars => Errors'
  BY NextErrors
<1> QED
  BY <1>1, InitErrors, PTL DEF Spec

\* A WaitFor that returns an error stopped at the first handler that failed,
\* and one that returns none ran them all, however deep its handlers fire
\* events themselves and whatever other goroutines do.
THEOREM StopsAtFirstError == Spec => FailsOnFirstError
<1> DEFINE P == \A p \in Proc :
             (In(p, "wait") /\ Len(stack'[p]) < Len(stack[p])) =>
                LET ran == Top(p).ran
                    mayFail(h) == Body[h].does # "succeed" /\ Body[h].does # "Dispatch"
                IN  /\ \A i \in 1..(Len(ran) - 1) : Body[ran[i]].does # "fail"
                    /\ \A h \in ToSet(ran), o \in Found(Top(p).ev) \ ToSet(ran) : Weight[h] <= Weight[o]
                    /\ IF ret[p] = "error" THEN mayFail(Last(ran))
                       ELSE ToSet(ran) = Found(Top(p).ev) /\ \A h \in ToSet(ran) : Body[h].does # "fail"
<1>1. Errors /\ [Next]_vars => P
  <2> SUFFICES ASSUME Errors, [Next]_vars, NEW p \in Proc,
                      In(p, "wait"), Len(stack'[p]) < Len(stack[p])
               PROVE  LET ran == Top(p).ran
                          mayFail(h) == Body[h].does # "succeed" /\ Body[h].does # "Dispatch"
                      IN  /\ \A i \in 1..(Len(ran) - 1) : Body[ran[i]].does # "fail"
                          /\ \A h \in ToSet(ran), o \in Found(Top(p).ev) \ ToSet(ran) : Weight[h] <= Weight[o]
                          /\ IF ret[p] = "error" THEN mayFail(Last(ran))
                             ELSE ToSet(ran) = Found(Top(p).ev) /\ \A h \in ToSet(ran) : Body[h].does # "fail"
    OBVIOUS
  <2>1. WaitForReturns(p)
    BY OnlyReturns
  <2> QED
    BY <2>1, ReturnsHonest DEF MayFail
<1>2. Spec => [][P]_vars
  BY <1>1, ErrorsKnown, PTL DEF Spec
<1> QED
  BY <1>2 DEF FailsOnFirstError

=============================================================================
