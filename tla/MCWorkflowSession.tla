-------------------------- MODULE MCWorkflowSession --------------------------
(***************************************************************************)
(* Small workflow graphs for TLC.  Each is the Children function; the kind *)
(* of a step is given once for all of them by its name.                    *)
(***************************************************************************)
EXTENDS WorkflowSessionLife, TLC

\* what each step name stands for
KindOf(s) ==
    CASE s \in {"fork", "forkAsk", "forkDelay", "forkAll", "forkFail",
              "forkEnd"} -> "fork"
      [] s \in {"join", "strayJoin", "meet"} -> "join"
      [] s \in {"excl", "oneOf"} -> "excl"
      [] s \in {"incl"} -> "incl"
      [] s \in {"loop", "loop2"} -> "iterator"
      [] s \in {"break", "strayBreak"} -> "break"
      [] s \in {"continue", "strayContinue"} -> "continue"
      [] s \in {"delay", "delay2"} -> "delay"
      [] s \in {"ask", "ask2", "askNobody"} -> "prompt"
      [] s \in {"try"} -> "errHandler"
      [] s \in {"raise", "raise2"} -> "error"
      [] s \in {"end"} -> "termination"
      [] OTHER -> "function"

MCKind == [s \in Step |-> KindOf(s)]
MCOwner == [s \in Step |-> IF s = "askNobody" THEN NoUser ELSE "ann"]
NoFaults == [s \in Step |-> {}]
NoLoops == [s \in Step |-> None]
WaitAll == {"failed", "delayed", "completed"}

\* From fork, a step that may fail or crash under an error handler that may
\* fail too, beside another path; from excl, a join gateway one of whose paths
\* this session never takes; from forkAsk and forkDelay, a fork of two paths of
\* which one prompts, or is delayed; from forkAll, more paths than the queue has
\* room for; from forkFail, two paths of which one fails and the other may fail
\* too, or complete the session; from forkEnd, a delay that is executed before,
\* beside or after a termination; from z, which may fail, a join gateway whose
\* other path only a session started at another step takes.
CallersChildren == [fork |-> <<"try", "a">>, try |-> <<"b", "c">>, b |-> <<"m">>,
                c |-> <<"m">>, m |-> <<"join">>, a |-> <<"join">>,
                join |-> <<>>,
                excl |-> <<"ask", "p">>, ask |-> <<"strayJoin">>,
                p |-> <<"strayJoin">>, strayJoin |-> <<>>,
                forkAsk |-> <<"x", "ask2">>, x |-> <<>>, ask2 |-> <<>>,
                forkDelay |-> <<"delay", "y">>, delay |-> <<>>, y |-> <<>>,
                forkAll |-> <<"u", "v", "w">>, u |-> <<>>, v |-> <<>>, w |-> <<>>,
                forkFail |-> <<"raise", "g">>, raise |-> <<>>, g |-> <<>>,
                forkEnd |-> <<"end", "delay2">>, end |-> <<>>, delay2 |-> <<>>,
                z |-> <<"meet">>, other |-> <<"meet">>, meet |-> <<>>]
CallersStep == DOMAIN CallersChildren
CallersFaults == [[s \in Step |-> {}] EXCEPT !["b"] = {"error", "panic"},
                                        !["c"] = {"error"}, !["z"] = {"error"},
                                        !["g"] = {"error"}]

\* three workflows in one graph, each with a start of its own: two paths that
\* are both delayed and joined again; every way a path can end badly, and a
\* prompt beside a termination; nested loops, left by exhaustion and by break,
\* continued early
PathsChildren ==
    [fork |-> <<"delay", "delay2">>, delay |-> <<"join">>,
     delay2 |-> <<"join">>, join |-> <<"p">>, p |-> <<>>,

     oneOf |-> <<"askNobody", "strayBreak", "strayContinue", "incl", "try">>,
     askNobody |-> <<>>, strayBreak |-> <<>>, strayContinue |-> <<>>,
     incl |-> <<"ask", "q">>, ask |-> <<>>, q |-> <<"end">>, end |-> <<>>,
     try |-> <<"raise", "strayJoin">>, raise |-> <<>>, strayJoin |-> <<>>,

     loop |-> <<"excl", "x">>, excl |-> <<"break", "continue", "loop2">>,
     break |-> <<>>, continue |-> <<>>, loop2 |-> <<"w", "y">>,
     w |-> <<>>, y |-> <<>>, x |-> <<>>]
PathsStep == DOMAIN PathsChildren
PathsFaults == [[s \in Step |-> {}] EXCEPT !["loop"] = {"next"},
                                          !["loop2"] = {"start"}]
PathsNesting == [s \in Step |->
    CASE s \in {"excl", "break", "continue", "loop2", "y"} -> "loop"
      [] s = "w" -> "loop2"
      [] OTHER -> None]

\* the loops among them, which the theorem about loop stacks is about
PathsLoops == {"loop", "excl", "x", "break", "continue", "loop2", "w", "y"}
ASSUME LoopsOnOnePath ==
    PathsLoops \subseteq Step => OnePath(PathsLoops)

\* two paths of which one prompts
AskChildren == [fork |-> <<"a", "ask">>, a |-> <<>>, ask |-> <<>>]
AskStep == DOMAIN AskChildren

\* two paths that meet again
MeetChildren == [fork |-> <<"a", "b">>, a |-> <<"join">>, b |-> <<"join">>,
                 join |-> <<>>]
MeetStep == DOMAIN MeetChildren

=============================================================================
