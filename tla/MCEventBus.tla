----------------------------- MODULE MCEventBus -----------------------------
(***************************************************************************)
(* Instances of the event bus: "made" is waited for, "sent" is dispatched; *)
(* of the handlers of "sent" h2 dispatches "end" and h4 waits for "made".  *)
(***************************************************************************)
EXTENDS EventBus

MCHandler == {"h1", "h2", "h3", "h4"}
MCEvent == {"made", "sent", "end"}
MCMatching == {<<"h1", "made">>, <<"h3", "made">>, <<"h2", "sent">>, <<"h4", "sent">>, <<"h1", "end">>}
MCWeight == [h \in MCHandler |-> IF h = "h1" THEN 2 ELSE 1]
Does(d, e) == [does |-> d, ev |-> e]
MCBody ==
    [h \in MCHandler |->
        CASE h = "h1" -> [does |-> "succeed"]
          [] h = "h2" -> Does("Dispatch", "end")
          [] h = "h3" -> [does |-> "fail"]
          [] h = "h4" -> Does("WaitFor", "made")]
MCBoot == {"h1", "h2", "h4"}
MCFired == {Does("WaitFor", "made"), Does("Dispatch", "made"), Does("Dispatch", "sent")}
MCChanges == {[does |-> "Register", hs |-> {"h3"}], [does |-> "Unregister", hs |-> {"h1", "h2"}]}
MCScheduled == {"made"}
=============================================================================
