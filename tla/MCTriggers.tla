----------------------------- MODULE MCTriggers -----------------------------
(***************************************************************************)
(* A workflow with two triggers, of which the second has no run-as user    *)
(* with the first version of the workflow.                                 *)
(***************************************************************************)
EXTENDS Triggers

MCTrigger == {"t1", "t2"}
MCVersion == {"v1", "v2", "bad"}
MCBroken == {"bad"}
MCNoRunAs == {<<"v1", "t2">>}
Upd(b, v) == [what |-> "update", enabled |-> b, version |-> v]
MCEdits == {[what |-> "delete"], [what |-> "undelete"], Upd(TRUE, "v1"), Upd(TRUE, "v2"), Upd(TRUE, "bad"), Upd(FALSE, "v1")}
On(v) == [enabled |-> TRUE, deleted |-> FALSE, version |-> v]
Off(v) == [enabled |-> FALSE, deleted |-> FALSE, version |-> v]
MCStores ==
    {[wf |-> Absent, triggers |-> [t \in MCTrigger |-> Absent]],
     [wf |-> On("v1"), triggers |-> [t1 |-> On("v1"), t2 |-> Absent]],
     [wf |-> On("v2"), triggers |-> [t1 |-> On("v1"), t2 |-> Off("v2")]]}
Sym == Permutations(Client)
=============================================================================
