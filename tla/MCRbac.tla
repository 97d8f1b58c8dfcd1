------------------------------- MODULE MCRbac -------------------------------
(***************************************************************************)
(* Instances of the access control service.                                *)
(***************************************************************************)
EXTENDS Rbac

MCRole == {"r1", "r2"}
MCOperation == {"read"}
\* the records of a namespace, one of them, and the namespace's pattern
MCResource == {<<"1", "2">>, <<"*", "2">>, <<"1", "*">>}
MCCtxHolds(id, r) == r[1] = "1"

K(role, res) == [key |-> [role |-> role, res |-> res, op |-> "read"], access |-> "Allow"]
With(g, a) == [g EXCEPT !.access = a]
Narrow == <<"1", "2">>
Wide   == <<"1", "*">>
Across == <<"*", "2">>

MCGrants ==
    {<<K("r1", Narrow)>>, <<With(K("r1", Narrow), "Inherit")>>,
     <<K("r1", Wide), With(K("r2", Narrow), "Deny")>>,
     <<With(K("r2", Narrow), "Inherit"), With(K("r1", Across), "Deny")>>}
MCClones == {[from |-> "r1", to |-> <<"r2">>]}
MCSetups == {("r1" :> "common" @@ "r2" :> "context"), ("r1" :> "authenticated" @@ "r2" :> "common")}
Sym == Permutations(Client)
MCImports == {[key |-> K("r2", Narrow).key, access |-> "Allow"]}
=============================================================================
