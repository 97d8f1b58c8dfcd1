----------------------------- MODULE RbacRules -----------------------------
(***************************************************************************)
(* How access rules decide (pkg/rbac/ruleset_checks.go, roles.go,          *)
(* resource.go).  A resource is the sequence of the references after its   *)
(* type, each an identifier or the wildcard; a rule gives one role one     *)
(* access to one operation on the resources its pattern matches.           *)
(*                                                                         *)
(* Rules of one level are met in the order of a Go map and of a sort that  *)
(* is not stable, so the evaluation is the set of the answers it can give. *)
(***************************************************************************)
EXTENDS Naturals, Sequences, FiniteSets

CONSTANTS
    Role,       \* role identifiers
    Resource,   \* patterns and resources: sequences over references
    Operation,
    CtxHolds(_, _)  \* does the expression of the contextual role hold for the resource?

ASSUME ResourceAssumption == \A r \in Resource : r \in Seq({r[i] : i \in DOMAIN r})

Wildcard == "*"
Access   == {"Inherit", "Allow", "Deny"}
Key      == [role : Role, res : Resource, op : Operation]
Rule     == [key : Key, access : Access, dirty : BOOLEAN]
RoleKind == {"common", "anonymous", "authenticated", "context", "bypass"}

hasWildcards(r) == \E i \in 1..Len(r) : r[i] = Wildcard

(* path.Match: a wildcard stands for one reference and never for two.      *)
matchResource(matcher, r) ==
    IF matcher = r THEN ~hasWildcards(r)
    ELSE /\ Len(matcher) = Len(r)
         /\ \A i \in 1..Len(r) : matcher[i] \in {Wildcard, r[i]}

\* mutant: from the first reference to the last
levelFromFirst(r) ==
    LET score[i \in 0..Len(r)] ==
            IF i = 0 THEN 0
            ELSE 10 * score[i - 1] + (IF r[i] = Wildcard THEN 0 ELSE 1)
    IN  score[Len(r)]
(* From the last reference to the first: ten times the score so far, and   *)
(* one for a reference that is not a wildcard.                             *)
level(r) ==
    LET score[i \in 1..(Len(r) + 1)] ==
            IF i = Len(r) + 1 THEN 0
            ELSE 10 * score[i + 1] + (IF r[i] = Wildcard THEN 0 ELSE 1)
    IN  score[1]

(* The roles of a session by kind.  A contextual role is every session's,  *)
(* where its expression holds; any other one only its members'.            *)
getContextRoles(member, r, roles) ==
    [kind \in RoleKind |->
        {id \in DOMAIN roles :
            /\ roles[id] = kind
            /\ IF kind = "context" THEN CtxHolds(id, r) ELSE id \in member}]

(* Sorted by level, most specific first; the first rule that matches and   *)
(* does not inherit decides.                                               *)
checkRulesByResource(set, r) ==
    LET deciding == {rule \in set : /\ matchResource(rule.key.res, r)
                                    /\ rule.access # "Inherit"}
        first    == {rule \in deciding :
                        \A other \in deciding : level(other.key.res) <= level(rule.key.res)}
    IN  IF deciding = {} THEN {"Inherit"} ELSE {rule.access : rule \in first}

Niche == <<"context", "common", "authenticated", "anonymous">>

(* partRoles is an array of all kinds, so its length exceeds one for every *)
(* session: whoever is a member of an anonymous role is denied.            *)
evaluate(indexed, byKind, op, r) ==
    LET rulesOf(kind) == {rule \in indexed : /\ rule.key.op = op
                                             /\ rule.key.role \in byKind[kind]}
        answer(kind)  == checkRulesByResource(rulesOf(kind), r)
        says          == {n \in 1..Len(Niche) : answer(Niche[n]) # {"Inherit"}}
    IN  IF byKind["anonymous"] # {} THEN {"Deny"}
        ELSE IF byKind["bypass"] # {} THEN {"Allow"}
        ELSE IF indexed = {} \/ says = {} THEN {"Inherit"}
        ELSE answer(Niche[CHOOSE n \in says : \A o \in says : n <= o])
=============================================================================
