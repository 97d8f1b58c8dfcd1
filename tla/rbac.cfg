CONSTANTS
    Role <- MCRole
    Operation <- MCOperation
    Resource <- MCResource
    CtxHolds <- MCCtxHolds
    Client = {c1, c2}
    NoClient = NoClient
    Generation = {1, 2, 3, 4, 5, 6}
    Grants <- MCGrants
    Clones <- MCClones
    Setups <- MCSetups
    Imports <- MCImports
    MaxCalls = 3
SPECIFICATION Spec
INVARIANTS TypeOK CacheMirrorsStore GrantDurable CheckMeansStore
PROPERTIES CloneExact
SYMMETRY Sym
