\* Every table of three routes and every request.
SPECIFICATION Spec
CONSTANTS
    Methods = {GET, POST}
    Get = GET
    Leads = {"/", "x"}
    Names = {"", "a", "b", "id", "key"}
    Patterns <- MCPatterns
    Paths <- MCPaths
    MaxRoutes = 3
INVARIANTS
    RightRoute
    ExactParams
