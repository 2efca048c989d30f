CONSTANTS
    g1 = g1  g2 = g2
    Names = {"a", "b"}
    MaxRules = 3
    Grants <- MCGrants
    Policies <- MCPolicies
    Queries <- MCQueries
SPECIFICATION Spec
INVARIANTS DenyOverridesIsVeto FirstMatchDecides TraceOffAgrees TraceExplains AccountsAgree RationaleSuffices
CHECK_DEADLOCK FALSE
