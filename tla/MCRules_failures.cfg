SPECIFICATION ConflictSpec
CONSTANTS
    ClaimIds = {c1, c2, c3}
    Participants = {p1, p2}
    Journeys = {j1, j2}
    NoClaim = NoClaim
    Amounts <- SomeAmounts
    Limits = {2}
    Allowances = {2, 3}
    Bodies <- SomeBodies
    Cites = {"c1", "c2"}
    MaxDrafts = 3
    MaxRules = 2
    RuleIds = {"r1", "r2", "r3"}
    Suite <- FourScenarios
    Required = {"eligibility"}
    Invariants <- IntentReceipt
    Clauses <- OneClause
    Policies <- TwoRules
    Precedences <- Triangles
    Drafts <- SomeDrafts
    MaxOps = 1
INVARIANT NoNewFailureOutsideTargets
CHECK_DEADLOCK FALSE
