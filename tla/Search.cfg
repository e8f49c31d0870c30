SPECIFICATION Spec
CONSTANTS
    NoNode = NoNode
    Unit = 2
    maxCapacityPolicyValidValues = 3
    AllocationResultsMaxSize = 3
    maxConstraintSearchBranches = 8
    Inputs <- AnyInput
INVARIANTS
    TypeOK
    PlanIsValid
    NoMatchIsExhaustive
    PreferenceRespected
    AgreesWithClaimPlan
