\* Two tool threads, every role, a budget that ends in each possible way.
SPECIFICATION LiveSpec
CONSTANTS
    Thread = {t1, t2}
    MaxCalls = 7
    MaxTurns = 5
    MaxUsd = 2
    MaxBatch = 7
    MaxPrice = 1
INVARIANTS TypeOK SuccessIsWithinBudget BudgetsAgree UsageIsKept EvidenceBacksClaims
PROPERTY EndsInOutcome
\* An orchestration ends.
CHECK_DEADLOCK FALSE
