CONSTANTS
    t1 = t1  t2 = t2
    Tab = {t1, t2}
    Scenario <- MCScenarios
SPECIFICATION Spec
INVARIANTS CancelWins
PROPERTIES OperationSettles NotLockedOut
