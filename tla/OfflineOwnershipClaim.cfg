CONSTANTS
    t1 = t1  t2 = t2
    Tab = {t1, t2}
    Scenario <- MCTwoTabs
SPECIFICATION Spec
INVARIANT AtMostOneClaimant
