SPECIFICATION Spec
CONSTANTS
    r1 = r1  r2 = r2  r3 = r3
    Request <- MCRequest
    Tx <- MCTx
    Balance <- MCBalance
    Scenario <- MCScenario
    Unreadable = {"broken"}
    Object = {"o1", "o2", "o3", "o4"}
    None = None
INVARIANTS
    EveryAnswerComplete
