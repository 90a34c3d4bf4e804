CONSTANTS
    Accounts = {a1, a2}
    None = None
    MaxNonce = 2
    MaxTokens = 1
    Patient = TRUE
    Lossy = FALSE
SPECIFICATION Spec
INVARIANT TokenOfUser
CHECK_DEADLOCK FALSE
