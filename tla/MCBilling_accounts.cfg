SPECIFICATION Spec
CONSTANTS
    Sessions = {s1, s2, s3}
    Operations = {"chat", "recharge", "balance"}
    Trial = 2
    Amount = 2
    Costs = {0, 1, 3}
    DatabaseFails = TRUE
    MaxDebit = 3
    MaxCredit = 2
SYMMETRY SessionSymmetry
INVARIANTS NeverOvercharged SerialAccounts
