SPECIFICATION FairSpec
CONSTANTS
    Sessions = {s1}
    Operations = {"chat", "recharge", "balance"}
    Trial = 2
    Amount = 4
    Costs = {1}
    DatabaseFails = FALSE
    MaxDebit = 4
    MaxCredit = 4
PROPERTIES DryWalletRecovers
