SPECIFICATION GatewaySpec
CONSTANTS MaxFlips = 2 MaxCustom = 2
INVARIANTS TypesOK HandoverFits OnlyAdmitted SidesRespected SurvivesOneFailure CallsSettle FailureIsTold
CHECK_DEADLOCK FALSE
