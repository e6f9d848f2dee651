SPECIFICATION sSpec
CONSTANT Suites <- SuitesMade
CONSTANT Registrations <- Savers
CONSTANT Requests <- AllRequests
CONSTANT Clauses = 2
CONSTANT MaxFaults = 3
INVARIANT Inv
INVARIANT ReportIsTruthful
INVARIANT FenceIsRestored
INVARIANT VerdictsAreEarned
INVARIANT EveryLaneSpeaks
