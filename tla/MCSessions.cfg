SPECIFICATION SessionSpec
CONSTANTS
  c1 = c1
  c2 = c2
  SessionCalls <- MCCalls
  MaxTokens = 3
  MaxChallenges = 1
  MaxOtpAttempts = 2
SYMMETRY Symmetric
INVARIANTS
  RotatedIsRevoked
  NoSessionSurvives
CHECK_DEADLOCK FALSE
