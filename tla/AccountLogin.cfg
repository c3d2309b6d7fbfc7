SPECIFICATION LoginSpec
CONSTANTS
  Callers = {c1, c2}
CHECK_DEADLOCK FALSE
INVARIANTS OutcomeFinal AnswerFollowsPrompt ToldIsTrue OneAnswerToSpare
PROPERTIES LoopReturns LoopListens
