SPECIFICATION Spec
CONSTANTS
  a = a
  b = b
  big = big
  None = None
  Sessions = {"s"}
  Candidates <- MCCandidates
  AgentOf <- MCAgentOf
  ModelOf <- MCModelOf
  Grade <- MCGrade
  GroupOf <- MCGroupOf
  Order <- MCOrder
  Router <- MCRouter
  Views <- MCViews
  Options <- MCOptions
  Profiles <- MCProfiles
  Evaluators = {b}
  Pool = {a, b}
  SkillPool = {big}
  Choices = {b}
  Asks <- MCAsks
  Failures = {"auth"}
  Hits = {"usage"}
  ReuseIds = FALSE
  Saves = {TRUE}
  MaxPrompts = 2
  MaxFaults = 2
  MaxAttempts = 2
  MaxEscalations = 1
INVARIANTS
    NoLeak
    
    PickHonoured
PROPERTIES
    TurnEnds
CHECK_DEADLOCK FALSE
