SPECIFICATION Spec
CONSTANTS
  Tools <- AllTools
  MaxKills = 1
INVARIANTS ReadsBack NoJunkSaved RegReadBack PatternHolds
PROPERTY Answered
CHECK_DEADLOCK FALSE
