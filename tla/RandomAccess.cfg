SPECIFICATION FairSpec
CONSTANTS
  Ue = {u1, u2}
  Preamble = {1, 2}
  MaxAttempts = 2
  RntiSpace = 4
  MaxRnti = 4
  MaxGhosts = 0
  RachTypes = {"FOUR_STEP", "TWO_STEP"}
  AnswerLate = {u1}
INVARIANTS IdentityIsOwn AttemptIsTimed
PROPERTIES FourStepAccessIsFinal AccessCompletes
CHECK_DEADLOCK FALSE
