SPECIFICATION Spec
CONSTANTS
  Boulders = 1
  Barrels = 2
  Nuggets = 1
  HP = 3
  PROTESTERHP = 5
  SQUIRTS = 1
  WAIT = 2
  HEIGHT = 1
  LIVES = 2
  LEVELS = 1
  MADE = 1
INVARIANTS ActorsAccounted
PROPERTIES FairEnds LevelGoesOn
CHECK_DEADLOCK FALSE
