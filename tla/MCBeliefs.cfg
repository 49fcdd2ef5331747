SPECIFICATION FairSpec
CONSTANTS
  Houses = {h1, h2}
  Patients = {u1, u2}
  Worlds = {w1, w2}
  Wide = Wide
  MaxCalls = 2
  MaxGates = 2
INVARIANTS RunsAlone Driven
PROPERTIES NothingMislaid EveryTurnComes
CHECK_DEADLOCK FALSE
