\* Two friends, lists the relay looks up in full, two frames under way.
CONSTANTS
  Friends = {a, b}
  NoCorr = none
  Corrs = {c1, c2, c3}
  WhoMax = 2
  FreshTicks = 2
  MaxFlight = 2
SPECIFICATION PresenceFairSpec
INVARIANTS VerdictWasLookedUp
CHECK_DEADLOCK FALSE
PROPERTY NotStranded
