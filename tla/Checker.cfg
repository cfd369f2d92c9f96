\* Two checks at once, that share a parent context, of two targets.
CONSTANTS
  Callers = {g1, g2}
  Targets = {t1, t2}
  None = None
SPECIFICATION FairSpec
INVARIANTS
  OutcomeIsTrue
  NeverPanics
PROPERTIES
  ImplementsTargetChecker
