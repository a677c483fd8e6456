\* Two publisher instances that poll for ever, one failure.
SPECIFICATION FairSpec
CONSTANTS
  e1 = e1  e2 = e2  p1 = p1  p2 = p2
  Events = {e1, e2}
  Publishers = {p1, p2}
  NoPublisher = NoPublisher
  BatchSize = 2
  MaxFailures = 1
INVARIANTS TypeOK ClaimsAreExclusive NoEventLost CopiesAreBounded
PROPERTY DeliversAtLeastOnce
\* When all is published, nothing is left to do.
CHECK_DEADLOCK FALSE
