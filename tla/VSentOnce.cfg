\* Two instances, no failure at all.
SPECIFICATION Spec
CONSTANTS
  e1 = e1  e2 = e2  p1 = p1  p2 = p2
  Events = {e1, e2}
  Publishers = {p1, p2}
  NoPublisher = NoPublisher
  BatchSize = 2
  MaxFailures = 0
INVARIANT SentOnceUnlessFailed
CHECK_DEADLOCK FALSE
