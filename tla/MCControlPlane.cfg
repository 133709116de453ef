SPECIFICATION Spec
CONSTANTS
  Callers = {c1, c2}
  Socks = {s1, s2, s3}
  MaxIdle = 1
  MaxCalls = 2
SYMMETRY CallerSymmetry
INVARIANTS TypeOK OneHolder AnswersMatch RunsBounded AcceptedRuns ListedIsServed
CHECK_DEADLOCK FALSE
