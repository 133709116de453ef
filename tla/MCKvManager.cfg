SPECIFICATION Spec
CONSTANTS
  Blocks = {b1, b2, b3}
  Hashes = {1, 2}
  Priorities = {0, 1}
  MaxTick = 8
  Requests = {r1, r2}
  Prompts <- SharedPrefix
SYMMETRY Symmetry
INVARIANTS TypeOK IndexesAgree NothingLost Counted OneOwner PrefixMatched InFlightRegistered
CHECK_DEADLOCK FALSE
