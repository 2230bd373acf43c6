SPECIFICATION Spec
CONSTANTS
  p1 = p1
  p2 = p2
  c1 = c1
  c2 = c2
  Producers = {p1, p2}
  Consumers = {c1, c2}
  Timed = {p2}
  Rounds <- SignalRounds
  SequenceWords = 4
INVARIANTS MutualExclusion NoUnlockLost NoSignalLost
PROPERTY Completes
