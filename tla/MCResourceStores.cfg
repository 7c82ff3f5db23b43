CONSTANTS
  k1 = k1 
  k2 = k2
  s1 = s1
  s2 = s2
  w1 = w1
  w2 = w2
  Keys = {k1,k2}
  Workers = {w1,w2}
  Watchers = {s1,s2}
  Watch <- MCWatch
  Contains <- MCContains
  Stores <- MCStores
  MaxRequests = 2
  Absent = Absent
SPECIFICATION Spec
INVARIANTS NoLostUpdate AnswersTrue WatcherFollows
CHECK_DEADLOCK FALSE
SYMMETRY WorkerSymmetry
