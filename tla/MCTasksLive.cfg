CONSTANTS
  n1 = n1 n2 = n2 w1 = w1 w2 = w2 w3 = w3 c1 = c1 s1 = s1 s2 = s2
  NoSnap = NoSnap
  Nodes = {n1, n2}
  Workers = {w1, w3}
  Home <- MCHome
  Clients = {c1}
  Names = {s1}
  MaxAttempts = 2
  Timeout = 1
  Backoff = 1
  Spec_ = 2
  MaxTime = 5
  MaxID = 3
  Workloads <- LiveWorkloads
SPECIFICATION Spec
CHECK_DEADLOCK FALSE
PROPERTY DueServed
