SPECIFICATION TaskSpec
CONSTANTS
  k1 = k1  k2 = k2
  Tasks = {k1, k2}
  Rank <- MCRank
  MaxConcurrentTasks = 1
  Outcomes = {"success", "failure", "none"}
  MaxSent = 3
PROPERTIES StopReturns
CHECK_DEADLOCK FALSE
