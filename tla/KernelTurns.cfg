CONSTANTS
  idle = idle
  low = low
  mid = mid
  high = high
  None = None
  Threads <- MCThreads
  Idle = idle
  Mutexes = {m1}
  Conds = {c}
  Base <- MCBase
  Prios = {3}
  Quantum = 2
  MayUndercut = FALSE
SPECIFICATION Spec
PROPERTY RoundRobin
