SPECIFICATION Spec
CONSTANTS
  p1 = p1
  p2 = p2
  p3 = p3
  a = a
  b = b
  s1 = s1
  s2 = s2
  None = None
  Processes <- MCProcesses
  Ports <- MCPorts
  PortOf <- MCPortOf
  Shares <- MCShares
  MaxFailures = 3
INVARIANT OneProcessServes
INVARIANT AnswersSurvive
PROPERTY ServiceComesBack
