SPECIFICATION FairSpec
CONSTANTS
  r1 = r1
  r2 = r2
  s1 = s1
  s2 = s2
  bad = bad
  x1 = x1
  x2 = x2
  none = none
  p1 = p1
  long = long
  k1 = k1
  k2 = k2
  unkeyed = unkeyed
  b1 = b1
  b2 = b2
  IDs = {s1}
  ValidIDs = {s1}
  Requests = {r1, r2}
  Secrets = {x1, x2}
  Passwords = {none, p1, long}
  NoPassword = none
  LongPasswords = {long}
  DefaultPassword = none
  Keys = {k1, k2}
  NoKey = unkeyed
  Bodies = {b1, b2}
  NoShare = NoShare
  NoBody = NoBody
  NoRequest = NoRequest
  MaxSyncItems = 3
  MaxItemBytes = 5
  MaxShareDataBytes = 10
  MaxClock = 1
  Calls <- TimeCalls
INVARIANT IInv
PROPERTY LivesAreStable
PROPERTY RetiredSecretsStayRetired
PROPERTY EveryCallAnswered
