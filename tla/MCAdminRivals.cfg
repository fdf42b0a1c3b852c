SPECIFICATION Spec
CONSTANTS
  t1 = t1
  t2 = t2
  o1 = o1
  s1 = s1
  s2 = s2
  x1 = x1
  x2 = x2
  none = none
  p1 = p1
  unkeyed = unkeyed
  k1 = k1
  text = text
  IDs = {s1}
  ValidIDs = {s1}
  Secrets = {x1}
  Passwords = {none, p1}
  NoPassword = none
  LongPasswords = {}
  DefaultPassword = p1
  Keys = {k1}
  NoKey = unkeyed
  Bodies = {text}
  NoShare = NoShare
  NoBody = NoBody
  MaxSyncItems = 1
  MaxItemBytes = 1
  MaxShareDataBytes = 3
  Tasks = {t1, t2}
  Others = {o1}
  OtherCalls <- RivalCalls
  NoID = NoID
  StartDBs <- OneShare
SYMMETRY Symmetry
PROPERTY SavedRowIsFresh
