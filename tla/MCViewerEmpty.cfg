SPECIFICATION Spec
CONSTANTS
  v1 = v1
  o1 = o1
  s1 = s1
  x1 = x1
  none = none
  p1 = p1
  padded = padded
  wide = wide
  unkeyed = unkeyed
  k1 = k1
  text = text
  session = session
  null = null
  ill = ill
  IDs = {s1}
  ValidIDs = {s1}
  Secrets = {x1}
  Passwords = {none, p1, padded, wide}
  NoPassword = none
  LongPasswords = {}
  DefaultPassword = none
  Keys = {k1}
  NoKey = unkeyed
  Bodies = {text, session, null, ill}
  NoShare = NoShare
  NoBody = NoBody
  MaxSyncItems = 1
  MaxItemBytes = 2
  MaxShareDataBytes = 5
  Viewers = {v1}
  Others = {o1}
  OtherCalls <- MCOtherCalls
  ViewedID = s1
  HeaderValue <- CarriedHeader
  Unsendable = Unsendable
  MaxVersions = 2
  MessageBodies = {text, ill}
  CorruptBodies = {null}
  NullBodies = {null}
  SessionBodies = {session}
  FatalBodies = {ill}
INVARIANT AnsweredPagesLoad
