SPECIFICATION Spec
CONSTANTS
  Absent = Absent
  Empty = Empty
  NotData = NotData
  NoKey = NoKey
  u1 = u1
  a1 = a1
  u2 = u2
  a2 = a2
  p1 = p1
  p2 = p2
  p3 = p3
  text = text
  reminder = reminder
  InjectedTexts = {reminder}
  Batches <- UntimedBatches
  MaxEvents = 4
CHECK_DEADLOCK FALSE
INVARIANT AnswersToInjectedStayAside
