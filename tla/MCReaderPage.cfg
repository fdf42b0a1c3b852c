SPECIFICATION Spec
CONSTANTS
  Absent = Absent
  Empty = Empty
  NotData = NotData
  m1 = m1
  m2 = m2
  m3 = m3
  m4 = m4
  p1 = p1
  p2 = p2
  p3 = p3
  c1 = c1
  plain = plain
  fenced = fenced
  long = long
  diff = diff
  reminder = reminder
  InjectedTexts = {reminder}
  FencedTexts = {fenced}
  LongTexts = {long}
  DiffTexts = {diff}
  Nothing = Nothing
  Slug <- MCSlug
  Elements <- MCElements
  Pages <- MCPages
  MaxClicks = 5
  MaxEdits = 4
INVARIANT StateIsOnScreen
INVARIANT DiffNumbersAreTrue
PROPERTY LabelsReturn
CHECK_DEADLOCK FALSE
