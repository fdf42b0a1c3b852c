SPECIFICATION Spec
CONSTANTS
  Absent = Absent
  Empty = Empty
  NotData = NotData
  s1 = s1
  m1 = m1
  m2 = m2
  p1 = p1
  p2 = p2
  p3 = p3
  c1 = c1
  f1 = f1
  v1 = v1
  n1 = n1
  text = text
  other = other
  InjectedTexts = {other}
  FencedTexts = {}
  LongTexts = {}
  DiffTexts = {}
  Slug <- MCSlug
  Inputs <- MCInputs
  MaxRecords = 4
INVARIANT ProvenanceIsExact
INVARIANT ViewsAgree
INVARIANT EdgesLeadToNodes
INVARIANT PassesAgreeOnOrder
INVARIANT FilesListedOnce
INVARIANT EverythingRenderedOnce
INVARIANT SourcesLeadHome
INVARIANT CountsMatchLists
INVARIANT TurnsAgree
PROPERTY NeverPoorer
CHECK_DEADLOCK FALSE
