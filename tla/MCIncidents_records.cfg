SPECIFICATION Spec
CONSTANTS
  i1 = i1
  s1 = s1
  s2 = s2
  m1 = m1
  c1 = c1
  c2 = c2
  Incident = {i1}
  Submission = {s1, s2}
  Promotion = {m1}
  Verdict <- Worthy
  Process = {c1, c2}
  PageSize = 2
  MaxCommands = 4
  MaxKills = 1
  MaxOthers = 1
SYMMETRY Symmetry
INVARIANTS
  TypeOK
  SubmittedNamesIssue
  PublishedOnce
  FirstIssueStays
  OneIssueOpen
  ExecutedOnce
  CopiesAgree
CHECK_DEADLOCK FALSE
