SPECIFICATION Spec
CONSTANTS
  c1 = c1
  c2 = c2
  p1 = p1
  p2 = p2
  Client = {c1, c2}
  Prompt = {p1, p2}
  Plans <- Answers
  Absent = Absent
  MaxFaults = 2
  MaxCrashes = 1
  MaxRequests = 2
SYMMETRY Interchangeable
INVARIANTS TypeOK ImagesMatchPrompts ShownIsCharged CompletedIsPublished
CHECK_DEADLOCK FALSE
