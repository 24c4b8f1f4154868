SPECIFICATION Spec
CONSTANTS
  c1 = c1
  c2 = c2
  p1 = p1
  p2 = p2
  Client = {c1}
  Prompt = {p1, p2}
  Plans <- Answers
  Absent = Absent
  MaxFaults = 0
  MaxCrashes = 0
  MaxRequests = 1
PROPERTIES RegenerateKeepsText
CHECK_DEADLOCK FALSE
