\* One turn under either end rule, parked on a call or on an approval.
CONSTANTS
  Session = s
  Child = child
  Sessions = {s, child}
  Mine = mine
  Old = old
  Sub = sub
  Responses = {mine, old, sub}
  MyItem = i1
  OtherItem = i2
  Items = {i1, i2}
  Pendings = {p1}
  ToolNames = {"search", "deploy"}
  Registrations <- Registered
  Calls = {c1}
  Prompts = {ask}
  Blank = Blank
  Absent = Absent
  Ends = {"idle", "lifecycle"}
  Prior = {old}
  Readers = {g1}
  MaxToolCalls = 0
  DefaultMaxToolCalls = 2
  MaxReads = 12
  Feed <- AllEvents
  Noise <- Disturbances
SPECIFICATION SessionSpec
INVARIANTS
  AnswerIsOurs
  FailureIsOurs
PROPERTIES
  TurnEnds
