\* A sub-agent's response ends while its parent's turn is read.
CONSTANTS
  Session = s
  Child = child
  Sessions = {s, child}
  Mine = mine
  Old = old
  Sub = sub
  Responses = {mine, old, sub}
  MyItem = i1
  OtherItem = i2
  Items = {i1, i2}
  Pendings = {p1}
  ToolNames = {"search", "deploy"}
  Registrations <- Registered
  Calls = {}
  Prompts = {}
  Blank = Blank
  Absent = Absent
  Ends = {"lifecycle"}
  Prior = {old}
  Readers = {g1}
  MaxToolCalls = 0
  DefaultMaxToolCalls = 2
  MaxReads = 12
  Feed <- AllEvents
  Noise <- Mirrored
SPECIFICATION SessionSpec
INVARIANT AnswerIsOurs
