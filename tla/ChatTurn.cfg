\* Two goroutines range over one turn; every event, in any order; a budget of two calls.
CONSTANTS
  Session = s
  Sessions = {s, child}
  Responses = {mine, old}
  Items = {i1, i2}
  Pendings = {p1}
  ToolNames = {"search", "deploy"}
  Registrations <- Registered
  Calls = {c1, c2, c3}
  Prompts = {ask}
  Blank = Blank
  Absent = Absent
  Ends = {"lifecycle"}
  Prior = {old}
  Readers = {g1, g2}
  MaxToolCalls = 0
  DefaultMaxToolCalls = 2
  MaxReads = 3
  Feed <- WholeFeed
SPECIFICATION Spec
INVARIANTS
  OnePrompt
  CallRunsOnce
  RunsWithinBudget
  NoYieldAfterBreak
  RanIsAnswered
  AcceptNeedsConsent
  EndsOneWay
  StartsBalanceEnds
