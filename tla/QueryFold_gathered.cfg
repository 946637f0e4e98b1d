\* A turn that fails after part of its answer.
CONSTANTS
  p = p
  q = q
  c1 = c1
  coder = coder
  helper = helper
  Responses = {p}
  Model <- OneModel
  Calls = {c1}
  Blank = Blank
  Feed <- TurnFeed
  threshold = 3
  Patience = {99}
  MaxEvents = 4
SPECIFICATION QuerySpec
INVARIANT KeepsWhatItGathered
