\* One of two overlapping responses ends, and the stream drops.
CONSTANTS
  p = p
  q = q
  c1 = c1
  coder = coder
  helper = helper
  Responses = {p, q}
  Model <- ModelOf
  Calls = {c1}
  Blank = Blank
  Feed <- OverlapFeed
  threshold = 3
  Patience = {2, 99}
  MaxEvents = 5
SPECIFICATION QuerySpec
INVARIANT SalvagesSpeaking
