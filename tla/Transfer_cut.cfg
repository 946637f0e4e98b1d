\* A body cut off exactly at the bound of a download.
CONSTANTS
  local = local
  here = here
  HERE = HERE
  other = other
  Hosts <- AllHosts
  Fold <- Folding
  Loopbacks = {local}
  maxRedirects = 2
  MaxHops = 3
  DefaultBase <- AtLocal
  defaultUnaryTimeout = 6
  minResponseHeaderTimeout = 3
  defaultStreamIdleTimeout = 2
  Letters = {"x", "y"}
  maxErrorFieldRunes = 3
  MadeFrom <- Made
  Callers <- Calling
  Operations <- AllOperations
  Replies <- Answered
  Statuses = {503}
  Contents <- Readers
  Lengths = {0, 1, 2, 3}
SPECIFICATION TransferSpec
INVARIANT CutIsTold
