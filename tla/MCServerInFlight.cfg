SPECIFICATION SSpec
CONSTANTS
  Keys <- MCKeys
  MaxProviders = 2
  Requests = {r1}
  HandlerTimeoutSet = TRUE
INVARIANT
  DrainsInFlight
