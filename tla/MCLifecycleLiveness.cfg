SPECIFICATION FairSpec
CONSTANTS
  c1 = c1
  c2 = c2
  c3 = c3
  c4 = c4
  h1 = h1
  h2 = h2
  narrow = narrow
  wide = wide
  NoCall = NoCall
  NoWidth = NoWidth
  Calls <- MCThreeCalls
  Handlers <- MCOneHandler
  Widths <- MCWidths
  Caps = {1}
PROPERTIES
  EveryCallReturns
