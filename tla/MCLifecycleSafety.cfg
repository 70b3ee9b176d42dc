SPECIFICATION Spec
CONSTANTS
  c1 = c1
  c2 = c2
  c3 = c3
  c4 = c4
  h1 = h1
  h2 = h2
  narrow = narrow
  wide = wide
  NoCall = NoCall
  NoWidth = NoWidth
  Calls <- MCFourCalls
  Handlers <- MCHandlers
  Widths <- MCWidths
  Caps = {1, 2}
SYMMETRY MCSymmetry
INVARIANTS
  StateHonest
  HandlersCovered
  CallsRetained
  ShutdownFinal
  PublicationCovered
PROPERTIES
  StopEffective
