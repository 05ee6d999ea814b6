CONSTANTS
  Handles = {h1, h2}
  FirstHandle = h1
  WordShift = 2
  Sizes = {4, 8}
  Half = 32
  MaxRequest = 10
  MaxSequence = 21
SPECIFICATION Spec
INVARIANTS
  FindsPublished
  ClaimsInv
  PublishesWhatFits
PROPERTIES
  ImplementsClaims
