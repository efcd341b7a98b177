\* A batch of two entries, a creation and an approval, in ticks of any size.
SPECIFICATION Spec
CONSTANTS
  h1 = h1
  h2 = h2
  h3 = h3
  h4 = h4
  Handler = {h1, h2, h3, h4}
  Bare = {}
  Creation = {h1}
  Approval = {h2}
  Before <- MCBatch
  Together <- MCTogether
  MaxAttempts = 2
  MaxOther = 0
INVARIANTS
  ConnectionLeftClean
PROPERTIES
  AtomicUnlessCrowded
