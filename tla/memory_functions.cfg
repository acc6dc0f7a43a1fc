SPECIFICATION Spec
INVARIANT CopiesAreExact
INVARIANT FillsAreRight
INVARIANT VectorsStayInBounds
CONSTANTS
  Paragraph = 2
  Word = 1024
  Top = 175
  Stack = 128
  Starts <- MCStarts
  Sizes <- MCSizes
  BlockSizes <- MCBlockSizes
CHECK_DEADLOCK FALSE
