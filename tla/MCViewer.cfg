CONSTANTS
  Glyphs <- MCGlyphs
  Texts <- MCTexts
  Widths = {3, 5}
  MaxRows = 2
  LedgerCap = 7
  Finals = 1
  Layouts = 1
SPECIFICATION Spec
INVARIANTS
  HypothesisShown
  ScreenIsTheLedger
PROPERTIES
  PaintedStays
