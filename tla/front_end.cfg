SPECIFICATION Spec
CONSTANTS
  Texts <- MCTexts
  Programs <- MCPrograms
  Layouts <- MCLayouts
  TextLength = 4
  WordsLength = 3
INVARIANTS CutIntoLongest PositionsAreExact ReadsBack
CHECK_DEADLOCK FALSE
