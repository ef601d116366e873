CONSTANTS
  Trees <- MCTrees
  Conditions <- MCConditions
  Strings <- MCStrings
  Widths <- MCWidths
  Control <- MCControl
  BytesOf <- MCBytesOf
  Inputs <- MCInputs
  NoName = NoName
  NoTable = NoTable
  Columns <- MCColumns
  Rank <- MCRank
SPECIFICATION AnswerSpec
INVARIANTS ReadsAsHeld  BufferHoldsText ReadsBack  ReturnsAsAsked 
CHECK_DEADLOCK FALSE
