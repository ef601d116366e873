CONSTANTS
  Trees <- MCTrees
  Conditions <- MCConditions
  Strings <- MCStrings
  Widths <- MCWidths
SPECIFICATION Spec
INVARIANT ReadsAsMeant
CHECK_DEADLOCK FALSE
