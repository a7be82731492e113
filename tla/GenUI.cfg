\* Two tools, two fragments of their inputs cut anywhere, one reset.
CONSTANTS
  Tool = {t1, t2}
  None = None
  MaxChunk = 2
  MaxReset = 1
SPECIFICATION GenSpec
SYMMETRY ToolSymmetry
INVARIANTS GenTypeOK PartialIsPartOfFinal
PROPERTIES PropsOnlyGrow
CHECK_DEADLOCK FALSE
