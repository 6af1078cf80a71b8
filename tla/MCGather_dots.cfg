CONSTANTS
  Word = 256
  Arrays <- SmallArrays
  Items <- PlainAndCast
  Selections <- SmallSelections
  SPAN_GAP_BYTES = 4
  SPAN_MAX_BYTES = 8
SPECIFICATION Spec
INVARIANTS
  DotsSetApart
