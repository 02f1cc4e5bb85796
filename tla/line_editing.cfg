CONSTANTS
  Key <- EveryKey
  KeyAfter = {"enter", "wide2", "left", "delete"}
  Size = 6
  Past <- OneLine
SPECIFICATION Spec
INVARIANT LineFits CursorWhole CursorShown
PROPERTY EditsCharacters
