\* ESC [ B (cursor down) on a 5 x 3 screen.
CONSTANTS
  VIDEO_WIDTH = 5
  VIDEO_HIGH = 3
  Chars <- MC_CharsDown
  ParamValues <- MC_ParamValues
  COLOR_BOLD = 2048
SPECIFICATION Spec
INVARIANT CursorOnScreen
