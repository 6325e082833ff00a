\* A 5 x 3 screen fed text, line feeds, tabs, backspaces and every escape
\* sequence the parser handles but cursor down/forward: the cursor stays on
\* the screen and no parameter outlives its sequence.
CONSTANTS
  VIDEO_WIDTH = 5
  VIDEO_HIGH = 3
  Chars <- MC_Chars
  ParamValues <- MC_ParamValues
  COLOR_BOLD = 2048
SPECIFICATION Spec
INVARIANT TypeOK
INVARIANT CursorOnScreen
INVARIANT ParamsClearOutsideSequence
