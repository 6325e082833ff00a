\* getdelim() whose doubling realloc() returns NULL: the bytes read are
\* gone from the stream, and the call returns the address of the old
\* buffer instead of -1 or their number.
CONSTANTS
  Bytes = {10, 97}
  FileContents <- MC_FileContents
  InitFlags <- MC_InitFlags
  UngetArgs <- MC_UngetArgs
  Delims = {97}
  NL = 10
  CallerSizes = {0, 4}
  BUFSIZ = 4
  ReadSize = 2
  FailingAllocs = {"line_grow"}
  MaxStream = 5
  ADDR = ADDR
SPECIFICATION Spec
PROPERTY StreamRefined
