\* getc(), ungetc() of bytes, of EOF and of an int past 255, getdelim() on
\* 'a' and getline(), on every kind of stream; __submore() may fail, and
\* so may the first realloc() of getdelim().  BUFSIZ 4 lets five pushed-back
\* bytes reach both branches of __submore().
CONSTANTS
  Bytes = {10, 97}
  FileContents <- MC_FileContents
  InitFlags <- MC_InitFlags
  UngetArgs <- MC_UngetArgs
  Delims = {97}
  NL = 10
  CallerSizes = {0, 4}
  BUFSIZ = 4
  ReadSize = 2
  FailingAllocs = {"submore", "line_init"}
  MaxStream = 5
  ADDR = ADDR
SPECIFICATION Spec
INVARIANT TypeOK
INVARIANT LineFits
PROPERTY UngetcKeepsReadBuffer
PROPERTY StreamRefined
