\* Any order of presses, typematic repeats and releases of a letter, a
\* digit, Home, Up, both Shift keys and both Ctrl keys, from any keys held
\* at boot: the flags never outlive their keys, and a key pressed with no
\* modifier down sends its unshifted code.
CONSTANTS
  Keys <- MC_Keys
  OOBBytes = {0}
  NoKey = NoKey
SPECIFICATION Spec
INVARIANT TypeOK
INVARIANT FlagsNotStale
PROPERTY PlainKeyTypesItsCharacter
