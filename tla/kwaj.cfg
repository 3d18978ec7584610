SPECIFICATION Spec
CONSTANTS
  Sources <- MCSources
  Archives <- MCArchives
  NameLen = 8
  ExtLen = 3
  InputSize = 2
  HUFF_MAXBITS = 3
  TableBits = 2
  Syms <- MCSyms
  TypeBits = 3
  LenBits = 2
  OffBits = 1
  Window = 8
  Margin = 2
  LowMpos = 4
  LowLen = 2
  Flags = 2
  None = None
INVARIANT UnpackedExact
INVARIANT PackedSame
INVARIANT NamesAgree
CHECK_DEADLOCK FALSE
