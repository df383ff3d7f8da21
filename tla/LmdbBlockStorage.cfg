SPECIFICATION Spec
CONSTANTS
  a = a
  b = b
  c = c
  Hash = {a, b, c}
  Version = {1, 2}
  NoBlock = NoBlock
  Reader = {r1}
  r1 = r1
  Size <- MCSize
  Space <- MCSpace
  Overhead = 1
  InitialSize = 2
  Attempts = 4
INVARIANT TypeOK
INVARIANT HeadersBacked
PROPERTY ResizeAlone
PROPERTY IsBlockCache
