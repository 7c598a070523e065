CONSTANTS
  b1 = b1
  b2 = b2
  Junk = Junk
  Byte = {b1, b2}
  SzBuf = 2
  MaxData = 3
  MaxContent = 4
SPECIFICATION Spec
INVARIANT TypeOK
PROPERTIES IsByteQueue GrowsWithContent
