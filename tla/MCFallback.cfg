SPECIFICATION Spec
CONSTANTS
  Keys = {k1}
  Parts <- MCParts
  Headers <- MCHeaders
  HeaderSize <- MCHeaderSize
  Images <- MCImages
  Scans <- MCScans
  Zero = "zero"
  Junk = "junk"
  MaxDexSize = 3
  Methods = {1}
  Kinds = {"failure"}
  MapsScan = FALSE
  MaxEvents = 2
  MaxScans = 0
  MaxWriteErrors = 0
INVARIANT NoHalfTruncatedFile
