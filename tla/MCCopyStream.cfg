CONSTANTS
    BufferLen = 3
    MaxBody = 5
    MaxFileSize = 4
SPECIFICATION Spec
INVARIANTS
    TypeOK
    WrittenIsBody
    WrittenHasHeader
    WholeFooterIsFound
