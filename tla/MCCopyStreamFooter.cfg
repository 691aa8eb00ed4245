CONSTANTS
    BufferLen = 3
    MaxBody = 4
    MaxFileSize = 4
SPECIFICATION Spec
INVARIANT
    SplitFooterIsFound
