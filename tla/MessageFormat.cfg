SPECIFICATION Spec
CONSTANTS
    Header <- MCHeader
    Line = {"text", "chat", "BEGIN", "cipher", "END"}
    MaxLines = 4
    None = None
INVARIANTS SignatureCovers HeaderCorrect BlockArrives
CHECK_DEADLOCK FALSE
