SPECIFICATION Spec
CONSTANTS
    Raises = Raises
    Absent = Absent
    NoCallback = NoCallback
    LimbBits = 4
    Precision = 6
    ByteBits = 2
    Worlds = {"bigint", "bytes", "string", "regexp"}
    Operands <- MCOperands
    Places = {"accessor", "proxy"}
    Widths = {0, 1, 4, 5, 7, 8, 9, 12}
    Radices = {2, 10, 16}
    Doubles <- MCDoubles
    Limit = 300
    PowLimit = 9
    BufferBytes = 4
    Calls <- MCCalls
    StringCalls <- MCStringCalls
    MaxText = 3
    LeadLength <- MCLeadLength
    Order <- MCOrder
    Spaces = {" ", "nl"}
    Lowered <- MCLower
    Raised <- MCRaised
    Blank = " "
    Alphabet <- MCAlphabet
    Newline = "nl"
    Shorthands <- MCShorthands
    WideChars = {"e"}
    Wide <- MCWide
    Lower <- MCLower
    MaxGroups = 4
    MaxRep = 300
    MaxDepth = 3
    MaxLoopDepth = 4
    LbScan = 8
    MaxSteps = 2000
    MaxBt = 400
    Patterns <- MCPatterns
    Misspelt <- MCMisspelt
    Indices = {0, 1, 3, 4}
INVARIANTS
    BigIntsAreExact
    ViewsMeanWhatTheySay
    TextsMeanWhatTheySay
CHECK_DEADLOCK FALSE
