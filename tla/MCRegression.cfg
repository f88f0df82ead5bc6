SPECIFICATION Spec
CONSTANTS
    Alphabet <- MCAlphabet
    UpperOf <- MCUpperOf
    Utf8Length <- MCUtf8Length
    MaxNumeral = 20
    Folders <- MCFolders
    Sessions <- MCSessions
    Files <- MCFiles
    ExampleSessions <- MCExampleSessions
INVARIANTS
    ComparedRight
    ListedRight
    
PROPERTY ReportsWhole
CHECK_DEADLOCK FALSE
