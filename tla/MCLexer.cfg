SPECIFICATION FairSpec
CONSTANTS
    Texts <- AllTexts
    MaxTokenLength = 8
INVARIANT TypeOK
PROPERTIES
    ScansLongestLexemes
    Termination
CHECK_DEADLOCK FALSE
