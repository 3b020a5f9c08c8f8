SPECIFICATION FairSpec
CONSTANTS
    Grammars <- AllGrammars
    Nonterminal <- NonterminalNames
    Inputs <- MCInputs
INVARIANTS
    FollowExact
    StatesCanonical
    CellsJustified
    TablesFitParser
    StackSpells
    AcceptedIsDerived
    RefusedIsWrong
PROPERTY Answered
CHECK_DEADLOCK FALSE
