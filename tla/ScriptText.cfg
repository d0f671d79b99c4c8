SPECIFICATION Spec
CONSTANTS
    Symbols <- MCSymbols
    Texts <- MCTexts
    MaxLength = 6
INVARIANTS
    TypeOK
    ParsesTheLanguage
CHECK_DEADLOCK FALSE
