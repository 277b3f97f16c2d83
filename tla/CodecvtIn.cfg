\* Reading UTF-8 into UTF-16 and UTF-32, in every division into pieces and rooms.
CONSTANTS
    Texts <- MCTexts
    ToUnicode <- Utf8
    MaxRoom = 3
SPECIFICATION FairSpec
INVARIANTS
    PendingIsOtherHalf
PROPERTIES
    InTranscodes
    LengthPredictsIn
CHECK_DEADLOCK FALSE
