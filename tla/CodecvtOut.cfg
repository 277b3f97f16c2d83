\* Writing UTF-16 and UTF-32, in every division into pieces and rooms.
CONSTANTS
    Texts <- MCTexts
    FromUnicode <- NoEuro
    LittleEndian = TRUE
    MaxRoom = 4
SPECIFICATION FairSpec
INVARIANTS
    StoredIsLastRead
PROPERTIES
    OutTranscodes
CHECK_DEADLOCK FALSE
