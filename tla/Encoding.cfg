\* Texts of up to four bytes or three 16-bit units, and every text of up to four units
\* that goes through iconv with a buffer of four units.
CONSTANTS
    Bytes <- MCBytes
    Words <- MCWords
    PageReads <- Read1
    PageWrites <- Write1
    IsDBCSLeadByteEx <- Lead
    Checked = TRUE
    Jobs <- MCJobs
    Decode <- IconvDecode
    Encode <- IconvEncode
    Unshift <- IconvUnshift
    Room = 4
    Tables <- MCTables
    hash_table_size = 5
    Code <- IconvCode
    Chars <- IconvChars
SPECIFICATION MCSpec
INVARIANTS
    DecodeIsExact
    BuildDoesNotShow
    TextSurvives
    BufferDoesNotShow
    CharacterByCharacter
PROPERTIES
    ConversionEnds
CHECK_DEADLOCK FALSE
