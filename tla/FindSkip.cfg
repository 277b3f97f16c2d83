\* Texts of a double-byte code page go through iconv.
CONSTANTS
    Bytes <- MCBytes
    Words <- MCWords
    PageReads <- Read1
    PageWrites <- Write1
    IsDBCSLeadByteEx <- Lead
    Checked = TRUE
    Jobs <- PageJobs
    Decode <- IconvDecode
    Encode <- IconvEncode
    Unshift <- IconvUnshift
    Room = 4
    Tables <- MCTables
    hash_table_size = 5
    Code <- IconvCode
    Chars <- IconvChars
SPECIFICATION MCSpec
INVARIANT SkipsCharacters
CHECK_DEADLOCK FALSE
