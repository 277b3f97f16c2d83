\* UTF-16 texts with NULs and digits, converted by the Windows API.
CONSTANTS
    Bytes <- MCBytes
    Words <- MCWords
    PageReads <- Read1
    PageWrites <- Write1
    IsDBCSLeadByteEx <- Lead
    Checked = TRUE
    Jobs <- PageJobs
    Decode <- IconvDecode
    Encode <- IconvEncode
    Unshift <- IconvUnshift
    Room = 4
    Tables <- MCTables
    hash_table_size = 5
    Code <- IconvCode
    Chars <- IconvChars
SPECIFICATION MCSpec
INVARIANT KeepsNul
CHECK_DEADLOCK FALSE
