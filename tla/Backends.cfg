\* Two threads read, change and replace the global backend manager; two threads
\* generate the same and different locales between changes of every option; one
\* backend object of each kind; names of up to five pieces.
CONSTANTS
    t1 = t1
    t2 = t2
    Names <- MCNames
    Categories = {"message", "information"}
    Threads = {t1, t2}
    Compiled <- MCCompiled
    LocaleIds = {"en", "he"}
    Bases = {"classic"}
    Manager0 <- MCManager0
    PerCharacter = {"message"}
    Characters = {"char", "wchar"}
    Domains = {"app"}
    Paths = {"usr"}
    CategorySets <- MCCategorySets
    CharacterSets <- MCCharacterSets
    AnsiValues = {TRUE}
    MaxPaths = 1
    MaxBuilt = 2
    MaxChanges = 3
    WordLength <- MCWordLength
    Pieces <- MCPieces
    Starts <- MCStarts
    MaxPieces = 4
    Ids <- MCIds
    Environments <- MCEnvironments
    Systems <- MCSystems
    Codepages <- MCCodepages
    UserDefault <- en_US
    WindowsName <- MCWindowsName
    InstallCategories <- MCInstallCategories
    CharTypes = {"char", "wchar_t", "char8_t"}
SPECIFICATION MCSpec
SYMMETRY Symmetry
INVARIANTS
    ManagersWellFormed
    OldIsReturned
    NameIsKept
    InstalledIsCurrent
    OneLocale
    NameSpeaks
PROPERTIES
    CachedStays
    ReturnedIsAskedFor
CHECK_DEADLOCK FALSE
